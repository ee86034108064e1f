-------------------------- MODULE EventPipelineProofs --------------------------
(***************************************************************************)
(* Whatever clients post, retry and abandon, a machine's batches stay one  *)
(* verifiable chain (EventIngest); and what the sink writes is stored once *)
(* and accounted for (EventPipeline), for any number of events, requests,  *)
(* stops and outages, and any sizes of the queue, the batches and the      *)
(* spool.  And of what the control plane makes of the stored events        *)
(* (Inventory): whose work they are, where somebody mapped it; what of     *)
(* what is paid can be saved; when a value is announced as first seen; and *)
(* that every table and page says what the events do.                      *)
(***************************************************************************)
EXTENDS EventPipeline, Inventory, FiniteSetTheorems, FunctionTheorems, SequenceTheorems,
        NaturalsInduction, WellFoundedInduction, TLAPS

-----------------------------------------------------------------------------
\* The chain, for any clients.

\* The open transaction is the one that holds the lock, and the end of the
\* chain it read is still the end: what makes ChainVerifies inductive.
LockHeld ==
  \A h \in Slots : reqs[h].pc = "locked" => lock = h /\ reqs[h].prev = Len(chain)

ChainInv == IngestTypeOK /\ LockHeld /\ ChainVerifies

-----------------------------------------------------------------------------
\* A request that is not in the transaction changes neither the chain nor the
\* lock, so it keeps the invariant as long as it does not enter.
LEMMA OutsideTransaction ==
  ASSUME ChainInv, NEW h \in Slots, NEW r,
         r \in [pc : {"free"} \cup Working \cup Answers, batch : Batches, prev : Nat],
         r.pc # "locked", reqs' = [reqs EXCEPT ![h] = r],
         lock' = lock \/ (lock = h /\ lock' = NoSlot),
         chain' = chain, followed' \subseteq Nat, revoked' \in BOOLEAN
  PROVE  ChainInv'
<1>1. IngestTypeOK'
  BY DEF ChainInv, IngestTypeOK
<1>2. LockHeld'
  <2> SUFFICES ASSUME NEW g \in Slots, reqs'[g].pc = "locked"
               PROVE  lock' = g /\ reqs'[g].prev = Len(chain')
    BY DEF LockHeld
  <2>1. g # h
    BY DEF ChainInv, IngestTypeOK
  <2>2. reqs'[g] = reqs[g]
    BY <2>1 DEF ChainInv, IngestTypeOK
  <2> QED BY <2>1, <2>2 DEF ChainInv, LockHeld
<1>3. ChainVerifies'
  BY DEF ChainInv, ChainVerifies, VerifyEvents
<1> QED BY <1>1, <1>2, <1>3 DEF ChainInv

\* Arriving, being answered, following up, failing and leaving.
LEMMA KeepsOutside ==
  ASSUME ChainInv, NEW h \in Slots,
         \/ \E b \in Batches : Arrive(h, b)
         \/ FollowUp(h) \/ ServerFails(h) \/ Leave(h)
  PROVE  ChainInv'
<1> USE DEF ChainInv, IngestTypeOK, Working, Answers
<1>1. CASE \E b \in Batches : Arrive(h, b)
  <2> PICK b \in Batches : Arrive(h, b)
    BY <1>1
  <2> DEFINE r == [pc |-> IF revoked \/ b.torn THEN "refused" ELSE "authorized", batch |-> b, prev |-> 0]
  <2>1. /\ r \in [pc : {"free"} \cup Working \cup Answers, batch : Batches, prev : Nat]
        /\ r.pc # "locked"
    OBVIOUS
  <2> QED BY <2>1, OutsideTransaction DEF Arrive
<1>2. CASE FollowUp(h)
  <2>1. [reqs[h] EXCEPT !.pc = "ok"] \in [pc : {"free"} \cup Working \cup Answers, batch : Batches, prev : Nat]
    OBVIOUS
  <2>2. reqs' = [reqs EXCEPT ![h] = [reqs[h] EXCEPT !.pc = "ok"]] /\ [reqs[h] EXCEPT !.pc = "ok"].pc # "locked"
    BY <1>2 DEF FollowUp, Goto
  <2>3. followed' \subseteq Nat
    BY <1>2 DEF FollowUp, Batches
  <2> QED BY <1>2, <2>1, <2>2, <2>3, OutsideTransaction DEF FollowUp
<1>3. CASE ServerFails(h)
  <2>1. PICK answer \in {"retry", "refused"} : reqs' = [reqs EXCEPT ![h].pc = answer]
    BY <1>3 DEF ServerFails, Goto
  <2> DEFINE r == [reqs[h] EXCEPT !.pc = answer]
  <2>2. r \in [pc : {"free"} \cup Working \cup Answers, batch : Batches, prev : Nat] /\ r.pc # "locked"
    OBVIOUS
  <2>3. reqs' = [reqs EXCEPT ![h] = r]
    BY <2>1
  <2> QED BY <1>3, <2>2, <2>3, OutsideTransaction DEF ServerFails, Unlock
<1>4. CASE Leave(h)
  <2>1. Free \in [pc : {"free"} \cup Working \cup Answers, batch : Batches, prev : Nat] /\ Free.pc # "locked"
    BY DEF Free, NoBatch, Batches
  <2> QED BY <1>4, <2>1, OutsideTransaction DEF Leave, Unlock
<1> QED BY <1>1, <1>2, <1>3, <1>4

\* The transaction's two steps.
LEMMA KeepsBegin == ASSUME ChainInv, NEW h \in Slots, Begin(h) PROVE ChainInv'
<1>1. CASE IsStored(reqs[h].batch.id)
  <2>1. [reqs[h] EXCEPT !.pc = "ok"] \in [pc : {"free"} \cup Working \cup Answers, batch : Batches, prev : Nat]
    BY DEF ChainInv, IngestTypeOK, Answers
  <2>2. reqs' = [reqs EXCEPT ![h] = [reqs[h] EXCEPT !.pc = "ok"]] /\ [reqs[h] EXCEPT !.pc = "ok"].pc # "locked"
    BY <1>1 DEF Begin, Goto, ChainInv, IngestTypeOK
  <2> QED BY <1>1, <2>1, <2>2, OutsideTransaction DEF Begin, ChainInv, IngestTypeOK
<1>2. CASE ~IsStored(reqs[h].batch.id)
  <2>0. Len(chain) \in Nat
    BY DEF ChainInv, IngestTypeOK
  <2> DEFINE r == [reqs[h] EXCEPT !.pc = "locked", !.prev = Len(chain)]
  <2>a. r \in [pc : {"free"} \cup Working \cup Answers, batch : Batches, prev : Nat]
    BY <2>0 DEF ChainInv, IngestTypeOK, Working
  <2>b. reqs' = [reqs EXCEPT ![h] = r]
    BY <1>2 DEF Begin, ChainInv, IngestTypeOK
  <2>1. IngestTypeOK'
    <3> HIDE DEF r
    <3> QED BY <1>2, <2>a, <2>b DEF Begin, ChainInv, IngestTypeOK
  <2>2. LockHeld'
    <3> SUFFICES ASSUME NEW g \in Slots, reqs'[g].pc = "locked"
                 PROVE  lock' = g /\ reqs'[g].prev = Len(chain')
      BY DEF LockHeld
    <3>1. g = h
      BY <1>2, IngestAssumption DEF Begin, ChainInv, LockHeld, IngestTypeOK
    <3> QED BY <1>2, <3>1 DEF Begin, ChainInv, IngestTypeOK
  <2>3. ChainVerifies'
    BY <1>2 DEF Begin, ChainInv, ChainVerifies, VerifyEvents
  <2> QED BY <2>1, <2>2, <2>3 DEF ChainInv
<1> QED BY <1>1, <1>2

LEMMA KeepsCommit == ASSUME ChainInv, NEW h \in Slots, Commit(h) PROVE ChainInv'
<1> DEFINE b == reqs[h].batch
           row == [id |-> b.id, events |-> b.events, prev |-> reqs[h].prev]
<1>0. /\ reqs[h] \in [pc : {"free"} \cup Working \cup Answers, batch : Batches, prev : Nat]
      /\ chain \in Seq(Stored) /\ Len(chain) \in Nat
      /\ reqs[h].pc = "locked" /\ lock = h /\ reqs[h].prev = Len(chain) /\ lock' = NoSlot
  BY DEF ChainInv, IngestTypeOK, LockHeld, Commit, Unlock
<1>1. CASE IsStored(b.id)
  <2>1. [reqs[h] EXCEPT !.pc = "retry"] \in [pc : {"free"} \cup Working \cup Answers, batch : Batches, prev : Nat]
    BY <1>0 DEF Answers
  <2>2. reqs' = [reqs EXCEPT ![h] = [reqs[h] EXCEPT !.pc = "retry"]] /\ [reqs[h] EXCEPT !.pc = "retry"].pc # "locked"
    BY <1>0, <1>1 DEF Commit, Goto
  <2> QED BY <1>0, <1>1, <2>1, <2>2, OutsideTransaction DEF Commit, ChainInv, IngestTypeOK
<1>2. CASE ~IsStored(b.id)
  <2>1. /\ chain' = Append(chain, row) /\ row \in Stored
        /\ reqs' = [reqs EXCEPT ![h].pc = "committed"]
        /\ followed' = followed /\ revoked' = revoked
    BY <1>0, <1>2 DEF Commit, Goto, Stored, Batches
  <2>2. /\ Len(chain') = Len(chain) + 1 /\ chain' \in Seq(Stored) /\ chain'[Len(chain) + 1] = row
        /\ \A i \in 1..Len(chain) : chain'[i] = chain[i]
    BY <1>0, <2>1
  <2>3. IngestTypeOK'
    BY <1>0, <2>1, <2>2 DEF ChainInv, IngestTypeOK, Working
  <2>4. LockHeld'
    <3> SUFFICES ASSUME NEW g \in Slots, reqs'[g].pc = "locked" PROVE FALSE
      BY DEF LockHeld
    <3>1. g # h /\ reqs[g].pc = "locked"
      BY <2>1 DEF ChainInv, IngestTypeOK
    <3> QED BY <1>0, <3>1 DEF ChainInv, LockHeld
  <2>5. ChainVerifies'
    <3> SUFFICES ASSUME NEW i \in 1..(Len(chain) + 1)
                 PROVE  /\ chain'[i].prev = i - 1
                        /\ \A j \in 1..(Len(chain) + 1) : chain'[j].id = chain'[i].id => i = j
      BY <1>0, <2>2 DEF ChainVerifies, VerifyEvents
    <3>1. \A k \in 1..Len(chain) : chain[k].prev = k - 1 /\ chain[k].id # b.id
      BY <1>0, <1>2 DEF ChainInv, ChainVerifies, VerifyEvents, IsStored
    <3>2. \A k, j \in 1..Len(chain) : chain[j].id = chain[k].id => k = j
      BY <1>0 DEF ChainInv, ChainVerifies, VerifyEvents
    <3>3. chain'[i].prev = i - 1
      BY <1>0, <2>2, <3>1
    <3>4. \A j \in 1..(Len(chain) + 1) : chain'[j].id = chain'[i].id => i = j
      BY <1>0, <2>2, <3>1, <3>2
    <3> QED BY <3>3, <3>4
  <2> QED BY <2>3, <2>4, <2>5 DEF ChainInv
<1> QED BY <1>1, <1>2

LEMMA KeepsChainInv == ChainInv /\ [IngestNext]_ingestVars => ChainInv'
<1> SUFFICES ASSUME ChainInv, [IngestNext]_ingestVars PROVE ChainInv'
  OBVIOUS
<1>1. ASSUME NEW h \in Slots,
             \/ \E b \in Batches : Arrive(h, b)
             \/ FollowUp(h) \/ ServerFails(h) \/ Leave(h)
      PROVE  ChainInv'
  BY <1>1, KeepsOutside
<1>2. ASSUME NEW h \in Slots, Begin(h) PROVE ChainInv'
  BY <1>2, KeepsBegin
<1>3. ASSUME NEW h \in Slots, Commit(h) PROVE ChainInv'
  BY <1>3, KeepsCommit
<1>4. CASE Revoke
  BY <1>4 DEF Revoke, ChainInv, IngestTypeOK, LockHeld, ChainVerifies, VerifyEvents
<1>5. CASE UNCHANGED ingestVars
  BY <1>5 DEF ingestVars, ChainInv, IngestTypeOK, LockHeld, ChainVerifies, VerifyEvents
<1> QED BY <1>1, <1>2, <1>3, <1>4, <1>5 DEF IngestNext

LEMMA IngestStarts == IngestInit => ChainInv
<1> SUFFICES ASSUME IngestInit PROVE ChainInv
  OBVIOUS
<1>1. Free \in [pc : {"free"} \cup Working \cup Answers, batch : Batches, prev : Nat] /\ Free.pc = "free"
  BY DEF Free, NoBatch, Batches
<1>2. IngestTypeOK
  <2>1. reqs \in [Slots -> [pc : {"free"} \cup Working \cup Answers, batch : Batches, prev : Nat]]
    BY <1>1 DEF IngestInit
  <2>2. chain \in Seq(Stored)
    BY DEF IngestInit
  <2> QED BY <2>1, <2>2 DEF IngestInit, IngestTypeOK
<1>3. LockHeld /\ ChainVerifies
  BY <1>1 DEF IngestInit, LockHeld, ChainVerifies, VerifyEvents
<1> QED BY <1>2, <1>3 DEF ChainInv

-----------------------------------------------------------------------------
\* The chain verifies for every number of requests, clients and batches: a
\* transaction that reads the end of the chain under the lock (ingest) links to
\* it, and a batch id is stored once.
THEOREM ChainAlwaysVerifies == IngestSpec => []ChainVerifies
<1>1. ChainInv => ChainVerifies
  BY DEF ChainInv
<1> QED BY <1>1, IngestStarts, KeepsChainInv, PTL DEF IngestSpec

-----------------------------------------------------------------------------
\* The pipeline: the inductive invariant.

\* A batch by its id and its events, wherever a copy of it is.
Body(b) == [id |-> b.id, events |-> b.events]
ChainBodies == {Body(chain[i]) : i \in DOMAIN chain}
Bodies ==
  {Body(f) : f \in ToSet(spool)} \cup {Body(loop.batch)}
  \cup {Body(reqs[h].batch) : h \in Slots} \cup ChainBodies
Memory == ToSet(queue) \cup batch

Shape(a)    == IF a.events = {} THEN a.id = 0 ELSE a.id \in a.events
Agree(a, b) == a.events \cap b.events # {} => a = b

\* An event is in memory, once, or in the copies of one batch, not in both.
OneBody ==
  /\ \A a \in Bodies : Shape(a) /\ a.events \subseteq 1..written /\ a.events \cap Memory = {}
  /\ \A a, b \in Bodies : Agree(a, b)
  /\ Memory \subseteq 1..written
  /\ \A i, j \in DOMAIN queue : queue[i] = queue[j] => i = j
  /\ ToSet(queue) \cap batch = {}

\* The loop delivers a new batch or the oldest file, and removes a file only
\* when its events are settled.
LoopInv ==
  /\ loop.pc = "selecting" => loop = Selecting
  /\ loop.pc \in {"selecting", "replaying"} => loop.batch = NoBatch /\ ~loop.file /\ ~loop.final
  /\ loop.pc \in {"posting", "spooling", "removing"} => loop.batch.events # {}
  /\ loop.file => /\ loop.pc \in {"posting", "removing"} /\ loop.n < ReplayMax
                  /\ spool # <<>> /\ loop.batch = Head(spool)
  /\ loop.final => daemon = "closing" /\ queue = <<>> /\ batch = {} /\ ~loop.file
  /\ loop.pc = "removing" => loop.file /\ loop.batch.events \subseteq sent \cup dropped

SpoolInv ==
  /\ \A i \in DOMAIN spool : spool[i].events # {}
  /\ ~loop.file /\ loop.batch.events # {} => \A i \in DOMAIN spool : spool[i].id # loop.batch.id

\* An answer "ok" is about a stored batch, and the loop waits for its own batch.
Answered ==
  /\ \A h \in Slots : reqs[h].pc \in {"committed", "ok"} => Body(reqs[h].batch) \in ChainBodies
  /\ loop.slot # NoSlot => /\ reqs[loop.slot].pc # "free"
                           /\ Body(reqs[loop.slot].batch) = Body(loop.batch)

PipeInv == ChainInv /\ OneBody /\ LoopInv /\ SpoolInv /\ Answered /\ SentIsStored /\ Accounted
-----------------------------------------------------------------------------
\* Sequences of events and files as sets.

LEMMA ToSetAppend ==
  ASSUME NEW S, NEW s \in Seq(S), NEW e \in S
  PROVE  ToSet(Append(s, e)) = ToSet(s) \cup {e}
<1>1. /\ Len(s) \in Nat /\ DOMAIN s = 1..Len(s) /\ DOMAIN Append(s, e) = 1..(Len(s) + 1)
      /\ Append(s, e)[Len(s) + 1] = e /\ \A i \in 1..Len(s) : Append(s, e)[i] = s[i]
  BY LenProperties
<1>2. QED BY <1>1 DEF ToSet

LEMMA ToSetTail ==
  ASSUME NEW S, NEW s \in Seq(S), s # <<>>
  PROVE  /\ Tail(s) \in Seq(S) /\ Head(s) = s[1] /\ 1 \in DOMAIN s
         /\ \A i \in DOMAIN Tail(s) : i + 1 \in DOMAIN s /\ Tail(s)[i] = s[i + 1]
         /\ ToSet(s) = {Head(s)} \cup ToSet(Tail(s))
<1>1. /\ Tail(s) \in Seq(S) /\ Len(Tail(s)) = Len(s) - 1
      /\ \A i \in 1..Len(Tail(s)) : Tail(s)[i] = s[i + 1]
  BY HeadTailProperties
<1>2. Len(s) \in Nat \ {0} /\ DOMAIN s = 1..Len(s) /\ DOMAIN Tail(s) = 1..(Len(s) - 1)
  BY <1>1, LenProperties, EmptySeq
<1>3. Head(s) = s[1]
  OBVIOUS
<1>4. ToSet(s) \subseteq {Head(s)} \cup ToSet(Tail(s))
  <2> SUFFICES ASSUME NEW i \in 1..Len(s), i # 1 PROVE s[i] \in ToSet(Tail(s))
    BY <1>2, <1>3 DEF ToSet
  <2>1. i - 1 \in 1..(Len(s) - 1) /\ Tail(s)[i - 1] = s[i]
    BY <1>1, <1>2
  <2>2. QED BY <1>2, <2>1 DEF ToSet
<1>5. {Head(s)} \cup ToSet(Tail(s)) \subseteq ToSet(s)
  BY <1>1, <1>2, <1>3 DEF ToSet
<1>6. QED BY <1>1, <1>2, <1>3, <1>4, <1>5

\* What is left of the spool once room is made, and what goes.
LEMMA MakeRoom ==
  ASSUME spool \in Seq(Batches)
  PROVE  /\ Room \in Seq(Batches)
         /\ \A i \in DOMAIN Room : i + Evicted \in DOMAIN spool /\ Room[i] = spool[i + Evicted]
         /\ ToSet(Room) \subseteq ToSet(spool) /\ Evicted \in Nat
         /\ \A f \in ToSet(spool) : f \in ToSet(Room) \/ f.events \subseteq EvictedEvents
         /\ EvictedEvents \subseteq UNION {f.events : f \in ToSet(spool)}
<1>1. Len(spool) \in Nat /\ DOMAIN spool = 1..Len(spool) /\ \A i \in 1..Len(spool) : spool[i] \in Batches
  BY LenProperties, ElementOfSeq
<1>2. Evicted \in Nat /\ Evicted <= Len(spool)
  BY <1>1, PipelineAssumption DEF Evicted
<1>3. /\ Room \in Seq(Batches) /\ Len(Room) = Len(spool) - Evicted
      /\ \A i \in 1..(Len(spool) - Evicted) : Room[i] = spool[i + Evicted]
  <2>1. \A i \in (Evicted + 1)..Len(spool) : spool[i] \in Batches
    BY <1>1, <1>2
  <2>2. /\ Room \in Seq(Batches)
        /\ Len(Room) = IF Evicted + 1 <= Len(spool) THEN Len(spool) - (Evicted + 1) + 1 ELSE 0
        /\ \A i \in 1..(Len(spool) - (Evicted + 1) + 1) : Room[i] = spool[Evicted + 1 + i - 1]
    BY <1>1, <1>2, <2>1, SubSeqProperties DEF Room
  <2>3. Len(spool) - (Evicted + 1) + 1 = Len(spool) - Evicted
    BY <1>1, <1>2
  <2>4. Len(Room) = Len(spool) - Evicted
    <3>1. Len(spool) \in Int /\ Evicted \in Int /\ Evicted <= Len(spool)
      BY <1>1, <1>2
    <3>2. CASE Evicted + 1 <= Len(spool)
      BY <2>2, <2>3, <3>2
    <3>3. CASE ~(Evicted + 1 <= Len(spool))
      <4>1. Len(Room) = 0
        BY <2>2, <3>3
      <4>2. Len(spool) = Evicted
        BY <3>1, <3>3
      <4>3. QED BY <3>1, <4>1, <4>2
    <3>4. QED BY <3>2, <3>3
  <2>5. \A i \in 1..(Len(spool) - Evicted) : Evicted + 1 + i - 1 = i + Evicted
    BY <1>1, <1>2
  <2>6. ASSUME NEW i \in 1..(Len(spool) - Evicted) PROVE Room[i] = spool[i + Evicted]
    <3>1. Room[i] = spool[Evicted + 1 + i - 1]
      BY <2>2, <2>3
    <3>2. QED BY <2>5, <3>1
  <2>7. QED BY <2>2, <2>4, <2>6
<1>4. DOMAIN Room = 1..(Len(spool) - Evicted)
  BY <1>3, LenProperties
<1>5. \A i \in DOMAIN Room : i + Evicted \in DOMAIN spool /\ Room[i] = spool[i + Evicted]
  BY <1>1, <1>2, <1>3, <1>4
<1>6. ASSUME NEW i \in 1..Len(spool) PROVE spool[i] \in ToSet(Room) \/ spool[i].events \subseteq EvictedEvents
  <2>1. CASE i <= Evicted
    BY <1>2, <2>1 DEF EvictedEvents
  <2>2. CASE i > Evicted
    <3>1. i - Evicted \in DOMAIN Room /\ Room[i - Evicted] = spool[i]
      BY <1>1, <1>2, <1>3, <1>4, <2>2
    <3>2. QED BY <3>1 DEF ToSet
  <2>3. QED BY <1>1, <1>2, <2>1, <2>2
<1>7. EvictedEvents \subseteq UNION {f.events : f \in ToSet(spool)}
  BY <1>1, <1>2 DEF EvictedEvents, ToSet
<1>8. QED BY <1>1, <1>2, <1>3, <1>5, <1>6, <1>7 DEF ToSet

\* A batch is named by one of its events.
LEMMA FirstOfIn == ASSUME NEW es \in SUBSET Nat, es # {} PROVE FirstOf(es) \in es
<1>1. \E e \in es : \A f \in es : ~(<<f, e>> \in OpToRel(<, Nat))
  BY NatLessThanWellFounded, WFMin
<1>2. \A e, f \in Nat : f < e => <<f, e>> \in OpToRel(<, Nat)
  BY DEF OpToRel
<1>3. \E e \in es : \A f \in es : ~(f < e)
  BY <1>1, <1>2
<1>4. \E e \in es : \A f \in es : e <= f
  BY <1>3
<1>5. QED BY <1>4 DEF FirstOf
-----------------------------------------------------------------------------
\* The pipeline is one of the clients EventIngest leaves open.

LEMMA SinkOnly ==
  ASSUME \/ Write \/ Tick \/ TakeEvent \/ FinalFlush \/ Spool \/ Replay \/ RemoveFile
         \/ SendFails \/ ProbeDue \/ Close \/ Crash \/ Start \/ OutageBegins \/ OutageEnds
  PROVE  reqs' = reqs /\ lock' = lock /\ chain' = chain /\ followed' = followed /\ revoked' = revoked
  BY DEF Write, Tick, TakeEvent, FinalFlush, Spool, Replay, RemoveFile, SendFails, ProbeDue, Close,
         Crash, Start, OutageBegins, OutageEnds, network

LEMMA StepIsIngest ==
  ASSUME loop.batch \in Batches, loop.slot \in Slots \cup {NoSlot}, [Next]_pipeVars
  PROVE  [IngestNext]_ingestVars
<1>1. CASE \/ Write \/ Tick \/ TakeEvent \/ FinalFlush \/ Spool \/ Replay \/ RemoveFile
           \/ SendFails \/ ProbeDue \/ Close \/ Crash \/ Start \/ OutageBegins \/ OutageEnds
  BY <1>1, SinkOnly DEF ingestVars
<1>2. CASE Send
  BY <1>2 DEF Send, IngestNext
<1>3. CASE Reply
  <2>1. loop.slot \in Slots /\ Leave(loop.slot)
    BY <1>3 DEF Reply
  <2>2. QED BY <2>1 DEF IngestNext
<1>4. CASE RevokeEndpoint
  BY <1>4 DEF RevokeEndpoint, IngestNext
<1>5. ASSUME NEW h \in Slots, Serve(h) \/ Break(h) \/ CutOff(h) PROVE IngestNext
  BY <1>5 DEF Serve, Break, CutOff, IngestNext
<1>6. CASE UNCHANGED pipeVars
  BY <1>6 DEF pipeVars, ingestVars
<1>7. QED BY <1>1, <1>2, <1>3, <1>4, <1>5, <1>6 DEF Next, Sending

LEMMA LoopFields ==
  ASSUME loop \in Loops
  PROVE  /\ loop.batch \in Batches /\ loop.slot \in Slots \cup {NoSlot}
         /\ loop.pc \in {"selecting", "posting", "spooling", "replaying", "removing"}
         /\ loop.left \in 0..Attempts /\ loop.n \in 0..ReplayMax
  BY DEF Loops

-----------------------------------------------------------------------------
\* Where batches are after a step.

Empty == Body(NoBatch)

\* Two batches of one id are copies of one.
LEMMA SameId ==
  ASSUME OneBody, NEW a \in Bodies, NEW b \in Bodies, a.id = b.id
  PROVE  a = b
<1>1. /\ Shape(a) /\ Shape(b) /\ a.events \subseteq 1..written /\ b.events \subseteq 1..written
      /\ Agree(a, b)
  BY DEF OneBody
<1>2. PICK x, y : a = Body(x) /\ b = Body(y)
  BY DEF Bodies, ChainBodies
<1>3. a = [id |-> a.id, events |-> a.events] /\ b = [id |-> b.id, events |-> b.events]
  BY <1>2 DEF Body
<1>4. CASE a.events = {} /\ b.events = {}
  BY <1>3, <1>4
<1>5. CASE a.events = {} /\ b.events # {}
  BY <1>1, <1>5 DEF Shape
<1>6. CASE a.events # {} /\ b.events = {}
  BY <1>1, <1>6 DEF Shape
<1>7. CASE a.events # {} /\ b.events # {}
  BY <1>1, <1>7 DEF Shape, Agree
<1>8. QED BY <1>4, <1>5, <1>6, <1>7

\* No new batch, and nothing new in memory.
LEMMA OldBodies ==
  ASSUME OneBody, Bodies' \subseteq Bodies \cup {Empty}, Memory' \subseteq Memory,
         written' = written, ToSet(queue') \cap batch' = {},
         \A i, j \in DOMAIN queue' : queue'[i] = queue'[j] => i = j
  PROVE  OneBody'
<1>1. Empty.events = {} /\ Empty.id = 0
  BY DEF Empty, Body, NoBatch
<1>2. \A a \in Bodies' : Shape(a) /\ a.events \subseteq 1..written /\ a.events \cap Memory = {}
  BY <1>1 DEF OneBody, Shape
<1>3. \A a, b \in Bodies' : Agree(a, b)
  BY <1>1 DEF OneBody, Agree
<1>4. Memory' \subseteq 1..written'
  BY DEF OneBody
<1>5. \A a \in Bodies' : Shape(a) /\ a.events \subseteq 1..written' /\ a.events \cap Memory' = {}
  BY <1>2
<1> HIDE DEF Empty
<1>6. QED BY <1>3, <1>4, <1>5 DEF OneBody, Shape, Agree

LEMMA BodiesFrom ==
  ASSUME NEW new,
         \A f \in ToSet(spool') : Body(f) \in Bodies \cup {new},
         Body(loop'.batch) \in Bodies \cup {new},
         \A h \in Slots : Body(reqs'[h].batch) \in Bodies \cup {new},
         ChainBodies' \subseteq Bodies \cup {new}
  PROVE  Bodies' \subseteq Bodies \cup {new}
<1>1. Bodies' = {Body(f) : f \in ToSet(spool')} \cup {Body(loop'.batch)}
                \cup {Body(reqs'[h].batch) : h \in Slots} \cup ChainBodies'
  BY DEF Bodies, ToSet, Body
<1>2. QED BY <1>1

\* The server's steps on one request: its batch stays or is forgotten, and the
\* chain gets no other batch.
LEMMA ServerBodies ==
  ASSUME IngestTypeOK, NEW h \in Slots,
         Begin(h) \/ Commit(h) \/ FollowUp(h) \/ ServerFails(h) \/ Leave(h)
  PROVE  /\ \A g \in Slots : Body(reqs'[g].batch) \in {Body(reqs[g].batch), Empty}
         /\ \A g \in Slots \ {h} : reqs'[g] = reqs[g]
         /\ ChainBodies \subseteq ChainBodies'
         /\ ChainBodies' \subseteq ChainBodies \cup {Body(reqs[h].batch)}
         /\ Begin(h) \/ Commit(h) \/ FollowUp(h) \/ ServerFails(h) =>
              reqs'[h].pc # "free" /\ reqs'[h].batch = reqs[h].batch
<1>1. /\ \A g \in Slots \ {h} : reqs'[g] = reqs[g]
      /\ Leave(h) => reqs'[h] = Free
      /\ Begin(h) \/ Commit(h) \/ FollowUp(h) \/ ServerFails(h) =>
           reqs'[h].pc # "free" /\ reqs'[h].batch = reqs[h].batch
  BY DEF Begin, Commit, FollowUp, ServerFails, Leave, Goto, IngestTypeOK
<1>2. \A g \in Slots : Body(reqs'[g].batch) \in {Body(reqs[g].batch), Empty}
  BY <1>1 DEF Free, Empty
<1>3. CASE chain' = chain
  BY <1>1, <1>2, <1>3 DEF ChainBodies
<1>4. CASE Commit(h) /\ chain' # chain
  <2> DEFINE row == [id |-> reqs[h].batch.id, events |-> reqs[h].batch.events, prev |-> reqs[h].prev]
  <2>1. chain' = Append(chain, row) /\ Body(row) = Body(reqs[h].batch)
    BY <1>4 DEF Commit, Body
  <2>2. row \in Stored /\ chain \in Seq(Stored)
    BY DEF IngestTypeOK, Stored, Batches
  <2> HIDE DEF row
  <2>3. /\ Len(chain) \in Nat /\ DOMAIN chain = 1..Len(chain) /\ DOMAIN chain' = 1..(Len(chain) + 1)
        /\ chain'[Len(chain) + 1] = row /\ \A i \in 1..Len(chain) : chain'[i] = chain[i]
    BY <2>1, <2>2, LenProperties
  <2>4. ChainBodies' = {Body(chain'[i]) : i \in DOMAIN chain'}
    BY DEF ChainBodies, Body
  <2>5. ChainBodies' = ChainBodies \cup {Body(row)}
    BY <2>3, <2>4 DEF ChainBodies
  <2>6. QED BY <1>1, <1>2, <2>1, <2>5
<1>5. QED BY <1>3, <1>4 DEF Begin, Commit, FollowUp, ServerFails, Leave

\* An answer "ok" is about a stored batch: of the same id, hence the same events.
LEMMA ServerAnswers ==
  ASSUME IngestTypeOK, OneBody, NEW h \in Slots,
         Begin(h) \/ Commit(h) \/ FollowUp(h) \/ ServerFails(h) \/ Leave(h),
         \A g \in Slots : reqs[g].pc \in {"committed", "ok"} => Body(reqs[g].batch) \in ChainBodies
  PROVE  \A g \in Slots : reqs'[g].pc \in {"committed", "ok"} => Body(reqs'[g].batch) \in ChainBodies'
<1>1. /\ \A g \in Slots \ {h} : reqs'[g] = reqs[g]
      /\ ChainBodies \subseteq ChainBodies'
      /\ Begin(h) \/ Commit(h) \/ FollowUp(h) \/ ServerFails(h) =>
           reqs'[h].pc # "free" /\ reqs'[h].batch = reqs[h].batch
  BY ServerBodies
<1>2. ASSUME reqs'[h].pc \in {"committed", "ok"} PROVE Body(reqs'[h].batch) \in ChainBodies'
  <2>1. CASE Begin(h)
    <3>1. IsStored(reqs[h].batch.id) /\ reqs'[h].batch = reqs[h].batch
      BY <1>2, <2>1 DEF Begin, Goto, IngestTypeOK
    <3>2. PICK i \in DOMAIN chain : chain[i].id = reqs[h].batch.id
      BY <3>1 DEF IsStored
    <3>3. Body(chain[i]) \in Bodies /\ Body(reqs[h].batch) \in Bodies /\ Body(chain[i]) \in ChainBodies
      BY DEF Bodies, ChainBodies
    <3>4. Body(chain[i]).id = Body(reqs[h].batch).id
      BY <3>2 DEF Body
    <3>5. Body(chain[i]) = Body(reqs[h].batch)
      BY <3>3, <3>4, SameId
    <3>6. QED BY <1>1, <3>1, <3>3, <3>5
  <2>2. CASE Commit(h)
    <3> DEFINE row == [id |-> reqs[h].batch.id, events |-> reqs[h].batch.events, prev |-> reqs[h].prev]
    <3>1. chain' = Append(chain, row) /\ reqs'[h].batch = reqs[h].batch
      BY <1>2, <2>2 DEF Commit, Goto, IngestTypeOK
    <3>2. row \in Stored /\ chain \in Seq(Stored) /\ Body(row) = Body(reqs[h].batch)
      BY DEF IngestTypeOK, Stored, Batches, Body
    <3> HIDE DEF row
    <3>3. Len(chain) + 1 \in DOMAIN chain' /\ chain'[Len(chain) + 1] = row
      BY <3>1, <3>2, LenProperties
    <3>4. Body(row) \in ChainBodies'
      BY <3>3 DEF ChainBodies, Body
    <3>5. QED BY <3>1, <3>2, <3>4
  <2>3. CASE FollowUp(h)
    BY <1>1, <2>3 DEF FollowUp, Goto, IngestTypeOK
  <2>4. CASE ServerFails(h)
    BY <1>2, <2>4 DEF ServerFails, Goto, IngestTypeOK
  <2>5. CASE Leave(h)
    BY <1>2, <2>5 DEF Leave, Free, IngestTypeOK
  <2>6. QED BY <2>1, <2>2, <2>3, <2>4, <2>5
<1>3. ASSUME NEW g \in Slots \ {h}, reqs'[g].pc \in {"committed", "ok"}
      PROVE  Body(reqs'[g].batch) \in ChainBodies'
  BY <1>1, <1>3
<1>4. QED BY <1>2, <1>3
LEMMA StoredGrows ==
  ASSUME ChainBodies \subseteq ChainBodies'
  PROVE  /\ StoredEvents \subseteq StoredEvents'
         /\ \A x : Body(x) \in ChainBodies' => x.events \subseteq StoredEvents'
<1>1. \A x : Body(x).events = x.events
  BY DEF Body
<1>2. \A e : e \in StoredEvents => \E a \in ChainBodies : e \in a.events
  BY <1>1 DEF StoredEvents, ChainBodies
<1>3. \A a \in ChainBodies' : a.events \subseteq StoredEvents'
  <2> SUFFICES ASSUME NEW i \in DOMAIN chain' PROVE Body(chain'[i]).events \subseteq StoredEvents'
    BY DEF ChainBodies, Body
  <2>1. QED BY <1>1 DEF StoredEvents
<1>4. QED BY <1>1, <1>2, <1>3

-----------------------------------------------------------------------------
\* Steps of the control plane, and of its network.
LEMMA ServerKeeps ==
  ASSUME TypeOK, PipeInv, ChainInv', NEW h \in Slots, Serve(h) \/ Break(h) \/ CutOff(h)
  PROVE  TypeOK' /\ PipeInv'
<1>1. /\ Begin(h) \/ Commit(h) \/ FollowUp(h) \/ ServerFails(h) \/ (Leave(h) /\ loop.slot # h)
      /\ UNCHANGED sinkVars
  BY DEF Serve, Break, CutOff
<1>2. IngestTypeOK /\ IngestTypeOK'
  BY DEF PipeInv, ChainInv
<1>3. TypeOK'
  BY <1>1, <1>2 DEF TypeOK, sinkVars
<1>4. /\ \A g \in Slots : Body(reqs'[g].batch) \in {Body(reqs[g].batch), Empty}
      /\ \A g \in Slots \ {h} : reqs'[g] = reqs[g]
      /\ ChainBodies \subseteq ChainBodies'
      /\ ChainBodies' \subseteq ChainBodies \cup {Body(reqs[h].batch)}
      /\ Begin(h) \/ Commit(h) \/ FollowUp(h) \/ ServerFails(h) =>
           reqs'[h].pc # "free" /\ reqs'[h].batch = reqs[h].batch
  BY <1>1, <1>2, ServerBodies
<1>5. OneBody'
  <2>1. /\ \A f \in ToSet(spool') : Body(f) \in Bodies
        /\ Body(loop'.batch) \in Bodies
        /\ \A g \in Slots : Body(reqs[g].batch) \in Bodies
        /\ ChainBodies \subseteq Bodies
    BY <1>1 DEF Bodies, sinkVars
  <2>2. Bodies' \subseteq Bodies \cup {Empty}
    BY <1>4, <2>1, BodiesFrom
  <2>3. Memory' = Memory /\ written' = written /\ queue' = queue /\ batch' = batch
    BY <1>1 DEF Memory, sinkVars, ToSet
  <2>4. QED BY <2>2, <2>3, OldBodies DEF PipeInv, OneBody
<1>6. LoopInv' /\ SpoolInv' /\ Accounted'
  BY <1>1 DEF PipeInv, LoopInv, SpoolInv, Accounted, sinkVars
<1>7. Answered'
  <2>1. \A g \in Slots : reqs'[g].pc \in {"committed", "ok"} => Body(reqs'[g].batch) \in ChainBodies'
    BY <1>1, <1>2, ServerAnswers DEF PipeInv, Answered
  <2>2. loop.slot # NoSlot => /\ reqs'[loop.slot].pc # "free"
                              /\ Body(reqs'[loop.slot].batch) = Body(loop.batch)
    <3> SUFFICES ASSUME loop.slot # NoSlot
                 PROVE  /\ reqs'[loop.slot].pc # "free"
                        /\ Body(reqs'[loop.slot].batch) = Body(loop.batch)
      OBVIOUS
    <3>1. loop.slot \in Slots
      BY LoopFields DEF TypeOK
    <3>2. CASE loop.slot = h
      BY <1>1, <1>4, <3>2 DEF PipeInv, Answered, Leave, Begin, Commit, FollowUp, ServerFails, Working
    <3>3. CASE loop.slot # h
      BY <1>4, <3>1, <3>3 DEF PipeInv, Answered
    <3>4. QED BY <3>2, <3>3
  <2>3. loop' = loop
    BY <1>1 DEF sinkVars
  <2>4. QED BY <2>1, <2>2, <2>3 DEF Answered, Body
<1>8. SentIsStored'
  BY <1>1, <1>4, StoredGrows DEF PipeInv, SentIsStored, sinkVars
<1>9. QED BY <1>3, <1>5, <1>6, <1>7, <1>8 DEF PipeInv

LEMMA RevokeKeeps ==
  ASSUME TypeOK, PipeInv, ChainInv', RevokeEndpoint
  PROVE  TypeOK' /\ PipeInv'
<1>1. reqs' = reqs /\ chain' = chain /\ UNCHANGED sinkVars
  BY DEF RevokeEndpoint, Revoke
<1>2. TypeOK'
  BY <1>1 DEF TypeOK, sinkVars, ChainInv
<1>3. OneBody'
  BY <1>1 DEF PipeInv, OneBody, Bodies, ChainBodies, Memory, sinkVars
<1>4. LoopInv' /\ SpoolInv' /\ Accounted'
  BY <1>1 DEF PipeInv, LoopInv, SpoolInv, Accounted, sinkVars
<1>5. Answered' /\ SentIsStored'
  BY <1>1 DEF PipeInv, Answered, SentIsStored, StoredEvents, ChainBodies, sinkVars
<1>6. QED BY <1>2, <1>3, <1>4, <1>5 DEF PipeInv

-----------------------------------------------------------------------------
\* Where an event is.
Placed(e) ==
  \/ e \in Memory \/ e \in loop.batch.events \/ e \in sent \cup dropped \cup lost
  \/ \E f \in ToSet(spool) : e \in f.events

LEMMA AccountStep ==
  ASSUME Accounted, \A e \in 1..written' : (e \in 1..written => Placed(e)) => Placed(e)'
  PROVE  Accounted'
<1>1. \A e \in 1..written : Placed(e)
  BY DEF Accounted, Placed, Memory
<1>2. \A e \in 1..written' : Placed(e)'
  BY <1>1
<1>3. QED BY <1>2 DEF Accounted, Placed, Memory

\* A step of the sink that leaves the network alone.
LEMMA SinkKeeps ==
  ASSUME PipeInv, ChainInv', OneBody', LoopInv', SpoolInv',
         reqs' = reqs, chain' = chain, sent' = sent,
         loop'.slot # NoSlot => loop'.slot = loop.slot /\ loop'.batch = loop.batch,
         \A e \in 1..written' : (e \in 1..written => Placed(e)) => Placed(e)'
  PROVE  PipeInv'
<1>1. Accounted'
  BY AccountStep DEF PipeInv
<1>2. Answered'
  BY DEF PipeInv, Answered, ChainBodies, Body
<1>3. SentIsStored'
  BY DEF PipeInv, SentIsStored, StoredEvents
<1>4. QED BY <1>1, <1>2, <1>3 DEF PipeInv

\* Memory is as it was, and there is no new batch.
LEMMA SameMemory ==
  ASSUME PipeInv, reqs' = reqs, chain' = chain, UNCHANGED <<queue, batch, written>>,
         \A f \in ToSet(spool') : Body(f) \in Bodies,
         Body(loop'.batch) \in Bodies \cup {Empty}
  PROVE  OneBody'
<1>1. /\ Body(loop.batch) \in Bodies /\ \A h \in Slots : Body(reqs[h].batch) \in Bodies
      /\ ChainBodies \subseteq Bodies
  BY DEF Bodies
<1>2. ChainBodies' = ChainBodies /\ Memory' = Memory
  BY DEF ChainBodies, Memory, Body, ToSet
<1>3. Bodies' \subseteq Bodies \cup {Empty}
  BY <1>1, <1>2, BodiesFrom
<1>4. QED BY <1>2, <1>3, OldBodies DEF PipeInv, OneBody
-----------------------------------------------------------------------------
\* New events and new batches.

LEMMA WriteKeeps ==
  ASSUME TypeOK, PipeInv, ChainInv', Write
  PROVE  TypeOK' /\ PipeInv'
<1> DEFINE e == written + 1
<1>1. /\ daemon = "up" /\ written < MaxEvents /\ written' = e
      /\ \/ Len(queue) < QueueSize /\ queue' = Append(queue, e) /\ dropped' = dropped
         \/ queue' = queue /\ dropped' = dropped \cup {e}
      /\ UNCHANGED <<daemon, batch, loop, spool, down, probe, stops, outages, outage, sent, lost>>
      /\ reqs' = reqs /\ chain' = chain
  BY DEF Write, network
<1>2. /\ queue \in Seq(Events) /\ written \in Nat /\ e \in Nat /\ e \in Events /\ e \notin 1..written
      /\ Events = 1..MaxEvents /\ 1..written' = 1..written \cup {e} /\ written' \in 0..MaxEvents
  BY <1>1, PipelineAssumption DEF TypeOK
<1> HIDE DEF e
<1>3. /\ queue' \in Seq(Events) /\ Len(queue') <= QueueSize /\ ToSet(queue') \subseteq ToSet(queue) \cup {e}
      /\ queue' = queue \/ (queue' = Append(queue, e) /\ ToSet(queue') = ToSet(queue) \cup {e})
  <2>1. CASE queue' = queue
    BY <2>1 DEF TypeOK
  <2>2. CASE Len(queue) < QueueSize /\ queue' = Append(queue, e)
    <3>1. Len(queue') = Len(queue) + 1 /\ queue' \in Seq(Events) /\ Len(queue) \in Nat
      BY <1>2, <2>2, LenProperties
    <3>2. QueueSize \in Nat
      BY PipelineAssumption
    <3>3. Len(queue') <= QueueSize
      BY <2>2, <3>1, <3>2
    <3>4. ToSet(Append(queue, e)) = ToSet(queue) \cup {e}
      <4>1. queue \in Seq(Events) /\ e \in Events
        BY <1>2
      <4>2. QED BY <4>1, ToSetAppend
    <3>5. queue' = Append(queue, e)
      BY <2>2
    <3>6. ToSet(queue') = ToSet(queue) \cup {e}
      BY <3>4, <3>5 DEF ToSet
    <3>7. QED BY <3>1, <3>3, <3>5, <3>6, Zenon
  <2>3. QED BY <1>1, <2>1, <2>2
<1>4. TypeOK'
  BY <1>1, <1>2, <1>3 DEF TypeOK, PipeInv, ChainInv
<1>5. OneBody'
  <2>1. Bodies' = Bodies
    BY <1>1 DEF Bodies, ChainBodies
  <2>2. Memory' \subseteq Memory \cup {e}
    <3>1. Memory' = ToSet(queue') \cup batch'
      BY DEF Memory, ToSet
    <3>2. QED BY <1>1, <1>3, <3>1 DEF Memory
  <2>3. e \notin Memory /\ \A a \in Bodies : e \notin a.events
    BY <1>2 DEF PipeInv, OneBody
  <2>4. \A i, j \in DOMAIN queue' : queue'[i] = queue'[j] => i = j
    <3>1. \A i \in DOMAIN queue : queue[i] # e
      BY <2>3 DEF Memory, ToSet
    <3>2. CASE queue' = queue
      BY <3>2 DEF PipeInv, OneBody
    <3>3. CASE queue' = Append(queue, e)
      <4>1. /\ Len(queue) \in Nat /\ DOMAIN queue = 1..Len(queue) /\ DOMAIN queue' = 1..(Len(queue) + 1)
            /\ queue'[Len(queue) + 1] = e /\ \A i \in 1..Len(queue) : queue'[i] = queue[i]
        BY <1>2, <3>3, LenProperties
      <4>2. ASSUME NEW i \in DOMAIN queue', NEW j \in DOMAIN queue', queue'[i] = queue'[j] PROVE i = j
        <5>1. CASE i \in 1..Len(queue) /\ j \in 1..Len(queue)
          BY <4>1, <4>2, <5>1 DEF PipeInv, OneBody
        <5>2. CASE i = Len(queue) + 1 \/ j = Len(queue) + 1
          BY <3>1, <4>1, <4>2, <5>2
        <5>3. QED BY <4>1, <5>1, <5>2
      <4>3. QED BY <4>2
    <3>4. QED BY <1>3, <3>2, <3>3
  <2>5. ToSet(queue') \cap batch' = {}
    BY <1>1, <1>3, <2>3 DEF PipeInv, OneBody, Memory
  <2>6. \A a \in Bodies : Shape(a) /\ a.events \subseteq 1..written' /\ a.events \cap Memory' = {}
    BY <1>2, <2>2, <2>3 DEF PipeInv, OneBody
  <2>7. \A a, b \in Bodies : Agree(a, b)
    BY DEF PipeInv, OneBody
  <2>8. Memory' \subseteq 1..written'
    BY <1>2, <2>2 DEF PipeInv, OneBody
  <2>9. QED BY <2>1, <2>4, <2>5, <2>6, <2>7, <2>8 DEF OneBody, Shape, Agree, ToSet
<1>6. LoopInv' /\ SpoolInv'
  BY <1>1 DEF PipeInv, LoopInv, SpoolInv
<1>7. ASSUME NEW x \in 1..written', x \in 1..written => Placed(x) PROVE Placed(x)'
  <2>1. Memory' = ToSet(queue') \cup batch'
    BY DEF Memory, ToSet
  <2>2. CASE x = e
    BY <1>1, <1>3, <2>1, <2>2 DEF Placed
  <2>3. CASE x # e
    <3>1. Placed(x)
      BY <1>2, <1>7, <2>3
    <3>2. Memory \subseteq Memory'
      BY <1>1, <1>3, <2>1 DEF Memory
    <3>3. QED BY <1>1, <3>1, <3>2 DEF Placed
  <2>4. QED BY <2>2, <2>3
<1>8. loop' = loop /\ sent' = sent
  BY <1>1
<1>9. PipeInv'
  BY <1>1, <1>5, <1>6, <1>7, <1>8, SinkKeeps
<1>10. QED BY <1>4, <1>9

\* deliver: a new batch, of events that were in memory.
LEMMA DeliverFacts ==
  ASSUME NEW es \in SUBSET Events, es # {}, NEW final \in BOOLEAN, Deliver(es, final)
  PROVE  /\ loop' \in Loops /\ loop'.pc \in {"posting", "spooling"} /\ loop'.slot = NoSlot
         /\ ~loop'.file /\ loop'.final = final /\ loop'.batch.events = es
         /\ loop'.batch.id = FirstOf(es) /\ FirstOf(es) \in es
<1> DEFINE b == [id |-> FirstOf(es), events |-> es, torn |-> FALSE]
           left == IF final \/ down THEN 1 ELSE Attempts
<1>1. es \subseteq Nat /\ FirstOf(es) \in es
  BY PipelineAssumption, FirstOfIn
<1>2. b \in Batches /\ b.id = FirstOf(es) /\ b.events = es
  BY <1>1 DEF Batches
<1>3. left \in 0..Attempts /\ 0 \in 0..Attempts /\ 0 \in 0..ReplayMax
  BY PipelineAssumption
<1> HIDE DEF b, left
<1>4. \/ loop' = [Selecting EXCEPT !.pc = "spooling", !.batch = b, !.final = final]
      \/ loop' = [Selecting EXCEPT !.pc = "posting", !.batch = b, !.final = final, !.left = left]
  BY DEF Deliver, b, left
<1>5. CASE loop' = [Selecting EXCEPT !.pc = "spooling", !.batch = b, !.final = final]
  BY <1>1, <1>2, <1>3, <1>5 DEF Selecting, Loops
<1>6. CASE loop' = [Selecting EXCEPT !.pc = "posting", !.batch = b, !.final = final, !.left = left]
  BY <1>1, <1>2, <1>3, <1>6 DEF Selecting, Loops
<1>7. QED BY <1>4, <1>5, <1>6

LEMMA NewBody ==
  ASSUME PipeInv, reqs' = reqs, chain' = chain, spool' = spool, written' = written,
         NEW es, es # {}, es \subseteq Memory, loop'.batch.events = es, loop'.batch.id \in es,
         Memory' \subseteq Memory \ es, ToSet(queue') \cap batch' = {},
         \A i, j \in DOMAIN queue' : queue'[i] = queue'[j] => i = j
  PROVE  OneBody' /\ \A i \in DOMAIN spool : spool[i].id # loop'.batch.id
<1> DEFINE n == Body(loop'.batch)
<1>1. n.events = es /\ n.id \in es
  BY DEF Body
<1>2. Bodies' \subseteq Bodies \cup {n}
  <2>1. /\ \A f \in ToSet(spool') : Body(f) \in Bodies \cup {n}
        /\ Body(loop'.batch) \in Bodies \cup {n}
        /\ \A h \in Slots : Body(reqs'[h].batch) \in Bodies \cup {n}
    BY DEF Bodies
  <2>2. ChainBodies' \subseteq Bodies \cup {n}
    BY DEF ChainBodies, Bodies
  <2> HIDE DEF n
  <2>3. QED BY <2>1, <2>2, BodiesFrom
<1> HIDE DEF n
<1>3. \A a \in Bodies : Shape(a) /\ a.events \subseteq 1..written /\ a.events \cap Memory = {}
  BY DEF PipeInv, OneBody
<1>4. Shape(n) /\ n.events \subseteq 1..written /\ n.events \cap Memory' = {}
  BY <1>1 DEF Shape, PipeInv, OneBody
<1>5. \A a, b \in Bodies' : Agree(a, b)
  BY <1>1, <1>2, <1>3 DEF PipeInv, OneBody, Agree
<1>6. \A a \in Bodies' : Shape(a) /\ a.events \subseteq 1..written /\ a.events \cap Memory' = {}
  BY <1>2, <1>3, <1>4
<1>7. Memory' \subseteq 1..written
  BY DEF PipeInv, OneBody
<1>8. OneBody'
  BY <1>5, <1>6, <1>7 DEF OneBody, Shape, Agree
<1>9. ASSUME NEW i \in DOMAIN spool PROVE spool[i].id # loop'.batch.id
  <2>1. Body(spool[i]) \in Bodies /\ spool[i].events # {}
    BY DEF Bodies, ToSet, PipeInv, SpoolInv
  <2>2. Body(spool[i]).id = spool[i].id /\ Body(spool[i]).events = spool[i].events
    BY DEF Body
  <2>3. Shape(Body(spool[i])) /\ Body(spool[i]).events \cap Memory = {}
    BY <1>3, <2>1
  <2>4. spool[i].id \in spool[i].events /\ spool[i].events \cap Memory = {}
    BY <2>1, <2>2, <2>3 DEF Shape
  <2>5. QED BY <2>4
<1>10. QED BY <1>8, <1>9

\* The loop and its spool right after a new batch was handed to deliver.
LEMMA NewLoop ==
  ASSUME PipeInv, OneBody', reqs' = reqs, chain' = chain, spool' = spool, sent' = sent,
         loop'.pc \in {"posting", "spooling"}, loop'.slot = NoSlot, ~loop'.file,
         loop'.batch.events # {}, loop'.final => daemon' = "closing" /\ queue' = <<>> /\ batch' = {},
         \A i \in DOMAIN spool : spool[i].id # loop'.batch.id
  PROVE  LoopInv' /\ SpoolInv'
<1>1. LoopInv'
  BY DEF LoopInv
<1>2. SpoolInv'
  BY DEF PipeInv, SpoolInv
<1>3. QED BY <1>1, <1>2

\* The loop hands a new batch to deliver: what is left in memory is the rest.
LEMMA DeliverKeeps ==
  ASSUME TypeOK, PipeInv, ChainInv', NEW es \in SUBSET Events, es # {}, es \subseteq Memory,
         NEW final \in BOOLEAN, Deliver(es, final), daemon' = daemon, daemon # "off",
         final => daemon = "closing" /\ queue' = <<>>,
         loop.pc = "selecting", batch' = {}, queue' \in Seq(Events), Len(queue') <= QueueSize,
         \A i, j \in DOMAIN queue' : queue'[i] = queue'[j] => i = j,
         ToSet(queue') = Memory \ es, reqs' = reqs, chain' = chain,
         UNCHANGED <<spool, down, probe, written, stops, outages, outage, counted>>
  PROVE  TypeOK' /\ PipeInv'
<1>1. /\ loop' \in Loops /\ loop'.pc \in {"posting", "spooling"} /\ loop'.slot = NoSlot
      /\ ~loop'.file /\ loop'.final = final /\ loop'.batch.events = es /\ loop'.batch.id \in es
  BY DeliverFacts
<1>2. sent' = sent /\ dropped' = dropped /\ lost' = lost
  BY DEF counted
<1>3. TypeOK'
  <2>1. batch' \subseteq Events /\ Cardinality(batch') < BatchSize
    BY FS_EmptySet, PipelineAssumption
  <2>2. QED BY <1>1, <1>2, <2>1 DEF TypeOK, ChainInv
<1>4. Memory' = ToSet(queue')
  BY DEF Memory, ToSet
<1>5. OneBody' /\ \A i \in DOMAIN spool : spool[i].id # loop'.batch.id
  BY <1>1, <1>4, NewBody
<1>6. LoopInv' /\ SpoolInv'
  BY <1>1, <1>2, <1>5, NewLoop
<1>7. ASSUME NEW x \in 1..written', x \in 1..written => Placed(x) PROVE Placed(x)'
  <2>1. Placed(x)
    BY <1>7
  <2>2. x \notin loop.batch.events
    BY DEF PipeInv, LoopInv, NoBatch
  <2>3. QED BY <1>1, <1>2, <1>4, <2>1, <2>2 DEF Placed
<1>8. PipeInv'
  BY <1>1, <1>2, <1>5, <1>6, <1>7, SinkKeeps
<1>9. QED BY <1>3, <1>8

LEMMA TakeEventKeeps ==
  ASSUME TypeOK, PipeInv, ChainInv', TakeEvent
  PROVE  TypeOK' /\ PipeInv'
<1> DEFINE e == Head(queue)
           es == batch \cup {e}
<1>1. /\ daemon # "off" /\ loop.pc = "selecting" /\ queue # <<>> /\ queue' = Tail(queue)
      /\ reqs' = reqs /\ chain' = chain /\ sent' = sent /\ dropped' = dropped /\ lost' = lost
      /\ UNCHANGED <<daemon, spool, down, probe, written, stops, outages, outage, counted>>
      /\ \/ batch' = {} /\ Deliver(es, FALSE)
         \/ ~(Cardinality(es) >= BatchSize) /\ batch' = es /\ loop' = loop
  BY DEF TakeEvent, network, counted
<1>2. /\ queue \in Seq(Events) /\ e = queue[1] /\ 1 \in DOMAIN queue /\ e \in Events
      /\ queue' \in Seq(Events) /\ ToSet(queue) = {e} \cup ToSet(queue')
      /\ \A i \in DOMAIN queue' : i + 1 \in DOMAIN queue /\ queue'[i] = queue[i + 1]
      /\ Len(queue') = Len(queue) - 1 /\ Len(queue) \in Nat
      /\ DOMAIN queue' = 1..Len(queue') /\ Len(queue') \in Nat
  <2>1. queue \in Seq(Events)
    BY DEF TypeOK
  <2>2. e \in Events /\ Len(Tail(queue)) = Len(queue) - 1
    BY <1>1, <2>1, HeadTailProperties
  <2>3. QED BY <1>1, <2>1, <2>2, ToSetTail, LenProperties
<1>3. \A i, j \in DOMAIN queue' : queue'[i] = queue'[j] => i = j
  <2> SUFFICES ASSUME NEW i \in DOMAIN queue', NEW j \in DOMAIN queue', queue'[i] = queue'[j]
               PROVE  i = j
    OBVIOUS
  <2>1. i + 1 = j + 1 /\ i \in Nat /\ j \in Nat
    BY <1>2 DEF PipeInv, OneBody
  <2>2. QED BY <2>1
<1>4. e \notin ToSet(queue')
  <2> SUFFICES ASSUME NEW i \in DOMAIN queue', queue'[i] = e PROVE FALSE
    BY DEF ToSet
  <2>1. i + 1 = 1 /\ i \in 1..Len(queue')
    BY <1>2 DEF PipeInv, OneBody
  <2>2. QED BY <1>2, <2>1
<1>5. /\ ToSet(queue) \cap batch = {} /\ es \subseteq Memory /\ ToSet(queue') = Memory \ es
      /\ Memory = ToSet(queue') \cup es
  BY <1>2, <1>4 DEF PipeInv, OneBody, Memory
<1>6. Len(queue') <= QueueSize
  <2>1. Len(queue) <= QueueSize /\ QueueSize \in Nat
    BY PipelineAssumption DEF TypeOK
  <2>2. QED BY <1>2, <2>1
<1>7. es \in SUBSET Events /\ es # {}
  BY <1>2 DEF TypeOK
<1> HIDE DEF e, es
<1>8. CASE batch' = {} /\ Deliver(es, FALSE)
  BY <1>1, <1>2, <1>3, <1>5, <1>6, <1>7, <1>8, DeliverKeeps
<1>9. CASE ~(Cardinality(es) >= BatchSize) /\ batch' = es /\ loop' = loop
  <2>1. Cardinality(es) < BatchSize
    <3>1. IsFiniteSet(es)
      <4>1. IsFiniteSet(1..MaxEvents)
        BY PipelineAssumption, FS_Interval
      <4>2. QED BY <1>7, <4>1, FS_Subset, PipelineAssumption
    <3>2. Cardinality(es) \in Nat /\ BatchSize \in Nat
      BY <3>1, FS_CardinalityType, PipelineAssumption
    <3>3. QED BY <1>9, <3>2
  <2>2. TypeOK'
    BY <1>1, <1>2, <1>6, <1>7, <1>9, <2>1 DEF TypeOK, ChainInv
  <2>3. Memory' = Memory
    <3>1. Memory' = ToSet(queue') \cup batch'
      BY DEF Memory, ToSet
    <3>2. QED BY <1>5, <1>9, <3>1
  <2>4. OneBody'
    <3>1. Bodies' = Bodies
      BY <1>1, <1>9 DEF Bodies, ChainBodies
    <3>2. ToSet(queue') \cap batch' = {}
      BY <1>5, <1>9
    <3>3. QED BY <1>1, <1>3, <2>3, <3>1, <3>2, OldBodies DEF PipeInv
  <2>5. ~loop.final
    BY <1>1 DEF PipeInv, LoopInv
  <2>6. LoopInv' /\ SpoolInv'
    BY <1>1, <1>9, <2>5 DEF PipeInv, LoopInv, SpoolInv
  <2>7. ASSUME NEW x \in 1..written', x \in 1..written => Placed(x) PROVE Placed(x)'
    BY <1>1, <1>9, <2>3, <2>7 DEF Placed
  <2>8. PipeInv'
    BY <1>1, <1>9, <2>4, <2>6, <2>7, SinkKeeps
  <2>9. QED BY <2>2, <2>8
<1>10. QED BY <1>1, <1>8, <1>9

\* The ticker and the last flush.
LEMMA FlushKeeps ==
  ASSUME TypeOK, PipeInv, ChainInv', NEW final \in BOOLEAN, Deliver(batch, final), batch # {},
         daemon # "off", final => daemon = "closing" /\ queue = <<>>, loop.pc = "selecting",
         batch' = {}, reqs' = reqs, chain' = chain,
         UNCHANGED <<daemon, queue, spool, down, probe, written, stops, outages, outage, counted>>
  PROVE  TypeOK' /\ PipeInv'
<1>1. /\ queue \in Seq(Events) /\ Len(queue) <= QueueSize /\ batch \in SUBSET Events
      /\ batch \subseteq Memory /\ ToSet(queue) = Memory \ batch
      /\ \A i, j \in DOMAIN queue : queue[i] = queue[j] => i = j
  BY DEF TypeOK, PipeInv, OneBody, Memory
<1>2. QED BY <1>1, DeliverKeeps

-----------------------------------------------------------------------------
\* Steps that move no event.

LEMMA QuietKeeps ==
  ASSUME PipeInv, ChainInv', LoopInv', reqs' = reqs, chain' = chain,
         UNCHANGED <<queue, batch, spool, written, counted>>,
         Body(loop'.batch) \in Bodies \cup {Empty},
         loop.batch.events \subseteq loop'.batch.events,
         ~loop'.file => loop'.batch.events = {} \/ (~loop.file /\ loop'.batch = loop.batch),
         loop'.slot # NoSlot => loop'.slot = loop.slot /\ loop'.batch = loop.batch
  PROVE  PipeInv'
<1>1. sent' = sent /\ dropped' = dropped /\ lost' = lost
  BY DEF counted
<1>2. \A f \in ToSet(spool') : Body(f) \in Bodies
  BY DEF Bodies
<1>3. OneBody'
  BY <1>2, SameMemory
<1>4. SpoolInv'
  BY DEF PipeInv, SpoolInv
<1>5. ASSUME NEW x \in 1..written', x \in 1..written => Placed(x) PROVE Placed(x)'
  <2>1. Memory' = Memory /\ ToSet(spool') = ToSet(spool)
    BY DEF Memory, ToSet
  <2>2. QED BY <1>1, <1>5, <2>1 DEF Placed, ToSet
<1>6. QED BY <1>1, <1>3, <1>4, <1>5, SinkKeeps

LEMMA ReplayingFields ==
  ASSUME NEW n \in 0..ReplayMax
  PROVE  /\ Replaying(n) \in Loops /\ Replaying(n).slot = NoSlot /\ Replaying(n).pc = "replaying"
         /\ Replaying(n).batch = NoBatch /\ ~Replaying(n).file /\ ~Replaying(n).final
<1>1. 0 \in 0..Attempts /\ NoBatch \in Batches
  BY PipelineAssumption DEF Batches, NoBatch
<1>2. QED BY <1>1 DEF Replaying, Selecting, Loops

LEMMA TickKeeps ==
  ASSUME TypeOK, PipeInv, ChainInv', Tick
  PROVE  TypeOK' /\ PipeInv'
<1>1. /\ daemon # "off" /\ loop.pc = "selecting" /\ batch' = {} /\ reqs' = reqs /\ chain' = chain
      /\ UNCHANGED <<daemon, queue, spool, down, probe, written, stops, outages, outage, counted>>
  BY DEF Tick, network
<1>2. CASE batch # {}
  <2>1. Deliver(batch, FALSE)
    BY <1>2 DEF Tick
  <2>2. QED BY <1>1, <1>2, <2>1, FlushKeeps
<1>3. CASE batch = {}
  <2>1. loop' = Replaying(0) /\ batch' = batch
    BY <1>1, <1>3 DEF Tick
  <2>2. /\ loop' \in Loops /\ loop'.slot = NoSlot /\ loop'.pc = "replaying" /\ loop'.batch = NoBatch
        /\ ~loop'.file /\ ~loop'.final
    <3>1. 0 \in 0..ReplayMax
      BY PipelineAssumption
    <3>2. QED BY <2>1, <3>1, ReplayingFields
  <2>3. TypeOK'
    BY <1>1, <2>1, <2>2 DEF TypeOK, ChainInv, counted
  <2>4. LoopInv'
    BY <2>2 DEF LoopInv
  <2>5. loop.batch = NoBatch /\ loop'.batch = NoBatch /\ NoBatch.events = {}
    BY <1>1, <2>2 DEF PipeInv, LoopInv, NoBatch
  <2>6. PipeInv'
    BY <1>1, <2>1, <2>2, <2>4, <2>5, QuietKeeps DEF Empty
  <2>7. QED BY <2>3, <2>6
<1>4. QED BY <1>2, <1>3

LEMMA FinalFlushKeeps ==
  ASSUME TypeOK, PipeInv, ChainInv', FinalFlush
  PROVE  TypeOK' /\ PipeInv'
<1>1. /\ daemon = "closing" /\ loop.pc = "selecting" /\ queue = <<>> /\ batch' = {}
      /\ reqs' = reqs /\ chain' = chain
      /\ UNCHANGED <<queue, spool, down, probe, written, stops, outages, outage, counted>>
  BY DEF FinalFlush, network
<1>2. CASE batch # {}
  <2>1. Deliver(batch, TRUE) /\ daemon' = daemon
    BY <1>2 DEF FinalFlush
  <2>2. QED BY <1>1, <1>2, <2>1, FlushKeeps
<1>3. CASE batch = {}
  <2>1. loop' = loop /\ batch' = batch /\ daemon' = "off" /\ queue' = queue
    BY <1>1, <1>3 DEF FinalFlush
  <2>2. loop = Selecting
    BY <1>1 DEF PipeInv, LoopInv
  <2>3. TypeOK'
    BY <1>1, <1>3, <2>1, <2>2 DEF TypeOK, ChainInv, counted
  <2>4. LoopInv'
    BY <1>1, <2>1, <2>2 DEF PipeInv, LoopInv, Selecting
  <2>5. Body(loop'.batch) \in Bodies /\ ~loop.file
    BY <2>1, <2>2 DEF Bodies, Selecting
  <2>6. PipeInv'
    BY <1>1, <2>1, <2>4, <2>5, QuietKeeps
  <2>7. QED BY <2>3, <2>6
<1>4. QED BY <1>2, <1>3

LEMMA ReplayKeeps ==
  ASSUME TypeOK, PipeInv, ChainInv', Replay
  PROVE  TypeOK' /\ PipeInv'
<1> DEFINE next == [loop EXCEPT !.pc = "posting", !.left = 1, !.file = TRUE, !.batch = Head(spool)]
<1>1. /\ loop.pc = "replaying" /\ reqs' = reqs /\ chain' = chain
      /\ UNCHANGED <<daemon, queue, batch, spool, down, probe, written, stops, outages, outage, counted>>
      /\ loop' = Selecting \/ (loop' = next /\ spool # <<>> /\ loop.n < ReplayMax)
  BY DEF Replay, network
<1>2. loop.batch = NoBatch /\ ~loop.file /\ NoBatch.events = {}
  BY <1>1 DEF PipeInv, LoopInv, NoBatch
<1>3. daemon # "off" /\ ~loop.final /\ loop.slot = NoSlot
  BY <1>1 DEF TypeOK, Selecting, PipeInv, LoopInv
<1>4. CASE loop' = Selecting
  <2>1. Selecting \in Loops
    BY PipelineAssumption DEF Loops, Selecting, Batches, NoBatch
  <2>2. TypeOK'
    BY <1>1, <1>4, <2>1 DEF TypeOK, ChainInv, Selecting, counted
  <2>3. LoopInv'
    BY <1>1, <1>4 DEF LoopInv, Selecting
  <2>4. Body(loop'.batch) = Empty /\ loop'.slot = NoSlot /\ loop'.batch.events = {}
    BY <1>2, <1>4 DEF Selecting, Empty
  <2>5. PipeInv'
    BY <1>1, <1>2, <2>3, <2>4, QuietKeeps
  <2>6. QED BY <2>2, <2>5
<1>5. CASE loop' = next /\ spool # <<>> /\ loop.n < ReplayMax
  <2>1. Head(spool) \in Batches /\ Head(spool) = spool[1] /\ 1 \in DOMAIN spool
    BY <1>5, ToSetTail, HeadTailProperties DEF TypeOK
  <2>2. /\ loop' \in Loops /\ loop'.pc = "posting" /\ loop'.slot = NoSlot /\ loop'.file
        /\ loop'.batch = Head(spool) /\ loop'.n < ReplayMax /\ ~loop'.final
    <3>1. 1 \in 0..Attempts /\ Head(spool) \in Batches
      BY <2>1, PipelineAssumption
    <3>2. QED BY <1>3, <1>5, <3>1 DEF TypeOK, Loops
  <2>3. TypeOK'
    BY <1>1, <1>3, <2>2 DEF TypeOK, ChainInv, counted
  <2>4. loop'.batch.events # {}
    BY <2>1, <2>2 DEF PipeInv, SpoolInv
  <2>5. LoopInv'
    BY <1>1, <1>5, <2>2, <2>4 DEF LoopInv
  <2>6. Body(loop'.batch) \in Bodies
    BY <2>1, <2>2 DEF Bodies, ToSet
  <2>7. PipeInv'
    BY <1>1, <1>2, <2>2, <2>5, <2>6, QuietKeeps
  <2>8. QED BY <2>3, <2>7
<1> HIDE DEF next
<1>6. QED BY <1>1, <1>4, <1>5

\* nextProbe comes, the daemon is told to stop or is started, outages.
LEMMA IdleKeeps ==
  ASSUME TypeOK, PipeInv, ChainInv', ProbeDue \/ Close \/ Start \/ OutageBegins \/ OutageEnds
  PROVE  TypeOK' /\ PipeInv'
<1>1. /\ UNCHANGED <<queue, batch, loop, spool, written, counted>> /\ reqs' = reqs /\ chain' = chain
      /\ \/ daemon' = daemon
         \/ daemon = "up" /\ daemon' = "closing"
         \/ daemon = "off" /\ daemon' = "up"
  BY DEF ProbeDue, Close, Start, OutageBegins, OutageEnds, network
<1>2. {down', probe', outage'} \subseteq BOOLEAN
  BY DEF TypeOK, ProbeDue, Close, Start, OutageBegins, OutageEnds
<1>3. stops' \in 0..MaxStops /\ outages' \in 0..MaxOutages
  <2>1. stops \in 0..MaxStops /\ outages \in 0..MaxOutages /\ MaxStops \in Nat /\ MaxOutages \in Nat
    BY PipelineAssumption DEF TypeOK
  <2>2. /\ stops' = stops \/ (stops > 0 /\ stops' = stops - 1)
        /\ outages' = outages \/ (outages > 0 /\ outages' = outages - 1)
    BY DEF ProbeDue, Close, Start, OutageBegins, OutageEnds
  <2>3. QED BY <2>1, <2>2
<1>4. TypeOK'
  BY <1>1, <1>2, <1>3 DEF TypeOK, ChainInv, counted
<1>5. LoopInv'
  <2>1. daemon = "off" => ~loop.final
    BY DEF TypeOK, Selecting
  <2>2. QED BY <1>1, <2>1 DEF PipeInv, LoopInv, counted
<1>6. Body(loop'.batch) \in Bodies
  BY <1>1 DEF Bodies
<1>7. ~loop'.file => ~loop.file
  BY <1>1
<1>8. PipeInv'
  BY <1>1, <1>5, <1>6, <1>7, QuietKeeps
<1>9. QED BY <1>4, <1>8

-----------------------------------------------------------------------------
\* Posting.

\* Requests may be forgotten, the batch posted may be done with.
LEMMA PostKeeps ==
  ASSUME PipeInv, ChainInv', LoopInv', chain' = chain,
         \A h \in Slots : Body(reqs'[h].batch) \in {Body(reqs[h].batch), Empty},
         \A h \in Slots : reqs'[h].pc \in {"committed", "ok"} => Body(reqs'[h].batch) \in ChainBodies',
         UNCHANGED <<queue, batch, spool, written, lost>>,
         Body(loop'.batch) \in {Body(loop.batch), Empty}, loop'.slot = NoSlot,
         ~loop'.file => loop'.batch.events = {} \/ (~loop.file /\ loop'.batch = loop.batch),
         sent \subseteq sent', dropped \subseteq dropped', sent' \subseteq sent \cup StoredEvents,
         \A e \in loop.batch.events : \/ e \in loop'.batch.events \cup sent' \cup dropped'
                                      \/ \E f \in ToSet(spool) : e \in f.events
  PROVE  PipeInv'
<1>1. Memory' = Memory /\ ChainBodies' = ChainBodies /\ StoredEvents' = StoredEvents
  BY DEF Memory, ToSet, ChainBodies, StoredEvents
<1>2. OneBody'
  <2>1. /\ \A f \in ToSet(spool') : Body(f) \in Bodies
        /\ Body(loop'.batch) \in Bodies \cup {Empty}
        /\ \A g \in Slots : Body(reqs[g].batch) \in Bodies
        /\ ChainBodies \subseteq Bodies
    BY DEF Bodies
  <2>2. \A g \in Slots : Body(reqs'[g].batch) \in Bodies \cup {Empty}
    BY <2>1
  <2>3. Bodies' \subseteq Bodies \cup {Empty}
    BY <1>1, <2>1, <2>2, BodiesFrom
  <2>4. QED BY <1>1, <2>3, OldBodies DEF PipeInv, OneBody
<1>3. SpoolInv'
  BY DEF PipeInv, SpoolInv
<1>4. Answered'
  BY <1>1 DEF Answered, Body
<1>5. SentIsStored'
  BY <1>1 DEF PipeInv, SentIsStored
<1>6. Accounted'
  <2>1. ASSUME NEW x \in 1..written', x \in 1..written => Placed(x) PROVE Placed(x)'
    <3>1. Placed(x)
      BY <2>1
    <3>2. QED BY <1>1, <3>1 DEF Placed, ToSet
  <2>2. QED BY <2>1, AccountStep DEF PipeInv
<1>7. QED BY <1>2, <1>3, <1>4, <1>5, <1>6 DEF PipeInv

\* What becomes of a batch with its answer.
LEMMA ConcludeFacts ==
  ASSUME TypeOK, PipeInv, loop.pc = "posting", NEW answer \in Answers, Conclude(answer),
         answer = "ok" => loop.batch.events \subseteq StoredEvents
  PROVE  /\ loop' \in Loops /\ loop'.slot = NoSlot
         /\ daemon' \in {"up", "closing", "off"} /\ (daemon' = "off" => loop' = Selecting)
         /\ daemon' = daemon \/ (loop.final /\ daemon' = "off")
         /\ {down', probe'} \subseteq BOOLEAN
         /\ sent \subseteq sent' /\ dropped \subseteq dropped'
         /\ sent' \subseteq sent \cup StoredEvents
         /\ {sent', dropped'} \subseteq SUBSET Events
         /\ \/ loop' = Selecting /\ loop.file
            \/ /\ loop' = [loop EXCEPT !.pc = "spooling", !.slot = NoSlot, !.left = 0]
               /\ ~loop.file
            \/ /\ loop' = [loop EXCEPT !.pc = "removing", !.slot = NoSlot] /\ loop.file
               /\ loop.batch.events \subseteq sent' \cup dropped'
            \/ /\ loop' = Selecting \/ loop' = Replaying(0)
               /\ loop.batch.events \subseteq sent' \cup dropped'
<1> DEFINE es == loop.batch.events
           spooling == [loop EXCEPT !.pc = "spooling", !.slot = NoSlot, !.left = 0]
           removing == [loop EXCEPT !.pc = "removing", !.slot = NoSlot]
<1>1. /\ loop \in Loops /\ es \subseteq Events /\ 0 \in 0..Attempts /\ 0 \in 0..ReplayMax
      /\ SpoolOn \in BOOLEAN /\ loop.file \in BOOLEAN /\ loop.final \in BOOLEAN
      /\ daemon \in {"up", "closing"} /\ {down, probe} \subseteq BOOLEAN
      /\ sent \subseteq Events /\ dropped \subseteq Events
  <2>1. loop \in Loops /\ daemon # "off" /\ SpoolOn \in BOOLEAN /\ 0 \in 0..Attempts /\ 0 \in 0..ReplayMax
    BY PipelineAssumption DEF TypeOK, Selecting
  <2>2. loop.batch \in Batches /\ loop.file \in BOOLEAN /\ loop.final \in BOOLEAN
    BY <2>1 DEF Loops
  <2>3. daemon \in {"up", "closing"} /\ {down, probe} \subseteq BOOLEAN
    BY <2>1 DEF TypeOK
  <2>4. QED BY <2>1, <2>2, <2>3 DEF TypeOK, Batches
<1>2. /\ spooling \in Loops /\ spooling.slot = NoSlot /\ removing \in Loops /\ removing.slot = NoSlot
      /\ Selecting \in Loops /\ Selecting.slot = NoSlot
  BY <1>1 DEF Loops, Selecting, Batches, NoBatch
<1>3. Replaying(0) \in Loops /\ Replaying(0).slot = NoSlot
  BY <1>1, ReplayingFields
<1> HIDE DEF es, spooling, removing
<1>4. /\ sent' = sent \/ (answer = "ok" /\ sent' = sent \cup es)
      /\ dropped' = dropped \/ dropped' = dropped \cup es
      /\ answer = "ok" => es \subseteq sent'
      /\ answer = "refused" \/ (answer = "retry" /\ ~loop.file /\ ~SpoolOn) => es \subseteq dropped'
      /\ down' \in {TRUE, FALSE, down} /\ probe' = (probe /\ answer = "refused")
  BY DEF Conclude, es, Answers
<1>5. \/ answer = "retry" /\ loop.file /\ loop' = Selecting /\ daemon' = daemon
      \/ answer = "retry" /\ ~loop.file /\ SpoolOn /\ loop' = spooling /\ daemon' = daemon
      \/ answer # "retry" /\ loop.file /\ loop' = removing /\ daemon' = daemon
      \/ /\ ~loop.file /\ (answer # "retry" \/ ~SpoolOn)
         /\ \/ loop.final /\ loop' = Selecting /\ daemon' = "off"
            \/ loop' = Replaying(0) /\ daemon' = daemon
  BY DEF Conclude, Delivered, spooling, removing
<1>6. loop' \in Loops /\ loop'.slot = NoSlot
  BY <1>2, <1>3, <1>5
<1>7. /\ daemon' \in {"up", "closing", "off"} /\ (daemon' = "off" => loop' = Selecting)
      /\ daemon' = daemon \/ (loop.final /\ daemon' = "off")
  BY <1>1, <1>5
<1>8. {down', probe'} \subseteq BOOLEAN
  BY <1>1, <1>4
<1>9. /\ sent \subseteq sent' /\ dropped \subseteq dropped' /\ sent' \subseteq sent \cup StoredEvents
      /\ {sent', dropped'} \subseteq SUBSET Events
  BY <1>1, <1>4 DEF es
<1>10. /\ answer # "retry" => es \subseteq sent' \cup dropped'
       /\ ~loop.file /\ (answer # "retry" \/ ~SpoolOn) => es \subseteq sent' \cup dropped'
  BY <1>4 DEF Answers
<1>11. \/ loop' = Selecting /\ loop.file
       \/ loop' = spooling /\ ~loop.file
       \/ loop' = removing /\ loop.file /\ es \subseteq sent' \cup dropped'
       \/ /\ loop' = Selecting \/ loop' = Replaying(0)
          /\ es \subseteq sent' \cup dropped'
  BY <1>5, <1>10
<1>12. QED BY <1>6, <1>7, <1>8, <1>9, <1>11 DEF es, spooling, removing

LEMMA ConcludeKeeps ==
  ASSUME TypeOK, PipeInv, ChainInv', loop.pc = "posting", NEW answer \in Answers, Conclude(answer),
         answer = "ok" => loop.batch.events \subseteq StoredEvents, chain' = chain,
         \A h \in Slots : Body(reqs'[h].batch) \in {Body(reqs[h].batch), Empty},
         \A h \in Slots : reqs'[h].pc \in {"committed", "ok"} => Body(reqs'[h].batch) \in ChainBodies',
         UNCHANGED <<queue, batch, spool, written, stops, outages, outage, lost>>
  PROVE  TypeOK' /\ PipeInv'
<1> DEFINE spooling == [loop EXCEPT !.pc = "spooling", !.slot = NoSlot, !.left = 0]
           removing == [loop EXCEPT !.pc = "removing", !.slot = NoSlot]
<1>1. /\ loop' \in Loops /\ loop'.slot = NoSlot
      /\ daemon' \in {"up", "closing", "off"} /\ (daemon' = "off" => loop' = Selecting)
      /\ daemon' = daemon \/ (loop.final /\ daemon' = "off")
      /\ {down', probe'} \subseteq BOOLEAN
      /\ sent \subseteq sent' /\ dropped \subseteq dropped' /\ sent' \subseteq sent \cup StoredEvents
      /\ {sent', dropped'} \subseteq SUBSET Events
      /\ \/ loop' = Selecting /\ loop.file
         \/ loop' = spooling /\ ~loop.file
         \/ loop' = removing /\ loop.file /\ loop.batch.events \subseteq sent' \cup dropped'
         \/ /\ loop' = Selecting \/ loop' = Replaying(0)
            /\ loop.batch.events \subseteq sent' \cup dropped'
  BY ConcludeFacts
<1>2. /\ loop.batch.events # {} /\ loop.file \in BOOLEAN /\ loop.final \in BOOLEAN /\ daemon # "off"
      /\ loop.file => loop.n < ReplayMax /\ spool # <<>> /\ loop.batch = Head(spool)
      /\ loop.final => daemon = "closing" /\ queue = <<>> /\ batch = {} /\ ~loop.file
  BY DEF TypeOK, PipeInv, LoopInv, Loops, Selecting
<1>3. TypeOK'
  <2>1. daemon' = "off" => queue' = <<>> /\ batch' = {}
    BY <1>1, <1>2
  <2> HIDE DEF spooling, removing
  <2>2. QED BY <1>1, <2>1 DEF TypeOK, ChainInv
<1>4. /\ spooling.pc = "spooling" /\ spooling.batch = loop.batch /\ spooling.file = loop.file
      /\ spooling.final = loop.final
      /\ removing.pc = "removing" /\ removing.batch = loop.batch /\ removing.file = loop.file
      /\ removing.final = loop.final /\ removing.n = loop.n
  BY DEF TypeOK, Loops
<1>5. /\ Selecting.pc = "selecting" /\ Selecting.batch = NoBatch /\ ~Selecting.file /\ ~Selecting.final
      /\ Replaying(0).pc = "replaying" /\ Replaying(0).batch = NoBatch
      /\ ~Replaying(0).file /\ ~Replaying(0).final /\ NoBatch.events = {}
  <2>1. 0 \in 0..ReplayMax
    BY PipelineAssumption
  <2>2. QED BY <2>1, ReplayingFields DEF Selecting, NoBatch
<1> HIDE DEF spooling, removing
<1>6. CASE loop' = Selecting \/ loop' = Replaying(0)
  <2>1. LoopInv'
    BY <1>5, <1>6 DEF LoopInv
  <2>2. /\ Body(loop'.batch) = Empty /\ loop'.batch.events = {}
        /\ \A e \in loop.batch.events : \/ e \in loop'.batch.events \cup sent' \cup dropped'
                                        \/ \E f \in ToSet(spool) : e \in f.events
    <3>1. CASE loop.batch.events \subseteq sent' \cup dropped'
      BY <1>5, <1>6, <3>1 DEF Empty
    <3>2. CASE loop.file
      <4>1. loop.batch \in ToSet(spool)
        <5>1. Head(spool) = spool[1] /\ 1 \in DOMAIN spool
          BY <1>2, <3>2, ToSetTail DEF TypeOK
        <5>2. QED BY <1>2, <3>2, <5>1 DEF ToSet
      <4>2. QED BY <1>5, <1>6, <4>1 DEF Empty
    <3>3. QED BY <1>1, <1>4, <1>5, <1>6, <3>1, <3>2
  <2>3. PipeInv'
    BY <1>1, <2>1, <2>2, PostKeeps
  <2>4. QED BY <1>3, <2>3
<1>7. CASE loop' = spooling /\ ~loop.file
  <2>1. LoopInv'
    BY <1>1, <1>2, <1>4, <1>5, <1>7 DEF LoopInv
  <2>2. PipeInv'
    BY <1>1, <1>4, <1>7, <2>1, PostKeeps
  <2>3. QED BY <1>3, <2>2
<1>8. CASE loop' = removing /\ loop.file /\ loop.batch.events \subseteq sent' \cup dropped'
  <2>1. LoopInv'
    BY <1>1, <1>2, <1>4, <1>8 DEF LoopInv
  <2>2. PipeInv'
    BY <1>1, <1>4, <1>8, <2>1, PostKeeps
  <2>3. QED BY <1>3, <2>2
<1>9. QED BY <1>1, <1>6, <1>7, <1>8

\* Another attempt at the same batch.
LEMMA RetryKeeps ==
  ASSUME TypeOK, PipeInv, ChainInv', loop.pc = "posting", chain' = chain,
         \/ loop' = [loop EXCEPT !.slot = NoSlot]
         \/ loop.slot = NoSlot /\ loop.left > 1 /\ loop' = [loop EXCEPT !.left = @ - 1],
         \A h \in Slots : Body(reqs'[h].batch) \in {Body(reqs[h].batch), Empty},
         \A h \in Slots : reqs'[h].pc \in {"committed", "ok"} => Body(reqs'[h].batch) \in ChainBodies',
         UNCHANGED <<daemon, down, probe, sent, dropped, queue, batch, spool, written, stops, outages, outage, lost>>
  PROVE  TypeOK' /\ PipeInv'
<1>1. /\ loop' \in Loops /\ loop'.slot = NoSlot /\ loop'.pc = "posting" /\ loop'.batch = loop.batch
      /\ loop'.file = loop.file /\ loop'.final = loop.final /\ loop'.n = loop.n
  <2>1. loop.left \in 0..Attempts /\ Attempts \in Nat /\ loop \in Loops
    BY PipelineAssumption DEF TypeOK, Loops
  <2>2. loop.left > 1 => loop.left - 1 \in 0..Attempts
    BY <2>1
  <2>3. CASE loop' = [loop EXCEPT !.slot = NoSlot]
    BY <2>1, <2>3 DEF Loops
  <2>4. CASE loop.slot = NoSlot /\ loop.left > 1 /\ loop' = [loop EXCEPT !.left = @ - 1]
    BY <2>1, <2>2, <2>4 DEF Loops
  <2>5. QED BY <2>3, <2>4
<1>2. daemon # "off"
  BY DEF TypeOK, Selecting
<1>3. TypeOK'
  BY <1>1, <1>2 DEF TypeOK, ChainInv
<1>4. LoopInv'
  BY <1>1 DEF PipeInv, LoopInv
<1>5. PipeInv'
  BY <1>1, <1>4, PostKeeps
<1>6. QED BY <1>3, <1>5

LEMMA ReplyKeeps ==
  ASSUME TypeOK, PipeInv, ChainInv', Reply
  PROVE  TypeOK' /\ PipeInv'
<1> DEFINE answer == reqs[loop.slot].pc
<1>1. /\ loop.pc = "posting" /\ loop.slot \in Slots /\ answer \in Answers /\ Leave(loop.slot)
      /\ IF answer = "retry" THEN Again ELSE Conclude(answer)
      /\ UNCHANGED <<queue, batch, spool, written, stops, outages, outage, lost>>
  BY LoopFields DEF Reply, TypeOK
<1> HIDE DEF answer
<1>2. IngestTypeOK /\ OneBody /\ chain' = chain
  BY <1>1 DEF PipeInv, ChainInv, Leave
<1>3. \A h \in Slots : Body(reqs'[h].batch) \in {Body(reqs[h].batch), Empty}
  BY <1>1, <1>2, ServerBodies
<1>4. \A h \in Slots : reqs'[h].pc \in {"committed", "ok"} => Body(reqs'[h].batch) \in ChainBodies'
  BY <1>1, <1>2, ServerAnswers DEF PipeInv, Answered
<1>5. answer = "ok" => loop.batch.events \subseteq StoredEvents
  <2> SUFFICES ASSUME answer = "ok" PROVE loop.batch.events \subseteq StoredEvents
    OBVIOUS
  <2>1. Body(loop.batch) \in ChainBodies
    BY <1>1, IngestAssumption DEF PipeInv, Answered, answer
  <2>2. QED BY <2>1 DEF ChainBodies, Body, StoredEvents
<1>6. CASE answer # "retry" \/ loop.left = 0
  <2>1. Conclude(answer)
    BY <1>1, <1>6 DEF Again
  <2>2. QED BY <1>1, <1>2, <1>3, <1>4, <1>5, <2>1, ConcludeKeeps
<1>7. CASE answer = "retry" /\ loop.left # 0
  <2>1. loop' = [loop EXCEPT !.slot = NoSlot] /\ UNCHANGED <<daemon, down, probe, sent, dropped>>
    BY <1>1, <1>7 DEF Again
  <2>2. QED BY <1>1, <1>2, <1>3, <1>4, <2>1, RetryKeeps
<1>8. QED BY <1>6, <1>7

LEMMA SendFailsKeeps ==
  ASSUME TypeOK, PipeInv, ChainInv', SendFails
  PROVE  TypeOK' /\ PipeInv'
<1>1. /\ loop.pc = "posting" /\ reqs' = reqs /\ chain' = chain
      /\ UNCHANGED <<queue, batch, spool, written, stops, outages, outage, lost>>
      /\ \/ Conclude("retry")
         \/ /\ \/ loop' = [loop EXCEPT !.slot = NoSlot]
               \/ loop.slot = NoSlot /\ loop.left > 1 /\ loop' = [loop EXCEPT !.left = @ - 1]
            /\ UNCHANGED <<daemon, down, probe, sent, dropped>>
  BY DEF SendFails, Again, network
<1>2. \A h \in Slots : Body(reqs'[h].batch) \in {Body(reqs[h].batch), Empty}
  BY <1>1
<1>3. \A h \in Slots : reqs'[h].pc \in {"committed", "ok"} => Body(reqs'[h].batch) \in ChainBodies'
  BY <1>1 DEF PipeInv, Answered, ChainBodies
<1>4. CASE Conclude("retry")
  BY <1>1, <1>2, <1>3, <1>4, ConcludeKeeps DEF Answers
<1>5. CASE ~Conclude("retry")
  BY <1>1, <1>2, <1>3, <1>5, RetryKeeps
<1>6. QED BY <1>4, <1>5

LEMMA SendKeeps ==
  ASSUME TypeOK, PipeInv, ChainInv', Send
  PROVE  TypeOK' /\ PipeInv'
<1>1. /\ loop.pc = "posting" /\ loop.slot = NoSlot /\ loop.left > 0
      /\ UNCHANGED <<daemon, queue, batch, spool, down, probe, written, stops, outages, outage>>
      /\ sent' = sent /\ dropped' = dropped /\ lost' = lost
  BY DEF Send, counted
<1>2. PICK h \in Slots : Arrive(h, loop.batch) /\ loop' = [loop EXCEPT !.slot = h, !.left = @ - 1]
  BY DEF Send
<1>3. /\ chain' = chain /\ \A g \in Slots \ {h} : reqs'[g] = reqs[g]
      /\ reqs'[h].batch = loop.batch /\ reqs'[h].pc \in {"refused", "authorized"}
  BY <1>2 DEF Arrive, PipeInv, ChainInv, IngestTypeOK
<1>4. /\ loop' \in Loops /\ loop'.slot = h /\ loop'.pc = "posting" /\ loop'.batch = loop.batch
      /\ loop'.file = loop.file /\ loop'.final = loop.final /\ loop'.n = loop.n
  <2>1. loop.left \in 0..Attempts /\ Attempts \in Nat /\ loop \in Loops
    BY PipelineAssumption DEF TypeOK, Loops
  <2>2. loop.left - 1 \in 0..Attempts
    BY <1>1, <2>1
  <2>3. QED BY <1>1, <1>2, <2>1, <2>2 DEF Loops
<1>5. daemon # "off"
  BY <1>1 DEF TypeOK, Selecting
<1>6. TypeOK'
  BY <1>1, <1>4, <1>5 DEF TypeOK, ChainInv
<1>7. OneBody'
  <2>1. /\ \A f \in ToSet(spool') : Body(f) \in Bodies
        /\ Body(loop'.batch) \in Bodies
        /\ \A g \in Slots : Body(reqs[g].batch) \in Bodies
        /\ ChainBodies \subseteq Bodies /\ ChainBodies' = ChainBodies
    BY <1>1, <1>3, <1>4 DEF Bodies, ChainBodies
  <2>2. \A g \in Slots : Body(reqs'[g].batch) \in Bodies
    BY <1>3, <1>4, <2>1
  <2>3. Bodies' \subseteq Bodies \cup {Empty}
    BY <2>1, <2>2, BodiesFrom
  <2>4. Memory' = Memory
    BY <1>1 DEF Memory, ToSet
  <2>5. QED BY <1>1, <2>3, <2>4, OldBodies DEF PipeInv, OneBody
<1>8. LoopInv' /\ SpoolInv'
  BY <1>1, <1>4 DEF PipeInv, LoopInv, SpoolInv
<1>9. Answered'
  <2>1. ChainBodies' = ChainBodies
    BY <1>3 DEF ChainBodies
  <2>2. \A g \in Slots : reqs'[g].pc \in {"committed", "ok"} => Body(reqs'[g].batch) \in ChainBodies'
    BY <1>3, <2>1 DEF PipeInv, Answered
  <2>3. reqs'[loop'.slot].pc # "free" /\ Body(reqs'[loop'.slot].batch) = Body(loop'.batch)
    BY <1>3, <1>4
  <2>4. QED BY <2>2, <2>3 DEF Answered, Body
<1>10. SentIsStored' /\ Accounted'
  BY <1>1, <1>3, <1>4 DEF PipeInv, SentIsStored, StoredEvents, Accounted
<1>11. QED BY <1>6, <1>7, <1>8, <1>9, <1>10 DEF PipeInv

-----------------------------------------------------------------------------
\* The spool.

LEMMA RoomFiles ==
  ASSUME TypeOK, PipeInv
  PROVE  /\ \A i, j \in DOMAIN Room : Room[i].id = Room[j].id => i = j
         /\ \A i \in DOMAIN Room : Room[i].events # {}
         /\ loop.pc = "spooling" => \A i \in DOMAIN Room : Room[i].id # loop.batch.id
<1>1. /\ \A i \in DOMAIN Room : i + Evicted \in DOMAIN spool /\ Room[i] = spool[i + Evicted]
      /\ Evicted \in Nat
  BY MakeRoom DEF TypeOK
<1>2. \A i, j \in DOMAIN spool : spool[i].id = spool[j].id => i = j
  BY DEF TypeOK
<1>3. Room \in Seq(Batches) /\ DOMAIN Room = 1..Len(Room)
  BY MakeRoom, LenProperties DEF TypeOK
<1>4. \A i, j \in DOMAIN Room : Room[i].id = Room[j].id => i = j
  <2> SUFFICES ASSUME NEW i \in DOMAIN Room, NEW j \in DOMAIN Room, Room[i].id = Room[j].id
               PROVE  i = j
    OBVIOUS
  <2>1. i + Evicted = j + Evicted
    BY <1>1, <1>2
  <2>2. i \in Int /\ j \in Int
    BY <1>3
  <2>3. QED BY <1>1, <2>1, <2>2
<1>5. \A i \in DOMAIN Room : Room[i].events # {}
  BY <1>1 DEF PipeInv, SpoolInv
<1>6. loop.pc = "spooling" => ~loop.file /\ loop.batch.events # {}
  BY DEF PipeInv, LoopInv
<1>7. loop.pc = "spooling" => \A i \in DOMAIN Room : Room[i].id # loop.batch.id
  BY <1>1, <1>6 DEF PipeInv, SpoolInv
<1>8. QED BY <1>4, <1>5, <1>7

\* The batch joins the spool, last as Spool writes it or first as a crash leaves it.
LEMMA WithFile ==
  ASSUME TypeOK, PipeInv, loop.pc = "spooling", NEW f \in Batches, f.id = loop.batch.id,
         f.events = loop.batch.events, NEW s, s = Append(Room, f) \/ s = <<f>> \o Room
  PROVE  /\ s \in Seq(Batches) /\ \A i, j \in DOMAIN s : s[i].id = s[j].id => i = j
         /\ \A i \in DOMAIN s : s[i].events # {}
         /\ ToSet(s) = ToSet(Room) \cup {f}
<1>1. /\ Room \in Seq(Batches) /\ Len(Room) \in Nat /\ DOMAIN Room = 1..Len(Room)
  BY MakeRoom, LenProperties DEF TypeOK
<1>2. /\ \A i, j \in DOMAIN Room : Room[i].id = Room[j].id => i = j
      /\ \A i \in DOMAIN Room : Room[i].events # {} /\ Room[i].id # f.id
      /\ f.events # {}
  BY RoomFiles DEF PipeInv, LoopInv
<1>3. CASE s = Append(Room, f)
  <2>1. /\ s \in Seq(Batches) /\ DOMAIN s = 1..(Len(Room) + 1) /\ s[Len(Room) + 1] = f
        /\ \A i \in 1..Len(Room) : s[i] = Room[i]
    BY <1>1, <1>3, LenProperties
  <2>2. ASSUME NEW i \in DOMAIN s, NEW j \in DOMAIN s, s[i].id = s[j].id PROVE i = j
    <3>1. CASE i \in 1..Len(Room) /\ j \in 1..Len(Room)
      BY <1>1, <1>2, <2>1, <2>2, <3>1
    <3>2. CASE i = Len(Room) + 1 \/ j = Len(Room) + 1
      BY <1>1, <1>2, <2>1, <2>2, <3>2
    <3>3. QED BY <1>1, <2>1, <3>1, <3>2
  <2>3. ASSUME NEW i \in DOMAIN s PROVE s[i].events # {}
    <3>1. i \in 1..Len(Room) \/ i = Len(Room) + 1
      BY <1>1, <2>1
    <3>2. QED BY <1>1, <1>2, <2>1, <3>1
  <2>4. ToSet(Append(Room, f)) = ToSet(Room) \cup {f}
    BY <1>1, ToSetAppend
  <2>5. QED BY <1>3, <2>1, <2>2, <2>3, <2>4
<1>4. CASE s = <<f>> \o Room
  <2>1. /\ s \in Seq(Batches) /\ DOMAIN s = 1..(Len(Room) + 1) /\ s[1] = f
        /\ \A i \in 2..(Len(Room) + 1) : s[i] = Room[i - 1] /\ i - 1 \in DOMAIN Room
        /\ \A i \in DOMAIN s : i # 1 => i \in 2..(Len(Room) + 1)
    <3>1. <<f>> \in Seq(Batches) /\ Len(<<f>>) = 1 /\ <<f>>[1] = f
      OBVIOUS
    <3>2. /\ s \in Seq(Batches) /\ Len(s) = 1 + Len(Room)
          /\ \A i \in 1..(1 + Len(Room)) : s[i] = IF i <= 1 THEN <<f>>[i] ELSE Room[i - 1]
      BY <1>1, <1>4, <3>1, ConcatProperties
    <3>3. QED BY <1>1, <3>1, <3>2, LenProperties
  <2>2. ASSUME NEW i \in DOMAIN s, NEW j \in DOMAIN s, s[i].id = s[j].id PROVE i = j
    <3>1. CASE i = 1 /\ j # 1
      <4>1. s[j] = Room[j - 1] /\ j - 1 \in DOMAIN Room /\ s[i] = f
        BY <2>1, <3>1
      <4>2. QED BY <1>2, <2>2, <4>1
    <3>2. CASE i # 1 /\ j = 1
      <4>1. s[i] = Room[i - 1] /\ i - 1 \in DOMAIN Room /\ s[j] = f
        BY <2>1, <3>2
      <4>2. QED BY <1>2, <2>2, <4>1
    <3>3. CASE i # 1 /\ j # 1
      <4>1. /\ s[i] = Room[i - 1] /\ i - 1 \in DOMAIN Room
            /\ s[j] = Room[j - 1] /\ j - 1 \in DOMAIN Room
        BY <2>1, <3>3
      <4>2. i - 1 = j - 1
        BY <1>2, <2>2, <4>1
      <4>3. i \in Int /\ j \in Int
        BY <1>1, <2>1
      <4>4. QED BY <4>2, <4>3
    <3>4. QED BY <3>1, <3>2, <3>3
  <2>3. ASSUME NEW i \in DOMAIN s PROVE s[i].events # {}
    <3>1. CASE i = 1
      BY <1>2, <2>1, <3>1
    <3>2. CASE i # 1
      <4>1. s[i] = Room[i - 1] /\ i - 1 \in DOMAIN Room
        BY <2>1, <3>2
      <4>2. QED BY <1>2, <4>1
    <3>3. QED BY <3>1, <3>2
  <2>4. ToSet(s) = ToSet(Room) \cup {f}
    <3>1. ToSet(s) \subseteq ToSet(Room) \cup {f}
      <4> SUFFICES ASSUME NEW i \in DOMAIN s PROVE s[i] \in ToSet(Room) \cup {f}
        BY DEF ToSet
      <4>1. i \in 2..(Len(Room) + 1) \/ i = 1
        BY <1>1, <2>1
      <4>2. QED BY <1>1, <2>1, <4>1 DEF ToSet
    <3>2. f \in ToSet(s)
      <4>1. 1 \in DOMAIN s
        BY <1>1, <2>1
      <4>2. QED BY <2>1, <4>1 DEF ToSet
    <3>3. ASSUME NEW i \in DOMAIN Room PROVE Room[i] \in ToSet(s)
      <4>1. i + 1 \in 2..(Len(Room) + 1) /\ (i + 1) - 1 = i
        BY <1>1
      <4>2. s[i + 1] = Room[i] /\ i + 1 \in DOMAIN s
        BY <1>1, <2>1, <4>1
      <4>3. QED BY <4>2 DEF ToSet
    <3>4. QED BY <3>1, <3>2, <3>3 DEF ToSet
  <2>5. QED BY <2>1, <2>2, <2>3, <2>4
<1>5. QED BY <1>3, <1>4

\* Files come and go, and the loop has no batch afterwards.
LEMMA FilesKeep ==
  ASSUME PipeInv, ChainInv', LoopInv', reqs' = reqs, chain' = chain, sent' = sent, written' = written,
         Memory' \subseteq Memory, ToSet(queue') \cap batch' = {},
         \A i, j \in DOMAIN queue' : queue'[i] = queue'[j] => i = j,
         \A f \in ToSet(spool') : Body(f) \in Bodies, \A i \in DOMAIN spool' : spool'[i].events # {},
         loop'.batch = NoBatch, loop'.slot = NoSlot,
         \A x \in 1..written : Placed(x) => Placed(x)'
  PROVE  PipeInv'
<1>1. Body(loop'.batch) = Empty /\ loop'.batch.events = {}
  BY DEF Empty, NoBatch
<1>2. OneBody'
  <2>1. /\ \A f \in ToSet(spool') : Body(f) \in Bodies \cup {Empty}
        /\ Body(loop'.batch) \in Bodies \cup {Empty}
        /\ \A h \in Slots : Body(reqs'[h].batch) \in Bodies \cup {Empty}
        /\ ChainBodies' \subseteq Bodies \cup {Empty}
    BY <1>1 DEF Bodies, ChainBodies
  <2>2. Bodies' \subseteq Bodies \cup {Empty}
    BY <1>1, <2>1, BodiesFrom
  <2>3. QED BY <2>2, OldBodies DEF PipeInv
<1>3. SpoolInv'
  BY <1>1 DEF SpoolInv
<1>4. QED BY <1>2, <1>3, SinkKeeps

LEMMA SpoolKeeps ==
  ASSUME TypeOK, PipeInv, ChainInv', Spool
  PROVE  TypeOK' /\ PipeInv'
<1>1. /\ loop.pc = "spooling" /\ reqs' = reqs /\ chain' = chain
      /\ UNCHANGED <<queue, batch, down, probe, written, stops, outages, outage, sent, lost>>
      /\ \/ spool' = Append(Room, loop.batch) /\ dropped' = dropped \cup EvictedEvents
         \/ spool' = Room /\ dropped' = dropped \cup EvictedEvents \cup loop.batch.events
      /\ \/ loop.final /\ loop' = Selecting /\ daemon' = "off"
         \/ loop' = Replaying(0) /\ daemon' = daemon
  BY DEF Spool, Delivered, network
<1>2. /\ loop.batch \in Batches /\ daemon # "off"
      /\ loop.final => daemon = "closing" /\ queue = <<>> /\ batch = {}
  BY <1>1, LoopFields DEF TypeOK, Selecting, PipeInv, LoopInv
<1>3. /\ Room \in Seq(Batches) /\ ToSet(Room) \subseteq ToSet(spool)
      /\ \A f \in ToSet(spool) : f \in ToSet(Room) \/ f.events \subseteq EvictedEvents
      /\ EvictedEvents \subseteq UNION {f.events : f \in ToSet(spool)}
  BY MakeRoom DEF TypeOK
<1>4. /\ spool' \in Seq(Batches) /\ \A i, j \in DOMAIN spool' : spool'[i].id = spool'[j].id => i = j
      /\ \A i \in DOMAIN spool' : spool'[i].events # {}
      /\ ToSet(spool') = ToSet(Room) \/ ToSet(spool') = ToSet(Room) \cup {loop.batch}
      /\ ToSet(Room) \subseteq ToSet(spool')
      /\ loop.batch \in ToSet(spool') \/ loop.batch.events \subseteq dropped'
      /\ EvictedEvents \subseteq dropped' /\ dropped \subseteq dropped'
  <2>1. CASE spool' = Append(Room, loop.batch) /\ dropped' = dropped \cup EvictedEvents
    <3>1. /\ spool' \in Seq(Batches) /\ \A i, j \in DOMAIN spool' : spool'[i].id = spool'[j].id => i = j
          /\ \A i \in DOMAIN spool' : spool'[i].events # {}
      BY <1>1, <1>2, <2>1, WithFile
    <3>2. ToSet(Append(Room, loop.batch)) = ToSet(Room) \cup {loop.batch}
      BY <1>1, <1>2, WithFile
    <3>3. ToSet(spool') = ToSet(Room) \cup {loop.batch}
      BY <2>1, <3>2 DEF ToSet
    <3>4. EvictedEvents \subseteq dropped' /\ dropped \subseteq dropped'
      BY <2>1
    <3>5. QED BY <3>1, <3>3, <3>4
  <2>2. CASE spool' = Room /\ dropped' = dropped \cup EvictedEvents \cup loop.batch.events
    <3>1. ToSet(spool') = ToSet(Room)
      BY <2>2 DEF ToSet
    <3>2. QED BY <1>3, <2>2, <3>1, RoomFiles
  <2>3. QED BY <1>1, <2>1, <2>2
<1>5. dropped' \subseteq Events
  <2>1. \A f \in ToSet(spool) : f \in Batches
    <3>1. \A i \in DOMAIN spool : spool[i] \in Batches
      BY ElementOfSeq, LenProperties DEF TypeOK
    <3>2. QED BY <3>1 DEF ToSet
  <2>2. EvictedEvents \subseteq Events /\ loop.batch.events \subseteq Events
    BY <1>2, <1>3, <2>1 DEF Batches
  <2>3. QED BY <1>1, <2>2 DEF TypeOK
<1>6. /\ loop' \in Loops /\ loop'.slot = NoSlot /\ loop'.batch = NoBatch /\ ~loop'.file /\ ~loop'.final
      /\ loop' = Selecting \/ loop'.pc = "replaying"
      /\ daemon' = daemon \/ (daemon' = "off" /\ loop' = Selecting /\ queue' = <<>> /\ batch' = {})
  <2>1. 0 \in 0..ReplayMax /\ 0 \in 0..Attempts /\ NoBatch \in Batches
    BY PipelineAssumption DEF Batches, NoBatch
  <2>2. CASE loop.final /\ loop' = Selecting /\ daemon' = "off"
    BY <1>1, <1>2, <2>1, <2>2 DEF Selecting, Loops
  <2>3. CASE loop' = Replaying(0) /\ daemon' = daemon
    BY <2>1, <2>3, ReplayingFields
  <2>4. QED BY <1>1, <2>2, <2>3
<1>7. TypeOK'
  BY <1>1, <1>2, <1>4, <1>5, <1>6 DEF TypeOK, ChainInv
<1>8. LoopInv'
  BY <1>6 DEF LoopInv, Selecting
<1>9. Memory' = Memory /\ ToSet(queue') \cap batch' = {}
  BY <1>1 DEF Memory, ToSet, PipeInv, OneBody
<1>10. \A f \in ToSet(spool') : Body(f) \in Bodies
  BY <1>3, <1>4 DEF Bodies
<1>11. ASSUME NEW x \in 1..written, Placed(x) PROVE Placed(x)'
  <2>1. \/ x \in Memory' \/ x \in sent' \cup dropped' \cup lost'
        \/ \E f \in ToSet(spool') : x \in f.events
    BY <1>1, <1>3, <1>4, <1>9, <1>11 DEF Placed
  <2>2. QED BY <2>1 DEF Placed, ToSet
<1>12. \A i, j \in DOMAIN queue' : queue'[i] = queue'[j] => i = j
  BY <1>1 DEF PipeInv, OneBody
<1>13. PipeInv'
  BY <1>1, <1>4, <1>6, <1>8, <1>9, <1>10, <1>11, <1>12, FilesKeep
<1>14. QED BY <1>7, <1>13

LEMMA RemoveFileKeeps ==
  ASSUME TypeOK, PipeInv, ChainInv', RemoveFile
  PROVE  TypeOK' /\ PipeInv'
<1>1. /\ loop.pc = "removing" /\ reqs' = reqs /\ chain' = chain
      /\ spool' = Tail(spool) /\ loop' = Replaying(loop.n + 1)
      /\ UNCHANGED <<daemon, queue, batch, down, probe, written, stops, outages, outage, counted>>
      /\ sent' = sent /\ dropped' = dropped /\ lost' = lost
  BY DEF RemoveFile, network, counted
<1>2. /\ spool # <<>> /\ loop.batch = Head(spool) /\ loop.n < ReplayMax /\ loop.n \in 0..ReplayMax
      /\ loop.batch.events \subseteq sent \cup dropped /\ daemon # "off"
  BY <1>1, LoopFields DEF PipeInv, LoopInv, TypeOK, Selecting
<1>3. /\ spool \in Seq(Batches) /\ spool' \in Seq(Batches)
      /\ \A i \in DOMAIN spool' : i + 1 \in DOMAIN spool /\ spool'[i] = spool[i + 1]
      /\ ToSet(spool) = {loop.batch} \cup ToSet(Tail(spool)) /\ DOMAIN spool' = 1..Len(spool')
  BY <1>1, <1>2, ToSetTail, LenProperties DEF TypeOK
<1>4. ToSet(spool') = ToSet(Tail(spool))
  BY <1>1 DEF ToSet
<1>5. /\ loop' \in Loops /\ loop'.slot = NoSlot /\ loop'.pc = "replaying" /\ loop'.batch = NoBatch
      /\ ~loop'.file /\ ~loop'.final
  <2>1. loop.n + 1 \in 0..ReplayMax
    BY <1>2, PipelineAssumption
  <2>2. QED BY <1>1, <2>1, ReplayingFields
<1>6. TypeOK'
  <2>1. ASSUME NEW i \in DOMAIN spool', NEW j \in DOMAIN spool', spool'[i].id = spool'[j].id
        PROVE  i = j
    <3>1. i + 1 = j + 1 /\ i \in Int /\ j \in Int
      BY <1>3, <2>1 DEF TypeOK
    <3>2. QED BY <3>1
  <2>2. QED BY <1>1, <1>2, <1>3, <1>5, <2>1 DEF TypeOK, ChainInv
<1>7. LoopInv'
  BY <1>5 DEF LoopInv
<1>8. Memory' = Memory /\ ToSet(queue') \cap batch' = {}
  BY <1>1 DEF Memory, ToSet, PipeInv, OneBody
<1>9. \A f \in ToSet(spool') : Body(f) \in Bodies
  BY <1>3, <1>4 DEF Bodies
<1>10. ASSUME NEW x \in 1..written, Placed(x) PROVE Placed(x)'
  <2>1. \/ x \in Memory' \/ x \in sent' \cup dropped' \cup lost'
        \/ \E f \in ToSet(spool') : x \in f.events
    BY <1>1, <1>2, <1>3, <1>4, <1>8, <1>10 DEF Placed
  <2>2. QED BY <2>1 DEF Placed, ToSet
<1>11. /\ \A i, j \in DOMAIN queue' : queue'[i] = queue'[j] => i = j
       /\ \A i \in DOMAIN spool' : spool'[i].events # {}
  BY <1>1, <1>3 DEF PipeInv, OneBody, SpoolInv
<1>12. PipeInv'
  BY <1>1, <1>5, <1>7, <1>8, <1>9, <1>10, <1>11, FilesKeep
<1>13. QED BY <1>6, <1>12

\* What a kill leaves on the disk: every file it had, or the batch being
\* written as well.
LEMMA CrashFiles ==
  ASSUME TypeOK, PipeInv, Crash
  PROVE  /\ spool' \in Seq(Batches) /\ \A i, j \in DOMAIN spool' : spool'[i].id = spool'[j].id => i = j
         /\ \A i \in DOMAIN spool' : spool'[i].events # {}
         /\ \A f \in ToSet(spool') : Body(f) \in Bodies
         /\ \A f \in ToSet(spool) : f \in ToSet(spool') \/ f.events \subseteq dropped'
         /\ \/ loop.batch.events \subseteq lost'
            \/ \E f \in ToSet(spool') : f.events = loop.batch.events
<1>1. CASE spool' = spool
  <2>1. ToSet(spool') = ToSet(spool)
    BY <1>1 DEF ToSet
  <2>2. \/ loop.batch.events \subseteq lost'
        \/ \E f \in ToSet(spool) : f.events = loop.batch.events
    <3>1. CASE loop.file
      <4>1. spool # <<>> /\ loop.batch = Head(spool)
        BY <3>1 DEF PipeInv, LoopInv
      <4>2. Head(spool) = spool[1] /\ 1 \in DOMAIN spool
        BY <4>1, ToSetTail DEF TypeOK
      <4>3. loop.batch \in ToSet(spool)
        BY <4>1, <4>2 DEF ToSet
      <4>4. QED BY <4>3
    <3>2. CASE ~loop.file /\ loop.batch.events \subseteq lost'
      BY <3>2
    <3>3. CASE ~loop.file /\ ~(loop.batch.events \subseteq lost')
      <4>1. PICK torn \in BOOLEAN : spool' = <<[loop.batch EXCEPT !.torn = torn]>> \o Room
        BY <3>3 DEF Crash
      <4>2. loop.batch \in Batches /\ loop.pc = "spooling"
        BY <3>3, LoopFields DEF TypeOK, Crash
      <4>3. /\ [loop.batch EXCEPT !.torn = torn] \in Batches
            /\ [loop.batch EXCEPT !.torn = torn].id = loop.batch.id
            /\ [loop.batch EXCEPT !.torn = torn].events = loop.batch.events
        BY <4>2 DEF Batches
      <4>4. ToSet(<<[loop.batch EXCEPT !.torn = torn]>> \o Room)
              = ToSet(Room) \cup {[loop.batch EXCEPT !.torn = torn]}
        BY <4>2, <4>3, WithFile
      <4>5. ToSet(spool') = ToSet(Room) \cup {[loop.batch EXCEPT !.torn = torn]}
        BY <4>1, <4>4 DEF ToSet
      <4>6. QED BY <2>1, <4>3, <4>5
    <3>4. QED BY <3>1, <3>2, <3>3
  <2>3. /\ spool \in Seq(Batches) /\ \A i, j \in DOMAIN spool : spool[i].id = spool[j].id => i = j
        /\ \A i \in DOMAIN spool : spool[i].events # {}
        /\ \A f \in ToSet(spool) : Body(f) \in Bodies
    BY DEF TypeOK, PipeInv, SpoolInv, Bodies
  <2>4. QED BY <1>1, <2>1, <2>2, <2>3
<1>2. CASE spool' # spool
  <2>1. loop.pc = "spooling" /\ dropped' = dropped \cup EvictedEvents
    BY <1>2 DEF Crash
  <2>2. PICK torn \in BOOLEAN : spool' = <<[loop.batch EXCEPT !.torn = torn]>> \o Room
    BY <1>2 DEF Crash
  <2> DEFINE f == [loop.batch EXCEPT !.torn = torn]
  <2>3. f \in Batches /\ f.id = loop.batch.id /\ f.events = loop.batch.events
    BY LoopFields DEF TypeOK, Batches
  <2>4. spool' = <<f>> \o Room
    BY <2>2
  <2> HIDE DEF f
  <2>5. /\ spool' \in Seq(Batches) /\ \A i, j \in DOMAIN spool' : spool'[i].id = spool'[j].id => i = j
        /\ \A i \in DOMAIN spool' : spool'[i].events # {}
    BY <2>1, <2>3, <2>4, WithFile
  <2>6. ToSet(<<f>> \o Room) = ToSet(Room) \cup {f}
    BY <2>1, <2>3, WithFile
  <2>7. ToSet(spool') = ToSet(Room) \cup {f}
    BY <2>4, <2>6 DEF ToSet
  <2>8. /\ ToSet(Room) \subseteq ToSet(spool)
        /\ \A g \in ToSet(spool) : g \in ToSet(Room) \/ g.events \subseteq EvictedEvents
    BY MakeRoom DEF TypeOK
  <2>9. \A g \in ToSet(spool') : Body(g) \in Bodies
    <3>1. Body(f) = Body(loop.batch)
      BY <2>3 DEF Body
    <3>2. QED BY <2>7, <2>8, <3>1 DEF Bodies
  <2>10. \A g \in ToSet(spool) : g \in ToSet(spool') \/ g.events \subseteq dropped'
    BY <2>1, <2>7, <2>8
  <2>11. QED BY <2>3, <2>5, <2>7, <2>9, <2>10
<1>3. QED BY <1>1, <1>2

LEMMA CrashKeeps ==
  ASSUME TypeOK, PipeInv, ChainInv', Crash
  PROVE  TypeOK' /\ PipeInv'
<1>1. /\ stops > 0 /\ stops' = stops - 1 /\ daemon' = "off"
      /\ queue' = <<>> /\ batch' = {} /\ loop' = Selecting /\ reqs' = reqs /\ chain' = chain
      /\ UNCHANGED <<down, probe, written, outages, outage, sent>>
      /\ dropped' = dropped \/ dropped' = dropped \cup EvictedEvents
      /\ lost \cup Memory \subseteq lost'
      /\ lost' \subseteq lost \cup Memory \cup loop.batch.events
  BY DEF Crash, network, Memory
<1>2. /\ loop.batch \in Batches /\ loop.batch.events \subseteq Events
      /\ Memory \subseteq Events /\ EvictedEvents \subseteq Events
  <2>1. \A i \in DOMAIN queue : queue[i] \in Events
    BY ElementOfSeq, LenProperties DEF TypeOK
  <2>2. loop.batch \in Batches
    BY LoopFields DEF TypeOK
  <2>3. \A f \in ToSet(spool) : f \in Batches
    <3>1. \A i \in DOMAIN spool : spool[i] \in Batches
      BY ElementOfSeq, LenProperties DEF TypeOK
    <3>2. QED BY <3>1 DEF ToSet
  <2>4. EvictedEvents \subseteq UNION {f.events : f \in ToSet(spool)}
    BY MakeRoom DEF TypeOK
  <2>5. EvictedEvents \subseteq Events
    BY <2>3, <2>4 DEF Batches
  <2>6. QED BY <2>1, <2>2, <2>5 DEF Memory, ToSet, TypeOK, Batches
<1>3. /\ spool' \in Seq(Batches) /\ \A i, j \in DOMAIN spool' : spool'[i].id = spool'[j].id => i = j
      /\ \A i \in DOMAIN spool' : spool'[i].events # {}
      /\ \A f \in ToSet(spool') : Body(f) \in Bodies
      /\ \A f \in ToSet(spool) : f \in ToSet(spool') \/ f.events \subseteq dropped'
      /\ \/ loop.batch.events \subseteq lost'
         \/ \E f \in ToSet(spool') : f.events = loop.batch.events
  BY CrashFiles
<1>4. /\ Selecting \in Loops /\ Selecting.slot = NoSlot /\ Selecting.batch = NoBatch
      /\ ~Selecting.file /\ ~Selecting.final /\ Selecting.pc = "selecting"
  <2>1. 0 \in 0..ReplayMax /\ 0 \in 0..Attempts /\ NoBatch \in Batches
    BY PipelineAssumption DEF Batches, NoBatch
  <2>2. QED BY <2>1 DEF Selecting, Loops
<1>5. TypeOK'
  <2>1. stops' \in 0..MaxStops
    BY <1>1, PipelineAssumption DEF TypeOK
  <2>2. dropped' \subseteq Events /\ lost' \subseteq Events
    BY <1>1, <1>2 DEF TypeOK
  <2>3. queue' \in Seq(Events) /\ Len(queue') <= QueueSize
    BY <1>1, PipelineAssumption
  <2>4. batch' \subseteq Events /\ Cardinality(batch') < BatchSize
    BY <1>1, FS_EmptySet, PipelineAssumption
  <2>5. loop' \in Loops /\ (loop'.slot # NoSlot => loop'.pc = "posting")
    BY <1>1, <1>4
  <2>6. QED BY <1>1, <1>3, <2>1, <2>2, <2>3, <2>4, <2>5 DEF TypeOK, ChainInv
<1>6. LoopInv'
  BY <1>1, <1>4 DEF LoopInv
<1>7. Memory' \subseteq Memory /\ ToSet(queue') \cap batch' = {}
  BY <1>1 DEF Memory, ToSet
<1>8. ASSUME NEW x \in 1..written, Placed(x) PROVE Placed(x)'
  <2>1. \/ x \in sent' \cup dropped' \cup lost'
        \/ \E f \in ToSet(spool') : x \in f.events
    BY <1>1, <1>3, <1>8 DEF Placed
  <2>2. QED BY <2>1 DEF Placed, ToSet
<1>9. \A i, j \in DOMAIN queue' : queue'[i] = queue'[j] => i = j
  BY <1>1
<1>10. PipeInv'
  BY <1>1, <1>3, <1>4, <1>6, <1>7, <1>8, <1>9, FilesKeep
<1>11. QED BY <1>5, <1>10

-----------------------------------------------------------------------------
LEMMA PipeInit == Init => TypeOK /\ PipeInv
<1> SUFFICES ASSUME Init PROVE TypeOK /\ PipeInv
  OBVIOUS
<1>1. ChainInv
  BY IngestStarts DEF Init
<1>2. /\ Selecting \in Loops /\ Selecting.slot = NoSlot /\ Selecting.batch = NoBatch
      /\ ~Selecting.file /\ ~Selecting.final /\ Selecting.pc = "selecting"
  <2>1. 0 \in 0..ReplayMax /\ 0 \in 0..Attempts /\ NoBatch \in Batches
    BY PipelineAssumption DEF Batches, NoBatch
  <2>2. QED BY <2>1 DEF Selecting, Loops
<1>3. TypeOK
  <2>1. batch \subseteq Events /\ Cardinality(batch) < BatchSize
    BY FS_EmptySet, PipelineAssumption DEF Init
  <2>2. queue \in Seq(Events) /\ Len(queue) <= QueueSize /\ spool \in Seq(Batches)
    BY PipelineAssumption DEF Init
  <2>3. written \in 0..MaxEvents /\ stops \in 0..MaxStops /\ outages \in 0..MaxOutages
    BY PipelineAssumption DEF Init
  <2>4. loop \in Loops /\ (loop.slot # NoSlot => loop.pc = "posting")
    BY <1>2 DEF Init
  <2>5. /\ daemon \in {"up", "closing", "off"} /\ daemon # "off"
        /\ \A i, j \in DOMAIN spool : spool[i].id = spool[j].id => i = j
        /\ {down, probe, outage} \subseteq BOOLEAN /\ {sent, dropped, lost} \subseteq SUBSET Events
    <3>1. daemon = "up" /\ spool = <<>> /\ DOMAIN <<>> = {}
      BY DEF Init
    <3>2. down = FALSE /\ probe = FALSE /\ outage = FALSE /\ sent = {} /\ dropped = {} /\ lost = {}
      BY DEF Init
    <3>3. \A i, j \in DOMAIN spool : spool[i].id = spool[j].id => i = j
      BY <3>1
    <3>4. {down, probe, outage} \subseteq BOOLEAN /\ {sent, dropped, lost} \subseteq SUBSET Events
      BY <3>2
    <3>5. QED BY <3>1, <3>3, <3>4
  <2>6. IngestTypeOK
    BY <1>1 DEF ChainInv
  <2>7. QED BY <2>1, <2>2, <2>3, <2>4, <2>5, <2>6 DEF TypeOK
<1>4. /\ \A h \in Slots : reqs[h] = Free
      /\ chain = <<>> /\ queue = <<>> /\ batch = {} /\ spool = <<>> /\ loop = Selecting
      /\ written = 0 /\ sent = {}
  BY DEF Init, IngestInit
<1>5. OneBody
  <2>1. Free.batch = NoBatch /\ Empty.events = {} /\ Empty.id = 0
    BY DEF Free, Empty, Body, NoBatch
  <2>2. Bodies \subseteq {Empty}
    BY <1>2, <1>4, <2>1 DEF Bodies, ChainBodies, ToSet, Empty
  <2>3. Memory = {}
    BY <1>4 DEF Memory, ToSet
  <2>4. \A a \in Bodies : Shape(a) /\ a.events \subseteq 1..written /\ a.events \cap Memory = {}
    BY <2>1, <2>2 DEF Shape
  <2>5. \A a, b \in Bodies : Agree(a, b)
    BY <2>2 DEF Agree
  <2>6. QED BY <1>4, <2>3, <2>4, <2>5 DEF OneBody
<1>6. LoopInv /\ SpoolInv
  BY <1>2, <1>4 DEF LoopInv, SpoolInv, NoBatch
<1>7. Answered
  BY <1>2, <1>4 DEF Answered, Free
<1>8. SentIsStored /\ Accounted
  BY <1>4 DEF SentIsStored, Accounted
<1>9. QED BY <1>1, <1>3, <1>5, <1>6, <1>7, <1>8 DEF PipeInv

LEMMA PipeStep == TypeOK /\ PipeInv /\ [Next]_pipeVars => TypeOK' /\ PipeInv'
<1> SUFFICES ASSUME TypeOK, PipeInv, [Next]_pipeVars PROVE TypeOK' /\ PipeInv'
  OBVIOUS
<1>1. ChainInv'
  <2>1. [IngestNext]_ingestVars
    BY StepIsIngest, LoopFields DEF TypeOK
  <2>2. QED BY <2>1, KeepsChainInv DEF PipeInv
<1>2. CASE Write
  BY <1>1, <1>2, WriteKeeps
<1>3. CASE Tick
  BY <1>1, <1>3, TickKeeps
<1>4. CASE TakeEvent
  BY <1>1, <1>4, TakeEventKeeps
<1>5. CASE FinalFlush
  BY <1>1, <1>5, FinalFlushKeeps
<1>6. CASE Send
  BY <1>1, <1>6, SendKeeps
<1>7. CASE Reply
  BY <1>1, <1>7, ReplyKeeps
<1>8. CASE Spool
  BY <1>1, <1>8, SpoolKeeps
<1>9. CASE Replay
  BY <1>1, <1>9, ReplayKeeps
<1>10. CASE RemoveFile
  BY <1>1, <1>10, RemoveFileKeeps
<1>11. CASE SendFails
  BY <1>1, <1>11, SendFailsKeeps
<1>12. CASE ProbeDue \/ Close \/ Start \/ OutageBegins \/ OutageEnds
  BY <1>1, <1>12, IdleKeeps
<1>13. CASE Crash
  BY <1>1, <1>13, CrashKeeps
<1>14. CASE RevokeEndpoint
  BY <1>1, <1>14, RevokeKeeps
<1>15. ASSUME NEW h \in Slots, Serve(h) \/ Break(h) \/ CutOff(h) PROVE TypeOK' /\ PipeInv'
  BY <1>1, <1>15, ServerKeeps
<1>16. CASE UNCHANGED pipeVars
  <2>1. reqs' = reqs /\ chain' = chain /\ UNCHANGED sinkVars
    BY <1>16 DEF pipeVars, ingestVars
  <2>2. TypeOK'
    BY <1>1, <2>1 DEF TypeOK, sinkVars, ChainInv
  <2>3. OneBody'
    BY <2>1 DEF PipeInv, OneBody, Bodies, ChainBodies, Memory, sinkVars
  <2>4. LoopInv' /\ SpoolInv' /\ Accounted'
    BY <2>1 DEF PipeInv, LoopInv, SpoolInv, Accounted, sinkVars
  <2>5. Answered' /\ SentIsStored'
    BY <2>1 DEF PipeInv, Answered, SentIsStored, StoredEvents, ChainBodies, sinkVars
  <2>6. QED BY <1>1, <2>2, <2>3, <2>4, <2>5 DEF PipeInv
<1>17. QED BY <1>2, <1>3, <1>4, <1>5, <1>6, <1>7, <1>8, <1>9, <1>10, <1>11, <1>12, <1>13, <1>14,
              <1>15, <1>16 DEF Next, Sending

\* Every state of the pipeline has the types and bounds TypeOK gives: the queue,
\* the loop's slice and the flush stay within their sizes.
THEOREM TypeCorrect == Spec => []TypeOK
<1> QED BY PipeInit, PipeStep, PTL DEF Spec

LEMMA Invariance == Spec => [](TypeOK /\ PipeInv)
<1> QED BY PipeInit, PipeStep, PTL DEF Spec

\* Every event that was written is in memory, on its way, in the spool, sent, or
\* counted as dropped; only the memory of a killed daemon goes uncounted
\* (http.go's loop, deliver, spoolBatch and replay).
THEOREM NothingUncounted == Spec => []Accounted
<1>1. TypeOK /\ PipeInv => Accounted
  BY DEF PipeInv
<1> QED BY <1>1, Invariance, PTL

\* What the sink counts as sent, the control plane has committed.
THEOREM SentMeansStored == Spec => []SentIsStored
<1>1. TypeOK /\ PipeInv => SentIsStored
  BY DEF PipeInv
<1> QED BY <1>1, Invariance, PTL

\* No event is in two stored batches, whatever is retried, replayed or answered
\* late (ingest.go finds a batch by its id, and http.go keeps the id in the spool).
THEOREM EventsStoredOnce == Spec => []StoredOnce
<1>1. TypeOK /\ PipeInv => StoredOnce
  <2> SUFFICES ASSUME PipeInv, NEW i \in DOMAIN chain, NEW j \in DOMAIN chain, i # j,
                      chain[i].events \cap chain[j].events # {}
               PROVE  FALSE
    BY DEF StoredOnce
  <2>1. Body(chain[i]) \in Bodies /\ Body(chain[j]) \in Bodies
    BY DEF Bodies, ChainBodies
  <2>2. Body(chain[i]).events \cap Body(chain[j]).events # {}
    BY DEF Body
  <2>3. Body(chain[i]) = Body(chain[j])
    BY <2>1, <2>2 DEF PipeInv, OneBody, Agree
  <2>4. chain[i].id = chain[j].id
    BY <2>3 DEF Body
  <2>5. QED BY <2>4 DEF PipeInv, ChainInv, ChainVerifies
<1> QED BY <1>1, Invariance, PTL

\* The sink, with its spool, retries, crashes and outages, is one of the clients
\* EventIngest leaves open: the detailed specification implements that one.
THEOREM ImplementsIngest == Spec => IngestSpec
<1>1. Init => IngestInit
  BY DEF Init
<1>2. TypeOK /\ [Next]_pipeVars => [IngestNext]_ingestVars
  BY StepIsIngest, LoopFields DEF TypeOK
<1> QED BY <1>1, <1>2, TypeCorrect, PTL DEF Spec, IngestSpec

\* Hence the machine's batches are one verifiable chain behind this sink too.
THEOREM SinkChainVerifies == Spec => []ChainVerifies
<1> QED BY ImplementsIngest, ChainAlwaysVerifies, PTL

-----------------------------------------------------------------------------
\* What is stored: mapped identities, numbers of rows, finitely many rows of known machines.
RowsKnown ==
  /\ DOMAIN mapping \subseteq Identities
  /\ seats \subseteq DOMAIN SeatRows /\ usage \subseteq DOMAIN UsageRows
  /\ IsFiniteSet(DOMAIN activity) /\ \A o \in DOMAIN activity : o.m \in Hosts

LEMMA RowsKnownAlways ==
  InventoryInit /\ [][InventoryNext]_inventoryVars => []RowsKnown
<1>1. InventoryInit => RowsKnown
  <2> SUFFICES ASSUME InventoryInit PROVE RowsKnown
    OBVIOUS
  <2>1. mapping = <<>> /\ activity = <<>> /\ seats = limit.seats /\ usage = limit.usage /\ limit \in Limits
    BY DEF InventoryInit, TablesInit, PeopleInit, SpendInit
  <2>2. DOMAIN mapping = {} /\ DOMAIN activity = {}
    BY <2>1
  <2>3. QED BY <2>1, <2>2, InventoryAssumption, FS_EmptySet DEF RowsKnown
<1>2. RowsKnown /\ [InventoryNext]_inventoryVars => RowsKnown'
  <2> SUFFICES ASSUME RowsKnown, [InventoryNext]_inventoryVars PROVE RowsKnown'
    OBVIOUS
  <2>1. CASE UNCHANGED inventoryVars
    BY <2>1 DEF RowsKnown, inventoryVars, tableVars, peopleVars, spendVars
  <2>2. ASSUME NEW m \in Hosts, BatchArrives(m) PROVE RowsKnown'
    <3>1. UNCHANGED <<mapping, seats, usage>>
      BY <2>2 DEF BatchArrives, peopleVars, spendVars
    <3>2. activity' = activity \/ \E evs \in NewBatches : RollupActivity(m, evs)
      <4>1. \A id : id \in DOMAIN batches[m] => \A evs, first : Ingest(m, id, evs, first) => activity' = activity
        BY Zenon DEF Ingest, tableVars
      <4>2. \A id, evs, first : Ingest(m, id, evs, first) => activity' = activity \/ RollupActivity(m, evs)
        BY Zenon DEF Ingest, Store, tableVars
      <4>3. QED BY <2>2, <4>1, <4>2, Zenon DEF BatchArrives
    <3>3. ASSUME NEW evs \in NewBatches, RollupActivity(m, evs)
          PROVE  IsFiniteSet(DOMAIN activity') /\ \A o \in DOMAIN activity' : o.m \in Hosts
      <4>1. DOMAIN activity' = DOMAIN activity \cup {ActivityRow(m, e) : e \in {x \in evs : Counted(x)}}
        BY <3>3 DEF RollupActivity, Upsert
      <4>2. \A e : ActivityRow(m, e).m = m
        BY DEF ActivityRow
      <4>3. PICK e, f : evs = {e, f}
        <5>1. PICK S : S = [at : limit.times, act : limit.acts]
          OBVIOUS
        <5>2. evs \in {{e, f} : e, f \in S}
          BY <5>1 DEF NewBatches
        <5>3. \E e \in S : \E f \in S : evs = {e, f}
          BY <5>2, SMT
        <5>4. QED BY <5>3
      <4>4. IsFiniteSet(DOMAIN activity \cup {ActivityRow(m, e)} \cup {ActivityRow(m, f)})
        BY FS_AddElement DEF RowsKnown
      <4>5. IsFiniteSet(DOMAIN activity')
        <5>1. DOMAIN activity' \in SUBSET (DOMAIN activity \cup {ActivityRow(m, e)} \cup {ActivityRow(m, f)})
          BY <4>1, <4>3
        <5>2. QED BY <4>4, <5>1, FS_Subset
      <4>6. QED BY <4>1, <4>2, <4>5, <2>2 DEF RowsKnown
    <3>4. QED BY <3>1, <3>2, <3>3 DEF RowsKnown
  <2>3. CASE Prune
    BY <2>3 DEF RowsKnown, Prune, PruneAnomalies, peopleVars, spendVars
  <2>4. CASE Edit(Map)
    <3>1. UNCHANGED <<activity, seats, usage>> /\ Map
      BY <2>4 DEF Edit, tableVars, Map, spendVars
    <3>2. DOMAIN mapping' \subseteq Identities
      BY <3>1 DEF Map, PutPerson, AddPersonIdentity, DeletePerson, peopleVars, RowsKnown
    <3>3. QED BY <3>1, <3>2 DEF RowsKnown
  <2>5. CASE Edit(Unmap)
    <3>1. UNCHANGED <<activity, seats, usage>> /\ Unmap
      BY <2>5 DEF Edit, tableVars, Unmap, spendVars
    <3>2. DOMAIN mapping' \subseteq Identities
      BY <3>1 DEF Unmap, DeletePersonIdentity, peopleVars, RowsKnown
    <3>3. QED BY <3>1, <3>2 DEF RowsKnown
  <2>6. CASE Edit(Sync)
    <3>1. UNCHANGED <<activity, mapping>> /\ Sync
      BY <2>6 DEF Edit, tableVars, Sync, peopleVars
    <3>2. seats' \subseteq DOMAIN SeatRows /\ usage' \subseteq DOMAIN UsageRows
      BY <3>1 DEF Sync, StoreVendor, RowsKnown
    <3>3. QED BY <3>1, <3>2 DEF RowsKnown
  <2>7. CASE Edit(Own)
    BY <2>7 DEF RowsKnown, Edit, tableVars, Own, SetOwner, peopleVars
  <2>8. CASE Edit(File)
    BY <2>8 DEF RowsKnown, Edit, tableVars, File, FileApproval, peopleVars
  <2>9. QED BY <2>1, <2>2, <2>3, <2>4, <2>5, <2>6, <2>7, <2>8 DEF InventoryNext
<1>3. QED BY <1>1, <1>2, PTL

-----------------------------------------------------------------------------
(* What somebody mapped.                                                   *)

LEMMA MappedUser ==
  ASSUME NEW user, NEW host, user # "",
         [kind |-> "os_user", value |-> user, host |-> host] \in DOMAIN mapping
  PROVE  OsUser(user, host) = {mapping[[kind |-> "os_user", value |-> user, host |-> host]]}
BY DEF OsUser, First, ByKind

LEMMA KnownUser ==
  ASSUME NEW user, NEW git, NEW known, NEW own, NEW host, NEW users,
         user # "" /\ OsUser(user, host) # {}
  PROVE  ObsPerson(user, git, known, own, host, users) =
           [who |-> Person(The(OsUser(user, host))), via |-> "os_user"]
<1> DEFINE byUser == IF user = "" THEN {} ELSE OsUser(user, host)
<1>1. byUser = OsUser(user, host) /\ byUser # {}
  OBVIOUS
<1> HIDE DEF byUser
<1>2. ASSUME NEW byGit, NEW other
      PROVE  (CASE byUser # {}                 -> [who |-> Person(The(byUser)), via |-> "os_user"]
                [] byUser = {} /\ byGit # {} -> [who |-> Person(The(byGit)), via |-> "git_email"]
                [] OTHER                     -> other) = [who |-> Person(The(byUser)), via |-> "os_user"]
  BY <1>1
<1>3. QED BY <1>1, <1>2 DEF ObsPerson, byUser

\* The rows of the activity of a mapped user.
MappedRow(o) ==
  o \in DOMAIN activity /\ o.day \in Days /\ [kind |-> "os_user", value |-> o.user, host |-> o.m] \in DOMAIN mapping
WhoseRow(o) == mapping[[kind |-> "os_user", value |-> o.user, host |-> o.m]]

LEMMA RowPerson ==
  ASSUME RowsKnown, NEW o, MappedRow(o)
  PROVE  /\ o.user # "" /\ o.m # "" /\ OsUser(o.user, o.m) = {WhoseRow(o)}
         /\ \A known : SightedAs(o, known) = [who |-> Person(WhoseRow(o)), via |-> "os_user"]
<1>1. o.user # ""
  <2>1. [kind |-> "os_user", value |-> o.user, host |-> o.m] \in Identities
    BY DEF RowsKnown, MappedRow
  <2>2. QED BY <2>1, PeopleAssumption
<1>2. o.m # ""
  BY DetectionAssumption DEF RowsKnown, MappedRow
<1>3. OsUser(o.user, o.m) = {WhoseRow(o)}
  BY <1>1, MappedUser DEF MappedRow, WhoseRow
<1>4. ASSUME NEW known PROVE SightedAs(o, known) = [who |-> Person(WhoseRow(o)), via |-> "os_user"]
  <2>1. PICK own, users : own = owner[o.m] /\ users = approvers[o.m]
    OBVIOUS
  <2>2. The(OsUser(o.user, o.m)) = WhoseRow(o)
    BY <1>3 DEF The
  <2>3. ObsPerson(o.user, o.git, known, own, o.m, users) = [who |-> Person(The(OsUser(o.user, o.m))), via |-> "os_user"]
    BY <1>1, <1>3, KnownUser
  <2>4. QED BY <2>1, <2>2, <2>3 DEF SightedAs
<1>5. QED BY <1>1, <1>2, <1>3, <1>4

LEMMA SameUser ==
  ASSUME RowsKnown, NEW o, MappedRow(o), NEW s, s.user = o.user, s.m = o.m, NEW known
  PROVE  Sighted(s, known) = [who |-> Person(WhoseRow(o)), via |-> "os_user"]
<1>1. o.user # "" /\ OsUser(o.user, o.m) = {WhoseRow(o)}
  BY RowPerson
<1>2. PICK own, users, git : own = owner[o.m] /\ users = {} /\ git = s.git
  OBVIOUS
<1>3. The(OsUser(o.user, o.m)) = WhoseRow(o)
  BY <1>1 DEF The
<1> DEFINE user == o.user
           host == o.m
<1>4. user # "" /\ OsUser(user, host) # {}
  BY <1>1
<1> HIDE DEF user, host
<1>5. ObsPerson(user, git, known, own, host, users) = [who |-> Person(The(OsUser(user, host))), via |-> "os_user"]
  BY <1>4, KnownUser
<1>6. QED BY <1>2, <1>3, <1>5 DEF Sighted, user, host

\* The parts of a person's tool, and whose tools there are.
SeatsOf(p, v) == {x.row : x \in {y \in HeldSeats : y.who = p /\ y.vendor = v}}
UsageOf(p, v) == {x.row : x \in {y \in PersonUsage : y.who = p /\ y.vendor = v}}
SeenOf(act, p, v) == {s.day : s \in {x \in Observations(act, KnownEmails) : x.who.who = p /\ x.vendor = v}}
WaysOf(act, p) == {m.via : m \in {x \in {MachinePerson(h) : h \in Hosts}
                                      \cup {s.who : s \in Observations(act, KnownEmails)} : x.who = p}}
Pairs(act) == {<<x.who, x.vendor>> : x \in {y \in HeldSeats \cup PersonUsage : y.who # Nobody}}
              \cup {<<s.who.who, s.vendor>> : s \in Observations(act, KnownEmails)}
ToolAt(act, p, v) == Tool(p, v, SeatsOf(p, v), UsageOf(p, v), SeenOf(act, p, v), WaysOf(act, p))

LEMMA ToolsAre ==
  ASSUME NEW act
  PROVE  Tools(act) = {ToolAt(act, t[1], t[2]) : t \in Pairs(act)}
BY Zenon DEF Tools, ToolAt, SeatsOf, UsageOf, SeenOf, WaysOf, Pairs


LEMMA LeakFields ==
  ASSUME NEW ty, NEW v, NEW p, NEW s, NEW g, NEW c
  PROVE  LET l == Leak(ty, v, p, s, g, c) IN
         /\ l.type = ty /\ l.vendor = v /\ l.person = p /\ l.savings = s
         /\ [l EXCEPT !.confidence = "medium"] = Leak(ty, v, p, s, g, "medium")
BY DEF Leak

LEMMA UnusedLeaks ==
  ASSUME NEW tools, NEW l \in Leaks(tools), l.type = "unused_seat"
  PROVE  \E t \in tools : t.person = l.person /\ t.vendor = l.vendor /\ t.days = 0
<1> DEFINE found == UnusedSeats(tools)
           all == found \cup Duplicates(tools, found) \cup ShadowSpend(tools) \cup UNION {Runaway(tools, v) : v \in Vendors}
<1>1. PICK k \in all : l = Attributed(tools, k)
  BY Zenon DEF Leaks
<1>2. ASSUME NEW x \in Duplicates(tools, found) PROVE x.type = "duplicate_tool"
  <2>1. \E v, p, s, c : x = Leak("duplicate_tool", v, p, s, 0, c)
    BY Zenon DEF Duplicates
  <2>2. QED BY <2>1, LeakFields
<1>3. ASSUME NEW x \in ShadowSpend(tools) PROVE x.type = "shadow_spend"
  <2>1. \E v, p, c : x = Leak("shadow_spend", v, p, 0, 1, c)
    BY Zenon DEF ShadowSpend
  <2>2. QED BY <2>1, LeakFields
<1>4. ASSUME NEW v, NEW x \in Runaway(tools, v) PROVE x.type = "runaway_cost"
  <2>1. \E p, s, c : x = Leak("runaway_cost", v, p, s, 0, c)
    BY Zenon DEF Runaway
  <2>2. QED BY <2>1, LeakFields
<1>5. ASSUME NEW x \in found PROVE \E c : \E t \in tools : x = Leak("unused_seat", t.vendor, t.person, t.seatCents, 0, c) /\ t.days = 0
  BY Zenon DEF UnusedSeats
<1>6. k \in found \/ k.type # "unused_seat"
  <2> HIDE DEF found
  <2>1. QED BY <1>1, <1>2, <1>3, <1>4
<1> HIDE DEF all, found
<1>7. l = k \/ l = [k EXCEPT !.confidence = "medium"]
  BY <1>1, Zenon DEF Attributed
<1>8. k \in found
  <2>1. CASE l = k
    BY <1>6, <2>1
  <2>2. CASE l = [k EXCEPT !.confidence = "medium"]
    <3>1. l.type = k.type
      BY <2>2
    <3>2. QED BY <1>6, <3>1
  <2>3. QED BY <1>7, <2>1, <2>2
<1>9. PICK t \in tools : \E c : k = Leak("unused_seat", t.vendor, t.person, t.seatCents, 0, c) /\ t.days = 0
  BY <1>5, <1>8
<1>10. l.person = t.person /\ l.vendor = t.vendor
  BY <1>7, <1>9, LeakFields
<1>11. QED BY <1>9, <1>10

LEMMA PairsVendor ==
  ASSUME RowsKnown, NEW act, NEW t \in Pairs(act)
  PROVE  t = <<t[1], t[2]>> /\ t[2] # ""
<1>1. "" \notin Vendors
  BY DEF Vendors, Cursor, Copilot, Anthropic, OpenAI
<1>2. ASSUME NEW x \in HeldSeats \cup PersonUsage PROVE x.vendor \in Vendors
  <2>1. CASE x \in HeldSeats
    <3>1. PICK n \in seats : x = [who |-> SeatPerson(n), vendor |-> SeatRows[n].vendor, row |-> n]
      BY <2>1 DEF HeldSeats
    <3>2. n \in DOMAIN SeatRows
      BY DEF RowsKnown
    <3>3. QED BY <3>1, <3>2, DetectionAssumption
  <2>2. CASE x \in PersonUsage
    <3>1. PICK n \in usage : x = [who |-> UsagePerson(n), vendor |-> UsageRows[n].vendor, row |-> n]
      BY <2>2 DEF PersonUsage
    <3>2. n \in DOMAIN UsageRows
      BY DEF RowsKnown
    <3>3. QED BY <3>1, <3>2, DetectionAssumption
  <2>3. QED BY <2>1, <2>2
<1>3. ASSUME NEW x \in Observations(act, KnownEmails) PROVE x.vendor # ""
  <2>1. PICK o \in act : /\ AgentVendor(o.agent) # ""
                         /\ x = [who |-> SightedAs(o, KnownEmails), vendor |-> AgentVendor(o.agent), day |-> o.day]
    BY DEF Observations
  <2>2. QED BY <2>1
<1>4. ASSUME NEW x \in HeldSeats \cup PersonUsage, t = <<x.who, x.vendor>> PROVE t[2] = x.vendor /\ t = <<t[1], t[2]>>
  BY <1>4
<1>5. ASSUME NEW s \in Observations(act, KnownEmails), t = <<s.who.who, s.vendor>> PROVE t[2] = s.vendor /\ t = <<t[1], t[2]>>
  BY <1>5
<1>6. \/ \E x \in HeldSeats \cup PersonUsage : t = <<x.who, x.vendor>>
      \/ \E s \in Observations(act, KnownEmails) : t = <<s.who.who, s.vendor>>
  BY Zenon DEF Pairs
<1>7. QED BY <1>1, <1>2, <1>3, <1>4, <1>5, <1>6, Zenon

LEMMA ToolFields ==
  ASSUME NEW p, NEW v, NEW mine, NEW rows, NEW days, NEW ways
  PROVE  LET t == Tool(p, v, mine, rows, days, ways) IN
         /\ t.person = p /\ t.vendor = v /\ t.days = Cardinality(VendorDays(mine, rows) \cup days)
         /\ t.seatCents = SeatCents(mine) /\ t.cost = CostOf(rows) /\ t.dailyCost = Daily(rows)
BY DEF Tool

LEMMA DaysFinite ==
  /\ IsFiniteSet(Days)
  /\ \A days \in SUBSET Days : IsFiniteSet(days) /\ (days # {} => Cardinality(days) # 0)
<1>1. Today \in Int
  <2>1. Today \in Nat
    BY DetectionAssumption, Zenon
  <2>2. QED BY <2>1
<1>2. IsFiniteSet(Days)
  BY <1>1, FS_Interval DEF Days
<1>3. ASSUME NEW days \in SUBSET Days PROVE IsFiniteSet(days) /\ (days # {} => Cardinality(days) # 0)
  BY <1>2, FS_Subset, FS_EmptySet
<1>4. QED BY <1>2, <1>3

\* The days of a person's tool.
DaysOf(act, p, v) == VendorDays(SeatsOf(p, v), UsageOf(p, v)) \cup SeenOf(act, p, v)

LEMMA DaysOfDays ==
  ASSUME NEW act, NEW p, NEW v
  PROVE  DaysOf(act, p, v) \subseteq Days
<1>1. SeenOf(act, p, v) \subseteq Days
  <2>1. ASSUME NEW s \in Observations(act, KnownEmails) PROVE s.day \in Days
    <3>1. \E w, z, o : s = [who |-> w, vendor |-> z, day |-> o.day] /\ o.day \in Days
      BY Zenon DEF Observations
    <3>2. QED BY <3>1
  <2>2. QED BY <2>1 DEF SeenOf
<1>2. ASSUME NEW n \in UsageOf(p, v) PROVE UsageRows[n].day \in Days
  <2>1. ASSUME NEW x \in PersonUsage PROVE UsageRows[x.row].day \in Days
    <3>1. \E w, z, k : x = [who |-> w, vendor |-> z, row |-> k] /\ UsageRows[k].day \in Days
      BY Zenon DEF PersonUsage
    <3>2. QED BY <3>1
  <2>2. QED BY <2>1 DEF UsageOf
<1>3. QED BY <1>1, <1>2 DEF VendorDays, DaysOf

\* A mapped row's work, seen: the user's sighting is a day of the tool.
LEMMA WorkSeen ==
  ASSUME RowsKnown, NEW o, MappedRow(o), NEW v, v = AgentVendor(o.agent), v # ""
  PROVE  o.day \in DaysOf(DOMAIN activity, Person(WhoseRow(o)), v)
<1> DEFINE act == DOMAIN activity
           s == [who |-> SightedAs(o, KnownEmails), vendor |-> v, day |-> o.day]
<1>1. o \in act /\ o.day \in Days
  BY DEF MappedRow
<1>2. s \in Observations(act, KnownEmails)
  BY <1>1 DEF Observations
<1>3. SightedAs(o, KnownEmails).who = Person(WhoseRow(o))
  <2>1. SightedAs(o, KnownEmails) = [who |-> Person(WhoseRow(o)), via |-> "os_user"]
    BY RowPerson, Zenon
  <2>2. \A w, z : [who |-> w, via |-> z].who = w
    OBVIOUS
  <2>3. QED BY <2>1, <2>2, Zenon
<1>4. s.who.who = Person(WhoseRow(o)) /\ s.vendor = v /\ s.day = o.day
  BY <1>3
<1> HIDE DEF s, act
<1>5. o.day \in SeenOf(act, Person(WhoseRow(o)), v)
  BY <1>2, <1>4, Zenon DEF SeenOf
<1>6. QED BY <1>5 DEF DaysOf, act

LEMMA ToolOf ==
  ASSUME NEW act, NEW t \in Tools(act)
  PROVE  /\ t = ToolAt(act, t.person, t.vendor)
         /\ \E x \in Pairs(act) : t.person = x[1] /\ t.vendor = x[2]
<1>1. PICK x \in Pairs(act) : t = ToolAt(act, x[1], x[2])
  BY ToolsAre
<1>2. PICK p, v : p = x[1] /\ v = x[2]
  OBVIOUS
<1>3. t = Tool(p, v, SeatsOf(p, v), UsageOf(p, v), SeenOf(act, p, v), WaysOf(act, p))
  BY <1>1, <1>2 DEF ToolAt
<1>4. t.person = p /\ t.vendor = v
  BY <1>3 DEF Tool
<1>5. QED BY <1>1, <1>2, <1>4

LEMMA ToolDays ==
  ASSUME NEW act, NEW t \in Tools(act)
  PROVE  t.days = Cardinality(DaysOf(act, t.person, t.vendor))
<1>1. PICK p, v : p = t.person /\ v = t.vendor
  OBVIOUS
<1>2. t = Tool(p, v, SeatsOf(p, v), UsageOf(p, v), SeenOf(act, p, v), WaysOf(act, p))
  BY <1>1, ToolOf DEF ToolAt
<1>3. t.days = Cardinality(DaysOf(act, p, v))
  BY <1>2, ToolFields DEF DaysOf
<1>4. QED BY <1>1, <1>3

\* The tool with which a mapped user worked was used.
LEMMA WorkCounts ==
  ASSUME RowsKnown, NEW o, MappedRow(o), AgentVendor(o.agent) # "", NEW t,
         t \in Tools(DOMAIN activity) /\ t.person = Person(WhoseRow(o)) /\ t.vendor = AgentVendor(o.agent)
  PROVE  t.days # 0
<1>1. t.days = Cardinality(DaysOf(DOMAIN activity, Person(WhoseRow(o)), AgentVendor(o.agent)))
  BY ToolDays
<1>2. o.day \in DaysOf(DOMAIN activity, Person(WhoseRow(o)), AgentVendor(o.agent))
  BY WorkSeen
<1>3. QED BY <1>1, <1>2, DaysOfDays, DaysFinite

-----------------------------------------------------------------------------
(* Suggestions.                                                            *)

\* The sightings of unmapped OS users, and what is suggested for one.
UserSightings(act) == {s \in Sightings(act) : s.user # ""}
Unmapped(act) == {s \in UserSightings(act) : OsUser(s.user, s.m) = {}}
ManyPeople(act, known, u) ==
  Cardinality(UNION {GitPerson(s.git, known) : s \in {x \in UserSightings(act) : x.user = u}}) > 1
ByGitEmail(act, known, s) ==
  {Suggestion("os_user", s.user, IF ManyPeople(act, known, s.user) \/ s.user \in GenericUsers THEN s.m ELSE "", e,
              IF e \in persons THEN "high" ELSE "medium") : e \in GitPerson(s.git, known)}
ByLogin(known, s) == {Suggestion("os_user", s.user, "", e, "medium") : e \in NamedLike(s.user, known)}

LEMMA SuggestUsersAre ==
  ASSUME NEW act, NEW known
  PROVE  SuggestUsers(act, known) =
           (UNION {ByGitEmail(act, known, s) : s \in Unmapped(act)})
           \cup UNION {ByLogin(known, s) : s \in {y \in Unmapped(act) : GitPerson(y.git, known) = {} /\ y.user \notin GenericUsers}}
BY Zenon DEF SuggestUsers, UserSightings, Unmapped, ManyPeople, ByGitEmail, ByLogin

SuggestsUser(c, s) == \A i \in c.ids : i.kind = "os_user" /\ i.value = s.user /\ (i.host = s.m \/ i.host = "")

LEMMA ForUser ==
  ASSUME NEW act, NEW known, NEW s, NEW c, c \in ByGitEmail(act, known, s) \/ c \in ByLogin(known, s)
  PROVE  SuggestsUser(c, s)
<1>1. \E h, e, f : c = Suggestion("os_user", s.user, h, e, f) /\ (h = s.m \/ h = "")
  <2>1. ASSUME c \in ByGitEmail(act, known, s) PROVE \E h, e, f : c = Suggestion("os_user", s.user, h, e, f) /\ (h = s.m \/ h = "")
    <3> DEFINE Host == IF ManyPeople(act, known, s.user) \/ s.user \in GenericUsers THEN s.m ELSE ""
    <3>1. \E e, f : c = Suggestion("os_user", s.user, Host, e, f)
      BY <2>1, Zenon DEF ByGitEmail
    <3>2. Host = s.m \/ Host = ""
      OBVIOUS
    <3> HIDE DEF Host
    <3>3. QED BY <3>1, <3>2, Zenon
  <2>2. ASSUME c \in ByLogin(known, s) PROVE \E h, e, f : c = Suggestion("os_user", s.user, h, e, f) /\ (h = s.m \/ h = "")
    BY <2>2, Zenon DEF ByLogin
  <2>3. QED BY <2>1, <2>2, Zenon
<1>2. PICK h, e, f : c = Suggestion("os_user", s.user, h, e, f) /\ (h = s.m \/ h = "")
  BY <1>1, Zenon
<1>3. c.ids = {[kind |-> "os_user", value |-> s.user, host |-> h]}
  BY <1>2 DEF Suggestion
<1>4. \A x \in c.ids : x.kind = "os_user" /\ x.value = s.user /\ x.host = h
  BY <1>3
<1>5. QED BY <1>2, <1>4 DEF SuggestsUser

\* An OS user is suggested where one of a sighting is not mapped.
LEMMA UsersSuggested ==
  ASSUME NEW act, NEW known, NEW c, c \in SuggestUsers(act, known), NEW x, x \in c.ids
  PROVE  /\ x.kind = "os_user"
         /\ \E s \in Sightings(act) : x.value = s.user /\ x.host \in {s.m, ""} /\ OsUser(s.user, s.m) = {}
<1> DEFINE some == {y \in Unmapped(act) : GitPerson(y.git, known) = {} /\ y.user \notin GenericUsers}
           byGit == UNION {ByGitEmail(act, known, s) : s \in Unmapped(act)}
           byLogin == UNION {ByLogin(known, s) : s \in some}
<1>1. SuggestUsers(act, known) = byGit \cup byLogin
  <2>1. SuggestUsers(act, known) = (UNION {ByGitEmail(act, known, s) : s \in Unmapped(act)})
                                   \cup UNION {ByLogin(known, s) : s \in some}
    BY SuggestUsersAre, Zenon
  <2>2. QED BY ONLY <2>1, Zenon DEF byGit, byLogin
<1>a. ASSUME c \in byGit PROVE \E u \in Unmapped(act) : c \in ByGitEmail(act, known, u)
  BY <1>a
<1>b. ASSUME c \in byLogin PROVE \E u \in Unmapped(act) : c \in ByLogin(known, u)
  BY <1>b
<1> HIDE DEF byGit, byLogin, some
<1>c. PICK u \in Unmapped(act) : c \in ByGitEmail(act, known, u) \/ c \in ByLogin(known, u)
  <2>1. c \in byGit \/ c \in byLogin
    BY <1>1
  <2>2. QED BY <2>1, <1>a, <1>b, Zenon
<1>2. u \in Sightings(act) /\ OsUser(u.user, u.m) = {}
  BY DEF Unmapped, UserSightings
<1>3. SuggestsUser(c, u)
  BY <1>c, ForUser, Zenon
<1>4. QED BY <1>2, <1>3 DEF SuggestsUser

\* A git email is suggested for whoever a sighting of it is of.
LEMMA GitSuggested ==
  ASSUME NEW act, NEW known, NEW c \in SuggestGit(act, known), NEW x \in c.ids
  PROVE  /\ x.kind = "git_email"
         /\ \E s \in Sightings(act) :
              /\ x.value = s.git
              /\ Sighted(s, known).via = "os_user" => c.email = Sighted(s, known).who.value
<1> DEFINE Named(s) == {Suggestion("git_email", s.git, "", e, "low") : e \in NamedLike(s.git, known)}
           Tied(by, s) == Suggestion("git_email", s.git, "", by.who.value, "medium")
           As(by, s) == IF by.via \in {"os_user", "owner", "host"} THEN {Tied(by, s)} ELSE Named(s)
<1>1. PICK s \in Sightings(act) : c \in As(Sighted(s, known), s)
  BY Zenon DEF SuggestGit
<1>2. \E e, f : /\ c = Suggestion("git_email", s.git, "", e, f)
                /\ Sighted(s, known).via = "os_user" => e = Sighted(s, known).who.value
  <2>1. CASE Sighted(s, known).via \in {"os_user", "owner", "host"}
    <3>1. c = Suggestion("git_email", s.git, "", Sighted(s, known).who.value, "medium")
      BY <1>1, <2>1, Zenon
    <3>2. QED BY <3>1, Zenon
  <2>2. CASE Sighted(s, known).via \notin {"os_user", "owner", "host"}
    <3>1. Sighted(s, known).via # "os_user" /\ c \in Named(s)
      BY <1>1, <2>2, Zenon
    <3>2. QED BY <3>1, Zenon
  <2>3. QED BY <2>1, <2>2, Zenon
<1> HIDE DEF As, Tied, Named
<1>3. PICK e, f : /\ c = Suggestion("git_email", s.git, "", e, f)
                  /\ Sighted(s, known).via = "os_user" => e = Sighted(s, known).who.value
  BY <1>2, Zenon
<1>4. c.ids = {[kind |-> "git_email", value |-> s.git, host |-> ""]} /\ c.email = e
  BY <1>3 DEF Suggestion
<1>5. x.kind = "git_email" /\ x.value = s.git
  <2>1. x = [kind |-> "git_email", value |-> s.git, host |-> ""]
    BY <1>4, Zenon
  <2>2. \A k, v, h : LET i == [kind |-> k, value |-> v, host |-> h] IN i.kind = k /\ i.value = v /\ i.host = h
    OBVIOUS
  <2>3. QED BY <2>1, <2>2, Zenon
<1>6. QED BY <1>3, <1>4, <1>5, Zenon

LEMMA OthersSuggested ==
  ASSUME NEW act, NEW known, NEW c \in SuggestHosts(act, known) \cup SuggestSeats(known), NEW x \in c.ids
  PROVE  x.kind \in {"host", "github"}
<1>1. ASSUME c \in SuggestHosts(act, known) PROVE \E v, h, e, f : c = Suggestion("host", v, h, e, f)
  <2> DEFINE who(seen) == {y.who.value : y \in {z \in seen : ViaRank(z.via) = 3}}
             Host(h, seen) == /\ owner[h] = "" /\ Cardinality(who(seen)) = 1
                              /\ \E y \in seen : ViaRank(y.via) # 3
                              /\ Lookup("host", h) = {}
             On(h, seen) == IF Host(h, seen) THEN {Suggestion("host", h, "", The(who(seen)), "medium")} ELSE {}
             Of(h) == {Sighted(s, known) : s \in {y \in Sightings(act) : y.m = h}}
  <2>1. PICK h \in Hosts : c \in On(h, Of(h))
    BY <1>1, Zenon DEF SuggestHosts
  <2> HIDE DEF Host, who, Of
  <2>2. c = Suggestion("host", h, "", The(who(Of(h))), "medium")
    BY <2>1, Zenon
  <2>3. QED BY <2>2, Zenon
<1>2. ASSUME c \in SuggestSeats(known)
      PROVE  \E k, v, h, e, f : c = Suggestion(k, v, h, e, f) /\ (k = "person" \/ k = "github")
  <2> DEFINE kind(n) == SeatKind(SeatRows[n].vendor)
             id(n)   == SeatRows[n].identity
             strangers == {n \in seats : kind(n) = "email" /\ id(n) \in Emails \ persons /\ SeatPerson(n) = Person(id(n))}
             logins == {n \in seats : kind(n) = "github" /\ id(n) # "" /\ ~IsPerson(SeatPerson(n))}
  <2>1. SuggestSeats(known) = {Suggestion("person", "", "", id(n), "high") : n \in strangers}
                              \cup UNION {{Suggestion("github", id(n), "", e, "low") : e \in NamedLike(id(n), known)} : n \in logins}
    BY Zenon DEF SuggestSeats
  <2> HIDE DEF kind, id, strangers, logins
  <2>2. \/ \E e : c = Suggestion("person", "", "", e, "high")
        \/ \E v, e : c = Suggestion("github", v, "", e, "low")
    BY <1>2, <2>1, Zenon
  <2>3. QED BY <2>2, Zenon
<1>3. PICK k, v, h, e, f : c = Suggestion(k, v, h, e, f) /\ (k = "person" \/ k = "host" \/ k = "github")
  BY <1>1, <1>2, Zenon
<1>4. c.ids = IF k = "person" THEN {} ELSE {[kind |-> k, value |-> v, host |-> h]}
  BY <1>3 DEF Suggestion
<1>5. x.kind = k /\ k # "person"
  BY <1>4
<1>6. QED BY <1>3, <1>5, Zenon

\* What is suggested in the end is one of those, of identities nobody mapped.
Candidates(act, known) ==
  SuggestUsers(act, known) \cup SuggestGit(act, known) \cup SuggestHosts(act, known) \cup SuggestSeats(known)

LEMMA Suggested ==
  ASSUME NEW act, NEW s \in Suggest(act)
  PROVE  \E c \in Candidates(act, SuggestKnown(act)) :
           /\ c.ids \cap DOMAIN mapping = {}
           /\ s.ids = c.ids /\ s.email = c.email
<1>1. \E c \in Candidates(act, SuggestKnown(act)) :
        /\ c.ids \cap DOMAIN mapping = {}
        /\ s = c \/ s = [c EXCEPT !.confidence = "low"]
  BY Zenon DEF Suggest, Candidates
<1>2. PICK c \in Candidates(act, SuggestKnown(act)) :
        /\ c.ids \cap DOMAIN mapping = {}
        /\ s = c \/ s = [c EXCEPT !.confidence = "low"]
  BY <1>1, Zenon
<1>3. [c EXCEPT !.confidence = "low"].ids = c.ids /\ [c EXCEPT !.confidence = "low"].email = c.email
  OBVIOUS
<1>4. QED BY <1>2, <1>3, Zenon

-----------------------------------------------------------------------------
(* What somebody mapped wins, part by part.                                *)

LEMMA ToolVendor ==
  ASSUME RowsKnown, NEW act, NEW t \in Tools(act)
  PROVE  t.vendor # ""
<1>1. PICK x \in Pairs(act) : t.vendor = x[2]
  BY ToolOf
<1>2. x[2] # ""
  BY PairsVendor
<1>3. QED BY <1>1, <1>2

LEMMA NotUnused ==
  ASSUME RowsKnown, NEW o, MappedRow(o), NEW l \in Leaks(Tools(DOMAIN activity)), l.type = "unused_seat"
  PROVE  <<l.person, l.vendor>> # <<Person(WhoseRow(o)), AgentVendor(o.agent)>>
<1>1. PICK t \in Tools(DOMAIN activity) : t.person = l.person /\ t.vendor = l.vendor /\ t.days = 0
  BY UnusedLeaks
<1>2. t.vendor # ""
  BY ToolVendor
<1>3. ASSUME t.person = Person(WhoseRow(o)), t.vendor = AgentVendor(o.agent) PROVE FALSE
  <2>1. AgentVendor(o.agent) # ""
    BY <1>2, <1>3
  <2>2. t.days # 0
    BY <1>3, <2>1, WorkCounts
  <2>3. QED BY <1>1, <2>2
<1>4. QED BY <1>1, <1>3

LEMMA NotUnmanaged ==
  ASSUME RowsKnown, NEW o, MappedRow(o), o.agent \notin OrphanServers
  PROVE  Person(WhoseRow(o)) \notin Unmanaged(DOMAIN activity)
<1>1. SightedAs(o, KnownEmails).who \in Active(DOMAIN activity)
  BY DEF Active, MappedRow
<1>2. SightedAs(o, KnownEmails) = [who |-> Person(WhoseRow(o)), via |-> "os_user"]
  BY RowPerson, Zenon
<1>3. \A w, v : [who |-> w, via |-> v].who = w
  OBVIOUS
<1>4. Person(WhoseRow(o)) \in Active(DOMAIN activity)
  BY <1>1, <1>2, <1>3, Zenon
<1>5. QED BY <1>4 DEF Unmanaged

LEMMA SightingRow ==
  ASSUME NEW act, NEW s \in Sightings(act)
  PROVE  \E y \in act : s.m = y.m /\ s.user = y.user /\ s.git = y.git
<1>1. \E y \in act : s = [m |-> y.m, user |-> y.user, git |-> y.git]
  BY Zenon DEF Sightings
<1>2. QED BY <1>1

\* An identity of a candidate that is an OS user's, or a git email, is of
\* those suggestions.
LEMMA CandidateOf ==
  ASSUME NEW act, NEW known, NEW c \in Candidates(act, known), NEW x \in c.ids
  PROVE  /\ x.kind = "os_user" => c \in SuggestUsers(act, known)
         /\ x.kind = "git_email" => c \in SuggestGit(act, known)
<1>1. CASE c \in SuggestUsers(act, known)
  <2>1. x.kind = "os_user"
    BY <1>1, UsersSuggested
  <2>2. QED BY <1>1, <2>1
<1>2. CASE c \in SuggestGit(act, known)
  <2>1. x.kind = "git_email"
    BY <1>2, GitSuggested
  <2>2. QED BY <1>2, <2>1
<1>3. CASE c \in SuggestHosts(act, known) \cup SuggestSeats(known)
  <2>1. x.kind \in {"host", "github"}
    BY <1>3, OthersSuggested
  <2>2. QED BY <2>1
<1>4. QED BY <1>1, <1>2, <1>3 DEF Candidates

LEMMA NotSuggestedAgain ==
  ASSUME RowsKnown, NEW o, MappedRow(o), NEW s \in Suggest(DOMAIN activity), NEW x \in s.ids,
         x.kind = "os_user" /\ x.value = o.user
  PROVE  x.host # o.m /\ \E y \in DOMAIN activity : y.user = o.user /\ y.m # o.m
<1> DEFINE act == DOMAIN activity
           known == SuggestKnown(act)
<1>1. PICK c \in Candidates(act, known) : s.ids = c.ids /\ s.email = c.email
  BY Suggested
<1>2. o.m # "" /\ OsUser(o.user, o.m) = {WhoseRow(o)}
  BY RowPerson
<1> HIDE DEF known, act
<1>3. c \in SuggestUsers(act, known) /\ x \in c.ids
  BY <1>1, CandidateOf
<1>4. PICK u \in Sightings(act) : x.value = u.user /\ x.host \in {u.m, ""} /\ OsUser(u.user, u.m) = {}
  BY <1>3, UsersSuggested
<1>5. u.m # o.m
  <2>1. ASSUME u.m = o.m PROVE FALSE
    <3>1. OsUser(o.user, o.m) = {}
      BY <1>4, <2>1
    <3>2. QED BY <3>1, <1>2
  <2>2. QED BY <2>1
<1>6. PICK y \in act : u.m = y.m /\ u.user = y.user
  BY SightingRow
<1>7. QED BY <1>2, <1>4, <1>5, <1>6 DEF act

LEMMA GitOfMapped ==
  ASSUME RowsKnown, NEW o, MappedRow(o), NEW s \in Suggest(DOMAIN activity), NEW x \in s.ids,
         x.kind = "git_email" /\ x.value = o.git,
         \A y \in DOMAIN activity : y.git = o.git => y.user = o.user /\ y.m = o.m
  PROVE  s.email = WhoseRow(o)
<1> DEFINE act == DOMAIN activity
           known == SuggestKnown(act)
<1>1. PICK c \in Candidates(act, known) : s.ids = c.ids /\ s.email = c.email
  BY Suggested
<1>0. \A y \in act : y.git = o.git => y.user = o.user /\ y.m = o.m
  OBVIOUS
<1> HIDE DEF known, act
<1>2. c \in SuggestGit(act, known) /\ x \in c.ids
  BY <1>1, CandidateOf
<1>3. PICK u \in Sightings(act) :
        /\ x.value = u.git
        /\ Sighted(u, known).via = "os_user" => c.email = Sighted(u, known).who.value
  BY <1>2, GitSuggested
<1>4. PICK y \in act : u.m = y.m /\ u.user = y.user /\ u.git = y.git
  BY SightingRow
<1>5. u.user = o.user /\ u.m = o.m
  BY <1>0, <1>3, <1>4
<1>6. Sighted(u, known) = [who |-> Person(WhoseRow(o)), via |-> "os_user"]
  BY <1>5, SameUser
<1>7. Sighted(u, known).via = "os_user" /\ Sighted(u, known).who.value = WhoseRow(o)
  BY <1>6 DEF Person
<1>8. QED BY <1>1, <1>3, <1>7

\* What somebody mapped wins: the user's work counts for that person in the
\* leaks, the unmanaged and the report, and in what is suggested (detect.go's
\* Analyze, inventory/agents.go, server/people.go's suggestions).
LEMMA KnownRowsMapped == RowsKnown => MappedCounts
<1> SUFFICES ASSUME RowsKnown PROVE MappedCounts
  OBVIOUS
<1> DEFINE act == DOMAIN activity
           id(o) == [kind |-> "os_user", value |-> o.user, host |-> o.m]
           leaks == Leaks(Tools(act))
           unmanaged == Unmanaged(act)
           suggested == Suggest(act)
           Row1(o) ==
             LET who == Person(mapping[id(o)]) IN
             /\ \A l \in leaks : l.type = "unused_seat" => <<l.person, l.vendor>> # <<who, AgentVendor(o.agent)>>
             /\ o.agent \notin OrphanServers => who \notin unmanaged
             /\ ReportPerson(o) = who
             /\ \A s \in suggested : \A x \in s.ids :
                  /\ x.kind = "os_user" /\ x.value = o.user => x.host # o.m /\ \E y \in act : y.user = o.user /\ y.m # o.m
                  /\ x.kind = "git_email" /\ x.value = o.git /\ (\A y \in act : y.git = o.git => id(y) = id(o))
                       => Person(s.email) = who
<1>1. ASSUME NEW o \in {x \in act : x.day \in Days /\ id(x) \in DOMAIN mapping} PROVE Row1(o)
  <2>1. MappedRow(o)
    BY DEF MappedRow
  <2>2. mapping[id(o)] = WhoseRow(o)
    BY DEF WhoseRow
  <2>3. \A l \in leaks : l.type = "unused_seat" => <<l.person, l.vendor>> # <<Person(WhoseRow(o)), AgentVendor(o.agent)>>
    BY <2>1, NotUnused
  <2>4. o.agent \notin OrphanServers => Person(WhoseRow(o)) \notin unmanaged
    BY <2>1, NotUnmanaged
  <2>5. ReportPerson(o) = Person(WhoseRow(o))
    <3>1. SightedAs(o, PageEmails) = [who |-> Person(WhoseRow(o)), via |-> "os_user"]
      BY <2>1, RowPerson, Zenon
    <3>2. \A w, v : [who |-> w, via |-> v].who = w
      OBVIOUS
    <3>3. QED BY <3>1, <3>2, Zenon DEF ReportPerson
  <2>6. ASSUME NEW s \in suggested, NEW x \in s.ids, x.kind = "os_user" /\ x.value = o.user
        PROVE  x.host # o.m /\ \E y \in act : y.user = o.user /\ y.m # o.m
    BY <2>1, <2>6, NotSuggestedAgain
  <2>7. ASSUME NEW s \in suggested, NEW x \in s.ids, x.kind = "git_email" /\ x.value = o.git,
               \A y \in act : y.git = o.git => id(y) = id(o)
        PROVE  Person(s.email) = Person(WhoseRow(o))
    <3>1. \A y : id(y) = id(o) => y.user = o.user /\ y.m = o.m
      OBVIOUS
    <3>2. \A y \in DOMAIN activity : y.git = o.git => y.user = o.user /\ y.m = o.m
      BY <2>7, <3>1
    <3>3. s.email = WhoseRow(o)
      BY <2>1, <2>7, <3>2, GitOfMapped
    <3>4. QED BY <3>3
  <2> HIDE DEF act, leaks, unmanaged, suggested, id
  <2>8. QED BY <2>2, <2>3, <2>4, <2>5, <2>6, <2>7, Zenon
<1>2. ASSUME NEW s \in suggested PROVE ~Conflict(s.ids, s.email)
  <2>1. s.ids \cap DOMAIN mapping = {}
    BY Suggested
  <2>2. QED BY <2>1 DEF Conflict
<1>3. QED
  <2> HIDE DEF leaks, unmanaged, suggested
  <2>1. QED BY <1>1, <1>2, Zenon DEF MappedCounts, leaks, unmanaged, suggested

THEOREM MappingWins == InventorySpec => []MappedCounts
BY RowsKnownAlways, KnownRowsMapped, PTL DEF InventorySpec

-----------------------------------------------------------------------------
(* Induction, over the set of the numbers, or sets, that something holds   *)
(* of: the library's induction theorems take an operator.                  *)

LEMMA LeastNat ==
  ASSUME NEW T \in SUBSET Nat, T # {}
  PROVE  \E n \in T : \A k \in T : n <= k
<1> DEFINE Less == {p \in Nat \X Nat : p[1] < p[2]}
<1>1. OpToRel(<, Nat) = Less
  BY Zenon DEF OpToRel
<1>2. IsWellFoundedOn(Less, Nat)
  BY <1>1, NatLessThanWellFounded, Zenon
<1> HIDE DEF Less
<1>3. PICK n \in T : \A k \in T : ~(<<k, n>> \in Less)
  BY <1>2, WFMin
<1>4. \A k \in T : k < n => <<k, n>> \in Less
  BY DEF Less
<1>5. ASSUME NEW k \in T PROVE n <= k
  <2>1. k \in Nat /\ n \in Nat
    OBVIOUS
  <2>2. ~(k < n)
    BY <1>3, <1>4, Zenon
  <2>3. QED BY <2>1, <2>2
<1>6. QED BY <1>5

LEMMA InductNat ==
  ASSUME NEW T, 0 \in T, \A n \in Nat : n \in T => n + 1 \in T
  PROVE  \A n \in Nat : n \in T
<1>1. CASE Nat \ T = {}
  BY <1>1
<1>2. CASE Nat \ T # {}
  <2>1. PICK n \in Nat \ T : \A k \in Nat \ T : n <= k
    BY <1>2, LeastNat
  <2>2. n # 0 /\ n - 1 \in Nat /\ (n - 1) + 1 = n /\ ~(n <= n - 1)
    BY <2>1
  <2>3. n - 1 \in T
    BY <2>1, <2>2
  <2>4. QED BY <2>1, <2>2, <2>3
<1>3. QED BY <1>1, <1>2

LEMMA WithoutOne ==
  ASSUME NEW D, IsFiniteSet(D), NEW s \in SUBSET D, NEW x \in s
  PROVE  /\ s \ {x} \in SUBSET D /\ IsFiniteSet(s)
         /\ Cardinality(s) \in Nat \ {0} /\ Cardinality(s \ {x}) = Cardinality(s) - 1
<1>1. IsFiniteSet(s)
  BY FS_Subset
<1>2. Cardinality(s) \in Nat /\ Cardinality(s) # 0
  BY <1>1, FS_CardinalityType, FS_EmptySet
<1>3. Cardinality(s \ {x}) = Cardinality(s) - 1
  BY <1>1, FS_RemoveElement
<1>4. QED BY <1>1, <1>2, <1>3

\* What holds of no elements, and with one more of any that it holds of, holds of all.
LEMMA InductSet ==
  ASSUME NEW D, IsFiniteSet(D), NEW T, {} \in T,
         \A s \in SUBSET D : \A x \in D \ s : s \in T => s \cup {x} \in T
  PROVE  D \in T
<1> DEFINE Good == {n \in Nat : \A s \in SUBSET D : Cardinality(s) = n => s \in T}
<1>1. 0 \in Good
  <2>1. ASSUME NEW s \in SUBSET D, Cardinality(s) = 0 PROVE s = {}
    BY <2>1, FS_Subset, FS_EmptySet
  <2>2. QED BY <2>1
<1>2. ASSUME NEW n \in Nat, n \in Good PROVE n + 1 \in Good
  <2>1. ASSUME NEW s \in SUBSET D, Cardinality(s) = n + 1 PROVE s \in T
    <3>1. s # {}
      <4>1. Cardinality({}) = 0 /\ n + 1 # 0
        BY FS_EmptySet
      <4>2. QED BY <2>1, <4>1
    <3>2. PICK x \in s : TRUE
      BY <3>1
    <3>3. Cardinality(s \ {x}) = n /\ s \ {x} \in SUBSET D
      BY <2>1, WithoutOne
    <3>4. s \ {x} \in T /\ x \in D \ (s \ {x}) /\ (s \ {x}) \cup {x} = s
      BY <1>2, <3>3
    <3>5. QED BY <3>3, <3>4
  <2>2. QED BY <2>1
<1> HIDE DEF Good
<1>3. Cardinality(D) \in Nat
  BY FS_CardinalityType
<1>4. Cardinality(D) \in Good
  BY <1>1, <1>2, <1>3, InductNat
<1>5. QED BY <1>4 DEF Good

-----------------------------------------------------------------------------
(* Sums.  A sum is a recursive function of the subsets of its set, any     *)
(* element first; it exists, by induction on their size, and does not      *)
(* depend on which comes first.                                            *)

Picked(s) == CHOOSE x \in s : TRUE
Added(f, g, s) == IF s = {} THEN 0 ELSE f[Picked(s)] + g[s \ {Picked(s)}]
Upto(D, n) == {s \in SUBSET D : Cardinality(s) <= n}
SumsUpto(g, f, D, n) == g = [s \in Upto(D, n) |-> Added(f, g, s)]
Sums(g, f, D) == g = [s \in SUBSET D |-> Added(f, g, s)]

LEMMA SumsExist ==
  ASSUME NEW f, NEW D, IsFiniteSet(D)
  PROVE  \E g : Sums(g, f, D)
<1> DEFINE Good == {n \in Nat : \E g : SumsUpto(g, f, D, n)}
<1>0. \A s \in SUBSET D : Cardinality(s) \in Nat
  BY FS_Subset, FS_CardinalityType
<1>1. 0 \in Good
  <2> DEFINE g == [s \in Upto(D, 0) |-> 0]
  <2>1. ASSUME NEW s \in Upto(D, 0) PROVE s = {}
    <3>1. s \in SUBSET D /\ Cardinality(s) <= 0
      BY DEF Upto
    <3>2. IsFiniteSet(s) /\ Cardinality(s) = 0
      BY <3>1, <1>0, FS_Subset
    <3>3. QED BY <3>2, FS_EmptySet
  <2>2. \A s \in Upto(D, 0) : Added(f, g, s) = 0
    BY <2>1 DEF Added
  <2>3. g = [s \in Upto(D, 0) |-> Added(f, g, s)]
    BY <2>2
  <2> HIDE DEF g
  <2>4. SumsUpto(g, f, D, 0)
    BY <2>3 DEF SumsUpto
  <2>5. QED BY <2>4
<1>2. ASSUME NEW n \in Nat, n \in Good PROVE n + 1 \in Good
  <2>1. PICK h : SumsUpto(h, f, D, n)
    BY <1>2
  <2> DEFINE g == [s \in Upto(D, n + 1) |-> Added(f, h, s)]
  <2>2. ASSUME NEW s \in Upto(D, n) PROVE g[s] = h[s]
    <3>1. s \in Upto(D, n + 1)
      BY <1>0 DEF Upto
    <3>2. g[s] = Added(f, h, s)
      BY <3>1
    <3>3. h[s] = Added(f, h, s)
      BY <2>1 DEF SumsUpto
    <3>4. QED BY <3>2, <3>3
  <2>3. ASSUME NEW s \in Upto(D, n + 1) PROVE Added(f, g, s) = Added(f, h, s)
    <3>1. CASE s = {}
      BY <3>1 DEF Added
    <3>2. CASE s # {}
      <4>1. Picked(s) \in s /\ s \in SUBSET D /\ Cardinality(s) <= n + 1
        BY <3>2 DEF Picked, Upto
      <4>2. s \ {Picked(s)} \in SUBSET D /\ Cardinality(s \ {Picked(s)}) = Cardinality(s) - 1 /\ Cardinality(s) \in Nat
        BY <4>1, WithoutOne
      <4>3. Cardinality(s \ {Picked(s)}) <= n
        BY <4>1, <4>2
      <4>4. s \ {Picked(s)} \in Upto(D, n)
        BY <4>2, <4>3 DEF Upto
      <4>5. g[s \ {Picked(s)}] = h[s \ {Picked(s)}]
        BY <4>4, <2>2
      <4> HIDE DEF g
      <4>6. QED BY <4>5 DEF Added
    <3>3. QED BY <3>1, <3>2
  <2>4. g = [s \in Upto(D, n + 1) |-> Added(f, g, s)]
    BY <2>3
  <2> HIDE DEF g
  <2>5. SumsUpto(g, f, D, n + 1)
    BY <2>4 DEF SumsUpto
  <2>6. QED BY <2>5
<1> HIDE DEF Good
<1>3. Cardinality(D) \in Nat
  BY FS_CardinalityType
<1>4. Cardinality(D) \in Good
  BY <1>1, <1>2, <1>3, InductNat
<1>5. PICK g : SumsUpto(g, f, D, Cardinality(D))
  BY <1>4 DEF Good
<1>6. Upto(D, Cardinality(D)) = SUBSET D
  BY FS_Subset DEF Upto
<1>7. Sums(g, f, D)
  BY <1>5, <1>6 DEF SumsUpto, Sums
<1>8. QED BY <1>7

LEMMA SumIs ==
  ASSUME NEW f, NEW D, IsFiniteSet(D)
  PROVE  \E g : Sums(g, f, D) /\ SumFunctionOnSet(f, D) = g[D]
<1> DEFINE Is(g) == g = [s \in SUBSET D |-> IF s = {} THEN 0 ELSE f[CHOOSE x \in s : TRUE] + g[s \ {CHOOSE x \in s : TRUE}]]
           g == CHOOSE g : Is(g)
<1>1. SumFunctionOnSet(f, D) = g[D]
  BY DEF SumFunctionOnSet, FoldFunctionOnSet, MapThenFoldSet
<1>2. \A h : Is(h) <=> Sums(h, f, D)
  BY DEF Sums, Added, Picked
<1>3. \E h : Is(h)
  <2> HIDE DEF Is
  <2>1. QED BY <1>2, SumsExist
<1> HIDE DEF Is
<1>4. Is(g)
  BY <1>3
<1> HIDE DEF g
<1>5. QED BY <1>1, <1>2, <1>4

Tabled(g, f, D) == \A s \in SUBSET D : g[s] \in Int /\ \A x \in s : g[s] = f[x] + g[s \ {x}]

\* Picked element of a set may be the first.
LEMMA SumTable ==
  ASSUME NEW f, NEW D, IsFiniteSet(D), \A x \in D : f[x] \in Int, NEW g, Sums(g, f, D)
  PROVE  Tabled(g, f, D)
<1> DEFINE Fine(s) == g[s] \in Int /\ \A x \in s : g[s] = f[x] + g[s \ {x}]
           Good == {n \in Nat : \A s \in SUBSET D : Cardinality(s) <= n => Fine(s)}
<1>0. \A s \in SUBSET D : g[s] = Added(f, g, s)
  BY DEF Sums
<1>1. 0 \in Good
  <2>1. ASSUME NEW s \in SUBSET D, Cardinality(s) <= 0 PROVE s = {}
    <3>1. IsFiniteSet(s) /\ Cardinality(s) = 0
      BY <2>1, FS_Subset, FS_CardinalityType
    <3>2. QED BY <3>1, FS_EmptySet
  <2>2. g[{}] = 0
    BY <1>0 DEF Added
  <2>3. Fine({})
    BY <2>2
  <2> HIDE DEF Fine
  <2>4. QED BY <2>1, <2>3
<1>2. ASSUME NEW n \in Nat, n \in Good PROVE n + 1 \in Good
  <2>1. ASSUME NEW s \in SUBSET D, Cardinality(s) = n + 1 PROVE Fine(s)
    <3> DEFINE y == Picked(s)
    <3>1. s # {}
      <4>1. Cardinality({}) = 0 /\ n + 1 # 0
        BY FS_EmptySet
      <4>2. QED BY <2>1, <4>1
    <3>2. y \in s
      BY <3>1 DEF Picked
    <3>3. g[s] = f[y] + g[s \ {y}]
      BY <1>0, <3>1 DEF Added
    <3> HIDE DEF y
    <3>4. ASSUME NEW x \in s PROVE s \ {x} \in SUBSET D /\ Cardinality(s \ {x}) <= n /\ Fine(s \ {x})
      <4>1. s \ {x} \in SUBSET D /\ Cardinality(s \ {x}) = Cardinality(s) - 1
        BY WithoutOne
      <4>2. Cardinality(s \ {x}) <= n
        BY <2>1, <4>1
      <4> HIDE DEF Fine
      <4>3. QED BY <1>2, <4>1, <4>2
    <3>5. g[s] \in Int
      <4>1. g[s \ {y}] \in Int /\ f[y] \in Int
        BY <3>2, <3>4
      <4>2. QED BY <3>3, <4>1
    <3>6. ASSUME NEW x \in s PROVE g[s] = f[x] + g[s \ {x}]
      <4>1. CASE x = y
        BY <3>3, <4>1
      <4>2. CASE x # y
        <5>1. x \in s \ {y} /\ y \in s \ {x} /\ (s \ {y}) \ {x} = (s \ {x}) \ {y}
          BY <3>2, <4>2
        <5>2. g[s \ {y}] = f[x] + g[(s \ {y}) \ {x}]
          BY <3>2, <3>4, <5>1
        <5>3. g[s \ {x}] = f[y] + g[(s \ {x}) \ {y}]
          BY <3>4, <5>1
        <5>4. g[(s \ {x}) \ {y}] \in Int
          <6>1. y \in s \ {x} /\ s \ {x} \in SUBSET D /\ Cardinality(s \ {x}) = n
            <7>1. Cardinality(s \ {x}) = Cardinality(s) - 1
              BY WithoutOne
            <7>2. QED BY <2>1, <3>4, <5>1, <7>1
          <6>2. (s \ {x}) \ {y} \in SUBSET D /\ Cardinality((s \ {x}) \ {y}) = n - 1
            BY <6>1, WithoutOne
          <6>3. Cardinality((s \ {x}) \ {y}) <= n
            BY <6>2
          <6> HIDE DEF Fine
          <6>4. Fine((s \ {x}) \ {y})
            BY <1>2, <6>2, <6>3
          <6>5. QED BY <6>4 DEF Fine
        <5>5. f[x] \in Int /\ f[y] \in Int
          BY <3>2
        <5>6. PICK w \in Int, a \in Int, b \in Int : w = g[(s \ {x}) \ {y}] /\ a = f[x] /\ b = f[y]
          BY <5>4, <5>5
        <5>7. g[s \ {y}] = a + w /\ g[s \ {x}] = b + w /\ g[s] = b + g[s \ {y}]
          BY <3>3, <5>1, <5>2, <5>3, <5>6
        <5>8. g[s] = b + (a + w) /\ b + (a + w) = a + (b + w)
          BY <5>7
        <5>9. QED BY <5>6, <5>7, <5>8
      <4>3. QED BY <4>1, <4>2
    <3>7. QED BY <3>5, <3>6
  <2>2. ASSUME NEW s \in SUBSET D, Cardinality(s) <= n + 1 PROVE Fine(s)
    <3>1. Cardinality(s) \in Nat
      BY FS_Subset, FS_CardinalityType
    <3>2. Cardinality(s) <= n \/ Cardinality(s) = n + 1
      BY <2>2, <3>1
    <3> HIDE DEF Fine
    <3>3. QED BY <1>2, <2>1, <3>2
  <2> HIDE DEF Fine
  <2>3. QED BY <2>2
<1> HIDE DEF Good
<1>3. \A n \in Nat : n \in Good
  BY <1>1, <1>2, InductNat
<1>4. ASSUME NEW s \in SUBSET D PROVE Fine(s)
  <2>1. Cardinality(s) \in Nat
    BY FS_Subset, FS_CardinalityType
  <2>2. QED BY <1>3, <2>1 DEF Good
<1>5. QED BY <1>4 DEF Tabled

LEMMA SameSums ==
  ASSUME NEW f, NEW D, NEW E, IsFiniteSet(D), IsFiniteSet(E), \A x \in D \cup E : f[x] \in Int,
         NEW g, Sums(g, f, D), NEW h, Sums(h, f, E), NEW s, s \subseteq D, s \subseteq E
  PROVE  g[s] = h[s]
<1> DEFINE T == {r \in SUBSET s : g[r] = h[r]}
<1>1. g[{}] = 0 /\ h[{}] = 0
  BY DEF Sums, Added
<1>2. ASSUME NEW r \in SUBSET s, NEW x \in s \ r, r \in T PROVE r \cup {x} \in T
  <2>1. r \cup {x} \in SUBSET D /\ r \cup {x} \in SUBSET E /\ x \in r \cup {x} /\ (r \cup {x}) \ {x} = r
    OBVIOUS
  <2>2. g[r \cup {x}] = f[x] + g[r]
    <3>1. \A y \in D : f[y] \in Int
      OBVIOUS
    <3>2. Tabled(g, f, D)
      BY <3>1, SumTable
    <3>3. QED BY <2>1, <3>2 DEF Tabled
  <2>3. h[r \cup {x}] = f[x] + h[r]
    <3>1. \A y \in E : f[y] \in Int
      OBVIOUS
    <3>2. Tabled(h, f, E)
      BY <3>1, SumTable
    <3>3. QED BY <2>1, <3>2 DEF Tabled
  <2>4. QED BY <1>2, <2>2, <2>3
<1>3. IsFiniteSet(s) /\ {} \in T
  BY <1>1, FS_Subset
<1> HIDE DEF T
<1>4. s \in T
  BY <1>2, <1>3, InductSet
<1>5. QED BY <1>4 DEF T

\* A sum and one more.
LEMMA SumOne ==
  ASSUME NEW f, NEW s, IsFiniteSet(s), NEW x, x \notin s, \A y \in s \cup {x} : f[y] \in Int
  PROVE  SumFunctionOnSet(f, s \cup {x}) = f[x] + SumFunctionOnSet(f, s)
<1> DEFINE D == s \cup {x}
<1>1. IsFiniteSet(D)
  BY FS_AddElement
<1>2. x \in D /\ D \ {x} = s /\ D \in SUBSET D /\ s \subseteq D
  OBVIOUS
<1>3. \A y \in D : f[y] \in Int
  OBVIOUS
<1> HIDE DEF D
<1>4. PICK g : Sums(g, f, D) /\ SumFunctionOnSet(f, D) = g[D]
  BY <1>1, SumIs
<1>5. PICK h : Sums(h, f, s) /\ SumFunctionOnSet(f, s) = h[s]
  BY SumIs
<1>6. g[D] = f[x] + g[s]
  <2>1. Tabled(g, f, D)
    BY <1>1, <1>3, <1>4, SumTable
  <2>2. QED BY <1>2, <2>1 DEF Tabled
<1>7. g[s] = h[s]
  <2>1. \A y \in D \cup s : f[y] \in Int
    BY <1>2, <1>3
  <2>2. QED BY <1>1, <1>2, <1>4, <1>5, <2>1, SameSums
<1>8. QED BY <1>4, <1>5, <1>6, <1>7 DEF D

LEMMA SumNone ==
  ASSUME NEW f
  PROVE  SumFunctionOnSet(f, {}) = 0
<1>1. PICK g : Sums(g, f, {}) /\ SumFunctionOnSet(f, {}) = g[{}]
  BY SumIs, FS_EmptySet
<1>2. QED BY <1>1 DEF Sums, Added

LEMMA SumInt ==
  ASSUME NEW f, NEW D, IsFiniteSet(D), \A x \in D : f[x] \in Int
  PROVE  SumFunctionOnSet(f, D) \in Int
<1>1. PICK g : Sums(g, f, D) /\ SumFunctionOnSet(f, D) = g[D]
  BY SumIs
<1>2. Tabled(g, f, D)
  BY <1>1, SumTable
<1>3. QED BY <1>1, <1>2 DEF Tabled

LEMMA SumLe ==
  ASSUME NEW D, IsFiniteSet(D), NEW f, NEW h, \A x \in D : f[x] \in Int /\ h[x] \in Int /\ f[x] <= h[x]
  PROVE  SumFunctionOnSet(f, D) <= SumFunctionOnSet(h, D)
<1> DEFINE T == {s \in SUBSET D : SumFunctionOnSet(f, s) <= SumFunctionOnSet(h, s)}
<1>1. {} \in T
  BY SumNone
<1>2. ASSUME NEW s \in SUBSET D, NEW x \in D \ s, s \in T PROVE s \cup {x} \in T
  <2>1. IsFiniteSet(s) /\ s \cup {x} \in SUBSET D
    BY FS_Subset
  <2>2. SumFunctionOnSet(f, s \cup {x}) = f[x] + SumFunctionOnSet(f, s)
    BY <2>1, SumOne
  <2>3. SumFunctionOnSet(h, s \cup {x}) = h[x] + SumFunctionOnSet(h, s)
    BY <2>1, SumOne
  <2>4. SumFunctionOnSet(f, s) \in Int /\ SumFunctionOnSet(h, s) \in Int
    BY <2>1, SumInt
  <2>5. SumFunctionOnSet(f, s) <= SumFunctionOnSet(h, s)
    BY <1>2
  <2>6. f[x] \in Int /\ h[x] \in Int /\ f[x] <= h[x]
    OBVIOUS
  <2>7. SumFunctionOnSet(f, s \cup {x}) <= SumFunctionOnSet(h, s \cup {x})
    BY <2>2, <2>3, <2>4, <2>5, <2>6
  <2>8. QED BY <2>1, <2>7
<1> HIDE DEF T
<1>3. D \in T
  BY <1>1, <1>2, InductSet
<1>4. QED BY <1>3 DEF T

LEMMA SumZero ==
  ASSUME NEW D, IsFiniteSet(D), NEW f, \A x \in D : f[x] = 0
  PROVE  SumFunctionOnSet(f, D) = 0
<1> DEFINE T == {s \in SUBSET D : SumFunctionOnSet(f, s) = 0}
<1>1. {} \in T
  BY SumNone
<1>2. ASSUME NEW s \in SUBSET D, NEW x \in D \ s, s \in T PROVE s \cup {x} \in T
  <2>1. IsFiniteSet(s) /\ s \cup {x} \in SUBSET D
    BY FS_Subset
  <2>2. SumFunctionOnSet(f, s \cup {x}) = f[x] + SumFunctionOnSet(f, s)
    BY <2>1, SumOne
  <2>3. QED BY <1>2, <2>1, <2>2
<1> HIDE DEF T
<1>3. D \in T
  BY <1>1, <1>2, InductSet
<1>4. QED BY <1>3 DEF T

LEMMA SumNat ==
  ASSUME NEW D, IsFiniteSet(D), NEW f, \A x \in D : f[x] \in Nat
  PROVE  SumFunctionOnSet(f, D) \in Nat
<1> DEFINE T == {s \in SUBSET D : SumFunctionOnSet(f, s) \in Nat}
<1>1. {} \in T
  BY SumNone
<1>2. ASSUME NEW s \in SUBSET D, NEW x \in D \ s, s \in T PROVE s \cup {x} \in T
  <2>1. IsFiniteSet(s) /\ s \cup {x} \in SUBSET D
    BY FS_Subset
  <2>2. SumFunctionOnSet(f, s \cup {x}) = f[x] + SumFunctionOnSet(f, s)
    BY <2>1, SumOne
  <2>3. f[x] \in Nat /\ SumFunctionOnSet(f, s) \in Nat
    BY <1>2
  <2>4. QED BY <2>1, <2>2, <2>3
<1> HIDE DEF T
<1>3. D \in T
  BY <1>1, <1>2, InductSet
<1>4. QED BY <1>3 DEF T

\* The sum of two sets that share nothing.
LEMMA SumUnion ==
  ASSUME NEW A, NEW B, IsFiniteSet(A), IsFiniteSet(B), A \cap B = {}, NEW f, \A x \in A \cup B : f[x] \in Int
  PROVE  SumFunctionOnSet(f, A \cup B) = SumFunctionOnSet(f, A) + SumFunctionOnSet(f, B)
<1> DEFINE T == {s \in SUBSET B : SumFunctionOnSet(f, A \cup s) = SumFunctionOnSet(f, A) + SumFunctionOnSet(f, s)}
<1>0. SumFunctionOnSet(f, A) \in Int
  BY SumInt
<1>1. {} \in T
  <2>1. A \cup {} = A
    OBVIOUS
  <2>2. QED BY <1>0, <2>1, SumNone
<1>2. ASSUME NEW s \in SUBSET B, NEW x \in B \ s, s \in T PROVE s \cup {x} \in T
  <2>1. IsFiniteSet(s) /\ s \cup {x} \in SUBSET B /\ IsFiniteSet(A \cup s)
    BY FS_Subset, FS_Union
  <2>2. SumFunctionOnSet(f, s \cup {x}) = f[x] + SumFunctionOnSet(f, s)
    BY <2>1, SumOne
  <2>3. SumFunctionOnSet(f, (A \cup s) \cup {x}) = f[x] + SumFunctionOnSet(f, A \cup s)
    <3>1. x \notin A \cup s /\ \A y \in (A \cup s) \cup {x} : f[y] \in Int
      OBVIOUS
    <3>2. QED BY <2>1, <3>1, SumOne
  <2>4. SumFunctionOnSet(f, s) \in Int /\ f[x] \in Int
    BY <2>1, SumInt
  <2>5. SumFunctionOnSet(f, A \cup s) = SumFunctionOnSet(f, A) + SumFunctionOnSet(f, s)
    BY <1>2
  <2>6. (A \cup s) \cup {x} = A \cup (s \cup {x})
    OBVIOUS
  <2>7. f[x] + (SumFunctionOnSet(f, A) + SumFunctionOnSet(f, s)) = SumFunctionOnSet(f, A) + (f[x] + SumFunctionOnSet(f, s))
    BY <1>0, <2>4
  <2>8. SumFunctionOnSet(f, A \cup (s \cup {x})) = SumFunctionOnSet(f, A) + SumFunctionOnSet(f, s \cup {x})
    BY <2>2, <2>3, <2>5, <2>6, <2>7
  <2>9. QED BY <2>1, <2>8
<1> HIDE DEF T
<1>3. B \in T
  BY <1>1, <1>2, InductSet
<1>4. QED BY <1>3 DEF T

LEMMA SumSubset ==
  ASSUME NEW B, IsFiniteSet(B), NEW A \in SUBSET B, NEW f, \A x \in B : f[x] \in Nat
  PROVE  SumFunctionOnSet(f, A) <= SumFunctionOnSet(f, B)
<1>1. IsFiniteSet(A) /\ IsFiniteSet(B \ A) /\ A \cap (B \ A) = {} /\ A \cup (B \ A) = B
  BY FS_Subset
<1>2. \A x \in A \cup (B \ A) : f[x] \in Int
  OBVIOUS
<1>3. SumFunctionOnSet(f, B) = SumFunctionOnSet(f, A) + SumFunctionOnSet(f, B \ A)
  BY <1>1, <1>2, SumUnion
<1>4. SumFunctionOnSet(f, A) \in Nat /\ SumFunctionOnSet(f, B \ A) \in Nat
  BY <1>1, SumNat
<1>5. QED BY <1>3, <1>4

\* A sum whose terms are, one for one, at most those of another.
LEMMA SumImage ==
  ASSUME NEW D, IsFiniteSet(D), NEW j, NEW E, IsFiniteSet(E), NEW f, NEW h,
         \A x \in D : j[x] \in E /\ f[x] \in Int /\ f[x] <= h[j[x]],
         \A x, y \in D : j[x] = j[y] => x = y,
         \A y \in E : h[y] \in Nat
  PROVE  SumFunctionOnSet(f, D) <= SumFunctionOnSet(h, E)
<1> DEFINE Image(s) == {j[x] : x \in s}
           T == {s \in SUBSET D : SumFunctionOnSet(f, s) <= SumFunctionOnSet(h, Image(s))}
<1>1. {} \in T
  <2>1. Image({}) = {}
    OBVIOUS
  <2>2. QED BY <2>1, SumNone
<1>2. ASSUME NEW s \in SUBSET D, NEW x \in D \ s, s \in T PROVE s \cup {x} \in T
  <2>1. IsFiniteSet(s) /\ s \cup {x} \in SUBSET D
    BY FS_Subset
  <2>2. Image(s) \subseteq E /\ j[x] \in E /\ j[x] \notin Image(s)
    OBVIOUS
  <2>3. Image(s \cup {x}) = Image(s) \cup {j[x]}
    OBVIOUS
  <2> HIDE DEF Image
  <2>4. IsFiniteSet(Image(s))
    BY <2>2, FS_Subset
  <2>5. SumFunctionOnSet(f, s \cup {x}) = f[x] + SumFunctionOnSet(f, s)
    BY <2>1, SumOne
  <2>6. SumFunctionOnSet(h, Image(s) \cup {j[x]}) = h[j[x]] + SumFunctionOnSet(h, Image(s))
    <3>1. \A y \in Image(s) \cup {j[x]} : h[y] \in Int
      BY <2>2
    <3>2. QED BY <2>2, <2>4, <3>1, SumOne
  <2>7. SumFunctionOnSet(f, s) \in Int /\ SumFunctionOnSet(h, Image(s)) \in Int
    <3>1. \A y \in Image(s) : h[y] \in Int
      BY <2>2
    <3>2. \A y \in s : f[y] \in Int
      OBVIOUS
    <3>3. QED BY <2>1, <2>4, <3>1, <3>2, SumInt
  <2>8. f[x] \in Int /\ h[j[x]] \in Int /\ f[x] <= h[j[x]]
    BY <2>2
  <2>9. SumFunctionOnSet(f, s) <= SumFunctionOnSet(h, Image(s))
    BY <1>2
  <2>10. SumFunctionOnSet(f, s \cup {x}) <= SumFunctionOnSet(h, Image(s \cup {x}))
    <3>1. f[x] + SumFunctionOnSet(f, s) <= h[j[x]] + SumFunctionOnSet(h, Image(s))
      BY <2>7, <2>8, <2>9
    <3>2. QED BY <2>3, <2>5, <2>6, <3>1
  <2>11. QED BY <2>1, <2>10
<1>3. Image(D) \in SUBSET E
  OBVIOUS
<1> HIDE DEF T
<1>4. D \in T
  BY <1>1, <1>2, InductSet
<1>5. SumFunctionOnSet(f, D) <= SumFunctionOnSet(h, Image(D))
  BY <1>4 DEF T
<1> HIDE DEF Image
<1>6. SumFunctionOnSet(h, Image(D)) <= SumFunctionOnSet(h, E)
  BY <1>3, SumSubset
<1>7. SumFunctionOnSet(f, D) \in Int
  BY SumInt
<1>8. SumFunctionOnSet(h, Image(D)) \in Nat /\ SumFunctionOnSet(h, E) \in Nat
  BY <1>3, FS_Subset, SumNat
<1>9. QED BY <1>5, <1>6, <1>7, <1>8

\* A sum by what its terms are of.
Parts(part, f, A, key, I) == \A i \in I : part[i] = SumFunctionOnSet(f, {x \in A : key[x] = i})

LEMMA SumParts ==
  ASSUME NEW A, IsFiniteSet(A), NEW I, IsFiniteSet(I), NEW key, NEW f, NEW part,
         \A x \in A : f[x] \in Int /\ key[x] \in I,
         Parts(part, f, A, key, I)
  PROVE  SumFunctionOnSet(part, I) = SumFunctionOnSet(f, A)
<1> DEFINE In(s) == {x \in A : key[x] \in s}
           T == {s \in SUBSET I : SumFunctionOnSet(part, s) = SumFunctionOnSet(f, In(s))}
<1>0. \A s : IsFiniteSet(In(s)) /\ \A x \in In(s) : f[x] \in Int
  BY FS_Subset
<1>1. {} \in T
  <2>1. In({}) = {}
    OBVIOUS
  <2>2. QED BY <2>1, SumNone
<1>2. ASSUME NEW i \in I PROVE part[i] = SumFunctionOnSet(f, In({i})) /\ part[i] \in Int
  <2>1. In({i}) = {x \in A : key[x] = i}
    OBVIOUS
  <2>2. SumFunctionOnSet(f, In({i})) \in Int
    <3> HIDE DEF In
    <3>1. QED BY <1>0, SumInt
  <2> HIDE DEF In
  <2>3. QED BY <2>1, <2>2 DEF Parts
<1>3. ASSUME NEW s \in SUBSET I, NEW i \in I \ s, s \in T PROVE s \cup {i} \in T
  <2>1. IsFiniteSet(s) /\ s \cup {i} \in SUBSET I
    BY FS_Subset
  <2>2. In(s \cup {i}) = In(s) \cup In({i}) /\ In(s) \cap In({i}) = {}
    OBVIOUS
  <2>3. SumFunctionOnSet(part, s) = SumFunctionOnSet(f, In(s))
    BY <1>3
  <2> HIDE DEF In
  <2>4. SumFunctionOnSet(part, s \cup {i}) = part[i] + SumFunctionOnSet(part, s)
    BY <1>2, <2>1, SumOne
  <2>5. SumFunctionOnSet(f, In(s) \cup In({i})) = SumFunctionOnSet(f, In(s)) + SumFunctionOnSet(f, In({i}))
    <3>1. \A x \in In(s) \cup In({i}) : f[x] \in Int
      BY <1>0
    <3>2. QED BY <1>0, <2>2, <3>1, SumUnion
  <2>6. SumFunctionOnSet(f, In(s)) \in Int
    BY <1>0, SumInt
  <2>7. SumFunctionOnSet(part, s \cup {i}) = SumFunctionOnSet(f, In(s \cup {i}))
    <3>1. part[i] + SumFunctionOnSet(f, In(s)) = SumFunctionOnSet(f, In(s)) + part[i] /\ part[i] = SumFunctionOnSet(f, In({i}))
      BY <1>2, <2>6
    <3>2. SumFunctionOnSet(f, In(s \cup {i})) = SumFunctionOnSet(f, In(s)) + part[i]
      BY <2>2, <2>5, <3>1
    <3>3. QED BY <2>3, <2>4, <3>1, <3>2
  <2>8. QED BY <2>1, <2>7
<1>4. In(I) = A
  OBVIOUS
<1> HIDE DEF T, In
<1>5. I \in T
  BY <1>1, <1>3, InductSet
<1>6. QED BY <1>4, <1>5 DEF T

\* Some element of a finite set costs the most.
LEMMA Most ==
  ASSUME NEW D, IsFiniteSet(D), D # {}, NEW f, \A x \in D : f[x] \in Int
  PROVE  \E x \in D : \A y \in D : f[y] <= f[x]
<1> DEFINE T == {s \in SUBSET D : s = {} \/ \E x \in s : \A y \in s : f[y] <= f[x]}
<1>1. {} \in T
  OBVIOUS
<1>2. ASSUME NEW s \in SUBSET D, NEW x \in D \ s, s \in T PROVE s \cup {x} \in T
  <2>1. CASE s = {}
    <3>1. s \cup {x} = {x} /\ f[x] <= f[x]
      BY <2>1
    <3>2. QED BY <3>1
  <2>2. CASE s # {}
    <3>1. PICK m \in s : \A y \in s : f[y] <= f[m]
      BY <1>2, <2>2
    <3>2. CASE f[x] <= f[m]
      <4>1. \A y \in s \cup {x} : f[y] <= f[m]
        BY <3>1, <3>2
      <4>2. QED BY <4>1
    <3>3. CASE ~(f[x] <= f[m])
      <4>1. ASSUME NEW y \in s \cup {x} PROVE f[y] <= f[x]
        <5>1. f[x] \in Int /\ f[m] \in Int /\ f[y] \in Int
          OBVIOUS
        <5>2. y = x \/ f[y] <= f[m]
          BY <3>1
        <5>3. QED BY <3>3, <5>1, <5>2
      <4>2. QED BY <4>1
    <3>4. QED BY <3>2, <3>3
  <2>3. QED BY <2>1, <2>2
<1> HIDE DEF T
<1>3. D \in T
  BY <1>1, <1>2, InductSet
<1>4. QED BY <1>3 DEF T

-----------------------------------------------------------------------------
(* No cent is counted in two leaks.                                        *)

\* A tool is one person's of one vendor.
Keyed(tools) == \A t, u \in tools : t.person = u.person /\ t.vendor = u.vendor => t = u

\* What a leak is of, before it is attributed.
SeatLeak(type, t) == Leak(type, t.vendor, t.person, t.seatCents, 0, Sure(t))
ShadowSure(t) == IF t.vendor \notin Vendors THEN "low" ELSE IF IsPerson(t.person) THEN "high" ELSE "medium"
ShadowLeak(t) == Leak("shadow_spend", t.vendor, t.person, 0, 1, ShadowSure(t))
PaidTools(tools, v) == {t \in tools : t.vendor = v /\ t.cost > 0}
CostLeak(v, p, over, spike) ==
  IF over > 0 THEN Leak("runaway_cost", v, p, over, 0, "high") ELSE Leak("runaway_cost", v, p, spike, 0, "medium")
RunLeak(tools, v, t) == CostLeak(v, t.person, Over(t, PaidTools(tools, v)), SpikeExcess(t.dailyCost))

LEMMA UnusedIs ==
  ASSUME NEW tools, NEW k \in UnusedSeats(tools)
  PROVE  \E t \in tools : k = SeatLeak("unused_seat", t)
BY Zenon DEF UnusedSeats, SeatLeak

LEMMA DuplicateIs ==
  ASSUME NEW tools, NEW already, NEW k \in Duplicates(tools, already)
  PROVE  \E t \in tools : /\ k = SeatLeak("duplicate_tool", t)
                          /\ \A l \in already : <<l.person, l.vendor>> # <<t.person, t.vendor>>
BY Zenon DEF Duplicates, SeatLeak

LEMMA ShadowIs ==
  ASSUME NEW tools, NEW k \in ShadowSpend(tools)
  PROVE  \E t \in tools : k = ShadowLeak(t)
BY Zenon DEF ShadowSpend, ShadowLeak, ShadowSure

\* The organisation's own spike is of what no person uses.
LEMMA RunawayIs ==
  ASSUME NEW tools, NEW v, SpikeExcess(Daily(OrgUsage(v))) = 0, NEW k \in Runaway(tools, v)
  PROVE  \E t \in PaidTools(tools, v) : k = RunLeak(tools, v, t)
<1> DEFINE costly == {[person |-> t.person, over |-> Over(t, PaidTools(tools, v)), spike |-> SpikeExcess(t.dailyCost)] :
                        t \in PaidTools(tools, v)}
<1>1. \E c \in costly : k = IF c.over > 0 THEN Leak("runaway_cost", v, c.person, c.over, 0, "high")
                            ELSE Leak("runaway_cost", v, c.person, c.spike, 0, "medium")
  BY DEF Runaway, PaidTools
<1>2. ASSUME NEW t \in PaidTools(tools, v), NEW c,
             c = [person |-> t.person, over |-> Over(t, PaidTools(tools, v)), spike |-> SpikeExcess(t.dailyCost)]
      PROVE  c.person = t.person /\ c.over = Over(t, PaidTools(tools, v)) /\ c.spike = SpikeExcess(t.dailyCost)
  BY <1>2
<1>3. PICK t \in PaidTools(tools, v), c \in costly :
        /\ c = [person |-> t.person, over |-> Over(t, PaidTools(tools, v)), spike |-> SpikeExcess(t.dailyCost)]
        /\ k = IF c.over > 0 THEN Leak("runaway_cost", v, c.person, c.over, 0, "high")
                ELSE Leak("runaway_cost", v, c.person, c.spike, 0, "medium")
  BY <1>1, Zenon
<1>4. c.person = t.person /\ c.over = Over(t, PaidTools(tools, v)) /\ c.spike = SpikeExcess(t.dailyCost)
  BY <1>2, <1>3
<1>5. k = RunLeak(tools, v, t)
  BY <1>3, <1>4, Zenon DEF RunLeak, CostLeak
<1>6. QED BY <1>5

LEMMA RunawayVendor ==
  ASSUME NEW tools, NEW v, NEW k \in Runaway(tools, v)
  PROVE  \E p, x, c : k = Leak("runaway_cost", v, p, x, 0, c)
BY Zenon DEF Runaway

LEMMA CostLeakFields ==
  ASSUME NEW v, NEW p, NEW over, NEW spike
  PROVE  LET l == CostLeak(v, p, over, spike) IN
         /\ l.type = "runaway_cost" /\ l.vendor = v /\ l.person = p
         /\ l.savings = IF over > 0 THEN over ELSE spike
BY DEF CostLeak, Leak

LEMMA AttributedFields ==
  ASSUME NEW tools, NEW k, NEW ty, NEW v, NEW p, NEW s, NEW g, NEW c, k = Leak(ty, v, p, s, g, c)
  PROVE  LET l == Attributed(tools, k) IN
         l.type = k.type /\ l.vendor = k.vendor /\ l.person = k.person /\ l.savings = k.savings
<1> DEFINE l == Attributed(tools, k)
<1>1. l = k \/ l = [k EXCEPT !.confidence = "medium"]
  BY Zenon DEF Attributed
<1> HIDE DEF l
<1>2. QED BY <1>1 DEF Leak, l
\* A leak l of vendor v, what it was before it was attributed, and its tool.
SeatTypes == {"unused_seat", "duplicate_tool"}
LeakFrom(tools, v, l, k, t) ==
  /\ l = Attributed(tools, k)
  /\ t.person = l.person /\ t.vendor = v
  /\ \/ l.type = "unused_seat" /\ k = SeatLeak("unused_seat", t) /\ k \in UnusedSeats(tools) /\ l.savings = t.seatCents
     \/ /\ l.type = "duplicate_tool" /\ k = SeatLeak("duplicate_tool", t) /\ l.savings = t.seatCents
        /\ \A u \in UnusedSeats(tools) : <<u.person, u.vendor>> # <<t.person, t.vendor>>
     \/ l.type = "shadow_spend" /\ k = ShadowLeak(t) /\ l.savings = 0
     \/ l.type = "runaway_cost" /\ k = RunLeak(tools, v, t) /\ t \in PaidTools(tools, v) /\ l.savings = k.savings

LEMMA LeakOfTool ==
  ASSUME NEW tools, NEW v \in Vendors, SpikeExcess(Daily(OrgUsage(v))) = 0, NEW l \in Leaks(tools), l.vendor = v
  PROVE  \E k : \E t \in tools : LeakFrom(tools, v, l, k, t)
<1> DEFINE found == UnusedSeats(tools)
           all == found \cup Duplicates(tools, found) \cup ShadowSpend(tools) \cup UNION {Runaway(tools, w) : w \in Vendors}
<1>1. PICK k \in all : l = Attributed(tools, k)
  BY Zenon DEF Leaks
<1> HIDE DEF found
<1>2. CASE k \in found
  <2>1. PICK t \in tools : k = SeatLeak("unused_seat", t)
    BY <1>2, UnusedIs DEF found
  <2>2. k.type = "unused_seat" /\ k.vendor = t.vendor /\ k.person = t.person /\ k.savings = t.seatCents
    BY <2>1, LeakFields DEF SeatLeak
  <2>3. l.type = k.type /\ l.vendor = k.vendor /\ l.person = k.person /\ l.savings = k.savings
    BY <1>1, <2>1, AttributedFields DEF SeatLeak
  <2>4. LeakFrom(tools, v, l, k, t)
    BY <1>1, <1>2, <2>1, <2>2, <2>3 DEF LeakFrom, found
  <2>5. QED BY <2>4
<1>3. CASE k \in Duplicates(tools, found)
  <2>1. PICK t \in tools : /\ k = SeatLeak("duplicate_tool", t)
                           /\ \A u \in found : <<u.person, u.vendor>> # <<t.person, t.vendor>>
    BY <1>3, DuplicateIs
  <2>2. k.type = "duplicate_tool" /\ k.vendor = t.vendor /\ k.person = t.person /\ k.savings = t.seatCents
    BY <2>1, LeakFields DEF SeatLeak
  <2>3. l.type = k.type /\ l.vendor = k.vendor /\ l.person = k.person /\ l.savings = k.savings
    BY <1>1, <2>1, AttributedFields DEF SeatLeak
  <2>4. LeakFrom(tools, v, l, k, t)
    BY <1>1, <2>1, <2>2, <2>3 DEF LeakFrom, found
  <2>5. QED BY <2>4
<1>4. CASE k \in ShadowSpend(tools)
  <2>1. PICK t \in tools : k = ShadowLeak(t)
    BY <1>4, ShadowIs
  <2>2. k.type = "shadow_spend" /\ k.vendor = t.vendor /\ k.person = t.person /\ k.savings = 0
    BY <2>1, LeakFields DEF ShadowLeak
  <2>3. l.type = k.type /\ l.vendor = k.vendor /\ l.person = k.person /\ l.savings = k.savings
    BY <1>1, <2>1, AttributedFields DEF ShadowLeak
  <2>4. LeakFrom(tools, v, l, k, t)
    BY <1>1, <2>1, <2>2, <2>3 DEF LeakFrom
  <2>5. QED BY <2>4
<1>5. CASE k \in UNION {Runaway(tools, w) : w \in Vendors}
  <2>1. PICK w \in Vendors : k \in Runaway(tools, w)
    BY <1>5
  <2>2. \E p, x, c : k = Leak("runaway_cost", w, p, x, 0, c)
    BY <2>1, RunawayVendor
  <2>3. k.vendor = w /\ l.type = k.type /\ l.vendor = k.vendor /\ l.person = k.person /\ l.savings = k.savings
    BY <1>1, <2>2, LeakFields, AttributedFields
  <2>4. PICK t \in PaidTools(tools, v) : k = RunLeak(tools, v, t)
    BY <2>1, <2>3, RunawayIs
  <2>5. k.type = "runaway_cost" /\ k.person = t.person
    BY <2>4, CostLeakFields DEF RunLeak
  <2>6. t \in tools /\ t.vendor = v
    BY DEF PaidTools
  <2>7. LeakFrom(tools, v, l, k, t)
    BY <1>1, <2>3, <2>4, <2>5, <2>6 DEF LeakFrom
  <2>8. QED BY <2>6, <2>7
<1>6. QED BY <1>1, <1>2, <1>3, <1>4, <1>5

\* Two leaks of one kind are of two tools; so are an unused and a duplicate seat.
SameKind(l, m) == l.type = m.type \/ {l.type, m.type} \subseteq SeatTypes

LEMMA OneLeak ==
  ASSUME NEW tools, Keyed(tools), NEW v,
         NEW l, NEW k, NEW t \in tools, LeakFrom(tools, v, l, k, t),
         NEW m, NEW j, NEW u \in tools, LeakFrom(tools, v, m, j, u),
         SameKind(l, m), l.person = m.person
  PROVE  l = m
<1>1. t = u
  BY DEF Keyed, LeakFrom
<1>2. ASSUME NEW a, NEW b, a = SeatLeak("unused_seat", t) /\ a \in UnusedSeats(tools),
             \A w \in UnusedSeats(tools) : <<w.person, w.vendor>> # <<t.person, t.vendor>>
      PROVE  FALSE
  <2>1. a.person = t.person /\ a.vendor = t.vendor
    BY <1>2, LeakFields DEF SeatLeak
  <2>2. QED BY <1>2, <2>1
<1>3. k = j
  BY <1>1, <1>2 DEF LeakFrom, SameKind, SeatTypes
<1>4. QED BY <1>3 DEF LeakFrom
\* Leaks of one kind, and what each and its tool are worth.
KindOf(tools, v, L, saved, cost) ==
  /\ \A l \in L : l \in Leaks(tools) /\ l.vendor = v /\ saved[l] = l.savings
  /\ \A l, m \in L : SameKind(l, m)
  /\ \A t \in tools : t.vendor = v => cost[t] \in Nat
  /\ \A l \in L : \A k : \A t \in tools : LeakFrom(tools, v, l, k, t) => l.savings \in Int /\ l.savings <= cost[t]

\* The sum of the leaks of a kind, one a tool, against that of their tools.
LEMMA KindWithin ==
  ASSUME NEW tools, IsFiniteSet(tools), Keyed(tools), NEW v \in Vendors, SpikeExcess(Daily(OrgUsage(v))) = 0,
         NEW L, NEW saved, NEW cost, KindOf(tools, v, L, saved, cost)
  PROVE  /\ IsFiniteSet(L)
         /\ SumFunctionOnSet(saved, L) \in Int
         /\ SumFunctionOnSet(saved, L) <= SumFunctionOnSet(cost, {t \in tools : t.vendor = v})
<1> DEFINE E == {t \in tools : t.vendor = v}
           Of(l) == CHOOSE t \in tools : \E k : LeakFrom(tools, v, l, k, t)
           j == [l \in L |-> Of(l)]
<1>1. ASSUME NEW l \in L PROVE Of(l) \in tools /\ \E k : LeakFrom(tools, v, l, k, Of(l))
  <2>1. \E t \in tools : \E k : LeakFrom(tools, v, l, k, t)
    BY LeakOfTool DEF KindOf
  <2>2. QED BY <2>1, Zenon
<1> HIDE DEF Of
<1>2. j = [l \in L |-> j[l]] /\ \A l \in L : j[l] \in tools /\ \E k : LeakFrom(tools, v, l, k, j[l])
  BY <1>1
<1> HIDE DEF j
<1>3. ASSUME NEW l \in L PROVE j[l] \in E /\ j[l].person = l.person /\ l.savings \in Int /\ l.savings <= cost[j[l]]
  <2>1. PICK k : LeakFrom(tools, v, l, k, j[l])
    BY <1>2
  <2>2. j[l] \in tools /\ j[l].vendor = v /\ j[l].person = l.person
    BY <1>2, <2>1 DEF LeakFrom
  <2>3. QED BY <2>1, <2>2 DEF KindOf
<1>4. ASSUME NEW l \in L, NEW m \in L, j[l] = j[m] PROVE l = m
  <2>1. PICK k : LeakFrom(tools, v, l, k, j[l])
    BY <1>2
  <2>2. PICK i : LeakFrom(tools, v, m, i, j[m])
    BY <1>2
  <2>3. l.person = m.person /\ j[l] \in tools /\ j[m] \in tools
    BY <1>2, <1>3, <1>4
  <2>4. SameKind(l, m)
    BY DEF KindOf
  <2>5. QED BY <2>1, <2>2, <2>3, <2>4, OneLeak
<1>5. IsFiniteSet(E)
  BY FS_Subset
<1>6. \A t \in E : cost[t] \in Nat
  BY DEF KindOf
<1> HIDE DEF E
<1>7. IsFiniteSet(L)
  <2>1. j \in [L -> E]
    BY <1>2, <1>3
  <2>2. j \in Injection(L, E)
    BY <1>4, <2>1 DEF Injection, IsInjective
  <2>3. QED BY <1>5, <2>2, FS_Injection
<1>8. \A l \in L : saved[l] \in Int /\ saved[l] <= cost[j[l]] /\ j[l] \in E
  BY <1>3 DEF KindOf
<1>9. SumFunctionOnSet(saved, L) \in Int
  BY <1>7, <1>8, SumInt
<1>10. SumFunctionOnSet(saved, L) <= SumFunctionOnSet(cost, E)
  BY <1>4, <1>5, <1>6, <1>7, <1>8, SumImage
<1>11. QED BY <1>7, <1>9, <1>10 DEF E
LEMMA MinNat ==
  ASSUME NEW S \in SUBSET Nat, S # {}
  PROVE  Min(S) \in S
<1>1. \E n \in S : \A k \in S : n <= k
  BY LeastNat
<1>2. QED BY <1>1, Zenon DEF Min

\* The cost that the k-th of some tools has, in the order of what they cost.
NthCost(paid, k) == Min({c \in {t.cost : t \in paid} : Cardinality({t \in paid : t.cost <= c}) >= k})

LEMMA NthNat ==
  ASSUME NEW paid, IsFiniteSet(paid), \A t \in paid : t.cost \in Nat, NEW k \in 1 .. Cardinality(paid)
  PROVE  NthCost(paid, k) \in Nat
<1> DEFINE costs == {c \in {t.cost : t \in paid} : Cardinality({t \in paid : t.cost <= c}) >= k}
           f == [t \in paid |-> t.cost]
<1>1. Cardinality(paid) \in Nat /\ Cardinality(paid) >= k /\ k >= 1
  BY FS_CardinalityType
<1>2. paid # {}
  BY <1>1, FS_EmptySet
<1>3. \A t \in paid : f[t] \in Int /\ f[t] = t.cost
  OBVIOUS
<1> HIDE DEF f
<1>4. PICK m \in paid : \A t \in paid : f[t] <= f[m]
  BY <1>2, <1>3, Most
<1>5. {t \in paid : t.cost <= m.cost} = paid
  BY <1>3, <1>4
<1>6. m.cost \in costs
  BY <1>1, <1>5
<1>7. costs \in SUBSET Nat
  OBVIOUS
<1> HIDE DEF costs
<1>8. Min(costs) \in Nat
  BY <1>6, <1>7, MinNat
<1>9. QED BY <1>8 DEF NthCost, costs

LEMMA MedianNat ==
  ASSUME NEW paid, IsFiniteSet(paid), \A t \in paid : t.cost \in Nat
  PROVE  Median(paid) \in Nat
<1> DEFINE n == Cardinality(paid)
<1>1. n \in Nat
  BY FS_CardinalityType
<1>2. Median(paid) = IF n = 0 THEN 0
                     ELSE IF n % 2 = 1 THEN NthCost(paid, n \div 2 + 1)
                     ELSE (NthCost(paid, n \div 2) + NthCost(paid, n \div 2 + 1)) \div 2
  BY DEF Median, NthCost
<1>3. \A k \in 1 .. n : NthCost(paid, k) \in Nat
  BY NthNat
<1> HIDE DEF n
<1>4. CASE n = 0
  BY <1>2, <1>4
<1>5. CASE n # 0 /\ n % 2 = 1
  <2>1. n \div 2 + 1 \in 1 .. n
    BY <1>1, <1>5
  <2>2. QED BY <1>2, <1>3, <1>5, <2>1
<1>6. CASE n # 0 /\ n % 2 # 1
  <2>1. n \div 2 + 1 \in 1 .. n /\ n \div 2 \in 1 .. n
    BY <1>1, <1>6
  <2>2. PICK a \in Nat, b \in Nat : a = NthCost(paid, n \div 2) /\ b = NthCost(paid, n \div 2 + 1)
    BY <1>3, <2>1
  <2>3. (a + b) \div 2 \in Nat
    BY <2>2
  <2>4. QED BY <1>2, <1>6, <2>2, <2>3
<1>7. QED BY <1>4, <1>5, <1>6

\* What a person costs beyond the others is not more than what they cost.
LEMMA OverWithin ==
  ASSUME NEW paid, IsFiniteSet(paid), \A x \in paid : x.cost \in Nat, NEW t \in paid
  PROVE  Over(t, paid) \in Int /\ Over(t, paid) <= t.cost
<1>1. PICK med \in Nat : med = Median(paid)
  BY MedianNat
<1>2. PICK x \in Nat : x = Thresholds.medianX
  BY DetectionAssumption, Zenon
<1>3. x * med \in Nat
  BY <1>1, <1>2
<1>4. PICK y \in Nat : y = x * med
  BY <1>3
<1>5. Over(t, paid) = t.cost - y \/ Over(t, paid) = 0
  BY <1>1, <1>2, <1>4, Zenon DEF Over
<1>6. t.cost \in Nat
  OBVIOUS
<1>7. QED BY <1>5, <1>6
-----------------------------------------------------------------------------
(* Costs by day.                                                           *)

Costs == [n \in DOMAIN UsageRows |-> UsageRows[n].cost]

LEMMA Amounts ==
  /\ Today \in Nat /\ Thresholds.recent \in Nat /\ Thresholds.recent <= Today
  /\ Thresholds.lookback \in Nat /\ Thresholds.lookback # 0
  /\ \A n \in DOMAIN UsageRows : Costs[n] = UsageRows[n].cost /\ Costs[n] \in Nat
  /\ IsFiniteSet(DOMAIN UsageRows) /\ IsFiniteSet(DOMAIN SeatRows)
  /\ DOMAIN UsageRows \subseteq Nat /\ DOMAIN SeatRows \subseteq Nat
<1>1. Today \in Nat /\ Thresholds.recent \in 0 .. Today
  BY DetectionAssumption, Zenon
<1>2. Thresholds.lookback \in Nat \ {0}
  BY DetectionAssumption, Zenon
<1>3. \A n \in DOMAIN UsageRows : UsageRows[n].cost \in Nat
  BY DetectionAssumption, Zenon
<1>4. \A S : \A q \in Seq(S) : IsFiniteSet(DOMAIN q) /\ DOMAIN q \subseteq Nat
  <2> SUFFICES ASSUME NEW S, NEW q \in Seq(S) PROVE IsFiniteSet(DOMAIN q) /\ DOMAIN q \subseteq Nat
    OBVIOUS
  <2>1. Len(q) \in Nat /\ DOMAIN q = 1 .. Len(q)
    OBVIOUS
  <2>2. QED BY <2>1, FS_Interval
<1>5. SeatRows \in Seq(Range(SeatRows)) /\ UsageRows \in Seq(Range(UsageRows))
  BY DetectionAssumption, Zenon
<1>6. QED BY <1>1, <1>2, <1>3, <1>4, <1>5 DEF Costs

LEMMA CostNat ==
  ASSUME NEW rows \in SUBSET (DOMAIN UsageRows)
  PROVE  CostOf(rows) = SumFunctionOnSet(Costs, rows) /\ CostOf(rows) \in Nat
<1>1. CostOf(rows) = SumFunctionOnSet(Costs, rows)
  BY Zenon DEF CostOf, Costs
<1>2. IsFiniteSet(rows) /\ \A n \in rows : Costs[n] \in Nat
  BY Amounts, FS_Subset
<1>3. QED BY <1>1, <1>2, SumNat

DailyDays == 1 - Thresholds.lookback .. Today

LEMMA DailyCosts ==
  ASSUME NEW rows \in SUBSET (DOMAIN UsageRows)
  PROVE  /\ Daily(rows) \in [DailyDays -> Nat]
         /\ \A d \in DailyDays : Daily(rows)[d] = SumFunctionOnSet(Costs, {n \in rows : UsageRows[n].day = d})
<1>1. \A d : {n \in rows : UsageRows[n].day = d} \in SUBSET (DOMAIN UsageRows)
  OBVIOUS
<1>2. Daily(rows) = [d \in DailyDays |-> CostOf({n \in rows : UsageRows[n].day = d})]
  BY Zenon DEF Daily, DailyDays
<1>3. QED BY <1>1, <1>2, CostNat

LEMMA ExcessWithin ==
  ASSUME NEW daily \in [DailyDays -> Nat], NEW d \in Today - Thresholds.recent + 1 .. Today
  PROVE  /\ d \in Days /\ d \in DailyDays
         /\ Excess(daily, d) \in Int /\ Excess(daily, d) <= daily[d]
         /\ (\A e \in DailyDays : daily[e] = 0) => Excess(daily, d) = 0
<1> DEFINE before == d - Thresholds.lookback .. d - 1
<1>1. PICK b \in Nat, r \in Nat, n \in Nat :
        b = Thresholds.lookback /\ r = Thresholds.recent /\ n = Today /\ b # 0 /\ r <= n
  BY Amounts
<1>2. d \in n - r + 1 .. n
  BY <1>1
<1>3. d \in 1 .. n /\ d \in 1 - b .. n /\ d - b .. d - 1 \subseteq 1 - b .. n
  BY <1>1, <1>2
<1>4. d \in Days /\ d \in DailyDays /\ before \subseteq DailyDays
  BY <1>1, <1>3 DEF Days, DailyDays
<1>5. IsFiniteSet(before)
  <2>1. d - b \in Int /\ d - 1 \in Int /\ before = d - b .. d - 1
    BY <1>1, <1>2
  <2>2. QED BY <2>1, FS_Interval
<1>6. Excess(daily, d) = daily[d] - SumFunctionOnSet(daily, before) \div Thresholds.lookback
  BY DEF Excess
<1> HIDE DEF before
<1>7. \A e \in before : daily[e] \in Nat
  BY <1>4
<1>8. PICK s \in Nat : s = SumFunctionOnSet(daily, before)
  BY <1>5, <1>7, SumNat
<1>9. daily[d] \in Nat /\ s \div b \in Nat /\ (s = 0 => s \div b = 0)
  BY <1>1, <1>4, <1>8
<1>10. (\A e \in DailyDays : daily[e] = 0) => s = 0
  BY <1>4, <1>5, <1>8, SumZero
<1>11. Excess(daily, d) = daily[d] - (s \div b)
  BY <1>1, <1>6, <1>8
<1>12. PICK q \in Nat, z \in Nat : q = s \div b /\ z = daily[d]
  BY <1>9
<1>13. QED BY <1>4, <1>9, <1>10, <1>11, <1>12

\* A spike is not more than what the days cost.
LEMMA SpikeWithin ==
  ASSUME NEW daily \in [DailyDays -> Nat]
  PROVE  /\ SpikeExcess(daily) \in Int
         /\ SpikeExcess(daily) <= SumFunctionOnSet(daily, Days)
         /\ (\A e \in DailyDays : daily[e] = 0) => SpikeExcess(daily) = 0
<1> DEFINE S == SpikeDays(daily)
           f == [d \in S |-> Excess(daily, d)]
<1>1. S \subseteq Today - Thresholds.recent + 1 .. Today
  BY DEF SpikeDays
<1> HIDE DEF S
<1>2. \A d \in S : d \in Days /\ d \in DailyDays /\ f[d] \in Int /\ f[d] <= daily[d] /\ daily[d] \in Nat
  BY <1>1, ExcessWithin
<1>3. (\A e \in DailyDays : daily[e] = 0) => \A d \in S : f[d] = 0
  BY <1>1, ExcessWithin
<1>4. SpikeExcess(daily) = SumFunctionOnSet(f, S)
  <2>1. DOMAIN f = S
    OBVIOUS
  <2>2. SpikeExcess(daily) = SumFunction(f)
    BY DEF SpikeExcess, S
  <2> HIDE DEF f
  <2>3. QED BY <2>1, <2>2 DEF SumFunction
<1> HIDE DEF f
<1>5. IsFiniteSet(Days) /\ IsFiniteSet(S) /\ S \in SUBSET Days
  BY <1>2, DaysFinite, FS_Subset
<1>6. SumFunctionOnSet(f, S) \in Int /\ SumFunctionOnSet(f, S) <= SumFunctionOnSet(daily, S)
  <2>1. \A d \in S : f[d] \in Int /\ daily[d] \in Int /\ f[d] <= daily[d]
    BY <1>2
  <2>2. QED BY <1>5, <2>1, SumInt, SumLe
<1>7. SumFunctionOnSet(daily, S) <= SumFunctionOnSet(daily, Days)
  <2>1. \A d \in Days : daily[d] \in Nat
    <3>1. Days \subseteq DailyDays
      BY Amounts DEF Days, DailyDays
    <3>2. QED BY <3>1
  <2>2. QED BY <1>5, <2>1, SumSubset
<1>8. SumFunctionOnSet(daily, S) \in Int /\ SumFunctionOnSet(daily, Days) \in Int
  <2>1. \A d \in Days : daily[d] \in Int
    <3>1. Days \subseteq DailyDays
      BY Amounts DEF Days, DailyDays
    <3>2. QED BY <3>1
  <2>2. \A d \in S : daily[d] \in Int
    BY <1>2
  <2>3. QED BY <1>5, <2>1, <2>2, SumInt
<1>9. (\A e \in DailyDays : daily[e] = 0) => SumFunctionOnSet(f, S) = 0
  BY <1>3, <1>5, SumZero
<1>10. QED BY <1>4, <1>6, <1>7, <1>8, <1>9

\* The days' costs are all the costs of the rows of the window.
LEMMA DailySum ==
  ASSUME NEW rows \in SUBSET (DOMAIN UsageRows), \A n \in rows : UsageRows[n].day \in Days
  PROVE  SumFunctionOnSet(Daily(rows), Days) = CostOf(rows)
<1> DEFINE key == [n \in DOMAIN UsageRows |-> UsageRows[n].day]
<1>1. \A n \in rows : Costs[n] \in Int /\ key[n] \in Days /\ key[n] = UsageRows[n].day
  BY Amounts
<1> HIDE DEF key
<1>2. IsFiniteSet(rows) /\ IsFiniteSet(Days)
  BY Amounts, DaysFinite, FS_Subset
<1>3. Days \subseteq DailyDays
  BY Amounts DEF Days, DailyDays
<1>4. \A d \in Days : Daily(rows)[d] = SumFunctionOnSet(Costs, {n \in rows : key[n] = d})
  <2>1. \A d : {n \in rows : UsageRows[n].day = d} = {n \in rows : key[n] = d}
    BY <1>1
  <2>2. QED BY <1>3, <2>1, DailyCosts
<1>5. SumFunctionOnSet(Daily(rows), Days) = SumFunctionOnSet(Costs, rows)
  <2>1. PICK part, of : part = Daily(rows) /\ of = Costs
    OBVIOUS
  <2>2. \A n \in rows : of[n] \in Int /\ key[n] \in Days
    BY <1>1, <2>1
  <2>3. Parts(part, of, rows, key, Days)
    BY <1>4, <2>1, Zenon DEF Parts
  <2>4. SumFunctionOnSet(part, Days) = SumFunctionOnSet(of, rows)
    BY <1>2, <2>2, <2>3, SumParts
  <2>5. QED BY <2>1, <2>4
<1>6. QED BY <1>5, CostNat
-----------------------------------------------------------------------------
(* Everybody's tools, and what they cost.                                  *)

LEMMA ImageFinite ==
  ASSUME NEW S, IsFiniteSet(S), NEW f
  PROVE  IsFiniteSet({f[x] : x \in S})
<1> DEFINE T == {f[x] : x \in S}
           g == [x \in S |-> f[x]]
<1>1. g \in [S -> T] /\ \A y \in T : \E x \in S : g[x] = y
  OBVIOUS
<1>2. g \in Surjection(S, T)
  BY <1>1 DEF Surjection
<1>3. QED BY <1>2, FS_Surjection

LEMMA ToolsFinite ==
  ASSUME RowsKnown
  PROVE  IsFiniteSet(Tools(DOMAIN activity))
<1> DEFINE act == DOMAIN activity
           obs == Observations(act, KnownEmails)
<1>0. IsFiniteSet(act) /\ IsFiniteSet(seats) /\ IsFiniteSet(usage)
  BY Amounts, FS_Subset DEF RowsKnown
<1>1. IsFiniteSet(HeldSeats)
  <2> DEFINE f == [n \in seats |-> [who |-> SeatPerson(n), vendor |-> SeatRows[n].vendor, row |-> n]]
  <2>1. HeldSeats = {f[n] : n \in seats}
    BY DEF HeldSeats
  <2> HIDE DEF f
  <2>2. QED BY <1>0, <2>1, ImageFinite
<1>2. IsFiniteSet(PersonUsage)
  <2> DEFINE S == {x \in usage : UsageRows[x].identity # "" /\ UsageRows[x].day \in Days}
             f == [n \in S |-> [who |-> UsagePerson(n), vendor |-> UsageRows[n].vendor, row |-> n]]
  <2>1. PersonUsage = {f[n] : n \in S}
    BY DEF PersonUsage
  <2>2. IsFiniteSet(S)
    BY <1>0, FS_Subset
  <2> HIDE DEF f, S
  <2>3. QED BY <2>1, <2>2, ImageFinite
<1>3. IsFiniteSet(obs)
  <2> DEFINE S == {x \in act : AgentVendor(x.agent) # "" /\ x.day \in Days}
             f == [o \in S |-> [who |-> SightedAs(o, KnownEmails), vendor |-> AgentVendor(o.agent), day |-> o.day]]
  <2>1. obs = {f[n] : n \in S}
    BY DEF Observations
  <2>2. IsFiniteSet(S)
    BY <1>0, FS_Subset
  <2> HIDE DEF f, S, obs
  <2>3. QED BY <2>1, <2>2, ImageFinite
<1>4. IsFiniteSet(Pairs(act))
  <2> DEFINE S == {y \in HeldSeats \cup PersonUsage : y.who # Nobody}
             f == [x \in S |-> <<x.who, x.vendor>>]
             g == [s \in obs |-> <<s.who.who, s.vendor>>]
  <2>1. Pairs(act) = {f[n] : n \in S} \cup {g[s] : s \in obs}
    BY DEF Pairs
  <2>2. IsFiniteSet(S)
    BY <1>1, <1>2, FS_Subset, FS_Union
  <2> HIDE DEF f, g, S, obs, act
  <2>3. IsFiniteSet({f[n] : n \in S}) /\ IsFiniteSet({g[s] : s \in obs})
    BY <1>3, <2>2, ImageFinite
  <2>4. QED BY <2>1, <2>3, FS_Union
<1> HIDE DEF act
<1>5. IsFiniteSet(Tools(act))
  <2> DEFINE f == [t \in Pairs(act) |-> ToolAt(act, t[1], t[2])]
  <2>1. Tools(act) = {f[t] : t \in Pairs(act)}
    BY ToolsAre
  <2> HIDE DEF f
  <2>2. QED BY <1>4, <2>1, ImageFinite
<1>6. QED BY <1>5 DEF act

LEMMA SeatCentsNat ==
  ASSUME NEW mine \in SUBSET (DOMAIN SeatRows)
  PROVE  SeatCents(mine) \in Nat
<1> DEFINE f == [n \in DOMAIN SeatRows |-> SeatRows[n].price]
           top == {n \in mine : \A x \in mine : SeatRows[x].price <= SeatRows[n].price}
<1>1. \A n \in mine : f[n] \in Int /\ f[n] = SeatRows[n].price /\ SeatRows[n].price \in Nat
  <2>1. \A n \in DOMAIN SeatRows : SeatRows[n].price \in Nat
    BY DetectionAssumption, Zenon
  <2>2. QED BY <2>1
<1>2. IsFiniteSet(mine) /\ mine \subseteq Nat
  BY Amounts, FS_Subset
<1>3. CASE mine # {}
  <2> HIDE DEF f
  <2>1. PICK m \in mine : \A x \in mine : f[x] <= f[m]
    BY <1>1, <1>2, <1>3, Most
  <2>2. m \in top
    BY <1>1, <2>1
  <2>3. top \in SUBSET Nat
    BY <1>2
  <2>4. SeatOf(mine) = Min(top)
    BY DEF SeatOf
  <2>5. top \subseteq mine
    OBVIOUS
  <2> HIDE DEF top
  <2>6. SeatOf(mine) \in mine
    BY <2>2, <2>3, <2>4, <2>5, MinNat
  <2>7. QED BY <1>1, <1>3, <2>6 DEF SeatCents
<1>4. QED BY <1>3 DEF SeatCents

LEMMA SeatsOfRows ==
  ASSUME RowsKnown, NEW p, NEW v
  PROVE  SeatsOf(p, v) \in SUBSET (DOMAIN SeatRows)
<1>1. ASSUME NEW x \in HeldSeats PROVE x.row \in seats
  <2>1. \E w, z : \E n \in seats : x = [who |-> w, vendor |-> z, row |-> n]
    BY Zenon DEF HeldSeats
  <2>2. QED BY <2>1
<1>2. QED BY <1>1 DEF SeatsOf, RowsKnown

\* The rows of a person's usage, by number.
Theirs(n, v) == n \in usage /\ UsageRows[n].identity # "" /\ UsageRows[n].day \in Days /\ UsageRows[n].vendor = v

LEMMA UsageOfRows ==
  ASSUME NEW p, NEW v
  PROVE  UsageOf(p, v) = {n \in {x \in usage : Theirs(x, v)} : UsagePerson(n) = p}
<1> DEFINE entry(n) == [who |-> UsagePerson(n), vendor |-> UsageRows[n].vendor, row |-> n]
<1>1. \A n : entry(n).who = UsagePerson(n) /\ entry(n).vendor = UsageRows[n].vendor /\ entry(n).row = n
  OBVIOUS
<1>2. PersonUsage = {entry(n) : n \in {x \in usage : UsageRows[x].identity # "" /\ UsageRows[x].day \in Days}}
  BY DEF PersonUsage
<1> HIDE DEF entry
<1>3. ASSUME NEW n \in UsageOf(p, v) PROVE n \in usage /\ Theirs(n, v) /\ UsagePerson(n) = p
  <2>1. PICK y \in PersonUsage : y.who = p /\ y.vendor = v /\ n = y.row
    BY DEF UsageOf
  <2>2. PICK k \in usage : y = entry(k) /\ UsageRows[k].identity # "" /\ UsageRows[k].day \in Days
    BY <1>2
  <2>3. n = k /\ UsagePerson(k) = p /\ UsageRows[k].vendor = v
    BY <1>1, <2>1, <2>2, Zenon
  <2>4. QED BY <2>2, <2>3, Zenon DEF Theirs
<1>4. ASSUME NEW n \in usage, Theirs(n, v), UsagePerson(n) = p PROVE n \in UsageOf(p, v)
  <2>1. entry(n) \in PersonUsage
    BY <1>2, <1>4 DEF Theirs
  <2>2. entry(n).who = p /\ entry(n).vendor = v /\ entry(n).row = n
    BY <1>1, <1>4 DEF Theirs
  <2>3. QED BY <2>1, <2>2, Zenon DEF UsageOf
<1>5. QED BY <1>3, <1>4

LEMMA UsageOfKnown ==
  ASSUME RowsKnown, NEW p, NEW v
  PROVE  /\ UsageOf(p, v) \in SUBSET (DOMAIN UsageRows)
         /\ \A n \in UsageOf(p, v) : UsageRows[n].day \in Days
BY UsageOfRows DEF Theirs, RowsKnown

LEMMA ToolSays ==
  ASSUME NEW p, NEW v, NEW mine, NEW rows, NEW days, NEW ways, NEW t, t = Tool(p, v, mine, rows, days, ways)
  PROVE  /\ t.person = p /\ t.vendor = v /\ t.seatCents = SeatCents(mine)
         /\ t.cost = CostOf(rows) /\ t.dailyCost = Daily(rows)
BY DEF Tool

LEMMA ToolCosts ==
  ASSUME RowsKnown, NEW act, NEW t \in Tools(act)
  PROVE  /\ t = ToolAt(act, t.person, t.vendor)
         /\ t.seatCents \in Nat /\ t.cost \in Nat
         /\ t.cost = CostOf(UsageOf(t.person, t.vendor))
         /\ SpikeExcess(t.dailyCost) \in Int /\ SpikeExcess(t.dailyCost) <= t.cost
<1>1. PICK q \in Pairs(act) : t = ToolAt(act, q[1], q[2])
  BY ToolsAre
<1>2. PICK p, v : p = q[1] /\ v = q[2]
  OBVIOUS
<1>3. t = Tool(p, v, SeatsOf(p, v), UsageOf(p, v), SeenOf(act, p, v), WaysOf(act, p))
  BY <1>1, <1>2 DEF ToolAt
<1>4. /\ t.person = p /\ t.vendor = v /\ t.seatCents = SeatCents(SeatsOf(p, v))
      /\ t.cost = CostOf(UsageOf(p, v)) /\ t.dailyCost = Daily(UsageOf(p, v))
  <2>1. PICK mine, rows, days, ways : mine = SeatsOf(p, v) /\ rows = UsageOf(p, v) /\ days = SeenOf(act, p, v) /\ ways = WaysOf(act, p)
    OBVIOUS
  <2>2. t = Tool(p, v, mine, rows, days, ways)
    BY <1>3, <2>1
  <2>3. /\ t.person = p /\ t.vendor = v /\ t.seatCents = SeatCents(mine)
        /\ t.cost = CostOf(rows) /\ t.dailyCost = Daily(rows)
    BY <2>2, ToolSays
  <2>4. QED BY <2>1, <2>3, Zenon
<1>5. SeatCents(SeatsOf(p, v)) \in Nat
  BY SeatsOfRows, SeatCentsNat
<1>6. CostOf(UsageOf(p, v)) \in Nat /\ SumFunctionOnSet(Daily(UsageOf(p, v)), Days) = CostOf(UsageOf(p, v))
  BY UsageOfKnown, CostNat, DailySum
<1>7. Daily(UsageOf(p, v)) \in [DailyDays -> Nat]
  BY UsageOfKnown, DailyCosts
<1>8. SpikeExcess(t.dailyCost) \in Int /\ SpikeExcess(t.dailyCost) <= t.cost
  BY <1>4, <1>6, <1>7, SpikeWithin
<1>9. t = ToolAt(act, t.person, t.vendor)
  BY <1>3, <1>4, Zenon DEF ToolAt
<1>10. QED BY <1>4, <1>5, <1>6, <1>8, <1>9

LEMMA ToolsKeyed ==
  ASSUME RowsKnown, NEW act
  PROVE  Keyed(Tools(act))
<1>1. ASSUME NEW t \in Tools(act), NEW u \in Tools(act), t.person = u.person, t.vendor = u.vendor PROVE t = u
  <2>1. t = ToolAt(act, t.person, t.vendor) /\ u = ToolAt(act, u.person, u.vendor)
    BY ToolCosts
  <2>2. QED BY <1>1, <2>1, Zenon
<1>2. QED BY <1>1, Zenon DEF Keyed

LEMMA NoOrgSpike ==
  ASSUME NEW v, OrgUsage(v) = {}
  PROVE  SpikeExcess(Daily(OrgUsage(v))) = 0
<1>1. PICK daily : daily = Daily({})
  OBVIOUS
<1>2. daily \in [DailyDays -> Nat] /\ \A d \in DailyDays : daily[d] = SumFunctionOnSet(Costs, {n \in {} : UsageRows[n].day = d})
  BY <1>1, DailyCosts
<1>3. \A d : {n \in {} : UsageRows[n].day = d} = {}
  OBVIOUS
<1>4. \A d \in DailyDays : daily[d] = 0
  BY <1>2, <1>3, SumNone
<1>5. SpikeExcess(daily) = 0
  BY <1>2, <1>4, SpikeWithin
<1>6. QED BY <1>1, <1>5

\* The leaks of a vendor's tools: seats, what is used without one, and costs.
LEMMA LeaksWithin ==
  ASSUME RowsKnown, NEW v \in Vendors, OrgUsage(v) = {}, NEW tools, tools = Tools(DOMAIN activity)
  PROVE  SumFunction([l \in {x \in Leaks(tools) : x.vendor = v} |-> l.savings])
           <= SumFunction([t \in {x \in tools : x.vendor = v} |-> t.seatCents])
              + SumFunction([t \in {x \in tools : x.vendor = v} |-> t.cost])
<1> DEFINE E == {t \in tools : t.vendor = v}
           L == {l \in Leaks(tools) : l.vendor = v}
           saved == [l \in L |-> l.savings]
           cents == [t \in E |-> t.seatCents]
           cost == [t \in E |-> t.cost]
           A == {l \in L : l.type \in SeatTypes}
           B == {l \in L : l.type = "shadow_spend"}
           C == {l \in L : l.type = "runaway_cost"}
<1>1. IsFiniteSet(tools) /\ Keyed(tools)
  BY ToolsFinite, ToolsKeyed
<1>2. \A t \in tools : /\ t.seatCents \in Nat /\ t.cost \in Nat
                       /\ SpikeExcess(t.dailyCost) \in Int /\ SpikeExcess(t.dailyCost) <= t.cost
  BY ToolCosts
<1>3. SpikeExcess(Daily(OrgUsage(v))) = 0
  BY NoOrgSpike
<1>4. ASSUME NEW l \in L PROVE saved[l] = l.savings /\ \E k : \E t \in tools : LeakFrom(tools, v, l, k, t)
  BY <1>3, LeakOfTool
<1>5. \A t \in E : cents[t] = t.seatCents /\ cost[t] = t.cost /\ cents[t] \in Nat /\ cost[t] \in Nat
  BY <1>2
<1>6. L = A \cup B \cup C /\ A \cap B = {} /\ (A \cup B) \cap C = {}
  BY <1>4 DEF LeakFrom, SeatTypes
<1> HIDE DEF cents, cost, saved
<1>7. \A k, l : \A t \in tools : LeakFrom(tools, v, l, k, t) => t \in E
  BY DEF LeakFrom
<1>8. IsFiniteSet(A) /\ SumFunctionOnSet(saved, A) \in Int /\ SumFunctionOnSet(saved, A) <= SumFunctionOnSet(cents, E)
  <2>1. \A l, m \in A : SameKind(l, m)
    BY DEF SameKind
  <2>2. \A l \in A : \A k : \A t \in tools : LeakFrom(tools, v, l, k, t) => l.savings \in Int /\ l.savings <= cents[t]
    BY <1>5, <1>7 DEF LeakFrom, SeatTypes
  <2>3. \A l \in A : l \in Leaks(tools) /\ l.vendor = v /\ saved[l] = l.savings
    BY <1>4
  <2>4. \A t \in tools : t.vendor = v => cents[t] \in Nat
    BY <1>5
  <2> HIDE DEF A, L, E
  <2>5. KindOf(tools, v, A, saved, cents)
    BY <2>1, <2>2, <2>3, <2>4, Zenon DEF KindOf
  <2>6. QED BY <1>1, <1>3, <2>5, KindWithin DEF E
<1>9. IsFiniteSet(B) /\ SumFunctionOnSet(saved, B) = 0
  <2>1. \A l, m \in B : SameKind(l, m)
    BY DEF SameKind
  <2>2. \A l \in B : \A k : \A t \in tools : LeakFrom(tools, v, l, k, t) => l.savings = 0 /\ l.savings \in Int /\ l.savings <= cents[t]
    BY <1>5, <1>7 DEF LeakFrom
  <2>3. \A l \in B : l \in Leaks(tools) /\ l.vendor = v /\ saved[l] = l.savings /\ saved[l] = 0
    BY <1>4, <2>2
  <2>4. \A t \in tools : t.vendor = v => cents[t] \in Nat
    BY <1>5
  <2> HIDE DEF B, L, E
  <2>5. KindOf(tools, v, B, saved, cents)
    BY <2>1, <2>2, <2>3, <2>4, Zenon DEF KindOf
  <2>6. IsFiniteSet(B)
    BY <1>1, <1>3, <2>5, KindWithin
  <2>7. QED BY <2>3, <2>6, SumZero
<1>10. IsFiniteSet(C) /\ SumFunctionOnSet(saved, C) \in Int /\ SumFunctionOnSet(saved, C) <= SumFunctionOnSet(cost, E)
  <2>1. \A l, m \in C : SameKind(l, m)
    BY DEF SameKind
  <2>2. ASSUME NEW l \in C, NEW k, NEW t \in tools, LeakFrom(tools, v, l, k, t) PROVE l.savings \in Int /\ l.savings <= cost[t]
    <3>1. k = RunLeak(tools, v, t) /\ t \in PaidTools(tools, v) /\ l.savings = k.savings
      BY <2>2 DEF LeakFrom
    <3>2. IsFiniteSet(PaidTools(tools, v)) /\ \A x \in PaidTools(tools, v) : x.cost \in Nat
      BY <1>1, <1>2, FS_Subset DEF PaidTools
    <3>3. PICK over : over = Over(t, PaidTools(tools, v)) /\ over \in Int /\ over <= t.cost
      BY <3>1, <3>2, OverWithin
    <3>4. l.savings = over \/ l.savings = SpikeExcess(t.dailyCost)
      BY <3>1, <3>3, CostLeakFields DEF RunLeak
    <3>5. t \in E /\ cost[t] = t.cost
      BY <1>5, <1>7, <2>2
    <3>6. QED BY <1>2, <3>3, <3>4, <3>5
  <2>3. \A l \in C : l \in Leaks(tools) /\ l.vendor = v /\ saved[l] = l.savings
    BY <1>4
  <2>4. \A t \in tools : t.vendor = v => cost[t] \in Nat
    BY <1>5
  <2> HIDE DEF C, L, E
  <2>5. KindOf(tools, v, C, saved, cost)
    BY <2>1, <2>2, <2>3, <2>4, Zenon DEF KindOf
  <2>6. QED BY <1>1, <1>3, <2>5, KindWithin DEF E
<1>11. SumFunctionOnSet(saved, L) = SumFunctionOnSet(saved, A) + SumFunctionOnSet(saved, C)
  <2>1. \A l \in A \cup B \cup C : saved[l] \in Int
    <3>1. ASSUME NEW l \in C PROVE saved[l] \in Int
      <4>1. PICK k, t : t \in tools /\ LeakFrom(tools, v, l, k, t)
        BY <1>4
      <4>2. k = RunLeak(tools, v, t) /\ t \in PaidTools(tools, v) /\ l.savings = k.savings
        BY <4>1 DEF LeakFrom
      <4>3. IsFiniteSet(PaidTools(tools, v)) /\ \A x \in PaidTools(tools, v) : x.cost \in Nat
        BY <1>1, <1>2, FS_Subset DEF PaidTools
      <4>4. Over(t, PaidTools(tools, v)) \in Int
        BY <4>2, <4>3, OverWithin
      <4>5. QED BY <1>2, <1>4, <4>1, <4>2, <4>4, CostLeakFields DEF RunLeak
    <3>2. ASSUME NEW l \in A \cup B PROVE saved[l] \in Int
      BY <1>2, <1>4 DEF LeakFrom, SeatTypes
    <3>3. QED BY <3>1, <3>2
  <2> HIDE DEF A, B, C, L
  <2>2. IsFiniteSet(A \cup B)
    BY <1>8, <1>9, FS_Union
  <2>3. SumFunctionOnSet(saved, A \cup B) = SumFunctionOnSet(saved, A) + SumFunctionOnSet(saved, B)
    BY <1>6, <1>8, <1>9, <2>1, SumUnion
  <2>4. SumFunctionOnSet(saved, A \cup B \cup C) = SumFunctionOnSet(saved, A \cup B) + SumFunctionOnSet(saved, C)
    BY <1>6, <1>10, <2>1, <2>2, SumUnion
  <2>5. QED BY <1>6, <1>8, <1>9, <2>3, <2>4
<1>12. SumFunctionOnSet(cents, E) \in Nat /\ SumFunctionOnSet(cost, E) \in Nat
  BY <1>1, <1>5, FS_Subset, SumNat
<1>13. SumFunctionOnSet(saved, L) <= SumFunctionOnSet(cents, E) + SumFunctionOnSet(cost, E)
  BY <1>8, <1>10, <1>11, <1>12
<1>14. SumFunction(saved) = SumFunctionOnSet(saved, L) /\ SumFunction(cents) = SumFunctionOnSet(cents, E)
       /\ SumFunction(cost) = SumFunctionOnSet(cost, E)
  <2>1. DOMAIN saved = L /\ DOMAIN cents = E /\ DOMAIN cost = E
    BY DEF saved, cents, cost
  <2> HIDE DEF E, L
  <2>2. QED BY <2>1 DEF SumFunction
<1>15. SumFunction(saved) <= SumFunction(cents) + SumFunction(cost)
  BY <1>13, <1>14
<1>16. QED BY <1>15 DEF saved, cents, cost
\* What is used has somebody's name on it.
LEMMA UsedBySomebody ==
  ASSUME NEW n, UsageRows[n].identity # ""
  PROVE  UsagePerson(n) # Nobody
<1>1. PICK kind, value : kind = UsageRows[n].kind /\ value = UsageRows[n].identity
  OBVIOUS
<1>2. value # ""
  BY <1>1
<1>3. \/ \E e : Resolve(kind, value) = Person(e)
      \/ Resolve(kind, value) = Unmatched(kind, value)
  BY <1>2, Zenon DEF Resolve
<1>4. \A e : Person(e) # Nobody
  BY DEF Person, Nobody
<1>5. Unmatched(kind, value) # Nobody
  BY <1>2 DEF Unmatched, Nobody
<1>6. UsagePerson(n) = Resolve(kind, value)
  BY <1>1, Zenon DEF UsagePerson
<1>7. QED BY <1>3, <1>4, <1>5, <1>6

\* The chart's days and the people's tools are two ways to add up the same rows.
LEMMA ChartIsUsage ==
  ASSUME RowsKnown, NEW v, OrgUsage(v) = {}, NEW tools, tools = Tools(DOMAIN activity)
  PROVE  SumFunction([d \in Days |-> DailyCost(v, d)])
           = SumFunction([t \in {x \in tools : x.vendor = v} |-> t.cost])
<1> DEFINE act == DOMAIN activity
           E == {t \in tools : t.vendor = v}
           A == {n \in usage : Theirs(n, v)}
           chart == [d \in Days |-> DailyCost(v, d)]
           cost == [t \in E |-> t.cost]
           day == [n \in A |-> UsageRows[n].day]
           tool == [n \in A |-> ToolAt(act, UsagePerson(n), v)]
<1>1. A \in SUBSET (DOMAIN UsageRows) /\ IsFiniteSet(A) /\ IsFiniteSet(Days) /\ IsFiniteSet(E)
  <2>1. A \in SUBSET (DOMAIN UsageRows)
    BY DEF RowsKnown
  <2>2. IsFiniteSet(tools)
    BY ToolsFinite
  <2>3. QED BY <2>1, <2>2, Amounts, DaysFinite, FS_Subset
<1>2. \A n \in A : Costs[n] \in Int
  BY <1>1, Amounts
<1>3. ASSUME NEW d \in Days PROVE chart[d] = SumFunctionOnSet(Costs, {n \in A : day[n] = d})
  <2> DEFINE rows == {n \in usage : UsageRows[n].vendor = v /\ UsageRows[n].day = d}
  <2>1. {n \in rows : UsageRows[n].identity = ""} = {}
    BY DEF OrgUsage
  <2>2. DailyCost(v, d) = CostOf(rows)
    BY <2>1, Zenon DEF DailyCost
  <2>3. rows = {n \in A : day[n] = d}
    BY <2>1 DEF Theirs
  <2>4. rows \in SUBSET (DOMAIN UsageRows)
    BY DEF RowsKnown
  <2> HIDE DEF rows
  <2>5. CostOf(rows) = SumFunctionOnSet(Costs, rows)
    BY <2>4, CostNat
  <2>6. chart[d] = DailyCost(v, d)
    OBVIOUS
  <2> HIDE DEF chart, A, day
  <2>7. QED BY <2>2, <2>3, <2>5, <2>6
<1>4. \A n \in A : day[n] \in Days
  BY DEF Theirs
<1>5. ASSUME NEW n \in A PROVE tool[n] \in E /\ tool[n].person = UsagePerson(n)
  <2> DEFINE p == UsagePerson(n)
             entry == [who |-> p, vendor |-> v, row |-> n]
  <2>1. p # Nobody
    BY UsedBySomebody DEF Theirs
  <2>2. entry \in PersonUsage
    BY DEF PersonUsage, Theirs
  <2>3. entry.who = p /\ entry.vendor = v
    OBVIOUS
  <2> HIDE DEF p, entry
  <2>4. <<p, v>> \in Pairs(act)
    <3>1. entry \in {y \in HeldSeats \cup PersonUsage : y.who # Nobody}
      BY <2>1, <2>2, <2>3
    <3>2. QED BY <2>3, <3>1, Zenon DEF Pairs
  <2>5. ToolAt(act, p, v) \in tools
    <3>1. <<p, v>>[1] = p /\ <<p, v>>[2] = v
      OBVIOUS
    <3>2. QED BY <2>4, <3>1, ToolsAre, Zenon
  <2>6. ToolAt(act, p, v).person = p /\ ToolAt(act, p, v).vendor = v
    <3>1. PICK mine, rows, days, ways : mine = SeatsOf(p, v) /\ rows = UsageOf(p, v) /\ days = SeenOf(act, p, v) /\ ways = WaysOf(act, p)
      OBVIOUS
    <3>2. PICK t : t = ToolAt(act, p, v)
      OBVIOUS
    <3>3. t = Tool(p, v, mine, rows, days, ways)
      BY <3>1, <3>2 DEF ToolAt
    <3>4. t.person = p /\ t.vendor = v
      BY <3>3, ToolSays
    <3>5. QED BY <3>2, <3>4, Zenon
  <2>7. tool[n] = ToolAt(act, p, v)
    BY DEF p
  <2>8. QED BY <2>5, <2>6, <2>7 DEF p
<1>6. ASSUME NEW t \in E PROVE cost[t] = SumFunctionOnSet(Costs, {n \in A : tool[n] = t})
  <2>1. t \in Tools(act) /\ t.vendor = v /\ cost[t] = t.cost
    OBVIOUS
  <2>2. t = ToolAt(act, t.person, v) /\ t.cost = CostOf(UsageOf(t.person, v))
    BY <2>1, ToolCosts
  <2>3. UsageOf(t.person, v) = {n \in A : UsagePerson(n) = t.person}
    BY UsageOfRows
  <2>4. ASSUME NEW n \in A PROVE UsagePerson(n) = t.person <=> tool[n] = t
    <3>1. tool[n] = ToolAt(act, UsagePerson(n), v) /\ tool[n].person = UsagePerson(n)
      BY <1>5
    <3> HIDE DEF tool
    <3>2. QED BY <2>2, <3>1
  <2>5. UsageOf(t.person, v) \in SUBSET (DOMAIN UsageRows)
    BY UsageOfKnown
  <2> HIDE DEF A, tool, cost, E, act
  <2>6. {n \in A : UsagePerson(n) = t.person} = {n \in A : tool[n] = t}
    BY <2>4
  <2>7. QED BY <2>1, <2>2, <2>3, <2>5, <2>6, CostNat
<1>7. SumFunction(chart) = SumFunctionOnSet(chart, Days) /\ SumFunction(cost) = SumFunctionOnSet(cost, E)
  <2>1. DOMAIN chart = Days /\ DOMAIN cost = E
    OBVIOUS
  <2> HIDE DEF chart, cost, E
  <2>2. QED BY <2>1 DEF SumFunction
<1> HIDE DEF A, E, day, tool, chart, cost
<1>8. SumFunctionOnSet(chart, Days) = SumFunctionOnSet(Costs, A)
  <2>1. Parts(chart, Costs, A, day, Days)
    BY <1>3, Zenon DEF Parts
  <2>2. QED BY <1>1, <1>2, <1>4, <2>1, SumParts
<1>9. SumFunctionOnSet(cost, E) = SumFunctionOnSet(Costs, A)
  <2>1. Parts(cost, Costs, A, tool, E)
    BY <1>6, Zenon DEF Parts
  <2>2. QED BY <1>1, <1>2, <1>5, <2>1, SumParts
<1>10. SumFunction(chart) = SumFunction(cost)
  BY <1>7, <1>8, <1>9
<1>11. QED BY <1>10 DEF chart, cost, E

\* What a vendor is said to cost too much is never more than what it costs.
LEMMA KnownRowsWithin == RowsKnown => SavingsWithinSpend
<1> SUFFICES ASSUME RowsKnown PROVE SavingsWithinSpend
  OBVIOUS
<1>1. PICK tools : tools = Tools(DOMAIN activity)
  OBVIOUS
<1>2. ASSUME NEW v \in Vendors, OrgUsage(v) = {}
      PROVE  /\ SumFunction([l \in {x \in Leaks(tools) : x.vendor = v} |-> l.savings]) <= VendorSpend(tools, v)
             /\ SeatSpend(tools, v) + SumFunction([d \in Days |-> DailyCost(v, d)]) = VendorSpend(tools, v)
  <2>1. VendorSpend(tools, v) = SeatSpend(tools, v) + SumFunction([t \in {x \in tools : x.vendor = v} |-> t.cost])
    BY <1>2, Zenon DEF VendorSpend
  <2>2. SeatSpend(tools, v) = SumFunction([t \in {x \in tools : x.vendor = v} |-> t.seatCents])
    BY Zenon DEF SeatSpend
  <2>3. SumFunction([l \in {x \in Leaks(tools) : x.vendor = v} |-> l.savings])
          <= SumFunction([t \in {x \in tools : x.vendor = v} |-> t.seatCents])
             + SumFunction([t \in {x \in tools : x.vendor = v} |-> t.cost])
    BY <1>1, <1>2, LeaksWithin
  <2>4. SumFunction([d \in Days |-> DailyCost(v, d)]) = SumFunction([t \in {x \in tools : x.vendor = v} |-> t.cost])
    BY <1>1, <1>2, ChartIsUsage
  <2>5. QED BY <2>1, <2>2, <2>3, <2>4, Zenon
<1>3. QED BY <1>1, <1>2, Zenon DEF SavingsWithinSpend

\* What the leaks say can be saved at a vendor is within what it costs.
THEOREM SavingsAreSpent == InventorySpec => []SavingsWithinSpend
BY RowsKnownAlways, KnownRowsWithin, PTL DEF InventorySpec

-----------------------------------------------------------------------------
(* What a batch shows.                                                     *)

LimitEvents == [at : limit.times, act : limit.acts]
NumbersOf(a) == {a.via, a.name} \cup a.programs \cup a.hosts \cup a.actions

LEMMA EventsAre ==
  ASSUME limit \in Limits, NEW e \in LimitEvents
  PROVE  e.at \in Nat /\ e.act \in limit.acts /\ NumbersOf(e.act) \subseteq Nat /\ IsFiniteSet(NumbersOf(e.act))
<1>1. e.at \in limit.times /\ e.act \in limit.acts
  BY DEF LimitEvents
<1>2. limit.times \subseteq Nat
  BY InventoryAssumption, Zenon
<1>3. NumbersOf(e.act) \subseteq Nat /\ IsFiniteSet(NumbersOf(e.act))
  BY <1>1, InventoryAssumption, Zenon DEF NumbersOf
<1>4. QED BY <1>1, <1>2, <1>3

LEMMA ShowsWhat ==
  ASSUME NEW e
  PROVE  /\ Shows(e) \subseteq Kinds \X NumbersOf(e.act)
         /\ Shows(e) # {} => Counted(e)
<1>1. Shows(e) # {} => Counted(e)
  BY DEF Shows, Counted, Observed
<1>2. Shows(e) \subseteq Kinds \X NumbersOf(e.act)
  <2>1. {e.act.via, e.act.name} \subseteq NumbersOf(e.act) /\ e.act.actions \subseteq NumbersOf(e.act)
        /\ e.act.programs \subseteq NumbersOf(e.act) /\ e.act.hosts \subseteq NumbersOf(e.act)
    BY DEF NumbersOf
  <2>2. "action" \in Kinds /\ "mcp" \in Kinds /\ "binary" \in Kinds /\ "host" \in Kinds
    BY DEF Kinds
  <2>3. PICK a, N : a = e.act /\ N = NumbersOf(e.act)
    OBVIOUS
  <2>4. QED BY <2>1, <2>2 DEF Shows
<1>3. QED BY <1>1, <1>2

LEMMA BatchOfTwo ==
  ASSUME NEW evs \in NewBatches
  PROVE  IsFiniteSet(evs) /\ evs # {} /\ evs \subseteq LimitEvents
<1>1. PICK S : S = LimitEvents
  OBVIOUS
<1>2. evs \in {{e, f} : e, f \in S}
  BY <1>1 DEF NewBatches, LimitEvents
<1>3. PICK e \in S, f \in S : evs = {e, f}
  BY <1>2, SMT
<1>4. IsFiniteSet({e, f})
  <2>1. IsFiniteSet({} \cup {e} \cup {f})
    BY FS_EmptySet, FS_AddElement
  <2>2. {} \cup {e} \cup {f} = {e, f}
    OBVIOUS
  <2>3. QED BY <2>1, <2>2
<1>5. QED BY <1>1, <1>3, <1>4

\* The events of a batch that show a value of a kind, and what Extract makes of them.
Showing(evs, a, kind, v) == {e \in evs : e.act.agent = a /\ <<kind, v>> \in Shows(e)}
TimesOf(evs, a, kind, v) == {e.at : e \in Showing(evs, a, kind, v)}
Sighting(evs, a, kind, v) ==
  [value |-> v, at |-> Min(TimesOf(evs, a, kind, v)), count |-> Cardinality(Showing(evs, a, kind, v))]
ShownValues(evs, a, kind) == {v \in Nat : Showing(evs, a, kind, v) # {}}

LEMMA SeenAre ==
  ASSUME limit \in Limits, NEW evs \in NewBatches, NEW a, NEW kind
  PROVE  Seen(evs, a, kind) = {Sighting(evs, a, kind, v) : v \in ShownValues(evs, a, kind)}
<1> DEFINE pairs == {x \in UNION {Shows(e) : e \in {y \in evs : y.act.agent = a}} : x[1] = kind}
           vals == {s[2] : s \in pairs}
<1>1. Seen(evs, a, kind) = {Sighting(evs, a, kind, v) : v \in vals}
  BY DEF Seen, Sighting, Showing, TimesOf
<1>2. ASSUME NEW v \in vals PROVE v \in ShownValues(evs, a, kind)
  <2>1. PICK e \in evs : e.act.agent = a /\ \E s \in Shows(e) : s[1] = kind /\ s[2] = v
    OBVIOUS
  <2>0. PICK s \in Shows(e) : s[1] = kind /\ s[2] = v
    BY <2>1
  <2>2. s \in Kinds \X Nat
    BY BatchOfTwo, EventsAre, ShowsWhat
  <2>3. s = <<kind, v>> /\ v \in Nat
    BY <2>0, <2>2
  <2>4. e \in Showing(evs, a, kind, v)
    BY <2>1, <2>3 DEF Showing
  <2>5. QED BY <2>3, <2>4 DEF ShownValues
<1>3. ASSUME NEW v \in ShownValues(evs, a, kind) PROVE v \in vals
  <2>1. PICK e \in evs : e.act.agent = a /\ <<kind, v>> \in Shows(e)
    BY DEF ShownValues, Showing
  <2>2. <<kind, v>> \in pairs /\ <<kind, v>>[2] = v
    BY <2>1
  <2> HIDE DEF pairs
  <2>3. QED BY <2>2
<1>4. vals = ShownValues(evs, a, kind)
  BY <1>2, <1>3
<1>5. QED BY <1>1, <1>4

LEMMA SightingIs ==
  ASSUME limit \in Limits, NEW evs \in NewBatches, NEW a, NEW kind, NEW v \in ShownValues(evs, a, kind)
  PROVE  /\ Sighting(evs, a, kind, v).value = v
         /\ TimesOf(evs, a, kind, v) \subseteq Nat
         /\ Sighting(evs, a, kind, v).at = Min(TimesOf(evs, a, kind, v))
         /\ Sighting(evs, a, kind, v).at \in TimesOf(evs, a, kind, v)
         /\ Sighting(evs, a, kind, v).count = Cardinality(Showing(evs, a, kind, v))
         /\ Sighting(evs, a, kind, v).count \in Nat /\ Sighting(evs, a, kind, v).at \in Nat
<1>1. Sighting(evs, a, kind, v).value = v
      /\ Sighting(evs, a, kind, v).at = Min(TimesOf(evs, a, kind, v))
      /\ Sighting(evs, a, kind, v).count = Cardinality(Showing(evs, a, kind, v))
  BY DEF Sighting
<1>2. Showing(evs, a, kind, v) \subseteq evs /\ Showing(evs, a, kind, v) # {}
  BY DEF Showing, ShownValues
<1>3. \A e \in evs : e.at \in Nat
  BY BatchOfTwo, EventsAre
<1>4. TimesOf(evs, a, kind, v) \subseteq Nat /\ TimesOf(evs, a, kind, v) # {}
  BY <1>2, <1>3 DEF TimesOf
<1>5. Min(TimesOf(evs, a, kind, v)) \in TimesOf(evs, a, kind, v)
  BY <1>4, MinNat
<1>6. Cardinality(Showing(evs, a, kind, v)) \in Nat
  BY <1>2, BatchOfTwo, FS_Subset, FS_CardinalityType
<1>7. Min(TimesOf(evs, a, kind, v)) \in Nat
  BY <1>4, <1>5
<1>8. QED BY <1>1, <1>4, <1>5, <1>6, <1>7, Zenon

LEMMA SeenFinite ==
  ASSUME limit \in Limits, NEW evs \in NewBatches, NEW a, NEW kind
  PROVE  /\ IsFiniteSet(Seen(evs, a, kind))
         /\ \A s \in Seen(evs, a, kind) : s.value \in Nat /\ s.at \in Nat /\ s.count \in Nat
         /\ \A s, u \in Seen(evs, a, kind) : s.value = u.value => s = u
<1>1. ASSUME NEW e \in evs PROVE IsFiniteSet(NumbersOf(e.act))
  BY BatchOfTwo, EventsAre
<1>2. IsFiniteSet(UNION {NumbersOf(e.act) : e \in evs})
  <2> DEFINE f == [e \in evs |-> NumbersOf(e.act)]
  <2>0. \A e \in evs : f[e] = NumbersOf(e.act)
    OBVIOUS
  <2> HIDE DEF f
  <2>1. IsFiniteSet({f[e] : e \in evs})
    BY BatchOfTwo, ImageFinite
  <2>4. {f[e] : e \in evs} = {NumbersOf(e.act) : e \in evs}
    BY <2>0
  <2>2. \A x \in {NumbersOf(e.act) : e \in evs} : IsFiniteSet(x)
    BY <1>1
  <2> HIDE DEF NumbersOf
  <2>3. QED BY <2>1, <2>2, <2>4, FS_UNION
<1>3. ShownValues(evs, a, kind) \subseteq UNION {NumbersOf(e.act) : e \in evs}
  BY ShowsWhat DEF ShownValues, Showing
<1>4. IsFiniteSet(ShownValues(evs, a, kind))
  BY <1>2, <1>3, FS_Subset
<1>5. IsFiniteSet({Sighting(evs, a, kind, v) : v \in ShownValues(evs, a, kind)})
  <2> DEFINE f == [v \in ShownValues(evs, a, kind) |-> Sighting(evs, a, kind, v)]
  <2>1. \A v \in ShownValues(evs, a, kind) : f[v] = Sighting(evs, a, kind, v)
    OBVIOUS
  <2> HIDE DEF f
  <2>2. IsFiniteSet({f[v] : v \in ShownValues(evs, a, kind)})
    BY <1>4, ImageFinite
  <2>3. {f[v] : v \in ShownValues(evs, a, kind)} = {Sighting(evs, a, kind, v) : v \in ShownValues(evs, a, kind)}
    BY <2>1
  <2>4. QED BY <2>2, <2>3
<1>6. Seen(evs, a, kind) = {Sighting(evs, a, kind, v) : v \in ShownValues(evs, a, kind)}
  BY SeenAre
<1>7. ASSUME NEW v \in ShownValues(evs, a, kind)
      PROVE  /\ v \in Nat /\ Sighting(evs, a, kind, v).value = v
             /\ Sighting(evs, a, kind, v).at \in Nat /\ Sighting(evs, a, kind, v).count \in Nat
  BY SightingIs DEF ShownValues
<1>8. QED BY <1>5, <1>6, <1>7

-----------------------------------------------------------------------------
(* What is decided on the values of a key, one after the other.            *)

KeyRecords == [values : Nat, overflow : Nat, day : Nat, signals : Nat, suppressed : Nat]
Learnt(k, s) == Append(k, s.value) \in DOMAIN values
News(k, first, s) == /\ Learnt(k, s) => s.at > values[Append(k, s.value)].last + Window
                     /\ s.at >= first + Warmup
Fits(k, acc, s) == Learnt(k, s) \/ acc.key.values < Caps[k[3]]

\* What deciding on s makes of acc.
Advance(k, first, acc, s, d) ==
  /\ d.key \in KeyRecords
  /\ d.kept = IF Fits(k, acc, s) THEN acc.kept \cup {s} ELSE acc.kept
  /\ d.key.values = IF ~Learnt(k, s) /\ Fits(k, acc, s) THEN acc.key.values + 1 ELSE acc.key.values
  /\ d.key.overflow = IF Fits(k, acc, s) THEN acc.key.overflow ELSE acc.key.overflow + s.count
  /\ d.key.suppressed \in {acc.key.suppressed, acc.key.suppressed + 1}
  /\ \/ d.signals = acc.signals
     \/ d.signals = acc.signals \cup {s} /\ Fits(k, acc, s) /\ News(k, first, s)
  /\ Fits(k, acc, s) /\ News(k, first, s) =>
       d.signals = acc.signals \cup {s} \/ d.key.suppressed = acc.key.suppressed + 1

LEMMA DecidedIs ==
  ASSUME NEW k, NEW first, NEW acc, acc.key \in KeyRecords,
         NEW s, s.at \in Nat, s.count \in Nat, NEW d, d = Decided(k, first, acc, s)
  PROVE  Advance(k, first, acc, s, d)
<1> DEFINE v     == Append(k, s.value)
           known == v \in DOMAIN values
           fits  == known \/ acc.key.values < Caps[k[3]]
           new   == /\ fits
                    /\ known => s.at > values[v].last + Window
                    /\ s.at >= first + Warmup
           key   == [acc.key EXCEPT !.values = IF ~known /\ fits THEN @ + 1 ELSE @,
                                    !.overflow = IF fits THEN @ ELSE @ + s.count]
           today == IF new /\ key.day # Day(s.at)
                    THEN [key EXCEPT !.day = Day(s.at), !.signals = 0] ELSE key
           room  == today.signals < DailySignalCap
           told  == IF ~new THEN key
                    ELSE IF room THEN [today EXCEPT !.signals = @ + 1]
                    ELSE [today EXCEPT !.suppressed = @ + 1]
<1>1. d.key = told /\ d.kept = (IF fits THEN acc.kept \cup {s} ELSE acc.kept)
      /\ d.signals = (IF new /\ room THEN acc.signals \cup {s} ELSE acc.signals)
  BY DEF Decided
<1>2. (fits <=> Fits(k, acc, s)) /\ (known <=> Learnt(k, s)) /\ (new <=> Fits(k, acc, s) /\ News(k, first, s))
  BY DEF Fits, Learnt, News
<1> HIDE DEF new, known, fits, v
<1>3. /\ key \in KeyRecords
      /\ key.values = IF ~known /\ fits THEN acc.key.values + 1 ELSE acc.key.values
      /\ key.overflow = IF fits THEN acc.key.overflow ELSE acc.key.overflow + s.count
      /\ key.suppressed = acc.key.suppressed
  <2>1. PICK a \in KeyRecords : a = acc.key
    OBVIOUS
  <2>2. PICK n, o : n = (IF ~known /\ fits THEN a.values + 1 ELSE a.values) /\ o = (IF fits THEN a.overflow ELSE a.overflow + s.count)
    OBVIOUS
  <2>3. n \in Nat /\ o \in Nat
    BY <2>2 DEF KeyRecords
  <2>4. key = [a EXCEPT !.values = n, !.overflow = o]
    BY <2>1, <2>2
  <2> HIDE DEF key
  <2>5. QED BY <2>1, <2>2, <2>3, <2>4 DEF KeyRecords
<1> HIDE DEF key
<1>4. Day(s.at) \in Nat
  BY InventoryAssumption DEF Day
<1>5. today \in KeyRecords /\ today.values = key.values /\ today.overflow = key.overflow /\ today.suppressed = key.suppressed
  BY <1>3, <1>4 DEF KeyRecords
<1> HIDE DEF today
<1>6. told \in KeyRecords /\ told.values = key.values /\ told.overflow = key.overflow
      /\ told.suppressed = IF new /\ ~room THEN key.suppressed + 1 ELSE key.suppressed
  <2> HIDE DEF room
  <2>1. QED BY <1>3, <1>5 DEF KeyRecords
<1> HIDE DEF told, room
<1>7. QED BY <1>1, <1>2, <1>3, <1>6 DEF Advance

\* The values in the order of their names: the last is decided on after the others.
Turn(k, first, base, g, u) == IF u = {} THEN base ELSE Decided(k, first, g[u \ {LastNamed(u)}], LastNamed(u))
TurnsUpto(g, S, n, k, first, base) == g = [u \in Upto(S, n) |-> Turn(k, first, base, g, u)]
Turns(g, S, k, first, base) == g = [u \in SUBSET S |-> Turn(k, first, base, g, u)]

LEMMA HasLast ==
  ASSUME NEW S, IsFiniteSet(S), \A s \in S : s.value \in Nat, NEW u \in SUBSET S, u # {}
  PROVE  LastNamed(u) \in u
<1> DEFINE f == [s \in S |-> s.value]
<1>1. \A s \in u : f[s] \in Int /\ f[s] = s.value
  OBVIOUS
<1>2. IsFiniteSet(u)
  BY FS_Subset
<1> HIDE DEF f
<1>3. PICK s \in u : \A x \in u : f[x] <= f[s]
  BY <1>1, <1>2, Most
<1>4. \A x \in u : x.value <= s.value
  BY <1>1, <1>3
<1>5. QED BY <1>4, Zenon DEF LastNamed

LEMMA TurnsExist ==
  ASSUME NEW S, IsFiniteSet(S), \A s \in S : s.value \in Nat, NEW k, NEW first, NEW base
  PROVE  \E g : Turns(g, S, k, first, base)
<1> DEFINE Good == {n \in Nat : \E g : TurnsUpto(g, S, n, k, first, base)}
<1>0. \A u \in SUBSET S : Cardinality(u) \in Nat
  BY FS_Subset, FS_CardinalityType
<1>1. 0 \in Good
  <2> DEFINE g == [u \in Upto(S, 0) |-> base]
  <2>1. ASSUME NEW u \in Upto(S, 0) PROVE u = {}
    BY <1>0, FS_Subset, FS_EmptySet DEF Upto
  <2>2. \A u \in Upto(S, 0) : Turn(k, first, base, g, u) = base
    BY <2>1 DEF Turn
  <2>3. g = [u \in Upto(S, 0) |-> Turn(k, first, base, g, u)]
    BY <2>2
  <2> HIDE DEF g
  <2>4. TurnsUpto(g, S, 0, k, first, base)
    BY <2>3 DEF TurnsUpto
  <2>5. QED BY <2>4
<1>2. ASSUME NEW n \in Nat, n \in Good PROVE n + 1 \in Good
  <2>1. PICK h : TurnsUpto(h, S, n, k, first, base)
    BY <1>2
  <2> DEFINE g == [u \in Upto(S, n + 1) |-> Turn(k, first, base, h, u)]
  <2>2. ASSUME NEW u \in Upto(S, n) PROVE g[u] = h[u]
    BY <1>0, <2>1 DEF Upto, TurnsUpto
  <2>3. ASSUME NEW u \in Upto(S, n + 1) PROVE Turn(k, first, base, g, u) = Turn(k, first, base, h, u)
    <3>1. CASE u = {}
      BY <3>1 DEF Turn
    <3>2. CASE u # {}
      <4>1. u \in SUBSET S /\ Cardinality(u) <= n + 1
        BY DEF Upto
      <4>2. LastNamed(u) \in u
        BY <3>2, <4>1, HasLast
      <4>3. u \ {LastNamed(u)} \in SUBSET S /\ Cardinality(u \ {LastNamed(u)}) = Cardinality(u) - 1 /\ Cardinality(u) \in Nat
        BY <4>1, <4>2, WithoutOne
      <4>4. Cardinality(u \ {LastNamed(u)}) <= n
        BY <4>1, <4>3
      <4>5. u \ {LastNamed(u)} \in Upto(S, n)
        BY <4>3, <4>4 DEF Upto
      <4>6. g[u \ {LastNamed(u)}] = h[u \ {LastNamed(u)}]
        BY <4>5, <2>2
      <4> HIDE DEF g
      <4>7. QED BY <4>6 DEF Turn
    <3>3. QED BY <3>1, <3>2
  <2>4. g = [u \in Upto(S, n + 1) |-> Turn(k, first, base, g, u)]
    BY <2>3
  <2> HIDE DEF g
  <2>5. TurnsUpto(g, S, n + 1, k, first, base)
    BY <2>4 DEF TurnsUpto
  <2>6. QED BY <2>5
<1> HIDE DEF Good
<1>3. Cardinality(S) \in Nat
  BY FS_CardinalityType
<1>4. Cardinality(S) \in Good
  BY <1>1, <1>2, <1>3, InductNat
<1>5. PICK g : TurnsUpto(g, S, Cardinality(S), k, first, base)
  BY <1>4 DEF Good
<1>6. Upto(S, Cardinality(S)) = SUBSET S
  BY FS_Subset DEF Upto
<1>7. Turns(g, S, k, first, base)
  BY <1>5, <1>6 DEF TurnsUpto, Turns
<1>8. QED BY <1>7

\* What holds before the first and after each holds after the last.
KeptByTurns(T, g, S, k, first) ==
  \A u \in SUBSET S : \A s \in S \ u : u \in T /\ g[u \cup {s}] = Decided(k, first, g[u], s) => u \cup {s} \in T

LEMMA TurnsInduct ==
  ASSUME NEW S, IsFiniteSet(S), \A s \in S : s.value \in Nat, NEW k, NEW first, NEW base,
         NEW g, Turns(g, S, k, first, base), NEW T, {} \in T, KeptByTurns(T, g, S, k, first)
  PROVE  S \in T
<1> DEFINE Good == {n \in Nat : \A u \in SUBSET S : Cardinality(u) = n => u \in T}
<1>0. \A u \in SUBSET S : IsFiniteSet(u) /\ Cardinality(u) \in Nat
  BY FS_Subset, FS_CardinalityType
<1>1. 0 \in Good
  BY <1>0, FS_EmptySet
<1>2. ASSUME NEW n \in Nat, n \in Good PROVE n + 1 \in Good
  <2>1. ASSUME NEW u \in SUBSET S, Cardinality(u) = n + 1 PROVE u \in T
    <3>1. u # {}
      BY FS_EmptySet, <2>1
    <3>2. PICK s : s = LastNamed(u)
      OBVIOUS
    <3>3. s \in u
      BY <3>1, <3>2, HasLast
    <3>4. u \ {s} \in SUBSET S /\ Cardinality(u \ {s}) = Cardinality(u) - 1
      BY <3>3, WithoutOne
    <3>5. u \ {s} \in T
      BY <1>2, <2>1, <3>4
    <3>6. g[u] = Turn(k, first, base, g, u)
      BY DEF Turns
    <3>7. g[u] = Decided(k, first, g[u \ {s}], s)
      BY <3>1, <3>2, <3>6, Zenon DEF Turn
    <3>8. (u \ {s}) \cup {s} = u /\ s \in S \ (u \ {s})
      BY <3>3
    <3>9. QED BY <3>4, <3>5, <3>7, <3>8 DEF KeptByTurns
  <2>2. QED BY <2>1
<1> HIDE DEF Good
<1>3. Cardinality(S) \in Nat
  BY FS_CardinalityType
<1>4. Cardinality(S) \in Good
  BY <1>1, <1>2, <1>3, InductNat
<1>5. QED BY <1>4 DEF Good

Before(k) == IF k \in DOMAIN keys THEN keys[k] ELSE NoKey
Undecided(k) == [key |-> Before(k), kept |-> {}, signals |-> {}]

LEMMA DecisionIs ==
  ASSUME limit \in Limits, NEW m, NEW evs \in NewBatches, NEW k
  PROVE  \E g : /\ Turns(g, Seen(evs, k[2], k[3]), k, agents'[<<m, k[2]>>].first, Undecided(k))
                /\ Decision(m, evs, k) = g[Seen(evs, k[2], k[3])]
<1>1. PICK S, first, base : S = Seen(evs, k[2], k[3]) /\ first = agents'[<<m, k[2]>>].first /\ base = Undecided(k)
  OBVIOUS
<1> DEFINE Is(g) == g = [u \in SUBSET S |-> IF u = {} THEN base ELSE Decided(k, first, g[u \ {LastNamed(u)}], LastNamed(u))]
           g == CHOOSE g : Is(g)
<1>2. Decision(m, evs, k) = g[S]
  BY <1>1 DEF Decision, MapThenFoldSet, Undecided, Before
<1>3. \A h : Is(h) <=> Turns(h, S, k, first, base)
  BY DEF Turns, Turn
<1>4. IsFiniteSet(S) /\ \A s \in S : s.value \in Nat
  BY <1>1, SeenFinite
<1>5. \E h : Is(h)
  <2> HIDE DEF Is
  <2>1. QED BY <1>3, <1>4, TurnsExist
<1> HIDE DEF Is
<1>6. Is(g)
  BY <1>5
<1> HIDE DEF g
<1>7. QED BY <1>1, <1>2, <1>3, <1>6

\* What is true after deciding on some values S of a key, which was `was' before.
Judged(k, first, was, S, acc) ==
  /\ acc.key \in KeyRecords /\ acc.kept \subseteq S /\ acc.signals \subseteq acc.kept
  /\ was.values <= acc.key.values /\ was.suppressed <= acc.key.suppressed
  /\ \A s \in S : Learnt(k, s) => s \in acc.kept
  /\ S = acc.kept \/ acc.key.values >= Caps[k[3]]
  /\ \A s \in acc.kept : Learnt(k, s) \/ was.values < Caps[k[3]]
  /\ \A s \in acc.signals : News(k, first, s)
  /\ \A s \in acc.kept \ acc.signals : News(k, first, s) => acc.key.suppressed > was.suppressed

LEMMA JudgedNext ==
  ASSUME NEW k, k[3] \in Kinds, NEW first, NEW was \in KeyRecords, NEW S, NEW s, s \notin S, s.at \in Nat, s.count \in Nat,
         NEW acc, Judged(k, first, was, S, acc), NEW d, d = Decided(k, first, acc, s)
  PROVE  Judged(k, first, was, S \cup {s}, d)
<1>1. PICK akey, dkey, cap : akey = acc.key /\ dkey = d.key /\ cap = Caps[k[3]]
  OBVIOUS
<1>2. PICK av, asup, dv, dsup, wv, wsup : /\ av = akey.values /\ asup = akey.suppressed /\ dv = dkey.values
                                        /\ dsup = dkey.suppressed /\ wv = was.values /\ wsup = was.suppressed
  OBVIOUS
<1>3. acc.key \in KeyRecords
  BY DEF Judged
<1>4. /\ d.key \in KeyRecords
      /\ d.kept = IF Fits(k, acc, s) THEN acc.kept \cup {s} ELSE acc.kept
      /\ d.key.values = IF ~Learnt(k, s) /\ Fits(k, acc, s) THEN acc.key.values + 1 ELSE acc.key.values
      /\ d.key.suppressed \in {acc.key.suppressed, acc.key.suppressed + 1}
      /\ \/ d.signals = acc.signals
         \/ d.signals = acc.signals \cup {s} /\ Fits(k, acc, s) /\ News(k, first, s)
      /\ Fits(k, acc, s) /\ News(k, first, s) =>
           d.signals = acc.signals \cup {s} \/ d.key.suppressed = acc.key.suppressed + 1
  <2>1. Advance(k, first, acc, s, d)
    BY <1>3, DecidedIs
  <2>2. QED BY <2>1 DEF Advance
<1>5. cap \in Nat
  BY <1>1, InventoryAssumption
<1>6. /\ av \in Nat /\ asup \in Nat /\ dv \in Nat /\ dsup \in Nat /\ wv \in Nat /\ wsup \in Nat
      /\ wv <= av /\ wsup <= asup /\ (dv = av \/ dv = av + 1) /\ (dsup = asup \/ dsup = asup + 1)
  BY <1>1, <1>2, <1>3, <1>4 DEF KeyRecords, Judged
<1>7. wv <= dv /\ wsup <= dsup /\ av <= dv /\ asup <= dsup
  BY <1>6
<1>8. Fits(k, acc, s) <=> Learnt(k, s) \/ av < cap
  BY <1>1, <1>2 DEF Fits
<1>9. d.kept \subseteq S \cup {s} /\ d.signals \subseteq d.kept /\ acc.kept \subseteq d.kept
  BY <1>4 DEF Judged
<1>10. \A x \in S \cup {s} : Learnt(k, x) => x \in d.kept
  BY <1>4, <1>8 DEF Judged
<1>11. S \cup {s} = d.kept \/ dv >= cap
  <2>1. CASE Fits(k, acc, s)
    <3>1. S = acc.kept \/ av >= cap
      BY <1>1, <1>2 DEF Judged
    <3>2. CASE S = acc.kept
      BY <2>1, <3>2, <1>4
    <3>3. CASE av >= cap
      BY <3>3, <1>5, <1>6, <1>7
    <3>4. QED BY <3>1, <3>2, <3>3
  <2>2. CASE ~Fits(k, acc, s)
    BY <2>2, <1>5, <1>6, <1>7, <1>8
  <2>3. QED BY <2>1, <2>2
<1>12. \A x \in d.kept : Learnt(k, x) \/ wv < cap
  BY <1>1, <1>2, <1>5, <1>6, <1>8, <1>4 DEF Judged
<1>13. \A x \in d.signals : News(k, first, x)
  BY <1>4 DEF Judged
<1>14. ASSUME NEW x \in d.kept \ d.signals, News(k, first, x) PROVE dsup > wsup
  <2>1. CASE x \in acc.kept
    BY <1>4, <1>14, <2>1, <1>1, <1>2, <1>6, <1>7 DEF Judged
  <2>2. CASE x \notin acc.kept
    BY <1>4, <1>14, <2>2, <1>1, <1>2, <1>6
  <2>3. QED BY <2>1, <2>2
<1>15. QED BY <1>1, <1>2, <1>4, <1>7, <1>9, <1>10, <1>11, <1>12, <1>13, <1>14 DEF Judged

LEMMA DecisionJudged ==
  ASSUME limit \in Limits, NEW m, NEW evs \in NewBatches, NEW k, k[3] \in Kinds, Before(k) \in KeyRecords
  PROVE  Judged(k, agents'[<<m, k[2]>>].first, Before(k), Seen(evs, k[2], k[3]), Decision(m, evs, k))
<1>1. PICK S, first, was : S = Seen(evs, k[2], k[3]) /\ first = agents'[<<m, k[2]>>].first /\ was = Before(k)
  OBVIOUS
<1>2. PICK g : Turns(g, S, k, first, Undecided(k)) /\ Decision(m, evs, k) = g[S]
  BY <1>1, DecisionIs
<1>3. IsFiniteSet(S) /\ \A s \in S : s.value \in Nat /\ s.at \in Nat /\ s.count \in Nat
  BY <1>1, SeenFinite
<1> DEFINE T == {u \in SUBSET S : Judged(k, first, was, u, g[u])}
<1>4. {} \in T
  BY <1>2, <1>1 DEF Turns, Turn, Undecided, KeyRecords, Judged
<1>5. ASSUME NEW u \in SUBSET S, NEW s \in S \ u, u \in T, g[u \cup {s}] = Decided(k, first, g[u], s) PROVE u \cup {s} \in T
  BY <1>5, <1>1, <1>3, JudgedNext
<1> HIDE DEF T
<1>6. KeptByTurns(T, g, S, k, first)
  BY <1>5 DEF KeptByTurns
<1>7. S \in T
  BY <1>2, <1>3, <1>4, <1>6, TurnsInduct
<1>8. QED BY <1>1, <1>2, <1>7 DEF T

-----------------------------------------------------------------------------
(* What a batch leaves of its values.                                      *)

KeptOf(T, d) == UNION {{Append(k, s.value) : s \in d[k].kept} : k \in T}
ToldOf(d, w) == CHOOSE s \in d[SubSeq(w, 1, 3)].kept : s.value = w[4]
ValueOf(w, s) == [first |-> Min({r.first : r \in Row(values, w)} \cup {s.at}),
                  last  |-> LastAt(Row(values, w), s),
                  seen  |-> Count(Row(values, w), LAMBDA r : r.seen) + s.count]
SignalsOf(m, T, d) ==
  UNION {{[batch |-> Len(batches[m]) + 1, key |-> k, value |-> s.value, at |-> s.at] : s \in d[k].signals} : k \in T}

Saved(m, T, d) ==
  /\ keys' = [k \in DOMAIN keys \cup T |-> IF k \in T THEN d[k].key ELSE keys[k]]
  /\ values' = [w \in DOMAIN values \cup KeptOf(T, d) |-> IF w \in KeptOf(T, d) THEN ValueOf(w, ToldOf(d, w)) ELSE values[w]]
  /\ anomalies' = anomalies \cup SignalsOf(m, T, d)

LEMMA BaselinesSaved ==
  ASSUME NEW m, NEW evs, ApplyBaselines(m, evs)
  PROVE  Saved(m, Touched(m, evs), [k \in Touched(m, evs) |-> Decision(m, evs, k)])
<1>1. PICK T, d : T = Touched(m, evs) /\ d = [k \in Touched(m, evs) |-> Decision(m, evs, k)]
  OBVIOUS
<1>2. Saved(m, T, d)
  BY <1>1 DEF ApplyBaselines, Saved, Upsert, KeptOf, ToldOf, ValueOf, SignalsOf
<1>3. QED BY <1>1, <1>2

LEMMA TouchedKeys ==
  ASSUME limit \in Limits, NEW m, NEW evs \in NewBatches
  PROVE  /\ \A k \in Touched(m, evs) : k = <<m, k[2], k[3]>> /\ k[1] = m /\ k[3] \in Kinds
         /\ \A a, kind, v : Showing(evs, a, kind, v) # {} => <<m, a, kind>> \in Touched(m, evs) /\ kind \in Kinds /\ v \in Nat
<1>1. ASSUME NEW k \in Touched(m, evs) PROVE k = <<m, k[2], k[3]>> /\ k[1] = m /\ k[3] \in Kinds
  <2>1. PICK e \in evs : \E s \in Shows(e) : k = <<m, e.act.agent, s[1]>>
    BY DEF Touched
  <2>2. PICK s \in Shows(e) : k = <<m, e.act.agent, s[1]>>
    BY <2>1
  <2>3. s \in Kinds \X NumbersOf(e.act)
    BY ShowsWhat
  <2>4. QED BY <2>2, <2>3
<1>2. ASSUME NEW a, NEW kind, NEW v, Showing(evs, a, kind, v) # {}
      PROVE  <<m, a, kind>> \in Touched(m, evs) /\ kind \in Kinds /\ v \in Nat
  <2>1. PICK e \in evs : e.act.agent = a /\ <<kind, v>> \in Shows(e)
    BY <1>2 DEF Showing
  <2>2. <<kind, v>> \in Kinds \X NumbersOf(e.act) /\ NumbersOf(e.act) \subseteq Nat
    BY ShowsWhat, BatchOfTwo, EventsAre, <2>1
  <2>3. <<m, e.act.agent, kind>> \in Touched(m, evs)
    <3>1. PICK s : s = <<kind, v>>
      OBVIOUS
    <3>2. s \in Shows(e) /\ s[1] = kind
      BY <2>1, <3>1
    <3>3. <<m, e.act.agent, s[1]>> \in {<<m, e.act.agent, x[1]>> : x \in Shows(e)}
      BY <3>2
    <3>4. <<m, e.act.agent, s[1]>> \in Touched(m, evs)
      BY <3>3, Zenon DEF Touched
    <3>5. QED BY <3>2, <3>4
  <2>4. QED BY <2>1, <2>2, <2>3
<1>3. QED BY <1>1, <1>2

\* Values are named by machine, agent, kind and number.
Numbered(w, k, v) == SubSeq(w, 1, 3) = k /\ w[4] = v

LEMMA Named ==
  ASSUME NEW m, NEW a, NEW kind, NEW v
  PROVE  Numbered(Append(<<m, a, kind>>, v), <<m, a, kind>>, v)
<1> DEFINE U == {m, a, kind, v}
<1>1. PICK k, w : k = <<m, a, kind>> /\ w = Append(<<m, a, kind>>, v)
  OBVIOUS
<1>2. k \in Seq(U) /\ Len(k) = 3 /\ k[1] = m /\ k[2] = a /\ k[3] = kind /\ v \in U
  BY <1>1
<1> HIDE DEF U
<1>3. w \in Seq(U) /\ Len(w) = 4 /\ w[4] = v /\ \A i \in 1..3 : w[i] = k[i]
  BY <1>1, <1>2
<1>4. \A i \in 1..3 : w[i] \in U
  <2>1. \A i \in 1 .. Len(w) : w[i] \in U
    BY <1>3, ElementOfSeq
  <2>2. \A i \in 1..3 : i \in 1 .. Len(w)
    BY <1>3
  <2>3. QED BY <2>1, <2>2
<1>5. /\ SubSeq(w, 1, 3) \in Seq(U) /\ Len(SubSeq(w, 1, 3)) = 3
      /\ \A i \in 1..3 : SubSeq(w, 1, 3)[i] = w[i]
  <2>1. /\ SubSeq(w, 1, 3) \in Seq(U) /\ Len(SubSeq(w, 1, 3)) = IF 1 <= 3 THEN 3 - 1 + 1 ELSE 0
        /\ \A i \in 1..(3 - 1 + 1) : SubSeq(w, 1, 3)[i] = w[1 + i - 1]
    BY <1>4, SubSeqProperties
  <2>2. QED BY <2>1
<1>6. SubSeq(w, 1, 3) = k
  BY <1>2, <1>3, <1>5, SeqEqual
<1>7. QED BY <1>1, <1>3, <1>6 DEF Numbered

-----------------------------------------------------------------------------
(* What the tables say of the batches before.                              *)

\* When the batches of a machine first show a value, each.
BatchTimes(m, a, kind, v) ==
  {Min(TimesOf(batches[m][b], a, kind, v)) : b \in {x \in DOMAIN batches[m] : Showing(batches[m][x], a, kind, v) # {}}}

CountedTimes(evs, a) == {e.at : e \in {x \in evs : Counted(x) /\ x.act.agent = a}}
AgentTimes(m, a) == UNION {CountedTimes(batches[m][b], a) : b \in DOMAIN batches[m]}
AgentTrue(m, a) ==
  IF AgentTimes(m, a) = {} THEN <<m, a>> \notin DOMAIN agents
  ELSE <<m, a>> \in DOMAIN agents /\ agents[<<m, a>>].first = Min(AgentTimes(m, a))

\* A learnt value was last seen when the latest batch began to show it; a value
\* that was shown and not learnt came when the key was full.
LearntTrue(k, w, times) ==
  IF w \in DOMAIN values THEN values[w].last \in times /\ \A t \in times : t <= values[w].last
  ELSE times = {} \/ (k \in DOMAIN keys /\ keys[k].values >= Caps[k[3]])

AgentsTrue == \A m \in Hosts : \A a : AgentTrue(m, a)
ValuesTrue == \A m \in Hosts : \A a, kind, v : LearntTrue(<<m, a, kind>>, Append(<<m, a, kind>>, v), BatchTimes(m, a, kind, v))
BatchesKnown == limit \in Limits /\ batches \in [Hosts -> Seq(NewBatches)]
KeysTyped == \A k \in DOMAIN keys : keys[k] \in KeyRecords
SignalsPast == \A m \in Hosts : \A x \in anomalies : x.key[1] = m => x.batch \in 1 .. Len(batches[m])

BaselinesTrue == BatchesKnown /\ KeysTyped /\ SignalsPast /\ AgentsTrue /\ ValuesTrue

\* A batch is stored.
Arrives(m, evs) ==
  /\ limit' = limit /\ batches' = [batches EXCEPT ![m] = Append(@, evs)]
  /\ RollupActivity(m, evs) /\ RollupServers(m, evs) /\ RollupOutcomes(m, evs) /\ ApplyBaselines(m, evs)
  /\ \E first \in evs : RollupAgents(m, evs, first)

SameTables == UNCHANGED <<tableVars, limit>>

LEMMA TableSteps ==
  ASSUME BatchesKnown, [InventoryNext]_inventoryVars
  PROVE  SameTables \/ (Prune /\ limit' = limit) \/ \E m \in Hosts : \E evs \in NewBatches : Arrives(m, evs)
<1>1. CASE UNCHANGED inventoryVars
  BY <1>1 DEF SameTables, inventoryVars
<1>2. ASSUME NEW m \in Hosts, BatchArrives(m) PROVE SameTables \/ \E evs \in NewBatches : Arrives(m, evs)
  <2>1. limit' = limit
    BY <1>2 DEF BatchArrives
  <2>2. CASE \E evs \in NewBatches : \E first \in evs : Ingest(m, Len(batches[m]) + 1, evs, first)
    <3>1. PICK evs \in NewBatches : \E first \in evs : Ingest(m, Len(batches[m]) + 1, evs, first)
      BY <2>2
    <3>2. PICK first \in evs : Ingest(m, Len(batches[m]) + 1, evs, first)
      BY <3>1
    <3>3. Len(batches[m]) + 1 \notin DOMAIN batches[m]
      BY DEF BatchesKnown
    <3>4. Store(m, evs, first) /\ batches' = [batches EXCEPT ![m] = Append(@, evs)]
      BY <3>2, <3>3, Zenon DEF Ingest
    <3>5. Arrives(m, evs)
      BY <2>1, <3>4, Zenon DEF Arrives, Store
    <3>6. QED BY <3>5
  <2>3. CASE \E id \in DOMAIN batches[m] : \E first \in batches[m][id] : Ingest(m, id, batches[m][id], first)
    <3>1. UNCHANGED tableVars
      BY <2>3, Zenon DEF Ingest
    <3>2. QED BY <2>1, <3>1 DEF SameTables
  <2>4. QED BY <1>2, <2>2, <2>3, Zenon DEF BatchArrives
<1>3. CASE Prune
  BY <1>3 DEF Prune
<1>5. CASE Edit(Map) \/ Edit(Unmap) \/ Edit(Sync) \/ Edit(Own) \/ Edit(File)
  BY <1>5 DEF Edit, SameTables
<1>6. QED BY <1>1, <1>2, <1>3, <1>5, Zenon DEF InventoryNext

LEMMA MinIs ==
  ASSUME NEW S \in SUBSET Nat, NEW n \in S, \A k \in S : n <= k
  PROVE  Min(S) = n
<1>1. Min(S) \in S /\ \A k \in S : Min(S) <= k
  BY Zenon DEF Min
<1>2. PICK x : x = Min(S)
  OBVIOUS
<1>3. x \in S /\ x <= n /\ n <= x /\ x \in Nat /\ n \in Nat
  BY <1>1, <1>2
<1>4. x = n
  BY <1>3
<1>5. QED BY <1>2, <1>4

LEMMA MinLeast ==
  ASSUME NEW S \in SUBSET Nat, S # {}
  PROVE  Min(S) \in S /\ \A k \in S : Min(S) <= k
<1>1. PICK n \in S : \A k \in S : n <= k
  BY LeastNat
<1>2. QED BY <1>1, MinIs

LEMMA MinUnion ==
  ASSUME NEW A \in SUBSET Nat, NEW B \in SUBSET Nat, A # {}
  PROVE  Min({Min(A)} \cup B) = Min(A \cup B)
<1>1. PICK n : n = Min(A \cup B)
  OBVIOUS
<1>2. n \in A \cup B /\ \A k \in A \cup B : n <= k
  BY <1>1, MinLeast
<1>3. PICK a : a = Min(A)
  OBVIOUS
<1>4. a \in A /\ \A k \in A : a <= k
  BY <1>3, MinLeast
<1>5. n \in {a} \cup B /\ {a} \cup B \in SUBSET Nat /\ \A k \in {a} \cup B : n <= k
  BY <1>2, <1>4
<1>6. Min({a} \cup B) = n
  BY <1>5, MinIs
<1>7. QED BY <1>1, <1>3, <1>6

\* The batches after one more.
LEMMA BatchesAfter ==
  ASSUME BatchesKnown, NEW m \in Hosts, NEW evs \in NewBatches, Arrives(m, evs)
  PROVE  /\ BatchesKnown'
         /\ \A h \in Hosts \ {m} : batches'[h] = batches[h]
         /\ Len(batches[m]) \in Nat /\ DOMAIN batches[m] = 1 .. Len(batches[m])
         /\ Len(batches'[m]) = Len(batches[m]) + 1
         /\ DOMAIN batches'[m] = DOMAIN batches[m] \cup {Len(batches[m]) + 1}
         /\ batches'[m][Len(batches[m]) + 1] = evs
         /\ \A b \in DOMAIN batches[m] : batches'[m][b] = batches[m][b]
<1>1. PICK B, q : B = NewBatches /\ q = batches[m]
  OBVIOUS
<1>2. q \in Seq(B) /\ evs \in B /\ batches \in [Hosts -> Seq(B)]
  BY <1>1 DEF BatchesKnown
<1>3. batches' = [batches EXCEPT ![m] = Append(q, evs)] /\ limit' = limit
  BY <1>1 DEF Arrives
<1>4. NewBatches' = B
  BY <1>1, <1>3 DEF NewBatches
<1>5. Append(q, evs) \in Seq(B)
  BY <1>2
<1>6. batches' \in [Hosts -> Seq(B)]
  BY <1>2, <1>3, <1>5
<1>7. BatchesKnown'
  BY <1>3, <1>4, <1>6 DEF BatchesKnown
<1>8. batches'[m] = Append(q, evs) /\ \A h \in Hosts \ {m} : batches'[h] = batches[h]
  BY <1>2, <1>3
<1>9. /\ Len(q) \in Nat /\ DOMAIN q = 1 .. Len(q) /\ Len(Append(q, evs)) = Len(q) + 1
      /\ DOMAIN Append(q, evs) = 1 .. Len(q) + 1
      /\ Append(q, evs)[Len(q) + 1] = evs /\ \A b \in 1 .. Len(q) : Append(q, evs)[b] = q[b]
  BY <1>2
<1>10. DOMAIN Append(q, evs) = DOMAIN q \cup {Len(q) + 1}
  BY <1>9
<1>11. QED BY <1>1, <1>7, <1>8, <1>9, <1>10

LEMMA TimesAfter ==
  ASSUME BatchesKnown, NEW m \in Hosts, NEW evs \in NewBatches, Arrives(m, evs), NEW a
  PROVE  AgentTimes(m, a)' = AgentTimes(m, a) \cup CountedTimes(evs, a)
<1>1. PICK n, D, old, new : n = Len(batches[m]) + 1 /\ D = DOMAIN batches[m] /\ old = batches[m] /\ new = batches'[m]
  OBVIOUS
<1>2. DOMAIN new = D \cup {n} /\ new[n] = evs /\ \A b \in D : new[b] = old[b]
  BY <1>1, BatchesAfter
<1>3. AgentTimes(m, a)' = UNION {CountedTimes(new[b], a) : b \in D \cup {n}}
  BY <1>1, <1>2 DEF AgentTimes
<1>4. AgentTimes(m, a) = UNION {CountedTimes(old[b], a) : b \in D}
  BY <1>1 DEF AgentTimes
<1>5. QED BY <1>2, <1>3, <1>4

LEMMA BatchTimesAfter ==
  ASSUME BatchesKnown, NEW m \in Hosts, NEW evs \in NewBatches, Arrives(m, evs), NEW a, NEW kind, NEW v
  PROVE  BatchTimes(m, a, kind, v)' = BatchTimes(m, a, kind, v) \cup
           (IF Showing(evs, a, kind, v) = {} THEN {} ELSE {Min(TimesOf(evs, a, kind, v))})
<1>1. PICK n, D, old, new : n = Len(batches[m]) + 1 /\ D = DOMAIN batches[m] /\ old = batches[m] /\ new = batches'[m]
  OBVIOUS
<1>2. DOMAIN new = D \cup {n} /\ new[n] = evs /\ \A b \in D : new[b] = old[b]
  BY <1>1, BatchesAfter
<1>3. BatchTimes(m, a, kind, v)' = {Min(TimesOf(new[b], a, kind, v)) : b \in {x \in D \cup {n} : Showing(new[x], a, kind, v) # {}}}
  BY <1>1, <1>2 DEF BatchTimes
<1>4. BatchTimes(m, a, kind, v) = {Min(TimesOf(old[b], a, kind, v)) : b \in {x \in D : Showing(old[x], a, kind, v) # {}}}
  BY <1>1 DEF BatchTimes
<1>5. QED BY <1>2, <1>3, <1>4

LEMMA OthersAfter ==
  ASSUME BatchesKnown, NEW m \in Hosts, NEW evs \in NewBatches, Arrives(m, evs), NEW h \in Hosts \ {m}, NEW a
  PROVE  AgentTimes(h, a)' = AgentTimes(h, a) /\ \A kind, v : BatchTimes(h, a, kind, v)' = BatchTimes(h, a, kind, v)
<1>1. batches'[h] = batches[h]
  BY BatchesAfter
<1>2. QED BY <1>1 DEF AgentTimes, BatchTimes

LEMMA TimesAreTimes ==
  ASSUME BatchesKnown, NEW m \in Hosts, NEW a
  PROVE  AgentTimes(m, a) \subseteq Nat /\ \A kind, v : BatchTimes(m, a, kind, v) \subseteq Nat
<1>1. limit \in Limits /\ \A b \in DOMAIN batches[m] : batches[m][b] \in NewBatches
  BY DEF BatchesKnown
<1>2. \A b \in DOMAIN batches[m] : \A e \in batches[m][b] : e.at \in Nat
  BY <1>1, BatchOfTwo, EventsAre
<1>3. AgentTimes(m, a) \subseteq Nat
  BY <1>2 DEF AgentTimes, CountedTimes
<1>4. ASSUME NEW kind, NEW v, NEW b \in DOMAIN batches[m], Showing(batches[m][b], a, kind, v) # {}
      PROVE  Min(TimesOf(batches[m][b], a, kind, v)) \in Nat
  BY <1>2, <1>4, MinNat DEF TimesOf, Showing
<1>5. QED BY <1>3, <1>4 DEF BatchTimes

\* An agent is as old as its earliest event, however late that comes.
LEMMA AgentsAfter ==
  ASSUME BatchesKnown, AgentsTrue, NEW m \in Hosts, NEW evs \in NewBatches, Arrives(m, evs)
  PROVE  AgentsTrue'
<1>1. limit \in Limits /\ evs \subseteq LimitEvents /\ \A e \in evs : e.at \in Nat
  BY BatchOfTwo, EventsAre DEF BatchesKnown
<1>2. PICK first \in evs : RollupAgents(m, evs, first)
  BY DEF Arrives
<1> DEFINE ks == {<<m, e.act.agent>> : e \in {x \in evs : Counted(x)}}
           mine(k) == {e \in evs : Counted(e) /\ <<m, e.act.agent>> = k}
           old(k) == {r.first : r \in Row(agents, k)}
<1>3. DOMAIN agents' = DOMAIN agents \cup ks
  BY <1>2 DEF RollupAgents, Upsert
<1>4. \A k \in DOMAIN agents \ ks : agents'[k] = agents[k]
  BY <1>2 DEF RollupAgents, Upsert
<1>5. \A k \in ks : agents'[k].first = Min(old(k) \cup {e.at : e \in mine(k)})
  BY <1>2 DEF RollupAgents, Upsert
<1>6. ASSUME NEW a PROVE AgentTrue(m, a)'
  <2>1. PICK k, A, B : k = <<m, a>> /\ A = AgentTimes(m, a) /\ B = CountedTimes(evs, a)
    OBVIOUS
  <2>2. AgentTimes(m, a)' = A \cup B
    BY <2>1, TimesAfter
  <2>3. A \in SUBSET Nat /\ B \in SUBSET Nat
    BY <1>1, <2>1, TimesAreTimes DEF CountedTimes
  <2>4. {e.at : e \in mine(k)} = B
    BY <2>1 DEF CountedTimes
  <2>5. k \in ks <=> B # {}
    BY <2>1 DEF CountedTimes
  <2>6. IF A = {} THEN k \notin DOMAIN agents ELSE k \in DOMAIN agents /\ agents[k].first = Min(A)
    BY <2>1 DEF AgentsTrue, AgentTrue
  <2> HIDE DEF ks, mine
  <2>7. CASE B = {}
    BY <2>5, <2>7, <1>3, <1>4, <2>1, <2>2, <2>6 DEF AgentTrue
  <2>8. CASE B # {}
    <3>1. k \in DOMAIN agents' /\ A \cup B # {} /\ agents'[k].first = Min(old(k) \cup B)
      BY <1>3, <1>5, <2>4, <2>5, <2>8
    <3>2. Min(old(k) \cup B) = Min(A \cup B)
      <4>1. CASE A = {}
        BY <2>6, <4>1 DEF Row
      <4>2. CASE A # {}
        <5>1. old(k) = {Min(A)}
          BY <2>6, <4>2 DEF Row
        <5>2. QED BY <2>3, <4>2, <5>1, MinUnion
      <4>3. QED BY <4>1, <4>2
    <3> HIDE DEF old
    <3>3. QED BY <2>1, <2>2, <3>1, <3>2 DEF AgentTrue
  <2>9. QED BY <2>7, <2>8
<1>7. ASSUME NEW h \in Hosts \ {m}, NEW a PROVE AgentTrue(h, a)'
  <2>1. <<h, a>> \notin ks
    OBVIOUS
  <2>2. AgentTimes(h, a)' = AgentTimes(h, a)
    BY OthersAfter
  <2>3. AgentTrue(h, a)
    BY DEF AgentsTrue
  <2> HIDE DEF ks
  <2>4. QED BY <1>3, <1>4, <2>1, <2>2, <2>3 DEF AgentTrue
<1>8. QED BY <1>6, <1>7 DEF AgentsTrue

\* What Decide makes of each key a batch touches.
Decisions(m, evs) == [k \in Touched(m, evs) |-> Decision(m, evs, k)]

LEMMA TouchedJudged ==
  ASSUME BatchesKnown, KeysTyped, NEW m, NEW evs \in NewBatches, NEW k \in Touched(m, evs)
  PROVE  Judged(k, agents'[<<m, k[2]>>].first, Before(k), Seen(evs, k[2], k[3]), Decision(m, evs, k))
<1>1. limit \in Limits /\ k[3] \in Kinds
  BY TouchedKeys DEF BatchesKnown
<1>2. NoKey \in KeyRecords
  BY DEF NoKey, KeyRecords
<1>3. Before(k) \in KeyRecords
  BY <1>2 DEF Before, KeysTyped
<1>4. QED BY <1>1, <1>3, DecisionJudged

\* A value that is kept is one the batch shows of that machine.
KeptIf(m, evs, h, a, kind, v) ==
  /\ h = m /\ Showing(evs, a, kind, v) # {}
  /\ Sighting(evs, a, kind, v) \in Decision(m, evs, <<m, a, kind>>).kept

LEMMA KeptShown ==
  ASSUME BatchesKnown, KeysTyped, NEW m, NEW evs \in NewBatches,
         NEW h, NEW a, NEW kind, NEW v, NEW w, w = Append(<<h, a, kind>>, v),
         w \in KeptOf(Touched(m, evs), Decisions(m, evs))
  PROVE  KeptIf(m, evs, h, a, kind, v)
<1>1. PICK T, d : T = Touched(m, evs) /\ d = Decisions(m, evs)
  OBVIOUS
<1>2. \E x \in T : \E s \in d[x].kept : w = Append(x, s.value)
  BY <1>1 DEF KeptOf
<1>3. PICK x \in T : \E s \in d[x].kept : w = Append(x, s.value)
  BY <1>2
<1>4. PICK s \in d[x].kept : w = Append(x, s.value)
  BY <1>3
<1>5. d[x] = Decision(m, evs, x)
  BY <1>1 DEF Decisions
<1>6. x = <<m, x[2], x[3]>>
  BY <1>1, TouchedKeys DEF BatchesKnown
<1>7. w = Append(<<m, x[2], x[3]>>, s.value)
  BY <1>4, <1>6
<1>8. SubSeq(w, 1, 3) = <<m, x[2], x[3]>> /\ w[4] = s.value
  BY Named, <1>7 DEF Numbered
<1>9. SubSeq(w, 1, 3) = <<h, a, kind>> /\ w[4] = v
  BY Named DEF Numbered
<1>10. h = m /\ x[2] = a /\ x[3] = kind /\ s.value = v /\ x = <<m, a, kind>>
  BY <1>6, <1>8, <1>9
<1>11. s \in Seen(evs, a, kind)
  BY <1>1, TouchedJudged, <1>4, <1>5, <1>10 DEF Judged
<1>12. PICK u \in ShownValues(evs, a, kind) : s = Sighting(evs, a, kind, u)
  BY <1>11, SeenAre DEF BatchesKnown
<1>13. s.value = u
  BY <1>12, SightingIs DEF BatchesKnown
<1>14. QED BY <1>4, <1>5, <1>10, <1>12, <1>13 DEF ShownValues, KeptIf

LEMMA KeptIsKept ==
  ASSUME NEW T, NEW d, NEW k \in T, NEW s \in d[k].kept
  PROVE  Append(k, s.value) \in KeptOf(T, d)
<1>1. Append(k, s.value) \in {Append(k, x.value) : x \in d[k].kept}
  OBVIOUS
<1>2. PICK P : P = {Append(k, x.value) : x \in d[k].kept}
  OBVIOUS
<1>3. P \in {{Append(x, y.value) : y \in d[x].kept} : x \in T}
  BY <1>2
<1>4. QED BY <1>1, <1>2, <1>3 DEF KeptOf

\* What a batch leaves of one value it shows.
ValueLeft(m, evs, a, kind, v, k, w, s, dec) ==
  /\ k \in Touched(m, evs) /\ k \in DOMAIN keys' /\ keys'[k] = dec.key
  /\ s \in Seen(evs, a, kind) /\ s.value = v
  /\ s.at = Min(TimesOf(evs, a, kind, v)) /\ s.at \in Nat
  /\ Judged(k, agents'[<<m, a>>].first, Before(k), Seen(evs, a, kind), dec)
  /\ Learnt(k, s) <=> w \in DOMAIN values
  /\ w \in DOMAIN values' <=> s \in dec.kept
  /\ s \in dec.kept => values'[w] = ValueOf(w, s)

LEMMA ValueAfter ==
  ASSUME BatchesKnown, KeysTyped, NEW m \in Hosts, NEW evs \in NewBatches, Arrives(m, evs),
         NEW a, NEW kind, NEW v, Showing(evs, a, kind, v) # {},
         NEW k, k = <<m, a, kind>>, NEW w, w = Append(k, v),
         NEW s, s = Sighting(evs, a, kind, v), NEW dec, dec = Decision(m, evs, k)
  PROVE  ValueLeft(m, evs, a, kind, v, k, w, s, dec)
<1>1. PICK T, d : T = Touched(m, evs) /\ d = Decisions(m, evs)
  OBVIOUS
<1>2. Saved(m, T, d)
  BY <1>1, BaselinesSaved DEF Arrives, Decisions
<1>3. limit \in Limits
  BY DEF BatchesKnown
<1>4. k \in T /\ v \in Nat /\ kind \in Kinds
  BY <1>1, <1>3, TouchedKeys
<1>5. d[k] = dec
  BY <1>1, <1>4 DEF Decisions
<1>6. k \in DOMAIN keys' /\ keys'[k] = dec.key
  BY <1>2, <1>4, <1>5 DEF Saved
<1>7. v \in ShownValues(evs, a, kind)
  BY <1>4 DEF ShownValues
<1>8. s \in Seen(evs, a, kind)
  BY <1>3, <1>7, SeenAre
<1>9. s.value = v /\ s.at = Min(TimesOf(evs, a, kind, v)) /\ s.at \in Nat
  BY <1>3, <1>7, SightingIs
<1>10. k[2] = a /\ k[3] = kind
  OBVIOUS
<1>11. Judged(k, agents'[<<m, a>>].first, Before(k), Seen(evs, a, kind), dec)
  BY <1>1, <1>4, <1>10, TouchedJudged
<1>12. Learnt(k, s) <=> w \in DOMAIN values
  BY <1>9 DEF Learnt
<1>13. w \in KeptOf(T, d) <=> s \in dec.kept
  <2>1. ASSUME s \in dec.kept PROVE w \in KeptOf(T, d)
    BY <1>5, <1>9, <2>1, <1>4, KeptIsKept
  <2>2. ASSUME w \in KeptOf(T, d) PROVE s \in dec.kept
    <3>1. KeptIf(m, evs, m, a, kind, v)
      BY <1>1, <2>2, KeptShown
    <3>2. QED BY <3>1 DEF KeptIf
  <2>3. QED BY <2>1, <2>2
<1>14. w \in DOMAIN values' <=> s \in dec.kept
  BY <1>2, <1>8, <1>11, <1>12, <1>13 DEF Saved, Judged
<1>15. ASSUME s \in dec.kept PROVE values'[w] = ValueOf(w, s)
  <2>1. SubSeq(w, 1, 3) = k /\ w[4] = v
    BY Named DEF Numbered
  <2>2. ToldOf(d, w) = s
    <3>1. \A x \in dec.kept : x \in Seen(evs, a, kind)
      BY <1>11 DEF Judged
    <3>2. \A x \in dec.kept : x.value = v => x = s
      BY <1>3, <1>8, <1>9, <3>1, SeenFinite
    <3>3. QED BY <1>5, <1>9, <1>15, <2>1, <3>2 DEF ToldOf
  <2>3. QED BY <1>2, <1>13, <1>15, <2>2 DEF Saved
<1>16. QED BY <1>1, <1>4, <1>6, <1>8, <1>9, <1>11, <1>12, <1>14, <1>15 DEF ValueLeft

LEMMA MaxIs ==
  ASSUME NEW S \in SUBSET Nat, NEW n \in S, \A k \in S : k <= n
  PROVE  Max(S) = n
<1>1. Max(S) \in S /\ \A k \in S : Max(S) >= k
  <2>1. \A k \in S : n >= k
    OBVIOUS
  <2>2. QED BY <2>1, Zenon DEF Max
<1>2. PICK x : x = Max(S)
  OBVIOUS
<1>3. x \in S /\ x >= n /\ x <= n /\ x \in Nat /\ n \in Nat
  BY <1>1, <1>2
<1>4. x = n
  BY <1>3
<1>5. QED BY <1>2, <1>4

\* The last time is the latest of those of the batches, whatever their order.
LEMMA LastAtIs ==
  ASSUME NEW w, NEW s, s.at \in Nat, NEW times \in SUBSET Nat, NEW last, last = LastAt(Row(values, w), s),
         IF w \in DOMAIN values THEN values[w].last \in times /\ \A t \in times : t <= values[w].last ELSE times = {}
  PROVE  last \in times \cup {s.at} /\ \A t \in times \cup {s.at} : t <= last
<1>1. PICK at : at = s.at
  OBVIOUS
<1>2. CASE w \in DOMAIN values
  <2>1. PICK l : l = values[w].last
    OBVIOUS
  <2>2. Row(values, w) = {values[w]}
    BY <1>2 DEF Row
  <2>3. {r.last : r \in Row(values, w)} \cup {s.at} = {l, at}
    BY <1>1, <2>1, <2>2
  <2>4. last = Max({l, at})
    BY <2>3 DEF LastAt
  <2>5. l \in times /\ l \in Nat /\ at \in Nat /\ \A t \in times : t <= l
    BY <1>1, <1>2, <2>1
  <2>6. CASE l <= at
    BY <2>4, <2>5, <2>6, MaxIs, <1>1
  <2>7. CASE at <= l
    BY <2>4, <2>5, <2>7, MaxIs, <1>1
  <2>8. QED BY <2>5, <2>6, <2>7
<1>3. CASE w \notin DOMAIN values
  BY <1>1, <1>3, MaxIs DEF Row, LastAt
<1>4. QED BY <1>2, <1>3

\* The keys after a batch hold at least as many values.
LEMMA KeysAfter ==
  ASSUME BatchesKnown, KeysTyped, NEW m \in Hosts, NEW evs \in NewBatches, Arrives(m, evs)
  PROVE  /\ KeysTyped'
         /\ \A k \in DOMAIN keys : /\ k \in DOMAIN keys'
                                   /\ keys'[k] = keys[k] \/ (k[3] \in Kinds /\ keys[k].values <= keys'[k].values)
<1>1. PICK T, d : T = Touched(m, evs) /\ d = Decisions(m, evs)
  OBVIOUS
<1>2. Saved(m, T, d)
  BY <1>1, BaselinesSaved DEF Arrives, Decisions
<1>3. ASSUME NEW k \in T PROVE d[k].key \in KeyRecords /\ Before(k).values <= d[k].key.values /\ k[3] \in Kinds
  BY <1>1, TouchedJudged, TouchedKeys DEF Decisions, BatchesKnown, Judged
<1>4. keys' = [k \in DOMAIN keys \cup T |-> IF k \in T THEN d[k].key ELSE keys[k]]
  BY <1>2 DEF Saved
<1>5. \A k \in DOMAIN keys : Before(k) = keys[k]
  BY DEF Before
<1>6. KeysTyped'
  BY <1>3, <1>4 DEF KeysTyped, KeyRecords
<1>7. QED BY <1>3, <1>4, <1>5, <1>6

\* A value that is kept was shown before exactly when it is learnt.
LEMMA KeptBefore ==
  ASSUME BatchesKnown, KeysTyped, ValuesTrue, NEW m \in Hosts, NEW evs \in NewBatches,
         NEW a, NEW kind, NEW v, NEW k, k = <<m, a, kind>>, k \in Touched(m, evs), NEW w, w = Append(k, v),
         w \in DOMAIN values \/ Before(k).values < Caps[k[3]]
  PROVE  IF w \in DOMAIN values
         THEN /\ values[w].last \in BatchTimes(m, a, kind, v)
              /\ \A t \in BatchTimes(m, a, kind, v) : t <= values[w].last
         ELSE BatchTimes(m, a, kind, v) = {}
<1>1. PICK times : times = BatchTimes(m, a, kind, v)
  OBVIOUS
<1>2. LearntTrue(k, w, times)
  BY <1>1 DEF ValuesTrue
<1>3. CASE w \in DOMAIN values
  BY <1>1, <1>2, <1>3 DEF LearntTrue
<1>4. CASE w \notin DOMAIN values
  <2>1. Before(k).values < Caps[k[3]]
    BY <1>4
  <2>2. k[3] \in Kinds /\ Caps[k[3]] \in Nat
    BY TouchedKeys, InventoryAssumption DEF BatchesKnown
  <2>3. ASSUME k \in DOMAIN keys, keys[k].values >= Caps[k[3]] PROVE FALSE
    <3>1. PICK x, c : x = keys[k].values /\ c = Caps[k[3]]
      OBVIOUS
    <3>2. x < c
      BY <2>1, <2>3, <3>1 DEF Before
    <3>3. x \in Nat /\ c \in Nat /\ x >= c
      BY <2>2, <2>3, <3>1 DEF KeysTyped, KeyRecords
    <3>4. QED BY <3>2, <3>3
  <2>4. times = {}
    BY <1>2, <1>4, <2>3 DEF LearntTrue
  <2>5. QED BY <1>1, <1>4, <2>4
<1>5. QED BY <1>3, <1>4

LEMMA LearntAfter ==
  ASSUME BatchesKnown, KeysTyped, ValuesTrue, NEW m \in Hosts, NEW evs \in NewBatches, Arrives(m, evs),
         NEW a, NEW kind, NEW v, NEW k, k = <<m, a, kind>>, NEW w, w = Append(k, v)
  PROVE  LearntTrue(k, w, BatchTimes(m, a, kind, v))'
<1>1. PICK times, after : times = BatchTimes(m, a, kind, v) /\ after = BatchTimes(m, a, kind, v)'
  OBVIOUS
<1>2. LearntTrue(k, w, times) /\ times \in SUBSET Nat
  BY <1>1, TimesAreTimes DEF ValuesTrue
<1>0. after = times \cup (IF Showing(evs, a, kind, v) = {} THEN {} ELSE {Min(TimesOf(evs, a, kind, v))})
  BY <1>1, BatchTimesAfter
<1>3. CASE Showing(evs, a, kind, v) = {}
  <2>1. after = times
    BY <1>0, <1>3
  <2>2. PICK T, d : T = Touched(m, evs) /\ d = Decisions(m, evs)
    OBVIOUS
  <2>3. Saved(m, T, d)
    BY <2>2, BaselinesSaved DEF Arrives, Decisions
  <2>4. w \notin KeptOf(T, d)
    <3>1. w = Append(<<m, a, kind>>, v)
      OBVIOUS
    <3>2. ASSUME w \in KeptOf(Touched(m, evs), Decisions(m, evs)) PROVE FALSE
      <4>1. KeptIf(m, evs, m, a, kind, v)
        BY <3>1, <3>2, KeptShown
      <4>2. QED BY <1>3, <4>1 DEF KeptIf
    <3>3. QED BY <2>2, <3>2
  <2>5. (w \in DOMAIN values' <=> w \in DOMAIN values) /\ (w \in DOMAIN values => values'[w] = values[w])
    BY <2>3, <2>4 DEF Saved
  <2>6. ASSUME k \in DOMAIN keys, keys[k].values >= Caps[k[3]]
        PROVE  k \in DOMAIN keys' /\ keys'[k].values >= Caps[k[3]]
    <3>1. k \in DOMAIN keys' /\ (keys'[k] = keys[k] \/ (k[3] \in Kinds /\ keys[k].values <= keys'[k].values))
      BY <2>6, KeysAfter
    <3>2. KeysTyped'
      BY KeysAfter
    <3>3. keys[k] \in KeyRecords /\ keys'[k] \in KeyRecords
      BY <2>6, <3>1, <3>2 DEF KeysTyped, KeyRecords
    <3>4. k[3] \in Kinds => Caps[k[3]] \in Nat
      BY InventoryAssumption
    <3>5. PICK x, y, c : x = keys[k].values /\ y = keys'[k].values /\ c = Caps[k[3]]
      OBVIOUS
    <3>6. x \in Nat /\ y \in Nat
      BY <3>3, <3>5 DEF KeyRecords
    <3>7. y = x \/ (c \in Nat /\ x <= y)
      BY <3>1, <3>4, <3>5
    <3>8. y >= c
      BY <2>6, <3>5, <3>6, <3>7
    <3>9. QED BY <3>1, <3>5, <3>8
  <2>7. QED BY <1>1, <1>2, <2>1, <2>5, <2>6 DEF LearntTrue
<1>4. CASE Showing(evs, a, kind, v) # {}
  <2>1. PICK s, dec : s = Sighting(evs, a, kind, v) /\ dec = Decision(m, evs, k)
    OBVIOUS
  <2>2. /\ k \in Touched(m, evs) /\ k \in DOMAIN keys' /\ keys'[k] = dec.key
        /\ s \in Seen(evs, a, kind) /\ s.value = v
        /\ s.at = Min(TimesOf(evs, a, kind, v)) /\ s.at \in Nat
        /\ Judged(k, agents'[<<m, a>>].first, Before(k), Seen(evs, a, kind), dec)
        /\ Learnt(k, s) <=> w \in DOMAIN values
        /\ w \in DOMAIN values' <=> s \in dec.kept
        /\ s \in dec.kept => values'[w].last = LastAt(Row(values, w), s)
    <3>1. ValueLeft(m, evs, a, kind, v, k, w, s, dec)
      BY <1>4, <2>1, ValueAfter
    <3>2. s \in dec.kept => values'[w].last = LastAt(Row(values, w), s)
      BY <3>1 DEF ValueLeft, ValueOf
    <3>3. QED BY <3>1, <3>2 DEF ValueLeft
  <2>3. after = times \cup {s.at}
    BY <1>0, <1>4, <2>2
  <2>4. CASE s \notin dec.kept
    BY <2>2, <2>4, <1>1 DEF Judged, LearntTrue
  <2>5. CASE s \in dec.kept
    <3>1. IF w \in DOMAIN values THEN values[w].last \in times /\ \A t \in times : t <= values[w].last ELSE times = {}
      BY <2>2, <2>5, <1>1, KeptBefore DEF Judged
    <3>2. PICK last : last = LastAt(Row(values, w), s)
      OBVIOUS
    <3>3. last \in times \cup {s.at} /\ \A t \in times \cup {s.at} : t <= last
      BY <1>2, <2>2, <3>1, <3>2, LastAtIs
    <3>4. values'[w].last = last /\ w \in DOMAIN values'
      BY <2>2, <2>5, <3>2
    <3>5. QED BY <1>1, <2>3, <3>3, <3>4 DEF LearntTrue
  <2>6. QED BY <2>4, <2>5
<1>5. QED BY <1>3, <1>4

\* Nothing is learnt of another machine.
LEMMA LearntElsewhere ==
  ASSUME BatchesKnown, KeysTyped, ValuesTrue, NEW m \in Hosts, NEW evs \in NewBatches, Arrives(m, evs),
         NEW h \in Hosts \ {m}, NEW a, NEW kind, NEW v, NEW k, k = <<h, a, kind>>, NEW w, w = Append(k, v)
  PROVE  LearntTrue(k, w, BatchTimes(h, a, kind, v))'
<1>1. BatchTimes(h, a, kind, v)' = BatchTimes(h, a, kind, v)
  BY OthersAfter
<1>2. LearntTrue(k, w, BatchTimes(h, a, kind, v))
  BY DEF ValuesTrue
<1>3. PICK T, d : T = Touched(m, evs) /\ d = Decisions(m, evs)
  OBVIOUS
<1>4. Saved(m, T, d)
  BY <1>3, BaselinesSaved DEF Arrives, Decisions
<1>5. k \notin T
  BY <1>3, TouchedKeys DEF BatchesKnown
<1>6. w \notin KeptOf(T, d)
  <2>1. w = Append(<<h, a, kind>>, v)
    OBVIOUS
  <2>2. ASSUME w \in KeptOf(Touched(m, evs), Decisions(m, evs)) PROVE FALSE
    BY <2>1, <2>2, KeptShown DEF KeptIf
  <2>3. QED BY <1>3, <2>2
<1>7. (w \in DOMAIN values' <=> w \in DOMAIN values) /\ (w \in DOMAIN values => values'[w] = values[w])
  BY <1>4, <1>6 DEF Saved
<1>8. (k \in DOMAIN keys' <=> k \in DOMAIN keys) /\ (k \in DOMAIN keys => keys'[k] = keys[k])
  BY <1>4, <1>5 DEF Saved
<1>9. QED BY <1>1, <1>2, <1>7, <1>8 DEF LearntTrue

LEMMA ValuesAfter ==
  ASSUME BatchesKnown, KeysTyped, ValuesTrue, NEW m \in Hosts, NEW evs \in NewBatches, Arrives(m, evs)
  PROVE  ValuesTrue'
<1>1. ASSUME NEW h \in Hosts, NEW a, NEW kind, NEW v
      PROVE  LearntTrue(<<h, a, kind>>, Append(<<h, a, kind>>, v), BatchTimes(h, a, kind, v))'
  <2>1. PICK k, w : k = <<h, a, kind>> /\ w = Append(k, v)
    OBVIOUS
  <2>2. CASE h = m
    BY <2>1, <2>2, LearntAfter
  <2>3. CASE h # m
    BY <2>1, <2>3, LearntElsewhere
  <2>4. QED BY <2>2, <2>3
<1>2. QED BY <1>1, Zenon DEF ValuesTrue

\* What a batch signals bears its number.
LEMMA SignalsAfter ==
  ASSUME BatchesKnown, SignalsPast, NEW m \in Hosts, NEW evs \in NewBatches, Arrives(m, evs)
  PROVE  SignalsPast'
<1>1. PICK T, d, n : T = Touched(m, evs) /\ d = Decisions(m, evs) /\ n = Len(batches[m])
  OBVIOUS
<1>2. Saved(m, T, d)
  BY <1>1, BaselinesSaved DEF Arrives, Decisions
<1>3. \A k \in T : k[1] = m
  BY <1>1, TouchedKeys DEF BatchesKnown
<1>4. \A x \in SignalsOf(m, T, d) : x.key[1] = m /\ x.batch = n + 1
  BY <1>1, <1>3 DEF SignalsOf
<1>5. n \in Nat /\ Len(batches'[m]) = n + 1 /\ \A h \in Hosts \ {m} : batches'[h] = batches[h]
  BY <1>1, BatchesAfter
<1>6. ASSUME NEW h \in Hosts, NEW x \in anomalies', x.key[1] = h PROVE x.batch \in 1 .. Len(batches'[h])
  <2>1. CASE x \in anomalies
    <3>1. x.batch \in 1 .. Len(batches[h])
      BY <1>6, <2>1 DEF SignalsPast
    <3>2. CASE h = m
      BY <1>1, <3>1, <3>2, <1>5
    <3>3. CASE h # m
      BY <1>5, <3>1, <3>3
    <3>4. QED BY <3>2, <3>3
  <2>2. CASE x \in SignalsOf(m, T, d)
    BY <1>4, <1>5, <1>6, <2>2
  <2>3. QED BY <1>2, <2>1, <2>2 DEF Saved
<1>7. QED BY <1>6 DEF SignalsPast

LEMMA BaselinesAlways ==
  InventoryInit /\ [][InventoryNext]_inventoryVars => []BaselinesTrue
<1>1. InventoryInit => BaselinesTrue
  <2> SUFFICES ASSUME InventoryInit PROVE BaselinesTrue
    OBVIOUS
  <2>1. limit \in Limits /\ batches = [m \in Hosts |-> <<>>] /\ agents = <<>> /\ values = <<>> /\ keys = <<>> /\ anomalies = {}
    BY DEF InventoryInit, TablesInit
  <2>2. DOMAIN agents = {} /\ DOMAIN values = {} /\ DOMAIN keys = {}
    BY <2>1
  <2>3. \A m \in Hosts : DOMAIN batches[m] = {}
    BY <2>1
  <2>4. BatchesKnown
    BY <2>1 DEF BatchesKnown
  <2>5. KeysTyped /\ SignalsPast
    BY <2>1, <2>2 DEF KeysTyped, SignalsPast
  <2>6. AgentsTrue
    BY <2>2, <2>3 DEF AgentsTrue, AgentTrue, AgentTimes
  <2>7. ValuesTrue
    BY <2>2, <2>3 DEF ValuesTrue, LearntTrue, BatchTimes
  <2>8. QED BY <2>4, <2>5, <2>6, <2>7 DEF BaselinesTrue
<1>2. BaselinesTrue /\ [InventoryNext]_inventoryVars => BaselinesTrue'
  <2> SUFFICES ASSUME BaselinesTrue, [InventoryNext]_inventoryVars PROVE BaselinesTrue'
    OBVIOUS
  <2>1. BatchesKnown /\ KeysTyped /\ SignalsPast /\ AgentsTrue /\ ValuesTrue
    BY DEF BaselinesTrue
  <2>2. SameTables \/ (Prune /\ limit' = limit) \/ \E m \in Hosts : \E evs \in NewBatches : Arrives(m, evs)
    BY <2>1, TableSteps
  <2>3. ASSUME limit' = limit, UNCHANGED <<batches, agents, values, keys>>, anomalies' \subseteq anomalies PROVE BaselinesTrue'
    <3>1. BatchesKnown'
      BY <2>1, <2>3 DEF BatchesKnown, NewBatches
    <3>2. KeysTyped' /\ SignalsPast'
      BY <2>1, <2>3 DEF KeysTyped, SignalsPast
    <3>3. AgentsTrue'
      <4>1. ASSUME NEW m \in Hosts, NEW a PROVE AgentTrue(m, a)'
        BY <2>3, <2>1 DEF AgentTimes, AgentsTrue, AgentTrue
      <4>2. QED BY <4>1, Zenon DEF AgentsTrue
    <3>4. ValuesTrue'
      <4>1. ASSUME NEW m \in Hosts, NEW a, NEW kind, NEW v
            PROVE  LearntTrue(<<m, a, kind>>, Append(<<m, a, kind>>, v), BatchTimes(m, a, kind, v))'
        <5>1. BatchTimes(m, a, kind, v)' = BatchTimes(m, a, kind, v)
          BY <2>3 DEF BatchTimes
        <5>2. PICK k, w : k = <<m, a, kind>> /\ w = Append(<<m, a, kind>>, v)
          OBVIOUS
        <5>3. LearntTrue(k, w, BatchTimes(m, a, kind, v))
          BY <2>1, <5>2 DEF ValuesTrue
        <5>4. LearntTrue(k, w, BatchTimes(m, a, kind, v))'
          BY <2>3, <5>1, <5>3 DEF LearntTrue
        <5>5. QED BY <5>2, <5>4
      <4>2. QED BY <4>1, Zenon DEF ValuesTrue
    <3>5. QED BY <3>1, <3>2, <3>3, <3>4 DEF BaselinesTrue
  <2>4. CASE SameTables
    BY <2>3, <2>4 DEF SameTables, tableVars
  <2>5. CASE Prune /\ limit' = limit
    BY <2>3, <2>5 DEF Prune, PruneAnomalies
  <2>6. ASSUME NEW m \in Hosts, NEW evs \in NewBatches, Arrives(m, evs) PROVE BaselinesTrue'
    BY <2>1, <2>6, BatchesAfter, KeysAfter, SignalsAfter, AgentsAfter, ValuesAfter DEF BaselinesTrue
  <2>7. QED BY <2>2, <2>4, <2>5, <2>6
<1>3. QED BY <1>1, <1>2, PTL

-----------------------------------------------------------------------------
(* What a batch announces.                                                 *)

\* It is unseen for the window exactly when no batch began to show it since.
LEMMA Unseen ==
  ASSUME NEW w, NEW at \in Nat, NEW times \in SUBSET Nat,
         IF w \in DOMAIN values THEN values[w].last \in times /\ \A t \in times : t <= values[w].last ELSE times = {}
  PROVE  (\A t \in times : t + Window < at) <=> (w \in DOMAIN values => at > values[w].last + Window)
<1>1. Window \in Nat
  BY InventoryAssumption
<1>2. CASE w \in DOMAIN values
  <2>1. PICK l : l = values[w].last
    OBVIOUS
  <2>2. l \in times /\ l \in Nat /\ \A t \in times : t \in Nat /\ t <= l
    BY <1>2, <2>1
  <2>3. (\A t \in times : t + Window < at) <=> at > l + Window
    BY <1>1, <2>2
  <2>4. QED BY <1>2, <2>1, <2>3
<1>3. CASE w \notin DOMAIN values
  BY <1>3
<1>4. QED BY <1>2, <1>3

\* The times of the property are those of the invariant.
ShownBefore(m, k, v) ==
  {Min(ShownAt(batches[m][b], k, v)) : b \in {x \in DOMAIN batches[m] : ShownAt(batches[m][x], k, v) # {}}}

LEMMA ShownSo ==
  ASSUME NEW m, NEW a, NEW kind, NEW v, NEW k, k = <<m, a, kind>>, NEW evs
  PROVE  ShownAt(evs, k, v) = TimesOf(evs, a, kind, v)
<1>1. k[2] = a /\ k[3] = kind
  OBVIOUS
<1>2. QED BY <1>1 DEF ShownAt, TimesOf, Showing

LEMMA ShownThen ==
  ASSUME NEW m, NEW a, NEW kind, NEW v, NEW k, k = <<m, a, kind>>
  PROVE  BatchTimes(m, a, kind, v) = ShownBefore(m, k, v)
<1>1. \A evs : ShownAt(evs, k, v) = TimesOf(evs, a, kind, v)
  BY ShownSo
<1>2. \A evs : TimesOf(evs, a, kind, v) # {} <=> Showing(evs, a, kind, v) # {}
  BY DEF TimesOf
<1>3. QED BY <1>1, <1>2 DEF BatchTimes, ShownBefore

LEMMA CountedThen ==
  ASSUME NEW m, NEW a, NEW evs
  PROVE  {x.at : x \in {y \in evs \cup {z[2] : z \in EventsOf(m)} : Counted(y) /\ y.act.agent = a}}
           = AgentTimes(m, a) \cup CountedTimes(evs, a)
<1>1. PICK D, q : D = DOMAIN batches[m] /\ q = batches[m]
  OBVIOUS
<1>2. \A y : y \in {z[2] : z \in EventsOf(m)} <=> \E b \in D : y \in q[b]
  <2>1. ASSUME NEW z \in EventsOf(m) PROVE \E b \in D : z[2] \in q[b]
    BY <1>1 DEF EventsOf
  <2>2. ASSUME NEW b \in D, NEW y \in q[b] PROVE <<b, y>> \in EventsOf(m)
    <3>1. <<b, y>> \in {<<b, e>> : e \in q[b]}
      OBVIOUS
    <3>2. QED BY <1>1, <3>1, Zenon DEF EventsOf
  <2>3. ASSUME NEW b \in D, NEW y \in q[b] PROVE y \in {z[2] : z \in EventsOf(m)}
    <3>1. <<b, y>> \in EventsOf(m) /\ <<b, y>>[2] = y
      BY <2>2
    <3>2. QED BY <3>1
  <2>4. QED BY <2>1, <2>3
<1>3. AgentTimes(m, a) = UNION {CountedTimes(q[b], a) : b \in D}
  BY <1>1 DEF AgentTimes
<1>4. QED BY <1>2, <1>3 DEF CountedTimes

LEMMA SignalIsTold ==
  ASSUME NEW m, NEW T, NEW d, NEW k \in T, NEW s \in d[k].signals
  PROVE  [batch |-> Len(batches[m]) + 1, key |-> k, value |-> s.value, at |-> s.at] \in SignalsOf(m, T, d)
<1>1. PICK x : x = [batch |-> Len(batches[m]) + 1, key |-> k, value |-> s.value, at |-> s.at]
  OBVIOUS
<1>2. PICK P : P = {[batch |-> Len(batches[m]) + 1, key |-> k, value |-> y.value, at |-> y.at] : y \in d[k].signals}
  OBVIOUS
<1>3. x \in P
  BY <1>1, <1>2
<1>4. P \in {{[batch |-> Len(batches[m]) + 1, key |-> z, value |-> y.value, at |-> y.at] : y \in d[z].signals} : z \in T}
  BY <1>2
<1>5. QED BY <1>1, <1>3, <1>4 DEF SignalsOf

LEMMA SightingAnnounced ==
  ASSUME BaselinesTrue, NEW m \in Hosts, NEW evs \in NewBatches, Arrives(m, evs), NEW e \in evs, NEW sh \in Shows(e)
  PROVE  AnnouncedRight(m, evs, <<m, e.act.agent, sh[1]>>, sh[2])
<1>0. BatchesKnown /\ KeysTyped /\ SignalsPast /\ AgentsTrue /\ ValuesTrue
  BY DEF BaselinesTrue
<1>1. PICK a, kind, v : a = e.act.agent /\ kind = sh[1] /\ v = sh[2]
  OBVIOUS
<1>2. Showing(evs, a, kind, v) # {}
  BY ShowsWhat, <1>1 DEF Showing
<1>3. PICK k, w : k = <<m, a, kind>> /\ w = Append(k, v)
  OBVIOUS
<1>4. PICK s, dec : s = Sighting(evs, a, kind, v) /\ dec = Decision(m, evs, k)
  OBVIOUS
<1>5. /\ k \in Touched(m, evs) /\ k \in DOMAIN keys' /\ keys'[k] = dec.key
      /\ s \in Seen(evs, a, kind) /\ s.value = v
      /\ s.at = Min(TimesOf(evs, a, kind, v)) /\ s.at \in Nat
      /\ Judged(k, agents'[<<m, a>>].first, Before(k), Seen(evs, a, kind), dec)
      /\ Learnt(k, s) <=> w \in DOMAIN values
      /\ w \in DOMAIN values' <=> s \in dec.kept
  <2>1. ValueLeft(m, evs, a, kind, v, k, w, s, dec)
    BY <1>0, <1>2, <1>3, <1>4, ValueAfter
  <2>2. QED BY <2>1 DEF ValueLeft
<1>6. PICK at, times, since, first : /\ at = s.at /\ times = BatchTimes(m, a, kind, v)
                                     /\ since = Min(AgentTimes(m, a) \cup CountedTimes(evs, a))
                                     /\ first = agents'[<<m, a>>].first
  OBVIOUS
<1>7. first = since
  <2>1. AgentTimes(m, a)' = AgentTimes(m, a) \cup CountedTimes(evs, a)
    BY <1>0, TimesAfter
  <2>2. e.at \in CountedTimes(evs, a)
    BY ShowsWhat, <1>1 DEF CountedTimes
  <2>3. AgentTrue(m, a)'
    BY <1>0, AgentsAfter DEF AgentsTrue
  <2>4. AgentTimes(m, a)' # {}
    BY <2>1, <2>2
  <2>5. QED BY <1>6, <2>1, <2>3, <2>4 DEF AgentTrue
<1> DEFINE fresh == (\A t \in times : t + Window < at) /\ at >= since + Warmup
           news  == {x \in anomalies' \ anomalies : x.key = k /\ x.value = v}
           held  == IF k \in DOMAIN keys THEN keys[k].suppressed ELSE 0
<1>8. ASSUME s \in dec.kept PROVE News(k, first, s) <=> fresh
  <2>1. w \in DOMAIN values \/ Before(k).values < Caps[k[3]]
    BY <1>5, <1>8 DEF Judged
  <2>2. IF w \in DOMAIN values THEN values[w].last \in times /\ \A t \in times : t <= values[w].last ELSE times = {}
    BY <1>0, <1>3, <1>5, <1>6, <2>1, KeptBefore
  <2>3. times \in SUBSET Nat /\ at \in Nat
    BY <1>0, <1>5, <1>6, TimesAreTimes
  <2>4. (\A t \in times : t + Window < at) <=> (w \in DOMAIN values => at > values[w].last + Window)
    BY <2>2, <2>3, Unseen
  <2>5. News(k, first, s) <=> (w \in DOMAIN values => at > values[w].last + Window) /\ at >= first + Warmup
    BY <1>3, <1>5, <1>6 DEF News
  <2>6. QED BY <1>7, <2>4, <2>5
<1>9. PICK T, d, n : T = Touched(m, evs) /\ d = Decisions(m, evs) /\ n = Len(batches[m])
  OBVIOUS
<1>10. anomalies' = anomalies \cup SignalsOf(m, T, d) /\ d[k] = dec
  <2>1. Saved(m, T, d)
    BY <1>9, BaselinesSaved DEF Arrives, Decisions
  <2>2. QED BY <1>4, <1>5, <1>9, <2>1 DEF Saved, Decisions
<1>11. \A u \in dec.kept : u.value = v => u = s
  <2>1. \A u \in dec.kept : u \in Seen(evs, a, kind)
    BY <1>5 DEF Judged
  <2>2. limit \in Limits
    BY <1>0 DEF BatchesKnown
  <2>3. QED BY <1>5, <2>1, <2>2, SeenFinite
<1>12. ASSUME NEW x \in news PROVE s \in dec.signals /\ x.at = at
  <2>1. x \in SignalsOf(m, T, d) /\ x.key = k /\ x.value = v
    BY <1>10
  <2>2. \E y \in T : \E u \in d[y].signals : x = [batch |-> n + 1, key |-> y, value |-> u.value, at |-> u.at]
    BY <1>9, <2>1 DEF SignalsOf
  <2>3. PICK u \in d[k].signals : x.value = u.value /\ x.at = u.at
    BY <2>1, <2>2
  <2>4. u \in dec.kept /\ u.value = v
    BY <1>5, <1>10, <2>1, <2>3 DEF Judged
  <2>5. u = s
    BY <1>11, <2>4
  <2>6. QED BY <1>6, <1>10, <2>3, <2>5
<1>13. ASSUME s \in dec.signals PROVE news # {}
  <2>1. PICK x : x = [batch |-> n + 1, key |-> k, value |-> s.value, at |-> s.at]
    OBVIOUS
  <2>2. x \in SignalsOf(m, T, d)
    BY <1>5, <1>9, <1>10, <1>13, SignalIsTold, <2>1
  <2>3. x \notin anomalies
    BY <1>3, <2>1, <1>0, <1>9, BatchesAfter DEF SignalsPast
  <2>4. x.key = k /\ x.value = v
    BY <1>5, <2>1
  <2>5. QED BY <1>10, <2>2, <2>3, <2>4
<1>14. news # {} => fresh /\ s \in dec.kept /\ \A x \in news : x.at = at
  <2>1. ASSUME news # {} PROVE fresh /\ s \in dec.kept
    BY <1>12, <2>1, <1>5, <1>6, <1>8 DEF Judged
  <2>2. QED BY <1>12, <2>1
<1>15. ASSUME fresh, s \in dec.kept, news = {} PROVE keys'[k].suppressed > held
  BY <1>8, <1>13, <1>15, <1>5, <1>6 DEF Judged, Before, NoKey
<1>16. /\ Min(ShownAt(evs, k, v)) = at
       /\ {Min(ShownAt(batches[m][b], k, v)) : b \in {x \in DOMAIN batches[m] : ShownAt(batches[m][x], k, v) # {}}} = times
  <2>1. ShownAt(evs, k, v) = TimesOf(evs, a, kind, v)
    BY <1>3, ShownSo
  <2>2. BatchTimes(m, a, kind, v) = ShownBefore(m, k, v)
    BY <1>3, ShownThen
  <2>3. QED BY <1>5, <1>6, <2>1, <2>2 DEF ShownBefore
<1>17. k[2] = a /\ Min({x.at : x \in {y \in evs \cup {z[2] : z \in EventsOf(m)} : Counted(y) /\ y.act.agent = a}}) = since
  BY <1>3, <1>6, CountedThen
<1>18. w \in DOMAIN values' <=> s \in dec.kept
  BY <1>5
<1>19. AnnouncedRight(m, evs, k, v)
  <2> HIDE DEF fresh, news, held
  <2>1. (news # {} => fresh /\ w \in DOMAIN values' /\ \A x \in news : x.at = at)
        /\ (fresh /\ w \in DOMAIN values' /\ news = {} => keys'[k].suppressed > held)
    BY <1>14, <1>15, <1>18
  <2>2. QED BY <1>3, <1>16, <1>17, <2>1 DEF AnnouncedRight, fresh, news, held
<1>20. QED BY <1>1, <1>3, <1>19

LEMMA StepAnnounced ==
  ASSUME BaselinesTrue, [InventoryNext]_inventoryVars
  PROVE  BatchAnnounced
<1>1. BatchesKnown
  BY DEF BaselinesTrue
<1>2. ASSUME NEW m \in Hosts, Len(batches'[m]) > Len(batches[m]),
             NEW e \in batches'[m][Len(batches'[m])], NEW sh \in Shows(e)
      PROVE  AnnouncedRight(m, batches'[m][Len(batches'[m])], <<m, e.act.agent, sh[1]>>, sh[2])
  <2>1. Len(batches[m]) \in Nat
    BY <1>1 DEF BatchesKnown
  <2>2. batches'[m] # batches[m]
    BY <1>2, <2>1
  <2>3. \E h \in Hosts : \E evs \in NewBatches : Arrives(h, evs)
    BY <2>2, <1>1, TableSteps DEF SameTables, tableVars, Prune, PruneAnomalies
  <2>4. PICK h \in Hosts : \E evs \in NewBatches : Arrives(h, evs)
    BY <2>3
  <2>5. PICK evs \in NewBatches : Arrives(h, evs)
    BY <2>4
  <2>6. h = m
    BY <1>1, <2>2, <2>5, BatchesAfter
  <2>7. batches'[m][Len(batches'[m])] = evs
    BY <1>1, <2>5, <2>6, BatchesAfter
  <2>8. AnnouncedRight(m, evs, <<m, e.act.agent, sh[1]>>, sh[2])
    BY <1>2, <2>5, <2>6, <2>7, SightingAnnounced
  <2>9. QED BY <2>7, <2>8
<1>3. QED BY <1>2, Zenon DEF BatchAnnounced

\* Every sighting is announced as first seen exactly when it is one.
THEOREM FirstSeenIsExact == InventorySpec => FirstSeenExact
<1>1. BaselinesTrue /\ [InventoryNext]_inventoryVars => [BatchAnnounced]_inventoryVars
  BY StepAnnounced
<1>2. QED BY <1>1, BaselinesAlways, PTL DEF InventorySpec, FirstSeenExact

-----------------------------------------------------------------------------
(* The events of all machines, and one batch more.                         *)

History == UNION {{<<m, x[1], x[2]>> : x \in EventsOf(m)} : m \in Hosts}
NewEvents(m, n, evs) == {<<m, n, e>> : e \in evs}

LEMMA StoredIs ==
  ASSUME NEW t
  PROVE  t \in History <=> \E m \in Hosts : \E b \in DOMAIN batches[m] : \E e \in batches[m][b] : t = <<m, b, e>>
<1>1. ASSUME t \in History PROVE \E m \in Hosts : \E b \in DOMAIN batches[m] : \E e \in batches[m][b] : t = <<m, b, e>>
  <2>1. PICK m \in Hosts : \E x \in EventsOf(m) : t = <<m, x[1], x[2]>>
    BY <1>1 DEF History
  <2>2. PICK x \in EventsOf(m) : t = <<m, x[1], x[2]>>
    BY <2>1
  <2>3. PICK b \in DOMAIN batches[m] : \E e \in batches[m][b] : x = <<b, e>>
    BY DEF EventsOf
  <2>4. QED BY <2>2, <2>3
<1>2. ASSUME NEW m \in Hosts, NEW b \in DOMAIN batches[m], NEW e \in batches[m][b], t = <<m, b, e>> PROVE t \in History
  <2>1. <<b, e>> \in EventsOf(m)
    BY DEF EventsOf
  <2>2. PICK x \in EventsOf(m) : x = <<b, e>>
    BY <2>1
  <2>3. t = <<m, x[1], x[2]>>
    BY <1>2, <2>2
  <2>4. QED BY <2>3 DEF History
<1>3. QED BY <1>1, <1>2

LEMMA StoredTyped ==
  ASSUME BatchesKnown, NEW t \in History
  PROVE  t = <<t[1], t[2], t[3]>> /\ t[1] \in Hosts /\ t[3] \in LimitEvents /\ t[3].at \in Nat
<1>1. PICK m \in Hosts : \E b \in DOMAIN batches[m] : \E e \in batches[m][b] : t = <<m, b, e>>
  BY StoredIs
<1>2. PICK b \in DOMAIN batches[m] : \E e \in batches[m][b] : t = <<m, b, e>>
  BY <1>1
<1>3. PICK e \in batches[m][b] : t = <<m, b, e>>
  BY <1>2
<1>4. limit \in Limits /\ batches[m][b] \in NewBatches
  BY DEF BatchesKnown
<1>5. e \in LimitEvents
  BY <1>4, BatchOfTwo
<1>6. e.at \in Nat
  BY <1>4, <1>5, EventsAre
<1>7. QED BY <1>3, <1>5, <1>6

LEMMA StoredAfter ==
  ASSUME BatchesKnown, NEW m \in Hosts, NEW evs \in NewBatches, Arrives(m, evs), NEW n, n = Len(batches[m]) + 1
  PROVE  /\ History' = History \cup NewEvents(m, n, evs)
         /\ \A t \in History : t[1] = m => t[2] # n
<1>1. /\ \A h \in Hosts \ {m} : batches'[h] = batches[h]
      /\ Len(batches[m]) \in Nat /\ DOMAIN batches[m] = 1 .. Len(batches[m])
      /\ DOMAIN batches'[m] = DOMAIN batches[m] \cup {n}
      /\ batches'[m][n] = evs
      /\ \A b \in DOMAIN batches[m] : batches'[m][b] = batches[m][b]
  BY BatchesAfter
<1>2. \A t \in History : t[1] = m => t[2] # n
  BY <1>1, StoredIs
<1>3. ASSUME NEW t PROVE t \in History' <=> \E h \in Hosts : \E b \in DOMAIN batches'[h] : \E e \in batches'[h][b] : t = <<h, b, e>>
  <2>1. ASSUME t \in History' PROVE \E h \in Hosts : \E b \in DOMAIN batches'[h] : \E e \in batches'[h][b] : t = <<h, b, e>>
    <3>1. PICK h \in Hosts : \E x \in EventsOf(h)' : t = <<h, x[1], x[2]>>
      BY <2>1 DEF History
    <3>2. PICK x \in EventsOf(h)' : t = <<h, x[1], x[2]>>
      BY <3>1
    <3>3. PICK b \in DOMAIN batches'[h] : \E e \in batches'[h][b] : x = <<b, e>>
      BY DEF EventsOf
    <3>4. QED BY <3>2, <3>3
  <2>2. ASSUME NEW h \in Hosts, NEW b \in DOMAIN batches'[h], NEW e \in batches'[h][b], t = <<h, b, e>> PROVE t \in History'
    <3>1. <<b, e>> \in EventsOf(h)'
      BY DEF EventsOf
    <3>2. PICK x \in EventsOf(h)' : x = <<b, e>>
      BY <3>1
    <3>3. t = <<h, x[1], x[2]>>
      BY <2>2, <3>2
    <3>4. QED BY <3>3 DEF History
  <2>3. QED BY <2>1, <2>2
<1>4. ASSUME NEW t \in History' PROVE t \in History \cup NewEvents(m, n, evs)
  <2>1. PICK h \in Hosts : \E b \in DOMAIN batches'[h] : \E e \in batches'[h][b] : t = <<h, b, e>>
    BY <1>3
  <2>2. PICK b \in DOMAIN batches'[h] : \E e \in batches'[h][b] : t = <<h, b, e>>
    BY <2>1
  <2>3. PICK e \in batches'[h][b] : t = <<h, b, e>>
    BY <2>2
  <2>4. CASE h = m /\ b = n
    BY <1>1, <2>3, <2>4 DEF NewEvents
  <2>5. CASE ~(h = m /\ b = n)
    BY <1>1, <2>5, <2>3, StoredIs
  <2>6. QED BY <2>4, <2>5
<1>5. ASSUME NEW t \in History PROVE t \in History'
  <2>1. PICK h \in Hosts : \E b \in DOMAIN batches[h] : \E e \in batches[h][b] : t = <<h, b, e>>
    BY StoredIs
  <2>2. PICK b \in DOMAIN batches[h] : \E e \in batches[h][b] : t = <<h, b, e>>
    BY <2>1
  <2>3. b \in DOMAIN batches'[h] /\ batches'[h][b] = batches[h][b]
    BY <1>1
  <2>4. QED BY <1>3, <2>2, <2>3
<1>6. ASSUME NEW e \in evs PROVE <<m, n, e>> \in History'
  BY <1>1, <1>3
<1>7. QED BY <1>2, <1>4, <1>5, <1>6 DEF NewEvents

\* As many tagged events as events.
LEMMA TaggedAre ==
  ASSUME NEW m, NEW n, NEW evs, IsFiniteSet(evs)
  PROVE  IsFiniteSet(NewEvents(m, n, evs)) /\ Cardinality(NewEvents(m, n, evs)) = Cardinality(evs)
<1> DEFINE N == NewEvents(m, n, evs)
           f == [e \in evs |-> <<m, n, e>>]
<1>1. f \in [evs -> N]
  BY DEF NewEvents
<1>2. \A e, x \in evs : f[e] = f[x] => e = x
  OBVIOUS
<1>3. \A t \in N : \E e \in evs : f[e] = t
  BY DEF NewEvents
<1> HIDE DEF f, N
<1>4. f \in Bijection(evs, N)
  BY <1>1, <1>2, <1>3 DEF Bijection, Injection, Surjection, IsInjective
<1>5. ExistsBijection(evs, N)
  BY <1>4 DEF ExistsBijection
<1>6. IsFiniteSet(N) /\ Cardinality(N) = Cardinality(evs)
  BY <1>5, FS_Bijection
<1>7. QED BY <1>6 DEF N

\* Counts after a batch: those before, and its own.
Counts(m, n, X, Y) ==
  /\ IsFiniteSet(X) /\ IsFiniteSet(Y) /\ IsFiniteSet(X \cup NewEvents(m, n, Y))
  /\ Cardinality(X) \in Nat /\ Cardinality(Y) \in Nat
  /\ Cardinality(X \cup NewEvents(m, n, Y)) = Cardinality(X) + Cardinality(Y)

LEMMA CountAfter ==
  ASSUME BatchesKnown, IsFiniteSet(History), NEW m \in Hosts, NEW evs \in NewBatches, NEW n,
         \A t \in History : t[1] = m => t[2] # n,
         NEW X \in SUBSET History, NEW Y \in SUBSET evs
  PROVE  Counts(m, n, X, Y)
<1>1. IsFiniteSet(X) /\ IsFiniteSet(Y)
  BY BatchOfTwo, FS_Subset
<1>2. IsFiniteSet(NewEvents(m, n, Y)) /\ Cardinality(NewEvents(m, n, Y)) = Cardinality(Y)
  BY <1>1, TaggedAre
<1>3. X \cap NewEvents(m, n, Y) = {}
  BY DEF NewEvents
<1>4. /\ IsFiniteSet(X \cup NewEvents(m, n, Y))
      /\ Cardinality(X \cup NewEvents(m, n, Y)) = Cardinality(X) + Cardinality(NewEvents(m, n, Y)) - Cardinality(X \cap NewEvents(m, n, Y))
  BY <1>1, <1>2, FS_Union
<1>5. Cardinality({}) = 0 /\ Cardinality(X) \in Nat /\ Cardinality(Y) \in Nat
  BY <1>1, FS_EmptySet, FS_CardinalityType
<1>6. PICK x, y, u : x = Cardinality(X) /\ y = Cardinality(Y) /\ u = Cardinality(X \cup NewEvents(m, n, Y))
  OBVIOUS
<1>7. x \in Nat /\ y \in Nat /\ u = x + y - 0
  BY <1>2, <1>3, <1>4, <1>5, <1>6
<1>8. u = x + y
  BY <1>7
<1>9. QED BY <1>1, <1>4, <1>5, <1>6, <1>8 DEF Counts

LEMMA FiniteAfter ==
  ASSUME BatchesKnown, IsFiniteSet(History), NEW m \in Hosts, NEW evs \in NewBatches, Arrives(m, evs)
  PROVE  IsFiniteSet(History')
<1>1. PICK n : n = Len(batches[m]) + 1
  OBVIOUS
<1>2. PICK S : S = History
  OBVIOUS
<1>3. History' = S \cup NewEvents(m, n, evs) /\ \A t \in History : t[1] = m => t[2] # n
  BY <1>1, <1>2, StoredAfter
<1>4. IsFiniteSet(S \cup NewEvents(m, n, evs))
  BY <1>2, BatchOfTwo, TaggedAre, FS_Union
<1>5. QED BY <1>3, <1>4

-----------------------------------------------------------------------------
(* The rows that count.                                                    *)

LEMMA SumSetIs ==
  ASSUME NEW D, IsFiniteSet(D)
  PROVE  \E g : Sums(g, [x \in D |-> x], D) /\ SumSet(D) = g[D]
<1> DEFINE Is(g) == g = [s \in SUBSET D |-> IF s = {} THEN 0 ELSE (CHOOSE x \in s : TRUE) + g[s \ {CHOOSE x \in s : TRUE}]]
           g == CHOOSE g : Is(g)
           f == [x \in D |-> x]
<1>1. SumSet(D) = g[D]
  BY DEF SumSet, FoldSet, MapThenFoldSet
<1>2. ASSUME NEW h PROVE Is(h) <=> Sums(h, f, D)
  <2>1. \A s \in SUBSET D : (IF s = {} THEN 0 ELSE (CHOOSE x \in s : TRUE) + h[s \ {CHOOSE x \in s : TRUE}]) = Added(f, h, s)
    <3>1. ASSUME NEW s \in SUBSET D, s # {} PROVE f[Picked(s)] = Picked(s)
      BY <3>1 DEF Picked
    <3> HIDE DEF f
    <3>2. ASSUME NEW s \in SUBSET D, s # {}
          PROVE  (CHOOSE x \in s : TRUE) + h[s \ {CHOOSE x \in s : TRUE}] = Added(f, h, s)
      <4>1. Added(f, h, s) = f[Picked(s)] + h[s \ {Picked(s)}]
        BY <3>2, Zenon DEF Added
      <4>2. QED BY <3>1, <3>2, <4>1, Zenon DEF Picked
    <3>3. Added(f, h, {}) = 0
      BY DEF Added
    <3>4. QED BY <3>2, <3>3, Zenon
  <2>2. [s \in SUBSET D |-> IF s = {} THEN 0 ELSE (CHOOSE x \in s : TRUE) + h[s \ {CHOOSE x \in s : TRUE}]]
          = [s \in SUBSET D |-> Added(f, h, s)]
    BY <2>1, Zenon
  <2>3. QED BY <2>2, Zenon DEF Sums
<1>3. \E h : Is(h)
  <2> HIDE DEF Is
  <2>1. QED BY <1>2, SumsExist
<1> HIDE DEF Is
<1>4. Is(g)
  BY <1>3
<1> HIDE DEF g
<1>5. QED BY <1>1, <1>2, <1>4

LEMMA SumSetOne ==
  ASSUME NEW n \in Int
  PROVE  SumSet({n}) = n
<1>1. IsFiniteSet({n})
  BY FS_EmptySet, FS_AddElement
<1>2. PICK f : f = [x \in {n} |-> x]
  OBVIOUS
<1>3. PICK g : Sums(g, f, {n}) /\ SumSet({n}) = g[{n}]
  BY <1>1, <1>2, SumSetIs
<1>4. f[n] = n /\ \A x \in {n} : f[x] \in Int
  BY <1>2
<1>5. Tabled(g, f, {n})
  BY <1>1, <1>3, <1>4, SumTable
<1>6. g[{n}] = f[n] + g[{n} \ {n}] /\ g[{n}] \in Int
  BY <1>5 DEF Tabled
<1>7. g[{}] = 0
  BY <1>3 DEF Sums, Added
<1>8. {n} \ {n} = {}
  OBVIOUS
<1>9. QED BY <1>3, <1>4, <1>6, <1>7, <1>8

LEMMA SumSetNone == SumSet({}) = 0
<1>1. PICK g : Sums(g, [x \in {} |-> x], {}) /\ SumSet({}) = g[{}]
  BY FS_EmptySet, SumSetIs
<1>2. g[{}] = 0
  BY <1>1 DEF Sums, Added
<1>3. QED BY <1>1, <1>2

\* A row of a table counts the events X, and then those of Y too.
RowTrue(table, k, X) == IF X = {} THEN k \notin DOMAIN table ELSE k \in DOMAIN table /\ table[k] = Cardinality(X)
RowStep(table, next, ks, k, Y) ==
  /\ DOMAIN next = DOMAIN table \cup ks /\ (k \in ks <=> Y # {})
  /\ k \in ks => next[k] = SumSet({r : r \in Row(table, k)}) + Cardinality(Y)
  /\ k \in DOMAIN table \ ks => next[k] = table[k]

LEMMA RowAfter ==
  ASSUME NEW table, NEW next, NEW ks, NEW k, NEW m, NEW n, NEW X, NEW Y, Counts(m, n, X, Y),
         RowTrue(table, k, X), RowStep(table, next, ks, k, Y)
  PROVE  RowTrue(next, k, X \cup NewEvents(m, n, Y))
<1>1. PICK x, y : x = Cardinality(X) /\ y = Cardinality(Y)
  OBVIOUS
<1>2. x \in Int /\ y \in Int /\ Cardinality(X \cup NewEvents(m, n, Y)) = x + y
  BY <1>1 DEF Counts
<1>3. CASE Y = {}
  BY <1>3 DEF NewEvents, RowTrue, RowStep
<1>4. CASE Y # {}
  <2>1. X \cup NewEvents(m, n, Y) # {} /\ k \in ks /\ k \in DOMAIN next
    BY <1>4 DEF NewEvents, RowStep
  <2>2. SumSet({r : r \in Row(table, k)}) = x
    <3>1. CASE X = {}
      BY <1>1, <3>1, FS_EmptySet, SumSetNone DEF Row, RowTrue
    <3>2. CASE X # {}
      BY <1>1, <3>2, <1>2, SumSetOne DEF Row, RowTrue
    <3>3. QED BY <3>1, <3>2
  <2>3. next[k] = x + y
    BY <1>1, <2>1, <2>2 DEF RowStep
  <2>4. QED BY <1>2, <2>1, <2>3 DEF RowTrue
<1>5. QED BY <1>3, <1>4

\* The stored events that a row counts.
ActivityOf(k) == {t \in History : Counted(t[3]) /\ ActivityRow(t[1], t[3]) = k}
ActivityTrue == \A k : RowTrue(activity, k, ActivityOf(k))

LEMMA ActivityAfter ==
  ASSUME BatchesKnown, IsFiniteSet(History), ActivityTrue, NEW m \in Hosts, NEW evs \in NewBatches, Arrives(m, evs)
  PROVE  ActivityTrue'
<1> DEFINE ks == {ActivityRow(m, e) : e \in {x \in evs : Counted(x)}}
           mine(k) == {e \in evs : Counted(e) /\ ActivityRow(m, e) = k}
<1>1. PICK n : n = Len(batches[m]) + 1
  OBVIOUS
<1>2. History' = History \cup NewEvents(m, n, evs) /\ \A t \in History : t[1] = m => t[2] # n
  BY <1>1, StoredAfter
<1>3. /\ DOMAIN activity' = DOMAIN activity \cup ks
      /\ \A k \in ks : activity'[k] = SumSet({r : r \in Row(activity, k)}) + Cardinality(mine(k))
      /\ \A k \in DOMAIN activity \ ks : activity'[k] = activity[k]
  BY DEF Arrives, RollupActivity, Upsert, Count
<1>4. ASSUME NEW k PROVE RowTrue(activity', k, ActivityOf(k)')
  <2>1. PICK X, Y, old, new, rows : X = ActivityOf(k) /\ Y = mine(k) /\ old = activity /\ new = activity' /\ rows = ks
    OBVIOUS
  <2>2. ActivityOf(k)' = X \cup NewEvents(m, n, Y)
    BY <1>2, <2>1 DEF ActivityOf, NewEvents
  <2>3. X \in SUBSET History /\ Y \in SUBSET evs /\ (k \in ks <=> Y # {})
    BY <2>1 DEF ActivityOf
  <2>4. Counts(m, n, X, Y)
    BY <1>2, <2>3, CountAfter
  <2>5. RowTrue(old, k, X)
    BY <2>1, Zenon DEF ActivityTrue
  <2>6. RowStep(old, new, rows, k, Y)
    BY <1>3, <2>1, <2>3 DEF RowStep
  <2>7. RowTrue(new, k, X \cup NewEvents(m, n, Y))
    BY <2>4, <2>5, <2>6, RowAfter
  <2>8. QED BY <2>1, <2>2, <2>7
<1>5. QED BY <1>4, Zenon DEF ActivityTrue, RowTrue

OutcomesOf(k) == {t \in History : IsOutcome(t[3]) /\ OutcomeRow(t[1], t[3]) = k}
OutcomesTrue == \A k : RowTrue(outcomes, k, OutcomesOf(k))

LEMMA OutcomesAfter ==
  ASSUME BatchesKnown, IsFiniteSet(History), OutcomesTrue, NEW m \in Hosts, NEW evs \in NewBatches, Arrives(m, evs)
  PROVE  OutcomesTrue'
<1> DEFINE ks == {OutcomeRow(m, e) : e \in {x \in evs : IsOutcome(x)}}
           mine(k) == {e \in evs : IsOutcome(e) /\ OutcomeRow(m, e) = k}
<1>1. PICK n : n = Len(batches[m]) + 1
  OBVIOUS
<1>2. History' = History \cup NewEvents(m, n, evs) /\ \A t \in History : t[1] = m => t[2] # n
  BY <1>1, StoredAfter
<1>3. /\ DOMAIN outcomes' = DOMAIN outcomes \cup ks
      /\ \A k \in ks : outcomes'[k] = SumSet({r : r \in Row(outcomes, k)}) + Cardinality(mine(k))
      /\ \A k \in DOMAIN outcomes \ ks : outcomes'[k] = outcomes[k]
  BY DEF Arrives, RollupOutcomes, Upsert, Count
<1>4. ASSUME NEW k PROVE RowTrue(outcomes', k, OutcomesOf(k)')
  <2>1. PICK X, Y, old, new, rows : X = OutcomesOf(k) /\ Y = mine(k) /\ old = outcomes /\ new = outcomes' /\ rows = ks
    OBVIOUS
  <2>2. OutcomesOf(k)' = X \cup NewEvents(m, n, Y)
    BY <1>2, <2>1 DEF OutcomesOf, NewEvents
  <2>3. X \in SUBSET History /\ Y \in SUBSET evs /\ (k \in ks <=> Y # {})
    BY <2>1 DEF OutcomesOf
  <2>4. Counts(m, n, X, Y)
    BY <1>2, <2>3, CountAfter
  <2>5. RowTrue(old, k, X)
    BY <2>1, Zenon DEF OutcomesTrue
  <2>6. RowStep(old, new, rows, k, Y)
    BY <1>3, <2>1, <2>3 DEF RowStep
  <2>7. RowTrue(new, k, X \cup NewEvents(m, n, Y))
    BY <2>4, <2>5, <2>6, RowAfter
  <2>8. QED BY <2>1, <2>2, <2>7
<1>5. QED BY <1>4, Zenon DEF OutcomesTrue, RowTrue

\* A column of a row: what was counted, or first or last seen, and what comes.
LEMMA SumAfter ==
  ASSUME NEW m, NEW n, NEW X, NEW Y, Counts(m, n, X, Y),
         NEW col, (col = {Cardinality(X)}) \/ (col = {} /\ X = {})
  PROVE  SumSet(col) + Cardinality(Y) = Cardinality(X \cup NewEvents(m, n, Y))
<1>1. PICK x : x = Cardinality(X)
  OBVIOUS
<1>2. x \in Int /\ Cardinality(X \cup NewEvents(m, n, Y)) = x + Cardinality(Y)
  BY <1>1 DEF Counts
<1>3. SumSet(col) = x
  <2>1. CASE col = {x}
    BY <1>2, <2>1, SumSetOne
  <2>2. CASE col = {} /\ X = {}
    BY <1>1, <2>2, FS_EmptySet, SumSetNone
  <2>3. QED BY <1>1, <2>1, <2>2
<1>4. QED BY <1>2, <1>3

LEMMA MinAfter ==
  ASSUME NEW A \in SUBSET Nat, NEW B \in SUBSET Nat, NEW col, (A # {} /\ col = {Min(A)}) \/ (col = {} /\ A = {})
  PROVE  Min(col \cup B) = Min(A \cup B)
<1>1. CASE A # {} /\ col = {Min(A)}
  BY <1>1, MinUnion
<1>2. CASE col = {} /\ A = {}
  BY <1>2
<1>3. QED BY <1>1, <1>2

Latests(S) == {n \in S : \A k \in S : k <= n}

LEMMA MaxAfter ==
  ASSUME NEW A \in SUBSET Nat, NEW B \in SUBSET Nat, Latests(B) # {},
         NEW col, (\E l \in Latests(A) : col = {l}) \/ (col = {} /\ A = {})
  PROVE  Max(col \cup B) \in Latests(A \cup B)
<1>1. PICK b \in B : \A k \in B : k <= b
  BY DEF Latests
<1>2. CASE col = {} /\ A = {}
  BY <1>1, MaxIs, <1>2 DEF Latests
<1>3. CASE \E l \in Latests(A) : col = {l}
  <2>1. PICK l \in Latests(A) : col = {l}
    BY <1>3
  <2>2. l \in A /\ l \in Nat /\ b \in Nat /\ \A k \in A : k <= l
    BY DEF Latests
  <2>3. CASE l <= b
    BY <1>1, <2>3, <2>2, MaxIs, <2>1 DEF Latests
  <2>4. CASE b <= l
    BY <1>1, <2>2, <2>4, MaxIs, <2>1 DEF Latests
  <2>5. QED BY <2>2, <2>3, <2>4
<1>4. QED BY <1>2, <1>3

TimesIn(X) == {t[3].at : t \in X}
TimesNew(Y) == {e.at : e \in Y}

LEMMA TimesInAfter ==
  ASSUME NEW m, NEW n, NEW X, NEW Y
  PROVE  TimesIn(X \cup NewEvents(m, n, Y)) = TimesIn(X) \cup TimesNew(Y)
<1>1. ASSUME NEW t \in NewEvents(m, n, Y) PROVE t[3] \in Y
  BY DEF NewEvents
<1>2. ASSUME NEW e \in Y PROVE \E t \in NewEvents(m, n, Y) : t[3] = e
  <2>1. PICK t : t = <<m, n, e>>
    OBVIOUS
  <2>2. t \in NewEvents(m, n, Y) /\ t[3] = e
    BY <2>1 DEF NewEvents
  <2>3. QED BY <2>2
<1>3. TimesIn(X \cup NewEvents(m, n, Y)) \subseteq TimesIn(X) \cup TimesNew(Y)
  BY <1>1 DEF TimesIn, TimesNew
<1>4. TimesIn(X) \subseteq TimesIn(X \cup NewEvents(m, n, Y))
  BY DEF TimesIn
<1>5. ASSUME NEW e \in Y PROVE e.at \in TimesIn(X \cup NewEvents(m, n, Y))
  <2>1. PICK t \in NewEvents(m, n, Y) : t[3] = e
    BY <1>2
  <2>2. PICK S : S = X \cup NewEvents(m, n, Y)
    OBVIOUS
  <2>3. t \in S /\ t[3].at = e.at
    BY <2>1, <2>2
  <2>4. e.at \in TimesIn(S)
    BY <2>3 DEF TimesIn
  <2>5. QED BY <2>2, <2>4
<1>6. QED BY <1>3, <1>4, <1>5 DEF TimesNew

LEMMA TimesOfSome ==
  ASSUME BatchesKnown, NEW evs \in NewBatches, NEW X \in SUBSET History, NEW Y \in SUBSET evs
  PROVE  TimesIn(X) \in SUBSET Nat /\ TimesNew(Y) \in SUBSET Nat
<1>1. \A t \in History : t[3].at \in Nat
  BY StoredTyped
<1>2. \A e \in evs : e.at \in Nat
  BY BatchOfTwo, EventsAre DEF BatchesKnown
<1>3. QED BY <1>1, <1>2 DEF TimesIn, TimesNew

\* Some event of a batch is its latest.
LEMMA HasLatest ==
  ASSUME BatchesKnown, NEW evs \in NewBatches, NEW Y \in SUBSET evs, Y # {}
  PROVE  \E e \in Y : \A x \in Y : x.at <= e.at
<1>1. IsFiniteSet(Y)
  BY BatchOfTwo, FS_Subset
<1>2. \A e \in Y : e.at \in Nat
  BY BatchOfTwo, EventsAre DEF BatchesKnown
<1> DEFINE f == [e \in Y |-> e.at]
<1>3. \A e \in Y : f[e] \in Int /\ f[e] = e.at
  BY <1>2
<1> HIDE DEF f
<1>4. PICK e \in Y : \A x \in Y : f[x] <= f[e]
  BY <1>1, <1>3, Most
<1>5. QED BY <1>3, <1>4

UsesOf(k)     == {t \in History : Counted(t[3]) /\ ServerOf(t[3]) # 0 /\ ServerRow(t[1], t[3]) = k}
UnlistedOf(X) == {t \in X : t[3].act.unlisted}
UseRow(table, k, X) ==
  IF X = {} THEN k \notin DOMAIN table
  ELSE /\ k \in DOMAIN table
       /\ table[k].events = Cardinality(X) /\ table[k].unlisted = Cardinality(UnlistedOf(X))
       /\ table[k].first = Min(TimesIn(X))
ServersTrue == \A k : UseRow(servers, k, UsesOf(k))

LEMMA ServersAfter ==
  ASSUME BatchesKnown, IsFiniteSet(History), ServersTrue, NEW m \in Hosts, NEW evs \in NewBatches, Arrives(m, evs)
  PROVE  ServersTrue'
<1> DEFINE used == {e \in evs : Counted(e) /\ ServerOf(e) # 0}
           ks == {ServerRow(m, e) : e \in used}
           mine(k) == {e \in used : ServerRow(m, e) = k}
<1>1. PICK n : n = Len(batches[m]) + 1
  OBVIOUS
<1>2. History' = History \cup NewEvents(m, n, evs) /\ \A t \in History : t[1] = m => t[2] # n
  BY <1>1, StoredAfter
<1>3. /\ DOMAIN servers' = DOMAIN servers \cup ks
      /\ \A k \in DOMAIN servers \ ks : servers'[k] = servers[k]
      /\ \A k \in ks :
           /\ servers'[k].first = Min({r.first : r \in Row(servers, k)} \cup TimesNew(mine(k)))
           /\ servers'[k].events = SumSet({r.events : r \in Row(servers, k)}) + Cardinality(mine(k))
           /\ servers'[k].unlisted = SumSet({r.unlisted : r \in Row(servers, k)}) + Cardinality({e \in mine(k) : e.act.unlisted})
  BY DEF Arrives, RollupServers, Upsert, Count, TimesNew
<1>4. ASSUME NEW k PROVE UseRow(servers', k, UsesOf(k)')
  <2>1. PICK X, Y, U, V : X = UsesOf(k) /\ Y = mine(k) /\ U = UnlistedOf(X) /\ V = {e \in Y : e.act.unlisted}
    OBVIOUS
  <2>2. UsesOf(k)' = X \cup NewEvents(m, n, Y)
    BY <1>2, <2>1 DEF UsesOf, NewEvents
  <2>3. X \in SUBSET History /\ Y \in SUBSET evs /\ (k \in ks <=> Y # {})
    BY <2>1 DEF UsesOf
  <2>4. U \in SUBSET History /\ V \in SUBSET evs /\ U \subseteq X
    BY <2>1, <2>3 DEF UnlistedOf
  <2>5. UnlistedOf(X \cup NewEvents(m, n, Y)) = U \cup NewEvents(m, n, V)
    BY <2>1 DEF UnlistedOf, NewEvents
  <2>6. Counts(m, n, X, Y) /\ Counts(m, n, U, V)
    BY <1>2, <2>3, <2>4, CountAfter
  <2>7. UseRow(servers, k, X)
    BY <2>1, Zenon DEF ServersTrue
  <2>8. TimesIn(X \cup NewEvents(m, n, Y)) = TimesIn(X) \cup TimesNew(Y)
    BY TimesInAfter
  <2>9. k \in ks =>
           /\ servers'[k].first = Min({r.first : r \in Row(servers, k)} \cup TimesNew(Y))
           /\ servers'[k].events = SumSet({r.events : r \in Row(servers, k)}) + Cardinality(Y)
           /\ servers'[k].unlisted = SumSet({r.unlisted : r \in Row(servers, k)}) + Cardinality(V)
    BY <1>3, <2>1
  <2> HIDE DEF ks, mine, used
  <2>10. CASE Y = {}
    BY <2>10, <1>3, <2>3, <2>2, <2>7 DEF NewEvents, UseRow
  <2>11. CASE Y # {}
    <3>1. X \cup NewEvents(m, n, Y) # {} /\ k \in DOMAIN servers' /\ k \in ks
      BY <1>3, <2>3, <2>11 DEF NewEvents
    <3>2. (X = {} /\ Row(servers, k) = {}) \/ (X # {} /\ Row(servers, k) = {servers[k]})
      BY <2>7 DEF UseRow, Row
    <3>3. X = {} => U = {} /\ TimesIn(X) = {}
      BY <2>4 DEF TimesIn
    <3>4. X # {} => TimesIn(X) # {}
      BY DEF TimesIn
    <3>5. X # {} => /\ servers[k].events = Cardinality(X) /\ servers[k].unlisted = Cardinality(U)
                    /\ servers[k].first = Min(TimesIn(X))
      BY <2>1, <2>7 DEF UseRow
    <3>6. PICK ce, cu, cf : ce = {r.events : r \in Row(servers, k)} /\ cu = {r.unlisted : r \in Row(servers, k)}
                            /\ cf = {r.first : r \in Row(servers, k)}
      OBVIOUS
    <3>7. /\ ce = {Cardinality(X)} \/ (ce = {} /\ X = {})
          /\ cu = {Cardinality(U)} \/ (cu = {} /\ U = {})
          /\ (TimesIn(X) # {} /\ cf = {Min(TimesIn(X))}) \/ (cf = {} /\ TimesIn(X) = {})
      <4>1. CASE X = {} /\ Row(servers, k) = {}
        BY <4>1, <3>3, <3>6
      <4>2. CASE X # {} /\ Row(servers, k) = {servers[k]}
        BY <4>2, <3>4, <3>5, <3>6
      <4>3. QED BY <3>2, <4>1, <4>2
    <3>8. SumSet(ce) + Cardinality(Y) = Cardinality(X \cup NewEvents(m, n, Y))
      BY <2>6, <3>7, SumAfter
    <3>9. SumSet(cu) + Cardinality(V) = Cardinality(U \cup NewEvents(m, n, V))
      BY <2>6, <3>7, SumAfter
    <3>10. Min(cf \cup TimesNew(Y)) = Min(TimesIn(X) \cup TimesNew(Y))
      BY <2>3, TimesOfSome, <3>7, MinAfter
    <3>11. /\ servers'[k].events = Cardinality(X \cup NewEvents(m, n, Y))
           /\ servers'[k].unlisted = Cardinality(UnlistedOf(X \cup NewEvents(m, n, Y)))
           /\ servers'[k].first = Min(TimesIn(X \cup NewEvents(m, n, Y)))
      BY <2>5, <2>8, <2>9, <3>1, <3>6, <3>8, <3>9, <3>10
    <3>12. QED BY <2>2, <3>1, <3>11 DEF UseRow
  <2>12. QED BY <2>10, <2>11
<1>5. QED BY <1>4, Zenon DEF ServersTrue, UseRow

\* The agents: their mode is that of a latest event that has one.
AgentEvents(k) == {t \in History : Counted(t[3]) /\ <<t[1], t[3].act.agent>> = k}
Moded(Y) == {e \in Y : e.act.mode # ""}
ModedOf(X) == {t[3] : t \in {x \in X : x[3].act.mode # ""}}
ModeOf(mode, E) ==
  IF E = {} THEN mode.mode = "" /\ mode.at = 0
  ELSE \E e \in E : (\A x \in E : x.at <= e.at) /\ mode = [mode |-> e.act.mode, at |-> e.at]
AgentRow(table, k, X) ==
  IF X = {} THEN k \notin DOMAIN table
  ELSE /\ k \in DOMAIN table
       /\ table[k].events = Cardinality(X)
       /\ table[k].first = Min(TimesIn(X)) /\ table[k].last \in Latests(TimesIn(X))
       /\ ModeOf(table[k].mode, ModedOf(X))
AgentRowsTrue == \A k : AgentRow(agents, k, AgentEvents(k))

LEMMA LatestIs ==
  ASSUME NEW S, NEW first, \E e \in S : \A x \in S : x.at <= e.at
  PROVE  Latest(S, first) \in S /\ \A x \in S : x.at <= Latest(S, first).at
<1> DEFINE top == {e \in S : \A x \in S : x.at <= e.at}
<1>1. Latest(S, first) = IF first \in top THEN first ELSE CHOOSE e \in top : TRUE
  BY DEF Latest
<1>2. top # {}
  OBVIOUS
<1>3. Latest(S, first) \in top
  <2> HIDE DEF top
  <2>1. QED BY <1>1, <1>2, Zenon
<1>4. QED BY <1>3

LEMMA ModeAfter ==
  ASSUME BatchesKnown, NEW evs \in NewBatches, NEW X \in SUBSET History, NEW Y \in SUBSET evs, NEW first,
         NEW old, ModeOf(old, ModedOf(X)), NEW V, V = Moded(Y)
  PROVE  ModeOf(LatestMode(old, V, first), ModedOf(X) \cup V)
<1>1. PICK E : E = ModedOf(X)
  OBVIOUS
<1>2. \A e \in E \cup V : e.at \in Nat
  <2>1. \A t \in History : t[3].at \in Nat
    BY StoredTyped
  <2>2. \A e \in evs : e.at \in Nat
    BY BatchOfTwo, EventsAre DEF BatchesKnown
  <2>3. V \subseteq evs
    BY DEF Moded
  <2>4. QED BY <1>1, <2>1, <2>2, <2>3 DEF ModedOf
<1>3. CASE V = {}
  BY <1>3, <1>1 DEF LatestMode
<1>4. CASE V # {}
  <2>1. PICK e : e = Latest(V, first)
    OBVIOUS
  <2>2. e \in V /\ \A x \in V : x.at <= e.at
    BY <1>4, HasLatest, <2>1, LatestIs DEF Moded
  <2>3. LatestMode(old, V, first) = IF e.at < old.at THEN old ELSE [mode |-> e.act.mode, at |-> e.at]
    BY <1>4, <2>1 DEF LatestMode
  <2>4. ModeOf(old, E)
    BY <1>1
  <2>5. CASE E = {}
    <3>1. old.at = 0 /\ e.at \in Nat
      BY <1>2, <2>2, <2>4, <2>5 DEF ModeOf
    <3>2. ~(e.at < old.at)
      <4>1. PICK x : x = e.at
        OBVIOUS
      <4>2. x \in Nat /\ ~(x < 0)
        BY <3>1, <4>1
      <4>3. QED BY <3>1, <4>1, <4>2
    <3>3. LatestMode(old, V, first) = [mode |-> e.act.mode, at |-> e.at] /\ E \cup V = V
      BY <2>3, <2>5, <3>2
    <3>4. ModeOf([mode |-> e.act.mode, at |-> e.at], V)
      BY <1>4, <2>2 DEF ModeOf
    <3>5. QED BY <1>1, <3>3, <3>4
  <2>6. CASE E # {}
    <3>1. PICK o \in E : (\A x \in E : x.at <= o.at) /\ old = [mode |-> o.act.mode, at |-> o.at]
      BY <2>4, <2>6 DEF ModeOf
    <3>2. old.at = o.at /\ o.at \in Nat /\ e.at \in Nat
      BY <1>2, <2>2, <3>1
    <3>3. CASE e.at < o.at
      <4>1. ASSUME NEW x \in E \cup V PROVE x.at <= o.at
        <5>1. PICK i, j, l : i = x.at /\ j = e.at /\ l = o.at
          OBVIOUS
        <5>2. i \in Nat /\ j \in Nat /\ l \in Nat /\ j < l /\ (i <= l \/ i <= j)
          BY <1>2, <2>2, <3>1, <3>2, <3>3, <5>1
        <5>3. i <= l
          BY <5>2
        <5>4. QED BY <5>1, <5>3
      <4>2. ModeOf(old, E \cup V)
        BY <2>6, <3>1, <4>1 DEF ModeOf
      <4>3. QED BY <1>1, <2>3, <3>2, <3>3, <4>2
    <3>4. CASE ~(e.at < o.at)
      <4>1. ASSUME NEW x \in E \cup V PROVE x.at <= e.at
        <5>1. PICK i, j, l : i = x.at /\ j = e.at /\ l = o.at
          OBVIOUS
        <5>2. i \in Nat /\ j \in Nat /\ l \in Nat /\ ~(j < l) /\ (i <= l \/ i <= j)
          BY <1>2, <2>2, <3>1, <3>2, <3>4, <5>1
        <5>3. i <= j
          BY <5>2
        <5>4. QED BY <5>1, <5>3
      <4>2. ModeOf([mode |-> e.act.mode, at |-> e.at], E \cup V)
        BY <2>2, <4>1 DEF ModeOf
      <4>3. QED BY <1>1, <2>3, <3>2, <3>4, <4>2
    <3>5. QED BY <3>3, <3>4
  <2>7. QED BY <2>5, <2>6
<1>5. QED BY <1>3, <1>4

LEMMA ModedAfter ==
  ASSUME NEW m, NEW n, NEW X, NEW Y, NEW V, V = Moded(Y)
  PROVE  ModedOf(X \cup NewEvents(m, n, Y)) = ModedOf(X) \cup V
<1>1. ASSUME NEW t \in NewEvents(m, n, Y) PROVE t[3] \in Y
  BY DEF NewEvents
<1>2. ASSUME NEW e \in V PROVE e \in ModedOf(X \cup NewEvents(m, n, Y))
  <2>1. PICK t : t = <<m, n, e>>
    OBVIOUS
  <2>2. t \in NewEvents(m, n, Y) /\ t[3] = e /\ e.act.mode # ""
    BY <2>1 DEF NewEvents, Moded
  <2>3. PICK S : S = {x \in X \cup NewEvents(m, n, Y) : x[3].act.mode # ""}
    OBVIOUS
  <2>4. t \in S /\ ModedOf(X \cup NewEvents(m, n, Y)) = {x[3] : x \in S}
    BY <2>2, <2>3 DEF ModedOf
  <2>5. QED BY <2>2, <2>4
<1>3. ModedOf(X \cup NewEvents(m, n, Y)) \subseteq ModedOf(X) \cup V
  BY <1>1 DEF ModedOf, Moded
<1>4. ModedOf(X) \subseteq ModedOf(X \cup NewEvents(m, n, Y))
  BY DEF ModedOf
<1>5. QED BY <1>2, <1>3, <1>4

LEMMA AgentRowsAfter ==
  ASSUME BatchesKnown, IsFiniteSet(History), AgentRowsTrue, NEW m \in Hosts, NEW evs \in NewBatches, Arrives(m, evs)
  PROVE  AgentRowsTrue'
<1>0. PICK first \in evs : RollupAgents(m, evs, first)
  BY DEF Arrives
<1> DEFINE ks == {<<m, e.act.agent>> : e \in {x \in evs : Counted(x)}}
           mine(k) == {e \in evs : Counted(e) /\ <<m, e.act.agent>> = k}
           none == [mode |-> "", at |-> 0]
<1>1. PICK n : n = Len(batches[m]) + 1
  OBVIOUS
<1>2. History' = History \cup NewEvents(m, n, evs) /\ \A t \in History : t[1] = m => t[2] # n
  BY <1>1, StoredAfter
<1>3. /\ DOMAIN agents' = DOMAIN agents \cup ks
      /\ \A k \in DOMAIN agents \ ks : agents'[k] = agents[k]
      /\ \A k \in ks :
           /\ agents'[k].first = Min({r.first : r \in Row(agents, k)} \cup TimesNew(mine(k)))
           /\ agents'[k].last = Max({r.last : r \in Row(agents, k)} \cup TimesNew(mine(k)))
           /\ agents'[k].events = SumSet({r.events : r \in Row(agents, k)}) + Cardinality(mine(k))
           /\ agents'[k].mode = LatestMode(IF Row(agents, k) = {} THEN none ELSE agents[k].mode, Moded(mine(k)), first)
  BY <1>0 DEF RollupAgents, Upsert, Count, TimesNew, Moded
<1>4. ASSUME NEW k PROVE AgentRow(agents', k, AgentEvents(k)')
  <2>1. PICK X, Y : X = AgentEvents(k) /\ Y = mine(k)
    OBVIOUS
  <2>00. PICK V : V = Moded(Y)
    OBVIOUS
  <2>0. PICK old : old = IF Row(agents, k) = {} THEN none ELSE agents[k].mode
    OBVIOUS
  <2>2. AgentEvents(k)' = X \cup NewEvents(m, n, Y)
    BY <1>2, <2>1 DEF AgentEvents, NewEvents
  <2>3. X \in SUBSET History /\ Y \in SUBSET evs /\ (k \in ks <=> Y # {})
    BY <2>1 DEF AgentEvents
  <2>4. Counts(m, n, X, Y)
    BY <1>2, <2>3, CountAfter
  <2>5. AgentRow(agents, k, X)
    BY <2>1, Zenon DEF AgentRowsTrue
  <2>6. TimesIn(X \cup NewEvents(m, n, Y)) = TimesIn(X) \cup TimesNew(Y)
    BY TimesInAfter
  <2>7. ModedOf(X \cup NewEvents(m, n, Y)) = ModedOf(X) \cup V
    BY <2>00, ModedAfter
  <2>8. k \in ks =>
           /\ agents'[k].first = Min({r.first : r \in Row(agents, k)} \cup TimesNew(Y))
           /\ agents'[k].last = Max({r.last : r \in Row(agents, k)} \cup TimesNew(Y))
           /\ agents'[k].events = SumSet({r.events : r \in Row(agents, k)}) + Cardinality(Y)
           /\ agents'[k].mode = LatestMode(old, V, first)
    BY <1>3, <2>1, <2>00, <2>0
  <2> HIDE DEF ks, mine
  <2>9. CASE Y = {}
    BY <2>9, <1>3, <2>3, <2>2, <2>5 DEF NewEvents, AgentRow
  <2>10. CASE Y # {}
    <3>1. X \cup NewEvents(m, n, Y) # {} /\ k \in DOMAIN agents' /\ k \in ks
      BY <1>3, <2>3, <2>10 DEF NewEvents
    <3>2. (X = {} /\ Row(agents, k) = {}) \/ (X # {} /\ Row(agents, k) = {agents[k]})
      BY <2>5 DEF AgentRow, Row
    <3>3. X = {} => TimesIn(X) = {} /\ ModedOf(X) = {}
      BY DEF TimesIn, ModedOf
    <3>4. X # {} => TimesIn(X) # {}
      BY DEF TimesIn
    <3>5. X # {} => /\ agents[k].events = Cardinality(X) /\ agents[k].first = Min(TimesIn(X))
                    /\ agents[k].last \in Latests(TimesIn(X)) /\ ModeOf(agents[k].mode, ModedOf(X))
      BY <2>5 DEF AgentRow
    <3>6. PICK ce, cl, cf : ce = {r.events : r \in Row(agents, k)} /\ cl = {r.last : r \in Row(agents, k)}
                            /\ cf = {r.first : r \in Row(agents, k)}
      OBVIOUS
    <3>7. /\ ce = {Cardinality(X)} \/ (ce = {} /\ X = {})
          /\ (\E l \in Latests(TimesIn(X)) : cl = {l}) \/ (cl = {} /\ TimesIn(X) = {})
          /\ (TimesIn(X) # {} /\ cf = {Min(TimesIn(X))}) \/ (cf = {} /\ TimesIn(X) = {})
          /\ ModeOf(old, ModedOf(X))
      <4>1. CASE X = {} /\ Row(agents, k) = {}
        BY <2>0, <4>1, <3>3, <3>6 DEF ModeOf
      <4>2. CASE X # {} /\ Row(agents, k) = {agents[k]}
        <5>1. old = agents[k].mode
          BY <2>0, <4>2
        <5>2. ce = {Cardinality(X)} /\ cl = {agents[k].last} /\ cf = {Min(TimesIn(X))}
          BY <4>2, <3>5, <3>6
        <5>3. QED BY <4>2, <3>4, <3>5, <5>1, <5>2
      <4>3. QED BY <3>2, <4>1, <4>2
    <3>8. SumSet(ce) + Cardinality(Y) = Cardinality(X \cup NewEvents(m, n, Y))
      BY <2>4, <3>7, SumAfter
    <3>9. TimesIn(X) \in SUBSET Nat /\ TimesNew(Y) \in SUBSET Nat
      BY <2>3, TimesOfSome
    <3>10. Min(cf \cup TimesNew(Y)) = Min(TimesIn(X) \cup TimesNew(Y))
      BY <3>7, <3>9, MinAfter
    <3>11. Max(cl \cup TimesNew(Y)) \in Latests(TimesIn(X) \cup TimesNew(Y))
      <4>1. Latests(TimesNew(Y)) # {}
        <5>1. PICK e \in Y : \A x \in Y : x.at <= e.at
          BY <2>3, <2>10, HasLatest
        <5>2. e.at \in TimesNew(Y) /\ \A i \in TimesNew(Y) : i <= e.at
          BY <5>1 DEF TimesNew
        <5>3. QED BY <5>2 DEF Latests
      <4>2. QED BY <3>7, <3>9, <4>1, MaxAfter
    <3>12. ModeOf(LatestMode(old, V, first), ModedOf(X) \cup V)
      BY <2>00, <2>3, <3>7, ModeAfter
    <3>13. /\ agents'[k].events = Cardinality(X \cup NewEvents(m, n, Y))
           /\ agents'[k].first = Min(TimesIn(X \cup NewEvents(m, n, Y)))
           /\ agents'[k].last \in Latests(TimesIn(X \cup NewEvents(m, n, Y)))
           /\ ModeOf(agents'[k].mode, ModedOf(X \cup NewEvents(m, n, Y)))
      BY <2>6, <2>7, <2>8, <3>1, <3>6, <3>8, <3>10, <3>11, <3>12
    <3>14. QED BY <2>2, <3>1, <3>13 DEF AgentRow
  <2>11. QED BY <2>9, <2>10
<1>5. QED BY <1>4, Zenon DEF AgentRowsTrue, AgentRow, ModeOf

-----------------------------------------------------------------------------
(* Cardinalities as sums.                                                  *)

\* j takes A to B, one to one.
Matches(j, A, B) == /\ \A x \in A : j[x] \in B
                    /\ \A x, y \in A : j[x] = j[y] => x = y
                    /\ \A y \in B : \E x \in A : j[x] = y

LEMMA CardSame ==
  ASSUME NEW A, IsFiniteSet(A), NEW B, NEW j, Matches(j, A, B)
  PROVE  IsFiniteSet(B) /\ Cardinality(B) = Cardinality(A)
<1> DEFINE f == [x \in A |-> j[x]]
<1>1. f \in [A -> B] /\ \A x \in A : f[x] = j[x]
  BY DEF Matches
<1> HIDE DEF f
<1>2. f \in Bijection(A, B)
  BY <1>1 DEF Matches, Bijection, Injection, Surjection, IsInjective
<1>3. ExistsBijection(A, B)
  BY <1>2 DEF ExistsBijection
<1>4. QED BY <1>3, FS_Bijection

LEMMA CardSum ==
  ASSUME NEW A, IsFiniteSet(A), NEW f, \A x \in A : f[x] = 1
  PROVE  SumFunctionOnSet(f, A) = Cardinality(A)
<1> DEFINE T == {s \in SUBSET A : SumFunctionOnSet(f, s) = Cardinality(s)}
<1>1. {} \in T
  BY SumNone, FS_EmptySet
<1>2. ASSUME NEW s \in SUBSET A, NEW x \in A \ s, s \in T PROVE s \cup {x} \in T
  <2>1. IsFiniteSet(s) /\ Cardinality(s) \in Nat /\ Cardinality(s \cup {x}) = Cardinality(s) + 1
    BY FS_Subset, FS_CardinalityType, FS_AddElement
  <2>2. \A y \in s \cup {x} : f[y] \in Int
    OBVIOUS
  <2>3. SumFunctionOnSet(f, s \cup {x}) = f[x] + SumFunctionOnSet(f, s)
    BY <2>1, <2>2, SumOne
  <2>4. PICK c : c = Cardinality(s)
    OBVIOUS
  <2>5. SumFunctionOnSet(f, s \cup {x}) = 1 + c /\ Cardinality(s \cup {x}) = c + 1 /\ c \in Nat
    BY <1>2, <2>1, <2>3, <2>4
  <2>6. SumFunctionOnSet(f, s \cup {x}) = Cardinality(s \cup {x})
    BY <2>5
  <2>7. QED BY <2>6
<1> HIDE DEF T
<1>3. A \in T
  BY <1>1, <1>2, InductSet
<1>4. QED BY <1>3 DEF T

\* Parts by key add up to the whole.
Sizes(part, A, key, I) == \A i \in I : part[i] = Cardinality({x \in A : key[x] = i})

LEMMA CardParts ==
  ASSUME NEW A, IsFiniteSet(A), NEW I, IsFiniteSet(I), NEW key, NEW part,
         \A x \in A : key[x] \in I, Sizes(part, A, key, I)
  PROVE  SumFunctionOnSet(part, I) = Cardinality(A)
<1>1. PICK one : one = [x \in A |-> 1]
  OBVIOUS
<1>2. \A x \in A : one[x] = 1
  BY <1>1
<1>3. \A x \in A : one[x] \in Int /\ key[x] \in I
  BY <1>2
<1>4. ASSUME NEW i \in I PROVE part[i] = SumFunctionOnSet(one, {x \in A : key[x] = i})
  <2>1. IsFiniteSet({x \in A : key[x] = i})
    BY FS_Subset
  <2>2. SumFunctionOnSet(one, {x \in A : key[x] = i}) = Cardinality({x \in A : key[x] = i})
    BY <1>2, <2>1, CardSum
  <2>3. QED BY <2>2 DEF Sizes
<1>5. Parts(part, one, A, key, I)
  BY <1>4 DEF Parts
<1>6. SumFunctionOnSet(part, I) = SumFunctionOnSet(one, A)
  BY <1>3, <1>5, SumParts
<1>7. SumFunctionOnSet(one, A) = Cardinality(A)
  BY <1>2, CardSum
<1>8. QED BY <1>6, <1>7

LEMMA SumSame ==
  ASSUME NEW D, IsFiniteSet(D), NEW f, NEW h, \A x \in D : f[x] \in Int /\ h[x] = f[x]
  PROVE  SumFunctionOnSet(f, D) = SumFunctionOnSet(h, D)
<1>1. PICK a, b : a = SumFunctionOnSet(f, D) /\ b = SumFunctionOnSet(h, D)
  OBVIOUS
<1>2. a <= b /\ b <= a
  BY <1>1, SumLe
<1>3. a \in Int /\ b \in Int
  BY <1>1, SumInt
<1>4. QED BY <1>1, <1>2, <1>3

LEMMA SumAdd ==
  ASSUME NEW D, IsFiniteSet(D), NEW f, NEW h, NEW s, \A x \in D : f[x] \in Int /\ h[x] \in Int /\ s[x] = f[x] + h[x]
  PROVE  SumFunctionOnSet(s, D) = SumFunctionOnSet(f, D) + SumFunctionOnSet(h, D)
<1> DEFINE T == {u \in SUBSET D : SumFunctionOnSet(s, u) = SumFunctionOnSet(f, u) + SumFunctionOnSet(h, u)}
<1>1. {} \in T
  BY SumNone
<1>2. ASSUME NEW u \in SUBSET D, NEW x \in D \ u, u \in T PROVE u \cup {x} \in T
  <2>1. IsFiniteSet(u)
    BY FS_Subset
  <2>2. \A y \in u \cup {x} : f[y] \in Int /\ h[y] \in Int /\ s[y] \in Int
    OBVIOUS
  <2>3. /\ SumFunctionOnSet(s, u \cup {x}) = s[x] + SumFunctionOnSet(s, u)
        /\ SumFunctionOnSet(f, u \cup {x}) = f[x] + SumFunctionOnSet(f, u)
        /\ SumFunctionOnSet(h, u \cup {x}) = h[x] + SumFunctionOnSet(h, u)
    BY <2>1, <2>2, SumOne
  <2>4. SumFunctionOnSet(f, u) \in Int /\ SumFunctionOnSet(h, u) \in Int
    BY <2>1, <2>2, SumInt
  <2>5. PICK a, b, c, d : a = SumFunctionOnSet(f, u) /\ b = SumFunctionOnSet(h, u) /\ c = f[x] /\ d = h[x]
    OBVIOUS
  <2>6. a \in Int /\ b \in Int /\ c \in Int /\ d \in Int /\ s[x] = c + d /\ SumFunctionOnSet(s, u) = a + b
    BY <1>2, <2>2, <2>4, <2>5
  <2>7. (c + d) + (a + b) = (c + a) + (d + b)
    BY <2>6
  <2>8. SumFunctionOnSet(s, u \cup {x}) = SumFunctionOnSet(f, u \cup {x}) + SumFunctionOnSet(h, u \cup {x})
    BY <2>3, <2>5, <2>6, <2>7
  <2>9. QED BY <2>8
<1> HIDE DEF T
<1>3. D \in T
  BY <1>1, <1>2, InductSet
<1>4. QED BY <1>3 DEF T

-----------------------------------------------------------------------------
(* The keys: values kept up to the cap, the sightings of the rest as        *)
(* overflow.                                                                *)

\* After deciding on some values S, sized cnt, of a key that was `was'.
Full(k, was, cnt, S, acc) ==
  /\ acc.key \in KeyRecords /\ acc.kept \subseteq S
  /\ acc.key.values = was.values + Cardinality({s \in acc.kept : ~Learnt(k, s)})
  /\ acc.key.overflow = was.overflow + SumFunctionOnSet(cnt, S \ acc.kept)
  /\ was.values <= Caps[k[3]] => acc.key.values <= Caps[k[3]]

LEMMA FullNext ==
  ASSUME NEW k, k[3] \in Kinds, NEW first, NEW was \in KeyRecords, NEW S, IsFiniteSet(S), NEW s, s \notin S,
         s.at \in Nat, s.count \in Nat, NEW cnt, \A x \in S \cup {s} : cnt[x] = x.count /\ cnt[x] \in Nat,
         NEW acc, Full(k, was, cnt, S, acc), NEW d, d = Decided(k, first, acc, s)
  PROVE  Full(k, was, cnt, S \cup {s}, d)
<1>1. PICK akey, dkey, cap : akey = acc.key /\ dkey = d.key /\ cap = Caps[k[3]]
  OBVIOUS
<1>2. PICK av, ao, dv, do, wv, wo : /\ av = akey.values /\ ao = akey.overflow /\ dv = dkey.values
                                    /\ do = dkey.overflow /\ wv = was.values /\ wo = was.overflow
  OBVIOUS
<1>3. acc.key \in KeyRecords
  BY DEF Full
<1>4. /\ dkey \in KeyRecords
      /\ d.kept = IF Fits(k, acc, s) THEN acc.kept \cup {s} ELSE acc.kept
      /\ dv = IF ~Learnt(k, s) /\ Fits(k, acc, s) THEN av + 1 ELSE av
      /\ do = IF Fits(k, acc, s) THEN ao ELSE ao + s.count
  <2>1. Advance(k, first, acc, s, d)
    BY <1>3, DecidedIs
  <2>2. QED BY <1>1, <1>2, <2>1 DEF Advance
<1>5. cap \in Nat /\ av \in Nat /\ ao \in Nat /\ dv \in Nat /\ wv \in Nat /\ wo \in Nat
  BY <1>1, <1>2, <1>3, <1>4, InventoryAssumption DEF KeyRecords
<1>6. Fits(k, acc, s) <=> Learnt(k, s) \/ av < cap
  BY <1>1, <1>2 DEF Fits
<1>7. acc.kept \subseteq S /\ s \notin acc.kept /\ IsFiniteSet(acc.kept) /\ IsFiniteSet(S \ acc.kept)
  BY FS_Subset DEF Full
<1> DEFINE new(K) == {x \in K : ~Learnt(k, x)}
<1>8. PICK a, o : /\ a = Cardinality(new(acc.kept)) /\ a \in Nat /\ IsFiniteSet(new(acc.kept))
                  /\ o = SumFunctionOnSet(cnt, S \ acc.kept) /\ o \in Nat
  BY <1>7, FS_Subset, SumNat, FS_CardinalityType
<1>9. av = wv + a /\ ao = wo + o /\ (wv <= cap => av <= cap)
  BY <1>1, <1>2, <1>8 DEF Full
<1>10. CASE ~Fits(k, acc, s)
  <2>1. d.kept = acc.kept /\ dv = av /\ do = ao + s.count
    BY <1>4, <1>10, <1>6
  <2>2. (S \cup {s}) \ d.kept = (S \ acc.kept) \cup {s}
    BY <1>7, <2>1
  <2>3. \A x \in (S \ acc.kept) \cup {s} : cnt[x] \in Int
    OBVIOUS
  <2>4. SumFunctionOnSet(cnt, (S \ acc.kept) \cup {s}) = cnt[s] + o
    BY <1>7, <1>8, <2>3, SumOne
  <2>5. PICK c : c = s.count /\ c = cnt[s] /\ c \in Nat
    OBVIOUS
  <2>6. do = wo + (c + o)
    BY <1>5, <1>8, <1>9, <2>1, <2>5
  <2>7. do = wo + SumFunctionOnSet(cnt, (S \cup {s}) \ d.kept)
    BY <2>2, <2>4, <2>5, <2>6
  <2>8. d.kept \subseteq S \cup {s} /\ dv = wv + Cardinality(new(d.kept)) /\ (wv <= cap => dv <= cap)
    BY <1>7, <1>8, <1>9, <2>1
  <2>9. QED BY <1>1, <1>2, <1>4, <2>7, <2>8 DEF Full
<1>11. CASE Fits(k, acc, s)
  <2>1. d.kept = acc.kept \cup {s} /\ do = ao
    BY <1>4, <1>11
  <2>2. (S \cup {s}) \ d.kept = S \ acc.kept /\ d.kept \subseteq S \cup {s}
    BY <1>7, <2>1
  <2>3. do = wo + SumFunctionOnSet(cnt, (S \cup {s}) \ d.kept)
    BY <1>8, <1>9, <2>1, <2>2
  <2>4. dv = wv + Cardinality(new(d.kept)) /\ (wv <= cap => dv <= cap)
    <3>1. CASE Learnt(k, s)
      BY <1>4, <2>1, <3>1, <1>8, <1>9
    <3>2. CASE ~Learnt(k, s)
      <4>1. new(d.kept) = new(acc.kept) \cup {s} /\ s \notin new(acc.kept)
        BY <1>7, <2>1, <3>2
      <4>2. Cardinality(new(acc.kept) \cup {s}) = a + 1
        BY <1>8, <4>1, FS_AddElement
      <4>3. dv = av + 1 /\ av < cap
        BY <1>4, <1>6, <1>11, <3>2
      <4>4. dv = wv + (a + 1) /\ dv <= cap
        BY <1>5, <1>8, <1>9, <4>3
      <4>5. QED BY <4>1, <4>2, <4>4
    <3>3. QED BY <3>1, <3>2
  <2>5. QED BY <1>1, <1>2, <1>4, <2>2, <2>3, <2>4 DEF Full
<1>12. QED BY <1>10, <1>11

SizesOf(S) == [s \in S |-> s.count]

LEMMA DecisionFull ==
  ASSUME limit \in Limits, NEW m, NEW evs \in NewBatches, NEW k, k[3] \in Kinds, Before(k) \in KeyRecords
  PROVE  Full(k, Before(k), SizesOf(Seen(evs, k[2], k[3])), Seen(evs, k[2], k[3]), Decision(m, evs, k))
<1>1. PICK S, first, was : S = Seen(evs, k[2], k[3]) /\ first = agents'[<<m, k[2]>>].first /\ was = Before(k)
  OBVIOUS
<1>2. PICK g : Turns(g, S, k, first, Undecided(k)) /\ Decision(m, evs, k) = g[S]
  BY <1>1, DecisionIs
<1>3. IsFiniteSet(S) /\ \A s \in S : s.value \in Nat /\ s.at \in Nat /\ s.count \in Nat
  BY <1>1, SeenFinite
<1>4. PICK cnt : cnt = SizesOf(S)
  OBVIOUS
<1>5. \A s \in S : cnt[s] = s.count /\ cnt[s] \in Nat
  BY <1>3, <1>4 DEF SizesOf
<1> DEFINE T == {u \in SUBSET S : Full(k, was, cnt, u, g[u])}
<1>6. {} \in T
  <2>1. g[{}] = Undecided(k)
    BY <1>2 DEF Turns, Turn
  <2>2. Undecided(k).key = was /\ Undecided(k).kept = {}
    BY <1>1 DEF Undecided
  <2>3. PICK wv, wo : wv = was.values /\ wo = was.overflow
    OBVIOUS
  <2>4. was \in KeyRecords /\ wv \in Nat /\ wo \in Nat
    BY <1>1, <2>3 DEF KeyRecords
  <2>5. Cardinality({}) = 0 /\ SumFunctionOnSet(cnt, {}) = 0
    BY FS_EmptySet, SumNone
  <2>6. {s \in {} : ~Learnt(k, s)} = {} /\ {} \ {} = {}
    OBVIOUS
  <2>7. wv = wv + 0 /\ wo = wo + 0
    BY <2>4
  <2>8. Full(k, was, cnt, {}, g[{}])
    BY <2>1, <2>2, <2>3, <2>4, <2>5, <2>6, <2>7 DEF Full
  <2>9. QED BY <2>8
<1>7. ASSUME NEW u \in SUBSET S, NEW s \in S \ u, u \in T, g[u \cup {s}] = Decided(k, first, g[u], s) PROVE u \cup {s} \in T
  BY <1>7, <1>1, <1>3, FS_Subset, <1>5, FullNext
<1> HIDE DEF T
<1>8. KeptByTurns(T, g, S, k, first)
  BY <1>7 DEF KeptByTurns
<1>9. S \in T
  BY <1>2, <1>3, <1>6, <1>8, TurnsInduct
<1>10. QED BY <1>1, <1>2, <1>4, <1>9 DEF T

\* More is added to some of the values V, and to others, by those of K that j names.
Grown(V, K, j, W, old, new, cnt) ==
  /\ IsFiniteSet(W) /\ (\A w \in W : new[w] \in Nat)
  /\ SumFunctionOnSet(new, W) = SumFunctionOnSet(old, V) + SumFunctionOnSet(cnt, K)
  /\ Cardinality(W) = Cardinality(V) + Cardinality({x \in K : j[x] \notin V})

LEMMA Growth ==
  ASSUME NEW V, IsFiniteSet(V), NEW K, IsFiniteSet(K), NEW j, \A x, y \in K : j[x] = j[y] => x = y,
         NEW W, W = V \cup {j[x] : x \in K}, NEW old, NEW new, NEW cnt,
         \A x \in K : cnt[x] \in Nat, \A w \in V : old[w] \in Nat,
         \A x \in K : new[j[x]] = (IF j[x] \in V THEN old[j[x]] ELSE 0) + cnt[x],
         \A w \in V : (\A x \in K : j[x] # w) => new[w] = old[w]
  PROVE  Grown(V, K, j, W, old, new, cnt)
<1> DEFINE U == {x \in K : j[x] \notin V}
           I == {j[x] : x \in U}
           f == [w \in W |-> IF w \in V THEN old[w] ELSE 0]
           g == [w \in W |-> SumFunctionOnSet(cnt, {x \in K : j[x] = w})]
<1>1. IsFiniteSet({j[x] : x \in K})
  BY ImageFinite
<1>2. IsFiniteSet(W)
  BY <1>1, FS_Union
<1>3. W = V \cup I /\ V \cap I = {} /\ IsFiniteSet(U) /\ IsFiniteSet(I)
  BY FS_Subset, <1>2
<1>4. Cardinality(W) = Cardinality(V) + Cardinality(U)
  <2>1. Matches(j, U, I)
    BY DEF Matches
  <2>2. Cardinality(I) = Cardinality(U)
    BY <1>3, <2>1, CardSame
  <2>3. PICK a, b, c : a = Cardinality(V) /\ b = Cardinality(I) /\ c = Cardinality(W)
    OBVIOUS
  <2>4. a \in Nat /\ b \in Nat /\ c = a + b - 0
    <3>1. Cardinality(W) = Cardinality(V) + Cardinality(I) - Cardinality(V \cap I)
      BY <1>3, FS_Union
    <3>2. Cardinality({}) = 0
      BY FS_EmptySet
    <3>3. QED BY <1>3, <2>3, <3>1, <3>2, FS_CardinalityType
  <2>5. c = a + b
    BY <2>4
  <2>6. QED BY <2>2, <2>3, <2>5
<1>5. \A w \in W : f[w] \in Nat
  OBVIOUS
<1>6. \A w \in W : g[w] \in Nat
  <2>1. ASSUME NEW w \in W PROVE SumFunctionOnSet(cnt, {x \in K : j[x] = w}) \in Nat
    BY FS_Subset, SumNat
  <2>2. QED BY <2>1
<1>7. ASSUME NEW w \in W PROVE new[w] = f[w] + g[w]
  <2>1. CASE \E x \in K : j[x] = w
    <3>1. PICK x \in K : j[x] = w
      BY <2>1
    <3>2. {y \in K : j[y] = w} = {} \cup {x}
      BY <3>1
    <3>3. SumFunctionOnSet(cnt, {} \cup {x}) = cnt[x] + 0
      <4>1. \A y \in {} \cup {x} : cnt[y] \in Int
        OBVIOUS
      <4>2. SumFunctionOnSet(cnt, {} \cup {x}) = cnt[x] + SumFunctionOnSet(cnt, {})
        BY <4>1, SumOne, FS_EmptySet
      <4>3. QED BY <4>2, SumNone
    <3>4. g[w] = cnt[x]
      <4>1. PICK c : c = cnt[x]
        OBVIOUS
      <4>2. c \in Nat /\ c + 0 = c
        BY <4>1
      <4>3. QED BY <3>2, <3>3, <4>1, <4>2
    <3>5. f[w] = IF j[x] \in V THEN old[j[x]] ELSE 0
      BY <3>1
    <3> HIDE DEF f, g
    <3>6. QED BY <3>1, <3>4, <3>5
  <2>2. CASE \A x \in K : j[x] # w
    <3>1. w \in V /\ new[w] = old[w] /\ f[w] = old[w]
      BY <2>2
    <3>2. {x \in K : j[x] = w} = {}
      BY <2>2
    <3>3. g[w] = 0
      BY <3>2, SumNone
    <3>4. PICK c : c = old[w]
      OBVIOUS
    <3>5. c \in Nat /\ c + 0 = c
      BY <3>1, <3>4
    <3> HIDE DEF f, g
    <3>6. QED BY <3>1, <3>3, <3>4, <3>5
  <2>3. QED BY <2>1, <2>2
<1>8. Parts(g, cnt, K, j, W)
  BY DEF Parts
<1>9. \A x \in K : cnt[x] \in Int /\ j[x] \in W
  OBVIOUS
<1>10. \A x \in V : f[x] = old[x]
  OBVIOUS
<1>11. \A x \in I : f[x] = 0
  BY <1>3
<1> HIDE DEF f, g, I
<1>12. SumFunctionOnSet(g, W) = SumFunctionOnSet(cnt, K)
  BY <1>2, <1>8, <1>9, SumParts
<1>13. SumFunctionOnSet(f, W) = SumFunctionOnSet(old, V)
  <2>1. \A x \in V \cup I : f[x] \in Int
    BY <1>3, <1>5
  <2>2. SumFunctionOnSet(f, V \cup I) = SumFunctionOnSet(f, V) + SumFunctionOnSet(f, I)
    BY <1>3, <2>1, SumUnion
  <2>3. SumFunctionOnSet(f, I) = 0
    BY <1>3, <1>11, SumZero
  <2>4. \A x \in V : old[x] \in Int /\ f[x] = old[x]
    BY <1>10
  <2>5. SumFunctionOnSet(old, V) = SumFunctionOnSet(f, V) /\ SumFunctionOnSet(old, V) \in Int
    BY <2>4, SumSame, SumInt
  <2>6. PICK a : a = SumFunctionOnSet(f, V)
    OBVIOUS
  <2>7. a \in Int /\ a + 0 = a
    BY <2>5, <2>6
  <2>8. QED BY <1>3, <2>2, <2>3, <2>5, <2>6, <2>7
<1>14. \A w \in W : f[w] \in Int /\ g[w] \in Int
  BY <1>5, <1>6
<1>15. SumFunctionOnSet(new, W) = SumFunctionOnSet(f, W) + SumFunctionOnSet(g, W)
  BY <1>2, <1>7, <1>14, SumAdd
<1>16. \A w \in W : new[w] \in Nat
  <2>1. ASSUME NEW w \in W PROVE new[w] \in Nat
    <3>1. PICK a, b : a = f[w] /\ b = g[w]
      OBVIOUS
    <3>2. a \in Nat /\ b \in Nat /\ a + b \in Nat
      BY <1>5, <1>6, <3>1
    <3>3. QED BY <1>7, <3>1, <3>2
  <2>2. QED BY <2>1
<1>17. QED BY <1>2, <1>4, <1>12, <1>13, <1>15, <1>16 DEF Grown

\* The events of X that show a value of a key, with the value.
ShownBy(X, k) ==
  {p \in X \X Nat : p[1][1] = k[1] /\ p[1][3].act.agent = k[2] /\ <<k[3], p[2]>> \in Shows(p[1][3])}

LEMMA ShownNew ==
  ASSUME limit \in Limits, NEW m, NEW n, NEW evs \in NewBatches, NEW a, NEW kind,
         NEW A, A = ShownBy(NewEvents(m, n, evs), <<m, a, kind>>), NEW S, S = Seen(evs, a, kind)
  PROVE  IsFiniteSet(A) /\ Cardinality(A) = SumFunctionOnSet(SizesOf(S), S)
<1>1. IsFiniteSet(S) /\ S = {Sighting(evs, a, kind, v) : v \in ShownValues(evs, a, kind)}
  BY SeenFinite, SeenAre
<1>2. ASSUME NEW p
      PROVE  p \in A <=> \E e \in evs : \E v \in Nat : p = <<<<m, n, e>>, v>> /\ e \in Showing(evs, a, kind, v)
  <2>1. ASSUME p \in A PROVE \E e \in evs : \E v \in Nat : p = <<<<m, n, e>>, v>> /\ e \in Showing(evs, a, kind, v)
    <3>1. p \in NewEvents(m, n, evs) \X Nat /\ p[1][3].act.agent = a /\ <<kind, p[2]>> \in Shows(p[1][3])
      BY <2>1 DEF ShownBy
    <3>2. PICK e \in evs : p[1] = <<m, n, e>>
      BY <3>1 DEF NewEvents
    <3>3. p = <<<<m, n, e>>, p[2]>> /\ p[2] \in Nat /\ p[1][3] = e
      BY <3>1, <3>2
    <3>4. e \in Showing(evs, a, kind, p[2])
      BY <3>1, <3>3 DEF Showing
    <3>5. QED BY <3>3, <3>4
  <2>2. ASSUME NEW e \in evs, NEW v \in Nat, p = <<<<m, n, e>>, v>>, e \in Showing(evs, a, kind, v) PROVE p \in A
    BY <2>2 DEF NewEvents, Showing, ShownBy
  <2>3. QED BY <2>1, <2>2
<1> DEFINE key == [p \in A |-> Sighting(evs, a, kind, p[2])]
<1>3. ASSUME NEW p \in A PROVE p[2] \in ShownValues(evs, a, kind) /\ key[p] = Sighting(evs, a, kind, p[2]) /\ key[p] \in S
  <2>1. p[2] \in ShownValues(evs, a, kind)
    <3>1. PICK e \in evs : \E v \in Nat : p = <<<<m, n, e>>, v>> /\ e \in Showing(evs, a, kind, v)
      BY <1>2
    <3>2. PICK v \in Nat : p = <<<<m, n, e>>, v>> /\ e \in Showing(evs, a, kind, v)
      BY <3>1
    <3>3. p[2] = v
      BY <3>2
    <3>4. QED BY <3>2, <3>3 DEF ShownValues
  <2>2. QED BY <1>1, <2>1
<1> HIDE DEF key
<1>4. IsFiniteSet(A)
  <2>1. PICK f : f = [s \in S |-> s.value]
    OBVIOUS
  <2>2. IsFiniteSet({f[s] : s \in S})
    BY <1>1, ImageFinite
  <2>3. IsFiniteSet(NewEvents(m, n, evs))
    BY BatchOfTwo, TaggedAre
  <2>4. IsFiniteSet(NewEvents(m, n, evs) \X {f[s] : s \in S})
    BY <2>2, <2>3, FS_Product
  <2>5. ASSUME NEW p \in A PROVE p \in NewEvents(m, n, evs) \X {f[s] : s \in S}
    BY <1>3, SightingIs, <2>1 DEF ShownBy
  <2>6. QED BY <2>4, <2>5, FS_Subset
<1>5. PICK part : part = SizesOf(S)
  OBVIOUS
<1>6. ASSUME NEW s \in S PROVE part[s] = Cardinality({p \in A : key[p] = s})
  <2>1. PICK v \in ShownValues(evs, a, kind) : s = Sighting(evs, a, kind, v)
    BY <1>1
  <2>2. v \in Nat /\ s.value = v /\ s.count = Cardinality(Showing(evs, a, kind, v))
    BY <2>1, SightingIs DEF ShownValues
  <2>3. PICK E, B : E = Showing(evs, a, kind, v) /\ B = {p \in A : key[p] = s}
    OBVIOUS
  <2>4. IsFiniteSet(E) /\ E \subseteq evs
    BY <2>3, BatchOfTwo, FS_Subset DEF Showing
  <2>5. PICK j : j = [e \in E |-> <<<<m, n, e>>, v>>]
    OBVIOUS
  <2>6. ASSUME NEW e \in E PROVE j[e] \in B /\ j[e] = <<<<m, n, e>>, v>>
    <3>1. j[e] = <<<<m, n, e>>, v>> /\ e \in evs
      BY <2>4, <2>5
    <3>2. j[e] \in A
      BY <1>2, <2>2, <2>3, <3>1
    <3>3. key[j[e]] = s
      BY <3>1, <1>3, <2>1, <3>2
    <3>4. QED BY <2>3, <3>1, <3>2, <3>3
  <2>7. ASSUME NEW p \in B PROVE \E e \in E : j[e] = p
    <3>1. p \in A /\ key[p] = s
      BY <2>3
    <3>2. p[2] = v
      <4>1. key[p].value = p[2]
        BY <1>3, <3>1, SightingIs
      <4>2. QED BY <2>2, <3>1, <4>1
    <3>3. PICK e \in evs : \E u \in Nat : p = <<<<m, n, e>>, u>> /\ e \in Showing(evs, a, kind, u)
      BY <1>2, <3>1
    <3>4. PICK u \in Nat : p = <<<<m, n, e>>, u>> /\ e \in Showing(evs, a, kind, u)
      BY <3>3
    <3>5. u = v
      BY <3>2, <3>4
    <3>6. e \in E /\ j[e] = p
      BY <2>3, <2>5, <3>4, <3>5
    <3>7. QED BY <3>6
  <2>8. ASSUME NEW x \in E, NEW y \in E, j[x] = j[y] PROVE x = y
    BY <2>6, <2>8
  <2>9. Matches(j, E, B)
    BY <2>6, <2>7, <2>8 DEF Matches
  <2>10. Cardinality(B) = Cardinality(E)
    BY <2>4, <2>9, CardSame
  <2>11. part[s] = s.count
    BY <1>5 DEF SizesOf
  <2>12. QED BY <2>2, <2>3, <2>10, <2>11
<1>7. \A p \in A : key[p] \in S
  BY <1>3
<1>8. Sizes(part, A, key, S)
  BY <1>6 DEF Sizes
<1>10. SumFunctionOnSet(part, S) = Cardinality(A)
  BY <1>1, <1>4, <1>7, <1>8, CardParts
<1>9. QED BY <1>4, <1>5, <1>10

SeenCounts       == [w \in DOMAIN values |-> values[w].seen]
KeyValues(k) == {w \in DOMAIN values : SubSeq(w, 1, 3) = k}
KeyTrue(k) ==
  /\ IsFiniteSet(KeyValues(k)) /\ IsFiniteSet(ShownBy(History, k))
  /\ Cardinality(KeyValues(k)) = Before(k).values /\ Before(k).values <= Caps[k[3]]
  /\ Before(k).overflow + SumFunctionOnSet(SeenCounts, KeyValues(k)) = Cardinality(ShownBy(History, k))
ValuesSeen == \A w \in DOMAIN values : values[w].seen \in Nat
KeysTrue   == \A m \in Hosts : \A a : \A kind \in Kinds : KeyTrue(<<m, a, kind>>)

LEMMA SeenNext ==
  ASSUME ValuesSeen, NEW w, NEW s, s.count \in Nat
  PROVE  ValueOf(w, s).seen = (IF w \in DOMAIN values THEN values[w].seen ELSE 0) + s.count
<1>1. ValueOf(w, s).seen = SumSet({r.seen : r \in Row(values, w)}) + s.count
  BY DEF ValueOf, Count
<1>2. CASE w \in DOMAIN values
  <2>1. PICK n : n = values[w].seen /\ n \in Nat
    BY <1>2 DEF ValuesSeen
  <2>2. {r.seen : r \in Row(values, w)} = {n}
    BY <1>2, <2>1 DEF Row
  <2>3. SumSet({n}) = n
    BY <2>1, SumSetOne
  <2>4. QED BY <1>1, <1>2, <2>1, <2>2, <2>3
<1>3. CASE w \notin DOMAIN values
  BY <1>3, <1>1, SumSetNone DEF Row
<1>4. QED BY <1>2, <1>3

\* What a batch leaves of the values of a key it touches.
KeyLeft(k, K, V, W) ==
  /\ W = V \cup {Append(k, s.value) : s \in K}
  /\ \A s \in K : values'[Append(k, s.value)] = ValueOf(Append(k, s.value), s)
  /\ \A s \in K : SubSeq(Append(k, s.value), 1, 3) = k /\ Append(k, s.value)[4] = s.value
  /\ \A w \in V : w \in DOMAIN values'
  /\ \A w \in V : (\A s \in K : Append(k, s.value) # w) => values'[w] = values[w]

LEMMA KeyValuesAfter ==
  ASSUME BatchesKnown, KeysTyped, NEW m \in Hosts, NEW evs \in NewBatches, Arrives(m, evs),
         NEW a, NEW kind, NEW k, k = <<m, a, kind>>, k \in Touched(m, evs),
         NEW K, K = Decision(m, evs, k).kept
  PROVE  KeyLeft(k, K, KeyValues(k), KeyValues(k)')
<1>1. PICK T, d : T = Touched(m, evs) /\ d = Decisions(m, evs)
  OBVIOUS
<1>2. Saved(m, T, d)
  BY <1>1, BaselinesSaved DEF Arrives, Decisions
<1>3. d[k] = Decision(m, evs, k) /\ k \in T /\ limit \in Limits
  BY <1>1 DEF Decisions, BatchesKnown
<1>4. k[2] = a /\ k[3] = kind
  OBVIOUS
<1>5. K \subseteq Seen(evs, a, kind)
  BY TouchedJudged, <1>4 DEF Judged
<1>6. ASSUME NEW s \in K PROVE SubSeq(Append(k, s.value), 1, 3) = k /\ Append(k, s.value)[4] = s.value
  BY Named DEF Numbered
<1>7. ASSUME NEW s \in K PROVE values'[Append(k, s.value)] = ValueOf(Append(k, s.value), s)
  <2>1. PICK v \in ShownValues(evs, a, kind) : s = Sighting(evs, a, kind, v)
    BY <1>3, <1>5, SeenAre
  <2>2. s.value = v /\ Showing(evs, a, kind, v) # {}
    BY <1>3, <2>1, SightingIs DEF ShownValues
  <2>3. PICK w, dec : w = Append(k, v) /\ dec = Decision(m, evs, k)
    OBVIOUS
  <2>4. ValueLeft(m, evs, a, kind, v, k, w, s, dec)
    BY <2>1, <2>2, <2>3, ValueAfter
  <2>5. values'[w] = ValueOf(w, s)
    BY <2>3, <2>4 DEF ValueLeft
  <2>6. QED BY <2>2, <2>3, <2>5
<1>8. ASSUME NEW s \in K PROVE Append(k, s.value) \in KeptOf(T, d)
  BY <1>3, KeptIsKept
<1>9. ASSUME NEW w \in KeptOf(T, d), SubSeq(w, 1, 3) = k PROVE \E s \in K : w = Append(k, s.value)
  <2>1. \E x \in T : \E s \in d[x].kept : w = Append(x, s.value)
    BY DEF KeptOf
  <2>2. PICK x \in T : \E s \in d[x].kept : w = Append(x, s.value)
    BY <2>1
  <2>3. PICK s \in d[x].kept : w = Append(x, s.value)
    BY <2>2
  <2>4. x = <<m, x[2], x[3]>>
    BY <1>1, <1>3, TouchedKeys
  <2>5. Numbered(Append(<<m, x[2], x[3]>>, s.value), <<m, x[2], x[3]>>, s.value)
    BY Named
  <2>6. x = k
    BY <1>9, <2>3, <2>4, <2>5 DEF Numbered
  <2>7. QED BY <1>3, <2>3, <2>6
<1>10. DOMAIN values' = DOMAIN values \cup KeptOf(T, d)
       /\ \A w \in DOMAIN values : w \notin KeptOf(T, d) => values'[w] = values[w]
  BY <1>2 DEF Saved
<1>11. KeyValues(k)' = {w \in DOMAIN values' : SubSeq(w, 1, 3) = k}
  BY DEF KeyValues
<1>12. KeyValues(k)' = KeyValues(k) \cup {Append(k, s.value) : s \in K}
  <2>1. ASSUME NEW w \in KeyValues(k)' PROVE w \in KeyValues(k) \cup {Append(k, s.value) : s \in K}
    <3>1. w \in DOMAIN values' /\ SubSeq(w, 1, 3) = k
      BY <1>11
    <3>2. CASE w \in DOMAIN values
      BY <3>1, <3>2 DEF KeyValues
    <3>3. CASE w \in KeptOf(T, d)
      BY <1>9, <3>1, <3>3
    <3>4. QED BY <1>10, <3>1, <3>2, <3>3
  <2>2. KeyValues(k) \subseteq KeyValues(k)'
    BY <1>10, <1>11 DEF KeyValues
  <2>3. \A s \in K : Append(k, s.value) \in KeyValues(k)'
    BY <1>6, <1>8, <1>10, <1>11
  <2>4. PICK old, new, add : old = KeyValues(k) /\ new = KeyValues(k)' /\ add = {Append(k, s.value) : s \in K}
    OBVIOUS
  <2>5. add \subseteq new
    BY <2>3, <2>4
  <2>6. new \subseteq old \cup add /\ old \subseteq new
    BY <2>1, <2>2, <2>4
  <2>7. new = old \cup add
    BY <2>5, <2>6
  <2>8. QED BY <2>4, <2>7
<1>13. ASSUME NEW w \in KeyValues(k) PROVE w \in DOMAIN values'
  BY <1>10 DEF KeyValues
<1>14. ASSUME NEW w \in KeyValues(k), \A s \in K : Append(k, s.value) # w PROVE values'[w] = values[w]
  BY <1>9, <1>14, <1>10 DEF KeyValues
<1>15. QED BY <1>6, <1>7, <1>12, <1>13, <1>14 DEF KeyLeft

LEMMA ShownAfter ==
  ASSUME NEW X, NEW Y, NEW k
  PROVE  ShownBy(X \cup Y, k) = ShownBy(X, k) \cup ShownBy(Y, k)
BY DEF ShownBy

LEMMA KeyTouched ==
  ASSUME BatchesKnown, KeysTyped, ValuesSeen, NEW m \in Hosts, NEW evs \in NewBatches, Arrives(m, evs),
         NEW a, NEW kind \in Kinds, NEW k, k = <<m, a, kind>>, k \in Touched(m, evs), KeyTrue(k)
  PROVE  KeyTrue(k)' /\ \A w \in KeyValues(k)' : values'[w].seen \in Nat
<1>1. PICK dec, K, S, V, W, cnt : /\ dec = Decision(m, evs, k) /\ K = dec.kept /\ S = Seen(evs, a, kind)
                                  /\ V = KeyValues(k) /\ W = KeyValues(k)' /\ cnt = SizesOf(S)
  OBVIOUS
<1>2. PICK old, new : old = SeenCounts /\ new = SeenCounts'
  OBVIOUS
<1>3. k[2] = a /\ k[3] = kind /\ k[3] \in Kinds /\ limit \in Limits
  BY DEF BatchesKnown
<1>4. PICK was : was = Before(k) /\ was \in KeyRecords
  <2>1. NoKey \in KeyRecords
    BY DEF NoKey, KeyRecords
  <2>2. Before(k) \in KeyRecords
    BY <2>1 DEF Before, KeysTyped
  <2>3. QED BY <2>2
<1>5. Full(k, was, cnt, S, dec)
  BY <1>1, <1>3, <1>4, DecisionFull
<1>6. IsFiniteSet(S) /\ (\A s \in S : s.value \in Nat /\ s.at \in Nat /\ s.count \in Nat /\ cnt[s] = s.count)
      /\ (\A s, u \in S : s.value = u.value => s = u)
  BY <1>1, <1>3, SeenFinite DEF SizesOf
<1>7. K \subseteq S /\ IsFiniteSet(K) /\ IsFiniteSet(S \ K)
  BY <1>1, <1>5, <1>6, FS_Subset DEF Full
<1>8. Before(k)' = dec.key
  <2>1. PICK T, d : T = Touched(m, evs) /\ d = Decisions(m, evs)
    OBVIOUS
  <2>2. Saved(m, T, d)
    BY <2>1, BaselinesSaved DEF Arrives, Decisions
  <2>3. k \in T /\ d[k] = dec
    BY <1>1, <2>1 DEF Decisions
  <2>4. keys' = [x \in DOMAIN keys \cup T |-> IF x \in T THEN d[x].key ELSE keys[x]]
    BY <2>2 DEF Saved
  <2>5. k \in DOMAIN keys' /\ keys'[k] = dec.key
    BY <2>3, <2>4
  <2>6. QED BY <2>5 DEF Before
<1>9. KeyLeft(k, K, V, W)
  BY <1>1, KeyValuesAfter
<1>10. PICK j : j = [s \in K |-> Append(k, s.value)]
  OBVIOUS
<1>11. /\ \A s \in K : j[s] = Append(k, s.value) /\ SubSeq(j[s], 1, 3) = k /\ j[s][4] = s.value
       /\ W = V \cup {j[s] : s \in K}
       /\ \A s \in K : values'[j[s]] = ValueOf(j[s], s)
       /\ \A w \in V : (\A s \in K : j[s] # w) => values'[w] = values[w]
       /\ \A w \in W : w \in DOMAIN values'
  <2>1. \A s \in K : j[s] = Append(k, s.value)
    BY <1>10
  <2>2. {j[s] : s \in K} = {Append(k, s.value) : s \in K}
    BY <2>1
  <2>3. \A w \in W : w \in DOMAIN values'
    BY <1>1 DEF KeyValues
  <2>4. QED BY <1>9, <2>1, <2>2, <2>3 DEF KeyLeft
<1>12. \A x, y \in K : j[x] = j[y] => x = y
  BY <1>6, <1>7, <1>11
<1>13. \A w \in V : old[w] = values[w].seen /\ old[w] \in Nat
  BY <1>1, <1>2 DEF KeyValues, SeenCounts, ValuesSeen
<1>14. \A w \in W : new[w] = values'[w].seen
  BY <1>2, <1>11 DEF SeenCounts
<1>15. ASSUME NEW s \in K PROVE new[j[s]] = (IF j[s] \in V THEN old[j[s]] ELSE 0) + cnt[s]
  BY <1>7, <1>11, <1>14, <1>6, SeenNext, <1>1, <1>13 DEF KeyValues
<1>16. ASSUME NEW w \in V, \A s \in K : j[s] # w PROVE new[w] = old[w]
  BY <1>11, <1>13, <1>14, <1>16
<1>17. \A x \in K : cnt[x] \in Nat
  BY <1>6, <1>7
<1>18. IsFiniteSet(V)
  BY <1>1 DEF KeyTrue
<1>19. Grown(V, K, j, W, old, new, cnt)
  BY <1>7, <1>11, <1>12, <1>13, <1>15, <1>16, <1>17, <1>18, Growth
<1>20. PICK n : n = Len(batches[m]) + 1
  OBVIOUS
<1>21. PICK A, N : A = ShownBy(History, k) /\ N = ShownBy(NewEvents(m, n, evs), k)
  OBVIOUS
<1>22. History' = History \cup NewEvents(m, n, evs) /\ \A t \in History : t[1] = m => t[2] # n
  BY <1>20, StoredAfter
<1>23. ShownBy(History, k)' = A \cup N /\ A \cap N = {}
  <2>1. ShownBy(History, k)' = A \cup N
    BY <1>21, <1>22, ShownAfter DEF ShownBy
  <2>2. ASSUME NEW p \in A, p \in N PROVE FALSE
    BY <1>21, <2>2, <1>22 DEF ShownBy, NewEvents
  <2>3. QED BY <2>1, <2>2
<1>24. IsFiniteSet(N) /\ Cardinality(N) = SumFunctionOnSet(cnt, S)
  BY <1>1, <1>3, <1>21, ShownNew
<1>25. IsFiniteSet(A)
  BY <1>21 DEF KeyTrue
<1>26. /\ IsFiniteSet(A \cup N)
       /\ Cardinality(A \cup N) = Cardinality(A) + Cardinality(N) - Cardinality(A \cap N)
  BY <1>24, <1>25, FS_Union
<1>27. SumFunctionOnSet(cnt, S) = SumFunctionOnSet(cnt, K) + SumFunctionOnSet(cnt, S \ K)
  BY <1>7, <1>6, SumUnion
<1>28. PICK ca, cn, cu, sk, so, sv, sw, wo, do : /\ ca = Cardinality(A) /\ cn = Cardinality(N) /\ cu = Cardinality(A \cup N)
         /\ sk = SumFunctionOnSet(cnt, K) /\ so = SumFunctionOnSet(cnt, S \ K)
         /\ sv = SumFunctionOnSet(old, V) /\ sw = SumFunctionOnSet(new, W) /\ wo = was.overflow /\ do = dec.key.overflow
  OBVIOUS
<1>29. /\ cu = ca + cn - 0 /\ cn = sk + so /\ sw = sv + sk /\ do = wo + so /\ wo + sv = ca
       /\ ca \in Nat /\ cn \in Nat /\ sk \in Nat /\ so \in Nat /\ sv \in Nat /\ wo \in Nat
  <2>1. Cardinality(A \cap N) = 0
    BY <1>23, FS_EmptySet
  <2>2. do = wo + so
    BY <1>1, <1>5, <1>28 DEF Full
  <2>3. wo + sv = ca
    BY <1>1, <1>2, <1>4, <1>21, <1>28 DEF KeyTrue
  <2>4. sw = sv + sk
    BY <1>19, <1>28 DEF Grown
  <2>5. ca \in Nat /\ cn \in Nat
    BY <1>24, <1>25, <1>28, FS_CardinalityType
  <2>6. sk \in Nat /\ so \in Nat /\ sv \in Nat
    BY <1>6, <1>7, <1>13, <1>17, <1>18, <1>28, SumNat
  <2>7. wo \in Nat
    BY <1>4, <1>28 DEF KeyRecords
  <2>8. QED BY <1>24, <1>26, <1>27, <1>28, <2>1, <2>2, <2>3, <2>4, <2>5, <2>6, <2>7
<1>30. do + sw = cu
  BY <1>29
<1>31. Cardinality(W) = dec.key.values
  <2>1. {x \in K : j[x] \notin V} = {s \in K : ~Learnt(k, s)}
    BY <1>1, <1>11 DEF KeyValues, Learnt
  <2>2. Cardinality(W) = Cardinality(V) + Cardinality({s \in K : ~Learnt(k, s)})
    BY <1>19, <2>1 DEF Grown
  <2>3. Cardinality(V) = was.values
    BY <1>1, <1>4 DEF KeyTrue
  <2>4. dec.key.values = was.values + Cardinality({s \in K : ~Learnt(k, s)})
    BY <1>1, <1>5 DEF Full
  <2>5. QED BY <2>2, <2>3, <2>4
<1>32. dec.key.values <= Caps[k[3]]
  BY <1>1, <1>4, <1>5 DEF Full, KeyTrue
<1>33. IsFiniteSet(W) /\ \A w \in W : new[w] \in Nat
  BY <1>19 DEF Grown
<1>34. KeyTrue(k)'
  <2>1. /\ IsFiniteSet(KeyValues(k)') /\ IsFiniteSet(ShownBy(History, k)')
        /\ Cardinality(KeyValues(k)') = Before(k)'.values /\ Before(k)'.values <= Caps[k[3]]
        /\ Before(k)'.overflow + SumFunctionOnSet(SeenCounts', KeyValues(k)') = Cardinality(ShownBy(History, k)')
    BY <1>1, <1>2, <1>8, <1>23, <1>26, <1>28, <1>30, <1>31, <1>32, <1>33
  <2>2. QED BY <2>1 DEF KeyTrue
<1>35. QED BY <1>1, <1>14, <1>33, <1>34

LEMMA KeyUntouched ==
  ASSUME BatchesKnown, ValuesSeen, NEW m \in Hosts, NEW evs \in NewBatches, Arrives(m, evs),
         NEW h \in Hosts, NEW a, NEW kind \in Kinds, NEW k, k = <<h, a, kind>>, k \notin Touched(m, evs), KeyTrue(k)
  PROVE  KeyTrue(k)'
<1>1. PICK T, d : T = Touched(m, evs) /\ d = Decisions(m, evs)
  OBVIOUS
<1>2. Saved(m, T, d)
  BY <1>1, BaselinesSaved DEF Arrives, Decisions
<1>3. limit \in Limits
  BY DEF BatchesKnown
<1>4. ASSUME NEW w \in KeptOf(T, d) PROVE SubSeq(w, 1, 3) # k
  <2>1. \E x \in T : \E s \in d[x].kept : w = Append(x, s.value)
    BY DEF KeptOf
  <2>2. PICK x \in T : \E s \in d[x].kept : w = Append(x, s.value)
    BY <2>1
  <2>3. PICK s \in d[x].kept : w = Append(x, s.value)
    BY <2>2
  <2>4. x = <<m, x[2], x[3]>>
    BY <1>1, <1>3, TouchedKeys
  <2>5. Numbered(Append(<<m, x[2], x[3]>>, s.value), <<m, x[2], x[3]>>, s.value)
    BY Named
  <2>6. SubSeq(w, 1, 3) = x
    BY <2>3, <2>4, <2>5 DEF Numbered
  <2>7. QED BY <1>1, <2>2, <2>6
<1>5. DOMAIN values' = DOMAIN values \cup KeptOf(T, d)
      /\ \A w \in DOMAIN values : w \notin KeptOf(T, d) => values'[w] = values[w]
  BY <1>2 DEF Saved
<1>6. KeyValues(k)' = KeyValues(k)
  BY <1>4, <1>5 DEF KeyValues
<1>7. \A w \in KeyValues(k) : w \in DOMAIN values /\ w \in DOMAIN values' /\ values'[w] = values[w]
  BY <1>4, <1>5 DEF KeyValues
<1>8. Before(k)' = Before(k)
  BY <1>2, <1>1 DEF Saved, Before
<1>9. PICK n : n = Len(batches[m]) + 1
  OBVIOUS
<1>10. History' = History \cup NewEvents(m, n, evs)
  BY <1>9, StoredAfter
<1>11. ShownBy(NewEvents(m, n, evs), k) = {}
  <2>1. SUFFICES ASSUME NEW p \in ShownBy(NewEvents(m, n, evs), k) PROVE FALSE
    OBVIOUS
  <2>2. p[1] \in NewEvents(m, n, evs) /\ p[1][1] = h /\ p[1][3].act.agent = a /\ <<kind, p[2]>> \in Shows(p[1][3])
    BY DEF ShownBy
  <2>3. PICK e \in evs : p[1] = <<m, n, e>>
    BY <2>2 DEF NewEvents
  <2>4. h = m /\ e \in Showing(evs, a, kind, p[2])
    BY <2>2, <2>3 DEF Showing
  <2>5. QED BY <1>3, <2>4, TouchedKeys
<1>12. ShownBy(History, k)' = ShownBy(History, k)
  <2>1. ShownBy(History, k)' = ShownBy(History', k)
    BY DEF ShownBy
  <2>2. PICK A, N : A = ShownBy(History, k) /\ N = ShownBy(NewEvents(m, n, evs), k)
    OBVIOUS
  <2>3. ShownBy(History \cup NewEvents(m, n, evs), k) = A \cup N
    BY <2>2, ShownAfter
  <2>4. ShownBy(History, k)' = A \cup N
    BY <1>10, <2>1, <2>3
  <2>5. N = {}
    BY <1>11, <2>2
  <2>6. QED BY <2>2, <2>4, <2>5
<1>13. PICK old, new, V : old = SeenCounts /\ new = SeenCounts' /\ V = KeyValues(k)
  OBVIOUS
<1>14. \A w \in V : old[w] \in Int /\ new[w] = old[w]
  BY <1>7, <1>13 DEF SeenCounts, ValuesSeen
<1>15. SumFunctionOnSet(new, V) = SumFunctionOnSet(old, V)
  BY <1>13, <1>14, SumSame DEF KeyTrue
<1>16. QED BY <1>6, <1>8, <1>12, <1>13, <1>15 DEF KeyTrue

LEMMA KeysTrueAfter ==
  ASSUME BatchesKnown, KeysTyped, ValuesSeen, KeysTrue, NEW m \in Hosts, NEW evs \in NewBatches, Arrives(m, evs)
  PROVE  KeysTrue' /\ ValuesSeen'
<1>1. ASSUME NEW h \in Hosts, NEW a, NEW kind \in Kinds PROVE KeyTrue(<<h, a, kind>>)'
  <2>1. PICK k : k = <<h, a, kind>>
    OBVIOUS
  <2>2. KeyTrue(k)
    BY <2>1 DEF KeysTrue
  <2>3. CASE k \in Touched(m, evs)
    <3>1. h = m
      BY <2>1, <2>3, TouchedKeys DEF BatchesKnown
    <3>2. KeyTrue(k)'
      BY <2>1, <2>2, <2>3, <3>1, KeyTouched
    <3>3. QED BY <2>1, <3>2
  <2>4. CASE k \notin Touched(m, evs)
    <3>1. KeyTrue(k)'
      BY <2>1, <2>2, <2>4, KeyUntouched
    <3>2. QED BY <2>1, <3>1
  <2>5. QED BY <2>3, <2>4
<1>2. ASSUME NEW w \in DOMAIN values' PROVE values'[w].seen \in Nat
  <2>1. PICK T, d : T = Touched(m, evs) /\ d = Decisions(m, evs)
    OBVIOUS
  <2>2. Saved(m, T, d)
    BY <2>1, BaselinesSaved DEF Arrives, Decisions
  <2>3. DOMAIN values' = DOMAIN values \cup KeptOf(T, d)
        /\ \A x \in DOMAIN values : x \notin KeptOf(T, d) => values'[x] = values[x]
    BY <2>2 DEF Saved
  <2>4. CASE w \in KeptOf(T, d)
    <3>1. \E x \in T : \E s \in d[x].kept : w = Append(x, s.value)
      BY <2>4 DEF KeptOf
    <3>2. PICK x \in T : \E s \in d[x].kept : w = Append(x, s.value)
      BY <3>1
    <3>3. PICK s \in d[x].kept : w = Append(x, s.value)
      BY <3>2
    <3>4. x = <<m, x[2], x[3]>> /\ x[3] \in Kinds
      BY <2>1, TouchedKeys DEF BatchesKnown
    <3>5. Numbered(Append(<<m, x[2], x[3]>>, s.value), <<m, x[2], x[3]>>, s.value)
      BY Named
    <3>6. SubSeq(w, 1, 3) = x
      BY <3>3, <3>4, <3>5 DEF Numbered
    <3>7. w \in KeyValues(x)'
      BY <3>6 DEF KeyValues
    <3>8. PICK a, kind : a = x[2] /\ kind = x[3]
      OBVIOUS
    <3>9. x = <<m, a, kind>> /\ kind \in Kinds /\ x \in Touched(m, evs)
      BY <2>1, <3>4, <3>8
    <3>10. KeyTrue(x)
      BY <3>9 DEF KeysTrue
    <3>11. \A y \in KeyValues(x)' : values'[y].seen \in Nat
      BY <3>9, <3>10, KeyTouched
    <3>12. QED BY <3>7, <3>11
  <2>5. CASE w \notin KeptOf(T, d)
    BY <2>3, <2>5 DEF ValuesSeen
  <2>6. QED BY <2>4, <2>5
<1>3. KeysTrue'
  BY <1>1 DEF KeysTrue
<1>4. QED BY <1>2, <1>3 DEF ValuesSeen

-----------------------------------------------------------------------------
(* A value is as old as the first of all events that showed it.             *)

Showed(m, a, kind, v) == {t \in History : t[1] = m /\ t[3].act.agent = a /\ <<kind, v>> \in Shows(t[3])}
FirstTrue(m, a, kind, v, w) ==
  w \in DOMAIN values => /\ Showed(m, a, kind, v) # {}
                         /\ values[w].first = Min(TimesIn(Showed(m, a, kind, v)))
FirstsTrue == \A m \in Hosts : \A a, kind, v : FirstTrue(m, a, kind, v, Append(<<m, a, kind>>, v))

LEMMA NeverShowed ==
  ASSUME NEW m \in Hosts, NEW a, NEW kind, NEW v, BatchTimes(m, a, kind, v) = {}
  PROVE  Showed(m, a, kind, v) = {}
<1>1. SUFFICES ASSUME NEW t \in Showed(m, a, kind, v) PROVE FALSE
  OBVIOUS
<1>2. t \in History /\ t[1] = m /\ t[3].act.agent = a /\ <<kind, v>> \in Shows(t[3])
  BY DEF Showed
<1>3. PICK h \in Hosts : \E b \in DOMAIN batches[h] : \E e \in batches[h][b] : t = <<h, b, e>>
  BY <1>2, StoredIs
<1>4. PICK b \in DOMAIN batches[h] : \E e \in batches[h][b] : t = <<h, b, e>>
  BY <1>3
<1>5. PICK e \in batches[h][b] : t = <<h, b, e>>
  BY <1>4
<1>6. h = m /\ e \in Showing(batches[m][b], a, kind, v)
  BY <1>2, <1>5 DEF Showing
<1>7. QED BY <1>4, <1>6 DEF BatchTimes

LEMMA FirstsAfter ==
  ASSUME BatchesKnown, KeysTyped, ValuesTrue, FirstsTrue, NEW m \in Hosts, NEW evs \in NewBatches, Arrives(m, evs)
  PROVE  FirstsTrue'
<1>1. PICK n : n = Len(batches[m]) + 1
  OBVIOUS
<1>2. History' = History \cup NewEvents(m, n, evs)
  BY <1>1, StoredAfter
<1>3. ASSUME NEW h \in Hosts, NEW a, NEW kind, NEW v, NEW w, w = Append(<<h, a, kind>>, v)
      PROVE  FirstTrue(h, a, kind, v, w)'
  <2>1. PICK X, Y : X = Showed(h, a, kind, v) /\ Y = IF h = m THEN Showing(evs, a, kind, v) ELSE {}
    OBVIOUS
  <2>2. Showed(h, a, kind, v)' = X \cup NewEvents(m, n, Y)
    BY <1>2, <2>1 DEF Showed, NewEvents, Showing
  <2>3. TimesIn(X \cup NewEvents(m, n, Y)) = TimesIn(X) \cup TimesNew(Y)
    BY TimesInAfter
  <2>4. X \in SUBSET History /\ Y \in SUBSET evs
    BY <2>1 DEF Showed, Showing
  <2>5. TimesIn(X) \in SUBSET Nat /\ TimesNew(Y) \in SUBSET Nat
    BY <2>4, TimesOfSome
  <2>6. FirstTrue(h, a, kind, v, w)
    BY <1>3 DEF FirstsTrue
  <2>7. CASE Y = {}
    <3>1. X \cup NewEvents(m, n, Y) = X
      BY <2>7 DEF NewEvents
    <3>2. PICK T, d : T = Touched(m, evs) /\ d = Decisions(m, evs)
      OBVIOUS
    <3>3. Saved(m, T, d)
      BY <3>2, BaselinesSaved DEF Arrives, Decisions
    <3>4. w \notin KeptOf(T, d)
      <4>1. SUFFICES ASSUME w \in KeptOf(T, d) PROVE FALSE
        OBVIOUS
      <4>2. KeptIf(m, evs, h, a, kind, v)
        BY <1>3, <3>2, <4>1, KeptShown
      <4>3. QED BY <2>1, <2>7, <4>2 DEF KeptIf
    <3>5. (w \in DOMAIN values' <=> w \in DOMAIN values) /\ (w \in DOMAIN values => values'[w] = values[w])
      BY <3>3, <3>4 DEF Saved
    <3>6. QED BY <2>1, <2>2, <2>6, <3>1, <3>5 DEF FirstTrue
  <2>8. CASE Y # {}
    <3>1. h = m /\ Y = Showing(evs, a, kind, v)
      BY <2>1, <2>8
    <3>2. PICK k, s, dec : k = <<m, a, kind>> /\ s = Sighting(evs, a, kind, v) /\ dec = Decision(m, evs, k)
      OBVIOUS
    <3>3. w = Append(k, v)
      BY <1>3, <3>1, <3>2
    <3>4. ValueLeft(m, evs, a, kind, v, k, w, s, dec)
      BY <2>8, <3>1, <3>2, <3>3, ValueAfter
    <3>5. TimesNew(Y) = TimesOf(evs, a, kind, v) /\ TimesNew(Y) # {}
      BY <2>8, <3>1 DEF TimesNew, TimesOf
    <3>6. SUFFICES ASSUME w \in DOMAIN values'
                   PROVE  X \cup NewEvents(m, n, Y) # {} /\ values'[w].first = Min(TimesIn(X) \cup TimesNew(Y))
      BY <2>2, <2>3 DEF FirstTrue
    <3>7. s \in dec.kept /\ values'[w] = ValueOf(w, s) /\ s.at = Min(TimesNew(Y))
      BY <3>4, <3>5, <3>6 DEF ValueLeft
    <3>8. values'[w].first = Min({r.first : r \in Row(values, w)} \cup {Min(TimesNew(Y))})
      BY <3>7 DEF ValueOf
    <3>9. X \cup NewEvents(m, n, Y) # {}
      BY <2>8 DEF NewEvents
    <3>10. CASE w \in DOMAIN values
      <4>1. X # {} /\ values[w].first = Min(TimesIn(X))
        BY <2>1, <2>6, <3>10 DEF FirstTrue
      <4>2. {r.first : r \in Row(values, w)} = {Min(TimesIn(X))}
        BY <3>10, <4>1 DEF Row
      <4>3. TimesIn(X) # {}
        BY <4>1 DEF TimesIn
      <4>4. PICK A, B : A = TimesIn(X) /\ B = TimesNew(Y)
        OBVIOUS
      <4>5. A \in SUBSET Nat /\ B \in SUBSET Nat /\ A # {} /\ B # {}
        BY <2>5, <3>5, <4>3, <4>4
      <4>6. Min({Min(B)} \cup {Min(A)}) = Min(B \cup {Min(A)})
        <5>1. Min(A) \in A
          BY <4>5, MinLeast
        <5>2. {Min(A)} \in SUBSET Nat
          BY <4>5, <5>1
        <5>3. QED BY <4>5, <5>2, MinUnion
      <4>7. Min({Min(A)} \cup B) = Min(A \cup B)
        BY <4>5, MinUnion
      <4>8. {Min(A)} \cup {Min(B)} = {Min(B)} \cup {Min(A)} /\ {Min(A)} \cup B = B \cup {Min(A)}
        OBVIOUS
      <4>9. values'[w].first = Min({Min(A)} \cup {Min(B)})
        BY <3>8, <4>2, <4>4
      <4>10. values'[w].first = Min(A \cup B)
        BY <4>6, <4>7, <4>8, <4>9, Zenon
      <4>11. QED BY <3>9, <4>4, <4>10
    <3>11. CASE w \notin DOMAIN values
      <4>1. {r.first : r \in Row(values, w)} = {}
        BY <3>11 DEF Row
      <4>2. Before(k).values < Caps[k[3]] /\ k \in Touched(m, evs)
        BY <3>4, <3>7, <3>11 DEF ValueLeft, Judged
      <4>3. BatchTimes(m, a, kind, v) = {}
        BY <3>2, <3>3, <3>11, <4>2, KeptBefore
      <4>4. X = {}
        BY <2>1, <3>1, <4>3, NeverShowed
      <4>5. TimesIn(X) = {}
        BY <4>4 DEF TimesIn
      <4>6. Min({Min(TimesNew(Y))}) = Min(TimesNew(Y))
        <5>1. Min(TimesNew(Y)) \in Nat
          BY <2>5, <3>5, MinLeast
        <5>2. PICK i : i = Min(TimesNew(Y))
          OBVIOUS
        <5>3. {i} \in SUBSET Nat /\ i \in {i} /\ \A j \in {i} : i <= j
          BY <5>1, <5>2
        <5>4. Min({i}) = i
          BY <5>3, MinIs
        <5>5. QED BY <5>2, <5>4
      <4>7. {} \cup {Min(TimesNew(Y))} = {Min(TimesNew(Y))} /\ {} \cup TimesNew(Y) = TimesNew(Y)
        OBVIOUS
      <4>8. QED BY <3>8, <3>9, <4>1, <4>5, <4>6, <4>7, Zenon
    <3>12. QED BY <3>10, <3>11
  <2>9. QED BY <2>7, <2>8
<1>4. ASSUME NEW h \in Hosts, NEW a, NEW kind, NEW v PROVE FirstTrue(h, a, kind, v, Append(<<h, a, kind>>, v))'
  <2>1. PICK w : w = Append(<<h, a, kind>>, v)
    OBVIOUS
  <2>2. FirstTrue(h, a, kind, v, w)'
    BY <1>3, <2>1
  <2>3. QED BY <2>1, <2>2
<1>5. QED BY <1>4, Zenon DEF FirstsTrue

-----------------------------------------------------------------------------
(* The invariant: every table, by the stored events it counts.              *)

KeysShaped == \A k \in DOMAIN keys : k = <<k[1], k[2], k[3]>> /\ k[1] \in Hosts /\ k[3] \in Kinds

RowsTrue   == ActivityTrue /\ OutcomesTrue /\ ServersTrue /\ AgentRowsTrue
SeenTrue   == KeysShaped /\ KeysTrue /\ ValuesSeen /\ FirstsTrue
TablesTrue == BaselinesTrue /\ IsFiniteSet(History) /\ RowsTrue /\ SeenTrue

LEMMA NothingYet == InventoryInit => TablesTrue
<1> SUFFICES ASSUME InventoryInit PROVE TablesTrue
  OBVIOUS
<1>1. /\ limit \in Limits /\ batches = [m \in Hosts |-> <<>>] /\ agents = <<>> /\ values = <<>> /\ keys = <<>>
      /\ activity = <<>> /\ servers = <<>> /\ outcomes = <<>> /\ anomalies = {}
  BY DEF InventoryInit, TablesInit
<1>2. /\ DOMAIN agents = {} /\ DOMAIN values = {} /\ DOMAIN keys = {}
      /\ DOMAIN activity = {} /\ DOMAIN servers = {} /\ DOMAIN outcomes = {}
      /\ \A m \in Hosts : DOMAIN batches[m] = {}
  BY <1>1
<1>3. BaselinesTrue
  <2>1. BatchesKnown
    BY <1>1 DEF BatchesKnown
  <2>2. KeysTyped /\ SignalsPast
    BY <1>1, <1>2 DEF KeysTyped, SignalsPast
  <2>3. AgentsTrue
    BY <1>2 DEF AgentsTrue, AgentTrue, AgentTimes
  <2>4. ValuesTrue
    BY <1>2 DEF ValuesTrue, LearntTrue, BatchTimes
  <2>5. QED BY <2>1, <2>2, <2>3, <2>4 DEF BaselinesTrue
<1>4. History = {}
  BY <1>2 DEF EventsOf, History
<1>5. IsFiniteSet(History)
  BY <1>4, FS_EmptySet
<1>6. RowsTrue
  <2>1. \A k : ActivityOf(k) = {} /\ OutcomesOf(k) = {} /\ UsesOf(k) = {} /\ AgentEvents(k) = {}
    BY <1>4 DEF ActivityOf, OutcomesOf, UsesOf, AgentEvents
  <2>2. ActivityTrue /\ OutcomesTrue
    BY <1>2, <2>1 DEF ActivityTrue, OutcomesTrue, RowTrue
  <2>3. ServersTrue
    BY <1>2, <2>1 DEF ServersTrue, UseRow
  <2>4. AgentRowsTrue
    BY <1>2, <2>1 DEF AgentRowsTrue, AgentRow
  <2>5. QED BY <2>2, <2>3, <2>4 DEF RowsTrue
<1>7. KeysTrue
  <2>1. ASSUME NEW k, k[3] \in Kinds PROVE KeyTrue(k)
    <3>1. KeyValues(k) = {} /\ ShownBy(History, k) = {}
      BY <1>2, <1>4 DEF KeyValues, ShownBy
    <3>2. IsFiniteSet({}) /\ Cardinality({}) = 0 /\ SumFunctionOnSet(SeenCounts, {}) = 0
      BY FS_EmptySet, SumNone
    <3>3. Before(k).values = 0 /\ Before(k).overflow = 0
      BY <1>2 DEF Before, NoKey
    <3>4. Caps[k[3]] \in Nat
      BY <2>1, InventoryAssumption
    <3>5. 0 <= Caps[k[3]] /\ 0 + 0 = 0
      BY <3>4
    <3>6. QED BY <3>1, <3>2, <3>3, <3>5 DEF KeyTrue
  <2>2. ASSUME NEW m, NEW a, NEW kind \in Kinds PROVE KeyTrue(<<m, a, kind>>)
    BY <2>1
  <2>3. QED BY <2>2 DEF KeysTrue
<1>8. SeenTrue
  BY <1>2, <1>7 DEF SeenTrue, KeysShaped, ValuesSeen, FirstsTrue, FirstTrue
<1>9. QED BY <1>3, <1>5, <1>6, <1>8 DEF TablesTrue

LEMMA ShapedAfter ==
  ASSUME BatchesKnown, KeysShaped, NEW m \in Hosts, NEW evs \in NewBatches, Arrives(m, evs)
  PROVE  KeysShaped'
<1>1. PICK T, d : T = Touched(m, evs) /\ d = Decisions(m, evs)
  OBVIOUS
<1>2. Saved(m, T, d)
  BY <1>1, BaselinesSaved DEF Arrives, Decisions
<1>3. DOMAIN keys' = DOMAIN keys \cup T
  BY <1>2 DEF Saved
<1>4. \A k \in T : k = <<m, k[2], k[3]>> /\ k[1] = m /\ k[3] \in Kinds
  BY <1>1, TouchedKeys DEF BatchesKnown
<1>5. QED BY <1>3, <1>4 DEF KeysShaped

\* Nothing else touches what the tables are read from.
TablesKept == limit' = limit /\ UNCHANGED <<batches, activity, agents, servers, outcomes, values, keys>>

LEMMA KeptTrue ==
  ASSUME TablesKept, IsFiniteSet(History), RowsTrue, SeenTrue
  PROVE  IsFiniteSet(History)' /\ RowsTrue' /\ SeenTrue'
<1>1. History' = History
  BY DEF TablesKept, History, EventsOf
<1>2. RowsTrue'
  <2>1. \A k : ActivityOf(k)' = ActivityOf(k) /\ OutcomesOf(k)' = OutcomesOf(k)
               /\ UsesOf(k)' = UsesOf(k) /\ AgentEvents(k)' = AgentEvents(k)
    BY <1>1 DEF ActivityOf, OutcomesOf, UsesOf, AgentEvents
  <2>2. activity' = activity /\ outcomes' = outcomes /\ servers' = servers /\ agents' = agents
    BY DEF TablesKept
  <2>3. ActivityTrue'
    <3>1. ASSUME NEW k PROVE RowTrue(activity', k, ActivityOf(k)')
      BY <2>1, <2>2, Zenon DEF RowsTrue, ActivityTrue
    <3>2. QED BY <3>1, Zenon DEF ActivityTrue, RowTrue
  <2>4. OutcomesTrue'
    <3>1. ASSUME NEW k PROVE RowTrue(outcomes', k, OutcomesOf(k)')
      BY <2>1, <2>2, Zenon DEF RowsTrue, OutcomesTrue
    <3>2. QED BY <3>1, Zenon DEF OutcomesTrue, RowTrue
  <2>5. ServersTrue'
    <3>1. ASSUME NEW k PROVE UseRow(servers', k, UsesOf(k)')
      BY <2>1, <2>2, Zenon DEF RowsTrue, ServersTrue
    <3>2. QED BY <3>1, Zenon DEF ServersTrue, UseRow
  <2>6. AgentRowsTrue'
    <3>1. ASSUME NEW k PROVE AgentRow(agents', k, AgentEvents(k)')
      BY <2>1, <2>2, Zenon DEF RowsTrue, AgentRowsTrue
    <3>2. QED BY <3>1, Zenon DEF AgentRowsTrue, AgentRow, ModeOf
  <2>7. QED BY <2>3, <2>4, <2>5, <2>6 DEF RowsTrue
<1>3. SeenTrue'
  <2>1. keys' = keys /\ values' = values
    BY DEF TablesKept
  <2>2. KeysShaped' /\ ValuesSeen'
    BY <2>1 DEF SeenTrue, KeysShaped, ValuesSeen
  <2>3. KeysTrue'
    <3>1. ASSUME NEW m \in Hosts, NEW a, NEW kind \in Kinds PROVE KeyTrue(<<m, a, kind>>)'
      <4>1. PICK k : k = <<m, a, kind>>
        OBVIOUS
      <4>2. KeyTrue(k)
        BY <4>1 DEF SeenTrue, KeysTrue
      <4>3. KeyValues(k)' = KeyValues(k) /\ ShownBy(History, k)' = ShownBy(History, k)
            /\ Before(k)' = Before(k) /\ SeenCounts' = SeenCounts
        BY <1>1, <2>1 DEF KeyValues, ShownBy, Before, SeenCounts
      <4>4. KeyTrue(k)'
        BY <4>2, <4>3 DEF KeyTrue
      <4>5. QED BY <4>1, <4>4
    <3>2. QED BY <3>1 DEF KeysTrue
  <2>4. FirstsTrue'
    <3>1. ASSUME NEW m \in Hosts, NEW a, NEW kind, NEW v PROVE FirstTrue(m, a, kind, v, Append(<<m, a, kind>>, v))'
      <4>1. PICK w : w = Append(<<m, a, kind>>, v)
        OBVIOUS
      <4>2. FirstTrue(m, a, kind, v, w)
        BY <4>1 DEF SeenTrue, FirstsTrue
      <4>3. Showed(m, a, kind, v)' = Showed(m, a, kind, v)
        BY <1>1 DEF Showed
      <4>4. FirstTrue(m, a, kind, v, w)'
        BY <2>1, <4>2, <4>3 DEF FirstTrue
      <4>5. QED BY <4>1, <4>4
    <3>2. QED BY <3>1, Zenon DEF FirstsTrue
  <2>5. QED BY <2>2, <2>3, <2>4 DEF SeenTrue
<1>4. QED BY <1>1, <1>2, <1>3

\* Each step keeps the tables true; the baselines' part is BaselinesAlways.
LEMMA TablesStep ==
  ASSUME TablesTrue, BaselinesTrue', [InventoryNext]_inventoryVars
  PROVE  TablesTrue'
<1>1. /\ BatchesKnown /\ KeysTyped /\ ValuesTrue /\ IsFiniteSet(History) /\ RowsTrue /\ SeenTrue
      /\ ActivityTrue /\ OutcomesTrue /\ ServersTrue /\ AgentRowsTrue
      /\ KeysShaped /\ KeysTrue /\ ValuesSeen /\ FirstsTrue
  BY DEF TablesTrue, BaselinesTrue, RowsTrue, SeenTrue
<1>2. SameTables \/ (Prune /\ limit' = limit) \/ \E m \in Hosts : \E evs \in NewBatches : Arrives(m, evs)
  BY <1>1, TableSteps
<1>3. CASE SameTables \/ (Prune /\ limit' = limit)
  BY <1>3, <1>1, KeptTrue DEF TablesKept, SameTables, tableVars, Prune, PruneAnomalies, TablesTrue
<1>4. ASSUME NEW m \in Hosts, NEW evs \in NewBatches, Arrives(m, evs) PROVE TablesTrue'
  <2>1. IsFiniteSet(History')
    BY <1>1, <1>4, FiniteAfter
  <2>2. ActivityTrue' /\ OutcomesTrue'
    BY <1>1, <1>4, ActivityAfter, OutcomesAfter
  <2>3. ServersTrue' /\ AgentRowsTrue'
    BY <1>1, <1>4, ServersAfter, AgentRowsAfter
  <2>4. KeysShaped'
    BY <1>1, <1>4, ShapedAfter
  <2>5. KeysTrue' /\ ValuesSeen'
    BY <1>1, <1>4, KeysTrueAfter
  <2>6. FirstsTrue'
    BY <1>1, <1>4, FirstsAfter
  <2>7. RowsTrue' /\ SeenTrue'
    BY <2>2, <2>3, <2>4, <2>5, <2>6 DEF RowsTrue, SeenTrue
  <2>8. QED BY <2>1, <2>7 DEF TablesTrue
<1>5. QED BY <1>2, <1>3, <1>4

LEMMA TablesAlways ==
  InventoryInit /\ [][InventoryNext]_inventoryVars => []TablesTrue
<1>1. TablesTrue /\ BaselinesTrue' /\ [InventoryNext]_inventoryVars => TablesTrue'
  BY TablesStep
<1>2. QED BY <1>1, NothingYet, BaselinesAlways, PTL

-----------------------------------------------------------------------------
(* From the tables of all machines to RollupsOf, machine by machine.  *)

LEMMA PairsAre ==
  ASSUME BatchesKnown, NEW m \in Hosts
  PROVE  /\ \A x \in EventsOf(m) : x = <<x[1], x[2]>> /\ <<m, x[1], x[2]>> \in History
         /\ \A t \in History : t[1] = m => t = <<m, t[2], t[3]>> /\ <<t[2], t[3]>> \in EventsOf(m)
<1>1. ASSUME NEW x \in EventsOf(m) PROVE x = <<x[1], x[2]>> /\ <<m, x[1], x[2]>> \in History
  <2>1. PICK b \in DOMAIN batches[m] : \E e \in batches[m][b] : x = <<b, e>>
    BY DEF EventsOf
  <2>2. PICK e \in batches[m][b] : x = <<b, e>>
    BY <2>1
  <2>3. <<m, b, e>> \in History
    BY StoredIs
  <2>4. QED BY <2>2, <2>3
<1>2. ASSUME NEW t \in History, t[1] = m PROVE t = <<m, t[2], t[3]>> /\ <<t[2], t[3]>> \in EventsOf(m)
  <2>1. PICK h \in Hosts : \E b \in DOMAIN batches[h] : \E e \in batches[h][b] : t = <<h, b, e>>
    BY StoredIs
  <2>2. PICK b \in DOMAIN batches[h] : \E e \in batches[h][b] : t = <<h, b, e>>
    BY <2>1
  <2>3. PICK e \in batches[h][b] : t = <<h, b, e>>
    BY <2>2
  <2>4. h = m
    BY <1>2, <2>3
  <2>5. <<b, e>> \in EventsOf(m)
    BY <2>4 DEF EventsOf
  <2>6. QED BY <2>3, <2>4, <2>5
<1>3. QED BY <1>1, <1>2

\* B are the events of A, which are machine m's.
Tagged(m, A, B) ==
  /\ \A x \in A : x \in EventsOf(m) /\ <<m, x[1], x[2]>> \in B
  /\ \A t \in B : t \in History /\ t[1] = m /\ <<t[2], t[3]>> \in A

LEMMA AsMany ==
  ASSUME BatchesKnown, IsFiniteSet(History), NEW m \in Hosts, NEW A, NEW B, Tagged(m, A, B)
  PROVE  IsFiniteSet(A) /\ IsFiniteSet(B) /\ Cardinality(A) = Cardinality(B)
<1>1. IsFiniteSet(B)
  BY FS_Subset DEF Tagged
<1>2. PICK j : j = [t \in B |-> <<t[2], t[3]>>]
  OBVIOUS
<1>3. \A t \in B : j[t] \in A /\ j[t] = <<t[2], t[3]>> /\ t = <<m, t[2], t[3]>>
  BY <1>2, PairsAre DEF Tagged
<1>4. ASSUME NEW x \in A PROVE \E t \in B : j[t] = x
  <2>1. x = <<x[1], x[2]>> /\ <<m, x[1], x[2]>> \in B
    BY PairsAre DEF Tagged
  <2>2. PICK t \in B : t = <<m, x[1], x[2]>>
    BY <2>1
  <2>3. j[t] = <<x[1], x[2]>>
    BY <1>3, <2>2
  <2>4. QED BY <2>1, <2>3
<1>5. \A s, t \in B : j[s] = j[t] => s = t
  BY <1>3
<1>6. Matches(j, B, A)
  BY <1>3, <1>4, <1>5 DEF Matches
<1>7. QED BY <1>1, <1>6, CardSame

CountedOf(m) == {x \in EventsOf(m) : Counted(x[2])}

LEMMA ActivityTagged ==
  ASSUME BatchesKnown, NEW m \in Hosts, NEW k, k.m = m
  PROVE  Tagged(m, {x \in CountedOf(m) : ActivityRow(m, x[2]) = k}, ActivityOf(k))
<1>1. ASSUME NEW x \in CountedOf(m), ActivityRow(m, x[2]) = k PROVE x \in EventsOf(m) /\ <<m, x[1], x[2]>> \in ActivityOf(k)
  BY <1>1, PairsAre DEF CountedOf, ActivityOf
<1>2. ASSUME NEW t \in ActivityOf(k) PROVE t \in History /\ t[1] = m /\ <<t[2], t[3]>> \in CountedOf(m) /\ ActivityRow(m, t[3]) = k
  BY PairsAre DEF ActivityOf, ActivityRow, CountedOf
<1>3. QED BY <1>1, <1>2 DEF Tagged

ActivityRight(m) ==
  /\ {k \in DOMAIN activity : k.m = m} = {ActivityRow(m, x[2]) : x \in CountedOf(m)}
  /\ \A k \in DOMAIN activity : k.m = m => activity[k] = Cardinality({x \in CountedOf(m) : ActivityRow(m, x[2]) = k})

LEMMA ActivityIsRight ==
  ASSUME BatchesKnown, IsFiniteSet(History), ActivityTrue, NEW m \in Hosts
  PROVE  ActivityRight(m)
<1>1. ASSUME NEW k \in DOMAIN activity, k.m = m
      PROVE  /\ activity[k] = Cardinality({x \in CountedOf(m) : ActivityRow(m, x[2]) = k})
             /\ \E x \in CountedOf(m) : ActivityRow(m, x[2]) = k
  <2>1. PICK A, B : A = {x \in CountedOf(m) : ActivityRow(m, x[2]) = k} /\ B = ActivityOf(k)
    OBVIOUS
  <2>2. Tagged(m, A, B)
    BY <1>1, <2>1, ActivityTagged
  <2>3. Cardinality(A) = Cardinality(B)
    BY <2>2, AsMany
  <2>4. B # {} /\ activity[k] = Cardinality(B)
    BY <1>1, <2>1 DEF ActivityTrue, RowTrue
  <2>5. A # {}
    BY <2>2, <2>4 DEF Tagged
  <2>6. QED BY <2>1, <2>3, <2>4, <2>5
<1>2. ASSUME NEW x \in CountedOf(m) PROVE ActivityRow(m, x[2]) \in DOMAIN activity /\ ActivityRow(m, x[2]).m = m
  <2>1. PICK k : k = ActivityRow(m, x[2])
    OBVIOUS
  <2>2. k.m = m
    BY <2>1 DEF ActivityRow
  <2>3. <<m, x[1], x[2]>> \in ActivityOf(k)
    BY <2>1, <2>2, ActivityTagged DEF Tagged
  <2>4. k \in DOMAIN activity
    BY <2>3 DEF ActivityTrue, RowTrue
  <2>5. QED BY <2>1, <2>2, <2>4
<1>3. {k \in DOMAIN activity : k.m = m} = {ActivityRow(m, x[2]) : x \in CountedOf(m)}
  <2>1. PICK A, B : A = {k \in DOMAIN activity : k.m = m} /\ B = {ActivityRow(m, x[2]) : x \in CountedOf(m)}
    OBVIOUS
  <2>2. \A k \in A : k \in B
    BY <1>1, <2>1
  <2>3. \A k \in B : k \in A
    BY <1>2, <2>1
  <2>4. QED BY <2>1, <2>2, <2>3
<1>4. QED BY <1>1, <1>3 DEF ActivityRight

\* The chart: a vendor's day is the rows of the agents it bills.
ChartOf(m) == [k \in {y \in DOMAIN activity : y.m = m} |-> activity[k]]

LEMMA ChartIsRight ==
  ASSUME BatchesKnown, IsFiniteSet(History), ActivityTrue, NEW m \in Hosts, NEW v, NEW d
  PROVE  Cardinality({x \in CountedOf(m) : AgentVendor(x[2].act.agent) = v /\ Day(x[2].at) = d})
           = DailyActivity(ChartOf(m), v, d).events
<1>1. PICK A, act, rows : /\ A = {x \in CountedOf(m) : AgentVendor(x[2].act.agent) = v /\ Day(x[2].at) = d}
                          /\ act = ChartOf(m) /\ rows = {o \in DOMAIN ChartOf(m) : AgentVendor(o.agent) = v /\ o.day = d}
  OBVIOUS
<1>2. PICK key : key = [x \in A |-> ActivityRow(m, x[2])]
  OBVIOUS
<1>3. /\ {k \in DOMAIN activity : k.m = m} = {ActivityRow(m, x[2]) : x \in CountedOf(m)}
      /\ \A k \in DOMAIN activity : k.m = m => activity[k] = Cardinality({x \in CountedOf(m) : ActivityRow(m, x[2]) = k})
  BY ActivityIsRight DEF ActivityRight
<1>4. \A x : ActivityRow(m, x[2]).agent = x[2].act.agent /\ ActivityRow(m, x[2]).day = Day(x[2].at)
  BY DEF ActivityRow
<1>5. ASSUME NEW x \in A PROVE key[x] \in rows /\ key[x] = ActivityRow(m, x[2])
  BY <1>1, <1>2, <1>3, <1>4 DEF ChartOf
<1>6. ASSUME NEW k \in rows
      PROVE  {x \in A : key[x] = k} = {x \in CountedOf(m) : ActivityRow(m, x[2]) = k} /\ act[k] = activity[k] /\ k \in DOMAIN activity /\ k.m = m
  <2>1. k \in DOMAIN activity /\ k.m = m /\ AgentVendor(k.agent) = v /\ k.day = d /\ act[k] = activity[k]
    BY <1>1 DEF ChartOf
  <2>2. ASSUME NEW x \in CountedOf(m), ActivityRow(m, x[2]) = k PROVE x \in A /\ key[x] = k
    BY <1>1, <1>4, <2>1, <2>2, <1>5
  <2>3. ASSUME NEW x \in A, key[x] = k PROVE x \in CountedOf(m) /\ ActivityRow(m, x[2]) = k
    BY <1>1, <1>5, <2>3
  <2>4. QED BY <2>1, <2>2, <2>3
<1>7. IsFiniteSet(A)
  <2>1. PICK B : B = {t \in History : t[1] = m /\ <<t[2], t[3]>> \in A}
    OBVIOUS
  <2>2. ASSUME NEW x \in A PROVE x \in EventsOf(m) /\ <<m, x[1], x[2]>> \in B
    <3>1. x \in EventsOf(m)
      BY <1>1 DEF CountedOf
    <3>2. x = <<x[1], x[2]>> /\ <<m, x[1], x[2]>> \in History
      BY <3>1, PairsAre
    <3>3. PICK t : t = <<m, x[1], x[2]>>
      OBVIOUS
    <3>4. t \in History /\ t[1] = m /\ <<t[2], t[3]>> = x
      BY <3>2, <3>3
    <3>5. QED BY <2>1, <3>1, <3>3, <3>4
  <2>3. Tagged(m, A, B)
    BY <2>1, <2>2 DEF Tagged
  <2>4. QED BY <2>3, AsMany
<1>8. IsFiniteSet(rows)
  <2>1. IsFiniteSet({key[x] : x \in A})
    BY <1>7, ImageFinite
  <2>2. ASSUME NEW k \in rows PROVE k \in {key[x] : x \in A}
    <3>1. k \in {ActivityRow(m, x[2]) : x \in CountedOf(m)}
      BY <1>3, <1>6
    <3>2. PICK x \in CountedOf(m) : ActivityRow(m, x[2]) = k
      BY <3>1
    <3>3. x \in {y \in A : key[y] = k}
      BY <1>6, <3>2
    <3>4. QED BY <3>3
  <2>3. QED BY <2>1, <2>2, FS_Subset
<1>9. Sizes(act, A, key, rows)
  <2>1. ASSUME NEW k \in rows PROVE act[k] = Cardinality({x \in A : key[x] = k})
    BY <1>3, <1>6
  <2>2. QED BY <2>1 DEF Sizes
<1>10. SumFunctionOnSet(act, rows) = Cardinality(A)
  BY <1>5, <1>7, <1>8, <1>9, CardParts
<1>11. DailyActivity(act, v, d).events = SumFunctionOnSet(act, rows)
  BY <1>1 DEF DailyActivity
<1>12. QED BY <1>1, <1>10, <1>11

AgentIs(m, k, mine, moded, a) ==
  /\ a.first = Min({e.at : e \in mine}) /\ a.last = Max({e.at : e \in mine})
  /\ a.events = Cardinality({y \in CountedOf(m) : y[2].act.agent = k[2]})
  /\ IF moded = {} THEN a.mode.mode = ""
     ELSE \E e \in moded : (\A x \in moded : x.at <= e.at) /\ a.mode = [mode |-> e.act.mode, at |-> e.at]

EventsAgent(m, k) == {x[2] : x \in {y \in CountedOf(m) : y[2].act.agent = k[2]}}
AgentRight(m) ==
  /\ {k \in DOMAIN agents : k[1] = m} = {<<m, x[2].act.agent>> : x \in CountedOf(m)}
  /\ \A k \in DOMAIN agents : k[1] = m =>
       AgentIs(m, k, EventsAgent(m, k), {e \in EventsAgent(m, k) : e.act.mode # ""}, agents[k])

LEMMA AgentTagged ==
  ASSUME BatchesKnown, NEW m \in Hosts, NEW k, k = <<m, k[2]>>
  PROVE  Tagged(m, {y \in CountedOf(m) : y[2].act.agent = k[2]}, AgentEvents(k))
<1>0. k[1] = m
  OBVIOUS
<1>1. ASSUME NEW x \in CountedOf(m), x[2].act.agent = k[2] PROVE x \in EventsOf(m) /\ <<m, x[1], x[2]>> \in AgentEvents(k)
  <2>1. x \in EventsOf(m) /\ Counted(x[2])
    BY DEF CountedOf
  <2>2. PICK t : t = <<m, x[1], x[2]>>
    OBVIOUS
  <2>3. t \in History /\ t[1] = m /\ t[3] = x[2]
    BY <2>1, <2>2, PairsAre
  <2>4. <<t[1], t[3].act.agent>> = k
    BY <1>1, <2>3
  <2>5. QED BY <2>1, <2>2, <2>3, <2>4 DEF AgentEvents
<1>2. ASSUME NEW t \in AgentEvents(k) PROVE t \in History /\ t[1] = m /\ <<t[2], t[3]>> \in CountedOf(m) /\ t[3].act.agent = k[2]
  BY <1>0, PairsAre DEF AgentEvents, CountedOf
<1>3. QED BY <1>1, <1>2 DEF Tagged

\* The events of A and those of B are the same.
LEMMA SameEvents ==
  ASSUME NEW m, NEW A, NEW B, Tagged(m, A, B)
  PROVE  {x[2] : x \in A} = {t[3] : t \in B}
<1>1. ASSUME NEW x \in A PROVE x[2] \in {t[3] : t \in B}
  <2>1. PICK t : t = <<m, x[1], x[2]>>
    OBVIOUS
  <2>2. t \in B /\ t[3] = x[2]
    BY <2>1 DEF Tagged
  <2>3. QED BY <2>2
<1>2. ASSUME NEW t \in B PROVE t[3] \in {x[2] : x \in A}
  <2>1. PICK x : x = <<t[2], t[3]>>
    OBVIOUS
  <2>2. x \in A /\ x[2] = t[3]
    BY <2>1 DEF Tagged
  <2>3. QED BY <2>2
<1>3. PICK P, Q : P = {x[2] : x \in A} /\ Q = {t[3] : t \in B}
  OBVIOUS
<1>4. (\A e \in P : e \in Q) /\ (\A e \in Q : e \in P)
  BY <1>1, <1>2, <1>3
<1>5. QED BY <1>3, <1>4

LEMMA AgentsAreRight ==
  ASSUME BatchesKnown, IsFiniteSet(History), AgentRowsTrue, NEW m \in Hosts
  PROVE  AgentRight(m)
<1>1. ASSUME NEW k \in DOMAIN agents
      PROVE  \E t \in AgentEvents(k) : t \in History /\ <<t[1], t[3].act.agent>> = k
  BY DEF AgentRowsTrue, AgentRow, AgentEvents
<1>2. ASSUME NEW k \in DOMAIN agents, k[1] = m PROVE k = <<m, k[2]>>
  BY <1>1, <1>2
<1>3. ASSUME NEW k \in DOMAIN agents, k[1] = m,
             NEW mine, mine = {x[2] : x \in {y \in CountedOf(m) : y[2].act.agent = k[2]}},
             NEW moded, moded = {e \in mine : e.act.mode # ""}, NEW a, a = agents[k]
      PROVE  AgentIs(m, k, mine, moded, a)
  <2>1. PICK A, B : A = {y \in CountedOf(m) : y[2].act.agent = k[2]} /\ B = AgentEvents(k)
    OBVIOUS
  <2>2. Tagged(m, A, B)
    BY <1>2, <1>3, <2>1, AgentTagged
  <2>3. Cardinality(A) = Cardinality(B)
    BY <2>2, AsMany
  <2>4. mine = {t[3] : t \in B}
    BY <1>3, <2>1, <2>2, SameEvents
  <2>5. TimesIn(B) = {e.at : e \in mine}
    BY <2>4 DEF TimesIn
  <2>6. /\ a.events = Cardinality(B) /\ a.first = Min(TimesIn(B))
        /\ a.last \in Latests(TimesIn(B)) /\ ModeOf(a.mode, ModedOf(B))
    <3>1. AgentRow(agents, k, B)
      BY <2>1, Zenon DEF AgentRowsTrue
    <3>2. B # {}
      BY <1>1, <2>1
    <3>3. QED BY <1>3, <3>1, <3>2 DEF AgentRow
  <2>7. TimesIn(B) \in SUBSET Nat
    BY <2>2, StoredTyped DEF Tagged, TimesIn
  <2>8. Max(TimesIn(B)) = a.last
    BY <2>6, <2>7, MaxIs DEF Latests
  <2>9. ModedOf(B) = moded
    <3>1. ASSUME NEW e \in ModedOf(B) PROVE e \in mine /\ e.act.mode # ""
      BY <2>4 DEF ModedOf
    <3>2. ASSUME NEW e \in mine, e.act.mode # "" PROVE e \in ModedOf(B)
      <4>1. PICK t \in B : t[3] = e
        BY <2>4
      <4>2. PICK S : S = {x \in B : x[3].act.mode # ""}
        OBVIOUS
      <4>3. t \in S /\ ModedOf(B) = {x[3] : x \in S}
        BY <3>2, <4>1, <4>2 DEF ModedOf
      <4>4. QED BY <4>1, <4>3
    <3>3. \A e \in moded : e \in mine /\ e.act.mode # ""
      BY <1>3
    <3>4. \A e \in mine : e.act.mode # "" => e \in moded
      BY <1>3
    <3>5. QED BY <3>1, <3>2, <3>3, <3>4
  <2>10. IF moded = {} THEN a.mode.mode = ""
         ELSE \E e \in moded : (\A x \in moded : x.at <= e.at) /\ a.mode = [mode |-> e.act.mode, at |-> e.at]
    <3>1. PICK E : E = ModedOf(B)
      OBVIOUS
    <3>2. ModeOf(a.mode, E) /\ moded = E
      BY <2>6, <2>9, <3>1
    <3>3. IF E = {} THEN a.mode.mode = ""
          ELSE \E e \in E : (\A x \in E : x.at <= e.at) /\ a.mode = [mode |-> e.act.mode, at |-> e.at]
      BY <3>2 DEF ModeOf
    <3>4. QED BY <3>2, <3>3
  <2>11. QED BY <2>1, <2>3, <2>5, <2>6, <2>8, <2>10 DEF AgentIs
<1>4. {k \in DOMAIN agents : k[1] = m} = {<<m, x[2].act.agent>> : x \in CountedOf(m)}
  <2>1. PICK P, Q : P = {k \in DOMAIN agents : k[1] = m} /\ Q = {<<m, x[2].act.agent>> : x \in CountedOf(m)}
    OBVIOUS
  <2>2. ASSUME NEW k \in P PROVE k \in Q
    <3>1. k \in DOMAIN agents /\ k = <<m, k[2]>>
      BY <1>2, <2>1
    <3>2. PICK t \in AgentEvents(k) : t \in History /\ <<t[1], t[3].act.agent>> = k
      BY <1>1, <3>1
    <3>3. PICK x : x = <<t[2], t[3]>>
      OBVIOUS
    <3>4. x \in CountedOf(m) /\ x[2].act.agent = k[2]
      BY <3>1, <3>2, <3>3, AgentTagged DEF Tagged
    <3>5. QED BY <2>1, <3>1, <3>4
  <2>3. ASSUME NEW k \in Q PROVE k \in P
    <3>1. PICK x \in CountedOf(m) : k = <<m, x[2].act.agent>>
      BY <2>1
    <3>2. k = <<m, k[2]>> /\ k[2] = x[2].act.agent /\ k[1] = m
      BY <3>1
    <3>3. <<m, x[1], x[2]>> \in AgentEvents(k)
      BY <3>2, AgentTagged DEF Tagged
    <3>4. k \in DOMAIN agents
      BY <3>3 DEF AgentRowsTrue, AgentRow
    <3>5. QED BY <2>1, <3>2, <3>4
  <2>4. QED BY <2>1, <2>2, <2>3
<1>5. ASSUME NEW k \in DOMAIN agents, k[1] = m
      PROVE  AgentIs(m, k, EventsAgent(m, k), {e \in EventsAgent(m, k) : e.act.mode # ""}, agents[k])
  <2>1. PICK s, n, b : s = EventsAgent(m, k) /\ n = {e \in s : e.act.mode # ""} /\ b = agents[k]
    OBVIOUS
  <2>2. s = {x[2] : x \in {y \in CountedOf(m) : y[2].act.agent = k[2]}}
    BY <2>1 DEF EventsAgent
  <2>3. AgentIs(m, k, s, n, b)
    BY <1>3, <1>5, <2>1, <2>2
  <2>4. QED BY <2>1, <2>3
<1>6. QED BY <1>4, <1>5, Zenon DEF AgentRight

ServersRight(m) ==
  \A k \in DOMAIN servers : k.m = m =>
    LET mine == {x \in CountedOf(m) : ServerOf(x[2]) # 0 /\ ServerRow(m, x[2]) = k}
    IN /\ servers[k].events = Cardinality(mine)
       /\ servers[k].unlisted = Cardinality({x \in mine : x[2].act.unlisted})

LEMMA ServersAreRight ==
  ASSUME BatchesKnown, IsFiniteSet(History), ServersTrue, NEW m \in Hosts
  PROVE  ServersRight(m)
<1>1. ASSUME NEW k \in DOMAIN servers, k.m = m,
             NEW mine, mine = {x \in CountedOf(m) : ServerOf(x[2]) # 0 /\ ServerRow(m, x[2]) = k}
      PROVE  servers[k].events = Cardinality(mine) /\ servers[k].unlisted = Cardinality({x \in mine : x[2].act.unlisted})
  <2>1. PICK B, U, V : B = UsesOf(k) /\ U = UnlistedOf(B) /\ V = {x \in mine : x[2].act.unlisted}
    OBVIOUS
  <2>2. ASSUME NEW x \in mine PROVE x \in EventsOf(m) /\ <<m, x[1], x[2]>> \in B
    BY <1>1, <2>1, PairsAre DEF CountedOf, UsesOf
  <2>3. ASSUME NEW t \in B PROVE t \in History /\ t[1] = m /\ <<t[2], t[3]>> \in mine
    BY <2>1, <1>1, PairsAre DEF UsesOf, ServerRow, CountedOf
  <2>4. Tagged(m, mine, B)
    BY <2>2, <2>3 DEF Tagged
  <2>5. Tagged(m, V, U)
    <3>1. ASSUME NEW x \in V PROVE x \in EventsOf(m) /\ <<m, x[1], x[2]>> \in U
      <4>1. PICK t : t = <<m, x[1], x[2]>>
        OBVIOUS
      <4>2. x \in mine /\ x[2].act.unlisted /\ t[3] = x[2]
        BY <2>1, <4>1
      <4>3. QED BY <2>1, <2>2, <4>1, <4>2 DEF UnlistedOf
    <3>2. ASSUME NEW t \in U PROVE t \in History /\ t[1] = m /\ <<t[2], t[3]>> \in V
      <4>1. PICK x : x = <<t[2], t[3]>>
        OBVIOUS
      <4>2. t \in B /\ t[3].act.unlisted /\ x[2] = t[3]
        BY <2>1, <4>1 DEF UnlistedOf
      <4>3. QED BY <2>1, <2>3, <4>1, <4>2
    <3>3. QED BY <3>1, <3>2 DEF Tagged
  <2>6. Cardinality(mine) = Cardinality(B) /\ Cardinality(V) = Cardinality(U)
    BY <2>4, <2>5, AsMany
  <2>7. UseRow(servers, k, B)
    BY <2>1, Zenon DEF ServersTrue
  <2>8. QED BY <1>1, <2>1, <2>6, <2>7 DEF UseRow
<1>2. QED BY <1>1 DEF ServersRight

OutcomesRight(m) ==
  \A k \in DOMAIN outcomes : k.m = m =>
    outcomes[k] = Cardinality({x \in EventsOf(m) : IsOutcome(x[2]) /\ OutcomeRow(m, x[2]) = k})

LEMMA OutcomesAreRight ==
  ASSUME BatchesKnown, IsFiniteSet(History), OutcomesTrue, NEW m \in Hosts
  PROVE  OutcomesRight(m)
<1>1. ASSUME NEW k \in DOMAIN outcomes, k.m = m
      PROVE  outcomes[k] = Cardinality({x \in EventsOf(m) : IsOutcome(x[2]) /\ OutcomeRow(m, x[2]) = k})
  <2>1. PICK A, B : A = {x \in EventsOf(m) : IsOutcome(x[2]) /\ OutcomeRow(m, x[2]) = k} /\ B = OutcomesOf(k)
    OBVIOUS
  <2>2. ASSUME NEW x \in A PROVE x \in EventsOf(m) /\ <<m, x[1], x[2]>> \in B
    BY <2>1, PairsAre DEF OutcomesOf
  <2>3. ASSUME NEW t \in B PROVE t \in History /\ t[1] = m /\ <<t[2], t[3]>> \in A
    BY <2>1, <1>1, PairsAre DEF OutcomesOf, OutcomeRow
  <2>4. Tagged(m, A, B)
    BY <2>2, <2>3 DEF Tagged
  <2>5. Cardinality(A) = Cardinality(B)
    BY <2>4, AsMany
  <2>6. RowTrue(outcomes, k, B)
    BY <2>1, Zenon DEF OutcomesTrue
  <2>7. QED BY <2>1, <2>5, <2>6 DEF RowTrue
<1>2. QED BY <1>1 DEF OutcomesRight

ShownPairs(m, k) ==
  UNION {{<<x, s>> : s \in {y \in Shows(x[2]) : x[2].act.agent = k[2] /\ y[1] = k[3]}} : x \in EventsOf(m)}
KeysRight(m) ==
  \A k \in DOMAIN keys : k[1] = m =>
    /\ Cardinality(KeyValues(k)) = keys[k].values /\ keys[k].values <= Caps[k[3]]
    /\ keys[k].overflow + SumFunction([v \in KeyValues(k) |-> values[v].seen]) = Cardinality(ShownPairs(m, k))

\* The value of a pair that an event shows.
LEMMA ShowsPairs ==
  ASSUME BatchesKnown, NEW t \in History, NEW s \in Shows(t[3])
  PROVE  s = <<s[1], s[2]>> /\ s[2] \in Nat
<1>1. t[3] \in LimitEvents /\ limit \in Limits
  BY StoredTyped DEF BatchesKnown
<1>2. NumbersOf(t[3].act) \subseteq Nat
  BY <1>1, EventsAre
<1>3. s \in Kinds \X NumbersOf(t[3].act)
  BY ShowsWhat
<1>4. QED BY <1>2, <1>3

LEMMA ShownAsMany ==
  ASSUME BatchesKnown, NEW m \in Hosts, NEW k, k[1] = m, IsFiniteSet(ShownBy(History, k))
  PROVE  Cardinality(ShownPairs(m, k)) = Cardinality(ShownBy(History, k))
<1>1. PICK A, B : A = ShownBy(History, k) /\ B = ShownPairs(m, k)
  OBVIOUS
<1>2. PICK j : j = [p \in A |-> <<<<p[1][2], p[1][3]>>, <<k[3], p[2]>>>>]
  OBVIOUS
<1>3. ASSUME NEW p \in A
      PROVE  /\ p = <<p[1], p[2]>> /\ p[1] \in History /\ p[1][1] = m /\ p[2] \in Nat
             /\ p[1][3].act.agent = k[2] /\ <<k[3], p[2]>> \in Shows(p[1][3])
             /\ j[p] = <<<<p[1][2], p[1][3]>>, <<k[3], p[2]>>>>
  <2>1. p \in History \X Nat /\ p[1][1] = k[1] /\ p[1][3].act.agent = k[2] /\ <<k[3], p[2]>> \in Shows(p[1][3])
    BY <1>1 DEF ShownBy
  <2>2. p = <<p[1], p[2]>> /\ p[1] \in History /\ p[2] \in Nat
    BY <2>1
  <2>3. j[p] = <<<<p[1][2], p[1][3]>>, <<k[3], p[2]>>>>
    BY <1>2
  <2>4. QED BY <2>1, <2>2, <2>3
<1>4. ASSUME NEW x \in EventsOf(m), NEW s \in Shows(x[2]), x[2].act.agent = k[2], s[1] = k[3] PROVE <<x, s>> \in B
  <2>1. PICK P : P = {<<x, y>> : y \in {z \in Shows(x[2]) : x[2].act.agent = k[2] /\ z[1] = k[3]}}
    OBVIOUS
  <2>2. <<x, s>> \in P
    BY <1>4, <2>1
  <2>3. P \in {{<<u, y>> : y \in {z \in Shows(u[2]) : u[2].act.agent = k[2] /\ z[1] = k[3]}} : u \in EventsOf(m)}
    BY <2>1
  <2>4. QED BY <1>1, <2>2, <2>3, Zenon DEF ShownPairs
<1>5. ASSUME NEW q \in B
      PROVE  \E x \in EventsOf(m) : \E s \in Shows(x[2]) : q = <<x, s>> /\ x[2].act.agent = k[2] /\ s[1] = k[3]
  BY <1>1 DEF ShownPairs
<1>6. ASSUME NEW p \in A PROVE j[p] \in B
  <2>1. PICK x, s : x = <<p[1][2], p[1][3]>> /\ s = <<k[3], p[2]>>
    OBVIOUS
  <2>2. x \in EventsOf(m) /\ x[2] = p[1][3]
    BY <1>3, <2>1, PairsAre
  <2>3. s \in Shows(x[2]) /\ s[1] = k[3] /\ x[2].act.agent = k[2]
    BY <1>3, <2>1, <2>2
  <2>4. <<x, s>> \in B
    BY <1>4, <2>2, <2>3
  <2>5. QED BY <1>3, <2>1, <2>4
<1>7. ASSUME NEW q \in B PROVE \E p \in A : j[p] = q
  <2>1. PICK x \in EventsOf(m) : \E s \in Shows(x[2]) : q = <<x, s>> /\ x[2].act.agent = k[2] /\ s[1] = k[3]
    BY <1>5
  <2>2. PICK s \in Shows(x[2]) : q = <<x, s>> /\ x[2].act.agent = k[2] /\ s[1] = k[3]
    BY <2>1
  <2>3. PICK t : t = <<m, x[1], x[2]>>
    OBVIOUS
  <2>4. x = <<x[1], x[2]>> /\ t \in History /\ t[1] = m /\ t[2] = x[1] /\ t[3] = x[2]
    BY <2>3, PairsAre
  <2>5. s = <<k[3], s[2]>> /\ s[2] \in Nat
    BY <2>2, <2>4, ShowsPairs
  <2>6. PICK p : p = <<t, s[2]>>
    OBVIOUS
  <2>7. p \in History \X Nat /\ p[1] = t /\ p[2] = s[2]
    BY <2>4, <2>5, <2>6
  <2>8. <<k[3], p[2]>> \in Shows(p[1][3])
    BY <2>4, <2>5, <2>7
  <2>9. p \in A
    BY <1>1, <2>2, <2>4, <2>7, <2>8 DEF ShownBy
  <2>10. j[p] = <<<<t[2], t[3]>>, <<k[3], s[2]>>>>
    BY <1>3, <2>7, <2>9
  <2>11. j[p] = q
    BY <2>2, <2>4, <2>5, <2>10
  <2>12. QED BY <2>9, <2>11
<1>8. ASSUME NEW p \in A, NEW q \in A, j[p] = j[q] PROVE p = q
  <2>1. PICK a, b, c : a = p[1][2] /\ b = p[1][3] /\ c = p[2]
    OBVIOUS
  <2>2. PICK d, e, f : d = q[1][2] /\ e = q[1][3] /\ f = q[2]
    OBVIOUS
  <2>3. j[p] = <<<<a, b>>, <<k[3], c>>>> /\ j[q] = <<<<d, e>>, <<k[3], f>>>>
    BY <1>3, <2>1, <2>2
  <2>4. <<a, b>> = <<d, e>> /\ <<k[3], c>> = <<k[3], f>>
    <3>1. PICK u, v : u = <<a, b>> /\ v = <<k[3], c>>
      OBVIOUS
    <3>2. PICK w, z : w = <<d, e>> /\ z = <<k[3], f>>
      OBVIOUS
    <3>3. <<u, v>> = <<w, z>>
      BY <1>8, <2>3, <3>1, <3>2, Zenon
    <3>4. u = w /\ v = z
      BY <3>3
    <3>5. QED BY <3>1, <3>2, <3>4
  <2>5. a = d /\ b = e /\ c = f
    BY <2>4
  <2>6. p[1] = <<m, a, b>> /\ q[1] = <<m, d, e>>
    BY <1>3, <2>1, <2>2, PairsAre
  <2>7. p = <<p[1], c>> /\ q = <<q[1], f>>
    BY <1>3, <2>1, <2>2
  <2>8. QED BY <2>5, <2>6, <2>7
<1>9. Matches(j, A, B)
  BY <1>6, <1>7, <1>8 DEF Matches
<1>10. QED BY <1>1, <1>9, CardSame

LEMMA KeysAreRight ==
  ASSUME BatchesKnown, KeysShaped, KeysTrue, ValuesSeen, NEW m \in Hosts
  PROVE  KeysRight(m)
<1>1. ASSUME NEW k \in DOMAIN keys, k[1] = m
      PROVE  /\ Cardinality(KeyValues(k)) = keys[k].values /\ keys[k].values <= Caps[k[3]]
             /\ keys[k].overflow + SumFunction([v \in KeyValues(k) |-> values[v].seen]) = Cardinality(ShownPairs(m, k))
  <2>1. PICK a, kind : a = k[2] /\ kind = k[3]
    OBVIOUS
  <2>2. k = <<m, a, kind>> /\ kind \in Kinds
    BY <1>1, <2>1 DEF KeysShaped
  <2>3. KeyTrue(k)
    BY <2>2 DEF KeysTrue
  <2>4. Before(k) = keys[k]
    BY <1>1 DEF Before
  <2>5. PICK V, f, g : V = KeyValues(k) /\ f = [v \in KeyValues(k) |-> values[v].seen] /\ g = SeenCounts
    OBVIOUS
  <2>6. IsFiniteSet(V) /\ IsFiniteSet(ShownBy(History, k))
    BY <2>3, <2>5 DEF KeyTrue
  <2>7. \A v \in V : f[v] \in Int /\ g[v] = f[v]
    BY <2>5 DEF SeenCounts, KeyValues, ValuesSeen
  <2>8. SumFunctionOnSet(f, V) = SumFunctionOnSet(g, V)
    BY <2>6, <2>7, SumSame
  <2>9. SumFunction(f) = SumFunctionOnSet(f, V)
    BY <2>5 DEF SumFunction, SumFunctionOnSet, FoldFunction, FoldFunctionOnSet
  <2>10. Cardinality(ShownPairs(m, k)) = Cardinality(ShownBy(History, k))
    BY <1>1, <2>6, ShownAsMany
  <2>11. QED BY <2>3, <2>4, <2>5, <2>8, <2>9, <2>10 DEF KeyTrue
<1>2. QED BY <1>1 DEF KeysRight

-----------------------------------------------------------------------------
\* Every table of every machine is what its stored batches say.
LEMMA RollupsRight ==
  ASSUME TablesTrue, NEW m \in Hosts
  PROVE  RollupsOf(m)
<1>1. /\ BatchesKnown /\ IsFiniteSet(History) /\ ActivityTrue /\ AgentRowsTrue /\ ServersTrue /\ OutcomesTrue
      /\ KeysShaped /\ KeysTrue /\ ValuesSeen
  BY DEF TablesTrue, BaselinesTrue, RowsTrue, SeenTrue
<1>2. ActivityRight(m)
  BY <1>1, ActivityIsRight
<1>3. \A v, d : Cardinality({x \in CountedOf(m) : AgentVendor(x[2].act.agent) = v /\ Day(x[2].at) = d})
                  = DailyActivity(ChartOf(m), v, d).events
  BY <1>1, ChartIsRight
<1>4. AgentRight(m)
  BY <1>1, AgentsAreRight
<1>5. ServersRight(m)
  BY <1>1, ServersAreRight
<1>6. OutcomesRight(m)
  BY <1>1, OutcomesAreRight
<1>7. KeysRight(m)
  BY <1>1, KeysAreRight
<1>8. QED
  BY <1>2, <1>3, <1>4, <1>5, <1>6, <1>7, Zenon
     DEF RollupsOf, ActivityRight, ChartOf, AgentRight, EventsAgent, AgentIs, ServersRight, OutcomesRight, KeysRight,
         KeyValues, ShownPairs, CountedOf

-----------------------------------------------------------------------------
(* PagesAgree, of a period: the report's groups, the listed agents, the     *)
(* enforcement counts and the servers' first times.                         *)

\* A table's rows, each of them the number of its events, add up to the events.
LEMMA RowsAdd ==
  ASSUME NEW A, IsFiniteSet(A), NEW rows, NEW table, NEW row,
         \A x \in A : row[x] \in rows, Sizes(table, A, row, rows), \A k \in rows : table[k] # 0
  PROVE  IsFiniteSet(rows) /\ SumFunctionOnSet(table, rows) = Cardinality(A) /\ \A k \in rows : table[k] \in Nat
<1>1. PICK J : J = {row[x] : x \in A}
  OBVIOUS
<1>2. IsFiniteSet(J)
  BY <1>1, ImageFinite
<1>3. ASSUME NEW k \in rows PROVE k \in J
  <2>1. PICK X : X = {x \in A : row[x] = k}
    OBVIOUS
  <2>2. X # {}
    BY <2>1, FS_EmptySet DEF Sizes
  <2>3. QED BY <1>1, <2>1, <2>2
<1>4. IsFiniteSet(rows)
  BY <1>3, <1>2, FS_Subset
<1>5. ASSUME NEW k \in rows PROVE table[k] \in Nat
  <2>1. PICK X : X = {x \in A : row[x] = k}
    OBVIOUS
  <2>2. IsFiniteSet(X)
    BY <2>1, FS_Subset
  <2>3. QED BY <2>1, <2>2, FS_CardinalityType DEF Sizes
<1>6. SumFunctionOnSet(table, rows) = Cardinality(A)
  BY <1>4, CardParts
<1>7. QED BY <1>4, <1>5, <1>6

\* Sum of groups of rows is the sum of the rows.
LEMMA GroupsAdd ==
  ASSUME NEW rows, IsFiniteSet(rows), NEW table, \A k \in rows : table[k] \in Nat,
         NEW I, NEW by, I = {by[k] : k \in rows}, NEW part, DOMAIN part = I, Parts(part, table, rows, by, I)
  PROVE  SumFunction(part) = SumFunctionOnSet(table, rows) /\ IsFiniteSet(I)
<1>1. IsFiniteSet(I)
  BY ImageFinite
<1>2. SumFunctionOnSet(part, I) = SumFunctionOnSet(table, rows)
  BY <1>1, SumParts
<1>3. SumFunction(part) = SumFunctionOnSet(part, DOMAIN part)
  BY DEF SumFunction, SumFunctionOnSet, FoldFunction, FoldFunctionOnSet
<1>4. QED BY <1>1, <1>2, <1>3

\* The day of a time and the day's start.
LEMMA DayStart ==
  ASSUME InventoryAssumption, NEW t \in Nat, NEW d \in Int
  PROVE  Day(t) \in Int /\ (t >= StartOf(d) <=> Day(t) >= d)
<1>1. PICK D, q, r, e : D = DayLength /\ q = t \div DayLength /\ r = t % DayLength /\ e = d - 1
  OBVIOUS
<1>2. D \in Nat \ {0}
  BY <1>1 DEF InventoryAssumption
<1>3. q \in Int /\ r \in 0 .. D - 1 /\ t = D * q + r
  BY <1>1, <1>2
<1>4. Day(t) = q + 1 /\ StartOf(d) = e * D /\ e \in Int
  BY <1>1 DEF Day, StartOf
<1>5. ASSUME q >= e PROVE t >= e * D
  <2>1. PICK n : n = q - e
    OBVIOUS
  <2>2. n \in Nat /\ q = e + n
    BY <1>3, <1>4, <1>5, <2>1
  <2>3. D * n >= 0
    BY <1>2, <2>2
  <2>4. D * q = e * D + D * n
    BY <1>2, <1>4, <2>2
  <2>5. QED BY <1>2, <1>3, <1>4, <2>2, <2>3, <2>4
<1>6. ASSUME q < e PROVE t < e * D
  <2>1. PICK n, a, b, c : n = e - q - 1 /\ a = D * q /\ b = D * n /\ c = e * D
    OBVIOUS
  <2>2. n \in Nat /\ e = q + 1 + n
    BY <1>3, <1>4, <1>6, <2>1
  <2>3. a \in Int /\ b \in Int /\ b >= 0
    BY <1>2, <1>3, <2>1, <2>2
  <2>4. c = a + D + b
    BY <1>2, <1>3, <2>1, <2>2
  <2>5. t = a + r
    BY <1>3, <2>1
  <2>6. t < c
    BY <1>2, <1>3, <2>3, <2>4, <2>5
  <2>7. QED BY <2>1, <2>6
<1>7. Day(t) \in Int /\ e * D \in Int /\ (Day(t) >= d <=> q >= e)
  BY <1>1, <1>2, <1>3, <1>4
<1>8. t >= e * D <=> q >= e
  BY <1>2, <1>3, <1>4, <1>5, <1>6, <1>7
<1>9. QED BY <1>4, <1>7, <1>8

-----------------------------------------------------------------------------
(* The report's agents in use.                                              *)

CountedSince(from) == {x \in History : Counted(x[3]) /\ Day(x[3].at) >= from}
AtWork(from)       == {x \in CountedSince(from) : x[3].act.agent \notin OrphanServers}
Recent(from)       == {x \in AtWork(from) : Day(x[3].at) <= Today + 1}

RowsOf(A, rows, table) ==
  /\ IsFiniteSet(A) /\ IsFiniteSet(rows) /\ SumFunctionOnSet(table, rows) = Cardinality(A)
  /\ \A k \in rows : table[k] \in Nat

LEMMA TodayNat == Today \in Nat
  BY DetectionAssumption, Zenon DEF DetectionAssumption

LEMMA InReportRows ==
  ASSUME BatchesKnown, IsFiniteSet(History), ActivityTrue, NEW from \in Days
  PROVE  /\ RowsOf(Recent(from), InReport(from), activity)
         /\ \A x \in Recent(from) : ActivityRow(x[1], x[3]) \in InReport(from)
         /\ \A k \in InReport(from) : \E x \in Recent(from) : ActivityRow(x[1], x[3]) = k
<1>1. PICK A, rows, row : A = Recent(from) /\ rows = InReport(from) /\ row = [x \in Recent(from) |-> ActivityRow(x[1], x[3])]
  OBVIOUS
<1>2. from \in Int /\ Today \in Int
  BY TodayNat DEF Days
<1>3. ASSUME NEW x \in A
      PROVE  /\ row[x] = ActivityRow(x[1], x[3]) /\ x \in ActivityOf(row[x]) /\ row[x].day = Day(x[3].at)
             /\ row[x].agent = x[3].act.agent /\ x \in History /\ Day(x[3].at) \in Int
  <2>1. x \in History /\ Counted(x[3]) /\ row[x] = ActivityRow(x[1], x[3])
    BY <1>1 DEF Recent, AtWork, CountedSince
  <2>2. x[3].at \in Nat
    BY <2>1, StoredTyped
  <2>3. Day(x[3].at) \in Int
    BY <2>2, DayStart, InventoryAssumption
  <2>4. QED BY <2>1, <2>3 DEF ActivityOf, ActivityRow
<1>4. ASSUME NEW x \in A PROVE row[x] \in rows
  <2>1. row[x] \in DOMAIN activity
    BY <1>3 DEF ActivityTrue, RowTrue
  <2>2. Day(x[3].at) >= from /\ Day(x[3].at) <= Today + 1 /\ x[3].act.agent \notin OrphanServers
    BY <1>1 DEF Recent, AtWork, CountedSince
  <2>3. row[x].day \in from .. Today + 1
    BY <1>2, <1>3, <2>2
  <2>4. QED BY <1>1, <1>3, <2>1, <2>2, <2>3 DEF InReport
<1>5. ASSUME NEW k \in rows
      PROVE  /\ {x \in A : row[x] = k} = ActivityOf(k) /\ activity[k] = Cardinality(ActivityOf(k))
             /\ activity[k] # 0 /\ ActivityOf(k) # {}
  <2>1. k \in DOMAIN activity /\ k.day \in from .. Today + 1 /\ k.agent \notin OrphanServers
    BY <1>1 DEF InReport
  <2>2. ActivityOf(k) # {} /\ activity[k] = Cardinality(ActivityOf(k))
    BY <2>1 DEF ActivityTrue, RowTrue
  <2>3. ASSUME NEW x \in ActivityOf(k) PROVE x \in A /\ row[x] = k
    BY <1>2, <2>1, <1>1, <1>3 DEF ActivityOf, ActivityRow, Recent, AtWork, CountedSince
  <2>4. \A x \in A : row[x] = k => x \in ActivityOf(k)
    BY <1>3
  <2>5. IsFiniteSet(ActivityOf(k))
    BY FS_Subset DEF ActivityOf
  <2>6. Cardinality(ActivityOf(k)) # 0
    BY <2>2, <2>5, FS_EmptySet
  <2>7. QED BY <2>2, <2>3, <2>4, <2>6
<1>6. IsFiniteSet(A)
  BY <1>3, FS_Subset
<1>7. Sizes(activity, A, row, rows)
  BY <1>5 DEF Sizes
<1>8. \A k \in rows : activity[k] # 0
  BY <1>5
<1>9. IsFiniteSet(rows) /\ SumFunctionOnSet(activity, rows) = Cardinality(A) /\ \A k \in rows : activity[k] \in Nat
  BY <1>4, <1>6, <1>7, <1>8, RowsAdd
<1>10. RowsOf(A, rows, activity)
  BY <1>6, <1>9 DEF RowsOf
<1>11. \A x \in A : ActivityRow(x[1], x[3]) \in rows
  BY <1>3, <1>4
<1>12. ASSUME NEW k \in rows PROVE \E x \in A : ActivityRow(x[1], x[3]) = k
  <2>1. PICK x \in A : row[x] = k
    BY <1>5
  <2>2. QED BY <1>3, <2>1
<1>13. QED BY <1>1, <1>10, <1>11, <1>12

GroupsRight(groups, by, rows, A) ==
  /\ DOMAIN groups = {by[o] : o \in rows}
  /\ SumFunction([g \in DOMAIN groups |-> groups[g].events]) = Cardinality(A)

LEMMA GroupedAdds ==
  ASSUME NEW rows, NEW A, RowsOf(A, rows, activity), NEW by, NEW who, NEW groups, groups = Grouped(rows, by, who)
  PROVE  GroupsRight(groups, by, rows, A)
<1>1. PICK I, part : I = {by[o] : o \in rows} /\ part = [g \in DOMAIN groups |-> groups[g].events]
  OBVIOUS
<1>2. DOMAIN groups = I
  BY <1>1 DEF Grouped
<1>3. ASSUME NEW g \in I PROVE groups[g].events = SumFunctionOnSet(activity, {o \in rows : by[o] = g})
  BY <1>1 DEF Grouped, Sum
<1>4. Parts(part, activity, rows, by, I) /\ DOMAIN part = I
  BY <1>1, <1>2, <1>3 DEF Parts
<1>5. SumFunction(part) = SumFunctionOnSet(activity, rows)
  BY <1>1, <1>4, GroupsAdd DEF RowsOf
<1>6. QED BY <1>1, <1>2, <1>5 DEF RowsOf, GroupsRight

InUseRight(from, inUse) ==
  /\ SumFunction([g \in DOMAIN inUse.byAgent |-> inUse.byAgent[g].events]) = Cardinality(Recent(from))
  /\ SumFunction([g \in DOMAIN inUse.byPerson |-> inUse.byPerson[g].events]) = Cardinality(Recent(from))
  /\ DOMAIN inUse.byAgent = {x[3].act.agent : x \in Recent(from)}

LEMMA InUseIsRight ==
  ASSUME BatchesKnown, IsFiniteSet(History), ActivityTrue, NEW from \in Days
  PROVE  InUseRight(from, InUse(from))
<1>1. PICK A, rows, agent, who, u : /\ A = Recent(from) /\ rows = InReport(from) /\ agent = [o \in InReport(from) |-> o.agent]
                                 /\ who = [o \in InReport(from) |-> ReportPerson(o)] /\ u = InUse(from)
  OBVIOUS
<1>2. u.byAgent = Grouped(rows, agent, who) /\ u.byPerson = Grouped(rows, who, who)
  BY <1>1 DEF InUse
<1>3. RowsOf(A, rows, activity)
  BY <1>1, InReportRows
<1>4. PICK ga, gp : ga = u.byAgent /\ gp = u.byPerson
  OBVIOUS
<1>5. GroupsRight(ga, agent, rows, A)
  BY <1>2, <1>3, <1>4, GroupedAdds
<1>6. GroupsRight(gp, who, rows, A)
  BY <1>2, <1>3, <1>4, GroupedAdds
<1>7. \A o \in rows : agent[o] = o.agent
  BY <1>1
<1>8. ASSUME NEW x \in A PROVE x[3].act.agent \in DOMAIN ga
  <2>1. PICK k \in rows : k = ActivityRow(x[1], x[3])
    BY <1>1, InReportRows
  <2>2. k.agent = x[3].act.agent
    BY <2>1 DEF ActivityRow
  <2>3. QED BY <1>5, <1>7, <2>1, <2>2 DEF GroupsRight
<1>9. ASSUME NEW a \in DOMAIN ga PROVE \E x \in A : a = x[3].act.agent
  <2>1. PICK k \in rows : a = k.agent
    BY <1>5, <1>7 DEF GroupsRight
  <2>2. PICK x \in A : ActivityRow(x[1], x[3]) = k
    BY <1>1, <2>1, InReportRows
  <2>3. k.agent = x[3].act.agent
    BY <2>2 DEF ActivityRow
  <2>4. QED BY <2>1, <2>2, <2>3
<1>10. DOMAIN ga = {x[3].act.agent : x \in A}
  BY <1>8, <1>9
<1>11. QED BY <1>1, <1>4, <1>5, <1>6, <1>10 DEF InUseRight, GroupsRight

-----------------------------------------------------------------------------
(* The inventory page's agents.                                             *)

ListedRight(from) == {k[2] : k \in AgentsListed(from)} = {x[3].act.agent : x \in AtWork(from)}

LEMMA ListedIsRight ==
  ASSUME BatchesKnown, IsFiniteSet(History), AgentRowsTrue, NEW from \in Days
  PROVE  ListedRight(from)
<1>1. from \in Int
  BY DEF Days
<1>2. ASSUME NEW x \in AtWork(from)
      PROVE  \E k \in AgentsListed(from) : k[2] = x[3].act.agent
  <2>1. x \in History /\ Counted(x[3]) /\ Day(x[3].at) >= from /\ x[3].act.agent \notin OrphanServers
    BY DEF AtWork, CountedSince
  <2>2. PICK k, T : k = <<x[1], x[3].act.agent>> /\ T = TimesIn(AgentEvents(k))
    OBVIOUS
  <2>3. x \in AgentEvents(k) /\ k[2] = x[3].act.agent
    BY <2>1, <2>2 DEF AgentEvents
  <2>4. k \in DOMAIN agents /\ agents[k].last \in Latests(T)
    BY <2>2, <2>3 DEF AgentRowsTrue, AgentRow
  <2>5. x[3].at \in T /\ T \subseteq Nat
    <3>1. x[3].at \in T
      BY <2>2, <2>3 DEF TimesIn
    <3>2. ASSUME NEW n \in T PROVE n \in Nat
      <4>1. PICK t \in AgentEvents(k) : n = t[3].at
        BY <2>2 DEF TimesIn
      <4>2. t \in History
        BY DEF AgentEvents
      <4>3. QED BY <4>1, <4>2, StoredTyped
    <3>3. QED BY <3>1, <3>2
  <2>6. PICK n : n = agents[k].last
    OBVIOUS
  <2>7. n \in Nat /\ x[3].at \in Nat /\ x[3].at <= n
    BY <2>4, <2>5, <2>6 DEF Latests
  <2>8. x[3].at >= StartOf(from)
    BY <1>1, <2>1, <2>7, DayStart, InventoryAssumption
  <2>9. n >= StartOf(from)
    BY <1>1, InventoryAssumption, <2>7, <2>8 DEF StartOf, InventoryAssumption
  <2>10. k \in AgentsListed(from)
    BY <2>1, <2>3, <2>4, <2>6, <2>9 DEF AgentsListed
  <2>11. QED BY <2>3, <2>10
<1>3. ASSUME NEW k \in AgentsListed(from)
      PROVE  \E x \in AtWork(from) : k[2] = x[3].act.agent
  <2>1. k \in DOMAIN agents /\ agents[k].last >= StartOf(from) /\ k[2] \notin OrphanServers
    BY DEF AgentsListed
  <2>2. agents[k].last \in Latests(TimesIn(AgentEvents(k)))
    BY <2>1 DEF AgentRowsTrue, AgentRow
  <2>3. PICK x \in AgentEvents(k) : x[3].at = agents[k].last
    BY <2>2 DEF Latests, TimesIn
  <2>4. x \in History /\ Counted(x[3]) /\ k[2] = x[3].act.agent
    BY DEF AgentEvents
  <2>5. x[3].at \in Nat
    BY <2>4, StoredTyped
  <2>6. Day(x[3].at) >= from
    BY <1>1, <2>1, <2>3, <2>5, DayStart, InventoryAssumption
  <2>7. x \in AtWork(from)
    BY <2>1, <2>4, <2>6 DEF AtWork, CountedSince
  <2>8. QED BY <2>4, <2>7
<1>4. {k[2] : k \in AgentsListed(from)} = {x[3].act.agent : x \in AtWork(from)}
  <2>1. PICK A, B : A = {k[2] : k \in AgentsListed(from)} /\ B = {x[3].act.agent : x \in AtWork(from)}
    OBVIOUS
  <2>2. \A a \in A : a \in B
    BY <1>3, <2>1
  <2>3. \A a \in B : a \in A
    BY <1>2, <2>1
  <2>4. QED BY <2>1, <2>2, <2>3
<1>5. QED BY <1>4 DEF ListedRight

-----------------------------------------------------------------------------
(* The report's enforcement counts.                                         *)

OutcomesIn(from, types) == {x \in History : IsOutcome(x[3]) /\ x[3].act.type \in types /\ Day(x[3].at) \in from .. Today}
RowsIn(from, types)     == {k \in OutcomesSince(from) : k.type \in types}

LEMMA OutcomeRows ==
  ASSUME BatchesKnown, IsFiniteSet(History), OutcomesTrue, NEW from \in Days, NEW types
  PROVE  RowsOf(OutcomesIn(from, types), RowsIn(from, types), outcomes)
<1>1. PICK A, rows, row : /\ A = OutcomesIn(from, types) /\ rows = RowsIn(from, types)
                          /\ row = [x \in OutcomesIn(from, types) |-> OutcomeRow(x[1], x[3])]
  OBVIOUS
<1>3. ASSUME NEW x \in A
      PROVE  /\ row[x] = OutcomeRow(x[1], x[3]) /\ x \in OutcomesOf(row[x]) /\ row[x].day = Day(x[3].at)
             /\ row[x].type = x[3].act.type /\ x \in History
  BY <1>1 DEF OutcomesIn, OutcomesOf, OutcomeRow
<1>4. ASSUME NEW x \in A PROVE row[x] \in rows
  BY <1>3, <1>1 DEF OutcomesTrue, RowTrue, OutcomesIn, RowsIn, OutcomesSince
<1>5. ASSUME NEW k \in rows
      PROVE  {x \in A : row[x] = k} = OutcomesOf(k) /\ outcomes[k] = Cardinality(OutcomesOf(k)) /\ outcomes[k] # 0
  <2>1. k \in DOMAIN outcomes /\ k.day \in from .. Today /\ k.type \in types
    BY <1>1 DEF RowsIn, OutcomesSince
  <2>2. OutcomesOf(k) # {} /\ outcomes[k] = Cardinality(OutcomesOf(k))
    BY <2>1 DEF OutcomesTrue, RowTrue
  <2>3. ASSUME NEW x \in OutcomesOf(k) PROVE x \in A /\ row[x] = k
    BY <1>1, <2>1, <1>3 DEF OutcomesOf, OutcomeRow, OutcomesIn
  <2>4. \A x \in A : row[x] = k => x \in OutcomesOf(k)
    BY <1>3
  <2>5. IsFiniteSet(OutcomesOf(k))
    BY FS_Subset DEF OutcomesOf
  <2>6. Cardinality(OutcomesOf(k)) # 0
    BY <2>2, <2>5, FS_EmptySet
  <2>7. QED BY <2>2, <2>3, <2>4, <2>6
<1>6. IsFiniteSet(A)
  BY <1>3, FS_Subset
<1>7. Sizes(outcomes, A, row, rows)
  BY <1>5 DEF Sizes
<1>8. \A k \in rows : outcomes[k] # 0
  BY <1>5
<1>9. IsFiniteSet(rows) /\ SumFunctionOnSet(outcomes, rows) = Cardinality(A) /\ \A k \in rows : outcomes[k] \in Nat
  BY <1>4, <1>6, <1>7, <1>8, RowsAdd
<1>10. QED BY <1>1, <1>6, <1>9 DEF RowsOf

BlocksOf(from)    == {x \in History : x[3].act.agent # "" /\ x[3].act.type = "blocked" /\ Day(x[3].at) \in from .. Today}
BlockedRows(from) == {k \in OutcomesSince(from) : k.type = "blocked"}

LEMMA BlockedRowsRight ==
  ASSUME BatchesKnown, IsFiniteSet(History), OutcomesTrue, NEW from \in Days
  PROVE  RowsOf(BlocksOf(from), BlockedRows(from), outcomes) /\ IsFiniteSet(OutcomesSince(from))
<1>1. OutcomesIn(from, {"blocked"}) = BlocksOf(from)
  BY DEF OutcomesIn, BlocksOf, IsOutcome, Enforced
<1>2. RowsIn(from, {"blocked"}) = BlockedRows(from)
  BY DEF RowsIn, BlockedRows
<1>3. RowsOf(BlocksOf(from), BlockedRows(from), outcomes)
  BY <1>1, <1>2, OutcomeRows
<1>4. PICK types : types = {k.type : k \in OutcomesSince(from)}
  OBVIOUS
<1>5. RowsIn(from, types) = OutcomesSince(from)
  BY <1>4 DEF RowsIn
<1>6. RowsOf(OutcomesIn(from, types), OutcomesSince(from), outcomes)
  BY <1>5, OutcomeRows
<1>7. QED BY <1>3, <1>6 DEF RowsOf

GroupedBy(I, by, rows) == I = {by[k] : k \in rows}

\* Groups of the blocked rows, by anything, add up to the blocks.
LEMMA BlocksAdd ==
  ASSUME BatchesKnown, IsFiniteSet(History), OutcomesTrue, NEW from \in Days, NEW B, B = BlockedRows(from),
         NEW by, NEW I, GroupedBy(I, by, B), NEW part, DOMAIN part = I, Parts(part, outcomes, B, by, I)
  PROVE  SumFunction(part) = Cardinality(BlocksOf(from))
<1>1. RowsOf(BlocksOf(from), B, outcomes)
  BY BlockedRowsRight
<1>2. SumFunction(part) = SumFunctionOnSet(outcomes, B)
  BY <1>1, GroupsAdd DEF RowsOf, GroupedBy
<1>3. QED BY <1>1, <1>2 DEF RowsOf

BlockedByAgent(B) == [a \in {k.agent : k \in B} |-> Sum(outcomes, {k \in B : k.agent = a})]
DailyOf(R)        == [d \in {<<k.day, k.type>> : k \in R} |-> Sum(outcomes, {k \in R : <<k.day, k.type>> = d})]
KindsOf(R)        == [kernel \in {k.kernel : k \in {x \in R : x.type # "file_open"}} |-> Tally({k \in R : k.kernel = kernel})]
Tallied(kinds)    == [k \in {x \in DOMAIN kinds : kinds[x] # Tally({})} |-> kinds[k]]

LEMMA ReportIs ==
  ASSUME NEW from, NEW R, R = OutcomesSince(from), NEW B, B = BlockedRows(from), NEW e, e = EnforcementReport(from)
  PROVE  /\ e.blocked = SumFunctionOnSet(outcomes, B) /\ e.byAgent = BlockedByAgent(B)
         /\ e.daily = DailyOf(R) /\ e.byKind = Tallied(KindsOf(R))
<1>1. B = {k \in R : k.type = "blocked"}
  BY DEF BlockedRows
<1>2. e.blocked = OfType(R, "blocked") /\ e.byAgent = BlockedByAgent({k \in R : k.type = "blocked"})
      /\ e.daily = DailyOf(R) /\ e.byKind = Tallied(KindsOf(R))
  BY DEF EnforcementReport, BlockedByAgent, DailyOf, KindsOf, Tallied
<1>3. OfType(R, "blocked") = SumFunctionOnSet(outcomes, B)
  BY <1>1 DEF OfType, Sum
<1>4. QED BY <1>1, <1>2, <1>3

LEMMA ByAgentAdds ==
  ASSUME BatchesKnown, IsFiniteSet(History), OutcomesTrue, NEW from \in Days, NEW B, B = BlockedRows(from)
  PROVE  SumFunction(BlockedByAgent(B)) = Cardinality(BlocksOf(from))
<1>1. PICK part, by, I : part = BlockedByAgent(B) /\ by = [k \in B |-> k.agent] /\ I = {k.agent : k \in B}
  OBVIOUS
<1>2. DOMAIN part = I
  BY <1>1 DEF BlockedByAgent
<1>3. GroupedBy(I, by, B)
  BY <1>1 DEF GroupedBy
<1>4. ASSUME NEW a \in I PROVE part[a] = SumFunctionOnSet(outcomes, {k \in B : by[k] = a})
  BY <1>1 DEF BlockedByAgent, Sum
<1>5. Parts(part, outcomes, B, by, I)
  BY <1>4 DEF Parts
<1>6. QED BY <1>1, <1>2, <1>3, <1>5, BlocksAdd

LEMMA DailyAdds ==
  ASSUME BatchesKnown, IsFiniteSet(History), OutcomesTrue, NEW from \in Days, NEW R, R = OutcomesSince(from),
         NEW daily, daily = DailyOf(R)
  PROVE  SumFunction([d \in {x \in DOMAIN daily : x[2] = "blocked"} |-> daily[d]]) = Cardinality(BlocksOf(from))
<1>1. PICK B, by, I, part : /\ B = BlockedRows(from) /\ by = [k \in B |-> <<k.day, k.type>>]
                            /\ I = {x \in DOMAIN daily : x[2] = "blocked"} /\ part = [d \in I |-> daily[d]]
  OBVIOUS
<1>2. DOMAIN part = I /\ \A d \in I : part[d] = daily[d]
  BY <1>1
<1>3. DOMAIN daily = {<<k.day, k.type>> : k \in R}
  BY DEF DailyOf
<1>4. \A k : k \in B <=> k \in R /\ k.type = "blocked"
  BY <1>1 DEF BlockedRows
<1>5. \A k \in B : by[k] = <<k.day, k.type>>
  BY <1>1
<1>6. ASSUME NEW k \in B PROVE by[k] \in I
  BY <1>3, <1>4, <1>5, <1>1
<1>7. ASSUME NEW d \in I PROVE \E k \in B : by[k] = d
  <2>1. d \in DOMAIN daily /\ d[2] = "blocked"
    BY <1>1
  <2>2. PICK k \in R : d = <<k.day, k.type>>
    BY <1>3, <2>1
  <2>3. k.type = "blocked"
    BY <2>1, <2>2
  <2>4. QED BY <1>4, <1>5, <2>2, <2>3
<1>8. GroupedBy(I, by, B)
  BY <1>6, <1>7 DEF GroupedBy
<1>9. ASSUME NEW d \in I PROVE part[d] = SumFunctionOnSet(outcomes, {k \in B : by[k] = d})
  <2>1. d \in DOMAIN daily /\ d[2] = "blocked"
    BY <1>1
  <2>2. ASSUME NEW k \in R, <<k.day, k.type>> = d PROVE k \in B /\ by[k] = d
    BY <2>1, <2>2, <1>4, <1>5
  <2>3. ASSUME NEW k \in B, by[k] = d PROVE k \in R /\ <<k.day, k.type>> = d
    BY <1>4, <1>5, <2>3
  <2>4. {k \in R : <<k.day, k.type>> = d} = {k \in B : by[k] = d}
    BY <2>2, <2>3
  <2>5. daily[d] = SumFunctionOnSet(outcomes, {k \in R : <<k.day, k.type>> = d})
    BY <1>3, <2>1 DEF DailyOf, Sum
  <2>6. QED BY <1>2, <2>4, <2>5
<1>10. Parts(part, outcomes, B, by, I)
  BY <1>9 DEF Parts
<1>11. SumFunction(part) = Cardinality(BlocksOf(from))
  BY <1>1, <1>2, <1>8, <1>10, BlocksAdd
<1>12. QED BY <1>1, <1>11

LEMMA KindsAdd ==
  ASSUME BatchesKnown, IsFiniteSet(History), OutcomesTrue, NEW from \in Days, NEW R, R = OutcomesSince(from),
         NEW byKind, byKind = Tallied(KindsOf(R))
  PROVE  SumFunction([k \in DOMAIN byKind |-> byKind[k].blocked]) = Cardinality(BlocksOf(from))
<1>1. PICK B, kinds, I, by : /\ B = BlockedRows(from) /\ kinds = KindsOf(R) /\ I = {k.kernel : k \in {x \in R : x.type # "file_open"}}
                             /\ by = [k \in B |-> k.kernel]
  OBVIOUS
<1>2. PICK part, some, shown : /\ part = [kernel \in I |-> SumFunctionOnSet(outcomes, {k \in B : by[k] = kernel})]
                               /\ some = DOMAIN byKind /\ shown = [k \in DOMAIN byKind |-> byKind[k].blocked]
  OBVIOUS
<1>3. \A k : k \in B <=> k \in R /\ k.type = "blocked"
  BY <1>1 DEF BlockedRows
<1>4. /\ IsFiniteSet(B) /\ IsFiniteSet(R) /\ SumFunctionOnSet(outcomes, B) = Cardinality(BlocksOf(from))
      /\ \A k \in B : outcomes[k] \in Nat
  BY <1>1, BlockedRowsRight DEF RowsOf
<1>5. IsFiniteSet(I)
  <2>1. PICK named, f : named = {x \in R : x.type # "file_open"} /\ f = [k \in R |-> k.kernel]
    OBVIOUS
  <2>2. IsFiniteSet(named) /\ \A k \in named : f[k] = k.kernel
    BY <1>4, <2>1, FS_Subset
  <2>3. IsFiniteSet({f[k] : k \in named})
    BY <2>2, ImageFinite
  <2>4. I = {f[k] : k \in named}
    BY <1>1, <2>1, <2>2
  <2>5. QED BY <2>3, <2>4
<1>6. ASSUME NEW k \in B PROVE by[k] \in I
  BY <1>1, <1>3
<1>7. SumFunctionOnSet(part, I) = SumFunctionOnSet(outcomes, B)
  <2>1. Parts(part, outcomes, B, by, I)
    BY <1>2 DEF Parts
  <2>2. \A k \in B : outcomes[k] \in Int /\ by[k] \in I
    BY <1>4, <1>6
  <2>3. QED BY <1>4, <1>5, <2>1, <2>2, SumParts
<1>8. ASSUME NEW i \in I PROVE kinds[i].blocked = part[i] /\ kinds[i] = Tally({k \in R : k.kernel = i}) /\ i \in DOMAIN kinds
  <2>1. kinds[i] = Tally({k \in R : k.kernel = i}) /\ i \in DOMAIN kinds
    BY <1>1 DEF KindsOf
  <2>2. PICK S, T : S = {k \in R : k.kernel = i} /\ T = {k \in B : by[k] = i}
    OBVIOUS
  <2>3. Tally(S).blocked = SumFunctionOnSet(outcomes, {k \in S : k.type = "blocked"})
    BY DEF Tally, OfType, Sum
  <2>4. {k \in S : k.type = "blocked"} = T
    BY <1>1, <1>3, <2>2
  <2>5. part[i] = SumFunctionOnSet(outcomes, T)
    BY <1>2, <2>2
  <2>6. QED BY <2>1, <2>2, <2>3, <2>4, <2>5
<1>9. DOMAIN kinds = I
  BY <1>1 DEF KindsOf
<1>10. some = {x \in I : kinds[x] # Tally({})} /\ \A k \in some : byKind[k] = kinds[k]
  BY <1>1, <1>2, <1>9 DEF Tallied
<1>11. ASSUME NEW i \in I \ some PROVE part[i] = 0
  <2>1. kinds[i] = Tally({})
    BY <1>10
  <2>2. Tally({}).blocked = SumFunctionOnSet(outcomes, {k \in {} : k.type = "blocked"})
    BY DEF Tally, OfType, Sum
  <2>3. {k \in {} : k.type = "blocked"} = {}
    OBVIOUS
  <2>4. SumFunctionOnSet(outcomes, {}) = 0
    BY SumNone
  <2>5. QED BY <1>8, <2>1, <2>2, <2>3, <2>4
<1>12. ASSUME NEW i \in I PROVE part[i] \in Int
  <2>1. PICK T : T = {k \in B : by[k] = i}
    OBVIOUS
  <2>2. T \subseteq B /\ part[i] = SumFunctionOnSet(outcomes, T)
    BY <1>2, <2>1
  <2>3. IsFiniteSet(T)
    BY <1>4, <2>2, FS_Subset
  <2>4. \A k \in T : outcomes[k] \in Int
    BY <1>4, <2>2
  <2>5. QED BY <2>2, <2>3, <2>4, SumInt
<1>13. SumFunctionOnSet(part, I) = SumFunctionOnSet(part, some)
  <2>1. PICK none : none = I \ some
    OBVIOUS
  <2>2. some \subseteq I
    BY <1>10
  <2>3. I = some \cup none /\ some \cap none = {} /\ none \subseteq I
    BY <2>1, <2>2
  <2>4. IsFiniteSet(some) /\ IsFiniteSet(none)
    BY <1>5, <2>2, <2>3, FS_Subset
  <2>5. SumFunctionOnSet(part, some \cup none) = SumFunctionOnSet(part, some) + SumFunctionOnSet(part, none)
    BY <1>12, <2>2, <2>3, <2>4, SumUnion
  <2>6. SumFunctionOnSet(part, none) = 0
    BY <1>11, <2>1, <2>4, SumZero
  <2>7. SumFunctionOnSet(part, some) \in Int
    BY <1>12, <2>2, <2>4, SumInt
  <2>8. QED BY <2>3, <2>5, <2>6, <2>7
<1>14. SumFunctionOnSet(part, some) = SumFunctionOnSet(shown, some)
  <2>1. IsFiniteSet(some) /\ some \subseteq I
    BY <1>5, <1>10, FS_Subset
  <2>2. ASSUME NEW k \in some PROVE part[k] \in Int /\ shown[k] = part[k]
    BY <1>2, <1>8, <1>10, <1>12, <2>1
  <2>3. QED BY <2>1, <2>2, SumSame
<1>15. SumFunction(shown) = SumFunctionOnSet(shown, some)
  BY <1>2 DEF SumFunction, SumFunctionOnSet, FoldFunction, FoldFunctionOnSet
<1>16. QED BY <1>2, <1>4, <1>7, <1>13, <1>14, <1>15

EnforcedRight(from, enforced) ==
  /\ enforced.blocked = Cardinality(BlocksOf(from)) /\ SumFunction(enforced.byAgent) = Cardinality(BlocksOf(from))
  /\ SumFunction([k \in DOMAIN enforced.byKind |-> enforced.byKind[k].blocked]) = Cardinality(BlocksOf(from))
  /\ SumFunction([d \in {x \in DOMAIN enforced.daily : x[2] = "blocked"} |-> enforced.daily[d]]) = Cardinality(BlocksOf(from))

LEMMA EnforcedIsRight ==
  ASSUME BatchesKnown, IsFiniteSet(History), OutcomesTrue, NEW from \in Days
  PROVE  EnforcedRight(from, EnforcementReport(from))
<1>1. PICK R, B, e : R = OutcomesSince(from) /\ B = BlockedRows(from) /\ e = EnforcementReport(from)
  OBVIOUS
<1>2. PICK byKind, daily : byKind = e.byKind /\ daily = e.daily
  OBVIOUS
<1>3. /\ e.blocked = SumFunctionOnSet(outcomes, B) /\ e.byAgent = BlockedByAgent(B)
      /\ daily = DailyOf(R) /\ byKind = Tallied(KindsOf(R))
  BY <1>1, <1>2, ReportIs
<1>4. e.blocked = Cardinality(BlocksOf(from))
  BY <1>1, <1>3, BlockedRowsRight DEF RowsOf
<1>5. SumFunction(e.byAgent) = Cardinality(BlocksOf(from))
  BY <1>1, <1>3, ByAgentAdds
<1>6. SumFunction([k \in DOMAIN byKind |-> byKind[k].blocked]) = Cardinality(BlocksOf(from))
  BY <1>1, <1>3, KindsAdd
<1>7. SumFunction([d \in {x \in DOMAIN daily : x[2] = "blocked"} |-> daily[d]]) = Cardinality(BlocksOf(from))
  BY <1>1, <1>3, DailyAdds
<1>8. QED BY <1>1, <1>2, <1>4, <1>5, <1>6, <1>7 DEF EnforcedRight

-----------------------------------------------------------------------------
(* The inventory page's servers.                                            *)

LEMMA MinSame ==
  ASSUME NEW A \in SUBSET Nat, NEW B \in SUBSET A, \A a \in A : \E b \in B : b <= a, A # {}
  PROVE  Min(B) = Min(A)
<1>1. PICK n : n = Min(B)
  OBVIOUS
<1>2. B # {} /\ B \in SUBSET Nat
  OBVIOUS
<1>3. n \in B /\ \A b \in B : n <= b
  BY <1>1, <1>2, MinLeast
<1>4. ASSUME NEW a \in A PROVE n <= a
  <2>1. PICK b \in B : b <= a
    OBVIOUS
  <2>2. n <= b /\ n \in Nat /\ b \in Nat /\ a \in Nat
    BY <1>2, <1>3
  <2>3. QED BY <2>1, <2>2
<1>5. Min(A) = n
  BY <1>3, <1>4, MinIs
<1>6. QED BY <1>1, <1>5

ServerUses(from, u) == {y \in CountedSince(from) : <<y[1], y[3].act.agent>> = <<u[1], u[2]>> /\ ServerOf(y[3]) = u[3]}
ServerRows(from, u) == {k \in DOMAIN servers : k.day >= from /\ <<k.m, k.agent, k.server>> = u}
ServerShown(u) ==
  IF <<u[1], u[2], "mcp", u[3]>> \in DOMAIN values
  THEN ShownAt({x[2] : x \in EventsOf(u[1])}, <<u[1], u[2], "mcp">>, u[3]) ELSE {}

\* A server's rows of the period are the events that used it.
LEMMA RowUses ==
  ASSUME BatchesKnown, ServersTrue, NEW from \in Days, NEW u
  PROVE  /\ \A k \in ServerRows(from, u) : \E t \in ServerUses(from, u) : t[3].at = servers[k].first /\ ServerOf(t[3]) # 0
         /\ \A t \in ServerUses(from, u) : t[3].at \in Nat
         /\ u = <<u[1], u[2], u[3]>> /\ u[3] # 0 =>
              \A t \in ServerUses(from, u) : \E k \in ServerRows(from, u) : servers[k].first <= t[3].at
<1>1. \A t \in History : t[3].at \in Nat
  BY StoredTyped
<1>2. ASSUME NEW k, NEW T, T = TimesIn(UsesOf(k)) PROVE T \in SUBSET Nat
  BY <1>1, <1>2 DEF TimesIn, UsesOf
<1>3. ASSUME NEW k \in ServerRows(from, u)
      PROVE  \E t \in ServerUses(from, u) : t[3].at = servers[k].first /\ ServerOf(t[3]) # 0
  <2>1. k \in DOMAIN servers /\ k.day >= from /\ <<k.m, k.agent, k.server>> = u
    BY DEF ServerRows
  <2>2. PICK T : T = TimesIn(UsesOf(k))
    OBVIOUS
  <2>3. UsesOf(k) # {} /\ servers[k].first = Min(T)
    BY <2>1, <2>2 DEF ServersTrue, UseRow
  <2>4. T # {} /\ T \in SUBSET Nat
    BY <1>2, <2>2, <2>3 DEF TimesIn
  <2>5. servers[k].first \in T
    BY <2>3, <2>4, MinLeast
  <2>6. PICK t \in UsesOf(k) : t[3].at = servers[k].first
    BY <2>2, <2>5 DEF TimesIn
  <2>7. t \in History /\ Counted(t[3]) /\ ServerOf(t[3]) # 0 /\ ServerRow(t[1], t[3]) = k
    BY DEF UsesOf
  <2>8. k.m = t[1] /\ k.agent = t[3].act.agent /\ k.server = ServerOf(t[3]) /\ k.day = Day(t[3].at)
    BY <2>7 DEF ServerRow
  <2>9. u[1] = k.m /\ u[2] = k.agent /\ u[3] = k.server
    BY <2>1
  <2>10. t \in ServerUses(from, u)
    BY <2>1, <2>7, <2>8, <2>9 DEF ServerUses, CountedSince
  <2>11. QED BY <2>6, <2>7, <2>10
<1>4. ASSUME NEW t \in ServerUses(from, u), u = <<u[1], u[2], u[3]>>, u[3] # 0
      PROVE  \E k \in ServerRows(from, u) : servers[k].first <= t[3].at
  <2>1. t \in History /\ Counted(t[3]) /\ Day(t[3].at) >= from /\ t[1] = u[1] /\ t[3].act.agent = u[2] /\ ServerOf(t[3]) = u[3]
    BY DEF ServerUses, CountedSince
  <2>2. PICK k, T : k = ServerRow(t[1], t[3]) /\ T = TimesIn(UsesOf(k))
    OBVIOUS
  <2>3. t \in UsesOf(k)
    BY <1>4, <2>1, <2>2 DEF UsesOf
  <2>4. k.m = t[1] /\ k.agent = t[3].act.agent /\ k.server = ServerOf(t[3]) /\ k.day = Day(t[3].at)
    BY <2>2 DEF ServerRow
  <2>5. k \in DOMAIN servers /\ servers[k].first = Min(T)
    BY <2>2, <2>3 DEF ServersTrue, UseRow
  <2>6. t[3].at \in T /\ T \in SUBSET Nat
    BY <1>2, <2>2, <2>3 DEF TimesIn
  <2>7. servers[k].first <= t[3].at
    <3>1. Min(T) \in T /\ \A n \in T : Min(T) <= n
      BY <2>6, MinLeast
    <3>2. QED BY <2>5, <2>6, <3>1
  <2>8. <<k.m, k.agent, k.server>> = u
    BY <1>4, <2>1, <2>4
  <2>9. k \in ServerRows(from, u)
    BY <2>1, <2>4, <2>5, <2>8 DEF ServerRows
  <2>10. QED BY <2>7, <2>9
<1>5. ASSUME NEW t \in ServerUses(from, u) PROVE t[3].at \in Nat
  BY <1>1 DEF ServerUses, CountedSince
<1>6. QED BY <1>3, <1>4, <1>5

LEMMA Appended ==
  ASSUME NEW m, NEW a, NEW kind, NEW v
  PROVE  Append(<<m, a, kind>>, v) = <<m, a, kind, v>>
<1> DEFINE U == {m, a, kind, v}
<1>1. PICK k, w, z : k = <<m, a, kind>> /\ w = Append(<<m, a, kind>>, v) /\ z = <<m, a, kind, v>>
  OBVIOUS
<1>2. k \in Seq(U) /\ Len(k) = 3 /\ k[1] = m /\ k[2] = a /\ k[3] = kind /\ v \in U
  BY <1>1
<1>3. z \in Seq(U) /\ Len(z) = 4 /\ z[1] = m /\ z[2] = a /\ z[3] = kind /\ z[4] = v
  BY <1>1
<1> HIDE DEF U
<1>4. w \in Seq(U) /\ Len(w) = 4 /\ w[4] = v /\ w[1] = m /\ w[2] = a /\ w[3] = kind
  BY <1>1, <1>2
<1>5. \A i \in 1 .. Len(w) : w[i] = z[i]
  BY <1>3, <1>4
<1>6. w = z
  BY <1>3, <1>4, <1>5, SeqEqual
<1>7. QED BY <1>1, <1>6

\* When a baseline says it first saw a server.
LEMMA BaselineShown ==
  ASSUME BatchesKnown, FirstsTrue, NEW u, u[1] \in Hosts, NEW w, w = <<u[1], u[2], "mcp", u[3]>>, w \in DOMAIN values
  PROVE  /\ ServerShown(u) \in SUBSET Nat /\ values[w].first \in ServerShown(u)
         /\ \A n \in ServerShown(u) : values[w].first <= n
<1>1. PICK m, a, v, X, T : m = u[1] /\ a = u[2] /\ v = u[3] /\ X = Showed(u[1], u[2], "mcp", u[3]) /\ T = TimesIn(Showed(u[1], u[2], "mcp", u[3]))
  OBVIOUS
<1>2. Append(<<m, a, "mcp">>, v) = w
  BY <1>1, Appended
<1>3. FirstTrue(m, a, "mcp", v, w)
  BY <1>1, <1>2 DEF FirstsTrue
<1>4. X # {} /\ values[w].first = Min(T)
  BY <1>1, <1>3 DEF FirstTrue
<1>5. T # {} /\ T \in SUBSET Nat
  <2>1. ASSUME NEW t \in X PROVE t[3].at \in Nat
    BY <1>1, StoredTyped DEF Showed
  <2>2. QED BY <1>1, <1>4, <2>1 DEF TimesIn
<1>6. values[w].first \in T /\ \A n \in T : values[w].first <= n
  <2>1. Min(T) \in T /\ \A n \in T : Min(T) <= n
    BY <1>5, MinLeast
  <2>2. QED BY <1>4, <2>1
<1>7. ServerShown(u) = ShownAt({x[2] : x \in EventsOf(m)}, <<m, a, "mcp">>, v)
  BY <1>1 DEF ServerShown
<1>8. ASSUME NEW t \in X PROVE t[3].at \in ServerShown(u)
  <2>1. t \in History /\ t[1] = m /\ t[3].act.agent = a /\ <<"mcp", v>> \in Shows(t[3])
    BY <1>1 DEF Showed
  <2>2. <<t[2], t[3]>> \in EventsOf(m)
    BY <1>1, <2>1, PairsAre
  <2>3. PICK x : x = <<t[2], t[3]>>
    OBVIOUS
  <2>4. x \in EventsOf(m) /\ x[2] = t[3]
    BY <2>2, <2>3
  <2>5. QED BY <1>7, <2>1, <2>4 DEF ShownAt
<1>9. ASSUME NEW n \in ServerShown(u) PROVE n \in T
  <2>1. PICK x \in EventsOf(m) : n = x[2].at /\ x[2].act.agent = a /\ <<"mcp", v>> \in Shows(x[2])
    BY <1>7 DEF ShownAt
  <2>2. <<m, x[1], x[2]>> \in History
    BY <1>1, PairsAre
  <2>3. PICK t : t = <<m, x[1], x[2]>>
    OBVIOUS
  <2>4. t \in X /\ t[3].at = n
    BY <1>1, <2>1, <2>2, <2>3 DEF Showed
  <2>5. QED BY <1>1, <2>4 DEF TimesIn
<1>10. ServerShown(u) = T
  BY <1>1, <1>8, <1>9 DEF TimesIn
<1>11. QED BY <1>5, <1>6, <1>10

FirstRight(from, u, first) == first = Min({e.at : e \in {x[3] : x \in ServerUses(from, u)}} \cup ServerShown(u))

LEMMA ServerUseFirst ==
  ASSUME BatchesKnown, ServersTrue, FirstsTrue, NEW from \in Days, NEW u, NEW listed, listed = ServersListed(from), u \in DOMAIN listed
  PROVE  FirstRight(from, u, listed[u].first)
<1>1. PICK rows, mine : rows = {k \in DOMAIN servers : k.day >= from} /\ mine = ServerRows(from, u)
  OBVIOUS
<1>2. PICK k \in rows : u = <<k.m, k.agent, k.server>>
  BY <1>1 DEF ServersListed
<1>3. mine = {x \in rows : <<x.m, x.agent, x.server>> = u}
  BY <1>1 DEF ServerRows
<1>4. listed[u] = ServerUse(mine)
  BY <1>1, <1>2, <1>3 DEF ServersListed
<1>5. PICK one, w, ever : one = (CHOOSE x \in mine : TRUE) /\ w = <<one.m, one.agent, "mcp", one.server>> /\ ever = Row(values, w)
  OBVIOUS
<1>6. listed[u].first = Min({servers[x].first : x \in mine} \cup {v.first : v \in ever})
  <2>1. ServerUse(mine).first = LET pick == CHOOSE x \in mine : TRUE
                                IN Min({servers[x].first : x \in mine}
                                       \cup {v.first : v \in Row(values, <<pick.m, pick.agent, "mcp", pick.server>>)})
    BY DEF ServerUse
  <2>2. ServerUse(mine).first = Min({servers[x].first : x \in mine} \cup {v.first : v \in ever})
    BY <1>5, <2>1, Zenon
  <2>3. QED BY <1>4, <2>2
<1>7. one \in mine
  BY <1>2, <1>3, <1>5
<1>8. u = <<one.m, one.agent, one.server>> /\ u = <<u[1], u[2], u[3]>> /\ w = <<u[1], u[2], "mcp", u[3]>>
  BY <1>3, <1>5, <1>7
<1>9. PICK uses, A, B, S : /\ uses = ServerUses(from, u) /\ S = ServerShown(u)
                           /\ A = {e.at : e \in {x[3] : x \in ServerUses(from, u)}} \cup ServerShown(u)
                           /\ B = {servers[x].first : x \in mine} \cup {v.first : v \in ever}
  OBVIOUS
<1>10. \A n : n \in A <=> (\E t \in uses : n = t[3].at) \/ n \in S
  BY <1>9
<1>11. \A n : n \in B <=> (\E x \in mine : n = servers[x].first) \/ (\E v \in ever : n = v.first)
  BY <1>9
<1>12. PICK t \in uses : t[3].at = servers[one].first /\ ServerOf(t[3]) # 0
  BY <1>1, <1>7, <1>9, RowUses
<1>13. u[1] \in Hosts /\ u[3] # 0
  BY <1>9, StoredTyped, <1>12 DEF ServerUses, CountedSince
<1>14. (\A x \in mine : \E y \in uses : y[3].at = servers[x].first) /\ (\A y \in uses : y[3].at \in Nat)
       /\ \A y \in uses : \E x \in mine : servers[x].first <= y[3].at
  BY <1>1, <1>8, <1>9, <1>13, RowUses
<1>15. CASE w \in DOMAIN values
  <2>1. S \in SUBSET Nat /\ values[w].first \in S /\ \A n \in S : values[w].first <= n
    BY <1>8, <1>9, <1>13, <1>15, BaselineShown
  <2>2. \A v : v \in ever <=> v = values[w]
    BY <1>5, <1>15 DEF Row
  <2>3. PICK f : f = values[w].first
    OBVIOUS
  <2>4. \A n : n \in B <=> (\E x \in mine : n = servers[x].first) \/ n = f
    BY <1>11, <2>2, <2>3
  <2>5. ASSUME NEW a \in A PROVE a \in Nat /\ \E b \in B : b <= a
    <3>1. CASE a \in S
      BY <2>1, <2>3, <2>4, <3>1
    <3>2. CASE \E y \in uses : a = y[3].at
      <4>1. PICK y \in uses : a = y[3].at
        BY <3>2
      <4>2. PICK x \in mine : servers[x].first <= y[3].at
        BY <1>14
      <4>3. servers[x].first \in B
        BY <2>4
      <4>4. QED BY <1>14, <4>1, <4>2, <4>3
    <3>3. QED BY <1>10, <3>1, <3>2
  <2>6. ASSUME NEW b \in B PROVE b \in A
    BY <1>10, <1>14, <2>1, <2>3, <2>4
  <2>7. A # {} /\ A \in SUBSET Nat /\ B \in SUBSET A
    BY <1>10, <2>1, <2>5, <2>6
  <2>8. Min(B) = Min(A)
    BY <2>5, <2>7, MinSame
  <2>9. QED BY <1>6, <1>9, <2>8 DEF FirstRight
<1>16. CASE w \notin DOMAIN values
  <2>1. S = {}
    BY <1>8, <1>9, <1>16 DEF ServerShown
  <2>2. ever = {}
    BY <1>5, <1>16 DEF Row
  <2>3. A \in SUBSET Nat /\ B \in SUBSET A
    BY <1>10, <1>11, <1>14, <2>1, <2>2
  <2>4. \A a \in A : \E b \in B : b <= a
    BY <1>10, <1>11, <1>14, <2>1, <2>2
  <2>5. A # {}
    BY <1>10, <1>12
  <2>6. Min(B) = Min(A)
    BY <2>3, <2>4, <2>5, MinSame
  <2>7. QED BY <1>6, <1>9, <2>6 DEF FirstRight
<1>17. QED BY <1>15, <1>16

-----------------------------------------------------------------------------
(* The pages agree with the events, and with the tables they are the        *)
(* property.                                                                *)

LEMMA PagesRight ==
  ASSUME TablesTrue, NEW from \in Days
  PROVE  PagesAgree(from)
<1>1. /\ BatchesKnown /\ IsFiniteSet(History) /\ ActivityTrue /\ AgentRowsTrue /\ ServersTrue /\ OutcomesTrue /\ FirstsTrue
  BY DEF TablesTrue, BaselinesTrue, RowsTrue, SeenTrue
<1>2. PICK inUse, enforced, listed : inUse = InUse(from) /\ enforced = EnforcementReport(from) /\ listed = ServersListed(from)
  OBVIOUS
<1>3. InUseRight(from, inUse)
  BY <1>1, <1>2, InUseIsRight
<1>4. ListedRight(from)
  BY <1>1, ListedIsRight
<1>5. EnforcedRight(from, enforced)
  BY <1>1, <1>2, EnforcedIsRight
<1>6. \A u \in DOMAIN listed : FirstRight(from, u, listed[u].first)
  BY <1>1, <1>2, ServerUseFirst
<1>7. QED
  BY <1>2, <1>3, <1>4, <1>5, <1>6, Zenon
     DEF PagesAgree, InUseRight, ListedRight, EnforcedRight, FirstRight, ServerUses, ServerShown, Recent, AtWork, CountedSince,
         BlocksOf, History

LEMMA TablesAgree == TablesTrue => RollupsAreTheEvents
  BY PagesRight, RollupsRight DEF RollupsAreTheEvents

\* Whatever order batches come in and however often they are sent, the daily
\* activity, the agents, the servers, the outcomes and the baselines' counts are
\* those of the stored events, each counted once, and the report and the inventory
\* page say the same of any period (ingest's rollups, buildReport, getInventory).
THEOREM RollupsAreEvents == InventorySpec => []RollupsAreTheEvents
<1>1. InventorySpec => InventoryInit /\ [][InventoryNext]_inventoryVars
  BY DEF InventorySpec
<1>2. QED BY <1>1, TablesAlways, TablesAgree, PTL
=============================================================================
