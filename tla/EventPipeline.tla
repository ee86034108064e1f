----------------------------- MODULE EventPipeline -----------------------------
(***************************************************************************)
(* effigentd's event sink in front of EventIngest: the memory queue, the   *)
(* sending loop with its retries, the disk spool and its replay, stops,    *)
(* crashes and restarts of the daemon, and outages of the control plane.   *)
(***************************************************************************)
EXTENDS EventIngest, SequencesExt

CONSTANTS
  MaxEvents,   \* bound on the events written
  QueueSize, BatchSize,
  SpoolOn,     \* the spool directory could be made
  SpoolMax,    \* batches the spool holds
  Attempts,    \* sends of a new batch before it is spooled
  ReplayMax,   \* spooled batches sent per flush
  MaxStops,    \* bound on stops and crashes of the daemon
  MaxOutages   \* bound on outages

VARIABLES
  daemon,   \* "up", "closing" (the queue is closed), "off"
  queue,    \* the channel of events
  batch,    \* the loop's slice
  loop,     \* where the loop is, and the batch it delivers
  spool,    \* the files, oldest first
  down, probe,  \* the last attempt failed; nextProbe has come
  written,  \* events written so far
  stops, outages, outage,  \* stops and outages left; one is on
  sent, dropped, lost      \* history: events counted as sent, as dropped, and lost with the memory

sinkVars == <<daemon, queue, batch, loop, spool, down, probe, written, stops, outages, outage,
              sent, dropped, lost>>
counted  == <<sent, dropped, lost>>
network  == <<reqs, lock, chain, followed, revoked>>
pipeVars == <<ingestVars, sinkVars>>

ASSUME PipelineAssumption ==
  /\ Events = 1..MaxEvents /\ SpoolOn \in BOOLEAN
  /\ {QueueSize, BatchSize, SpoolMax, Attempts, ReplayMax} \subseteq Nat \ {0}
  /\ {MaxEvents, MaxStops, MaxOutages} \subseteq Nat

\* selecting; posting (waiting in `slot', with `left' sends to go); spooling;
\* replaying (the n-th file of this flush); removing the file that was sent.
Selecting == [pc |-> "selecting", batch |-> NoBatch, left |-> 0, slot |-> NoSlot,
              file |-> FALSE, final |-> FALSE, n |-> 0]
Loops == [pc : {"selecting", "posting", "spooling", "replaying", "removing"}, batch : Batches,
          left : 0..Attempts, slot : Slots \cup {NoSlot}, file : BOOLEAN, final : BOOLEAN,
          n : 0..ReplayMax]

TypeOK ==
  /\ IngestTypeOK
  /\ daemon \in {"up", "closing", "off"}
  /\ queue \in Seq(Events) /\ Len(queue) <= QueueSize
  /\ batch \subseteq Events /\ Cardinality(batch) < BatchSize
  /\ loop \in Loops /\ (loop.slot # NoSlot => loop.pc = "posting")
  /\ spool \in Seq(Batches) /\ \A i, j \in DOMAIN spool : spool[i].id = spool[j].id => i = j
  /\ {down, probe, outage} \subseteq BOOLEAN
  /\ written \in 0..MaxEvents /\ stops \in 0..MaxStops /\ outages \in 0..MaxOutages
  /\ {sent, dropped, lost} \subseteq SUBSET Events
  /\ daemon = "off" => loop = Selecting /\ queue = <<>> /\ batch = {}

Restful == down /\ ~probe   \* before nextProbe
FirstOf(es) == CHOOSE e \in es : \A f \in es : e <= f

-----------------------------------------------------------------------------
\* Write: the queue takes the event or it is dropped.
Write ==
  /\ daemon = "up" /\ written < MaxEvents
  /\ written' = written + 1
  /\ IF Len(queue) < QueueSize
     THEN queue' = Append(queue, written + 1) /\ UNCHANGED dropped
     ELSE dropped' = dropped \cup {written + 1} /\ UNCHANGED queue
  /\ UNCHANGED <<network, daemon, batch, loop, spool, down, probe, stops, outages, outage, sent, lost>>

\* deliver: spool while the backend is down, else send.  A batch id is random;
\* a batch is named here by its first event.
Deliver(es, final) ==
  LET b == [id |-> FirstOf(es), events |-> es, torn |-> FALSE] IN
  loop' = IF Restful /\ SpoolOn
          THEN [Selecting EXCEPT !.pc = "spooling", !.batch = b, !.final = final]
          ELSE [Selecting EXCEPT !.pc = "posting", !.batch = b, !.final = final,
                                 !.left = IF final \/ down THEN 1 ELSE Attempts]

Replaying(n) == [Selecting EXCEPT !.pc = "replaying", !.n = n]

\* An event is taken from the queue; a full batch is flushed.
TakeEvent ==
  /\ daemon # "off" /\ loop.pc = "selecting" /\ queue # <<>>
  /\ queue' = Tail(queue)
  /\ LET es == batch \cup {Head(queue)} IN
       IF Cardinality(es) >= BatchSize
       THEN batch' = {} /\ Deliver(es, FALSE)
       ELSE batch' = es /\ UNCHANGED loop
  /\ UNCHANGED <<network, daemon, spool, down, probe, written, stops, outages, outage, counted>>

\* The ticker flushes what there is and replays the spool.
Tick ==
  /\ daemon # "off" /\ loop.pc = "selecting" /\ (batch # {} \/ spool # <<>>)
  /\ batch' = {}
  /\ IF batch # {} THEN Deliver(batch, FALSE) ELSE loop' = Replaying(0)
  /\ UNCHANGED <<network, daemon, queue, spool, down, probe, written, stops, outages, outage, counted>>

\* The closed queue is empty: the last batch is sent once, without a replay.
FinalFlush ==
  /\ daemon = "closing" /\ loop.pc = "selecting" /\ queue = <<>>
  /\ batch' = {}
  /\ IF batch # {}
     THEN Deliver(batch, TRUE) /\ UNCHANGED daemon
     ELSE daemon' = "off" /\ UNCHANGED loop
  /\ UNCHANGED <<network, queue, spool, down, probe, written, stops, outages, outage, counted>>

-----------------------------------------------------------------------------
\* post and what deliver and replay make of its outcome.

Delivered ==
  IF loop.final
  THEN loop' = Selecting /\ daemon' = "off"
  ELSE loop' = Replaying(0) /\ UNCHANGED daemon

Conclude(answer) ==
  LET es == loop.batch.events IN
  /\ sent' = IF answer = "ok" THEN sent \cup es ELSE sent
  /\ dropped' = IF answer = "refused" \/ (answer = "retry" /\ ~loop.file /\ ~SpoolOn)
                THEN dropped \cup es ELSE dropped
  /\ down' = CASE answer = "ok" -> FALSE [] answer = "retry" -> TRUE [] answer = "refused" -> down
  /\ probe' = (probe /\ answer = "refused")
  /\ IF answer = "retry" /\ loop.file
     THEN loop' = Selecting /\ UNCHANGED daemon
     ELSE IF answer = "retry" /\ SpoolOn
     THEN /\ loop' = [loop EXCEPT !.pc = "spooling", !.slot = NoSlot, !.left = 0]
          /\ UNCHANGED daemon
     ELSE IF loop.file
     THEN /\ loop' = [loop EXCEPT !.pc = "removing", !.slot = NoSlot]
          /\ UNCHANGED daemon
     ELSE Delivered

\* An attempt failed in a way that may pass.
Again ==
  IF loop.left = 0
  THEN Conclude("retry")
  ELSE loop' = [loop EXCEPT !.slot = NoSlot] /\ UNCHANGED <<daemon, down, probe, sent, dropped>>

Send ==
  /\ loop.pc = "posting" /\ loop.slot = NoSlot /\ loop.left > 0
  /\ \E h \in Slots :
       /\ Arrive(h, loop.batch)
       /\ loop' = [loop EXCEPT !.slot = h, !.left = @ - 1]
  /\ UNCHANGED <<daemon, queue, batch, spool, down, probe, written, stops, outages, outage, counted>>

Reply ==
  /\ loop.pc = "posting" /\ loop.slot # NoSlot /\ reqs[loop.slot].pc \in Answers
  /\ Leave(loop.slot)
  /\ IF reqs[loop.slot].pc = "retry" THEN Again ELSE Conclude(reqs[loop.slot].pc)
  /\ UNCHANGED <<queue, batch, spool, written, stops, outages, outage, lost>>

\* No connection, or no answer in time; the request may still be running.
SendFails ==
  /\ outage /\ loop.pc = "posting"
  /\ \/ loop.slot # NoSlot /\ Again
     \/ loop.slot = NoSlot /\ loop.left = 1 /\ Conclude("retry")
     \/ /\ loop.slot = NoSlot /\ loop.left > 1
        /\ loop' = [loop EXCEPT !.left = @ - 1]
        /\ UNCHANGED <<daemon, down, probe, sent, dropped>>
  /\ UNCHANGED <<network, queue, batch, spool, written, stops, outages, outage, lost>>

-----------------------------------------------------------------------------
\* The spool.

\* The oldest files go until the new one fits.
Evicted == IF Len(spool) >= SpoolMax THEN Len(spool) - SpoolMax + 1 ELSE 0
Room    == SubSeq(spool, Evicted + 1, Len(spool))
EvictedEvents == UNION {spool[i].events : i \in 1..Evicted}

\* Mutant: what is evicted isn't counted.
SpoolUncounted ==
  /\ loop.pc = "spooling"
  /\ spool' = Append(Room, loop.batch) /\ UNCHANGED dropped
  /\ Delivered
  /\ UNCHANGED <<network, queue, batch, down, probe, written, stops, outages, outage, sent, lost>>

\* Room is made and the batch written; on a disk error it is dropped.
Spool ==
  /\ loop.pc = "spooling"
  /\ \/ spool' = Append(Room, loop.batch) /\ dropped' = dropped \cup EvictedEvents
     \/ spool' = Room /\ dropped' = dropped \cup EvictedEvents \cup loop.batch.events
  /\ Delivered
  /\ UNCHANGED <<network, queue, batch, down, probe, written, stops, outages, outage, sent, lost>>

\* Mutant: while the backend counts as down the spool isn't tried, so nothing
\* finds out that it is back.
ReplayIfUp ==
  /\ loop.pc = "replaying"
  /\ loop' = IF SpoolOn /\ ~down /\ spool # <<>> /\ loop.n < ReplayMax
             THEN [loop EXCEPT !.pc = "posting", !.left = 1, !.file = TRUE, !.batch = Head(spool)]
             ELSE Selecting
  /\ UNCHANGED <<network, daemon, queue, batch, spool, down, probe, written, stops, outages, outage, counted>>

\* replay: the oldest file is sent once, while the backend takes them.
Replay ==
  /\ loop.pc = "replaying"
  /\ loop' = IF SpoolOn /\ ~Restful /\ spool # <<>> /\ loop.n < ReplayMax
             THEN [loop EXCEPT !.pc = "posting", !.left = 1, !.file = TRUE, !.batch = Head(spool)]
             ELSE Selecting
  /\ UNCHANGED <<network, daemon, queue, batch, spool, down, probe, written, stops, outages, outage, counted>>

RemoveFile ==
  /\ loop.pc = "removing"
  /\ spool' = Tail(spool)
  /\ loop' = Replaying(loop.n + 1)
  /\ UNCHANGED <<network, daemon, queue, batch, down, probe, written, stops, outages, outage, counted>>

ProbeDue ==
  /\ Restful /\ probe' = TRUE
  /\ UNCHANGED <<network, daemon, queue, batch, loop, spool, down, written, stops, outages, outage, counted>>

-----------------------------------------------------------------------------
\* The daemon stops, is killed, and starts again; the control plane goes away.

Close ==
  /\ daemon = "up" /\ stops > 0
  /\ daemon' = "closing" /\ stops' = stops - 1
  /\ UNCHANGED <<network, queue, batch, loop, spool, down, probe, written, outages, outage, counted>>

\* What is in memory is gone.  A kill inside os.WriteFile or before the rename
\* leaves a temporary file, whole or torn, whose name replay reads first.
Crash ==
  /\ daemon # "off" /\ stops > 0
  /\ stops' = stops - 1 /\ daemon' = "off"
  /\ queue' = <<>> /\ batch' = {} /\ loop' = Selecting
  /\ LET memory == ToSet(queue) \cup batch
         new    == IF loop.file THEN {} ELSE loop.batch.events
     IN  \/ spool' = spool /\ lost' = lost \cup memory \cup new /\ UNCHANGED dropped
         \/ /\ loop.pc = "spooling"
            /\ \E torn \in BOOLEAN :
                 /\ spool' = <<[loop.batch EXCEPT !.torn = torn]>> \o Room
                 /\ lost' = lost \cup memory \cup IF torn THEN new ELSE {}
            /\ dropped' = dropped \cup EvictedEvents
  /\ UNCHANGED <<network, down, probe, written, outages, outage, sent>>

Start ==
  /\ daemon = "off"
  /\ daemon' = "up" /\ down' = FALSE /\ probe' = FALSE
  /\ UNCHANGED <<network, queue, batch, loop, spool, written, stops, outages, outage, counted>>

OutageBegins ==
  /\ ~outage /\ outages > 0
  /\ outage' = TRUE /\ outages' = outages - 1
  /\ UNCHANGED <<network, daemon, queue, batch, loop, spool, down, probe, written, stops, counted>>

OutageEnds ==
  /\ outage /\ outage' = FALSE
  /\ UNCHANGED <<network, daemon, queue, batch, loop, spool, down, probe, written, stops, outages, counted>>

\* The control plane's own steps.  It fails only during an outage; a request
\* nobody waits for is cut off, at once or never.
Serve(h)  == (Begin(h) \/ Commit(h) \/ FollowUp(h)) /\ UNCHANGED sinkVars
Break(h)  == outage /\ ServerFails(h) /\ UNCHANGED sinkVars
CutOff(h) == loop.slot # h /\ Leave(h) /\ UNCHANGED sinkVars
RevokeEndpoint == Revoke /\ UNCHANGED sinkVars

-----------------------------------------------------------------------------
Init ==
  /\ IngestInit
  /\ daemon = "up" /\ queue = <<>> /\ batch = {} /\ loop = Selecting /\ spool = <<>>
  /\ down = FALSE /\ probe = FALSE
  /\ written = 0 /\ stops = MaxStops /\ outages = MaxOutages /\ outage = FALSE
  /\ sent = {} /\ dropped = {} /\ lost = {}

Sending == TakeEvent \/ FinalFlush \/ Send \/ Reply \/ Spool \/ Replay \/ RemoveFile

Next ==
  \/ Write \/ Tick \/ Sending \/ SendFails \/ ProbeDue
  \/ Close \/ Crash \/ Start \/ OutageBegins \/ OutageEnds \/ RevokeEndpoint
  \/ \E h \in Slots : Serve(h) \/ Break(h) \/ CutOff(h)

\* The loop runs, the ticker ticks, nextProbe comes, the server works and
\* notices who has gone; an outage ends and the service manager starts a
\* stopped daemon.  Nobody needs to write, to stop or to revoke anything.
Fairness ==
  /\ WF_pipeVars(Sending) /\ WF_pipeVars(Tick) /\ WF_pipeVars(ProbeDue)
  /\ WF_pipeVars(Start) /\ WF_pipeVars(OutageEnds)
  /\ \A h \in Slots : WF_pipeVars(Serve(h)) /\ WF_pipeVars(CutOff(h))

Spec     == Init /\ [][Next]_pipeVars
FairSpec == Spec /\ Fairness

-----------------------------------------------------------------------------
\* An event is in one stored batch at most: retries after a lost answer,
\* replays after a crash and requests that outlive their client are all
\* recognised by the batch id, which the spool keeps.
StoredOnce ==
  \A i, j \in DOMAIN chain : i # j => chain[i].events \cap chain[j].events = {}

\* The sink counts as sent only what the control plane has committed, even
\* when an answer is late or the server fails around its commit.
SentIsStored == sent \subseteq StoredEvents

\* Every event written is on its way, in the spool, sent, or counted as
\* dropped; only the memory of a killed daemon goes uncounted (http.go: "Events
\* are dropped (and counted) only when ...").
Accounted ==
  1..written \subseteq UNION {ToSet(queue), batch, loop.batch.events, sent, dropped, lost,
                              UNION {f.events : f \in ToSet(spool)}}

\* Once outages end and the daemon is started again, all that was written is
\* settled: no file, not even a torn one, holds up the replay of the others for
\* good, and a backend that was down is found to be back.
EventuallySettled ==
  []<>(1..written \subseteq sent \cup dropped \cup lost)

-----------------------------------------------------------------------------
\* docs/vendor-checklist-answers.md: break-glass "use is reported when the
\* machine reconnects"; what follows from a stored batch (marking the code used,
\* recording a stop, the webhooks) is done, or still being done.
FollowedUp ==
  \A i \in DOMAIN chain :
    \/ chain[i].id \in followed
    \/ \E h \in Slots : reqs[h].pc = "committed" /\ reqs[h].batch.id = chain[i].id
=============================================================================
