------------------------------- MODULE Retention -------------------------------
(***************************************************************************)
(* Retention and legal hold of one workspace's events: the retention run   *)
(* that uploads a day to the archive bucket and then deletes it, admins    *)
(* who change the retention and the hold, and the sync that puts the hold  *)
(* on the archive's objects.  Runs and syncs take one cluster-wide session *)
(* lock each; the deletion and the hold share a lock of the workspace.     *)
(***************************************************************************)
EXTENDS Naturals, Sequences

CONSTANTS
  Runs,       \* retention runs: one per control plane instance
  Syncs,      \* hold syncs
  Admins,     \* requests of admins in flight
  Days,       \* the days with events, by number, the oldest first
  Age,        \* Age[d]: how old the events of day d are
  Cutoffs,    \* what retention_days may be
  Asks,       \* what admins ask for
  MaxObjects, MaxChanges, MaxFailures, MaxLost, \* bounds
  NoOne, Keep

VARIABLES
  row,       \* cp.event_retention: cutoff, hold, generation, synced
  live,      \* days whose events are in the database
  archives,  \* cp.event_archives: the object version of a day, 0 for none
  objects,   \* object versions in the bucket, in order
  dayLock,   \* who holds the workspace's hold lock
  runLock, syncLock,
  run, sync, req,
  missed,    \* history: objects a failure kept a run from putting on hold
  changes, failures, losses  \* what is left of the bounds

vars == <<row, live, archives, objects, dayLock, runLock, syncLock, run, sync, req,
          missed, changes, failures, losses>>

ASSUME RetentionAssumption ==
  /\ Days \subseteq Nat \ {0} /\ Age \in [Days -> Nat] /\ Cutoffs \subseteq Nat
  /\ Asks \subseteq [hold : BOOLEAN \cup {Keep}, cutoff : Cutoffs \cup {Keep}]
  /\ Keep \notin BOOLEAN /\ Keep \notin Cutoffs /\ NoOne \notin Runs \cup Syncs \cup Admins
  /\ {MaxObjects, MaxChanges, MaxFailures, MaxLost} \subseteq Nat

Rows    == [cutoff : Cutoffs, hold : BOOLEAN, generation : Nat, synced : Nat]
Objects == [day : Days, full : BOOLEAN, held : BOOLEAN]

\* A run: between days (`todo' are left), reading a day, uploading it (`full' when
\* there were events to read), completing it, in the deleting transaction, holding.
NoRun == [pc |-> "idle", todo |-> {}, day |-> 0, full |-> FALSE, object |-> 0]
Resting  == [pc : {"idle", "between"}, todo : SUBSET Days, day : {0}, full : BOOLEAN, object : {0}]
Busy     == [pc : {"reading", "uploading", "completing", "deleting", "holding"},
             todo : SUBSET Days, day : Days, full : BOOLEAN, object : Nat]
RunStates == Resting \cup Busy

NoSync == [pc |-> "idle", generation |-> 0, on |-> FALSE, todo |-> {}]
SyncStates == [pc : {"idle", "setting"}, generation : Nat, on : BOOLEAN, todo : SUBSET Nat]

NoRequest == [pc |-> "idle", ask |-> Keep, hold |-> FALSE, cutoff |-> Keep]
Requests  == [pc : {"read"}, ask : Asks, hold : BOOLEAN, cutoff : Cutoffs] \cup {NoRequest}

TypeOK ==
  /\ row \in Rows /\ row.synced <= row.generation
  /\ live \subseteq Days
  /\ archives \in [Days -> 0..Len(objects)]
  /\ \A d \in Days : archives[d] # 0 => objects[archives[d]].day = d
  /\ objects \in Seq(Objects) /\ Len(objects) <= MaxObjects
  /\ dayLock \in Runs \cup {NoOne} /\ runLock \in Runs \cup {NoOne} /\ syncLock \in Syncs \cup {NoOne}
  /\ run \in [Runs -> RunStates] /\ \A r \in Runs : run[r].pc = "deleting" <=> dayLock = r
  /\ \A r \in Runs : run[r].object <= Len(objects)
  /\ sync \in [Syncs -> SyncStates] /\ \A s \in Syncs : sync[s].todo \subseteq DOMAIN objects
  /\ req \in [Admins -> Requests]
  /\ missed \subseteq DOMAIN objects
  /\ changes \in 0..MaxChanges /\ failures \in 0..MaxFailures /\ losses \in 0..MaxLost

-----------------------------------------------------------------------------
\* Helpers.

Old(d) == Age[d] >= row.cutoff

\* DueArchiveDays: old enough, still in the database, and not on hold.
Due == IF row.hold THEN {} ELSE {d \in live : Old(d)}
Today(r) == run[r].day
InHand(r) == IF run[r].pc \in {"completing", "deleting", "holding"} THEN {run[r].object} ELSE {}

Become(r, next)  == run' = [run EXCEPT ![r] = next]
NextDay(r)       == Become(r, [NoRun EXCEPT !.pc = "between", !.todo = run[r].todo])
ReleaseRunLock(r) == runLock' = IF runLock = r THEN NoOne ELSE runLock
bounds   == <<changes, failures, losses>>
theRow   == <<row, req>>
theSync  == <<sync, syncLock>>
theStore == <<live, archives, dayLock>>

\* Mutant: a run that ends does not give the lock back.
EndRunLocked(r) == Become(r, NoRun) /\ UNCHANGED runLock

\* runRetention returns.
EndRun(r) == Become(r, NoRun) /\ ReleaseRunLock(r)

-----------------------------------------------------------------------------
\* The retention run: runRetention and archiveDay.

StartRun(r) ==
  /\ run[r].pc = "idle" /\ runLock = NoOne /\ Due # {}
  /\ runLock' = r
  /\ Become(r, [NoRun EXCEPT !.pc = "between", !.todo = Due])
  /\ UNCHANGED <<theRow, theSync, theStore, objects, missed, bounds>>

\* The oldest day left is taken, unless the workspace is on hold by now.
TakeDay(r) ==
  /\ run[r].pc = "between"
  /\ \/ run[r].todo = {} /\ EndRun(r)
     \/ /\ \E d \in run[r].todo :
             /\ \A e \in run[r].todo : d <= e
             /\ Become(r, IF row.hold THEN [run[r] EXCEPT !.todo = @ \ {d}]
                          ELSE [NoRun EXCEPT !.pc = "reading", !.todo = run[r].todo \ {d}, !.day = d])
        /\ UNCHANGED runLock
  /\ UNCHANGED <<theRow, theSync, theStore, objects, missed, bounds>>

\* WriteArchiveDay reads the day; the upload reads from it.  When another run
\* deletes the day meanwhile, the events don't match the batch records.
ReadDay(r) ==
  /\ run[r].pc = "reading"
  /\ \/ /\ Become(r, [run[r] EXCEPT !.pc = "uploading", !.full = Today(r) \in live])
        /\ UNCHANGED runLock
     \/ Today(r) \notin live /\ EndRun(r)
  /\ UNCHANGED <<theRow, theSync, theStore, objects, missed, bounds>>

Uploaded(r) == Append(objects, [day |-> Today(r), full |-> run[r].full, held |-> FALSE])

\* Mutant: a day with nothing left to archive is completed all the same.
PutEmpty(r) ==
  /\ run[r].pc = "uploading" /\ Len(objects) < MaxObjects
  /\ objects' = Uploaded(r)
  /\ Become(r, [run[r] EXCEPT !.pc = "completing", !.object = Len(objects) + 1])
  /\ UNCHANGED <<theRow, theSync, theStore, runLock, missed, bounds>>

\* The object is there, as a new version of the day's key.  A day with no
\* events left was archived by another run.
Put(r) ==
  /\ run[r].pc = "uploading" /\ Len(objects) < MaxObjects
  /\ objects' = Uploaded(r)
  /\ IF run[r].full
     THEN Become(r, [run[r] EXCEPT !.pc = "completing", !.object = Len(objects) + 1])
     ELSE NextDay(r)
  /\ UNCHANGED <<theRow, theSync, theStore, runLock, missed, bounds>>

\* CompleteArchiveDay: under the hold lock, refused on hold; "batches changed"
\* when another run was first.
BeginComplete(r) ==
  /\ run[r].pc = "completing" /\ dayLock = NoOne
  /\ IF row.hold
     THEN Become(r, [run[r] EXCEPT !.pc = "holding"]) /\ UNCHANGED <<dayLock, runLock>>
     ELSE IF run[r].full /\ Today(r) \notin live
     THEN EndRun(r) /\ UNCHANGED dayLock
     ELSE /\ Become(r, [run[r] EXCEPT !.pc = "deleting"]) /\ dayLock' = r
          /\ UNCHANGED runLock
  /\ UNCHANGED <<theRow, theSync, live, archives, objects, missed, bounds>>

\* The events go, the batches and the archive's record name this version.
CommitComplete(r) ==
  /\ run[r].pc = "deleting"
  /\ live' = live \ {Today(r)}
  /\ archives' = [archives EXCEPT ![Today(r)] = run[r].object]
  /\ dayLock' = NoOne
  /\ NextDay(r)
  /\ UNCHANGED <<theRow, theSync, objects, runLock, missed, bounds>>

\* The hold came during the upload: every version of the day's key is put on it.
HoldObject(r) ==
  /\ run[r].pc = "holding"
  /\ objects' = [i \in DOMAIN objects |->
                   IF objects[i].day = Today(r) THEN [objects[i] EXCEPT !.held = TRUE] ELSE objects[i]]
  /\ NextDay(r)
  /\ UNCHANGED <<theRow, theSync, theStore, runLock, missed, bounds>>

\* S3 or the database fails, or the instance stops.  An upload may be there all
\* the same.  A hold that can't be put on is only logged.
RunFails(r) ==
  /\ run[r].pc # "idle" /\ failures > 0 /\ failures' = failures - 1
  /\ \/ objects' = objects /\ missed' = missed \cup InHand(r)
     \/ /\ run[r].pc = "uploading" /\ Len(objects) < MaxObjects
        /\ objects' = Uploaded(r) /\ missed' = missed \cup {Len(objects) + 1}
  /\ dayLock' = IF dayLock = r THEN NoOne ELSE dayLock
  /\ \/ run[r].pc = "holding" /\ NextDay(r) /\ UNCHANGED runLock
     \/ EndRun(r)
  /\ UNCHANGED <<theRow, theSync, live, archives, changes, losses>>

\* The connection that holds the session lock breaks; the run goes on.
LoseRunLock ==
  /\ runLock # NoOne /\ losses > 0 /\ losses' = losses - 1
  /\ runLock' = NoOne
  /\ UNCHANGED <<theRow, theSync, theStore, objects, run, missed, changes, failures>>

-----------------------------------------------------------------------------
\* putEventRetention: the row is read, and all of it is written back.

ReadRow(q, ask) ==
  /\ req[q].pc = "idle" /\ changes > 0 /\ changes' = changes - 1
  /\ req' = [req EXCEPT ![q] = [pc |-> "read", ask |-> ask,
       hold |-> IF ask.hold = Keep THEN row.hold ELSE ask.hold,
       cutoff |-> IF ask.cutoff = Keep THEN row.cutoff ELSE ask.cutoff]]
  /\ UNCHANGED <<row, theSync, theStore, objects, run, runLock, missed, failures, losses>>

Written(q) == [row EXCEPT !.hold = req[q].hold, !.cutoff = req[q].cutoff,
                          !.generation = IF row.hold # req[q].hold THEN @ + 1 ELSE @]

\* Mutant: the hold is changed beside a deletion that is under way.
PutRowUnlocked(q) ==
  /\ req[q].pc = "read"
  /\ row' = Written(q) /\ req' = [req EXCEPT ![q] = NoRequest]
  /\ UNCHANGED <<theSync, theStore, objects, run, runLock, missed, bounds>>

\* PutEventRetention waits for the hold lock; a changed hold is a new generation.
PutRow(q) ==
  /\ req[q].pc = "read" /\ dayLock = NoOne
  /\ row' = Written(q) /\ req' = [req EXCEPT ![q] = NoRequest]
  /\ UNCHANGED <<theSync, theStore, objects, run, runLock, missed, bounds>>

-----------------------------------------------------------------------------
\* syncHolds: right after a change and then with every retention run.

\* The state and the versions are read; what is uploaded later isn't seen.
StartSync(s) ==
  /\ sync[s].pc = "idle" /\ syncLock = NoOne /\ row.synced # row.generation
  /\ syncLock' = s
  /\ sync' = [sync EXCEPT ![s] = [pc |-> "setting", generation |-> row.generation, on |-> row.hold,
                                  todo |-> DOMAIN objects]]
  /\ UNCHANGED <<theRow, theStore, objects, run, runLock, missed, bounds>>

SetObject(s) ==
  /\ sync[s].pc = "setting"
  /\ \E i \in sync[s].todo :
       /\ objects' = [objects EXCEPT ![i].held = sync[s].on]
       /\ sync' = [sync EXCEPT ![s].todo = @ \ {i}]
  /\ UNCHANGED <<theRow, theStore, syncLock, run, runLock, missed, bounds>>

\* syncHolds returns.
EndSync(s) ==
  /\ sync' = [sync EXCEPT ![s] = NoSync]
  /\ syncLock' = IF syncLock = s THEN NoOne ELSE syncLock

\* Mutant: a finished sync counts for the state as it is now.
SyncDoneNow(s) ==
  /\ sync[s].pc = "setting" /\ sync[s].todo = {}
  /\ row' = [row EXCEPT !.synced = row.generation]
  /\ EndSync(s)
  /\ UNCHANGED <<req, theStore, objects, run, runLock, missed, bounds>>

\* HoldSyncDone: the generation that was read is in sync.
SyncDone(s) ==
  /\ sync[s].pc = "setting" /\ sync[s].todo = {}
  /\ row' = [row EXCEPT !.synced = IF sync[s].generation > @ THEN sync[s].generation ELSE @]
  /\ EndSync(s)
  /\ UNCHANGED <<req, theStore, objects, run, runLock, missed, bounds>>

\* S3 refuses, or the instance stops: the workspace stays due.
SyncFails(s) ==
  /\ sync[s].pc = "setting" /\ failures > 0 /\ failures' = failures - 1
  /\ EndSync(s)
  /\ UNCHANGED <<theRow, theStore, objects, run, runLock, missed, changes, losses>>

-----------------------------------------------------------------------------
Init ==
  /\ \E c \in Cutoffs, n \in {0, 1} :  \* on hold from the start, or never
       row = [cutoff |-> c, hold |-> n = 1, generation |-> n, synced |-> n]
  /\ live = Days /\ archives = [d \in Days |-> 0] /\ objects = <<>> /\ missed = {}
  /\ dayLock = NoOne /\ runLock = NoOne /\ syncLock = NoOne
  /\ run = [r \in Runs |-> NoRun] /\ sync = [s \in Syncs |-> NoSync] /\ req = [q \in Admins |-> NoRequest]
  /\ changes = MaxChanges /\ failures = MaxFailures /\ losses = MaxLost

RunStep(r)  == \/ StartRun(r) \/ TakeDay(r) \/ ReadDay(r) \/ Put(r)
               \/ BeginComplete(r) \/ CommitComplete(r) \/ HoldObject(r)
SyncStep(s) == StartSync(s) \/ SetObject(s) \/ SyncDone(s)

Next ==
  \/ \E r \in Runs : RunStep(r) \/ RunFails(r)
  \/ LoseRunLock
  \/ \E q \in Admins : (\E ask \in Asks : ReadRow(q, ask)) \/ PutRow(q)
  \/ \E s \in Syncs : SyncStep(s) \/ SyncFails(s)

\* The retention ticker starts runs and syncs, and both go on; a write that
\* waits for the hold lock gets it.  Nobody needs to change anything.
Fairness ==
  /\ \A r \in Runs : WF_vars(RunStep(r))
  /\ \A s \in Syncs : WF_vars(SyncStep(s))
  /\ \A q \in Admins : SF_vars(PutRow(q))

Spec == Init /\ [][Next]_vars /\ Fairness

-----------------------------------------------------------------------------
\* No event goes while the workspace is on hold: the hold is checked when the
\* deletion begins, and can't be set before it commits (holdLock).
NothingDeletedOnHold == [][live' # live => ~row.hold /\ ~row'.hold]_vars

\* What has left the database is in the bucket: the record names an object
\* that has the day's events, whichever of two overlapping runs, failed
\* uploads and repeated uploads came last.
DeletedIsArchived ==
  \A d \in Days : d \notin live => archives[d] # 0 /\ objects[archives[d]].full

\* On hold and recorded as in sync, every object with events is on hold, is
\* about to be put on it by the run that uploaded it, or was missed because
\* that run failed.
HoldCovers ==
  row.hold /\ row.synced = row.generation =>
    \A i \in DOMAIN objects :
      objects[i].full => objects[i].held \/ i \in missed \/ \E r \in Runs : i \in InHand(r)

\* When admins stop changing it, the hold reaches the objects' sync and stays
\* there, however often a sync failed or raced a change.
HoldSyncs == <>[](row.synced = row.generation)

\* Old days leave the database unless the workspace ends up on hold: no failed
\* or refused day, and no lost lock, stops retention for good (within MaxObjects).
RetentionDrains ==
  <>[](row.hold \/ Len(objects) = MaxObjects \/ \A d \in Days : Old(d) => d \notin live)
=============================================================================
