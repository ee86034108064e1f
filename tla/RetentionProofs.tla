---------------------------- MODULE RetentionProofs ----------------------------
(***************************************************************************)
(* However runs, syncs and admins overlap and fail, nothing is deleted on  *)
(* hold, what is deleted is archived, and a hold in sync covers the        *)
(* archive (Retention), for any runs, syncs, admins, days and bounds.      *)
(***************************************************************************)
EXTENDS Retention, SequenceTheorems, TLAPS

Holders == {"completing", "deleting", "holding"}

\* The hold is checked when a deletion begins, and its lock keeps it off.
OffWhileDeleting == \A r \in Runs : run[r].pc = "deleting" => ~row.hold

\* The version a run has in hand has the events of its day.
UploadInHand == \A r \in Runs : run[r].pc \in Holders =>
  /\ run[r].object \in DOMAIN objects
  /\ objects[run[r].object].full /\ objects[run[r].object].day = run[r].day

\* The one sync that is going is of a generation nobody has recorded yet.
OneSync == \A s \in Syncs : sync[s].pc = "setting" =>
  syncLock = s /\ row.synced < sync[s].generation /\ sync[s].generation <= row.generation

\* What a sync of the present hold has left to do covers what is not on hold.
Covered(i) == objects[i].held \/ i \in missed \/ \E r \in Runs : i \in InHand(r)
SyncCovers == \A s \in Syncs :
  sync[s].pc = "setting" /\ row.hold /\ sync[s].generation = row.generation =>
    /\ sync[s].on
    /\ \A i \in DOMAIN objects : objects[i].full => i \in sync[s].todo \/ Covered(i)

IInv == OffWhileDeleting /\ UploadInHand /\ DeletedIsArchived /\ OneSync /\ SyncCovers /\ HoldCovers
-----------------------------------------------------------------------------
\* Versions of objects are added and held, never changed otherwise.
Grows ==
  /\ objects' \in Seq(Objects) /\ Len(objects) <= Len(objects') /\ Len(objects') <= MaxObjects
  /\ \A i \in DOMAIN objects : /\ i \in DOMAIN objects'
                               /\ objects'[i].day = objects[i].day
                               /\ objects'[i].full = objects[i].full

LEMMA SameGrows == ASSUME TypeOK, objects' = objects PROVE Grows
  BY DEF TypeOK, Grows

LEMMA PutGrows ==
  ASSUME TypeOK, NEW o \in Objects, Len(objects) < MaxObjects, objects' = Append(objects, o)
  PROVE  /\ Grows /\ objects'[Len(objects) + 1] = o
         /\ DOMAIN objects' = DOMAIN objects \cup {Len(objects) + 1}
         /\ \A i \in DOMAIN objects : objects'[i] = objects[i]
<1>1. /\ objects \in Seq(Objects) /\ Len(objects) \in Nat /\ MaxObjects \in Nat
      /\ DOMAIN objects = 1..Len(objects)
  BY RetentionAssumption, LenProperties DEF TypeOK
<1>2. /\ objects' \in Seq(Objects) /\ Len(objects') = Len(objects) + 1
      /\ objects'[Len(objects) + 1] = o
      /\ \A i \in 1..Len(objects) : objects'[i] = objects[i]
  BY <1>1
<1>3. DOMAIN objects' = 1..(Len(objects) + 1)
  BY <1>2, LenProperties
<1>4. QED BY <1>1, <1>2, <1>3 DEF Grows

\* Putting versions on hold, or taking them off it.
LEMMA HoldGrows ==
  ASSUME TypeOK, NEW next, next = [i \in DOMAIN objects |-> next[i]],
         \A i \in DOMAIN objects :
           \E b \in BOOLEAN : next[i] = [objects[i] EXCEPT !.held = b],
         objects' = next
  PROVE  Grows /\ DOMAIN objects' = DOMAIN objects
<1>1. /\ objects \in Seq(Objects) /\ Len(objects) \in Nat /\ Len(objects) <= MaxObjects
      /\ DOMAIN objects = 1..Len(objects)
  BY LenProperties DEF TypeOK
<1>2. \A i \in DOMAIN objects : /\ next[i] \in Objects /\ next[i].day = objects[i].day
                                /\ next[i].full = objects[i].full
  <2>1. \A i \in DOMAIN objects : objects[i] \in Objects
    BY <1>1, ElementOfSeq
  <2>2. QED BY <2>1 DEF Objects
<1>3. next \in [1..Len(objects) -> Objects]
  BY <1>1, <1>2
<1>4. next \in Seq(Objects)
  BY <1>1, <1>3, SeqDef
<1>5. Len(next) = Len(objects) /\ DOMAIN next = DOMAIN objects
  BY <1>1, <1>3, <1>4, LenProperties
<1>6. QED BY <1>1, <1>2, <1>4, <1>5 DEF Grows

-----------------------------------------------------------------------------
\* A step of one run, whatever it is, keeps the invariant when it leaves no
\* object with events behind while the workspace is on hold.
InHandOf(k) == IF k.pc \in Holders THEN {k.object} ELSE {}

Kept(k) ==
  /\ k.pc = "deleting" => ~row.hold
  /\ k.pc \in Holders => /\ k.object \in DOMAIN objects'
                         /\ objects'[k.object].full /\ objects'[k.object].day = k.day
  /\ k.object <= Len(objects')

NothingLeft(r, k) ==
  /\ missed \subseteq missed' /\ missed' \subseteq DOMAIN objects'
  /\ \A i \in DOMAIN objects : objects[i].held => objects'[i].held
  /\ \A i \in DOMAIN objects' \ DOMAIN objects :
       objects'[i].full => i \in missed' \/ i \in InHandOf(k)
  /\ row.hold => \A i \in InHand(r) : i \in InHandOf(k) \/ i \in missed' \/ objects'[i].held

LockStep(r, k) ==
  /\ dayLock' \in Runs \cup {NoOne} /\ (k.pc = "deleting" <=> dayLock' = r)
  /\ \A q \in Runs \ {r} : dayLock' = q <=> dayLock = q
  /\ runLock' \in {runLock, r, NoOne}

ArchiveStep ==
  /\ live' \subseteq Days /\ archives' \in [Days -> 0..Len(objects')]
  /\ \A d \in Days : archives'[d] # 0 => objects'[archives'[d]].day = d
  /\ \A d \in Days : d \notin live' => archives'[d] # 0 /\ objects'[archives'[d]].full

LEMMA SameArchives ==
  ASSUME TypeOK, DeletedIsArchived, Grows, live' = live, archives' = archives
  PROVE  ArchiveStep
<1>1. Len(objects) \in Nat /\ Len(objects') \in Nat /\ DOMAIN objects = 1..Len(objects)
  BY LenProperties DEF TypeOK, Grows
<1>2. \A d \in Days : archives[d] \in 0..Len(objects) /\ (archives[d] # 0 => archives[d] \in DOMAIN objects)
  BY <1>1 DEF TypeOK
<1>3. \A d \in Days : archives[d] # 0 =>
        /\ objects'[archives[d]].day = objects[archives[d]].day
        /\ objects'[archives[d]].full = objects[archives[d]].full
  BY <1>2 DEF Grows
<1>4. archives' \in [Days -> 0..Len(objects')]
  BY <1>1 DEF TypeOK, Grows
<1>5. QED BY <1>3, <1>4 DEF TypeOK, DeletedIsArchived, ArchiveStep

LEMMA RunFields ==
  ASSUME NEW k \in RunStates
  PROVE  /\ k.object \in Nat /\ k.todo \in SUBSET Days /\ k.full \in BOOLEAN
         /\ k.pc \notin {"idle", "between"} => k \in Busy
         /\ k.pc \in {"idle", "between"} => k \in Resting
<1>1. CASE k \in Resting
  <2>1. k.pc \in {"idle", "between"} /\ k.full \in BOOLEAN /\ k.object = 0 /\ k.todo \in SUBSET Days
    BY <1>1 DEF Resting
  <2>2. QED BY <1>1, <2>1
<1>2. CASE k \in Busy
  <2>1. /\ k.pc \notin {"idle", "between"} /\ k.full \in BOOLEAN /\ k.object \in Nat
        /\ k.todo \in SUBSET Days
    BY <1>2 DEF Busy
  <2>2. QED BY <1>2, <2>1
<1>3. QED BY <1>1, <1>2 DEF RunStates

LEMMA RunKeeps ==
  ASSUME TypeOK, IInv, NEW r \in Runs, NEW k \in RunStates, run' = [run EXCEPT ![r] = k],
         UNCHANGED <<theRow, theSync>>, Grows, ArchiveStep, Kept(k), NothingLeft(r, k),
         LockStep(r, k), UNCHANGED <<changes, losses>>, failures' \in 0..MaxFailures
  PROVE  TypeOK' /\ IInv'
<1>1. run'[r] = k /\ (\A q \in Runs \ {r} : run'[q] = run[q]) /\ run' \in [Runs -> RunStates]
  BY DEF TypeOK
<1>2. row' = row /\ req' = req /\ sync' = sync /\ syncLock' = syncLock
  BY DEF theRow, theSync
<1>3. /\ Len(objects) \in Nat /\ Len(objects') \in Nat /\ Len(objects) <= Len(objects')
      /\ DOMAIN objects = 1..Len(objects) /\ DOMAIN objects' = 1..Len(objects')
  BY LenProperties DEF TypeOK, Grows
<1>4. TypeOK'
  <2>1. \A q \in Runs : run'[q].pc = "deleting" <=> dayLock' = q
    BY <1>1 DEF TypeOK, LockStep
  <2>2. \A q \in Runs : run'[q].object <= Len(objects')
    <3>1. \A q \in Runs : run[q].object \in Nat
      BY RunFields DEF TypeOK
    <3>2. QED BY <1>1, <1>3, <3>1 DEF TypeOK, Kept
  <2>3. \A s \in Syncs : sync'[s].todo \subseteq DOMAIN objects'
    BY <1>2, <1>3 DEF TypeOK
  <2>4. runLock' \in Runs \cup {NoOne} /\ dayLock' \in Runs \cup {NoOne}
    BY DEF LockStep, TypeOK
  <2>5. changes' \in 0..MaxChanges /\ losses' \in 0..MaxLost
    BY DEF TypeOK
  <2>6. row' \in Rows /\ row'.synced <= row'.generation /\ req' \in [Admins -> Requests]
        /\ sync' \in [Syncs -> SyncStates] /\ syncLock' \in Syncs \cup {NoOne}
    BY <1>2 DEF TypeOK
  <2>7. /\ objects' \in Seq(Objects) /\ Len(objects') <= MaxObjects
        /\ missed' \subseteq DOMAIN objects'
    BY DEF Grows, NothingLeft
  <2>8. /\ live' \subseteq Days /\ archives' \in [Days -> 0..Len(objects')]
        /\ \A d \in Days : archives'[d] # 0 => objects'[archives'[d]].day = d
    BY DEF ArchiveStep
  <2>9. QED BY <1>1, <2>1, <2>2, <2>3, <2>4, <2>5, <2>6, <2>7, <2>8 DEF TypeOK
<1>5. OffWhileDeleting' /\ UploadInHand'
  <2>1. \A q \in Runs : run'[q].pc = "deleting" => ~row'.hold
    BY <1>1, <1>2 DEF IInv, OffWhileDeleting, Kept
  <2>2. \A q \in Runs : run'[q].pc \in Holders =>
          /\ run'[q].object \in DOMAIN objects'
          /\ objects'[run'[q].object].full /\ objects'[run'[q].object].day = run'[q].day
    BY <1>1 DEF IInv, UploadInHand, Kept, Grows
  <2>3. QED BY <2>1, <2>2 DEF OffWhileDeleting, UploadInHand, Holders
<1>6. DeletedIsArchived' /\ OneSync'
  BY <1>2 DEF ArchiveStep, DeletedIsArchived, IInv, OneSync
<1>7. ASSUME row.hold, NEW i \in DOMAIN objects', objects'[i].full
      PROVE  (i \in DOMAIN objects /\ objects[i].full /\ ~Covered(i)) \/ Covered(i)'
  <2>1. CASE i \in DOMAIN objects /\ objects[i].held
    BY <2>1 DEF NothingLeft, Covered
  <2>2. CASE i \in missed
    BY <2>2 DEF NothingLeft, Covered
  <2>3. ASSUME NEW q \in Runs \ {r}, i \in InHand(q) PROVE Covered(i)'
    BY <1>1, <2>3 DEF InHand, Covered
  <2>4. i \in InHandOf(k) => Covered(i)'
    BY <1>1 DEF InHandOf, Holders, InHand, Covered
  <2>5. CASE i \in InHand(r)
    BY <1>7, <2>4, <2>5 DEF NothingLeft, Covered
  <2>6. CASE i \notin DOMAIN objects
    BY <1>7, <2>4, <2>6 DEF NothingLeft, Covered
  <2>7. CASE i \in DOMAIN objects /\ ~Covered(i)
    BY <1>7, <2>7 DEF Grows
  <2>8. QED BY <2>1, <2>2, <2>3, <2>5, <2>6, <2>7 DEF Covered
<1>8. SyncCovers'
  <2>1. ASSUME NEW s \in Syncs, sync[s].pc = "setting", row.hold,
               sync[s].generation = row.generation, NEW i \in DOMAIN objects', objects'[i].full
        PROVE  sync[s].on /\ (i \in sync[s].todo \/ Covered(i)')
    BY <1>7, <2>1 DEF IInv, SyncCovers
  <2>2. ASSUME NEW s \in Syncs, sync[s].pc = "setting", row.hold,
               sync[s].generation = row.generation
        PROVE  sync[s].on
    BY <2>2 DEF IInv, SyncCovers
  <2>3. QED BY <1>2, <2>1, <2>2 DEF SyncCovers
<1>9. HoldCovers'
  <2>1. ASSUME row.hold, row.synced = row.generation, NEW i \in DOMAIN objects', objects'[i].full
        PROVE  Covered(i)'
    BY <1>7, <2>1 DEF IInv, HoldCovers, Covered
  <2>2. QED BY <1>2, <2>1 DEF HoldCovers, Covered
<1>10. QED BY <1>4, <1>5, <1>6, <1>8, <1>9 DEF IInv
\* The states a run goes to between days: nothing is in hand.
LEMMA Rest ==
  ASSUME TypeOK, NEW r \in Runs, NEW todo \in SUBSET Days, Grows
  PROVE  LET k == [NoRun EXCEPT !.pc = "between", !.todo = todo]
         IN  /\ NoRun \in RunStates /\ Kept(NoRun) /\ InHandOf(NoRun) = {} /\ NoRun.pc = "idle"
             /\ k \in RunStates /\ Kept(k) /\ InHandOf(k) = {} /\ k.pc = "between"
<1> DEFINE k == [NoRun EXCEPT !.pc = "between", !.todo = todo]
<1>1. NoRun \in RunStates /\ k \in RunStates
  BY DEF NoRun, RunStates, Resting
<1>2. /\ NoRun.pc = "idle" /\ NoRun.object = 0 /\ k.pc = "between" /\ k.object = 0
  BY DEF NoRun
<1>3. Len(objects') \in Nat
  BY LenProperties DEF Grows
<1> HIDE DEF k
<1>4. /\ Kept(NoRun) /\ InHandOf(NoRun) = {} /\ Kept(k) /\ InHandOf(k) = {}
  BY <1>2, <1>3 DEF Kept, InHandOf, Holders
<1>5. QED BY <1>1, <1>2, <1>4 DEF k

\* A run that takes no lock of the workspace, or gives it back.
LEMMA FreeLock ==
  ASSUME TypeOK, NEW r \in Runs, NEW k, k.pc # "deleting",
         \/ dayLock' = dayLock /\ run[r].pc # "deleting"
         \/ dayLock' = (IF dayLock = r THEN NoOne ELSE dayLock)
         \/ dayLock' = NoOne /\ run[r].pc = "deleting",
         runLock' \in {runLock, r, NoOne}
  PROVE  LockStep(r, k)
  BY RetentionAssumption DEF TypeOK, LockStep

LEMMA StartRunKeeps ==
  ASSUME TypeOK, IInv, NEW r \in Runs, StartRun(r)
  PROVE  TypeOK' /\ IInv'
<1> DEFINE k == [NoRun EXCEPT !.pc = "between", !.todo = Due]
<1>1. /\ run[r].pc = "idle" /\ runLock' = r /\ run' = [run EXCEPT ![r] = k]
      /\ UNCHANGED <<theRow, theSync, theStore, objects, missed, bounds>>
  BY DEF StartRun, Become
<1>2. Due \in SUBSET Days
  BY DEF Due, TypeOK
<1>3. Grows
  BY <1>1, SameGrows
<1>4. ArchiveStep
  BY <1>1, <1>3, SameArchives DEF theStore, IInv
<1>5. k \in RunStates /\ Kept(k) /\ k.pc = "between"
  BY <1>2, <1>3, Rest
<1> HIDE DEF k
<1>6. LockStep(r, k)
  BY <1>1, <1>5, FreeLock DEF theStore
<1>7. NothingLeft(r, k)
  BY <1>1 DEF NothingLeft, InHand, TypeOK
<1>8. QED BY <1>1, <1>3, <1>4, <1>5, <1>6, <1>7, RunKeeps DEF bounds, TypeOK

LEMMA TakeDayKeeps ==
  ASSUME TypeOK, IInv, NEW r \in Runs, TakeDay(r)
  PROVE  TypeOK' /\ IInv'
<1>1. /\ run[r].pc = "between" /\ runLock' \in {runLock, NoOne}
      /\ UNCHANGED <<theRow, theSync, theStore, objects, missed, bounds>>
  BY DEF TakeDay, EndRun, ReleaseRunLock
<1>2. run[r] \in Resting
  BY <1>1, RunFields DEF TypeOK
<1>3. PICK k \in RunStates : /\ run' = [run EXCEPT ![r] = k] /\ k.pc \in {"idle", "between", "reading"}
                             /\ k.object = 0
  <2>1. CASE run' = [run EXCEPT ![r] = NoRun]
    <3>1. NoRun \in Resting /\ NoRun.pc = "idle" /\ NoRun.object = 0
      BY DEF NoRun, Resting
    <3>2. QED BY <2>1, <3>1 DEF RunStates
  <2>2. ASSUME NEW d \in run[r].todo,
               run' = [run EXCEPT ![r] = [run[r] EXCEPT !.todo = @ \ {d}]]
        PROVE  \E k \in RunStates : /\ run' = [run EXCEPT ![r] = k]
                  /\ k.pc \in {"idle", "between", "reading"} /\ k.object = 0
    <3> DEFINE k == [run[r] EXCEPT !.todo = @ \ {d}]
    <3>1. k \in Resting /\ k.pc = "between" /\ k.object = 0
      BY <1>1, <1>2 DEF Resting
    <3>2. QED BY <2>2, <3>1 DEF RunStates
  <2>3. ASSUME NEW d \in run[r].todo,
               run' = [run EXCEPT ![r] = [NoRun EXCEPT !.pc = "reading", !.todo = run[r].todo \ {d}, !.day = d]]
        PROVE  \E k \in RunStates : /\ run' = [run EXCEPT ![r] = k]
                  /\ k.pc \in {"idle", "between", "reading"} /\ k.object = 0
    <3> DEFINE k == [NoRun EXCEPT !.pc = "reading", !.todo = run[r].todo \ {d}, !.day = d]
    <3>1. d \in Days /\ run[r].todo \ {d} \in SUBSET Days
      BY <1>2 DEF Resting
    <3>2. k \in Busy /\ k.pc = "reading" /\ k.object = 0
      BY <3>1 DEF NoRun, Busy
    <3>3. QED BY <2>3, <3>2 DEF RunStates
  <2>4. QED BY <2>1, <2>2, <2>3 DEF TakeDay, EndRun, Become
<1>4. Grows
  BY <1>1, SameGrows
<1>5. ArchiveStep
  BY <1>1, <1>4, SameArchives DEF theStore, IInv
<1>6. LockStep(r, k)
  BY <1>1, <1>3, FreeLock DEF theStore
<1>7. Kept(k)
  BY <1>3, <1>4, LenProperties DEF Kept, Holders, Grows
<1>8. NothingLeft(r, k)
  BY <1>1 DEF NothingLeft, InHand, TypeOK
<1>9. QED BY <1>1, <1>3, <1>4, <1>5, <1>6, <1>7, <1>8, RunKeeps DEF bounds, TypeOK

LEMMA ReadDayKeeps ==
  ASSUME TypeOK, IInv, NEW r \in Runs, ReadDay(r)
  PROVE  TypeOK' /\ IInv'
<1>1. /\ run[r].pc = "reading" /\ runLock' \in {runLock, NoOne}
      /\ UNCHANGED <<theRow, theSync, theStore, objects, missed, bounds>>
  BY DEF ReadDay, EndRun, ReleaseRunLock
<1>2. run[r] \in Busy
  BY <1>1, RunFields DEF TypeOK
<1>3. Grows
  BY <1>1, SameGrows
<1>4. ArchiveStep
  BY <1>1, <1>3, SameArchives DEF theStore, IInv
<1>5. ASSUME NEW k \in RunStates, run' = [run EXCEPT ![r] = k], k.pc # "deleting", Kept(k)
      PROVE  TypeOK' /\ IInv'
  <2>1. LockStep(r, k)
    BY <1>1, <1>5, FreeLock DEF theStore
  <2>2. NothingLeft(r, k)
    BY <1>1 DEF NothingLeft, InHand, TypeOK
  <2>3. QED BY <1>1, <1>3, <1>4, <1>5, <2>1, <2>2, RunKeeps DEF bounds, TypeOK
<1>6. CASE run' = [run EXCEPT ![r] = NoRun]
  BY <1>3, <1>5, <1>6, Rest
<1>7. CASE run' = [run EXCEPT ![r] = [run[r] EXCEPT !.pc = "uploading", !.full = Today(r) \in live]]
  <2> DEFINE full == Today(r) \in live
             k == [run[r] EXCEPT !.pc = "uploading", !.full = full]
  <2>0. full \in BOOLEAN
    OBVIOUS
  <2> HIDE DEF full
  <2>1. k \in Busy /\ k.pc = "uploading" /\ k.object = run[r].object
    BY <1>2, <2>0 DEF Busy
  <2>2. run[r].object <= Len(objects')
    BY <1>1 DEF TypeOK
  <2> HIDE DEF k
  <2>3. Kept(k)
    BY <2>1, <2>2 DEF Kept, Holders
  <2>4. QED BY <1>5, <1>7, <2>1, <2>3 DEF k, full, RunStates
<1>8. QED BY <1>6, <1>7 DEF ReadDay, EndRun, Become

\* An upload: a new version, in hand when it has events.
LEMMA UploadedObject ==
  ASSUME TypeOK, NEW r \in Runs, run[r].pc = "uploading", Len(objects) < MaxObjects,
         objects' = Uploaded(r)
  PROVE  /\ Grows /\ DOMAIN objects' = DOMAIN objects \cup {Len(objects) + 1}
         /\ \A i \in DOMAIN objects : objects'[i] = objects[i]
         /\ objects'[Len(objects) + 1].day = run[r].day
         /\ objects'[Len(objects) + 1].full = run[r].full
         /\ run[r] \in Busy
<1> DEFINE o == [day |-> Today(r), full |-> run[r].full, held |-> FALSE]
<1>1. run[r] \in Busy
  BY RunFields DEF TypeOK
<1>2. o \in Objects /\ o.day = run[r].day /\ o.full = run[r].full
  BY <1>1 DEF Objects, Today, Busy
<1>3. objects' = Append(objects, o)
  BY DEF Uploaded
<1> HIDE DEF o
<1>4. QED BY <1>1, <1>2, <1>3, PutGrows

LEMMA PutKeeps ==
  ASSUME TypeOK, IInv, NEW r \in Runs, Put(r)
  PROVE  TypeOK' /\ IInv'
<1> DEFINE n == Len(objects) + 1
<1>1. /\ run[r].pc = "uploading" /\ Len(objects) < MaxObjects /\ objects' = Uploaded(r)
      /\ UNCHANGED <<theRow, theSync, theStore, runLock, missed, bounds>>
  BY DEF Put
<1>2. /\ Grows /\ DOMAIN objects' = DOMAIN objects \cup {n}
      /\ \A i \in DOMAIN objects : objects'[i] = objects[i]
      /\ objects'[n].day = run[r].day /\ objects'[n].full = run[r].full
      /\ run[r] \in Busy
  BY <1>1, UploadedObject
<1>3. ArchiveStep
  BY <1>1, <1>2, SameArchives DEF theStore, IInv
<1>4. n \in Nat /\ n <= Len(objects')
  BY <1>2, LenProperties DEF TypeOK, Grows
<1> HIDE DEF n
<1>5. ASSUME NEW k \in RunStates, run' = [run EXCEPT ![r] = k], k.pc # "deleting", Kept(k),
             run[r].full => InHandOf(k) = {n}
      PROVE  TypeOK' /\ IInv'
  <2>1. LockStep(r, k)
    BY <1>1, <1>5, FreeLock DEF theStore
  <2>2. NothingLeft(r, k)
    BY <1>1, <1>2, <1>5 DEF NothingLeft, InHand, TypeOK
  <2>3. QED BY <1>1, <1>2, <1>3, <1>5, <2>1, <2>2, RunKeeps DEF bounds, TypeOK
<1>6. CASE run[r].full /\ run' = [run EXCEPT ![r] = [run[r] EXCEPT !.pc = "completing", !.object = n]]
  <2> DEFINE k == [run[r] EXCEPT !.pc = "completing", !.object = n]
  <2>1. k \in Busy /\ k.pc = "completing" /\ k.object = n /\ k.day = run[r].day
    BY <1>2, <1>4 DEF Busy
  <2> HIDE DEF k
  <2>2. Kept(k) /\ InHandOf(k) = {n}
    BY <1>2, <1>4, <1>6, <2>1 DEF Kept, InHandOf, Holders
  <2>3. QED BY <1>5, <1>6, <2>1, <2>2 DEF k, RunStates
<1>7. CASE ~run[r].full /\ NextDay(r)
  BY <1>2, <1>5, <1>7, Rest, RunFields DEF NextDay, Become, TypeOK
<1>8. QED BY <1>6, <1>7 DEF Put, Become, n
LEMMA BeginCompleteKeeps ==
  ASSUME TypeOK, IInv, NEW r \in Runs, BeginComplete(r)
  PROVE  TypeOK' /\ IInv'
<1>1. /\ run[r].pc = "completing" /\ dayLock = NoOne /\ runLock' \in {runLock, NoOne}
      /\ UNCHANGED <<theRow, theSync, live, archives, objects, missed, bounds>>
  BY DEF BeginComplete, EndRun, ReleaseRunLock
<1>2. /\ run[r] \in Busy /\ run[r].object <= Len(objects)
      /\ run[r].object \in DOMAIN objects /\ objects[run[r].object].full
      /\ objects[run[r].object].day = run[r].day
  BY <1>1, RunFields DEF TypeOK, IInv, UploadInHand, Holders
<1>3. Grows
  BY <1>1, SameGrows
<1>4. ArchiveStep
  BY <1>1, <1>3, SameArchives DEF IInv
<1>5. ASSUME NEW k \in RunStates, run' = [run EXCEPT ![r] = k], LockStep(r, k), Kept(k),
             row.hold => run[r].object \in InHandOf(k)
      PROVE  TypeOK' /\ IInv'
  <2>1. NothingLeft(r, k)
    BY <1>1, <1>5 DEF NothingLeft, InHand, TypeOK
  <2>2. QED BY <1>1, <1>3, <1>4, <1>5, <2>1, RunKeeps DEF bounds, TypeOK
<1>6. CASE row.hold /\ dayLock' = dayLock /\ Become(r, [run[r] EXCEPT !.pc = "holding"])
  <2> DEFINE k == [run[r] EXCEPT !.pc = "holding"]
  <2>1. k \in Busy /\ k.pc = "holding" /\ k.object = run[r].object /\ k.day = run[r].day
    BY <1>2 DEF Busy
  <2>2. run' = [run EXCEPT ![r] = k]
    BY <1>6 DEF Become
  <2> HIDE DEF k
  <2>3. Kept(k) /\ run[r].object \in InHandOf(k)
    BY <1>1, <1>2, <2>1 DEF Kept, InHandOf, Holders
  <2>4. LockStep(r, k)
    BY <1>1, <1>6, <2>1, FreeLock
  <2>5. QED BY <1>5, <2>1, <2>2, <2>3, <2>4 DEF RunStates
<1>7. CASE ~row.hold /\ dayLock' = dayLock /\ run' = [run EXCEPT ![r] = NoRun]
  <2>1. /\ NoRun \in RunStates /\ Kept(NoRun) /\ NoRun.pc = "idle"
    BY <1>3, Rest
  <2>2. LockStep(r, NoRun)
    BY <1>1, <1>7, <2>1, FreeLock
  <2>3. QED BY <1>5, <1>7, <2>1, <2>2
<1>8. CASE ~row.hold /\ dayLock' = r /\ runLock' = runLock /\ Become(r, [run[r] EXCEPT !.pc = "deleting"])
  <2> DEFINE k == [run[r] EXCEPT !.pc = "deleting"]
  <2>1. k \in Busy /\ k.pc = "deleting" /\ k.object = run[r].object /\ k.day = run[r].day
    BY <1>2 DEF Busy
  <2>2. run' = [run EXCEPT ![r] = k]
    BY <1>8 DEF Become
  <2> HIDE DEF k
  <2>3. Kept(k)
    BY <1>1, <1>2, <1>8, <2>1 DEF Kept, Holders
  <2>4. LockStep(r, k)
    BY <1>1, <1>8, <2>1, RetentionAssumption DEF LockStep
  <2>5. QED BY <1>5, <1>8, <2>1, <2>2, <2>3, <2>4 DEF RunStates
<1>9. QED BY <1>6, <1>7, <1>8 DEF BeginComplete, EndRun, Become

\* The deletion's commit: the record names a version with the day's events.
LEMMA CommitCompleteKeeps ==
  ASSUME TypeOK, IInv, NEW r \in Runs, CommitComplete(r)
  PROVE  TypeOK' /\ IInv'
<1> DEFINE k == [NoRun EXCEPT !.pc = "between", !.todo = run[r].todo]
<1>1. /\ run[r].pc = "deleting" /\ live' = live \ {run[r].day} /\ dayLock' = NoOne
      /\ archives' = [archives EXCEPT ![run[r].day] = run[r].object]
      /\ run' = [run EXCEPT ![r] = k]
      /\ UNCHANGED <<theRow, theSync, objects, runLock, missed, bounds>>
  BY DEF CommitComplete, NextDay, Become, Today
<1>2. /\ run[r].object \in DOMAIN objects /\ objects[run[r].object].full
      /\ objects[run[r].object].day = run[r].day /\ ~row.hold
  BY <1>1 DEF IInv, UploadInHand, Holders, OffWhileDeleting
<1>3. Grows
  BY <1>1, SameGrows
<1>4. k \in RunStates /\ Kept(k) /\ k.pc = "between"
  BY <1>3, Rest, RunFields DEF TypeOK
<1> HIDE DEF k
<1>5. ArchiveStep
  <2>1. /\ Len(objects) \in Nat /\ DOMAIN objects = 1..Len(objects)
        /\ run[r].object \in 0..Len(objects) /\ run[r].object # 0
    BY <1>2, LenProperties DEF TypeOK
  <2>2. \A d \in Days : archives'[d] = IF d = run[r].day THEN run[r].object ELSE archives[d]
    BY <1>1 DEF TypeOK
  <2>3. archives' \in [Days -> 0..Len(objects')]
    BY <1>1, <2>1 DEF TypeOK
  <2>4. \A d \in Days : archives'[d] # 0 => objects'[archives'[d]].day = d
    BY <1>1, <1>2, <2>2 DEF TypeOK
  <2>5. \A d \in Days : d \notin live' => archives'[d] # 0 /\ objects'[archives'[d]].full
    BY <1>1, <1>2, <2>1, <2>2 DEF IInv, DeletedIsArchived
  <2>6. live' \subseteq Days
    BY <1>1 DEF TypeOK
  <2>7. QED BY <2>3, <2>4, <2>5, <2>6 DEF ArchiveStep
<1>6. LockStep(r, k)
  BY <1>1, <1>4, FreeLock
<1>7. NothingLeft(r, k)
  BY <1>1, <1>2 DEF NothingLeft, TypeOK
<1>8. QED BY <1>1, <1>3, <1>4, <1>5, <1>6, <1>7, RunKeeps DEF bounds, TypeOK

LEMMA HoldObjectKeeps ==
  ASSUME TypeOK, IInv, NEW r \in Runs, HoldObject(r)
  PROVE  TypeOK' /\ IInv'
<1> DEFINE k == [NoRun EXCEPT !.pc = "between", !.todo = run[r].todo]
<1>1. /\ run[r].pc = "holding" /\ run' = [run EXCEPT ![r] = k]
      /\ objects' = [i \in DOMAIN objects |->
           IF objects[i].day = run[r].day THEN [objects[i] EXCEPT !.held = TRUE] ELSE objects[i]]
      /\ UNCHANGED <<theRow, theSync, theStore, runLock, missed, bounds>>
  BY DEF HoldObject, NextDay, Become, Today
<1>2. \A i \in DOMAIN objects : objects[i] \in Objects
  BY ElementOfSeq, LenProperties DEF TypeOK
<1>3. \A i \in DOMAIN objects : \E b \in BOOLEAN : objects'[i] = [objects[i] EXCEPT !.held = b]
  <2> SUFFICES ASSUME NEW i \in DOMAIN objects
               PROVE  \E b \in BOOLEAN : objects'[i] = [objects[i] EXCEPT !.held = b]
    OBVIOUS
  <2>1. CASE objects[i].day = run[r].day
    BY <1>1, <2>1
  <2>2. CASE objects[i].day # run[r].day
    <3>1. objects[i] = [objects[i] EXCEPT !.held = objects[i].held] /\ objects[i].held \in BOOLEAN
      BY <1>2 DEF Objects
    <3>2. QED BY <1>1, <2>2, <3>1
  <2>3. QED BY <2>1, <2>2
<1>4. objects' = [i \in DOMAIN objects |-> objects'[i]]
  BY <1>1
<1>5. Grows /\ DOMAIN objects' = DOMAIN objects
  BY <1>3, <1>4, HoldGrows
<1>6. \A i \in DOMAIN objects : /\ objects[i].held => objects'[i].held
                                /\ objects[i].day = run[r].day => objects'[i].held
  BY <1>1, <1>2 DEF Objects
<1>7. ArchiveStep
  BY <1>1, <1>5, SameArchives DEF theStore, IInv
<1>8. k \in RunStates /\ Kept(k) /\ k.pc = "between"
  BY <1>5, Rest, RunFields DEF TypeOK
<1> HIDE DEF k
<1>9. LockStep(r, k)
  BY <1>1, <1>8, FreeLock DEF theStore
<1>10. NothingLeft(r, k)
  <2>1. run[r].object \in DOMAIN objects /\ objects[run[r].object].day = run[r].day
    BY <1>1 DEF IInv, UploadInHand, Holders
  <2>2. QED BY <1>1, <1>5, <1>6, <2>1 DEF NothingLeft, InHand, TypeOK
<1>11. QED BY <1>1, <1>5, <1>7, <1>8, <1>9, <1>10, RunKeeps DEF bounds, TypeOK

\* A failure leaves what the run had in hand, or had just uploaded, as missed.
LEMMA RunFailsKeeps ==
  ASSUME TypeOK, IInv, NEW r \in Runs, RunFails(r)
  PROVE  TypeOK' /\ IInv'
<1> DEFINE k1 == [NoRun EXCEPT !.pc = "between", !.todo = run[r].todo]
           n  == Len(objects) + 1
<1>1. /\ run[r].pc # "idle" /\ failures > 0 /\ failures' = failures - 1
      /\ dayLock' = IF dayLock = r THEN NoOne ELSE dayLock
      /\ UNCHANGED <<theRow, theSync, live, archives, changes, losses>>
      /\ runLock' \in {runLock, NoOne}
  BY DEF RunFails, EndRun, ReleaseRunLock
<1>2. failures' \in 0..MaxFailures
  BY <1>1, RetentionAssumption DEF TypeOK
<1>3. /\ Grows /\ \A i \in DOMAIN objects : objects'[i] = objects[i]
      /\ missed \subseteq missed' /\ missed' \subseteq DOMAIN objects'
      /\ InHand(r) \subseteq missed' /\ DOMAIN objects' \ DOMAIN objects \subseteq missed'
  <2>1. CASE objects' = objects /\ missed' = missed \cup InHand(r)
    <3>1. InHand(r) \subseteq DOMAIN objects
      BY DEF InHand, IInv, UploadInHand, Holders
    <3>2. QED BY <2>1, <3>1, SameGrows DEF TypeOK
  <2>2. CASE /\ run[r].pc = "uploading" /\ Len(objects) < MaxObjects
             /\ objects' = Uploaded(r) /\ missed' = missed \cup {n}
    <3>1. /\ Grows /\ DOMAIN objects' = DOMAIN objects \cup {n}
          /\ \A i \in DOMAIN objects : objects'[i] = objects[i]
      BY <2>2, UploadedObject
    <3>2. QED BY <2>2, <3>1 DEF InHand, TypeOK
  <2>3. QED BY <2>1, <2>2 DEF RunFails
<1>4. ArchiveStep
  BY <1>1, <1>3, SameArchives DEF IInv
<1>5. ASSUME NEW k \in RunStates, run' = [run EXCEPT ![r] = k], k.pc # "deleting", Kept(k)
      PROVE  TypeOK' /\ IInv'
  <2>1. LockStep(r, k)
    BY <1>1, <1>5, FreeLock
  <2>2. NothingLeft(r, k)
    BY <1>3 DEF NothingLeft
  <2>3. QED BY <1>1, <1>2, <1>3, <1>4, <1>5, <2>1, <2>2, RunKeeps
<1>6. /\ NoRun \in RunStates /\ Kept(NoRun) /\ NoRun.pc = "idle"
      /\ k1 \in RunStates /\ Kept(k1) /\ k1.pc = "between"
  BY <1>3, Rest, RunFields DEF TypeOK
<1>7. run' = [run EXCEPT ![r] = k1] \/ run' = [run EXCEPT ![r] = NoRun]
  BY DEF RunFails, EndRun, NextDay, Become
<1> HIDE DEF k1
<1>8. QED BY <1>5, <1>6, <1>7

-----------------------------------------------------------------------------
\* Admins, and the lock a run loses.

LEMMA LoseRunLockKeeps ==
  ASSUME TypeOK, IInv, LoseRunLock PROVE TypeOK' /\ IInv'
<1>1. /\ losses > 0 /\ losses' = losses - 1 /\ runLock' = NoOne
      /\ UNCHANGED <<theRow, theSync, theStore, objects, run, missed, changes, failures>>
  BY DEF LoseRunLock
<1>2. losses' \in 0..MaxLost
  BY <1>1, RetentionAssumption DEF TypeOK
<1>3. TypeOK'
  BY <1>1, <1>2 DEF TypeOK, theRow, theSync, theStore
<1>4. IInv'
  BY <1>1 DEF IInv, OffWhileDeleting, UploadInHand, DeletedIsArchived, OneSync, SyncCovers,
       HoldCovers, Covered, InHand, theRow, theSync, theStore
<1>5. QED BY <1>3, <1>4

LEMMA ReadRowKeeps ==
  ASSUME TypeOK, IInv, NEW q \in Admins, NEW ask \in Asks, ReadRow(q, ask)
  PROVE  TypeOK' /\ IInv'
<1> DEFINE hold   == IF ask.hold = Keep THEN row.hold ELSE ask.hold
           cutoff == IF ask.cutoff = Keep THEN row.cutoff ELSE ask.cutoff
           next   == [pc |-> "read", ask |-> ask, hold |-> hold, cutoff |-> cutoff]
<1>1. /\ changes > 0 /\ changes' = changes - 1 /\ req' = [req EXCEPT ![q] = next]
      /\ UNCHANGED <<row, theSync, theStore, objects, run, runLock, missed, failures, losses>>
  BY DEF ReadRow
<1>2. changes' \in 0..MaxChanges
  BY <1>1, RetentionAssumption DEF TypeOK
<1>3. hold \in BOOLEAN /\ cutoff \in Cutoffs
  <2>1. row.hold \in BOOLEAN /\ row.cutoff \in Cutoffs
    BY DEF TypeOK, Rows
  <2>2. ask.hold \in BOOLEAN \cup {Keep} /\ ask.cutoff \in Cutoffs \cup {Keep}
    BY RetentionAssumption
  <2>3. QED BY <2>1, <2>2
<1> HIDE DEF hold, cutoff
<1>4. next \in Requests
  BY <1>3 DEF Requests
<1> HIDE DEF next
<1>5. TypeOK'
  BY <1>1, <1>2, <1>4 DEF TypeOK, theSync, theStore
<1>6. IInv'
  BY <1>1 DEF IInv, OffWhileDeleting, UploadInHand, DeletedIsArchived, OneSync, SyncCovers,
       HoldCovers, Covered, InHand, theSync, theStore
<1>7. QED BY <1>5, <1>6

\* A changed hold is a generation no sync has read and nobody has recorded.
LEMMA PutRowKeeps ==
  ASSUME TypeOK, IInv, NEW q \in Admins, PutRow(q)
  PROVE  TypeOK' /\ IInv'
<1>1. /\ req[q].pc = "read" /\ dayLock = NoOne /\ row' = Written(q)
      /\ req' = [req EXCEPT ![q] = NoRequest]
      /\ UNCHANGED <<theSync, theStore, objects, run, runLock, missed, bounds>>
  BY DEF PutRow
<1>2. req[q].hold \in BOOLEAN /\ req[q].cutoff \in Cutoffs
  BY <1>1 DEF TypeOK, Requests, NoRequest
<1>3. /\ row \in Rows /\ row.synced \in Nat /\ row.generation \in Nat /\ row.synced <= row.generation
  BY DEF TypeOK, Rows
<1>4. /\ row' \in Rows /\ row'.synced = row.synced
      /\ \/ row'.hold = row.hold /\ row'.generation = row.generation
         \/ row'.generation = row.generation + 1
  <2> DEFINE g == IF row.hold # req[q].hold THEN row.generation + 1 ELSE row.generation
  <2>1. row' = [row EXCEPT !.hold = req[q].hold, !.cutoff = req[q].cutoff, !.generation = g]
    BY <1>1 DEF Written
  <2>2. g \in Nat /\ (g = row.generation + 1 \/ (g = row.generation /\ row.hold = req[q].hold))
    BY <1>3
  <2> HIDE DEF g
  <2>3. row' \in Rows
    BY <1>2, <1>3, <2>1, <2>2 DEF Rows
  <2>4. row'.hold = req[q].hold /\ row'.generation = g /\ row'.synced = row.synced
    BY <1>3, <2>1 DEF Rows
  <2>5. QED BY <2>2, <2>3, <2>4
<1>5. \A s \in Syncs : sync[s].generation \in Nat
  BY DEF TypeOK, SyncStates
<1>6. TypeOK'
  <2>1. row'.synced <= row'.generation
    BY <1>3, <1>4
  <2>2. req' \in [Admins -> Requests]
    BY <1>1 DEF TypeOK, Requests
  <2>3. QED BY <1>1, <1>4, <2>1, <2>2 DEF TypeOK, theSync, theStore, bounds
<1>7. \A r \in Runs : run[r].pc # "deleting"
  BY <1>1, RetentionAssumption DEF TypeOK
<1>8. OffWhileDeleting' /\ UploadInHand' /\ DeletedIsArchived'
  BY <1>1, <1>7 DEF IInv, OffWhileDeleting, UploadInHand, DeletedIsArchived, theStore
<1>9. OneSync'
  BY <1>1, <1>3, <1>4, <1>5 DEF IInv, OneSync, theSync
<1>10. CASE row'.hold = row.hold /\ row'.generation = row.generation
  BY <1>1, <1>4, <1>6, <1>8, <1>9, <1>10
  DEF IInv, SyncCovers, HoldCovers, Covered, InHand, theSync
<1>11. CASE row'.generation = row.generation + 1
  <2>1. row'.synced # row'.generation
    BY <1>3, <1>4, <1>11
  <2>2. \A s \in Syncs : sync[s].pc = "setting" => sync[s].generation # row'.generation
    BY <1>3, <1>5, <1>11 DEF IInv, OneSync
  <2>3. SyncCovers' /\ HoldCovers'
    BY <1>1, <2>1, <2>2 DEF SyncCovers, HoldCovers, theSync
  <2>4. QED BY <1>6, <1>8, <1>9, <2>3 DEF IInv
<1>12. QED BY <1>4, <1>10, <1>11
-----------------------------------------------------------------------------
\* Syncs.

LEMMA StartSyncKeeps ==
  ASSUME TypeOK, IInv, NEW s \in Syncs, StartSync(s)
  PROVE  TypeOK' /\ IInv'
<1> DEFINE k == [pc |-> "setting", generation |-> row.generation, on |-> row.hold, todo |-> DOMAIN objects]
<1>1. /\ syncLock = NoOne /\ row.synced # row.generation /\ syncLock' = s
      /\ sync' = [sync EXCEPT ![s] = k]
      /\ UNCHANGED <<theRow, theStore, objects, run, runLock, missed, bounds>>
  BY DEF StartSync
<1>2. /\ row.synced \in Nat /\ row.generation \in Nat /\ row.synced <= row.generation
      /\ row.hold \in BOOLEAN
  BY DEF TypeOK, Rows
<1>3. k \in SyncStates
  <2>1. DOMAIN objects \in SUBSET Nat
    BY LenProperties DEF TypeOK
  <2>2. QED BY <1>2, <2>1 DEF SyncStates
<1>4. k.pc = "setting" /\ k.generation = row.generation /\ k.on = row.hold /\ k.todo = DOMAIN objects
  OBVIOUS
<1> HIDE DEF k
<1>5. sync'[s] = k /\ \A t \in Syncs \ {s} : sync'[t] = sync[t]
  BY <1>1 DEF TypeOK
<1>6. TypeOK'
  BY <1>1, <1>3, <1>4, <1>5 DEF TypeOK, theRow, theStore, bounds
<1>7. \A t \in Syncs : sync[t].pc # "setting"
  BY <1>1, RetentionAssumption DEF IInv, OneSync
<1>8. OffWhileDeleting' /\ UploadInHand' /\ DeletedIsArchived' /\ HoldCovers'
  BY <1>1 DEF IInv, OffWhileDeleting, UploadInHand, DeletedIsArchived, HoldCovers, InHand,
              theRow, theStore
<1>9. OneSync'
  BY <1>1, <1>2, <1>4, <1>5, <1>7 DEF OneSync, theRow
<1>10. SyncCovers'
  BY <1>1, <1>4, <1>5, <1>7 DEF SyncCovers, Covered, InHand, theRow
<1>11. QED BY <1>6, <1>8, <1>9, <1>10 DEF IInv

\* One version is put on hold or taken off it, as the sync's own state says.
LEMMA SetObjectKeeps ==
  ASSUME TypeOK, IInv, NEW s \in Syncs, SetObject(s)
  PROVE  TypeOK' /\ IInv'
<1>1. PICK n \in sync[s].todo :
        /\ objects' = [objects EXCEPT ![n].held = sync[s].on]
        /\ sync' = [sync EXCEPT ![s].todo = @ \ {n}]
  BY DEF SetObject
<1> DEFINE k == [sync[s] EXCEPT !.todo = @ \ {n}]
<1>2. /\ sync[s].pc = "setting" /\ sync' = [sync EXCEPT ![s] = k]
      /\ UNCHANGED <<theRow, theStore, syncLock, run, runLock, missed, bounds>>
  BY <1>1 DEF SetObject
<1>3. /\ sync[s] \in SyncStates /\ sync[s].todo \subseteq DOMAIN objects /\ sync[s].on \in BOOLEAN
      /\ n \in DOMAIN objects
  BY DEF TypeOK, SyncStates
<1>4. /\ k \in SyncStates /\ k.pc = "setting" /\ k.generation = sync[s].generation
      /\ k.on = sync[s].on /\ k.todo = sync[s].todo \ {n}
  BY <1>2, <1>3 DEF SyncStates
<1> HIDE DEF k
<1>5. sync'[s] = k /\ \A t \in Syncs \ {s} : sync'[t] = sync[t]
  BY <1>2 DEF TypeOK
<1>6. \A i \in DOMAIN objects : objects[i] \in Objects
  BY ElementOfSeq, LenProperties DEF TypeOK
<1>7. Grows /\ DOMAIN objects' = DOMAIN objects
  <2>1. objects' = [i \in DOMAIN objects |-> objects'[i]]
    BY <1>1, LenProperties DEF TypeOK
  <2>2. \A i \in DOMAIN objects : \E b \in BOOLEAN : objects'[i] = [objects[i] EXCEPT !.held = b]
    <3> SUFFICES ASSUME NEW i \in DOMAIN objects
                 PROVE  \E b \in BOOLEAN : objects'[i] = [objects[i] EXCEPT !.held = b]
      OBVIOUS
    <3>1. CASE i = n
      BY <1>1, <1>3, <3>1
    <3>2. CASE i # n
      <4>1. objects[i] = [objects[i] EXCEPT !.held = objects[i].held] /\ objects[i].held \in BOOLEAN
        BY <1>6 DEF Objects
      <4>2. QED BY <1>1, <3>2, <4>1
    <3>3. QED BY <3>1, <3>2
  <2>3. QED BY <2>1, <2>2, HoldGrows
<1>8. /\ \A i \in DOMAIN objects \ {n} : objects'[i] = objects[i]
      /\ objects'[n].held = sync[s].on
  BY <1>1, <1>3, <1>6 DEF Objects
<1>9. ArchiveStep
  BY <1>2, <1>7, SameArchives DEF theStore, IInv
<1>10. TypeOK'
  <2>1. Len(objects) \in Nat /\ Len(objects') \in Nat /\ Len(objects) <= Len(objects')
    BY <1>7, LenProperties DEF TypeOK, Grows
  <2>2. \A r \in Runs : run'[r].object <= Len(objects')
    <3>1. \A r \in Runs : run[r].object \in Nat
      BY RunFields DEF TypeOK
    <3>2. QED BY <1>2, <2>1, <3>1 DEF TypeOK
  <2>3. sync' \in [Syncs -> SyncStates] /\ \A t \in Syncs : sync'[t].todo \subseteq DOMAIN objects'
    BY <1>2, <1>3, <1>4, <1>5, <1>7 DEF TypeOK
  <2>4. QED BY <1>2, <1>7, <1>9, <2>2, <2>3
             DEF TypeOK, Grows, ArchiveStep, theRow, theStore, bounds
<1>11. OffWhileDeleting' /\ UploadInHand' /\ DeletedIsArchived'
  BY <1>2, <1>7, <1>9 DEF IInv, OffWhileDeleting, UploadInHand, DeletedIsArchived, ArchiveStep,
                          Grows, Holders, theRow, theStore
<1>12. OneSync'
  BY <1>2, <1>4, <1>5 DEF IInv, OneSync, theRow
<1>13. \A t \in Syncs \ {s} : sync'[t].pc # "setting"
  BY <1>2, <1>5 DEF IInv, OneSync
<1>14. SyncCovers'
  <2>1. ASSUME row.hold, k.generation = row.generation
        PROVE  /\ k.on
               /\ \A i \in DOMAIN objects' : objects'[i].full => i \in k.todo \/ Covered(i)'
    <3>1. /\ sync[s].on
          /\ \A i \in DOMAIN objects : objects[i].full => i \in sync[s].todo \/ Covered(i)
      BY <1>2, <1>4, <2>1 DEF IInv, SyncCovers
    <3>2. \A i \in DOMAIN objects \ {n} : Covered(i) => Covered(i)'
      BY <1>2, <1>8 DEF Covered, InHand
    <3>3. Covered(n)'
      BY <1>8, <3>1 DEF Covered
    <3>4. QED BY <1>4, <1>7, <3>1, <3>2, <3>3 DEF Grows
  <2>2. QED BY <1>2, <1>5, <1>13, <2>1 DEF SyncCovers, theRow
<1>15. HoldCovers'
  <2>1. row.synced # row.generation
    <3>1. row.synced \in Nat /\ row.generation \in Nat /\ sync[s].generation \in Nat
      BY <1>3 DEF TypeOK, Rows, SyncStates
    <3>2. QED BY <1>2, <3>1 DEF IInv, OneSync
  <2>2. QED BY <1>2, <2>1 DEF HoldCovers, theRow
<1>16. QED BY <1>10, <1>11, <1>12, <1>14, <1>15 DEF IInv

\* A sync that ends, recorded as done or not.
LEMMA EndSyncKeeps ==
  ASSUME TypeOK, IInv, NEW s \in Syncs, SyncDone(s) \/ SyncFails(s)
  PROVE  TypeOK' /\ IInv'
<1>1. /\ sync[s].pc = "setting" /\ sync' = [sync EXCEPT ![s] = NoSync]
      /\ syncLock' = IF syncLock = s THEN NoOne ELSE syncLock
      /\ UNCHANGED <<req, theStore, objects, run, runLock, missed, changes, losses>>
      /\ failures' \in 0..MaxFailures
      /\ \/ row' = row
         \/ /\ sync[s].todo = {}
            /\ row' = [row EXCEPT !.synced = IF sync[s].generation > @ THEN sync[s].generation ELSE @]
  BY RetentionAssumption DEF SyncDone, SyncFails, EndSync, TypeOK, theRow, bounds
<1>2. /\ syncLock = s /\ row.synced < sync[s].generation /\ sync[s].generation <= row.generation
      /\ \A t \in Syncs \ {s} : sync[t].pc # "setting"
  BY <1>1 DEF IInv, OneSync
<1>3. /\ row \in Rows /\ row.synced \in Nat /\ row.generation \in Nat /\ sync[s].generation \in Nat
  BY DEF TypeOK, Rows, SyncStates
<1>4. /\ row' \in Rows /\ row'.hold = row.hold /\ row'.generation = row.generation
      /\ row'.synced <= row'.generation
      /\ row' = row \/ (sync[s].todo = {} /\ row'.synced = sync[s].generation)
  <2>1. CASE row' = row
    BY <1>3, <2>1 DEF TypeOK
  <2>2. CASE row' = [row EXCEPT !.synced = IF sync[s].generation > @ THEN sync[s].generation ELSE @]
    <3>1. row' = [row EXCEPT !.synced = sync[s].generation]
      BY <1>2, <1>3, <2>2
    <3>2. /\ row' \in Rows /\ row'.hold = row.hold /\ row'.generation = row.generation
          /\ row'.synced = sync[s].generation
      BY <1>3, <3>1 DEF Rows
    <3>3. QED BY <1>1, <1>2, <3>2
  <2>3. QED BY <1>1, <2>1, <2>2
<1>5. NoSync \in SyncStates /\ NoSync.pc = "idle" /\ NoSync.todo = {}
  BY DEF NoSync, SyncStates
<1>6. sync'[s] = NoSync /\ \A t \in Syncs \ {s} : sync'[t] = sync[t]
  BY <1>1 DEF TypeOK
<1>7. \A t \in Syncs : sync'[t].pc # "setting"
  BY <1>2, <1>5, <1>6
<1>8. TypeOK'
  <2>1. sync' \in [Syncs -> SyncStates] /\ \A t \in Syncs : sync'[t].todo \subseteq DOMAIN objects'
    BY <1>1, <1>5, <1>6 DEF TypeOK
  <2>2. QED BY <1>1, <1>4, <2>1 DEF TypeOK, theStore
<1>9. OffWhileDeleting' /\ UploadInHand' /\ DeletedIsArchived'
  BY <1>1, <1>4 DEF IInv, OffWhileDeleting, UploadInHand, DeletedIsArchived, theStore
<1>10. OneSync' /\ SyncCovers'
  BY <1>7 DEF OneSync, SyncCovers
<1>11. HoldCovers'
  <2>1. CASE row' = row
    BY <1>1, <2>1 DEF IInv, HoldCovers, InHand
  <2>2. CASE sync[s].todo = {} /\ row'.synced = sync[s].generation
    BY <1>1, <1>4, <2>2 DEF IInv, SyncCovers, HoldCovers, Covered, InHand
  <2>3. QED BY <1>4, <2>1, <2>2
<1>12. QED BY <1>8, <1>9, <1>10, <1>11 DEF IInv

-----------------------------------------------------------------------------
LEMMA InitKeeps == Init => TypeOK /\ IInv
<1> SUFFICES ASSUME Init PROVE TypeOK /\ IInv
  OBVIOUS
<1>1. PICK c \in Cutoffs, n \in {0, 1} :
        row = [cutoff |-> c, hold |-> n = 1, generation |-> n, synced |-> n]
  BY DEF Init
<1>2. /\ row \in Rows /\ row.synced = row.generation /\ row.synced <= row.generation
  <2> DEFINE hold == n = 1
  <2>1. hold \in BOOLEAN /\ n \in Nat /\ row = [cutoff |-> c, hold |-> hold, generation |-> n, synced |-> n]
    BY <1>1
  <2> HIDE DEF hold
  <2>2. QED BY <2>1 DEF Rows
<1>3. /\ NoRun \in RunStates /\ NoRun.pc = "idle" /\ NoRun.object = 0
      /\ NoSync \in SyncStates /\ NoSync.pc = "idle" /\ NoSync.todo = {}
      /\ NoRequest \in Requests
  <2>1. NoRun \in Resting /\ NoRun.pc = "idle" /\ NoRun.object = 0
    BY DEF NoRun, Resting
  <2>2. NoSync \in SyncStates /\ NoSync.pc = "idle" /\ NoSync.todo = {}
    BY DEF NoSync, SyncStates
  <2>3. QED BY <2>1, <2>2 DEF RunStates, Requests
<1>4. /\ objects = <<>> /\ objects \in Seq(Objects) /\ Len(objects) = 0 /\ DOMAIN objects = {}
  BY LenProperties, EmptySeq DEF Init
<1>5. \A r \in Runs : run[r] = NoRun
  BY DEF Init
<1>6. \A s \in Syncs : sync[s] = NoSync
  BY DEF Init
<1>7. TypeOK
  <2>1. live \subseteq Days /\ archives \in [Days -> 0..Len(objects)] /\ missed = {}
    BY <1>4 DEF Init
  <2>2. \A d \in Days : archives[d] = 0
    BY DEF Init
  <2>3. run \in [Runs -> RunStates] /\ sync \in [Syncs -> SyncStates] /\ req \in [Admins -> Requests]
    BY <1>3 DEF Init
  <2>4. dayLock = NoOne /\ runLock = NoOne /\ syncLock = NoOne
    BY DEF Init
  <2>5. changes \in 0..MaxChanges /\ failures \in 0..MaxFailures /\ losses \in 0..MaxLost
    BY RetentionAssumption DEF Init
  <2>6. \A r \in Runs : run[r].pc = "deleting" <=> dayLock = r
    BY <1>3, <1>5, <2>4, RetentionAssumption
  <2>7. MaxObjects \in Nat
    BY RetentionAssumption
  <2>8. QED BY <1>2, <1>3, <1>4, <1>5, <1>6, <2>1, <2>2, <2>3, <2>4, <2>5, <2>6, <2>7 DEF TypeOK
<1>8. IInv
  BY <1>3, <1>4, <1>5, <1>6 DEF Init, IInv, OffWhileDeleting, UploadInHand, DeletedIsArchived,
     OneSync, SyncCovers, HoldCovers, Holders
<1>9. QED BY <1>7, <1>8

LEMMA NextKeeps == TypeOK /\ IInv /\ [Next]_vars => (TypeOK /\ IInv)'
<1> SUFFICES ASSUME TypeOK, IInv, [Next]_vars PROVE TypeOK' /\ IInv'
  OBVIOUS
<1>1. ASSUME NEW r \in Runs, RunStep(r) PROVE TypeOK' /\ IInv'
  BY <1>1, StartRunKeeps, TakeDayKeeps, ReadDayKeeps, PutKeeps, BeginCompleteKeeps,
     CommitCompleteKeeps, HoldObjectKeeps DEF RunStep
<1>2. ASSUME NEW r \in Runs, RunFails(r) PROVE TypeOK' /\ IInv'
  BY <1>2, RunFailsKeeps
<1>3. CASE LoseRunLock
  BY <1>3, LoseRunLockKeeps
<1>4. ASSUME NEW q \in Admins, (\E ask \in Asks : ReadRow(q, ask)) \/ PutRow(q)
      PROVE  TypeOK' /\ IInv'
  BY <1>4, ReadRowKeeps, PutRowKeeps
<1>5. ASSUME NEW s \in Syncs, SyncStep(s) \/ SyncFails(s) PROVE TypeOK' /\ IInv'
  BY <1>5, StartSyncKeeps, SetObjectKeeps, EndSyncKeeps DEF SyncStep
<1>6. CASE UNCHANGED vars
  <2>1. TypeOK'
    BY <1>6 DEF vars, TypeOK
  <2>2. IInv'
    BY <1>6 DEF vars, IInv, OffWhileDeleting, UploadInHand, DeletedIsArchived, OneSync, SyncCovers,
       HoldCovers, Covered, InHand
  <2>3. QED BY <2>1, <2>2
<1>7. QED BY <1>1, <1>2, <1>3, <1>4, <1>5, <1>6 DEF Next

\* Every state of a run is one the database and the bucket can be in.
THEOREM TypeCorrect == Spec => []TypeOK
<1>1. QED BY InitKeeps, NextKeeps, PTL DEF Spec

\* What has left the database is in the bucket, whichever upload came last.
THEOREM Archived == Spec => []DeletedIsArchived
<1>1. TypeOK /\ IInv => DeletedIsArchived
  BY DEF IInv
<1>2. QED BY <1>1, InitKeeps, NextKeeps, PTL DEF Spec

\* A hold recorded as in sync covers every object with events, but for the
\* ones in the hands of a run and those a failed run missed.
THEOREM HoldsCover == Spec => []HoldCovers
<1>1. TypeOK /\ IInv => HoldCovers
  BY DEF IInv
<1>2. QED BY <1>1, InitKeeps, NextKeeps, PTL DEF Spec

\* Only a deletion's commit takes events out of the database.
LEMMA OnlyCommits ==
  ASSUME [Next]_vars, live' # live
  PROVE  \E r \in Runs : CommitComplete(r)
  BY DEF Next, RunStep, SyncStep, StartRun, TakeDay, ReadDay, Put, BeginComplete, HoldObject,
         RunFails, LoseRunLock, ReadRow, PutRow, StartSync, SetObject, SyncDone, SyncFails,
         theStore, vars

\* No event goes while the workspace is on hold: the deletion holds the lock
\* that a change of the hold waits for.
THEOREM NotOnHold == Spec => NothingDeletedOnHold
<1>1. TypeOK /\ IInv /\ [Next]_vars => (live' # live => ~row.hold /\ ~row'.hold)
  <2> SUFFICES ASSUME IInv, [Next]_vars, live' # live PROVE ~row.hold /\ ~row'.hold
    OBVIOUS
  <2>1. PICK r \in Runs : CommitComplete(r)
    BY OnlyCommits
  <2>2. ~row.hold
    BY <2>1 DEF CommitComplete, IInv, OffWhileDeleting
  <2>3. row' = row
    BY <2>1 DEF CommitComplete, theRow
  <2>4. QED BY <2>2, <2>3
<1>2. QED BY <1>1, InitKeeps, NextKeeps, PTL DEF Spec, NothingDeletedOnHold
=============================================================================
