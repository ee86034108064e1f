------------------------------ MODULE SpendProofs ------------------------------
(***************************************************************************)
(* However syncs, requests and rollups of any number of instances overlap, *)
(* lose their locks, fail and stop, a leak is claimed once an episode, a   *)
(* stale report stays due, and no rows outlive their connector (Spend).    *)
(***************************************************************************)
EXTENDS Spend, TLAPS

Marking == \E h \in Handlers : job[h].at = "marking"

\* A rollup whose rows have changed since it read them is late.
ReportsLate == \A r \in Rollers :
  job[r].at = "recording" /\ job[r].level # Level /\ ~slipped => job[r].late \/ Marking

\* A claim makes the leak recent, and nothing makes it claimable again but a
\* week or a new episode, which start the count anew.
ClaimedIsRecent == leak.claims = IF leak.notified = "recent" THEN 1 ELSE 0

IInv == ReportsLate /\ StaleIsDue /\ DataHasConnector /\ ClaimedIsRecent

-----------------------------------------------------------------------------
LEMMA IdleIsJob == Idle \in Jobs /\ Idle.at = "idle"
  BY DEF Idle, Jobs

\* The other rollups and transactions keep what they are doing.
LEMMA FlagJobs ==
  ASSUME NEW j \in Jobs, NEW b \in BOOLEAN
  PROVE  /\ [j EXCEPT !.late = b] \in Jobs /\ [j EXCEPT !.behind = b] \in Jobs
         /\ [j EXCEPT !.late = b].late = b
         /\ \A k \in {[j EXCEPT !.late = b], [j EXCEPT !.behind = b]} :
              k.at = j.at /\ k.key = j.key /\ k.level = j.level /\ k.past = j.past
  BY DEF Jobs

\* What the jobs are, and that a step of one, or of one beside marks that the
\* others see, leaves them so.
JobOK(p, j) ==
  /\ j \in Jobs
  /\ p \in Writers => /\ j.at \in {"pulling", "storing"} => j.key \in Keys
                      /\ j.at = "storing" => j.level \in Levels
  /\ p \in Rollers => j.at \in {"idle", "settings", "rows", "recording", "claiming", "announcing"}

JobsOK == job \in [Writers \cup Rollers -> Jobs] /\ \A p \in Writers \cup Rollers : JobOK(p, job[p])

Accounts == [Keys -> Levels]
Conns == [key : Keys \cup {NoKey}, status : {"", "running", "ok", "error"}, due : BOOLEAN]
Synced == {NoData} \cup [key : Keys, level : Levels]
Rolls == [known : BOOLEAN, stale : BOOLEAN, hourly : BOOLEAN]
Leaks == [open : BOOLEAN, notified : {"no", "recent", "old"}, claims : Nat, told : BOOLEAN]

RowsOK ==
  /\ real \in Accounts /\ conn \in Conns /\ api \in Synced
  /\ csv \in Levels \cup {NoData} /\ report \in Levels \cup {NoData} /\ alerts \in BOOLEAN
  /\ roll \in Rolls /\ leak \in Leaks

BoundsOK ==
  /\ pollLock \in Writers \cup {Free} /\ rollLock \in Rollers \cup {Free}
  /\ limit \in Limits /\ ops \in 0 .. limit.ops /\ faults \in 0 .. limit.faults
  /\ raced \in BOOLEAN /\ slipped \in BOOLEAN

LEMMA Typed == TypeOK <=> JobsOK /\ RowsOK /\ BoundsOK
<1>1. ASSUME TypeOK PROVE JobsOK /\ RowsOK /\ BoundsOK
  BY <1>1 DEF TypeOK, JobsOK, JobOK, RowsOK, BoundsOK, Accounts, Conns, Synced, Rolls, Leaks
<1>2. ASSUME JobsOK, RowsOK, BoundsOK PROVE TypeOK
  <2>1. \A w \in Writers : JobOK(w, job[w])
    BY <1>2 DEF JobsOK
  <2>2. \A r \in Rollers : JobOK(r, job[r])
    BY <1>2 DEF JobsOK
  <2>3. QED BY <1>2, <2>1, <2>2 DEF TypeOK, JobsOK, JobOK, RowsOK, BoundsOK, Accounts, Conns, Synced, Rolls, Leaks
<1>3. QED BY <1>1, <1>2

LEMMA Apart == \A w \in Writers : w \notin Rollers
  BY SpendAssumption

\* The jobs of others as a mark, or a rollup's end, leaves them: only flags differ.
Alike(k, j) == k.at = j.at /\ k.key = j.key /\ k.level = j.level

LEMMA MarkedJobs ==
  ASSUME JobsOK, NEW newer
  PROVE  /\ Marked(newer) \in [Writers \cup Rollers -> Jobs]
         /\ \A p \in Writers \cup Rollers : Alike(Marked(newer)[p], job[p])
         /\ \A p \in Rollers : job[p].at # "idle" => Marked(newer)[p].late = (p \notin newer)
<1>1. job \in [Writers \cup Rollers -> Jobs] /\ DOMAIN job = Writers \cup Rollers
  BY DEF JobsOK
<1>2. ASSUME NEW p \in Writers \cup Rollers
      PROVE  /\ [job[p] EXCEPT !.late = p \notin newer] \in Jobs
             /\ [job[p] EXCEPT !.late = p \notin newer].late = (p \notin newer)
             /\ Alike([job[p] EXCEPT !.late = p \notin newer], job[p])
  <2>1. job[p] \in Jobs /\ (p \notin newer) \in BOOLEAN
    BY <1>1
  <2>2. /\ [job[p] EXCEPT !.late = p \notin newer] \in Jobs
        /\ [job[p] EXCEPT !.late = p \notin newer].late = (p \notin newer)
        /\ \A k \in {[job[p] EXCEPT !.late = p \notin newer], [job[p] EXCEPT !.behind = p \notin newer]} :
             k.at = job[p].at /\ k.key = job[p].key /\ k.level = job[p].level /\ k.past = job[p].past
    BY ONLY <2>1, FlagJobs
  <2>3. QED BY <2>2 DEF Alike
<1>3. \A p \in Writers \cup Rollers :
        Marked(newer)[p] = IF p \in Rollers /\ Rolling(p) THEN [job[p] EXCEPT !.late = p \notin newer] ELSE job[p]
  BY <1>1 DEF Marked
<1>4. \A p \in Writers \cup Rollers : Marked(newer)[p] \in Jobs /\ Alike(Marked(newer)[p], job[p])
  BY <1>1, <1>2, <1>3 DEF Alike
<1>5. Marked(newer) \in [Writers \cup Rollers -> Jobs]
  BY <1>1, <1>4 DEF Marked
<1>6. ASSUME NEW p \in Rollers, job[p].at # "idle"
      PROVE  Marked(newer)[p].late = (p \notin newer)
  <2>1. Marked(newer)[p] = [job[p] EXCEPT !.late = p \notin newer]
    BY <1>3, <1>6 DEF Rolling
  <2>2. [job[p] EXCEPT !.late = p \notin newer].late = (p \notin newer)
    BY <1>2
  <2>3. QED BY <2>1, <2>2
<1>7. QED BY <1>4, <1>5, <1>6

LEMMA RolledPastJobs ==
  ASSUME JobsOK, NEW overtaken
  PROVE  /\ RolledPast(overtaken) \in [Writers \cup Rollers -> Jobs]
         /\ \A p \in Writers \cup Rollers : Alike(RolledPast(overtaken)[p], job[p])
         /\ \A p \in Rollers : RolledPast(overtaken)[p] = job[p]
<1>1. job \in [Writers \cup Rollers -> Jobs] /\ DOMAIN job = Writers \cup Rollers
  BY DEF JobsOK
<1>2. ASSUME NEW p \in Writers \cup Rollers
      PROVE  /\ [job[p] EXCEPT !.behind = p \in overtaken] \in Jobs
             /\ Alike([job[p] EXCEPT !.behind = p \in overtaken], job[p])
  <2>1. job[p] \in Jobs /\ (p \in overtaken) \in BOOLEAN
    BY <1>1
  <2>2. QED BY <2>1, FlagJobs DEF Alike
<1>3. \A p \in Writers \cup Rollers :
        RolledPast(overtaken)[p] = IF p \in Writers /\ InTx(p) THEN [job[p] EXCEPT !.behind = p \in overtaken]
                                   ELSE job[p]
  BY <1>1 DEF RolledPast
<1>4. \A p \in Writers \cup Rollers : RolledPast(overtaken)[p] \in Jobs /\ Alike(RolledPast(overtaken)[p], job[p])
  BY <1>1, <1>2, <1>3 DEF Alike
<1>5. RolledPast(overtaken) \in [Writers \cup Rollers -> Jobs]
  BY <1>1, <1>4 DEF RolledPast
<1>6. QED BY <1>3, <1>4, <1>5, Apart

\* p goes on to j while the others stay alike.
LEMMA JobsStep ==
  ASSUME JobsOK, NEW p \in Writers \cup Rollers, NEW j, JobOK(p, j),
         NEW others \in [Writers \cup Rollers -> Jobs],
         \A q \in Writers \cup Rollers : Alike(others[q], job[q]),
         job' = [others EXCEPT ![p] = j]
  PROVE  JobsOK' /\ job'[p] = j /\ \A q \in (Writers \cup Rollers) \ {p} : job'[q] = others[q]
<1>1. /\ job' \in [Writers \cup Rollers -> Jobs] /\ job'[p] = j
      /\ \A q \in (Writers \cup Rollers) \ {p} : job'[q] = others[q]
  BY DEF JobOK
<1>2. \A q \in Writers \cup Rollers : JobOK(q, job[q])
  BY DEF JobsOK
<1>3. ASSUME NEW q \in Writers \cup Rollers PROVE JobOK(q, job'[q])
  <2>1. CASE q = p
    BY <1>1, <2>1
  <2>2. CASE q # p
    BY <1>1, <1>2, <2>2 DEF JobOK, Alike
  <2>3. QED BY <2>1, <2>2
<1>4. QED BY <1>1, <1>3 DEF JobsOK, JobOK

LEMMA OneJob ==
  ASSUME JobsOK, NEW p \in Writers \cup Rollers, NEW j, JobOK(p, j), job' = [job EXCEPT ![p] = j]
  PROVE  JobsOK' /\ job'[p] = j /\ \A q \in (Writers \cup Rollers) \ {p} : job'[q] = job[q]
<1>1. job \in [Writers \cup Rollers -> Jobs] /\ \A q \in Writers \cup Rollers : Alike(job[q], job[q])
  BY DEF JobsOK, Alike
<1>2. QED BY <1>1, JobsStep

LEMMA IdleOK == \A p \in Writers \cup Rollers : JobOK(p, Idle)
  BY IdleIsJob DEF JobOK

-----------------------------------------------------------------------------
\* What keeps the report due.
StaysDue == StaleIsDue /\ ReportsLate

\* Steps that change neither the rows nor the report, nor take a mark away.
LEMMA QuietStep ==
  ASSUME StaysDue, report' = report, Level' = Level, slipped => slipped',
         roll.known /\ roll.stale => roll'.known /\ roll'.stale,
         \A h \in Handlers : job[h].at = "marking" => job'[h].at = "marking",
         \A r \in Rollers : job'[r].at = "recording" => job'[r] = job[r] \/ job'[r].level = Level
  PROVE  StaysDue'
<1>1. Marking => Marking'
  BY DEF Marking
<1>2. StaleIsDue'
  BY <1>1 DEF StaysDue, StaleIsDue, Marking
<1>3. ReportsLate'
  BY <1>1 DEF StaysDue, ReportsLate
<1>4. QED BY <1>2, <1>3 DEF StaysDue

\* Steps after which a change is still to be marked.
LEMMA MarkingStep ==
  ASSUME NEW h \in Handlers, job'[h].at = "marking"
  PROVE  StaysDue'
  BY DEF StaysDue, StaleIsDue, ReportsLate, Marking

\* A mark in a transaction: the tenant is due and the rollups are late, or the
\* mark slipped.
LEMMA MarkedStep ==
  ASSUME JobsOK, RowsOK, NEW w \in Writers, MarkTx(w)
  PROVE  JobsOK' /\ StaysDue' /\ job'[w] = Idle
<1>1. PICK others \in [Writers \cup Rollers -> Jobs] :
        /\ others = Marked(job[w].past)
        /\ \A q \in Writers \cup Rollers : Alike(others[q], job[q])
        /\ \A q \in Rollers : job[q].at # "idle" => others[q].late = (q \notin job[w].past)
  BY MarkedJobs
<1>2. job' = [others EXCEPT ![w] = Idle]
  BY <1>1 DEF MarkTx
<1>3. JobsOK' /\ job'[w] = Idle /\ \A q \in (Writers \cup Rollers) \ {w} : job'[q] = others[q]
  BY <1>1, <1>2, IdleOK, JobsStep
<1>4. \A r \in Rollers : /\ job'[r].at = job[r].at
                         /\ job[r].at # "idle" => job'[r].late = (r \notin job[w].past)
  BY <1>1, <1>3, Apart DEF Alike
<1>5. ReportsLate'
  BY <1>4 DEF ReportsLate, MarkTx, Rolling
<1>6. StaleIsDue'
  <2>1. roll'.known = TRUE /\ roll'.stale = ~job[w].behind
    BY DEF RowsOK, MarkTx
  <2>2. job[w].behind \in BOOLEAN
    BY DEF JobsOK, Jobs
  <2>3. CASE job[w].behind
    BY <2>3 DEF StaleIsDue, MarkTx
  <2>4. CASE ~job[w].behind
    BY <2>1, <2>4 DEF StaleIsDue
  <2>5. QED BY <2>3, <2>4
<1>7. QED BY <1>3, <1>5, <1>6 DEF StaysDue
-----------------------------------------------------------------------------
\* Each step keeps the types and the invariant.
Keeps == TypeOK' /\ IInv'

LEMMA KeepsFrom ==
  ASSUME JobsOK', RowsOK', BoundsOK', StaysDue', DataHasConnector', ClaimedIsRecent'
  PROVE  Keeps
<1>1. TypeOK'
  <2>1. \A w \in Writers : JobOK(w, job'[w])
    BY DEF JobsOK
  <2>2. \A r \in Rollers : JobOK(r, job'[r])
    BY DEF JobsOK
  <2>3. QED BY <2>1, <2>2 DEF TypeOK, JobsOK, JobOK, RowsOK, BoundsOK, Accounts, Conns, Synced, Rolls, Leaks
<1>2. QED BY <1>1 DEF Keeps, IInv, StaysDue

Given == JobsOK /\ RowsOK /\ BoundsOK /\ StaysDue /\ DataHasConnector /\ ClaimedIsRecent

\* A step of one job that leaves the report and the rows as they are.
LEMMA QuietJob ==
  ASSUME Given, NEW p \in Writers \cup Rollers, NEW j, JobOK(p, j), job' = [job EXCEPT ![p] = j],
         job[p].at = "marking" => j.at = "marking" \/ slipped',
         j.at = "recording" => j.level = Level,
         UNCHANGED <<report, api, csv>>, slipped => slipped',
         roll.known /\ roll.stale => roll'.known /\ roll'.stale
  PROVE  JobsOK' /\ StaysDue'
<1>1. JobsOK' /\ job'[p] = j /\ \A q \in (Writers \cup Rollers) \ {p} : job'[q] = job[q]
  BY OneJob DEF Given
<1>2. CASE slipped'
  BY <1>1, <1>2 DEF StaysDue, StaleIsDue, ReportsLate
<1>3. CASE ~slipped'
  <2>1. Level' = Level
    BY DEF Level
  <2>2. \A h \in Handlers : job[h].at = "marking" => job'[h].at = "marking"
    BY <1>1, <1>3 DEF Writers
  <2>3. \A r \in Rollers : job'[r].at = "recording" => job'[r] = job[r] \/ job'[r].level = Level
    BY <1>1
  <2>4. QED BY <1>1, <2>1, <2>2, <2>3, QuietStep DEF Given
<1>4. QED BY <1>2, <1>3

\* Only the connector's row, the vendor's rows and the settings, or what a
\* rollup stores, changes.
LEMMA ConnRow ==
  ASSUME RowsOK, conn' \in Conns, UNCHANGED <<real, api, csv, alerts, roll, report, leak>>
  PROVE  RowsOK'
  BY DEF RowsOK

LEMMA DataRows ==
  ASSUME RowsOK, api' \in Synced, csv' \in Levels \cup {NoData}, alerts' \in BOOLEAN,
         UNCHANGED <<real, conn, roll, report, leak>>
  PROVE  RowsOK'
  BY DEF RowsOK

LEMMA ReportRow ==
  ASSUME RowsOK, leak' \in Leaks, roll' \in Rolls, report' \in Levels \cup {NoData},
         UNCHANGED <<real, conn, api, csv, alerts>>
  PROVE  RowsOK'
  BY DEF RowsOK

LEMMA PollKeeps ==
  ASSUME Given, NEW w \in Writers,
         SchedulePoll(w) \/ TakePollLock(w) \/ StartSync(w) \/ Pull(w) \/ FailSync(w)
  PROVE  Keeps
<1>0. /\ job[w] \in Jobs /\ JobOK(w, job[w]) /\ JobOK(w, Idle) /\ w \in Writers \cup Rollers
      /\ conn \in Conns /\ conn.key \in Keys \cup {NoKey} /\ w \notin Rollers /\ RowsOK
  BY IdleOK, Apart DEF Given, JobsOK, RowsOK, Conns
<1>1. CASE SchedulePoll(w)
  <2>1. JobOK(w, [job[w] EXCEPT !.at = "scheduled"]) /\ [job[w] EXCEPT !.at = "scheduled"].at = "scheduled"
    BY <1>0 DEF JobOK, Jobs
  <2>2. job' = [job EXCEPT ![w] = [job[w] EXCEPT !.at = "scheduled"]]
    BY <1>1 DEF SchedulePoll, Goto
  <2>3. JobsOK' /\ StaysDue'
    BY <1>0, <1>1, <2>1, <2>2, QuietJob DEF SchedulePoll, data
  <2>4. RowsOK' /\ BoundsOK' /\ DataHasConnector' /\ ClaimedIsRecent'
    <3>1. RowsOK'
      <4>1. UNCHANGED <<real, api, csv, alerts, roll, report, leak>>
        BY <1>1 DEF SchedulePoll, data
      <4>2. conn' \in Conns
        BY <1>0, <1>1 DEF SchedulePoll, Conns
      <4>3. QED BY <1>0, <4>1, <4>2, ConnRow
    <3>2. BoundsOK'
      BY <1>0, <1>1 DEF Given, SchedulePoll, BoundsOK, Unlocked, locks
    <3>3. DataHasConnector'
      BY <1>1 DEF Given, SchedulePoll, data, DataHasConnector
    <3>4. ClaimedIsRecent'
      BY <1>1 DEF Given, SchedulePoll, ClaimedIsRecent
    <3>5. QED BY <3>1, <3>2, <3>3, <3>4
  <2>5. QED BY <2>3, <2>4, KeepsFrom
<1>2. CASE TakePollLock(w)
  <2>1. JobOK(w, [job[w] EXCEPT !.at = "clicked"]) /\ [job[w] EXCEPT !.at = "clicked"].at = "clicked"
    BY <1>0 DEF JobOK, Jobs
  <2>2. \/ job' = [job EXCEPT ![w] = [job[w] EXCEPT !.at = "clicked"]]
        \/ job' = [job EXCEPT ![w] = Idle]
    BY <1>2 DEF TakePollLock, Goto, Done
  <2>3. JobsOK' /\ StaysDue'
    <3>1. UNCHANGED <<report, api, csv, slipped, roll>> /\ job[w].at # "marking" /\ Idle.at # "recording"
      BY <1>2, IdleIsJob DEF TakePollLock, data
    <3>2. QED BY <1>0, <2>1, <2>2, <3>1, QuietJob
  <2>4. RowsOK' /\ BoundsOK' /\ DataHasConnector' /\ ClaimedIsRecent'
    <3>1. RowsOK'
      <4>1. UNCHANGED <<real, api, csv, alerts, roll, report, leak>>
        BY <1>2 DEF TakePollLock, data
      <4>2. conn' \in Conns
        BY <1>0, <1>2 DEF TakePollLock, Conns
      <4>3. QED BY <1>0, <4>1, <4>2, ConnRow
    <3>2. BoundsOK'
      BY <1>0, <1>2 DEF Given, TakePollLock, BoundsOK, Unlocked, locks
    <3>3. DataHasConnector'
      BY <1>2 DEF Given, TakePollLock, data, DataHasConnector
    <3>4. ClaimedIsRecent'
      BY <1>2 DEF Given, TakePollLock, ClaimedIsRecent
    <3>5. QED BY <3>1, <3>2, <3>3, <3>4
  <2>5. QED BY <2>3, <2>4, KeepsFrom
<1>3. CASE StartSync(w)
  <2>1. ASSUME conn.key # NoKey
        PROVE  /\ JobOK(w, [Idle EXCEPT !.at = "pulling", !.key = conn.key])
               /\ [Idle EXCEPT !.at = "pulling", !.key = conn.key].at = "pulling"
    BY <1>0, <2>1 DEF JobOK, Jobs, Idle
  <2>2. \/ conn.key # NoKey /\ job' = [job EXCEPT ![w] = [Idle EXCEPT !.at = "pulling", !.key = conn.key]]
        \/ job' = [job EXCEPT ![w] = Idle]
    BY <1>3 DEF StartSync, Done
  <2>3. JobsOK' /\ StaysDue'
    <3>1. UNCHANGED <<report, api, csv, slipped, roll>> /\ job[w].at # "marking" /\ Idle.at # "recording"
      BY <1>3, IdleIsJob DEF StartSync, data
    <3>2. CASE job' = [job EXCEPT ![w] = Idle]
      BY <1>0, <3>1, <3>2, QuietJob
    <3>3. CASE conn.key # NoKey /\ job' = [job EXCEPT ![w] = [Idle EXCEPT !.at = "pulling", !.key = conn.key]]
      BY <1>0, <2>1, <3>1, <3>3, QuietJob
    <3>4. QED BY <2>2, <3>2, <3>3
  <2>4. RowsOK' /\ BoundsOK' /\ DataHasConnector' /\ ClaimedIsRecent'
    <3>1. RowsOK'
      <4>1. UNCHANGED <<real, api, csv, alerts, roll, report, leak>>
        BY <1>3 DEF StartSync, data
      <4>2. conn' \in Conns
        BY <1>0, <1>3 DEF StartSync, Conns
      <4>3. QED BY <1>0, <4>1, <4>2, ConnRow
    <3>2. BoundsOK'
      BY <1>0, <1>3 DEF Given, StartSync, BoundsOK, Unlocked, locks
    <3>3. DataHasConnector'
      BY <1>0, <1>3 DEF Given, StartSync, data, DataHasConnector, Conns
    <3>4. ClaimedIsRecent'
      BY <1>3 DEF Given, StartSync, ClaimedIsRecent
    <3>5. QED BY <3>1, <3>2, <3>3, <3>4
  <2>5. QED BY <2>3, <2>4, KeepsFrom
<1>4. CASE Pull(w)
  <2>1. real[job[w].key] \in Levels
    BY <1>0, <1>4 DEF Pull, JobOK, Given, RowsOK, Accounts
  <2>2. /\ JobOK(w, [job[w] EXCEPT !.at = "storing", !.level = real[job[w].key]])
        /\ [job[w] EXCEPT !.at = "storing", !.level = real[job[w].key]].at = "storing"
    BY <1>0, <1>4, <2>1 DEF JobOK, Jobs, Pull
  <2>3. job' = [job EXCEPT ![w] = [job[w] EXCEPT !.at = "storing", !.level = real[job[w].key]]]
    BY <1>4 DEF Pull
  <2>4. JobsOK' /\ StaysDue'
    BY <1>0, <1>4, <2>2, <2>3, QuietJob DEF Pull, data
  <2>5. RowsOK' /\ BoundsOK' /\ DataHasConnector' /\ ClaimedIsRecent'
    <3>1. RowsOK'
      <4>1. UNCHANGED <<real, api, csv, alerts, roll, report, leak>>
        BY <1>4 DEF Pull, data
      <4>2. conn' \in Conns
        BY <1>0, <1>4 DEF Pull, Conns
      <4>3. QED BY <1>0, <4>1, <4>2, ConnRow
    <3>2. BoundsOK'
      BY <1>0, <1>4 DEF Given, Pull, BoundsOK, Unlocked, locks
    <3>3. DataHasConnector'
      BY <1>4 DEF Given, Pull, data, DataHasConnector
    <3>4. ClaimedIsRecent'
      BY <1>4 DEF Given, Pull, ClaimedIsRecent
    <3>5. QED BY <3>1, <3>2, <3>3, <3>4
  <2>6. QED BY <2>4, <2>5, KeepsFrom
<1>5. CASE FailSync(w)
  <2>1. JobsOK' /\ StaysDue'
    <3>1. /\ UNCHANGED <<report, api, csv, slipped, roll>> /\ job[w].at # "marking" /\ Idle.at # "recording"
          /\ job' = [job EXCEPT ![w] = Idle]
      BY <1>5, IdleIsJob DEF FailSync, Done, data
    <3>2. QED BY <1>0, <3>1, QuietJob
  <2>2. RowsOK' /\ DataHasConnector' /\ ClaimedIsRecent'
    <3>1. RowsOK'
      <4>1. UNCHANGED <<real, api, csv, alerts, roll, report, leak>>
        BY <1>5 DEF FailSync, data
      <4>2. conn' \in Conns
        BY <1>0, <1>5 DEF FailSync, Conns
      <4>3. QED BY <1>0, <4>1, <4>2, ConnRow
    <3>2. DataHasConnector'
      BY <1>5 DEF Given, FailSync, data, RowsOK, DataHasConnector
    <3>3. ClaimedIsRecent'
      BY <1>5 DEF Given, FailSync, ClaimedIsRecent
    <3>4. QED BY <3>1, <3>2, <3>3
  <2>3. BoundsOK'
    BY <1>5, SpendAssumption DEF Given, FailSync, CountFault, BoundsOK, Unlocked
  <2>4. QED BY <2>1, <2>2, <2>3, KeepsFrom
<1>6. QED BY <1>1, <1>2, <1>3, <1>4, <1>5

LEMMA StoreKeeps ==
  ASSUME Given, NEW w \in Writers, StoreSync(w)
  PROVE  Keeps
<1>1. /\ conn \in Conns /\ RowsOK /\ JobsOK /\ BoundsOK
      /\ job[w] \in Jobs /\ job[w].key \in Keys /\ job[w].level \in Levels
  BY DEF Given, RowsOK, JobsOK, JobOK, Conns, StoreSync
<1>2. JobsOK' /\ StaysDue'
  BY <1>1, MarkedStep DEF StoreSync
<1>3. roll' \in Rolls /\ slipped' \in BOOLEAN
  <2>1. job[w].behind \in BOOLEAN /\ roll \in Rolls /\ slipped \in BOOLEAN
    BY <1>1 DEF Jobs, RowsOK, BoundsOK
  <2>2. QED BY <2>1 DEF StoreSync, MarkTx, Rolls
<1>4. RowsOK'
  <2>1. conn' \in Conns
    BY <1>1 DEF StoreSync, Conns
  <2>2. api' \in Synced
    BY <1>1 DEF StoreSync, Synced
  <2>3. QED BY <1>1, <1>3, <2>1, <2>2 DEF RowsOK, StoreSync, Conns
<1>5. BoundsOK'
  BY <1>1, <1>3 DEF BoundsOK, StoreSync, Unlocked
<1>6. DataHasConnector'
  <2>1. conn.key = NoKey => raced'
    BY DEF StoreSync
  <2>2. conn.key # NoKey => conn'.key # NoKey
    BY <1>1 DEF StoreSync, Conns
  <2>3. QED BY <2>1, <2>2 DEF DataHasConnector
<1>7. ClaimedIsRecent'
  BY DEF Given, ClaimedIsRecent, StoreSync
<1>8. QED BY <1>2, <1>4, <1>5, <1>6, <1>7, KeepsFrom

LEMMA RequestKeeps ==
  ASSUME Given, NEW h \in Handlers, Request(h)
  PROVE  Keeps
<1>0. /\ job[h] \in Jobs /\ JobOK(h, job[h]) /\ h \in Writers /\ h \in Writers \cup Rollers
      /\ conn \in Conns /\ h \notin Rollers /\ RowsOK /\ JobsOK /\ NoKey \notin Keys
      /\ ops \in 0 .. limit.ops /\ limit.ops \in Nat
  BY Apart, SpendAssumption DEF Given, JobsOK, RowsOK, Conns, BoundsOK, Writers
<1>1. \A at \in {"syncing", "deleting", "importing", "marking"} :
        JobOK(h, [job[h] EXCEPT !.at = at]) /\ [job[h] EXCEPT !.at = at].at = at
  BY <1>0 DEF JobOK, Jobs
<1>2. PICK at \in {"syncing", "deleting", "importing", "marking"} :
        job' = [job EXCEPT ![h] = [job[h] EXCEPT !.at = at]]
  BY DEF Request, ClickSync, PutConnector, BeginRequest, WriteUnmarked, Goto
<1>3. /\ job[h].at # "marking" /\ UNCHANGED <<real, roll, report, leak, locks, faults, raced, slipped, limit>>
      /\ ops < limit.ops /\ ops' = ops + 1
  BY DEF Request, ClickSync, PutConnector, BeginRequest, WriteUnmarked, CountOp
<1>4. BoundsOK'
  BY <1>0, <1>3 DEF Given, BoundsOK, locks
<1>5. ClaimedIsRecent'
  BY <1>3 DEF Given, ClaimedIsRecent
<1>6. CASE UNCHANGED <<api, csv, alerts>>
  <2>1. JobsOK' /\ StaysDue'
    BY <1>0, <1>1, <1>2, <1>3, <1>6, QuietJob
  <2>2. conn' \in Conns /\ (conn' = conn \/ conn'.key # NoKey)
    BY <1>0 DEF Request, ClickSync, PutConnector, BeginRequest, WriteUnmarked, Conns
  <2>3. RowsOK'
    BY <1>0, <1>3, <1>6, <2>2, ConnRow
  <2>4. DataHasConnector'
    BY <1>3, <1>6, <2>2 DEF Given, DataHasConnector
  <2>5. QED BY <1>4, <1>5, <2>1, <2>3, <2>4, KeepsFrom
<1>7. CASE ~UNCHANGED <<api, csv, alerts>>
  <2>1. WriteUnmarked(h)
    BY <1>7 DEF Request, ClickSync, PutConnector, BeginRequest, data
  <2>2. job' = [job EXCEPT ![h] = [job[h] EXCEPT !.at = "marking"]]
    BY <2>1 DEF WriteUnmarked, Goto
  <2>3. JobsOK' /\ job'[h].at = "marking"
    BY <1>0, <1>1, <2>2, OneJob
  <2>4. StaysDue'
    BY <2>3, MarkingStep
  <2>5. /\ UNCHANGED <<conn, api>> /\ csv' \in Levels \cup {NoData} /\ alerts' \in BOOLEAN
        /\ api' \in Synced
    BY <1>0, <2>1 DEF WriteUnmarked, RowsOK
  <2>6. RowsOK' /\ DataHasConnector'
    <3>1. RowsOK'
      BY <1>0, <1>3, <2>5, DataRows
    <3>2. DataHasConnector'
      BY <1>3, <2>5 DEF Given, DataHasConnector
    <3>3. QED BY <3>1, <3>2
  <2>7. QED BY <1>4, <1>5, <2>3, <2>4, <2>6, KeepsFrom
<1>8. QED BY <1>6, <1>7

LEMMA FinishKeeps ==
  ASSUME Given, NEW h \in Handlers, Finish(h)
  PROVE  Keeps
<1>0. /\ job[h] \in Jobs /\ h \in Writers /\ h \in Writers \cup Rollers
      /\ RowsOK /\ JobsOK /\ BoundsOK /\ NoKey \notin Keys
  BY SpendAssumption DEF Given, JobsOK, Writers
<1>1. CASE DeleteConnector(h) \/ \E l \in Levels : ImportCSV(h, l)
  <2>1. MarkTx(h) /\ UNCHANGED <<real, alerts, report, leak, locks, ops, faults, limit, raced>>
    BY <1>1 DEF DeleteConnector, ImportCSV
  <2>2. JobsOK' /\ StaysDue'
    BY <1>0, <2>1, MarkedStep
  <2>3. roll' \in Rolls /\ slipped' \in BOOLEAN
    <3>1. job[h].behind \in BOOLEAN /\ roll \in Rolls /\ slipped \in BOOLEAN
      BY <1>0 DEF Jobs, RowsOK, BoundsOK
    <3>2. QED BY <2>1, <3>1 DEF MarkTx, Rolls
  <2>4. \/ conn' = NoConn /\ api' = NoData /\ csv' = csv
        \/ conn' = conn /\ api' = api /\ csv' \in Levels
    BY <1>1 DEF DeleteConnector, ImportCSV
  <2>5. RowsOK'
    <3>1. NoConn \in Conns /\ conn \in Conns
      BY <1>0 DEF NoConn, Conns, RowsOK
    <3>2. conn' \in Conns
      BY <2>4, <3>1
    <3>3. api' \in Synced /\ csv' \in Levels \cup {NoData}
      BY <1>0, <2>4 DEF RowsOK, Synced
    <3>4. QED BY <1>0, <2>1, <2>3, <3>2, <3>3 DEF RowsOK, Conns
  <2>6. BoundsOK'
    BY <1>0, <2>1, <2>3 DEF BoundsOK, locks
  <2>7. DataHasConnector'
    BY <2>1, <2>4 DEF Given, DataHasConnector
  <2>8. ClaimedIsRecent'
    BY <2>1 DEF Given, ClaimedIsRecent
  <2>9. QED BY <2>2, <2>5, <2>6, <2>7, <2>8, KeepsFrom
<1>2. CASE MarkChanged(h)
  <2> DEFINE others == Marked({})
  <2> HIDE DEF others
  <2>1. /\ others \in [Writers \cup Rollers -> Jobs]
        /\ \A q \in Writers \cup Rollers : Alike(others[q], job[q])
        /\ \A q \in Rollers : job[q].at # "idle" => others[q].late = (q \notin {})
    BY <1>0, MarkedJobs DEF others
  <2>2. job' = [others EXCEPT ![h] = Idle]
    BY <1>2 DEF MarkChanged, MarkNow, others
  <2>3. JobsOK' /\ \A q \in (Writers \cup Rollers) \ {h} : job'[q] = others[q]
    BY <1>0, <2>1, <2>2, IdleOK, JobsStep
  <2>4. \A r \in Rollers : job'[r].at = job[r].at /\ (job[r].at # "idle" => job'[r].late)
    BY <1>0, <2>1, <2>3, Apart DEF Alike
  <2>5. ReportsLate'
    BY <2>4 DEF ReportsLate
  <2>6. roll' \in Rolls /\ roll'.known /\ roll'.stale
    BY <1>0, <1>2 DEF MarkChanged, MarkNow, RowsOK, Rolls
  <2>7. StaleIsDue'
    BY <2>6 DEF StaleIsDue
  <2>8. UNCHANGED <<real, conn, api, csv, alerts, report, leak, pollLock, rollLock, ops, faults, limit, raced, slipped>>
    BY <1>2 DEF MarkChanged, MarkNow, data, locks
  <2>9. RowsOK'
    BY <1>0, <2>6, <2>8 DEF RowsOK
  <2>10. BoundsOK'
    BY <1>0, <2>8 DEF BoundsOK
  <2>11. DataHasConnector' /\ ClaimedIsRecent'
    BY <2>8 DEF Given, DataHasConnector, ClaimedIsRecent
  <2>12. QED BY <2>3, <2>5, <2>7, <2>9, <2>10, <2>11, KeepsFrom DEF StaysDue
<1>3. QED BY <1>1, <1>2 DEF Finish

LEMMA LevelIsLevel == ASSUME RowsOK PROVE Level \in Levels \cup {NoData}
  BY DEF RowsOK, Level, Synced

LEMMA LeakRows ==
  ASSUME NEW l \in Leaks, NEW b \in BOOLEAN
  PROVE  /\ [l EXCEPT !.open = b] \in Leaks
         /\ [l EXCEPT !.open = b].notified = l.notified /\ [l EXCEPT !.open = b].claims = l.claims
         /\ [l EXCEPT !.told = b] \in Leaks
         /\ [l EXCEPT !.notified = "recent", !.claims = @ + 1] \in Leaks
         /\ [l EXCEPT !.notified = "old", !.claims = 0] \in Leaks
         /\ [l EXCEPT !.notified = "old", !.claims = 0].notified = "old"
         /\ [l EXCEPT !.notified = "old", !.claims = 0].claims = 0
<1>1. /\ [l EXCEPT !.open = b] \in Leaks /\ [l EXCEPT !.told = b] \in Leaks
  BY DEF Leaks
<1>2. /\ [l EXCEPT !.notified = "recent", !.claims = @ + 1] \in Leaks
      /\ [l EXCEPT !.notified = "old", !.claims = 0] \in Leaks
  <2>1. \A n \in {"recent", "old"}, c \in Nat : [l EXCEPT !.notified = n, !.claims = c] \in Leaks
    BY DEF Leaks
  <2>2. l.claims + 1 \in Nat /\ 0 \in Nat
    BY DEF Leaks
  <2>3. QED BY <2>1, <2>2
<1>3. /\ [l EXCEPT !.open = b].notified = l.notified /\ [l EXCEPT !.open = b].claims = l.claims
      /\ [l EXCEPT !.notified = "old", !.claims = 0].notified = "old"
      /\ [l EXCEPT !.notified = "old", !.claims = 0].claims = 0
  BY DEF Leaks
<1>4. QED BY <1>1, <1>2, <1>3

LEMMA RollupKeeps ==
  ASSUME Given, NEW r \in Rollers, Rollup(r) \/ FailRollup(r)
  PROVE  Keeps
<1>0. /\ job[r] \in Jobs /\ JobOK(r, job[r]) /\ JobOK(r, Idle) /\ r \in Writers \cup Rollers
      /\ r \notin Writers /\ RowsOK /\ JobsOK /\ BoundsOK /\ StaysDue /\ Idle \in Jobs /\ Idle.at = "idle"
      /\ leak \in Leaks /\ roll \in Rolls /\ report \in Levels \cup {NoData}
  BY IdleOK, IdleIsJob, Apart DEF Given, JobsOK, RowsOK, Leaks, Rolls
<1>1. UNCHANGED <<real, conn, api, csv, alerts, pollLock, ops, limit, raced>>
  BY DEF Rollup, StartRollup, ReadSettings, ReadRows, RecordReport, FailRollup, ClaimAlerts, Announce,
         data, locks, CountFault
<1>2. DataHasConnector'
  BY <1>1 DEF Given, DataHasConnector
<1>3. ASSUME ~FailRollup(r) PROVE UNCHANGED <<faults, slipped>>
  BY <1>3 DEF Rollup, StartRollup, ReadSettings, ReadRows, RecordReport, ClaimAlerts, Announce
<1>4. rollLock' \in {rollLock, r, Free}
  BY DEF Rollup, StartRollup, ReadSettings, ReadRows, RecordReport, FailRollup, ClaimAlerts, Announce,
         Unlocked, locks
<1>5. faults' \in 0 .. limit.faults /\ slipped' \in BOOLEAN
  <2>1. /\ limit.faults \in Nat /\ faults \in 0 .. limit.faults /\ slipped \in BOOLEAN
    BY <1>0, SpendAssumption DEF BoundsOK
  <2>2. CASE FailRollup(r)
    BY <2>1, <2>2 DEF FailRollup, CountFault
  <2>3. QED BY <1>3, <2>1, <2>2
<1>6. BoundsOK'
  BY <1>0, <1>1, <1>4, <1>5 DEF BoundsOK
<1>7. Level' = Level
  BY <1>1 DEF Level
<1>8. CASE StartRollup(r)
  <2> DEFINE Seen(p) == IF p \in Writers /\ InTx(p) THEN [job[p] EXCEPT !.past = @ \cup {r}] ELSE job[p]
             others == [p \in Writers \cup Rollers |-> Seen(p)]
             j == [Idle EXCEPT !.at = "settings"]
  <2>1. JobOK(r, j) /\ j.at = "settings"
    BY <1>0 DEF JobOK, Jobs, Idle
  <2>2. \A p \in Writers \cup Rollers : Seen(p) \in Jobs /\ Alike(Seen(p), job[p])
    <3>1. \A p \in Writers \cup Rollers : job[p] \in Jobs
      BY <1>0 DEF JobsOK
    <3>2. QED BY <3>1 DEF Jobs, Alike
  <2>3. \A p \in Rollers : Seen(p) = job[p]
    BY Apart
  <2>4. DOMAIN job = Writers \cup Rollers
    BY <1>0 DEF JobsOK
  <2>5. job' = [p \in Writers \cup Rollers |-> IF p = r THEN j ELSE Seen(p)]
    BY <1>0, <1>8, <2>4 DEF StartRollup
  <2> HIDE DEF Seen, j
  <2>6. others \in [Writers \cup Rollers -> Jobs] /\ \A p \in Writers \cup Rollers : Alike(others[p], job[p])
    BY <2>2
  <2>7. job' = [others EXCEPT ![r] = j]
    BY <1>0, <2>5
  <2>8. JobsOK' /\ job'[r] = j /\ \A p \in (Writers \cup Rollers) \ {r} : job'[p] = others[p]
    <3> HIDE DEF others
    <3>1. QED BY <1>0, <2>1, <2>6, <2>7, JobsStep
  <2>9. \A p \in Rollers : job'[p].at = "recording" => job'[p] = job[p]
    BY <2>1, <2>3, <2>8
  <2>10. \A h \in Handlers : job'[h].at = job[h].at
    BY <1>0, <2>6, <2>8 DEF Alike, Writers
  <2>11. UNCHANGED <<report, leak, roll>>
    BY <1>8 DEF StartRollup
  <2>12. ~FailRollup(r)
    BY <1>8 DEF StartRollup, FailRollup
  <2>13. StaysDue'
    BY <1>0, <1>3, <1>7, <2>9, <2>10, <2>11, <2>12, QuietStep
  <2>14. RowsOK'
    BY <1>0, <1>1, <2>11, ReportRow
  <2>15. ClaimedIsRecent'
    BY <2>11 DEF Given, ClaimedIsRecent
  <2>16. QED BY <1>2, <1>6, <2>8, <2>13, <2>14, <2>15, KeepsFrom
<1>9. CASE ReadSettings(r)
  <2>1. JobOK(r, [job[r] EXCEPT !.at = "rows", !.on = alerts]) /\ [job[r] EXCEPT !.at = "rows", !.on = alerts].at = "rows"
    BY <1>0 DEF JobOK, Jobs, RowsOK
  <2>2. job' = [job EXCEPT ![r] = [job[r] EXCEPT !.at = "rows", !.on = alerts]]
    BY <1>9 DEF ReadSettings
  <2>3. UNCHANGED <<report, leak, roll, slipped>> /\ job[r].at # "marking"
    BY <1>9 DEF ReadSettings
  <2>4. JobsOK' /\ StaysDue'
    BY <1>0, <1>1, <2>1, <2>2, <2>3, QuietJob
  <2>5. RowsOK'
    BY <1>0, <1>1, <2>3, ReportRow
  <2>6. ClaimedIsRecent'
    BY <2>3 DEF Given, ClaimedIsRecent
  <2>7. QED BY <1>2, <1>6, <2>4, <2>5, <2>6, KeepsFrom
<1>10. CASE ReadRows(r)
  <2>0. Level \in Levels \cup {NoData}
    BY <1>0, LevelIsLevel
  <2>1. /\ JobOK(r, [job[r] EXCEPT !.at = "recording", !.level = Level])
        /\ [job[r] EXCEPT !.at = "recording", !.level = Level].level = Level
    BY <1>0, <2>0 DEF JobOK, Jobs
  <2>2. job' = [job EXCEPT ![r] = [job[r] EXCEPT !.at = "recording", !.level = Level]]
    BY <1>10 DEF ReadRows
  <2>3. UNCHANGED <<report, leak, roll, slipped>> /\ job[r].at # "marking"
    BY <1>10 DEF ReadRows
  <2>4. JobsOK' /\ StaysDue'
    BY <1>0, <1>1, <2>1, <2>2, <2>3, QuietJob
  <2>5. RowsOK'
    BY <1>0, <1>1, <2>3, ReportRow
  <2>6. ClaimedIsRecent'
    BY <2>3 DEF Given, ClaimedIsRecent
  <2>7. QED BY <1>2, <1>6, <2>4, <2>5, <2>6, KeepsFrom
<1>11. CASE RecordReport(r)
  <2> DEFINE j == [Idle EXCEPT !.at = "claiming", !.on = job[r].on]
  <2>1. JobOK(r, j) /\ j.at = "claiming"
    BY <1>0 DEF JobOK, Jobs, Idle
  <2> HIDE DEF j
  <2>2. PICK others \in [Writers \cup Rollers -> Jobs] :
          /\ others = RolledPast({w \in Writers : r \in job[w].past})
          /\ \A p \in Writers \cup Rollers : Alike(others[p], job[p])
          /\ \A p \in Rollers : others[p] = job[p]
    BY <1>0, RolledPastJobs
  <2>3. job' = [others EXCEPT ![r] = j]
    BY <1>11, <2>2 DEF RecordReport, j
  <2>4. JobsOK' /\ job'[r] = j /\ \A p \in (Writers \cup Rollers) \ {r} : job'[p] = others[p]
    BY <1>0, <2>1, <2>2, <2>3, JobsStep
  <2>5. /\ \A p \in Rollers : job'[p].at = "recording" => job'[p] = job[p]
        /\ \A h \in Handlers : job'[h].at = job[h].at
    BY <1>0, <2>1, <2>2, <2>4 DEF Alike, Writers
  <2>6. Marking' <=> Marking
    BY <2>5 DEF Marking
  <2>7. /\ report' = job[r].level /\ roll' = [known |-> TRUE, stale |-> job[r].late, hourly |-> FALSE]
        /\ leak' = Logged(job[r].level) /\ job[r].at = "recording" /\ slipped' = slipped
    BY <1>11 DEF RecordReport
  <2>8. StaleIsDue'
    BY <1>0, <1>7, <2>6, <2>7 DEF StaleIsDue, StaysDue, ReportsLate, Marking
  <2>9. ReportsLate'
    BY <1>0, <1>7, <2>5, <2>6, <2>7 DEF StaysDue, ReportsLate
  <2>10. /\ leak' \in Leaks
         /\ \/ leak'.notified = leak.notified /\ leak'.claims = leak.claims
            \/ leak'.notified = "no" /\ leak'.claims = 0
    <3>1. \/ leak' = [open |-> TRUE, notified |-> "no", claims |-> 0, told |-> FALSE]
          \/ leak' = leak
          \/ leak' = [leak EXCEPT !.open = FALSE]
      BY <2>7 DEF Logged
    <3>2. [open |-> TRUE, notified |-> "no", claims |-> 0, told |-> FALSE] \in Leaks
      BY DEF Leaks
    <3>3. [leak EXCEPT !.open = FALSE] \in Leaks
      BY <1>0, LeakRows
    <3>4. leak' \in Leaks
      BY <1>0, <3>1, <3>2, <3>3
    <3>5. /\ [leak EXCEPT !.open = FALSE].notified = leak.notified
          /\ [leak EXCEPT !.open = FALSE].claims = leak.claims
      BY <1>0, LeakRows
    <3>6. /\ [open |-> TRUE, notified |-> "no", claims |-> 0, told |-> FALSE].notified = "no"
          /\ [open |-> TRUE, notified |-> "no", claims |-> 0, told |-> FALSE].claims = 0
      OBVIOUS
    <3>7. CASE leak' = [leak EXCEPT !.open = FALSE]
      BY <3>4, <3>5, <3>7
    <3>8. CASE leak' = [open |-> TRUE, notified |-> "no", claims |-> 0, told |-> FALSE]
      BY <3>4, <3>6, <3>8
    <3>9. QED BY <3>1, <3>4, <3>7, <3>8
  <2>11. RowsOK'
    <3>1. roll' \in Rolls /\ report' \in Levels \cup {NoData}
      BY <1>0, <2>7 DEF Jobs, Rolls
    <3>2. QED BY <1>0, <1>1, <2>10, <3>1, ReportRow
  <2>12. ClaimedIsRecent'
    BY <2>10 DEF Given, ClaimedIsRecent
  <2>13. QED BY <1>2, <1>6, <2>4, <2>8, <2>9, <2>11, <2>12, KeepsFrom DEF StaysDue
<1>12. CASE FailRollup(r)
  <2>1. PICK others \in [Writers \cup Rollers -> Jobs] :
          /\ others = RolledPast(Writers)
          /\ \A p \in Writers \cup Rollers : Alike(others[p], job[p])
    BY <1>0, RolledPastJobs
  <2>2. job' = [others EXCEPT ![r] = Idle] /\ slipped' /\ UNCHANGED <<report, leak>>
    BY <1>12, <2>1 DEF FailRollup
  <2>3. JobsOK'
    BY <1>0, <2>1, <2>2, JobsStep
  <2>4. StaysDue'
    BY <2>2 DEF StaysDue, StaleIsDue, ReportsLate
  <2>5. RowsOK'
    <3>1. roll' \in Rolls
      BY <1>12 DEF FailRollup, Rolls
    <3>2. QED BY <1>0, <1>1, <2>2, <3>1, ReportRow
  <2>6. ClaimedIsRecent'
    BY <2>2 DEF Given, ClaimedIsRecent
  <2>7. QED BY <1>2, <1>6, <2>3, <2>4, <2>5, <2>6, KeepsFrom
<1>13. CASE ClaimAlerts(r) \/ Announce(r)
  <2>1. /\ JobOK(r, [job[r] EXCEPT !.at = "announcing"])
        /\ [job[r] EXCEPT !.at = "announcing"].at = "announcing"
    BY <1>0 DEF JobOK, Jobs
  <2>2. \/ job' = [job EXCEPT ![r] = [job[r] EXCEPT !.at = "announcing"]]
        \/ job' = [job EXCEPT ![r] = Idle]
    BY <1>13 DEF ClaimAlerts, Announce, Goto, Done
  <2>3. UNCHANGED <<report, roll, slipped>> /\ job[r].at # "marking"
    BY <1>13 DEF ClaimAlerts, Announce
  <2>4. JobsOK' /\ StaysDue'
    BY <1>0, <1>1, <2>1, <2>2, <2>3, QuietJob
  <2>5. \/ leak' = leak
        \/ leak.notified # "recent" /\ leak' = [leak EXCEPT !.notified = "recent", !.claims = @ + 1]
        \/ leak' = [leak EXCEPT !.told = @ \/ job[r].on]
    BY <1>13 DEF ClaimAlerts, Announce, Claimable
  <2>6. leak' \in Leaks /\ ClaimedIsRecent'
    <3>1. job[r].on \in BOOLEAN
      BY <1>0 DEF Jobs
    <3>2. (leak.told \/ job[r].on) \in BOOLEAN
      BY <1>0, <3>1 DEF Leaks
    <3>3. leak' \in Leaks
      BY <1>0, <2>5, <3>2, LeakRows
    <3>4. \/ leak'.notified = leak.notified /\ leak'.claims = leak.claims
          \/ /\ leak.notified # "recent" /\ leak'.notified = "recent"
             /\ leak'.claims = leak.claims + 1
      BY <1>0, <2>5 DEF Leaks
    <3>5. ClaimedIsRecent'
      BY <3>4 DEF Given, ClaimedIsRecent
    <3>6. QED BY <3>3, <3>5
  <2>7. RowsOK'
    BY <1>0, <1>1, <2>3, <2>6, ReportRow
  <2>8. QED BY <1>2, <1>6, <2>4, <2>6, <2>7, KeepsFrom
<1>14. QED BY <1>8, <1>9, <1>10, <1>11, <1>12, <1>13 DEF Rollup

\* The vendor, time, and what breaks.
LEMMA WorldKeeps ==
  ASSUME Given, PollDue \/ HourPasses \/ WeekPasses \/ LoseLock \/ \E k \in Keys : VendorChanges(k)
  PROVE  Keeps
<1>0. /\ RowsOK /\ JobsOK /\ BoundsOK /\ StaysDue /\ leak \in Leaks /\ roll \in Rolls /\ conn \in Conns
      /\ limit.faults \in Nat /\ limit.ops \in Nat /\ ops \in 0 .. limit.ops /\ faults \in 0 .. limit.faults
  BY SpendAssumption DEF Given, RowsOK, BoundsOK, Leaks, Rolls, Conns
<1>1. UNCHANGED <<api, csv, alerts, report, job, limit, raced, slipped>>
  BY DEF PollDue, HourPasses, WeekPasses, LoseLock, VendorChanges, data, CountOp, CountFault
<1>2. /\ leak' \in Leaks
      /\ \/ leak' = leak
         \/ leak'.notified = "old" /\ leak'.claims = 0
  <2>1. leak' = leak \/ leak' = [leak EXCEPT !.notified = "old", !.claims = 0]
    BY DEF PollDue, HourPasses, WeekPasses, LoseLock, VendorChanges
  <2>2. QED BY <1>0, <2>1, LeakRows
<1>3. roll' \in Rolls /\ (roll.known /\ roll.stale => roll'.known /\ roll'.stale)
  BY <1>0 DEF PollDue, HourPasses, WeekPasses, LoseLock, VendorChanges, Rolls
<1>4. conn' \in Conns /\ conn'.key = conn.key
  BY <1>0 DEF PollDue, HourPasses, WeekPasses, LoseLock, VendorChanges, Conns
<1>5. real' \in Accounts
  BY <1>0 DEF PollDue, HourPasses, WeekPasses, LoseLock, VendorChanges, RowsOK, Accounts
<1>6. ops' \in 0 .. limit.ops /\ faults' \in 0 .. limit.faults
  BY <1>0 DEF PollDue, HourPasses, WeekPasses, LoseLock, VendorChanges, CountOp, CountFault
<1>7. pollLock' \in {pollLock, Free} /\ rollLock' \in {rollLock, Free}
  BY DEF PollDue, HourPasses, WeekPasses, LoseLock, VendorChanges, locks
<1>8. JobsOK'
  BY <1>0, <1>1 DEF JobsOK, JobOK
<1>9. RowsOK'
  BY <1>0, <1>1, <1>2, <1>3, <1>4, <1>5 DEF RowsOK
<1>10. BoundsOK'
  BY <1>0, <1>1, <1>6, <1>7 DEF BoundsOK
<1>11. StaysDue'
  <2>1. Level' = Level
    BY <1>1 DEF Level
  <2>2. QED BY <1>0, <1>1, <1>3, <2>1, QuietStep
<1>12. DataHasConnector'
  BY <1>1, <1>4 DEF Given, DataHasConnector
<1>13. ClaimedIsRecent'
  BY <1>2 DEF Given, ClaimedIsRecent
<1>14. QED BY <1>8, <1>9, <1>10, <1>11, <1>12, <1>13, KeepsFrom

LEMMA CrashKeeps ==
  ASSUME Given, NEW p \in Writers \cup Rollers, Crash(p)
  PROVE  Keeps
<1>0. /\ RowsOK /\ JobsOK /\ BoundsOK /\ JobOK(p, Idle) /\ Idle.at = "idle"
      /\ limit.faults \in Nat /\ faults \in 0 .. limit.faults
  BY IdleOK, IdleIsJob, SpendAssumption DEF Given, BoundsOK
<1>1. /\ UNCHANGED <<real, conn, api, csv, alerts, roll, report, leak, ops, raced, limit>>
      /\ job' = [job EXCEPT ![p] = Idle]
      /\ faults < limit.faults /\ faults' = faults + 1
      /\ pollLock' \in {pollLock, Free} /\ rollLock' \in {rollLock, Free}
  BY DEF Crash, data, CountFault, Done, Unlocked
<1>2. slipped' \in BOOLEAN /\ (slipped => slipped') /\ (job[p].at = "marking" => slipped')
  BY DEF Crash
<1>3. JobsOK' /\ StaysDue'
  BY <1>0, <1>1, <1>2, QuietJob
<1>4. BoundsOK'
  BY <1>0, <1>1, <1>2 DEF BoundsOK
<1>5. RowsOK' /\ DataHasConnector' /\ ClaimedIsRecent'
  <2>1. RowsOK'
    BY <1>0, <1>1 DEF RowsOK
  <2>2. DataHasConnector' /\ ClaimedIsRecent'
    BY <1>1 DEF Given, DataHasConnector, ClaimedIsRecent
  <2>3. QED BY <2>1, <2>2
<1>6. QED BY <1>3, <1>4, <1>5, KeepsFrom

-----------------------------------------------------------------------------
LEMMA SpendInit == Init => TypeOK /\ IInv
<1> SUFFICES ASSUME Init PROVE TypeOK /\ IInv
  OBVIOUS
<1>1. /\ real \in [Keys -> Levels] /\ conn = NoConn /\ api = NoData /\ csv = NoData /\ alerts = TRUE
      /\ roll = [known |-> FALSE, stale |-> FALSE, hourly |-> FALSE] /\ report = NoData
      /\ leak = [open |-> FALSE, notified |-> "no", claims |-> 0, told |-> FALSE]
      /\ job = [p \in Writers \cup Rollers |-> Idle] /\ pollLock = Free /\ rollLock = Free
      /\ ops = 0 /\ faults = 0 /\ limit \in Limits /\ raced = FALSE /\ slipped = FALSE
  BY DEF Init
<1>2. JobsOK
  BY <1>1, IdleIsJob, IdleOK DEF JobsOK
<1>3. RowsOK
  BY <1>1 DEF RowsOK, NoConn, Accounts, Conns, Synced, Rolls, Leaks
<1>4. BoundsOK
  <2>1. limit.ops \in Nat /\ limit.faults \in Nat
    BY <1>1, SpendAssumption
  <2>2. ops \in 0 .. limit.ops /\ faults \in 0 .. limit.faults
    BY <1>1, <2>1
  <2>3. pollLock \in Writers \cup {Free} /\ rollLock \in Rollers \cup {Free} /\ raced \in BOOLEAN /\ slipped \in BOOLEAN
    BY <1>1
  <2>4. QED BY <1>1, <2>2, <2>3 DEF BoundsOK
<1>5. ReportsLate
  BY <1>1, IdleIsJob DEF ReportsLate
<1>6. StaleIsDue
  BY <1>1 DEF StaleIsDue, Level
<1>7. DataHasConnector /\ ClaimedIsRecent
  BY <1>1 DEF DataHasConnector, ClaimedIsRecent
<1>8. QED BY <1>2, <1>3, <1>4, <1>5, <1>6, <1>7, Typed DEF IInv

LEMMA SpendNext == TypeOK /\ IInv /\ [Next]_vars => (TypeOK /\ IInv)'
<1> SUFFICES ASSUME TypeOK, IInv, [Next]_vars PROVE Keeps
  BY DEF Keeps
<1>1. Given
  BY Typed DEF IInv, Given, StaysDue
<1>2. ASSUME NEW w \in Writers, Poll(w) \/ FailSync(w) PROVE Keeps
  BY <1>1, <1>2, PollKeeps, StoreKeeps DEF Poll
<1>3. ASSUME NEW h \in Handlers, Request(h) \/ Finish(h) PROVE Keeps
  BY <1>1, <1>3, RequestKeeps, FinishKeeps
<1>4. ASSUME NEW r \in Rollers, Rollup(r) \/ FailRollup(r) PROVE Keeps
  BY <1>1, <1>4, RollupKeeps
<1>5. ASSUME NEW p \in Writers \cup Rollers, Crash(p) PROVE Keeps
  BY <1>1, <1>5, CrashKeeps
<1>6. ASSUME PollDue \/ HourPasses \/ WeekPasses \/ LoseLock \/ \E k \in Keys : VendorChanges(k) PROVE Keeps
  BY <1>1, <1>6, WorldKeeps
<1>7. CASE UNCHANGED vars
  <2>1. UNCHANGED <<real, conn, api, csv, alerts, roll, report, leak, job, pollLock, rollLock, ops, faults,
                    limit, raced, slipped>>
    BY <1>7 DEF vars, data, locks
  <2>2. JobsOK' /\ RowsOK' /\ BoundsOK'
    <3>1. RowsOK'
      BY <1>1, <2>1 DEF Given, RowsOK
    <3>2. BoundsOK'
      BY <1>1, <2>1 DEF Given, BoundsOK
    <3>3. JobsOK'
      BY <1>1, <2>1 DEF Given, JobsOK, JobOK
    <3>4. QED BY <3>1, <3>2, <3>3
  <2>3. StaysDue'
    BY <1>1, <2>1 DEF Given, StaysDue, ReportsLate, StaleIsDue, Marking, Level
  <2>4. DataHasConnector' /\ ClaimedIsRecent'
    BY <1>1, <2>1 DEF Given, DataHasConnector, ClaimedIsRecent
  <2>5. QED BY <2>2, <2>3, <2>4, KeepsFrom
<1>8. QED BY <1>2, <1>3, <1>4, <1>5, <1>6, <1>7 DEF Next

LEMMA Always == Spec => [](TypeOK /\ IInv)
  BY SpendInit, SpendNext, PTL DEF Spec

-----------------------------------------------------------------------------
\* Whatever syncs, requests, rollups and stops do, the state is well typed.
THEOREM TypeCorrect == Spec => []TypeOK
  BY Always, PTL

\* A leak is claimed for announcing at most once an episode and week, on any
\* number of instances (ClaimSpendAlerts, RecordSpendReport).
THEOREM ClaimedOnce == Spec => []AnnouncedOnce
<1>1. TypeOK /\ IInv => AnnouncedOnce
  BY DEF IInv, ClaimedIsRecent, AnnouncedOnce
<1>2. QED BY <1>1, Always, PTL

\* A report of other than the current data stays due until it is computed again
\* (markSpendChanged, RecordSpendReport).
THEOREM DueWhileStale == Spec => []StaleIsDue
<1>1. TypeOK /\ IInv => StaleIsDue
  BY DEF IInv
<1>2. QED BY <1>1, Always, PTL

\* Rows that syncs brought go with their connector, but for a sync that was
\* under way (DeleteSpendConnector, FinishSpendSync).
THEOREM RowsWithConnector == Spec => []DataHasConnector
<1>1. TypeOK /\ IInv => DataHasConnector
  BY DEF IInv
<1>2. QED BY <1>1, Always, PTL
=============================================================================
