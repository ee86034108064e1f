------------------------------- MODULE Spend -------------------------------
(* Pricing Leaks on the control plane: one tenant's connector to one vendor,  *)
(* the polls that pull its seats and usage, CSV imports, the rollup that      *)
(* stores the report and the leak log, and the alerts for runaway cost        *)
(* (server/pricing_leaks.go, server/spend_rollup.go, store/spend.go,          *)
(* store/spend_rollup.go).                                                    *)
(*                                                                            *)
(* A vendor's seats and usage are one level: "low", or "high", where the      *)
(* report has a runaway cost leak.  Times are only compared, so each pair the *)
(* code compares is a flag: roll.stale is rolled_at < changed_at, late of a   *)
(* rollup that it started before changed_at, behind of a transaction that its *)
(* now() is before rolled_at, and past the rollups that started after that:   *)
(* now() is when a transaction begins, not when it commits.                   *)
EXTENDS Naturals, FiniteSets

CONSTANTS
  Pollers,    \* runSpendSyncs of the control plane's instances
  Handlers,   \* requests of the console, with the sync each may start
  Rollers,    \* runSpendRollups of the instances
  Keys,       \* admin keys of the vendor's accounts
  NoKey,      \* no connector row
  NoData,     \* no rows of the vendor
  Limits      \* bounds: requests and changes at the vendor, faults (failures,
              \* stops, broken lock connections), and the rollups that take part

Writers == Pollers \cup Handlers
Free    == "free"
Levels  == {"low", "high"}

ASSUME SpendAssumption ==
  /\ Pollers \cap Handlers = {} /\ Writers \cap Rollers = {}
  /\ Free \notin Writers \cup Rollers
  /\ NoKey \notin Keys
  /\ Limits \subseteq [ops: Nat, faults: Nat, rollers: SUBSET Rollers]

VARIABLES
  real,       \* what each key's account holds at the vendor
  conn,       \* the connector row: key, sync_status, whether next_poll_at is past
  api, csv,   \* what cp.spend_seats and cp.spend_usage hold, by source
  alerts,     \* runaway cost alerts are on (cp.spend_settings)
  roll,       \* the tenant's row of cp.spend_rollups
  report,     \* the level the stored report was computed from
  leak,       \* the leak's row in cp.spend_leaks
  job,        \* what each poller, handler and rollup is doing
  pollLock, rollLock,     \* the session advisory locks
  ops, faults, limit,     \* what has been spent of which bounds
  raced, slipped          \* history: see DataHasConnector and StaleIsDue

data  == <<api, csv, alerts>>
locks == <<pollLock, rollLock>>
vars  == <<real, conn, data, roll, report, leak, job, locks, ops, faults, limit, raced, slipped>>

Idle   == [at |-> "idle", key |-> NoKey, level |-> NoData, on |-> FALSE,
           late |-> FALSE, past |-> {}, behind |-> FALSE]
NoConn == [key |-> NoKey, status |-> "", due |-> FALSE]

\* API rows win over CSV rows for the same vendor, day and person.
Level == IF api # NoData THEN api.level ELSE csv

Jobs == [at : {"idle", "scheduled", "syncing", "clicked", "pulling", "storing", "deleting",
               "importing", "marking", "settings", "rows", "recording", "claiming", "announcing"},
         key : Keys \cup {NoKey}, level : Levels \cup {NoData}, on : BOOLEAN,
         late : BOOLEAN, past : SUBSET Rollers, behind : BOOLEAN]

TypeOK ==
  /\ real \in [Keys -> Levels]
  /\ conn \in [key : Keys \cup {NoKey}, status : {"", "running", "ok", "error"}, due : BOOLEAN]
  /\ api \in {NoData} \cup [key : Keys, level : Levels]
  /\ csv \in Levels \cup {NoData} /\ report \in Levels \cup {NoData} /\ alerts \in BOOLEAN
  /\ roll \in [known : BOOLEAN, stale : BOOLEAN, hourly : BOOLEAN]
  /\ leak \in [open : BOOLEAN, notified : {"no", "recent", "old"}, claims : Nat, told : BOOLEAN]
  /\ job \in [Writers \cup Rollers -> Jobs]
  /\ \A w \in Writers : /\ job[w].at \in {"pulling", "storing"} => job[w].key \in Keys
                        /\ job[w].at = "storing" => job[w].level \in Levels
  /\ \A r \in Rollers : job[r].at \in {"idle", "settings", "rows", "recording", "claiming", "announcing"}
  /\ pollLock \in Writers \cup {Free} /\ rollLock \in Rollers \cup {Free}
  /\ limit \in Limits /\ ops \in 0 .. limit.ops /\ faults \in 0 .. limit.faults
  /\ raced \in BOOLEAN /\ slipped \in BOOLEAN

Rolling(r) == job[r].at # "idle"
InTx(w)    == job[w].at \in {"storing", "deleting", "importing"}

Init ==
  /\ real \in [Keys -> Levels]
  /\ conn = NoConn
  /\ api = NoData /\ csv = NoData /\ alerts = TRUE
  /\ roll = [known |-> FALSE, stale |-> FALSE, hourly |-> FALSE]
  /\ report = NoData
  /\ leak = [open |-> FALSE, notified |-> "no", claims |-> 0, told |-> FALSE]
  /\ job = [p \in Writers \cup Rollers |-> Idle]
  /\ pollLock = Free /\ rollLock = Free
  /\ ops = 0 /\ faults = 0 /\ limit \in Limits
  /\ raced = FALSE /\ slipped = FALSE

-----------------------------------------------------------------------------
Goto(p, at) == job' = [job EXCEPT ![p].at = at]
Done(p)     == job' = [job EXCEPT ![p] = Idle]

\* The lock is let go where its holder still has it.
Unlocked(lock, p) == IF lock = p THEN Free ELSE lock

CountOp    == ops < limit.ops /\ ops' = ops + 1 /\ UNCHANGED limit
CountFault == faults < limit.faults /\ faults' = faults + 1 /\ UNCHANGED limit

\* changed_at moves: past every rollup's start but those of newer.
Marked(newer) ==
  [p \in DOMAIN job |->
     IF p \in Rollers /\ Rolling(p) THEN [job[p] EXCEPT !.late = p \notin newer] ELSE job[p]]

\* markSpendChanged outside a transaction, by p whose work ends with it:
\* changed_at is the latest time.
MarkNow(p) ==
  /\ roll' = [roll EXCEPT !.known = TRUE, !.stale = TRUE]
  /\ job' = [Marked({}) EXCEPT ![p] = Idle]
  /\ UNCHANGED slipped

\* markSpendChanged in w's transaction: changed_at is when that one began,
\* even where another change was marked since.
MarkTx(w) ==
  /\ roll' = [roll EXCEPT !.known = TRUE, !.stale = ~job[w].behind]
  /\ job' = [Marked(job[w].past) EXCEPT ![w] = Idle]
  /\ slipped' = (slipped \/ job[w].behind \/ \E r \in job[w].past : Rolling(r))

\* rolled_at moves: past the transactions of overtaken.
RolledPast(overtaken) ==
  [p \in DOMAIN job |->
     IF p \in Writers /\ InTx(p) THEN [job[p] EXCEPT !.behind = p \in overtaken] ELSE job[p]]

-----------------------------------------------------------------------------
\* Polls.  A scheduled poll and a sync that a request starts differ only in
\* whether the connector must be due.

\* DueSpendPolls lists the connector and pollSpend gets the lock.
SchedulePoll(p) ==
  /\ p \in Pollers /\ job[p].at = "idle"
  /\ conn.key # NoKey /\ conn.due
  /\ pollLock = Free /\ pollLock' = p
  /\ Goto(p, "scheduled")
  /\ UNCHANGED <<real, conn, data, roll, report, leak, rollLock, ops, faults, limit, raced, slipped>>

\* A click on Sync.
ClickSync(h) ==
  /\ h \in Handlers /\ job[h].at = "idle" /\ conn.key # NoKey
  /\ CountOp
  /\ Goto(h, "syncing")
  /\ UNCHANGED <<real, conn, data, roll, report, leak, locks, faults, raced, slipped>>

\* startSpendSync: nothing where another poll holds the lock.
TakePollLock(h) ==
  /\ job[h].at = "syncing"
  /\ IF pollLock = Free
     THEN pollLock' = h /\ Goto(h, "clicked")
     ELSE UNCHANGED pollLock /\ Done(h)
  /\ UNCHANGED <<real, conn, data, roll, report, leak, rollLock, ops, faults, limit, raced, slipped>>

\* StartSpendSync: the connector as it is now, if it is still there and, for a
\* scheduled poll, still due.
StartSync(w) ==
  /\ job[w].at \in {"scheduled", "clicked"}
  /\ IF conn.key # NoKey /\ (job[w].at = "scheduled" => conn.due)
     THEN /\ conn' = [conn EXCEPT !.status = "running"]
          /\ job' = [job EXCEPT ![w] = [Idle EXCEPT !.at = "pulling", !.key = conn.key]]
          /\ UNCHANGED pollLock
     ELSE /\ Done(w) /\ pollLock' = Unlocked(pollLock, w)
          /\ UNCHANGED conn
  /\ UNCHANGED <<real, data, roll, report, leak, rollLock, ops, faults, limit, raced, slipped>>

\* The vendor answers with what the key's account holds ...
Pull(w) ==
  /\ job[w].at = "pulling"
  /\ job' = [job EXCEPT ![w].at = "storing", ![w].level = real[job[w].key]]
  /\ UNCHANGED <<real, conn, data, roll, report, leak, locks, ops, faults, limit, raced, slipped>>

\* ... or does not answer, refuses the key, or answers what the client cannot
\* read; or the results cannot be stored.  FailSpendSync, whose two statements
\* find no row where the connector is gone.
FailSync(w) ==
  /\ job[w].at \in {"pulling", "storing"}
  /\ CountFault
  /\ conn' = IF conn.key = NoKey THEN conn ELSE [conn EXCEPT !.status = "error", !.due = FALSE]
  /\ Done(w) /\ pollLock' = Unlocked(pollLock, w)
  /\ UNCHANGED <<real, data, roll, report, leak, rollLock, ops, raced, slipped>>

\* FinishSpendSync commits.  Its update of the connector finds no row where a
\* request deleted it meanwhile, and the rest stands.
StoreSync(w) ==
  /\ job[w].at = "storing"
  /\ api' = [key |-> job[w].key, level |-> job[w].level]
  /\ raced' = (raced \/ conn.key = NoKey)
  /\ conn' = IF conn.key = NoKey THEN conn ELSE [conn EXCEPT !.status = "ok", !.due = FALSE]
  /\ MarkTx(w)
  /\ pollLock' = Unlocked(pollLock, w)
  /\ UNCHANGED <<real, csv, alerts, report, leak, rollLock, ops, faults, limit>>

-----------------------------------------------------------------------------
\* Requests.

\* putSpendConnector saves a key and then starts a sync.
PutConnector(h, k) ==
  /\ h \in Handlers /\ job[h].at = "idle"
  /\ CountOp
  /\ conn' = [conn EXCEPT !.key = k, !.due = IF conn.key = NoKey THEN TRUE ELSE @]
  /\ Goto(h, "syncing")
  /\ UNCHANGED <<real, data, roll, report, leak, locks, faults, raced, slipped>>

\* deleteSpendConnector, importSpendCSV: one transaction each.
BeginRequest(h) ==
  /\ h \in Handlers /\ job[h].at = "idle"
  /\ CountOp
  /\ \/ conn.key # NoKey /\ Goto(h, "deleting")
     \/ Goto(h, "importing")
  /\ UNCHANGED <<real, conn, data, roll, report, leak, locks, faults, raced, slipped>>

DeleteConnector(h) ==
  /\ job[h].at = "deleting"
  /\ conn' = NoConn /\ api' = NoData
  /\ MarkTx(h)
  /\ UNCHANGED <<real, csv, alerts, report, leak, locks, ops, faults, limit, raced>>

ImportCSV(h, l) ==
  /\ job[h].at = "importing"
  /\ csv' = l
  /\ MarkTx(h)
  /\ UNCHANGED <<real, conn, api, alerts, report, leak, locks, ops, faults, limit, raced>>

\* ClearSpendCSV and PutSpendSettings: the rows change first, in a statement of
\* their own, and the mark is the last one.
WriteUnmarked(h) ==
  /\ h \in Handlers /\ job[h].at = "idle"
  /\ CountOp
  /\ \/ csv' = NoData /\ UNCHANGED alerts
     \/ alerts' = ~alerts /\ UNCHANGED csv
  /\ Goto(h, "marking")
  /\ UNCHANGED <<real, conn, api, roll, report, leak, locks, faults, raced, slipped>>

MarkChanged(h) ==
  /\ job[h].at = "marking"
  /\ MarkNow(h)
  /\ UNCHANGED <<real, conn, data, report, leak, locks, ops, faults, limit, raced>>

\* The vendor's own data changes.
VendorChanges(k) ==
  /\ CountOp
  /\ \E l \in Levels \ {real[k]} : real' = [real EXCEPT ![k] = l]
  /\ UNCHANGED <<conn, data, roll, report, leak, job, locks, faults, raced, slipped>>

-----------------------------------------------------------------------------
\* The rollup.

\* Mutant: a tenant is rolled up again only after a change.
Due_Changed == roll.known /\ roll.stale

Due == roll.known /\ (roll.stale \/ roll.hourly)

\* DueSpendRollups lists the tenant and rollupSpend gets the lock.
StartRollup(r) ==
  /\ job[r].at = "idle" /\ r \in limit.rollers /\ Due
  /\ rollLock = Free /\ rollLock' = r
  /\ job' = [p \in DOMAIN job |->
               CASE p = r -> [Idle EXCEPT !.at = "settings"]
                 [] p \in Writers /\ InTx(p) -> [job[p] EXCEPT !.past = @ \cup {r}]
                 [] OTHER -> job[p]]
  /\ UNCHANGED <<real, conn, data, roll, report, leak, pollLock, ops, faults, limit, raced, slipped>>

\* spendReport reads the settings and then the rows, each as they are then.
ReadSettings(r) ==
  /\ job[r].at = "settings"
  /\ job' = [job EXCEPT ![r].at = "rows", ![r].on = alerts]
  /\ UNCHANGED <<real, conn, data, roll, report, leak, locks, ops, faults, limit, raced, slipped>>

ReadRows(r) ==
  /\ job[r].at = "rows"
  /\ job' = [job EXCEPT ![r].at = "recording", ![r].level = Level]
  /\ UNCHANGED <<real, conn, data, roll, report, leak, locks, ops, faults, limit, raced, slipped>>

\* Mutant: a leak that is still open is stored as a new one.
Logged_Anew(l) ==
  IF l = "high" THEN [open |-> TRUE, notified |-> "no", claims |-> leak.claims, told |-> FALSE]
  ELSE [leak EXCEPT !.open = FALSE]

\* The leak's row after a report: reopened as a new episode, seen again, or
\* resolved.
Logged(l) ==
  CASE l = "high" /\ ~leak.open -> [open |-> TRUE, notified |-> "no", claims |-> 0, told |-> FALSE]
    [] l = "high" /\ leak.open  -> leak
    [] OTHER                    -> [leak EXCEPT !.open = FALSE]

\* RecordSpendReport commits.
RecordReport(r) ==
  /\ job[r].at = "recording"
  /\ report' = job[r].level
  /\ leak' = Logged(job[r].level)
  /\ roll' = [known |-> TRUE, stale |-> job[r].late, hourly |-> FALSE]
  /\ job' = [RolledPast({w \in Writers : r \in job[w].past}) EXCEPT
               ![r] = [Idle EXCEPT !.at = "claiming", !.on = job[r].on]]
  /\ UNCHANGED <<real, conn, data, locks, ops, faults, limit, raced, slipped>>

\* The report cannot be read, computed or stored: FailSpendRollup puts
\* rolled_at at now, past whatever changed since the rollup started.
FailRollup(r) ==
  /\ job[r].at \in {"settings", "rows", "recording"}
  /\ CountFault
  /\ roll' = [known |-> TRUE, stale |-> FALSE, hourly |-> FALSE]
  /\ slipped' = TRUE
  /\ job' = [RolledPast(Writers) EXCEPT ![r] = Idle]
  /\ rollLock' = Unlocked(rollLock, r)
  /\ UNCHANGED <<real, conn, data, report, leak, pollLock, ops, raced>>

\* Mutant: a claimed leak is never claimed again in its episode.
Claimable_Once == leak.open /\ leak.notified = "no"

\* Never announced in this episode, or longer than AlertRepeat ago.
Claimable == leak.open /\ leak.notified # "recent"

\* ClaimSpendAlerts: the update is the claim.
ClaimAlerts(r) ==
  /\ job[r].at = "claiming"
  /\ IF Claimable
     THEN /\ leak' = [leak EXCEPT !.notified = "recent", !.claims = @ + 1]
          /\ Goto(r, "announcing") /\ UNCHANGED rollLock
     ELSE Done(r) /\ rollLock' = Unlocked(rollLock, r) /\ UNCHANGED leak
  /\ UNCHANGED <<real, conn, data, roll, report, pollLock, ops, faults, limit, raced, slipped>>

\* announceSpendLeak, with the settings as the rollup read them: webhooks,
\* e-mail and Slack, or "off".
Announce(r) ==
  /\ job[r].at = "announcing"
  /\ leak' = [leak EXCEPT !.told = @ \/ job[r].on]
  /\ Done(r) /\ rollLock' = Unlocked(rollLock, r)
  /\ UNCHANGED <<real, conn, data, roll, report, pollLock, ops, faults, limit, raced, slipped>>

-----------------------------------------------------------------------------
\* Time passes: next_poll_at, SpendRollupEvery, AlertRepeat (a week, which no
\* announcement takes).
PollDue ==
  /\ conn.key # NoKey /\ ~conn.due
  /\ conn' = [conn EXCEPT !.due = TRUE]
  /\ UNCHANGED <<real, data, roll, report, leak, job, locks, ops, faults, limit, raced, slipped>>

HourPasses ==
  /\ roll.known /\ ~roll.hourly
  /\ roll' = [roll EXCEPT !.hourly = TRUE]
  /\ UNCHANGED <<real, conn, data, report, leak, job, locks, ops, faults, limit, raced, slipped>>

WeekPasses ==
  /\ leak.notified = "recent"
  /\ \A r \in Rollers : job[r].at # "announcing"
  /\ leak' = [leak EXCEPT !.notified = "old", !.claims = 0]
  /\ UNCHANGED <<real, conn, data, roll, report, job, locks, ops, faults, limit, raced, slipped>>

\* An instance stops: its transactions roll back and its locks are gone.  A
\* write that was still to be marked stays unmarked.
Crash(p) ==
  /\ job[p].at # "idle"
  /\ CountFault
  /\ slipped' = (slipped \/ job[p].at = "marking")
  /\ Done(p)
  /\ pollLock' = Unlocked(pollLock, p) /\ rollLock' = Unlocked(rollLock, p)
  /\ UNCHANGED <<real, conn, data, roll, report, leak, ops, raced>>

\* The connection that holds a lock breaks; the work under it goes on.
LoseLock ==
  /\ CountFault
  /\ \/ pollLock # Free /\ pollLock' = Free /\ UNCHANGED rollLock
     \/ rollLock # Free /\ rollLock' = Free /\ UNCHANGED pollLock
  /\ UNCHANGED <<real, conn, data, roll, report, leak, job, ops, raced, slipped>>

-----------------------------------------------------------------------------
Poll(w)   == SchedulePoll(w) \/ TakePollLock(w) \/ StartSync(w) \/ Pull(w) \/ StoreSync(w)
Finish(h) == DeleteConnector(h) \/ (\E l \in Levels : ImportCSV(h, l)) \/ MarkChanged(h)
Rollup(r) == StartRollup(r) \/ ReadSettings(r) \/ ReadRows(r) \/ RecordReport(r)
             \/ ClaimAlerts(r) \/ Announce(r)
Request(h) == ClickSync(h) \/ (\E k \in Keys : PutConnector(h, k)) \/ BeginRequest(h) \/ WriteUnmarked(h)

Next ==
  \/ \E w \in Writers : Poll(w) \/ FailSync(w)
  \/ \E h \in Handlers : Request(h) \/ Finish(h)
  \/ \E k \in Keys : VendorChanges(k)
  \/ \E r \in Rollers : Rollup(r) \/ FailRollup(r)
  \/ \E p \in Writers \cup Rollers : Crash(p)
  \/ PollDue \/ HourPasses \/ WeekPasses \/ LoseLock

\* The pollers' and rollups' loops run every minute, a request goes on unless
\* its instance stops, a pull has a time limit, and time passes.
Fairness ==
  /\ \A w \in Writers : WF_vars(Poll(w))
  /\ \A h \in Handlers : WF_vars(Finish(h))
  /\ \A r \in Rollers : WF_vars(Rollup(r))
  /\ WF_vars(PollDue) /\ WF_vars(HourPasses) /\ WF_vars(WeekPasses)

Spec == Init /\ [][Next]_vars /\ Fairness

-----------------------------------------------------------------------------
\* Rows that syncs brought stay only as long as their connector
\* (DeleteSpendConnector), except those of a sync that was still running when
\* it was deleted: raced says that such a sync stored its results.
DataHasConnector == api # NoData /\ ~raced => conn.key # NoKey

\* A report that is not of the current data is computed again without waiting
\* for the hour, whichever rollups and syncs overlapped: the tenant is due, or
\* the change is still to be marked.  slipped excepts a change whose transaction
\* was open when a rollup began, a rollup that failed, and a request whose
\* instance stopped before the mark.
StaleIsDue ==
  report # Level /\ ~slipped =>
    (roll.known /\ roll.stale) \/ \E h \in Handlers : job[h].at = "marking"

\* A runaway leak is claimed for announcing at most once while it stays open,
\* and once more a week, whatever rollups run, on whichever instance.
AnnouncedOnce == leak.claims <= 1

\* Once nobody changes anything, the stored data is what the connector's
\* account holds, and the stored report is of that data: polls come back after
\* failures and stops, and the hourly rollup picks up what the marks missed.
Settled ==
  /\ conn.key # NoKey => api = [key |-> conn.key, level |-> real[conn.key]]
  /\ Level # NoData => report = Level
Converges == <>[]Settled

\* A runaway leak that stays open is announced, however the rollups that claim
\* it end, unless the alerts are off.
LeaksAnnounced == leak.open ~> (leak.told \/ ~leak.open \/ ~alerts)
=============================================================================
