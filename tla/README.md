# Effigent: specification and verification

TLA+ models of the parts of Effigent whose correctness depends on the order in
which things happen, the TLC configurations that check them on small instances,
and the theorems that TLAPS proves for every instance. Source paths are
relative to the repository's root.

1. [Results](#results)
2. [The system](#the-system)
3. [How the models read the code](#how-the-models-read-the-code)
4. [Modules](#modules)
5. [Runs](#runs)
6. [Proofs](#proofs)
7. [Where code and documentation disagree](#where-code-and-documentation-disagree)
8. [What is not modelled](#what-is-not-modelled)
9. [Plan](#plan)

## Results

| Subsystem | Modules | Model-checked | Proved |
|---|---|---|---|
| Approvals of paused actions | `Approvals`, `Permit` | 6 properties hold, 2 findings | types, all four invariants, refinement of `Permit` |
| Four-eyes policy changes | `PolicyChanges` | 2 hold, 1 finding | types, applied once, four eyes, the setting needs two |
| Event delivery | `EventIngest`, `EventPipeline` | 3 hold, 2 findings | types, the hash chain for any clients, accounting, stored once, sent is stored, refinement of the ingest |
| Retention and legal hold | `Retention` | 4 hold | types, the three safety properties |
| Kernel enforcement engine | `Enforcement` | 3 hold, 1 finding | types, all three |
| Policy compiler and evaluator | `CentralPolicy`, `EndpointRule`, `Compiler` | 4 hold, 2 findings | all four invariants |
| Enrollment, policy sync, break-glass | `Machine` | 3 hold | types, a code is honoured once, a window is kept |
| Endpoint health, tamper alerts, webhooks | `Webhooks`, `Alerts` | 3 hold | types, announced as marked, no false tamper |
| Hooks and decisions | `Words` ... `ToolRules`, `AgentCalls`, `Hooks` | 5 hold | |
| Pricing Leaks: syncs, rollups, alerts | `Spend` | 3 hold | types, announced once, a stale report is due, rows have a connector |
| Inventory, baselines, people, leaks | `Inventory`, `People`, `SpendDetection` | 4 hold | first sightings are announced exactly, a mapping counts everywhere, savings are within what is spent |

A finding is something that a comment or a document says and that the code,
by an interleaving, a failure or an edge of its data, does not do; section 7
lists the eight of them, and below them what the models excepted on the way.

## The system

Effigent puts a daemon (`effigentd`) beside coding agents on developer
machines. The daemon hooks the agents' tool calls, decides each against a
policy, enforces the policy in the kernel (Tetragon), and sends what happened
to a control plane, a Go server over PostgreSQL that may run as several
instances. Admins use a console, an API, e-mailed links and Slack.

```
 agent ──hook──> effigentd ──POST approvals──> control plane <──vote── approvers
                  │  │  ├──POST events───────> │  cp.* tables
                  │  │  └──GET policy, beat──> │  <──publish, propose── admins
              engine │                         ├──archive──> S3 (object lock, legal hold)
            (Tetragon) spool on disk           └──webhooks, mail──> outside
```

The parts share state only through the database of the control plane and the
HTTP requests shown; inside `effigentd` through the sink's channel and the
engine's mutex. The components, with what each keeps, what changes it, what is
hard about it and what makes it correct:

**Approvals of paused actions** (`internal/controlplane/{store,server}/approvals.go`,
`server/votes.go`, `routing.go`, `actionlinks.go`, `slackapp.go`;
`cmd/effigentd/hooks.go`). *State*: `cp.approvals` and `cp.approval_votes`, the
routing and People settings, each handler's poll loop. *Operations*: a tool
call files or joins a request and polls it; people vote; rows expire lazily;
admins edit routing and People. *Hard*: the poll, the filing and the votes are
several statements each; the same call arrives twice; a wait ends while a vote
commits; rows expire when somebody looks. *Correct when*: one request of an
action is open at a time, a denial stands, a quorum is of different people who
may decide, an approval is spent at most once and never after it lapsed, and
every call is answered.

**Four-eyes policy changes** (`server/proposals.go`, `central_policy.go`,
`exceptions.go`, `store/proposals.go`, `store/store.go`). *State*:
`cp.policy_versions`, `cp.policy_proposals`, the setting, machine owners, each
request's locals. *Operations*: propose, approve, reject, withdraw, claim,
apply, reopen, supersede, and the job that removes lapsed exceptions. *Hard*:
no transaction spans two of these statements, and the admin's browser closing
cancels the request between any two. *Correct when*: a proposal is published at
most once and only if another admin approved it, the requirement itself cannot
be dropped by one person, and a change builds on the latest version.

**Event delivery** (`internal/endpoint/sink/http.go`, `store/events.go`,
`server/endpoint_api.go`). *State*: the sink's queue, batch, disk spool and
notion of the backend being down; `cp.event_batches` and the machine's advisory
lock. *Operations*: write, flush, post with retries, spool, evict, replay,
close; authorize, store, link, follow up. *Hard*: lost answers, kills between
two file operations, requests that outlive their client, outages. *Correct
when*: nothing is stored twice, nothing counts as sent that is not stored, no
event disappears uncounted, the chain verifies, and the backlog drains.

**Event retention and legal hold** (`store/retention.go`, `store/events.go`,
`server/retention.go`, `server/events_api.go`, `archive/s3.go`). *State*: the
workspace's retention row with its hold generation, events per day, archive
records, object versions and their hold, two session locks and one transaction
lock. *Operations*: the run (read, upload, complete, hold), setting the hold
and the retention, syncing the hold to objects. *Hard*: an upload is no
transaction, a session lock dies with its connection, the hold can arrive at
any point. *Correct when*: nothing is deleted on hold or before it is archived,
a hold reaches all objects, and neither retention nor the hold gets stuck.

**Kernel enforcement engine** (`internal/endpoint/engine/engine.go`,
`tetragon/`, `domains/`). *State*: tracked agents, the generation of their
kernel policies, what Tetragon has loaded. *Operations*: track, untrack, apply
(event loop, policy sync, timers, sweep, domain changes), reconcile. *Hard*:
applies are not serialized; each loads new policies and deletes old ones over
many calls without the lock. *Correct when*: the newest rules win, no agent is
unenforced during a reload, and no loaded policy belongs to nobody.

**Policy compiler and evaluator** (`shared/policy`, `controlplane/compile`,
`endpoint/policy`, `tetragon/tetragon.go`). *State*: a draft, the published
sources, the policy a machine holds. *Operations*: evaluate an action, compile
central rules over a base policy per agent, apply exceptions, render what the
kernel matches. *Hard*: three layers decide one action, an allowlist has no
deny list, the walk over agents is in map order. *Correct when*: simulator and
kernel agree, the base is a floor, an exception changes what it names, and all
fetches of one version are alike.

**Policy sync, enrollment and break-glass** (`internal/endpoint/cpclient`,
`cmd/effigentd/{remote,breakglass}.go`, `engine/breakglass.go`,
`server/{endpoint_api,break_glass}.go`, `store/endpoints.go`). *State*: tokens
and their uses, the identity on disk, the cached signed policy, the record of
used codes, the open window and its timer, the codes at the control plane.
*Operations*: enroll, fetch, verify, apply, cache, beat; issue, activate,
end, report. *Hard*: stops between two of these, the file of codes is read and
replaced without a lock, a timer races a new window. *Correct when*: the machine
ends with the last version and the console sees it, a code is honoured once, a
window lasts over restarts.

**Endpoint health, tamper alerts, webhook queue** (`server/endpoint_health.go`,
`tamper.go`, `cmd/effigentd/stop.go`, `{store,server}/integrations.go`).
*State*: last-seen times, offline marks, cooldowns, the run marker, hooks last
reported; deliveries with lease and attempts. *Hard*: the mark is committed
before the announcement, the detector's lock dies with its connection, a worker
outlives its lease. *Correct when*: silence and return are announced as they
are marked, no sleep is called tampering, every event is delivered or given up.

**Hooks and decisions on the machine** (`internal/endpoint/hooks`,
`cmd/effigentd/hooks.go`, `endpoint/policy`). *State*: the sessions' tables of
hosts, reads and untrusted sources; otherwise a function from the payload of one
of five agents and a rule to an answer. *Hard*: one operation has many
spellings and arrives by many routes; calls of a session are judged at once and
recorded after. *Correct when*: the verdict depends on what a call does, not
on how it is written or who asks.

**Pricing Leaks** (`server/{pricing_leaks,spend_rollup}.go`,
`store/{spend,spend_rollup}.go`, `controlplane/spend`). *State*: connectors,
rows of seats and usage, marks of change, the report, the leak log with its
claims. *Operations*: save, delete, poll, import, roll up, announce. *Hard*:
`now()` is when a transaction began, row changes and their mark may be two
statements, locks die with connections. *Correct when*: the report settles on
the vendor's data, a leak is announced once an episode, no cent is saved twice.

**Inventory, baselines, people** (`store/inventory_rollup.go`, `baselines.go`,
`controlplane/inventory`, `{store,server}/people.go`, `spend/identity.go`).
*State*: daily activity, agents, MCP servers, outcomes, behaviour keys with their
values, persons and identities. *Hard*: batches come late and again, caps and
windows interact, one person is known by five sorts of name. *Correct when*:
the rollups are the stored events, first-seen is announced exactly then, and a
mapping wins.

**Audit trail** (`store/audit.go`). *State*: a hash chain per workspace,
appended under a lock. *Correct when*: it verifies, as the event chain does.

**Model gateway, fleet report, sign-in and directory, other endpoint parts,
console and site** are sequential translations, queries or user interfaces;
section 8 says what each does and why it has no module.

## How the models read the code

- A database transaction, or a statement outside one, is a step. What a
  goroutine keeps between two of them (what it read, what it is about to write)
  is state, so that other steps may come between. Two reads in a row that
  nothing tells apart are merged.
- A step does all that the handler does before its next statement: expiring due
  rows is part of `FileRequest` as it is of `RequestApproval`.
- Failures are actions of their own (`Abandon`, `LoseBallot`, `ApplyFails`,
  `Cancel`, `ServerFails`, `SendFails`, `Crash`, `RunFails`, `SyncFails`). A
  statement that reports an error did not commit; a response can be lost
  after a commit.
- The database's guarantees are taken from how the code uses them: a row lock
  or an advisory lock excludes, a unique index refuses, a session lock is gone
  when its connection is.
- Names, texts and payloads are model values. Ids drawn at random are unused
  ones. Time is a counter where the code compares times, and an action that may
  happen (`ProbeDue`, the tickers) where only its order matters.
- Definitions marked *Mutant* are plausible mistakes in the definition that
  follows them. They occur in no specification; each is put in the place of the
  real one to see that the property it is meant for notices.
- Fields marked *history* exist in no table. They record what a property needs
  to speak about and no action's guard reads them.

- A component with several interesting cases has several *instances*, records
  of bounds in a constant (`Limits`, `Instances`); `Init` picks one. What
  varies is which operations and faults can happen and how often, never how
  they behave, and every property is checked in all of them.

Every definition that translates code is listed with its lines in
`PROJECT.json` under `map`.

## Modules

### `Approvals`, with `Permit`

One machine and one action fingerprint; no statement touches two fingerprints
except the sweep of `ListApprovals`, which treats each row alone.

| Model | Code |
|---|---|
| `rows` (with `votes`), `now` | `cp.approvals`, `cp.approval_votes`, `now()` |
| `routing`, `people` | approval routing with its groups; what `resolveRequester` finds |
| `call[c]` | the handler's goroutine in `requestApproval` and the outcome in `askApproval` |
| `ballot[v]` | a vote judged and not yet committed |
| `UseApproved`, `JoinPending`, `RepeatDenial`, `FileRequest` | the four outcomes of `RequestApproval` |
| `SetApprovalFiling` | `fileApproval`, `SetApprovalFiling`, `announce` |
| `ConsumeApproval`, then `EndpointApproval` | the two halves of a poll |
| `WaitOver`, `Deliver`, `Abandon` | the deadline, the answer, an agent or server that is gone |
| `JudgeVote`, `VoteApproval`, `LoseBallot` | `castVote` with its four callers, the voting transaction |
| `ListApprovals`, `PutRouting`, `MapPeople`, `Tick` | expiry from the console, edits, time |

A voter is a way to vote (an account, a link, a Slack profile, an API key) and
`IdentsOf` says which user ids and e-mails are known for it; two ways of one
person are the same when they share one. This is what the code compares too,
and it is constant here.

`Permit` is what all this promises: a permit is asked for, granted or refused,
spent at most once, and void from the moment it lapses; one is live at a time.
`PermitOf` maps a row to it; a row that is due counts as lapsed before anything
has marked it so, which is what makes lazy expiry an implementation detail.

### `PolicyChanges`

One workspace. `req[h]` is a request between two statements. `AskChange` reads
the setting and the latest version (API keys may ask for all but the setting);
`CreateProposal` files; `Judge` reads a proposal and decides; `CloseStep` and
`Claim` are the conditional update; `ReadSource`, `PutPolicy`,
`SetEndpointOwner`, `Recompile` and `ApplySettings` apply; `ApplyFails`,
`ReopenProposal` and the closing after it put back or supersede;
`ExpireExceptions` is the job; `Cancel` ends a request anywhere. A version
carries the proposal it came from, as in its comment, and (history) the version
its publisher had read.

### `EventIngest`, `EventPipeline`

`EventIngest` is `POST /ep/v1/events` for one machine with *any* clients: any
batch may arrive in any slot and be abandoned at any point. `chain` is
`cp.event_batches`; the hash a batch takes over is named by its place.
`EventPipeline` puts the sink in front of it: its actions replace the arbitrary
arrivals by `Send`, and `Leave` by `Reply` and `CutOff`, so that every step of
the pipeline is a step of the ingest or leaves it alone. `loop` is the sink's
goroutine (`run`, `deliver`, `post`, `spool`, `replay`), `Write` and `Close`
are its API, `Crash` and `Start` the service manager. A batch is named by its
first event; every batch takes one place in the spool.

### `Retention`

One workspace. `run[r]` is `runRetention` with `archiveDay`; its `todo` is the
set of days that it found, of which it takes the oldest first:
`ReadDay`, `Put`, `BeginComplete` and `CommitComplete` (one transaction, under
the hold lock), `HoldObject`. `req[q]` is `putEventRetention` between its read
and its write. `sync[s]` is `syncHolds`. `LoseRunLock` takes the session lock
away from a run that goes on, which is the only way two runs overlap.

### `Enforcement`

One pid and the documents of its rule. `work[g]` is a goroutine of the engine
between two calls to Tetragon: `Apply` takes the rule under the lock, loads
document by document, registers under the lock, deletes what it replaced.
`OnExec`, `OnExit`, `Sweep` and `Bootstrap` track and untrack; `SetPolicy`,
`OnDomainsChanged`, `SetBreakGlass`, `ExpireBreakGlass` and `Connect` start
applies; `Reconcile` lists and removes strays. `Break`, `Crash`, `Stop`,
`Start` and a failing call are the faults. `raced`, `snatched` and `undeleted`
(history) name the three races the properties except.

### `Compiler`, over `EndpointRule`, over `CentralPolicy`

`CentralPolicy` is the evaluator: selectors, live rules, candidates and their
precedence, over paths as segments and addresses as numbers. `EndpointRule` is
the endpoint policy: `RuleFor`, what a window lifts, what the kernel enforces,
and `Verdict` over the selectors Tetragon gets. `Compiler` reduces central
rules to the lists of each agent (`CompileAgent`, step by step, with its
findings), applies exceptions in any order of agents (`ApplyTo` is one agent's
turn: whether the exception `Reaches` it, whether its list `FallsBack`, and the
`Loosened` rule), and publishes, fetches and expires (`Unexpired`).
Compiling has a *set* of outcomes because the code ranges over maps it changes.
Its state machine is `CompilerInit`, `CompilerNext` and `CompilerSpec`, so that a
module may extend it beside another.

### `Machine`

One machine and the control plane's rows for it. `phase` and the actions from
`Ask` to `Start` are enrollment and start-up; `Poll`, `ServePolicy`, `Accept`
and `Persist` the policy's way; `Beat` and `ServeBeat` the heartbeats, which
may be served late; `Activate`, `WriteRecord`, `RenameRecord`, `OpenWindow` and
`ReportUse` one activation of a code by one request; `TimerFires` and `Expire`
the timer and the lock it waits for; `Post`, `Commit`, `RecordUse` and
`Answer` the batch that reports a use. `Crash`, `SyncFails` and `ServerStops`
may come between any two.

### `Alerts`, with `Webhooks`

`Webhooks` is the delivery table: `Deliverable`, claims with a lease, attempts
and results, which any number of instances work on. `Alerts` is one machine
(`machine`: run, marker, hook file), its row (`row`: last seen, reported stop,
hooks) and the detector's passes (`detector[i]`) under a session lock; what it
announces goes through `Webhooks` when the instance has one.

### `Hooks`, over `AgentCalls`, `ToolRules` and the readers

A shell word is a model value; what string functions find out about one (its
option letters, the host in it, the statements in a file) is a table, a
constant of the module that asks. What the code does *with* the words is
modelled in full:

| Module | Code |
|---|---|
| `Words` | `actions.go`, `bashact.go`: words, options, their arguments, tables |
| `ShellReading` | `shell.go`: splitting, wrappers, nested shells, substitutions, heredocs, pipes, redirects, assignments |
| `GitReading` | `git.go`: pushes and what they update or delete |
| `CloudReading` | `cloud.go`: targets, environments, destructive commands |
| `SqlReading` | `sql.go`, `mcpsql.go`: clients, where statements come from, what they do |
| `PackageReading` | `packages.go`: installs, manifests, lists |
| `CallFacts` | `actions.go`, `bashact.go`, `mcppin.go`: what a canonical call does |
| `ToolRules` | `claude.go`, `policy.go`: lists, precedence, modes, the verdict |
| `AgentCalls` | `agents.go` and the agents' payloads: canonical calls |
| `Hooks` | `session.go`, `cmd/effigentd/hooks.go`: history, judging, recording, answering |

`thread[t]` is a request in the daemon between looking at the session and
recording in it.

### `Spend`

One connector of one tenant. `job[w]` is a sync (by the poller or by a click),
`roll[r]` a rollup of an instance. Rows are a level, `low` or `high`; `high`
has a runaway leak. The timestamps the code compares are flags, one for each
comparison, because only their order matters: `stale` (rolled before changed),
`late`, `behind`, `past`. The last three exist because `now()` in PostgreSQL is
when the transaction began.

### `Inventory`, over `SpendDetection`, over `People`

`Inventory` is what the ingest transaction leaves: activity, agents, servers,
outcomes, behaviour keys with values and overflow, and anomalies with the
daily cap; its events and batches are tables. On top of them are the reads:
the posture report's agents, people and enforcement (`InUse`,
`EnforcementReport`, `AnomalyCounts`) and the inventory page's agents and
servers (`AgentsListed`, `ServersListed`), which `RollupsAreTheEvents` compares
with the stored events too. `People` is the mapping and
`Resolve`; `SpendDetection` joins seats, usage and activity by person and
computes unused seats, duplicates, shadow spend, runaway cost, the chart, the
unmanaged people and the suggestions.

The `MC...` modules give the constants values and say who is who.

## Runs

Each run exhausts its state space. Bounds are constants of the `.cfg` or fields
of its instances; the clock, the versions, objects, failures, outages and stops
are capped by guards that name them (`MaxNow`, `MaxVersion`, `limit.faults`, ...).

| Run | Asks | Bounds | States |
|---|---|---|---|
| `ApprovalsCalls` | `OneOpenRequest`, `DenialStands`, `RunsOnlyApproved`, `ImplementsPermit`, `EveryCallAnswered` | 2 calls, 2 requests, 1 admin, clock to 2, lifetimes 1 and 2 | 0.3 M |
| `ApprovalsVotes` | `QuorumOfPeople` | 1 request, 6 ways to vote of 3 people and a key, 3 routings, requester known or not | 6.6 M |
| `PolicyFourEyes` | `AppliedOnce`, `FourEyes` | 2 requests in flight, 2 admins, a key, 1 proposal of any kind, 2 versions | 1.3 M |
| `EventDelivery` | `ChainVerifies`, `Accounted`, `EventuallySettled` | 2 events, queue 1, batches of up to 2, spool 1, 2 attempts, 2 server slots, 1 stop or crash, 1 outage | 1.1 M |
| `RetentionHold` | `NothingDeletedOnHold`, `DeletedIsArchived`, `HoldCovers`, `RetentionDrains` | 2 runs, 1 sync, 1 admin with 2 changes, 2 days, 3 objects, 1 failure, 1 lost lock | 1.6 M |
| `Enforcement` | `KernelCurrent`, `NoStrays`, `NeverLess` | 1 process at a time, 2 documents, 2 policies, 1 change, 1 fault, 2 goroutines at work | 0.6 M |
| `Compiler` | `ProgramsAgree`, `BaseIsFloor`, `EveryFetchAlike`, `ExceptionsExact` | 5 base policies, 38 rules, 8 exceptions, 2 edits, clock to 2, 3 programs, 3 files, 4 addresses | 74 k |
| `Machine` | `HonouredOnce`, `WindowKept`, `Converges` | 5 instances: versions and faults; a new enrollment; 2 codes; a code after a new enrollment; 2 activations at once | 0.5 M |
| `Alerts` | `AnnouncedAsMarked`, `NoFalseTamper`, `QueueDrains` | 5 instances: a queue with 2 workers; stops; hooks; passes that lose the lock; alerts through the queue | 1.2 M |
| `Hooks` | `SequenceCaught`, `WrappingHidesNothing`, `SourcesAlike`, `EveryAgentAlike`, `StricterStays` | 7 instances: single calls under each rule (lines, pushes, routes, agents), sessions in order, at once, and crowded | 0.5 M |
| `Spend` | `AnnouncedOnce`, `Converges`, `LeaksAnnounced` | 1 poller, 1 handler, 2 rollups; 2 requests or 1 with a fault | 0.7 M |
| `Inventory` | `RollupsAreTheEvents`, `FirstSeenExact`, `MappedCounts`, `SavingsWithinSpend` | 4 instances: 4 events of 3 programs at 4 times; 3 events of 10 kinds; a sync beside an edit; 3 mappings over a sync's rows | 0.2 M |

**Why the bounds suffice.** *Approvals*: two calls are enough for every race on
one row, and the third kind of actor, a retry, is one of the two calls after
the other was denied; two requests are needed for a request beside an earlier
denial or lapse; the clock lets a request expire, an approval outlive it and
lapse in turn. In `ApprovalsVotes` the clock stands still: time decides nothing
about who may vote, and `ApprovalsCalls` has the expiries. *Policy*:
`AppliedOnce` is about one proposal and two requests, each of which can play
either side again after it ended; the second version is the one that would be
published twice. *Events*: with a queue and a spool of one place, two events
reach every limit, and two slots hold a request its client gave up on beside
its retry. *Retention*: two days give a run something left to do after one
fails; two runs of one day need two objects and a third is left for a repeated
upload. *Enforcement*: two goroutines suffice for the races, which are between
one apply and another, an untrack or a reconcile; the second policy turns the
guard document off, so that a document is dropped on purpose. Beyond the run,
two processes (7.6 M states) and two changes (14.2 M) were explored without an
error. *Compiler*: a finding or a disagreement needs a rule and something it
meets, a second rule or an exception; the base policies are the five ways lists
and overrides combine. *Machine, Alerts*: each instance has one kind of fault
and the operations it can disturb; two uses of a token with two versions
(1.3 M) and two activations of two codes (5.8 M) were explored as well.
*Hooks*: rules have one entry each, since a verdict is the strictest of the
entries' verdicts; `StricterStays` looks at pairs. Sessions hold more calls
than the window and than the table. *Spend*: `LargeLimits` (a fault beside two
requests, two faults beside one) was explored too. *Inventory*: four events
reach the caps, the overflow, the daily cap and both sides of window and warm-up.

**Deadlock** is checked in `ApprovalsCalls`, `ApprovalsVotes` and
`PolicyFourEyes`. The other configurations switch it off because those systems
rest: a machine with nothing to send, a workspace with nothing old, a call
answered, bounds used up.

**Fairness.** Safety runs need none. `Approvals!FairSpec`: the handler's
goroutine is scheduled (WF), and `WaitOver` gets its turn although the loop
keeps going between two statements (SF), because the loop tests its deadline at
each turn; nobody is made to vote. `EventPipeline!FairSpec`: the sink's
goroutine, its ticker and the probe time, the server's requests and its noticing
of gone clients are scheduled (WF); an outage ends and the service manager
restarts the daemon (WF), without which no backlog could drain; nothing makes
anybody write, stop, crash or revoke. `Retention!Spec`: runs and syncs are
started by tickers and go on (WF); a write that waits for the hold lock gets it
(SF), because PostgreSQL queues advisory-lock waiters; nothing makes an admin
change anything, and failures and lost locks are limited in number, not excluded.
`Machine!FairSpec`: the sync loop, the heartbeat loop, enrollment and the
restarted daemon go on, and requests that reach the server are served (WF);
nobody is made to publish, issue or activate. `Alerts!FairSpec`: heartbeats,
requests, time and each instance's delivery loop (WF); no stop, kill or sleep is
made to happen, and detector passes need none because only the queue has a
liveness property. `Spend!Spec`: the poll and rollup loops, begun requests, and
the passing of the minute, the hour and the week that tickers wait for (WF).

**What the statements leave out, on purpose.** Each exception names a case the
model reaches, in a history variable, and section 7 says what happens there.
`QuorumOfPeople` speaks of votes judged after the request's rules were
recorded. `HoldCovers` excepts the objects a *failed* run could not put on
hold (`missed`). `RetentionDrains` holds within `MaxObjects`. `Accounted` does
not count the memory of a killed daemon, as `http.go` says it cannot.
`KernelCurrent` excepts an apply that took an older rule and registered last,
and one whose documents did not all load; `NoStrays` an agent untracked during
its apply; `NeverLess` a document that `Reconcile` snatched, and a restart of
Tetragon. `HonouredOnce` and `WindowKept` except two activations that share the
record, `WindowKept` a late timer. `AnnouncedAsMarked` excepts a pass that
stopped half way or lost its lock, `NoFalseTamper` a daemon that came back and
fell silent within the slack of its stop. `SequenceCaught` excepts sessions
that the full table dropped. `WrappingHidesNothing` leaves out a piped download
in a nested line. `SavingsWithinSpend` excepts vendors with a total for the
organisation.

**Properties the code refutes.** Section 7 names a property for each finding.
None is part of a configuration kept here; TLC prints the shortest behaviour
that refutes one when the run's configuration, with `SPECIFICATION Spec` and
the property as its only `INVARIANT`, is changed as follows:

| Property | Configuration | Changed constants |
|---|---|---|
| `OneCallPerApproval` | `ApprovalsCalls.cfg` | none |
| `QuorumAsFiled` | `ApprovalsVotes.cfg` | none |
| `BuildsOnLatest` | `PolicyFourEyes.cfg` | `Pids = {p1, p2}`, `Asked <- JustPolicy`, `MaxVersion = 3`, no symmetry |
| `FollowedUp`, `RefusedForCause` | `EventDelivery.cfg` | none |
| `DeniesBack` | `Enforcement.cfg` | `MaxChanges = 2`, `MaxFaults = 0` |
| `NothingDropped` | `Compiler.cfg` | `NewRules <- Subnet`, `NewExceptions <- NoExceptions` |
| `BreakGlassKeepsDenies` | `Compiler.cfg` | `NewRules <- CurlRules`, `NewExceptions <- NoExceptions` |

Properties that the modules state beside those of the runs: each module's
`TypeOK`, `OffNeedsTwo`, `StoredOnce`, `SentIsStored`, `DataHasConnector`,
`StaleIsDue` and `ApprovalKept` are proved (section 6); `HoldSyncs`,
`SentForCause`, `HooksKnown`, `PushSeesTarget` and `AlikeLists` hold when they are
added to the run's configuration.

## Proofs

TLAPS checks the theorems below for every value of the constants that satisfies
the assumptions, which say what kind of value each constant is (lifetimes are
positive numbers, `NoGroup` is no group, identities are user ids or e-mails, an
instance is a record of bounds) and bound nothing. They are stated where the
constants are declared and TLC evaluates them in every run:
`ConstantsAssumption` (`Approvals`), `PolicyAssumption` and `AskedAssumption`,
`IngestAssumption` and `PipelineAssumption`, `RetentionAssumption`,
`EnforcementAssumption`, `MachineAssumption`, `WebhooksAssumption`,
`AlertsAssumption` and `LimitsAssumption` (`Alerts`), `SpendAssumption`,
`WidthAssumption` (`CentralPolicy`), `DaemonAssumption` (`EndpointRule`),
`CompilerAssumption`, `PeopleAssumption`, `DetectionAssumption` and
`InventoryAssumption`. Two of them say something of the data:
`InventoryAssumption` that an event's time is a natural number and that it names
finitely many things, numbered in the order of their names; and
`DetectionAssumption` takes a seat's price and a day's cost to be no less than zero, as the
vendors' APIs report them (an imported CSV's amounts are taken as they are), and
leaks to be looked for within the report's window. The
bounds may be any numbers, and the sets of clients, requests, voters, threads and
workers any sets, infinite ones too.

| Module | Theorem | Says |
|---|---|---|
| `ApprovalsProofs` | `TypeCorrect` | `Spec => []TypeOK` |
| | `OneOpen` | `Spec => []OneOpenRequest` |
| | `DenialsStand` | `Spec => []DenialStands` |
| | `RunsApproved` | `Spec => []RunsOnlyApproved` |
| | `Quorum` | `Spec => []QuorumOfPeople` |
| | `ApprovalsLapseLate` | `Spec => ApprovalKept` (an action property) |
| | `Refines` | `Spec => ImplementsPermit` |
| `PolicyProofs` | `TypeCorrect` | `Spec => []TypeOK` |
| | `PublishedOnce` | `Spec => []AppliedOnce` |
| | `TwoAdmins` | `Spec => []FourEyes` |
| | `TwoAdminsTurnOff` | `Spec => OffNeedsTwo` (an action property) |
| | `FetchesAlike` | `CompilerSpec => []EveryFetchAlike` |
| | `FloorHolds` | `CompilerSpec => []BaseIsFloor` |
| | `ExceptionsHold` | `CompilerSpec => []ExceptionsExact` |
| | `ProgramsHold` | `CompilerSpec => []ProgramsAgree` |
| `EventPipelineProofs` | `TypeCorrect` | `Spec => []TypeOK` |
| | `ChainAlwaysVerifies` | `IngestSpec => []ChainVerifies` |
| | `ImplementsIngest` | `Spec => IngestSpec` |
| | `SinkChainVerifies` | `Spec => []ChainVerifies` |
| | `NothingUncounted` | `Spec => []Accounted` |
| | `SentMeansStored` | `Spec => []SentIsStored` |
| | `EventsStoredOnce` | `Spec => []StoredOnce` |
| | `MappingWins` | `InventorySpec => []MappedCounts` |
| | `SavingsAreSpent` | `InventorySpec => []SavingsWithinSpend` |
| | `FirstSeenIsExact` | `InventorySpec => FirstSeenExact` (an action property) |
| | `RollupsAreEvents` | `InventorySpec => []RollupsAreTheEvents` |
| `RetentionProofs` | `TypeCorrect` | `Spec => []TypeOK` |
| | `Archived` | `Spec => []DeletedIsArchived` |
| | `HoldsCover` | `Spec => []HoldCovers` |
| | `NotOnHold` | `Spec => NothingDeletedOnHold` (an action property) |
| `EnforcementProofs` | `TypeCorrect` | `Spec => []TypeOK` |
| | `NothingLeftBehind` | `Spec => []NoStrays` |
| | `KernelInForce` | `Spec => []KernelCurrent` |
| | `MakeBeforeBreak` | `Spec => NeverLess` (an action property) |
| `MachineProofs` | `TypeCorrect` | `Spec => []TypeOK` |
| | `UsedOnce` | `Spec => []HonouredOnce` |
| | `WindowStays` | `Spec => []WindowKept` |
| `AlertsProofs` | `TypeCorrect` | `Spec => []TypeOK` |
| | `TellsTheMark` | `Spec => []AnnouncedAsMarked` |
| | `AlertsForCause` | `Spec => []NoFalseTamper` |
| `SpendProofs` | `TypeCorrect` | `Spec => []TypeOK` |
| | `ClaimedOnce` | `Spec => []AnnouncedOnce` |
| | `DueWhileStale` | `Spec => []StaleIsDue` |
| | `RowsWithConnector` | `Spec => []DataHasConnector` |

Few of these properties are inductive. What each needs besides the types, and
why:

*One request, and denials.* `DenialStands` is not inductive: the vote that
denies a request must find no other one open, which is `OneOpenRequest`.
`Exclusive` is their conjunction, and with `TypeOK` it is inductive. Most steps
make rows only quieter (no row opens, no denial appears, time does not go
back), which `QuieterExclusive` settles once. The steps left are `FileRequest`,
which files only when no row is open and no denial stands, and `VoteApproval`,
which may make an open row denied or extend it; then the other rows are not
open, by `OneOpenRequest`.

*Who approved.* `VotingInv` ties each row's state to its votes (`VotesDecide`),
an answer that lets a call run to a row that can no longer lose its approval
(`GoApproved`), and the votes to the rules (`VotesCount`: they are of different
people, each approval that was judged under the recorded rules obeys them, and
there are enough). A ballot judged before the rules are recorded is committed
after, so `BallotsJudged` says it of the ballots too; and `FiledOnce`, that only
one handler records a row's rules, keeps a row's rules from changing under the
votes judged by them. The cardinality in `QuorumOfPeople` is of the approving
votes: `VotesCount` keeps the votes finite and counts one more with each vote.

*Approvals that last.* `ApprovalKept` needs `ApprovalsLast`, that an approved
row's expiry lies the use window after its decision; `VotedLapses` shows it of the
vote that approves, and no other step touches the two columns of a row that is
approved (`RowLapses`).

*Refinement of `Permit`.* `RefinesInit` maps the initial state. `RefinesNext`
has one lemma per action that changes a row's permit: `UseApprovedSpends`,
`FileRequestRequests`, `ConsumeSpends`, `VoteDecides`, and for `Tick` a
set of rows that lapse together; every other action leaves each `PermitOf` as it
is, since marking a due row as expired changes nothing about its permit. That a
second consumption of one request cannot happen is a consequence: `Permit` has
no step from *spent*.

*Four eyes.* Between the claim of a proposal and the publication lie several
statements, so the published version says nothing about who approved unless the
request in between is followed. `HeldOnce`: at most one request is past the
claim of a proposal, and the proposal stays approved, by an admin who may
decide it, while it is. `AppliedStays`: what is published is not reopened, which
is why the request that holds it can only be *recording*. `CarriesProposal`
keeps the change of a request that of its proposal. `FourEyes` speaks of
exceptions too, which survive in later versions; `OneSource` (one request or one
proposal creates an exception) and `ContentsSourced` (a version about to be
published has the exceptions of earlier versions and its own) trace each to its
proposal. `OffIsProposed` gives `OffNeedsTwo`.

*Compiler.* The state machine is small, and `CompilerInv` says of it what the four
properties start from: a draft has one policy whose rules are numbered by their
places (`Drafted`), a version published compiled at its time to something other
than a refusal (`Compiles`), and the policy a machine holds is one of the outcomes of
its sources (`Received`). The work lies in what compiling computes, for any
rules, base policies, agents and numbers of edits. *All fetches alike*: an
exception's turn at one agent changes that agent's rule alone and reads the
defaults' list, which the walk may already have changed; `SameFallBack` shows that
it comes to the same, `OneTurn` and `AllTurns` that after any walk each agent has
the `Outcome` that no order enters, and `OneOutcome` and `OneAfterAll` that a set of
possible outcomes of any list of exceptions has one member. *The floor*:
`KernelLists` and `ExecVerdict`, `NetVerdict` and `FileVerdict` say what the
selectors rendered for Tetragon decide, by the lists they are rendered from, in
each mode and in a window; `AtLeastBlocks` that the lists of a compiled rule, more denied,
more to be approved and less allowed than the base's, block what the base's
blocked. *Exceptions* follow from `LoosenedList`, and from `Shipped`: the document is what was merged,
or nothing is shipped. *Programs agree*: `HasLeast`, `PrecedesByThree` and `Winner`
show that the precedence of decisions has a first among any candidates, so that
the evaluator's choice is one; `WinnerCompiled` and `CompiledWinner` go from
a strict winner to a list of the compiled rule and back, through the probes; the
bound on edits is used nowhere but to keep rules inside the positions that
`Classified` ranges over, which `DraftedRule` shows they are.

What folds compute (walks over agents, lists of exceptions, exceptions that have
ended) is proved by induction over natural numbers in its least-number form
(`LeastNat`, `InductNat`), which needs no operator as a parameter; `Folding` and
`Folded` give the recursive function behind the community modules' folds.

*Events.* That the batch to be inserted takes over the hash of the last one
depends on nobody having inserted since it was read: `ChainInv` adds to
`ChainVerifies` that the request between its read and its insert holds the lock
(`LockHeld`). `ChainAlwaysVerifies` is about any clients; `ImplementsIngest`
shows that the sink is one, step by step, so `SinkChainVerifies` also follows
from it. The accounting rests on `OneBody`: wherever copies of a batch are (the
loop, a spool file, requests in the server's slots, the chain), batches with a
common event are the same batch, and no event of one is still in memory. Then
an answer about a batch is an answer about each of its events (`Answered`), and
`SpoolInv` and `LoopInv` say which events the files and the loop may still
deliver. `PipeInv` is the conjunction.

*Inventory.* For the first two, `RowsKnown` is all that the state has to promise: mapped identities
are of the known kinds, and what is stored are rows of the tables and finitely
many days of known machines. The rest is about what is read from them, whatever
they are. For `MappedCounts`, a mapping wins over every other way to find a
person (`MappedUser`, `KnownUser`), each tool, leak and unmanaged person is traced to the rows it is
made of, and each source of suggestions is shown to suggest nothing against a
mapping (`Suggested`). For `SavingsWithinSpend`, a leak that saves something is of one tool and
one kind: an unused or a duplicate seat saves the seat and is never both
(`Keyed`: a tool is one person's of one vendor), a runaway cost or else a
spike saves no more than the tool's usage (`SpikeWithin`: the days of a spike
are summed once each, above an average that is not negative). `LeaksWithin` adds
up: leaks with savings map one to one into seats and into usage. `ChartIsUsage` parts the
same rows of usage by day and by tool (`SumParts`), so the chart and the total
agree. The sums are those of the community modules; that they exist, split and
compare is proved for any finite set (`SumsExist`, `SumUnion`, `SumLe`,
`SumImage`, `SumParts`). `FirstSeenExact` needs an invariant,
`BaselinesTrue`: a learnt value's last time is the latest of the times at which
a batch began to show it, whatever order the batches came in; a value that was
shown and is not learnt came when its key was full; an agent's first time is
that of its earliest event; and a signal bears the number of its batch. What
`Decide` makes of a batch's values, one after the other, is followed by
induction over their names (`Judged`, `JudgedNext`, `TurnsInduct`).
For `RollupsAreTheEvents` the invariant is `TablesTrue`, which adds to it, for all
machines at once, over the tagged events that are stored (`History`): a row is in
a table exactly when some stored event is of it, and then counts those events
(`ActivityTrue`, `ServersTrue`, `AgentRowsTrue`, `OutcomesTrue`); a value's first
time is the earliest at which it was shown (`FirstsTrue`); and of a key,
what its values were seen and what overflowed add up to what the events showed
of it, with as many values as it says and no more than its cap (`KeysTrue`,
`ValuesSeen`). `Grown` and `Growth` say what one batch adds to a key, value by
value. What the pages show then follows: groups of rows add up to the rows and
these to the events (`RowsAdd`, `GroupsAdd`), a machine's rows are as many as its
events (`AsMany`), an agent's last event is in the period when its day is
(`DayStart`), and the least of several firsts is the first of all (`MinSame`).

*Retention.* `OffWhileDeleting` is the transaction lock at work: no hold comes
between the check and the commit. `UploadInHand` says that what a run has
uploaded is the day it is about to delete. For `HoldCovers`, what is not on hold
yet must be on somebody's list: `SyncCovers` says of a sync of the present hold
that every full object is in its `todo`, held, in a run's hand or known as
`missed`, and `OneSync` that no other sync is going.

*Enforcement.* `Core` has three parts. `Books`: a generation is drawn once, and
what is registered or being deleted is of no apply under way, so that two
goroutines never mean the same name. `NoneAstray`: every loaded document is
owned, in flight, on somebody's list to delete, or about to be listed by a
`Reconcile`. `LoadsStand`, `LoadsCurrent`, `WholeCurrent` and `WholeLoaded`: what
an apply loaded is there under its rule, the apply drawn last has the current
rule or a re-apply is to come, and a tracked agent whose documents all loaded
has exactly those of one rule. `DownIsIdle` and `FiredInWindow` close it under
crashes and timers. None of the history variables' exceptions was widened for
the proof.

*Machine.* `RecordsTrue`: the end of a code in a record, in the temporary file
or in an activation is the end it was issued with, so that pruning removes only
codes that have ended. Unless two activations met at the file (`overlap`),
`Uses` holds: one activation at a time is about to replace the record and has
every code in it that could still be used (`NothingForgotten`), a code that was
honoured is spent (recorded or ended), and a code promised to an activation is
promised to it alone. `HonouredOnce` follows. `WindowInv`: no code ends later
than `MaxWindow` from now (`InReach`), so that a recorded window does not become
restorable by the passing of time; requests are under way only in the phase that
makes them; and, unless two activations met, between the record and the engine's
window lies exactly the one step of the thread that is *marked*.

*Alerts.* Unless a pass was cut, a pass that works has the lock (`Alone`), and the
announcement made last differs from the mark only while one is about to be made
(`Told`). `RunsInv` follows a run from its end (`EndsTold`, `MarkerTold`) over the
events and notices on their way (`EventsTrue`, `NoticesTrue`) to the newest
stop recorded (`StopTrue`, `Newer`, `HeardOf`), which is what an alert is decided
by, minutes later.

*Spend.* `ClaimedIsRecent`: the claims of an episode are one exactly as long as
the leak counts as recently announced. `StaleIsDue` needs `ReportsLate`: a
rollup that records a level that is no longer the data's knows that it is late,
or the writer's mark is still to come. `IInv` is their conjunction, with
`DataHasConnector`.

*Only model-checked*:

- the liveness properties (`EveryCallAnswered`, `EventuallySettled`,
  `RetentionDrains`, both `Converges`, `QueueDrains`, `LeaksAnnounced`), which
  need fairness and `ENABLED`;
- the properties of `Hooks` (`SequenceCaught`,
  `WrappingHidesNothing`, `SourcesAlike`, `EveryAgentAlike`, `StricterStays`):
  they are about what recursive readers make of command lines, in modules
  that declare recursive operators, where the SMT solver is not available;
- `SentForCause`, which counts attempts, and `HoldSyncs` and `HooksKnown`, which
  are liveness properties; no run's configuration lists them.

## Where code and documentation disagree

| Found with | The text | What the model shows |
|---|---|---|
| `OneCallPerApproval` | `store/approvals.go:18`: "each approval lets exactly one tool call through" | Two calls wait on one request. One consumes it; the other's update matches nothing, reads the row back as *used*, and reports *approved* as well. |
| `QuorumAsFiled` | `migrations/012_approval_votes.sql:6`: approved "once approvals_required different people approved it" | The row is committed with the default of one approval before the route's rules are recorded by a statement of its own; a vote in between decides alone. |
| `BuildsOnLatest` | `server/proposals.go:28`: a proposal is stale "once another version is published after it" | Two proposals pass the staleness check before either publishes; the second replaces the first. |
| `FollowedUp` | `docs/vendor-checklist-answers.md:526`: the use of a code is "reported when the machine reconnects" | The consequences of a batch follow its commit in the same request. Cut off there, the replay is a duplicate, and they never happen. |
| `RefusedForCause` | `cmd/effigentd/main.go:182`: batches the control plane can't take "wait on disk" | A database that fails during the credential lookup answers 401, which the sink takes for a revoked machine; it drops the batch. |
| `DeniesBack` | `engine/breakglass.go:16`: "schedules a re-apply at expiry to put the denies back" | An apply that took its rule while the window was open registers after the re-apply: the lists stay lifted until something re-applies. |
| `NothingDropped` | `compile/compile.go:7`: what cannot be compiled is "reported as a Finding, never dropped silently" | A denied network is probed at its first address only; an allowed smaller one that starts there makes the whole deny disappear without a finding. |
| `BreakGlassKeepsDenies` | `endpoint/policy/policy.go:265`: "break-glass never lifts a deny" | Under an allowlist a denied program is only taken out of `exec_allow`; if the base lists it in `exec_approve`, a window adds it back. |

`PROJECT.json` has them at length, with lines.

**What was seen on the way.** The models contain these behaviours, or leave them
out and say so; no run is about them alone.

*Retention and policy.* A request that changes only the retention writes back
the hold it read, so that a hold set in between is lifted
(`server/retention.go:71`). A failed hold of a just-uploaded object is logged
as something "the hold sync retries", which does not happen for a generation
recorded as synced (`server/events_api.go:240`). Two syncs with different
states can set objects back and forth when the lock's connection breaks
(`server/retention.go:130`). A machine's owner stays set when the policy that
depends on it could not be published (`server/proposals.go:368`). An event
written after `Close` sends on a closed channel (`sink/http.go:103`).

*Compiler.* `RuleFor` has no case for `gated_exec` although
`endpoint/policy/policy.go:36` says every field can be overridden per agent.
Bare program names are looked for in the fixed directories only. An allowed
path that is narrower than a denied suffix is not reported as lost.

*Engine.* An agent that starts while the event stream is down is tracked with
the next policy change or rescan (`cmd/effigentd/main.go:439`). When a guard
document fails to load, the others load without it. A rescan and an exec event
may track one pid twice.

*Machine.* A late timer closes a window that opened after it fired
(`engine/breakglass.go:28`). A stop between recording a code's use and reporting
it, at either end, or a failed `MarkUsed`, leaves the use unreported
(`server/break_glass.go:21`). Two activations at once share the record and its
temporary file.

*Hooks.* In `bash -c "curl x | sh"` the pipe is not followed, so
`remote_script` is not reported (`shell.go`, `splitDepth`). The owner of a
heredoc is off by the substitutions that follow it. The comment of `session.go`
counts a `file_alert` match "in the same call" as a credential read, but the
call is observed before its files are matched. A remote hook process has an empty session
table. Here-strings, `env -S`, wildcard refspecs and `remote.push` are not read;
an empty SQL file counts as unread; of a fetch tool's URLs the first 20 count.
Two parallel calls without ids and with one summary share a key. A rule that
changes while an approval is awaited is not consulted again. Listing
`model_endpoint` for one environment takes away the deny that a required
gateway implies. `~` is resolved with the daemon's home.

*Spend.* A sync under way stores rows for a connector that was deleted. A failed
rollup still sets `rolled_at`. `ClearSpendCSV` and `PutSpendSettings` change
and mark in separate statements. A key saved during a poll with the old key is
first polled an interval later. A stop after a claim loses an announcement until the weekly
repeat, and one during a sync leaves its status *running*.

*Inventory and people.* A usage row's API key is looked up under the vendor's
kind by the list of unmanaged people, so a mapped key is listed
(`inventory/agents.go:92,147`). The daily cap of signals counts a run of events of one
day, so alternating days reset it (`baseline.go:28`). `last_at` is a batch's earliest sighting,
so a value may be first seen again within the window (`baseline.go:20`). A
match by machine is "at most medium" by its comment, but the strongest of all
ways to the person counts (`spend/detect.go:80`). Owner and git email win over a host
mapping. Two seats of one person at one vendor count once. A name-like
suggestion may contradict several people who commit under the login, and its
low confidence is lost when the first email recurs elsewhere
(`suggest.go:95`). The report and the inventory page do not count emails of
seats as known, the leaks do, so a git email may be a person in one of them only. An observe-only kernel counts as enforced in the coverage.

## What is not modelled

*Of the modelled parts.*

- Approvals: notifications, audit entries and webhooks; group members are
  matched by constant identities; Slack without routing.
- Policy changes: previews and diffs; a text is a model value here and compiled
  in `Compiler`.
- Events: severities below the minimum, file sizes, spool files that cannot be
  read or removed, the other sinks. The rollups are in `Inventory`.
- Retention: other workspaces, encoding and hashing of a day, partial uploads,
  listing and downloads; the hold sync's session lock is not lost.
- Engine: what an event becomes, MCP servers' processes, nested agents (they
  follow their root), the launcher requirement, several pids at once.
- Compiler: the lists that only hooks read (they take the same merge), domains,
  the wording of findings.
- Machine: revoking a code (it changes what the console lists), rate limits.
- Alerts: e-mails (they are claimed as the webhooks' events are), kernel policy
  failures, how a hook file is inspected, signatures, addresses and test events.
- Hooks: tokenizing and pattern matching inside one word (tables), the outcomes of calls
  (`result.go`), agent-start events, the remote hook process, the bytes of answers.
- Spend: the vendors' clients (external: a level per key), the CSV format,
  scaling to a month; what the data show is in `SpendDetection`.
- Inventory: batches of at most two events; names are numbered, so that their
  truncation does not show; coverage by hooks and kernel, teams, the marks of
  the allowlist, the list of anomalies, and thresholds at their real size (they
  are scaled to a window of two days).

*Not modelled at all.*

- Audit trail: one insert under a lock per entry; `EventIngest` is the same
  pattern with retries, and shows it.
- Model gateway: a streaming reverse proxy that meters tokens; what it keeps is
  a counter per response.
- Fleet report and endpoint queries: the report's sections on activity,
  enforcement and signals are in `Inventory`, the rest is read from the tables of
  other modules; the claim of a period is one update.
- Sign-in, directory and access: who a caller is enters the models as given
  (voters, admins, keys, credentials); tokens are verified by libraries.
- Other endpoint parts (vulnerability lookup, redaction, process scanning):
  input and output, or functions on the bytes of a string.
- Console and site: a user interface over the API, and a website.

## Plan

Every safety property that a run checks is proved, but for those of `Hooks`
(section 6). What is left, in order of importance:

1. **`Webhooks`**: `SentForCause`, from an invariant that counts the attempts that
   may still deliver an event against the faults so far.
2. **`Retention`**: an abstract specification of a day (kept, archived, deleted,
   on hold or not) that `Retention` implements, as `Approvals` does `Permit`.
