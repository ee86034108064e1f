----------------------------- MODULE Inventory -----------------------------
(* What the batches of a machine's events leave in the control plane, in the  *)
(* transaction that stores them: daily activity, agents, MCP servers, and the *)
(* behaviour baselines with their first-seen signals (store.ingest,           *)
(* store/inventory_rollup.go, store/baselines.go, inventory/baseline.go).     *)
(*                                                                            *)
(* An event is the time the machine put on it and an act, a row of a table:   *)
(* its type, agent, people, mode and what its body names.  Programs, hosts,   *)
(* servers and action kinds are numbers, in the order of their names.  Times  *)
(* are not the order of arrival: batches are spooled, retried and overtaken.  *)
(*                                                                            *)
(* Composed with the People mapping and the spend data, which read the daily  *)
(* activity (SpendDetection).  An instance is one of Limits.                  *)
EXTENDS SpendDetection

CONSTANTS
  Limits,      \* instances: events, edits and what was synced before
  Window,      \* a value unseen for longer is first seen again
  Warmup,      \* before an agent has been seen this long nothing is signalled
  DayLength,
  Caps,        \* distinct values kept per machine, agent and kind
  DailySignalCap

Kinds == {"binary", "host", "mcp", "action"}

ASSUME InventoryAssumption ==
  /\ {Window, Warmup, DailySignalCap} \subseteq Nat /\ DayLength \in Nat \ {0}
  /\ Caps \in [Kinds -> Nat]
  /\ \A l \in Limits :
       /\ l.seats \subseteq DOMAIN SeatRows /\ l.usage \subseteq DOMAIN UsageRows
       /\ l.times \subseteq Nat
       /\ \A a \in l.acts : LET numbers == {a.via, a.name} \cup a.programs \cup a.hosts \cup a.actions
                           IN numbers \subseteq Nat /\ IsFiniteSet(numbers)

VARIABLES
  batches,    \* cp.event_batches with their events, by machine
  activity,   \* cp.agent_activity_daily
  agents,     \* cp.agent_inventory, by machine and agent
  servers,    \* cp.mcp_activity_daily
  outcomes,   \* cp.enforcement_daily, with the layer in place of the list that matched
  values,     \* cp.baseline_values, by machine, agent, kind and value
  keys,       \* cp.baseline_keys, by machine, agent and kind
  anomalies,  \* cp.anomalies
  limit,      \* the instance
  edits       \* requests and syncs so far

tableVars == <<batches, activity, agents, servers, outcomes, values, keys, anomalies>>
inventoryVars == <<tableVars, peopleVars, spendVars, limit, edits>>

NoKey == [values |-> 0, overflow |-> 0, day |-> 0, signals |-> 0, suppressed |-> 0]

TablesInit ==
  /\ batches = [m \in Hosts |-> <<>>]
  /\ activity = << >> /\ agents = << >> /\ servers = << >> /\ outcomes = << >>
  /\ values = << >> /\ keys = << >>
  /\ anomalies = {}

\* Days count from 1; 0 is no day.
Day(t) == t \div DayLength + 1

\* The row of k, as a set of one or none.
Row(table, k) == IF k \in DOMAIN table THEN {table[k]} ELSE {}

\* insert ... on conflict do update: one row for each of ks.
Upsert(table, ks, new(_)) ==
  [k \in DOMAIN table \cup ks |-> IF k \in ks THEN new(k) ELSE table[k]]

Count(rows, field(_)) == SumSet({field(r) : r \in rows})

-----------------------------------------------------------------------------
\* Rollups (a tool_result is the outcome of a call already counted).

Known(e)   == e.act.agent # "" /\ ~e.act.tracked
Counted(e) == Known(e) /\ e.act.type # "tool_result"

ActivityRow(m, e) == [m |-> m, day |-> Day(e.at), agent |-> e.act.agent,
                      user |-> e.act.user, git |-> e.act.git]

RollupActivity(m, evs) ==
  LET mine(k) == {e \in evs : Counted(e) /\ ActivityRow(m, e) = k}
  IN activity' = Upsert(activity, {ActivityRow(m, e) : e \in {x \in evs : Counted(x)}},
                        LAMBDA k : Count(Row(activity, k), LAMBDA r : r) + Cardinality(mine(k)))

\* Of the events of one moment, the database puts any first.
Latest(evs, first) ==
  LET top == {e \in evs : \A x \in evs : x.at <= e.at}
  IN IF first \in top THEN first ELSE CHOOSE e \in top : TRUE

LatestMode(old, moded, first) ==
  IF moded = {} \/ Latest(moded, first).at < old.at THEN old
  ELSE [mode |-> Latest(moded, first).act.mode, at |-> Latest(moded, first).at]

RollupAgents(m, evs, first) ==
  LET mine(k) == {e \in evs : Counted(e) /\ <<m, e.act.agent>> = k}
      old(k)  == Row(agents, k)
  IN agents' = Upsert(agents, {<<m, e.act.agent>> : e \in {x \in evs : Counted(x)}}, LAMBDA k :
       [first  |-> Min({r.first : r \in old(k)} \cup {e.at : e \in mine(k)}),
        last   |-> Max({r.last : r \in old(k)} \cup {e.at : e \in mine(k)}),
        events |-> Count(old(k), LAMBDA r : r.events) + Cardinality(mine(k)),
        mode   |-> LatestMode(IF old(k) = {} THEN [mode |-> "", at |-> 0] ELSE agents[k].mode,
                              {e \in mine(k) : e.act.mode # ""}, first)])

\* The server a hook's tool call or a kernel event's process names; 0 is none.
ServerOf(e) == IF e.act.kernel THEN e.act.via ELSE IF e.act.target = "mcp" THEN e.act.name ELSE 0

ServerRow(m, e) == [m |-> m, day |-> Day(e.at), agent |-> e.act.agent, user |-> e.act.user,
                    server |-> ServerOf(e), kernel |-> e.act.kernel]

RollupServers(m, evs) ==
  LET used    == {e \in evs : Counted(e) /\ ServerOf(e) # 0}
      mine(k) == {e \in used : ServerRow(m, e) = k}
      old(k)  == Row(servers, k)
  IN servers' = Upsert(servers, {ServerRow(m, e) : e \in used}, LAMBDA k :
       [first    |-> Min({r.first : r \in old(k)} \cup {e.at : e \in mine(k)}),
        events   |-> Count(old(k), LAMBDA r : r.events) + Cardinality(mine(k)),
        unlisted |-> Count(old(k), LAMBDA r : r.unlisted) + Cardinality({e \in mine(k) : e.act.unlisted})])

Enforced == {"blocked", "would_block", "file_open", "approval_pending", "approved", "approval_denied"}
IsOutcome(e) == e.act.agent # "" /\ e.act.type \in Enforced

OutcomeRow(m, e) == [m |-> m, day |-> Day(e.at), agent |-> e.act.agent, type |-> e.act.type, kernel |-> e.act.kernel]

RollupOutcomes(m, evs) ==
  LET mine(k) == {e \in evs : IsOutcome(e) /\ OutcomeRow(m, e) = k}
  IN outcomes' = Upsert(outcomes, {OutcomeRow(m, e) : e \in {x \in evs : IsOutcome(x)}},
                        LAMBDA k : Count(Row(outcomes, k), LAMBDA r : r) + Cardinality(mine(k)))

-----------------------------------------------------------------------------
\* Baselines.

Observed == {"exec", "connect", "file_open", "blocked", "would_block",
             "approval_pending", "approved", "approval_denied"}

\* Extract's reading of one event: its kinds and values.
Shows(e) ==
  LET a == e.act IN
  IF ~Known(e) \/ a.type \notin Observed THEN {}
  ELSE ({"action"} \X a.actions)
       \cup (IF a.via # 0 THEN {<<"mcp", a.via>>} ELSE {})
       \cup (IF a.kernel
             THEN CASE a.type = "exec" /\ ~a.starts -> {<<"binary", a.name>>}
                    [] a.target = "exec"            -> {<<"binary", a.name>>}
                    [] a.target = "connect"         -> {<<"host", a.name>>}
                    [] OTHER                        -> {}
             ELSE CASE a.target = "mcp"  -> {<<"mcp", a.name>>}
                    [] a.target = "bash" -> ({"binary"} \X a.programs) \cup ({"host"} \X a.hosts)
                    [] a.target = "web"  -> {"host"} \X a.hosts
                    [] OTHER             -> {})

\* A batch's values of one agent and kind: the earliest time, how many events.
Seen(evs, agent, kind) ==
  LET showing(v) == {e \in evs : e.act.agent = agent /\ <<kind, v>> \in Shows(e)}
  IN {[value |-> v, at |-> Min({e.at : e \in showing(v)}), count |-> Cardinality(showing(v))] :
        v \in {s[2] : s \in {x \in UNION {Shows(e) : e \in {y \in evs : y.act.agent = agent}} : x[1] = kind}}}

\* Decide on one value s of key k, after acc.
Decided(k, first, acc, s) ==
  LET v     == Append(k, s.value)
      known == v \in DOMAIN values
      fits  == known \/ acc.key.values < Caps[k[3]]
      new   == /\ fits
               /\ known => s.at > values[v].last + Window
               /\ s.at >= first + Warmup
      key   == [acc.key EXCEPT !.values = IF ~known /\ fits THEN @ + 1 ELSE @,
                               !.overflow = IF fits THEN @ ELSE @ + s.count]
      today == IF new /\ key.day # Day(s.at)
               THEN [key EXCEPT !.day = Day(s.at), !.signals = 0] ELSE key
      room  == today.signals < DailySignalCap
  IN [key     |-> IF ~new THEN key
                  ELSE IF room THEN [today EXCEPT !.signals = @ + 1]
                  ELSE [today EXCEPT !.suppressed = @ + 1],
      kept    |-> IF fits THEN acc.kept \cup {s} ELSE acc.kept,
      signals |-> IF new /\ room THEN acc.signals \cup {s} ELSE acc.signals]

\* Extract's order of a key's values.
LastNamed(seen) == CHOOSE s \in seen : \A x \in seen : x.value <= s.value

\* The keys a batch touches and, for each, what Decide makes of its values in
\* the order of their names.
Touched(m, evs) == UNION {{<<m, e.act.agent, s[1]>> : s \in Shows(e)} : e \in evs}

Decision(m, evs, k) ==
  LET first == agents'[<<m, k[2]>>].first
      acc   == [key |-> IF k \in DOMAIN keys THEN keys[k] ELSE NoKey, kept |-> {}, signals |-> {}]
  IN MapThenFoldSet(LAMBDA s, a : Decided(k, first, a, s), acc, LAMBDA s : s, LastNamed, Seen(evs, k[2], k[3]))

\* Mutant: last_at is the time in the batch, also where it is older.
LastAt_Batch(old, s) == s.at

LastAt(old, s) == Max({r.last : r \in old} \cup {s.at})

ApplyBaselines(m, evs) ==
  LET Save(touched, d) ==
        LET kept == UNION {{Append(k, s.value) : s \in d[k].kept} : k \in touched}
            Told(v) == CHOOSE s \in d[SubSeq(v, 1, 3)].kept : s.value = v[4]
            Value(v, s) == [first |-> Min({r.first : r \in Row(values, v)} \cup {s.at}),
                            last  |-> LastAt(Row(values, v), s),
                            seen  |-> Count(Row(values, v), LAMBDA r : r.seen) + s.count]
        IN /\ keys' = Upsert(keys, touched, LAMBDA k : d[k].key)
           /\ values' = Upsert(values, kept, LAMBDA v : Value(v, Told(v)))
           /\ anomalies' = anomalies \cup UNION {
                {[batch |-> Len(batches[m]) + 1, key |-> k, value |-> s.value, at |-> s.at] : s \in d[k].signals} : k \in touched}
  IN Save(Touched(m, evs), [k \in Touched(m, evs) |-> Decision(m, evs, k)])

-----------------------------------------------------------------------------
\* The transaction of ingest, under the machine's lock.
Store(m, evs, first) ==
  /\ RollupActivity(m, evs) /\ RollupAgents(m, evs, first) /\ RollupServers(m, evs)
  /\ RollupOutcomes(m, evs)
  /\ ApplyBaselines(m, evs)

\* Mutant: a batch that comes again is rolled up again.
Ingest_Again(m, id, evs, first) ==
  /\ Store(m, evs, first)
  /\ batches' = IF id \in DOMAIN batches[m] THEN batches
                ELSE [batches EXCEPT ![m] = Append(@, evs)]

\* A batch that is stored already is answered as it was.
Ingest(m, id, evs, first) ==
  IF id \in DOMAIN batches[m] THEN UNCHANGED tableVars
  ELSE Store(m, evs, first) /\ batches' = [batches EXCEPT ![m] = Append(@, evs)]

\* PruneAnomalies: signals seen before a time; the baselines stay.
PruneAnomalies(before) ==
  /\ anomalies' = {a \in anomalies : a.at >= before}
  /\ UNCHANGED <<batches, activity, agents, servers, outcomes, values, keys>>

-----------------------------------------------------------------------------
\* What the console reads of it, of the days since `from': the posture report
\* (buildReport), and the inventory page's agents and servers (getInventory).

StartOf(day) == (day - 1) * DayLength
Sum(table, rows) == SumFunctionOnSet(table, rows)

\* Neither knows of the emails that only seats have.
PageEmails == persons \cup ({owner[h] : h \in Hosts} \cap Emails)

\* The report's agents in use: rows of the activity, in groups.
InReport(from) == {o \in DOMAIN activity : o.day \in from .. Today + 1 /\ o.agent \notin OrphanServers}
ReportPerson(o) == SightedAs(o, PageEmails).who
Grouped(rows, by, who) ==
  [g \in {by[o] : o \in rows} |->
     LET mine == {o \in rows : by[o] = g}
     IN [agents |-> {o.agent : o \in mine}, machines |-> {o.m : o \in mine},
         people |-> {who[o] : o \in mine}, events |-> Sum(activity, mine)]]
InUse(from) ==
  LET Of(rows, who) == [byAgent |-> Grouped(rows, [o \in rows |-> o.agent], who), byPerson |-> Grouped(rows, who, who)]
  IN Of(InReport(from), [o \in InReport(from) |-> ReportPerson(o)])

\* EnforcementCounts and what the report makes of them.  A denied approval is of
\* a kind that may have no other outcome, and is not counted.
OutcomesSince(from) == {k \in DOMAIN outcomes : k.day \in from .. Today}
OfType(rows, type)  == Sum(outcomes, {k \in rows : k.type = type})
Tally(rows) == [blocked |-> OfType(rows, "blocked"), wouldBlock |-> OfType(rows, "would_block"),
                approvals |-> OfType(rows, "approval_pending")]
EnforcementReport(from) ==
  LET rows == OutcomesSince(from)
      kinds == [kernel \in {k.kernel : k \in {x \in rows : x.type # "file_open"}} |->
                  Tally({k \in rows : k.kernel = kernel})]
      blocked == {k \in rows : k.type = "blocked"}
  IN [blocked    |-> OfType(rows, "blocked"),
      wouldBlock |-> OfType(rows, "would_block"),
      fileAlerts |-> OfType(rows, "file_open"),
      byKind     |-> [k \in {x \in DOMAIN kinds : kinds[x] # Tally({})} |-> kinds[k]],
      byAgent    |-> [a \in {k.agent : k \in blocked} |-> Sum(outcomes, {k \in blocked : k.agent = a})],
      daily      |-> [d \in {<<k.day, k.type>> : k \in rows} |-> Sum(outcomes, {k \in rows : <<k.day, k.type>> = d})]]

AnomalyCounts(from) ==
  LET period == {a \in anomalies : a.at >= StartOf(from) /\ a.at < StartOf(Today + 1)}
  IN [kind \in {a.key[3] : a \in period} |-> Cardinality({a \in period : a.key[3] = kind})]

\* AgentSightings, without servers that are their own root.
AgentsListed(from) == {k \in DOMAIN agents : agents[k].last >= StartOf(from) /\ k[2] \notin OrphanServers}

\* MCPUses by server, machine and agent: the first time is the baseline's where
\* it is older, and the person is of the one user, or the machine's.
ServerUse(mine) ==
  LET one   == CHOOSE k \in mine : TRUE
      ever  == Row(values, <<one.m, one.agent, "mcp", one.server>>)
      users == {k.user : k \in mine} \ {""}
  IN [events   |-> MapThenSumSet(LAMBDA k : servers[k].events, mine),
      unlisted |-> MapThenSumSet(LAMBDA k : servers[k].unlisted, mine),
      sources  |-> {k.kernel : k \in mine},
      first    |-> Min({servers[k].first : k \in mine} \cup {v.first : v \in ever}),
      person   |-> IF Cardinality(users) = 1
                   THEN ObsPerson(The(users), "", PageEmails, owner[one.m], one.m, approvers[one.m]).who
                   ELSE MachinePerson(one.m).who]
ServersListed(from) ==
  LET rows == {k \in DOMAIN servers : k.day >= from}
      Of(k) == <<k.m, k.agent, k.server>>
  IN [u \in {Of(k) : k \in rows} |-> ServerUse({k \in rows : Of(k) = u})]

-----------------------------------------------------------------------------
\* The composition.

InventoryInit ==
  /\ limit \in Limits
  /\ TablesInit /\ PeopleInit /\ SpendInit(limit.seats, limit.usage)
  /\ edits = 0

StoredCount == MapThenSumSet(LAMBDA m : FoldLeft(LAMBDA n, b : n + Cardinality(b), 0, batches[m]), Hosts)

\* Batches of one event or two, of the sizes of limit.batch.
NewBatches == {{e, f} : e, f \in [at : limit.times, act : limit.acts]}

\* A batch arrives for the first time, or again after its answer was lost.
BatchArrives(m) ==
  /\ \/ \E evs \in NewBatches :
          /\ Cardinality(evs) \in limit.batch /\ StoredCount + Cardinality(evs) <= limit.events
          /\ \E first \in evs : Ingest(m, Len(batches[m]) + 1, evs, first)
     \/ \E id \in DOMAIN batches[m] : \E first \in batches[m][id] : Ingest(m, id, batches[m][id], first)
  /\ UNCHANGED <<peopleVars, spendVars, limit, edits>>

Prune == /\ limit.prune
         /\ \E t \in limit.times : PruneAnomalies(t)
         /\ UNCHANGED <<peopleVars, spendVars, limit, edits>>

Edit(who) == /\ edits < limit.edits /\ edits' = edits + 1
             /\ who
             /\ UNCHANGED <<tableVars, limit>>

Map == /\ \E e \in limit.people :
            \/ \E ids \in SUBSET Identities : Cardinality(ids) <= 2 /\ PutPerson(e, ids)
            \/ \E ids \in SUBSET Identities : Cardinality(ids) <= 1 /\ AddPersonIdentity(ids, e)
            \/ DeletePerson(e)
       /\ UNCHANGED spendVars
Unmap == (\E i \in Identities : DeletePersonIdentity(i)) /\ UNCHANGED spendVars

Sync == /\ \E v \in limit.vendors :
             \E rows \in SUBSET {n \in DOMAIN SeatRows : SeatRows[n].vendor = v},
                days \in SUBSET {n \in DOMAIN UsageRows : UsageRows[n].vendor = v} : StoreVendor(v, rows, days)
        /\ UNCHANGED peopleVars
Own  == (\E h \in Hosts, o \in Emails \cup {""} : SetOwner(h, o)) /\ UNCHANGED peopleVars
File == (\E h \in Hosts, a \in limit.acts : a.user # "" /\ FileApproval(h, a.user)) /\ UNCHANGED peopleVars

InventoryNext ==
  \/ \E m \in Hosts : BatchArrives(m)
  \/ Prune
  \/ Edit(Map) \/ Edit(Unmap) \/ Edit(Sync) \/ Edit(Own) \/ Edit(File)

InventorySpec == InventoryInit /\ [][InventoryNext]_inventoryVars

-----------------------------------------------------------------------------
\* Properties.

EventsOf(m) == UNION {{<<b, e>> : e \in batches[m][b]} : b \in DOMAIN batches[m]}

\* When a set of events shows value v of key k.
ShownAt(evs, k, v) == {e.at : e \in {x \in evs : x.act.agent = k[2] /\ <<k[3], v>> \in Shows(x)}}

RollupsOf(m) ==
  LET all     == EventsOf(m)
      counted == {x \in all : Counted(x[2])}
  IN /\ {k \in DOMAIN activity : k.m = m} = {ActivityRow(m, x[2]) : x \in counted}
     /\ \A k \in DOMAIN activity : k.m = m =>
          activity[k] = Cardinality({x \in counted : ActivityRow(m, x[2]) = k})
     /\ \A v \in Vendors, d \in Days :
          Cardinality({x \in counted : AgentVendor(x[2].act.agent) = v /\ Day(x[2].at) = d})
            = DailyActivity([k \in {y \in DOMAIN activity : y.m = m} |-> activity[k]], v, d).events
     /\ {k \in DOMAIN agents : k[1] = m} = {<<m, x[2].act.agent>> : x \in counted}
     /\ \A k \in DOMAIN agents : k[1] = m =>
          LET mine  == {x[2] : x \in {y \in counted : y[2].act.agent = k[2]}}
              moded == {e \in mine : e.act.mode # ""}
              a     == agents[k]
          IN /\ a.first = Min({e.at : e \in mine}) /\ a.last = Max({e.at : e \in mine})
             /\ a.events = Cardinality({y \in counted : y[2].act.agent = k[2]})
             /\ IF moded = {} THEN a.mode.mode = ""
                ELSE \E e \in moded : /\ \A x \in moded : x.at <= e.at
                                      /\ a.mode = [mode |-> e.act.mode, at |-> e.at]
     /\ \A k \in DOMAIN servers : k.m = m =>
          LET mine == {x \in counted : ServerOf(x[2]) # 0 /\ ServerRow(m, x[2]) = k}
          IN /\ servers[k].events = Cardinality(mine)
             /\ servers[k].unlisted = Cardinality({x \in mine : x[2].act.unlisted})
     /\ \A k \in DOMAIN outcomes : k.m = m =>
          outcomes[k] = Cardinality({x \in all : IsOutcome(x[2]) /\ OutcomeRow(m, x[2]) = k})
     /\ \A k \in DOMAIN keys : k[1] = m =>
          LET of == {v \in DOMAIN values : SubSeq(v, 1, 3) = k}
              shown == UNION {{<<x, s>> : s \in {y \in Shows(x[2]) : x[2].act.agent = k[2] /\ y[1] = k[3]}} : x \in all}
          IN /\ Cardinality(of) = keys[k].values /\ keys[k].values <= Caps[k[3]]
             /\ keys[k].overflow + SumFunction([v \in of |-> values[v].seen]) = Cardinality(shown)

\* What the console shows agrees with the events: the report's groups, by agent
\* and by person, add up to those that its period counts, which ends tomorrow for
\* use and today for outcomes; the agents in use are those the page lists, but
\* for the ones that only a later event names; each block is counted once, by
\* kind, agent and day; and a server is first seen when its earliest event in the
\* period was, or any before that a baseline learnt.
PagesAgree(from) ==
  LET stored  == UNION {{<<m, x[1], x[2]>> : x \in EventsOf(m)} : m \in Hosts}
      counted == {x \in stored : Counted(x[3]) /\ Day(x[3].at) >= from}
      Total(groups, n) == SumFunction(groups) = n
      Of(inUse, enforced, listed) ==
        LET people == {x \in counted : x[3].act.agent \notin OrphanServers}
            recent == {x \in people : Day(x[3].at) <= Today + 1}
            blocks == Cardinality({x \in stored : x[3].act.agent # "" /\ x[3].act.type = "blocked" /\ Day(x[3].at) \in from .. Today})
        IN /\ Total([g \in DOMAIN inUse.byAgent |-> inUse.byAgent[g].events], Cardinality(recent))
           /\ Total([g \in DOMAIN inUse.byPerson |-> inUse.byPerson[g].events], Cardinality(recent))
           /\ DOMAIN inUse.byAgent = {x[3].act.agent : x \in recent}
           /\ {k[2] : k \in AgentsListed(from)} = {x[3].act.agent : x \in people}
           /\ enforced.blocked = blocks /\ Total(enforced.byAgent, blocks)
           /\ Total([k \in DOMAIN enforced.byKind |-> enforced.byKind[k].blocked], blocks)
           /\ Total([d \in {x \in DOMAIN enforced.daily : x[2] = "blocked"} |-> enforced.daily[d]], blocks)
           /\ \A u \in DOMAIN listed :
                LET used  == {x[3] : x \in {y \in counted : /\ <<y[1], y[3].act.agent>> = <<u[1], u[2]>>
                                                            /\ ServerOf(y[3]) = u[3]}}
                    shown == IF <<u[1], u[2], "mcp", u[3]>> \in DOMAIN values
                             THEN ShownAt({x[2] : x \in EventsOf(u[1])}, <<u[1], u[2], "mcp">>, u[3]) ELSE {}
                IN listed[u].first = Min({e.at : e \in used} \cup shown)
  IN Of(InUse(from), EnforcementReport(from), ServersListed(from))

\* What is kept of a machine is what its stored batches say, each once, in
\* whichever order they came and however often they were sent: the events of
\* a day, agent and person, and with them the chart's; an agent's first and last event and its mode, that
\* of a latest event that had one; a server's events; the outcomes; and of a key, its
\* sightings, counted by value or as overflow, with no more values than its cap.
\* And the report and the inventory page say the same of any period.
RollupsAreTheEvents ==
  /\ \A from \in Days : PagesAgree(from)
  /\ \A m \in Hosts : RollupsOf(m)

\* What the batch evs, the next of machine m, announces of value v of key k.
AnnouncedRight(m, evs, k, v) ==
  LET at     == Min(ShownAt(evs, k, v))
      before == {Min(ShownAt(batches[m][b], k, v)) :
                   b \in {x \in DOMAIN batches[m] : ShownAt(batches[m][x], k, v) # {}}}
      all    == evs \cup {x[2] : x \in EventsOf(m)}
      since  == Min({x.at : x \in {y \in all : Counted(y) /\ y.act.agent = k[2]}})
      fresh  == (\A t \in before : t + Window < at) /\ at >= since + Warmup
      learnt == Append(k, v) \in DOMAIN values'
      news   == {a \in anomalies' \ anomalies : a.key = k /\ a.value = v}
      held   == IF k \in DOMAIN keys THEN keys[k].suppressed ELSE 0
  IN /\ news # {} => fresh /\ learnt /\ \A a \in news : a.at = at
     /\ fresh /\ learnt /\ news = {} => keys'[k].suppressed > held

BatchAnnounced ==
  \A m \in Hosts : Len(batches'[m]) > Len(batches[m]) =>
    LET evs == batches'[m][Len(batches'[m])]
    IN \A e \in evs : \A s \in Shows(e) : AnnouncedRight(m, evs, <<m, e.act.agent, s[1]>>, s[2])

\* A value is announced as first seen exactly when it is: no batch that came
\* before began to show it within the window before this sighting, or after
\* it, and the agent's earliest event on the machine, late ones included, is a
\* warm-up older.  What is not learnt for the cap is not announced, and what
\* the daily cap withholds is counted.
FirstSeenExact == [][BatchAnnounced]_inventoryVars

\* What somebody mapped wins: where a user of a machine is mapped to a person
\* for that machine, the user's work counts for that person whatever else is
\* mapped, owned or known, so that their seat of that tool is not called
\* unused, they are not listed as paying for a tool without a machine, the
\* login is not suggested again for it, and a git email that only they use is
\* suggested for them.  No suggestion contradicts a mapping.
MappedCounts ==
  LET act   == DOMAIN activity
      id(o) == [kind |-> "os_user", value |-> o.user, host |-> o.m]
      Right(leaks, unmanaged, suggested) ==
        /\ \A o \in {x \in act : x.day \in Days /\ id(x) \in DOMAIN mapping} :
             LET who == Person(mapping[id(o)]) IN
             /\ \A l \in leaks : l.type = "unused_seat" => <<l.person, l.vendor>> # <<who, AgentVendor(o.agent)>>
             /\ o.agent \notin OrphanServers => who \notin unmanaged
             /\ ReportPerson(o) = who
             /\ \A s \in suggested : \A x \in s.ids :
                  /\ x.kind = "os_user" /\ x.value = o.user => x.host # o.m /\ \E y \in act : y.user = o.user /\ y.m # o.m
                  /\ x.kind = "git_email" /\ x.value = o.git /\ (\A y \in act : y.git = o.git => id(y) = id(o))
                       => Person(s.email) = who
        /\ \A s \in suggested : ~Conflict(s.ids, s.email)
  IN Right(Leaks(Tools(act)), Unmanaged(act), Suggest(act))

\* What a vendor is said to cost too much is never more than what it costs:
\* no seat and no cent is counted in two leaks.  (With a total for the
\* organisation, the leaks of its people may exceed it.)  The chart's days add
\* up to what the report says of usage.
SavingsWithinSpend ==
  LET Within(tools, leaks) ==
        \A v \in Vendors : OrgUsage(v) = {} =>
          /\ SumFunction([l \in {x \in leaks : x.vendor = v} |-> l.savings]) <= VendorSpend(tools, v)
          /\ SeatSpend(tools, v) + SumFunction([d \in Days |-> DailyCost(v, d)]) = VendorSpend(tools, v)
      Of(tools) == Within(tools, Leaks(tools))
  IN Of(Tools(DOMAIN activity))
=============================================================================
