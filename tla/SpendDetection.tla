--------------------------- MODULE SpendDetection ---------------------------
(* Pricing Leaks' report and the inventory's unmanaged people: vendors' seats *)
(* and usage joined, person by person, with the activity that machines        *)
(* reported (spend/detect.go, inventory/agents.go, store/spend.go).           *)
(*                                                                            *)
(* Seats and usage are rows of a table each, in the order the queries return  *)
(* them; a cost is a small number.  The window is the days of Days, the last  *)
(* of them today, and long enough that costs are not scaled to a month.       *)
EXTENDS Integers, Sequences, FiniteSets, FiniteSetsExt, SequencesExt, People

CONSTANTS
  SeatRows,    \* vendor, identity, price, recent (assigned within SeatGraceDays), lastUse (a day, 0 never)
  UsageRows,   \* vendor, identity ("" the organisation), kind, day, cost
  Hosts,       \* hostnames of the machines
  OrphanServers, \* agents that are an MCP server without an agent above it
  NameOf,      \* what is left of an email, user or login as a name ("" too short)
  GenericUsers, \* logins that say nothing about the person
  Today,       \* the last day of the window, which starts on day 1
  Thresholds   \* detect.go's: medianX, runawayMin, peers, spikeX, spikeMin,
               \* lookback, recent, mainDays, lowDays

Days == 1 .. Today

Cursor    == "cursor"
Copilot   == "copilot"
Anthropic == "anthropic"
OpenAI    == "openai"
Vendors   == {Cursor, Copilot, Anthropic, OpenAI}
Billed    == Vendors \cup {"google", "byok"}

\* A machine has a name ("" is any), and a vendor asks for no negative amount.
ASSUME DetectionAssumption ==
  /\ "" \notin Hosts
  /\ SeatRows \in Seq(Range(SeatRows)) /\ UsageRows \in Seq(Range(UsageRows))
  /\ \A n \in DOMAIN SeatRows : SeatRows[n].vendor \in Vendors /\ SeatRows[n].price \in Nat
  /\ \A n \in DOMAIN UsageRows : UsageRows[n].vendor \in Vendors /\ UsageRows[n].cost \in Nat
  /\ Today \in Nat /\ Thresholds.recent \in 0 .. Today
  /\ Thresholds.lookback \in Nat \ {0} /\ Thresholds.medianX \in Nat

VARIABLES
  seats, usage,   \* rows of SeatRows and UsageRows that are stored, by number
  owner,          \* cp.endpoints.owner, by machine
  approvers       \* OS users of the machine's approval requests

spendVars == <<seats, usage, owner, approvers>>

SpendInit(rows, days) ==
  /\ seats = rows /\ usage = days
  /\ owner = [h \in Hosts |-> ""] /\ approvers = [h \in Hosts |-> {}]

\* FinishSpendSync (and an import): a vendor's rows are replaced together.
StoreVendor(v, rows, days) ==
  /\ seats' = {n \in seats : SeatRows[n].vendor # v} \cup rows
  /\ usage' = {n \in usage : UsageRows[n].vendor # v} \cup days
  /\ UNCHANGED <<owner, approvers>>

SetOwner(h, o) == owner' = [owner EXCEPT ![h] = o] /\ UNCHANGED <<seats, usage, approvers>>
FileApproval(h, u) == approvers' = [approvers EXCEPT ![h] = @ \cup {u}] /\ UNCHANGED <<seats, usage, owner>>

-----------------------------------------------------------------------------
\* Who is behind a row.

SeatKind(v) == IF v = Copilot THEN "github" ELSE "email"

SeatPerson(n)  == Resolve(SeatKind(SeatRows[n].vendor), SeatRows[n].identity)
UsagePerson(n) == Resolve(UsageRows[n].kind, UsageRows[n].identity)

SeatEmails == {SeatRows[n].identity : n \in {x \in seats : SeatKind(SeatRows[x].vendor) = "email"}}
KnownEmails == persons \cup ((SeatEmails \cup {owner[h] : h \in Hosts}) \cap Emails)

\* o is a row of cp.agent_activity_daily, of a machine that isn't revoked.
SightedAs(o, known) == ObsPerson(o.user, o.git, known, owner[o.m], o.m, approvers[o.m])
MachinePerson(h)    == EndpointPerson(owner[h], h, approvers[h])

\* AgentVendor, as the table of the agents that occur.
AgentVendor(agent) == CASE agent = "claude-code"  -> Anthropic
                        [] agent = "codex"        -> OpenAI
                        [] agent = "cursor-agent" -> Cursor
                        [] agent = "gemini-cli"   -> "google"
                        [] agent = "aider"        -> "byok"
                        [] OTHER                  -> ""

-----------------------------------------------------------------------------
\* Everybody's tools.  Seats, usage and sightings, each with whose it is.

HeldSeats == {[who |-> SeatPerson(n), vendor |-> SeatRows[n].vendor, row |-> n] : n \in seats}
PersonUsage == {[who |-> UsagePerson(n), vendor |-> UsageRows[n].vendor, row |-> n] :
           n \in {x \in usage : UsageRows[x].identity # "" /\ UsageRows[x].day \in Days}}
Observations(act, known) ==
  {[who |-> SightedAs(o, known), vendor |-> AgentVendor(o.agent), day |-> o.day] :
     o \in {x \in act : AgentVendor(x.agent) # "" /\ x.day \in Days}}

OrgUsage(v) == {n \in usage : UsageRows[n].vendor = v /\ UsageRows[n].identity = "" /\ UsageRows[n].day \in Days}

\* The costliest seat, the first of those that cost the same.
SeatOf(mine) == Min({n \in mine : \A x \in mine : SeatRows[x].price <= SeatRows[n].price})
SeatCents(mine) == IF mine = {} THEN 0 ELSE SeatRows[SeatOf(mine)].price

CostOf(rows) == SumFunctionOnSet([n \in DOMAIN UsageRows |-> UsageRows[n].cost], rows)
Daily(rows)  == [d \in 1 - Thresholds.lookback .. Today |-> CostOf({n \in rows : UsageRows[n].day = d})]

\* Rows of the vendor's own reports count as days of use where they show any.
VendorDays(mine, rows) == ({SeatRows[n].lastUse : n \in mine} \cap Days)
                          \cup {UsageRows[n].day : n \in {x \in rows : UsageRows[x].cost > 0}}

\* The vendor reports activity person by person.
Tracks(v) == \/ \E n \in seats : SeatRows[n].vendor = v /\ SeatRows[n].lastUse # 0 /\ SeatPerson(n) # Nobody
             \/ \E n \in usage : UsageRows[n].vendor = v /\ UsageRows[n].identity # "" /\ UsageRows[n].day \in Days

\* A person's tool: what they pay for, on which days it was used, and the ways
\* their machines and activity were tied to them.
Tool(p, v, mine, rows, days, ways) ==
  [person |-> p, vendor |-> v, tracks |-> Tracks(v), via |-> ways,
   seat |-> mine # {}, recent |-> mine # {} /\ SeatRows[SeatOf(mine)].recent, seatCents |-> SeatCents(mine),
   effDays |-> days, days |-> Cardinality(VendorDays(mine, rows) \cup days),
   hasUsageRows |-> rows # {}, cost |-> CostOf(rows), dailyCost |-> Daily(rows)]

\* What Analyze joins before it looks for leaks.
Tools(act) ==
  LET Theirs(rows, p, v) == {x.row : x \in {y \in rows : y.who = p /\ y.vendor = v}}
      Of(held, used, seen, machines) ==
        {Tool(t[1], t[2], Theirs(held, t[1], t[2]), Theirs(used, t[1], t[2]),
              {s.day : s \in {x \in seen : x.who.who = t[1] /\ x.vendor = t[2]}},
              {m.via : m \in {x \in machines \cup {s.who : s \in seen} : x.who = t[1]}}) :
           t \in {<<x.who, x.vendor>> : x \in {y \in held \cup used : y.who # Nobody}}
                 \cup {<<s.who.who, s.vendor>> : s \in seen}}
  IN Of(HeldSeats, PersonUsage, Observations(act, KnownEmails), {MachinePerson(h) : h \in Hosts})

-----------------------------------------------------------------------------
\* Leaks, of a set of tools.

Leak(type, v, p, savings, risk, conf) ==
  [type |-> type, vendor |-> v, person |-> p, savings |-> savings, risk |-> risk, confidence |-> conf]

Covered(t) == t.via # {}
Sure(t)    == IF t.tracks /\ Covered(t) THEN "high" ELSE "medium"

UnusedSeats(tools) ==
  {Leak("unused_seat", t.vendor, t.person, t.seatCents, 0, Sure(t)) :
     t \in {x \in tools : /\ x.seatCents > 0 /\ x.days = 0 /\ ~x.recent
                          /\ x.tracks \/ Covered(x)}}

\* The tool a person relies on: the most days, the first by name.
ByName == <<Anthropic, "byok", Copilot, Cursor, "google", OpenAI>>
Earlier(v, w) == \E i, j \in DOMAIN ByName : ByName[i] = v /\ ByName[j] = w /\ i <= j
MainTool(mine) == CHOOSE t \in mine : \A x \in mine : x.days < t.days \/ (x.days = t.days /\ Earlier(t.vendor, x.vendor))

\* A seat that is hardly used beside the tool its holder relies on.
Beside(t, main) ==
  /\ t.seatCents > 0
  /\ main.days >= Thresholds.mainDays /\ t # main
  /\ t.days <= Max({Thresholds.lowDays, main.days \div 5})

\* Mutant: seats already reported as unused are not left out.
Duplicates_Twice(tools, already) ==
  {Leak("duplicate_tool", t.vendor, t.person, t.seatCents, 0, Sure(t)) :
     t \in {x \in tools : Beside(x, MainTool({y \in tools : y.person = x.person}))}}

Duplicates(tools, already) ==
  {Leak("duplicate_tool", t.vendor, t.person, t.seatCents, 0, Sure(t)) :
     t \in {x \in tools : /\ Beside(x, MainTool({y \in tools : y.person = x.person}))
                          /\ \A l \in already : <<l.person, l.vendor>> # <<x.person, x.vendor>>}}

\* Vendors whose company plan is known: a connector that synced, or rows.
Connected == {SeatRows[n].vendor : n \in seats} \cup {UsageRows[n].vendor : n \in usage}

UsesCompanyAPI(mine) == \E t \in mine : t.vendor \in {Anthropic, OpenAI} \cap Connected /\ (t.hasUsageRows \/ t.seat)

ShadowSpend(tools) ==
  {Leak("shadow_spend", t.vendor, t.person, 0, 1,
        IF t.vendor \notin Vendors THEN "low" ELSE IF IsPerson(t.person) THEN "high" ELSE "medium") :
     t \in {x \in tools : /\ x.effDays # {} /\ ~x.seat /\ ~x.hasUsageRows
                          /\ x.vendor \in Vendors => x.vendor \in Connected
                          /\ x.vendor = "byok" => ~UsesCompanyAPI({y \in tools : y.person = x.person})}}

\* The middle of the costs of some tools, or half of what the middle two cost.
Median(paid) ==
  LET n      == Cardinality(paid)
      Nth(k) == Min({c \in {t.cost : t \in paid} : Cardinality({t \in paid : t.cost <= c}) >= k})
  IN IF n = 0 THEN 0
     ELSE IF n % 2 = 1 THEN Nth(n \div 2 + 1) ELSE (Nth(n \div 2) + Nth(n \div 2 + 1)) \div 2

\* The recent days that are far above the days before them, and by how much.
Excess(daily, d) ==
  daily[d] - SumFunctionOnSet(daily, d - Thresholds.lookback .. d - 1) \div Thresholds.lookback
SpikeDays(daily) ==
  {d \in Today - Thresholds.recent + 1 .. Today :
     LET Far(excess) == /\ daily[d] >= Thresholds.spikeX * Max({daily[d] - excess, 1})
                        /\ excess >= Thresholds.spikeMin
     IN Far(Excess(daily, d))}
SpikeExcess(daily) == SumFunction([d \in SpikeDays(daily) |-> Excess(daily, d)])

\* What a person costs over a multiple of the median, where that is a lot.
Over(t, paid) ==
  LET Beyond(med) == IF /\ Cardinality(paid) >= Thresholds.peers /\ med > 0
                        /\ t.cost > Thresholds.medianX * med
                        /\ t.cost - Thresholds.medianX * med >= Thresholds.runawayMin
                     THEN t.cost - Thresholds.medianX * med ELSE 0
  IN Beyond(Median(paid))

\* The organisation's own spike counts where it is no person's.
Runaway(tools, v) ==
  LET Of(costly, org) ==
        {IF c.over > 0 THEN Leak("runaway_cost", v, c.person, c.over, 0, "high")
         ELSE Leak("runaway_cost", v, c.person, c.spike, 0, "medium") : c \in {x \in costly : x.over > 0 \/ x.spike > 0}}
        \cup IF org = 0 \/ \E c \in costly : c.spike > 0 THEN {}
             ELSE {Leak("runaway_cost", v, Nobody, org, 0, "medium")}
      Costly(paid) == {[person |-> t.person, over |-> Over(t, paid), spike |-> SpikeExcess(t.dailyCost)] : t \in paid}
  IN Of(Costly({t \in tools : t.vendor = v /\ t.cost > 0}), SpikeExcess(Daily(OrgUsage(v))))

\* What rests on a machine's person, one person a machine, is not certain.
Attributed(tools, l) ==
  IF /\ l.type # "runaway_cost" /\ l.confidence = "high"
     /\ \E t \in tools : t.person = l.person /\ Covered(t) /\ Max({ViaRank(w) : w \in t.via}) = 2
  THEN [l EXCEPT !.confidence = "medium"] ELSE l

\* Analyze.
Leaks(tools) ==
  LET With(unused) == unused \cup Duplicates(tools, unused) \cup ShadowSpend(tools)
                      \cup UNION {Runaway(tools, v) : v \in Vendors}
  IN {Attributed(tools, l) : l \in With(UnusedSeats(tools))}

\* vendorSpend: the organisation's total where the vendor sends one.
SeatSpend(tools, v)   == SumFunction([t \in {x \in tools : x.vendor = v} |-> t.seatCents])
VendorSpend(tools, v) ==
  SeatSpend(tools, v) + (IF OrgUsage(v) # {} THEN CostOf(OrgUsage(v))
                         ELSE SumFunction([t \in {x \in tools : x.vendor = v} |-> t.cost]))

-----------------------------------------------------------------------------
\* Unmanaged: who pays, by seat or usage, and has no activity on a machine.
\* It reads a usage row's identity as the vendor's kind, an API key's too.

Payer(n) == Resolve(SeatKind(UsageRows[n].vendor),
                    IF UsageRows[n].kind = "key" THEN "key:" \o UsageRows[n].identity ELSE UsageRows[n].identity)

Paying == {SeatPerson(n) : n \in seats}
          \cup {Payer(n) : n \in {x \in usage : /\ UsageRows[x].identity # "" /\ UsageRows[x].cost > 0
                                               /\ UsageRows[x].day \in Days}}

\* An MCP server that runs on its own is nobody's use of an agent.
Active(act) == {SightedAs(o, KnownEmails).who : o \in {x \in act : x.day \in Days /\ x.agent \notin OrphanServers}}

Unmanaged(act) == (Paying \ {Nobody}) \ Active(act)

-----------------------------------------------------------------------------
\* Daily series of the console's charts.

\* DailyUsage: a day's total of the organisation is its cost, where there is one.
DailyCost(v, d) ==
  LET rows == {n \in usage : UsageRows[n].vendor = v /\ UsageRows[n].day = d}
      Of(org) == CostOf(IF org # {} THEN org ELSE rows)
  IN Of({n \in rows : UsageRows[n].identity = ""})

\* DailyActivity: events and machines of a day by the vendor that bills the
\* agent; act is the rows of cp.agent_activity_daily, by number of events.
DailyActivity(act, v, d) ==
  LET rows == {o \in DOMAIN act : AgentVendor(o.agent) = v /\ o.day = d}
  IN [events |-> SumFunctionOnSet(act, rows), machines |-> {o.m : o \in rows}]

-----------------------------------------------------------------------------
\* Suggestions for the mapping.  One maps an identity (or, for a seat of
\* somebody who is not in People, none) to an email.

Sightings(act) == {[m |-> o.m, user |-> o.user, git |-> o.git] : o \in {x \in act : x.day \in Days}}

\* Emails that are real people's; an owner's only where the machine was seen.
SuggestKnown(act) ==
  persons \cup ((SeatEmails \cup {owner[s.m] : s \in Sightings(act)}) \cap Emails)

\* ResolveSightings: the OS users of approval requests don't count.
Sighted(s, known) == ObsPerson(s.user, s.git, known, owner[s.m], s.m, {})

\* Whose a git email is, as a set of one or none.
GitPerson(git, known) ==
  LET who == Resolve("git_email", git)
  IN {e \in Emails : git # "" /\ who = Person(e) /\ (e # git \/ e \in known)}

\* localParts: the one known email with the name of a user, an email or a login.
NamedLike(value, known) ==
  LET like == {e \in known : NameOf[e] = NameOf[value]}
  IN IF NameOf[value] # "" /\ Cardinality(like) = 1 THEN like ELSE {}

Suggestion(kind, value, host, email, conf) ==
  [ids |-> IF kind = "person" THEN {} ELSE {[kind |-> kind, value |-> value, host |-> host]},
   email |-> email, confidence |-> conf]

\* An OS user without a mapping who commits as somebody, or is named like one.
\* A login of several people, or of nobody in particular, is mapped by machine.
SuggestUsers(act, known) ==
  LET ss == {s \in Sightings(act) : s.user # ""}
      several(u) == Cardinality(UNION {GitPerson(s.git, known) : s \in {x \in ss : x.user = u}}) > 1
      new == {s \in ss : OsUser(s.user, s.m) = {}}
  IN (UNION {{Suggestion("os_user", s.user, IF several(s.user) \/ s.user \in GenericUsers THEN s.m ELSE "", e,
                        IF e \in persons THEN "high" ELSE "medium") : e \in GitPerson(s.git, known)} : s \in new})
     \cup UNION {{Suggestion("os_user", s.user, "", e, "medium") : e \in NamedLike(s.user, known)} :
                    s \in {x \in new : GitPerson(x.git, known) = {} /\ x.user \notin GenericUsers}}

\* A git email of nobody known, on somebody's machine or named like somebody.
SuggestGit(act, known) ==
  UNION {LET As(by) == IF by.via \in {"os_user", "owner", "host"}
                       THEN {Suggestion("git_email", s.git, "", by.who.value, "medium")}
                       ELSE {Suggestion("git_email", s.git, "", e, "low") : e \in NamedLike(s.git, known)}
         IN As(Sighted(s, known)) : s \in {x \in Sightings(act) : x.git # "" /\ GitPerson(x.git, known) = {}}}

\* A machine without an owner where all that is identified is one person's and
\* something is not.
SuggestHosts(act, known) ==
  LET On(h, seen) ==
        LET who == {x.who.value : x \in {y \in seen : ViaRank(y.via) = 3}} IN
        IF /\ owner[h] = "" /\ Cardinality(who) = 1
           /\ \E x \in seen : ViaRank(x.via) # 3
           /\ Lookup("host", h) = {}
        THEN {Suggestion("host", h, "", The(who), "medium")} ELSE {}
  IN UNION {On(h, {Sighted(s, known) : s \in {x \in Sightings(act) : x.m = h}}) : h \in Hosts}

\* Seats of people who aren't in People, and logins named like somebody.
SuggestSeats(known) ==
  LET kind(n) == SeatKind(SeatRows[n].vendor)
      id(n)   == SeatRows[n].identity
  IN {Suggestion("person", "", "", id(n), "high") :
        n \in {x \in seats : kind(x) = "email" /\ id(x) \in Emails \ persons /\ SeatPerson(x) = Person(id(x))}}
     \cup UNION {{Suggestion("github", id(n), "", e, "low") : e \in NamedLike(id(n), known)} :
                   n \in {x \in seats : kind(x) = "github" /\ id(x) # "" /\ ~IsPerson(SeatPerson(x))}}

\* An identity that looks like two people's is shown as uncertain, for either.
\* (Where it recurs on another machine the mark may be lost again.)
Suggest(act) ==
  LET With(known) == {c \in SuggestUsers(act, known) \cup SuggestGit(act, known)
                            \cup SuggestHosts(act, known) \cup SuggestSeats(known) : c.ids \cap DOMAIN mapping = {}}
      rank == [low |-> 1, medium |-> 2, high |-> 3]
      Marked(all) ==
        LET Rivals(c) == {d \in all : d.ids = c.ids /\ c.ids # {} /\ d.email # c.email}
            Best(c)   == \A d \in all : d.ids = c.ids /\ d.email = c.email => rank[d.confidence] <= rank[c.confidence]
        IN {IF Rivals(c) # {} THEN [c EXCEPT !.confidence = "low"] ELSE c : c \in {x \in all : Best(x)}}
  IN Marked(With(SuggestKnown(act)))
=============================================================================
