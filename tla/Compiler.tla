------------------------------- MODULE Compiler -------------------------------
(***************************************************************************)
(* The policy compiler (internal/controlplane/compile) and the publish and *)
(* fetch that use it: a base endpoint policy, central rules and exceptions *)
(* become the policy one machine enforces.                                 *)
(*                                                                         *)
(* An admin edits a draft, publishes it, and the machine fetches.  Publish *)
(* compiles at the time of publishing and stores the sources; every fetch  *)
(* compiles again.  The code ranges over a map of agents while it applies  *)
(* an exception, so compiling has a set of possible outcomes here.         *)
(***************************************************************************)
EXTENDS EndpointRule

CONSTANTS
  Agents,         \* agents the base policy names
  Machine,        \* [endpoint, owner, teams]: what the control plane knows of the machine
  ExecDirs,       \* where a bare program name is looked for
  Bases,          \* base policies
  NewRules,       \* central rules an admin may write
  NewExceptions,  \* exceptions an admin may add
  Loopback, Guard,  \* addresses that are always reachable; resolvers agents may not ask
  MaxEdits,       \* bound on the rules and exceptions of a draft
  MaxNow          \* bound on the clock

ASSUME CompilerAssumption ==
  /\ IsFiniteSet(Agents) /\ MaxEdits \in Nat
  /\ \A r \in NewRules :
       /\ r = [id |-> r.id, priority |-> r.priority, who |-> r.who, what |-> r.what,
               decision |-> r.decision, until |-> r.until, disabled |-> r.disabled]
       /\ r.priority \in Int

VARIABLES
  draft,  \* [base, policies, exceptions] being edited
  now,
  latest, \* the latest version: [source, at], or NoVersion
  held    \* the policy the machine runs: [source, at, policy], or NoVersion

compilerVars == <<draft, now, latest, held>>

Defaults  == ""
Everyone  == Agents \cup {Defaults}
NoVersion == <<>>
Refused   == <<>>

Subject(agent) == [agent |-> agent, owner |-> Machine.owner, teams |-> Machine.teams,
                   endpoint |-> Machine.endpoint, osUser |-> ""]

-----------------------------------------------------------------------------
\* What the kernel can express of a rule.

DimOf(t) ==
  CASE t.binaries # {} /\ t.paths = {} /\ t.hosts = {} -> "exec"
    [] t.binaries = {} /\ t.paths # {} /\ t.hosts = {} -> "file"
    [] t.binaries = {} /\ t.paths = {} /\ t.hosts # {} -> "network"
    [] OTHER -> "none"

ClassesOf == [exec |-> {"exec"}, file |-> {"file_read", "file_write"}, network |-> {"network"}]

\* Conditions the kernel cannot see: arguments, tools, MCP calls, ports, OS users.
Unseen(r) == r.who.osUsers \cup r.what.texts \cup r.what.ports # {}

\* A condition that keeps the whole rule out of the kernel.
Problem(r) ==
  LET d == DimOf(r.what) IN
  \/ Unseen(r) \/ d = "none"
  \/ ~(r.what.classes \subseteq ClassesOf[d])
  \/ d = "file" /\ r.what.classes \notin {{}, ClassesOf.file}

\* An exact path, or a bare name in every directory; a pattern is nothing.
ExecPaths(b) == IF b.star THEN {} ELSE IF Len(b.text) > 1 THEN {b.text}
                ELSE {dir \o b.text : dir \in ExecDirs}
\* "**/.env" is the suffix "/.env"; other wildcards are nothing.
SuffixOf(g) == LET s == IF g[1] = "**" THEN Tail(g) ELSE g IN
               IF s = <<>> \/ \E i \in DOMAIN s : s[i] \in {"*", "**"} THEN {} ELSE {s}
CIDROf(h)   == IF h.kind = "cidr" THEN {ParseCIDR(h)} ELSE {}

Entries(t) == [exec |-> t.binaries, file |-> t.paths, network |-> t.hosts]
AtomsOf(d, entry) == CASE d = "exec" -> ExecPaths(entry) [] d = "file" -> SuffixOf(entry)
                       [] d = "network" -> CIDROf(entry)
Atoms(r) == LET d == DimOf(r.what) IN
            IF Problem(r) THEN {} ELSE UNION {AtomsOf(d, e) : e \in Entries(r.what)[d]}

\* The strict rules the kernel can enforce, as policy and rule positions.
Classified(ps, at) ==
  {k \in (DOMAIN ps) \X (1 .. MaxEdits) :
     /\ ps[k[1]].enabled /\ k[2] \in DOMAIN ps[k[1]].rules
     /\ LET r == ps[k[1]].rules[k[2]] IN Live(r, at) /\ r.decision # "allow" /\ Atoms(r) # {}}

-----------------------------------------------------------------------------
\* Findings: [policy, rule, field, agent] of each clause the kernel does not
\* carry as written; agent is "*" for what does not depend on the agent.

Finding(p, rule, field, agent) == [policy |-> p.id, rule |-> rule, field |-> field, agent |-> agent]

ProblemFields(r) ==
  LET d == DimOf(r.what) IN
  IF Problem(r) THEN {"what"}
  ELSE {f \in {"entry"} : \E e \in Entries(r.what)[d] : AtomsOf(d, e) = {}}

StaticOf(p, r, at) ==
  IF r.disabled THEN {}
  ELSE IF ~Live(r, at) THEN {Finding(p, r.id, "valid_until", "*")}
  ELSE {Finding(p, r.id, "who.agent_types", "*") : a \in r.who.agents \ Agents}
       \cup IF r.decision = "allow" THEN {}
            ELSE {Finding(p, r.id, f, "*") : f \in ProblemFields(r)}

Static(ps, at) == UNION {
  IF ~ps[i].enabled THEN {Finding(ps[i], NoRule, "enabled", "*")}
  ELSE {Finding(ps[i], NoRule, "default", "*") : d \in {ps[i].default} \cap {"deny", "require_approval"}}
       \cup {Finding(ps[i], NoRule, "scope.agent_types", "*") : a \in ps[i].scope.agents \ Agents}
       \cup UNION {StaticOf(ps[i], ps[i].rules[j], at) : j \in DOMAIN ps[i].rules}
  : i \in DOMAIN ps}

-----------------------------------------------------------------------------
\* One agent.

\* The actions the evaluator decides for an atom.
Probe(d, atom) == CASE d = "exec" -> {Exec(atom)}
                    [] d = "file" -> {Open("file_read", atom), Open("file_write", atom)}
                    [] d = "network" -> {Connect(FirstIn(atom))}

Winners(ps, sub, at, d, atom) == {Evaluate(ps, sub, a, at) : a \in Probe(d, atom)}
Strict(w) == w.rule # NoRule /\ w.decision # "allow"

AppliesTo(p, r, sub) == SelectorMatches(p.scope, sub) /\ SelectorMatches(r.who, sub)

\* The atoms of dimension d that some rule names for this agent, and of those
\* the ones the evaluator denies and the ones it only wants approved.
Named(ps, sub, at, d) ==
  UNION {Atoms(ps[k[1]].rules[k[2]]) : k \in {k \in Classified(ps, at) :
     LET r == ps[k[1]].rules[k[2]] IN AppliesTo(ps[k[1]], r, sub) /\ DimOf(r.what) = d}}
Denied(ps, sub, at, d)   == {x \in Named(ps, sub, at, d) :
                               \E w \in Winners(ps, sub, at, d, x) : Strict(w) /\ w.decision = "deny"}
Approved(ps, sub, at, d) == {x \in Named(ps, sub, at, d) \ Denied(ps, sub, at, d) :
                               \E w \in Winners(ps, sub, at, d, x) : Strict(w)}

\* Allow rules for this agent that are narrower than what the kernel denies.
Narrower(ps, p, r, sub, at, deny) ==
  /\ r.decision = "allow" /\ Live(r, at) /\ p.enabled
  /\ AppliesTo(p, [r EXCEPT !.who.osUsers = {}], sub)
  /\ \/ /\ Unseen(r)
        /\ \E d \in DOMAIN deny : \E x \in deny[d] : \E a \in Probe(d, x) :
             TargetMatches([r.what EXCEPT !.texts = {}, !.ports = {}], a)
     \/ /\ ~Unseen(r)
        /\ \E h \in r.what.hosts : \E c \in CIDROf(h) : \E x \in deny.network \ {c} :
             /\ FirstIn(c) \in Block(x)
             /\ Evaluate(ps, sub, Connect(FirstIn(c)), at) = [decision |-> "allow", policy |-> p.id, rule |-> r.id]

\* Allow rules that would lift what the base policy denies.
BaseDenies(base) == [exec |-> IF base.mode = "allowlist" THEN {} ELSE ListOf(base, "exec_deny"),
                     file |-> ListOf(base, "file_deny"),
                     network |-> {ParseCIDR(c) : c \in ListOf(base, "network_deny")}]
Lifting(base, ps, sub, at) ==
  UNION {UNION {{w \in Winners(ps, sub, at, d, x) : w.rule # NoRule /\ w.decision = "allow"}
                  : x \in BaseDenies(base)[d]} : d \in DOMAIN BaseDenies(base)}

DenyList == [exec |-> "exec_deny", file |-> "file_deny", network |-> "network_deny"]

AgentFindings(base, ps, sub, at, deny) ==
  {[f EXCEPT !.agent = sub.agent] : f \in
     {Finding(ps[k[1]], ps[k[1]].rules[k[2]].id, "what.paths", "*") : k \in {k \in Classified(ps, at) :
        LET r == ps[k[1]].rules[k[2]] IN
        AppliesTo(ps[k[1]], r, sub) /\ DimOf(r.what) = "file" /\ \E x \in Atoms(r) \cap deny.file :
          \E w \in Winners(ps, sub, at, "file", x) : ~Strict(w)}}
     \cup (UNION {{Finding(ps[i], ps[i].rules[j].id, "decision", "*") : j \in {j \in DOMAIN ps[i].rules :
                     Narrower(ps, ps[i], ps[i].rules[j], sub, at, deny)}} : i \in DOMAIN ps})
     \cup {[policy |-> w.policy, rule |-> w.rule, field |-> "decision", agent |-> "*"]
             : w \in Lifting(base, ps, sub, at)}
     \cup IF base.mode \in {"monitor", "learn"} /\ \E d \in DOMAIN deny : ~(deny[d] \subseteq ListOf(base, DenyList[d]))
            THEN {[policy |-> 0, rule |-> NoRule, field |-> "mode", agent |-> "*"]} ELSE {}}

\* Mutant: the central entries replace the base's.
UnionReplaces(r, list, add) == IF add = {} THEN r ELSE Put(r, list, add)

\* union: a list that gains nothing stays as it is, nil included.
Union(r, list, add) == IF add \subseteq ListOf(r, list) THEN r ELSE Put(r, list, ListOf(r, list) \cup add)

\* The base rule with this agent's denies and approvals, or Refused when nothing
\* an allowlist names would be left.
CompileAgent(base, ps, sub, at) ==
  LET With(deny, approve) ==
        LET keep   == ListOf(base, "exec_allow") \ deny.exec
            execs  == IF base.mode = "allowlist" THEN Put(base, "exec_allow", keep)
                      ELSE Union(base, "exec_deny", deny.exec)
            denies == Union(Union(execs, "file_deny", deny.file), "network_deny", deny.network)
        IN IF base.mode = "allowlist" /\ keep = {} /\ ListOf(base, "exec_allow") # {} THEN [rule |-> Refused]
           ELSE [rule |-> Union(Union(Union(denies, "exec_approve", approve.exec),
                                      "file_approve", approve.file), "network_approve", approve.network),
                 findings |-> AgentFindings(base, ps, sub, at, deny)]
  IN With([d \in {"exec", "file", "network"} |-> Denied(ps, sub, at, d)],
          [d \in {"exec", "file", "network"} |-> Approved(ps, sub, at, d)])

-----------------------------------------------------------------------------
\* Exceptions: [endpoints, owners, teams, agents, list, value, until].

Covers(x) == \/ x.endpoints \cap Machine.endpoint # {} \/ Machine.owner \in x.owners
             \/ x.teams \cap Machine.teams # {}
InForce(x, at) == (x.until = 0 \/ at < x.until) /\ Covers(x)

MatchEntry(list, value, entry) ==
  CASE list \in {"exec_deny", "exec_approve", "exec_allow"} -> entry = value \/ <<Last(entry)>> = value
    [] list \in {"network_deny", "network_approve"} -> ParseCIDR(value) = ParseCIDR(entry)
    [] OTHER -> entry = value
Without(entries, x) == {e \in entries : ~MatchEntry(x.list, x.value, e)}

HasOwnList(base, agent, list) == agent \in DOMAIN base.agents /\ list \in DOMAIN base.agents[agent].lists

\* Mutant: agents are not told apart.
Reaches_All(x, agent) == TRUE

\* Whether x is about an agent; one that names agents never loosens the defaults.
Reaches(x, agent) == x.agents = {} \/ (agent \in x.agents /\ agent # Defaults)

\* What x makes of a rule.
Loosened(r, x) ==
  LET kept == Without(ListOf(r, x.list), x) IN
  IF x.list = "exec_allow" THEN Union(r, x.list, {x.value})
  ELSE IF kept = ListOf(r, x.list) THEN r ELSE Put(r, x.list, kept)

\* An agent's list that x empties cannot be written: the agent would have the
\* defaults' instead, where x leaves them any.
Emptied(merged, x, agent) ==
  /\ x.list # "exec_allow" /\ agent # Defaults
  /\ ListOf(merged[agent], x.list) # {} /\ Without(ListOf(merged[agent], x.list), x) = {}

\* Mutant: the defaults are read as the walk left them.
FallsBack_AsWalked(merged, base, x, agent) ==
  Emptied(merged, x, agent) /\ ListOf(merged[Defaults], x.list) # {}

FallsBack(merged, base, x, agent) ==
  /\ Emptied(merged, x, agent)
  /\ LET theirs == ListOf(merged[Defaults], x.list)
     IN IF x.agents = {} THEN Without(theirs, x) # {} /\ HasOwnList(base, agent, x.list) ELSE theirs # {}

\* One agent's turn, over the rules as the turns before left them.
ApplyTo(merged, base, x, agent) ==
  IF merged = Refused \/ ~Reaches(x, agent) THEN merged
  ELSE IF FallsBack(merged, base, x, agent) THEN Refused
  ELSE [merged EXCEPT ![agent] = Loosened(@, x)]

\* What the rules can become, over the orders the map can be walked in.
ApplyException(merged, base, x) ==
  {FoldLeft(LAMBDA m, agent : ApplyTo(m, base, x, agent), merged, walk) : walk \in SetToSeqs(Everyone)}
ApplyExceptions(merged, base, exs, at) ==
  FoldLeft(LAMBDA ms, x : IF InForce(x, at) THEN UNION {ApplyException(m, base, x) : m \in ms} ELSE ms,
           {merged}, exs)

-----------------------------------------------------------------------------
\* The document: agents carry what differs from the defaults, and a list that
\* is empty cannot be written.

Overrides(def, r) ==
  [mode  |-> IF r.mode = def.mode THEN "" ELSE r.mode,
   lists |-> [l \in {l \in Lists : ListOf(def, l) # ListOf(r, l)} |-> ListOf(r, l)]]
Written(r)     == [r EXCEPT !.lists = [l \in {l \in DOMAIN r.lists : r.lists[l] # {}} |-> r.lists[l]]]
SameRule(a, b) == a.mode = b.mode /\ \A l \in Lists : ListOf(a, l) = ListOf(b, l)

\* What the endpoint parses; refused when it is not valid or not what was merged.
Ship(merged) ==
  LET Parse(doc) == IF Valid(doc) /\ \A a \in Everyone : SameRule(RuleFor(doc, a), merged[a])
                    THEN doc ELSE Refused
  IN IF merged = Refused THEN Refused
     ELSE Parse([defaults |-> Written(merged[Defaults]),
                 agents   |-> [a \in Agents |-> Written(Overrides(merged[Defaults], merged[a]))]])

Merged(src, at) ==
  LET All(one) == IF \E a \in Everyone : one[a] = Refused THEN Refused ELSE one
  IN All([a \in Everyone |-> CompileAgent(RuleFor(src.base, a), src.policies, Subject(a), at).rule])

CompileWith(src, at) ==
  LET Excepted(merged) == IF merged = Refused THEN {Refused}
                          ELSE {Ship(m) : m \in ApplyExceptions(merged, src.base, src.exceptions, at)}
  IN Excepted(Merged(src, at))

Findings(src, at) ==
  Static(src.policies, at) \cup
  UNION {CompileAgent(RuleFor(src.base, a), src.policies, Subject(a), at).findings : a \in Everyone}

-----------------------------------------------------------------------------
\* Editing, publishing and fetching.  Bound: a draft is complete before it is
\* first published; what later edits do to a version is in PolicyChanges.

NoPolicy == [id |-> 1, priority |-> 1, enabled |-> TRUE, scope |-> Anyone, default |-> "", rules |-> <<>>]

CompilerInit ==
  /\ \E b \in Bases : draft = [base |-> b, policies |-> <<NoPolicy>>, exceptions |-> <<>>]
  /\ now = 1
  /\ latest = NoVersion /\ held = NoVersion

Edits == Len(draft.policies[1].rules) + Len(draft.exceptions)

AddRule(r) ==
  /\ latest = NoVersion
  /\ Edits < MaxEdits
  /\ draft' = [draft EXCEPT !.policies[1].rules = Append(@, [r EXCEPT !.id = Len(draft.policies[1].rules) + 1])]
  /\ UNCHANGED <<now, latest, held>>

AddException(x) ==
  /\ latest = NoVersion
  /\ Edits < MaxEdits
  /\ draft' = [draft EXCEPT !.exceptions = Append(@, x)]
  /\ UNCHANGED <<now, latest, held>>

\* publishCentral: a version the machine would refuse is not stored.
Publish ==
  /\ \E doc \in CompileWith(draft, now) \ {Refused} : latest' = [source |-> draft, at |-> now]
  /\ UNCHANGED <<draft, now, held>>

\* The machine's poll: compiledBody at the time the version was published.
Fetch ==
  /\ latest # NoVersion
  /\ \E doc \in CompileWith(latest.source, latest.at) \ {Refused} :
       held' = [source |-> latest.source, at |-> latest.at, policy |-> doc]
  /\ UNCHANGED <<draft, now, latest>>

\* expireExceptions: what is over is removed and the rest republished.
Unexpired(exs, at) ==
  FoldLeft(LAMBDA kept, x : IF x.until = 0 \/ at < x.until THEN Append(kept, x) ELSE kept, <<>>, exs)

DropExpired ==
  /\ latest # NoVersion
  /\ LET live == Unexpired(latest.source.exceptions, now)
         src  == [latest.source EXCEPT !.exceptions = live]
     IN /\ live # latest.source.exceptions
        /\ \E doc \in CompileWith(src, now) \ {Refused} : latest' = [source |-> src, at |-> now]
  /\ UNCHANGED <<draft, now, held>>

Tick == now < MaxNow /\ now' = now + 1 /\ UNCHANGED <<draft, latest, held>>

CompilerNext ==
  \/ \E r \in NewRules : AddRule(r)
  \/ \E x \in NewExceptions : AddException(x)
  \/ Publish \/ Fetch \/ DropExpired \/ Tick

CompilerSpec == CompilerInit /\ [][CompilerNext]_compilerVars

-----------------------------------------------------------------------------
\* Properties, about the policy the machine holds.

\* What a rule does to an action of agent a's in the kernel.
KernelVerdict(r, lifted, a) ==
  LET k == Kernel(r, lifted) IN
  CASE a.class = "exec"    -> Verdict(ExecSelectors(k), a.binary)
    [] a.class = "network" -> Verdict(NetSelectors(k, Loopback, Guard), a.host.ip)
    [] OTHER               -> Verdict(FileSelectors(k), CHOOSE f \in a.paths : TRUE)

Actions == {Exec(b) : b \in Programs} \cup {Open("file_read", f) : f \in Files}
           \cup {Open("file_write", f) : f \in Files} \cup {Connect(ip) : ip \in Addresses}

BaseRule(a)   == RuleFor(held.source.base, a)
HeldRule(a)   == RuleFor(held.policy, a)
Decision(a, x) == Evaluate(held.source.policies, Subject(a), x, held.at)
RuleOf(w)     == held.source.policies[1].rules[w.rule]

\* What the console simulates for a program and what the kernel does agree: a
\* program the base lets run is stopped exactly when the evaluator's winner is a
\* strict rule the kernel can carry; when no exception intervenes, in every mode,
\* for every agent and the defaults (compile.go: precedence is not re-implemented).
ProgramsAgree ==
  held # NoVersion /\ held.source.exceptions = <<>> =>
    \A a \in Everyone : \A b \in Programs :
      LET w == Decision(a, Exec(b)) IN
      KernelVerdict(BaseRule(a), FALSE, Exec(b)) = "pass" =>
        /\ KernelVerdict(HeldRule(a), FALSE, Exec(b)) # "pass" => Strict(w)
        /\ Strict(w) /\ b \in Atoms(RuleOf(w)) => KernelVerdict(HeldRule(a), FALSE, Exec(b)) # "pass"

\* The base policy is a floor: whatever the central rules say, nothing it stops
\* gets through, in a break-glass window or out of one (compile.go, floor).  Only
\* the programs an allowlist leaves out may run in a window, when a rule asks for
\* their approval.
BaseIsFloor ==
  held # NoVersion /\ held.source.exceptions = <<>> =>
    \A a \in Everyone, lifted \in BOOLEAN, x \in Actions :
      /\ KernelVerdict(BaseRule(a), lifted, x) = "blocked"
      /\ ~(lifted /\ x.class = "exec" /\ BaseRule(a).mode = "allowlist")
      => KernelVerdict(HeldRule(a), lifted, x) = "blocked"

\* Every fetch of a version gives the machine the same body, whatever order the
\* agents are walked in, and none is refused (central_policy.go: compilation is
\* deterministic; publishing already compiled it).
EveryFetchAlike ==
  LET Alike(bodies) == Refused \notin bodies /\ Cardinality(bodies) = 1
  IN latest # NoVersion => Alike(CompileWith(latest.source, latest.at))

\* An exception in force changes its list of the agents it names, or of everybody,
\* by exactly its value, and nothing else: no other agent's rule, not the defaults
\* when it names agents, no other list, and no list falls back to the defaults'
\* (exceptions.go, applyExceptions).
Lifted(list, entries, x, a) ==
  IF x.list # list \/ ~InForce(x, held.at) \/ (x.agents # {} /\ a \notin x.agents \ {Defaults}) THEN entries
  ELSE IF list = "exec_allow" THEN entries \cup {x.value} ELSE Without(entries, x)
ExceptionsExact ==
  held # NoVersion /\ Len(held.source.exceptions) = 1 =>
    LET before == Merged(held.source, held.at) IN
    \A a \in Everyone, list \in Lists :
      ListOf(HeldRule(a), list) = Lifted(list, ListOf(before[a], list), held.source.exceptions[1], a)

\* compile.go: whatever else a rule says is reported as a Finding, never dropped
\* silently: an address the evaluator refuses by a rule is refused in the kernel,
\* or the rule is reported.
NothingDropped ==
  held # NoVersion =>
    \A a \in Everyone, ip \in Addresses :
      LET w == Decision(a, Connect(ip)) IN
      Strict(w) /\ KernelVerdict(HeldRule(a), FALSE, Connect(ip)) = "pass" =>
        \E f \in Findings(held.source, held.at) : f.rule # NoRule

\* policy.go, KernelLifted: break-glass never lifts a deny.
BreakGlassKeepsDenies ==
  held # NoVersion =>
    \A a \in Everyone : \A b \in Programs :
      LET w == Decision(a, Exec(b)) IN
      w.rule # NoRule /\ w.decision = "deny" /\ b \in Atoms(RuleOf(w))
        => KernelVerdict(HeldRule(a), TRUE, Exec(b)) # "pass"
=============================================================================
