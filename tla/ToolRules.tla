------------------------------ MODULE ToolRules ------------------------------
(* What an agent's rule says of a tool call (internal/endpoint/hooks/claude.go;
   the environments and action lists of actions.go; policy.GatewayDeny and
   policy.KindCovers). The deny and approve lists of a rule:
     tool*, exec*, cmd*   names, programs, commands [words, star]
     file*, write*        paths [at, dir]: a suffix, or a directory anywhere
     host*                domains, addresses and networks
     pkg*, act*           package patterns, <<kind, environment>> ("" for any)
   and mode, execAllow, netAllow, fileAlert, envs, gateway. *)
EXTENDS CallFacts

CONSTANTS
  Within,    \* the hosts -> the domains or networks they are in, themselves included
  Address,   \* the hosts that are an IP address
  Loopback,  \* those that are the machine itself
  Dotted,    \* the file names and patterns that begin with a dot
  Builtins   \* what a shell runs itself, never judged as a program

ASSUME RulesAssumption == Loopback \subseteq Address

Enforcing(rule) == rule.mode \in {"denylist", "allowlist"}

-----------------------------------------------------------------------------
(* Files, hosts, programs. *)

\* A path is on a list: the file, anything in a listed directory, a directory
\* that holds a listed file, or a pattern that expands to one.
MatchSuffix(list, p) ==
  \E s \in list :
    \/ ~s.dir /\ IsSuffix(s.at, p)
    \/ s.dir /\ Says(p, s.at)
    \/ \E n \in 1..(Len(s.at) - 1) : IsSuffix(SubSeq(s.at, 1, n), p)
    \/ /\ ~s.dir /\ p # <<>> /\ Last(p) \in DOMAIN Wild
       /\ IsSuffix(Front(s.at), Front(p))
       /\ Last(s.at) \in Wild[Last(p)]
       /\ Last(s.at) \in Dotted => Last(p) \in Dotted

\* A finding is [hit, alert].
None == [hit |-> FALSE, alert |-> FALSE]
Hit  == [hit |-> TRUE, alert |-> FALSE]
Found(cond) == [hit |-> cond, alert |-> FALSE]

\* The first finding that denies; an alert counts when nothing does.
First(findings) == [hit |-> \E f \in findings : f.hit, alert |-> \E f \in findings : f.alert]

CheckPath(rule, p) ==
  LET on(list) == MatchSuffix(list, p) IN [hit |-> on(rule.fileDeny), alert |-> ~on(rule.fileDeny) /\ on(rule.fileAlert)]

Around(h) == IF h \in DOMAIN Within THEN Within[h] ELSE {h}
CheckHost(rule, h) ==
  LET Listed(in) == \/ in \cap rule.hostDeny # {}
                    \/ h \in Address \ Loopback /\ rule.netAllow # {} /\ in \cap rule.netAllow = {}
  IN Found(h # "" /\ Listed(Around(h)))

CheckProgram(rule, prog) ==
  LET name == ProgName(prog) IN
  Found(\/ \E d \in rule.execDeny : ProgName(d) = name
        \/ /\ rule.mode = "allowlist" /\ name \notin Builtins
           /\ \A a \in rule.execAllow : ProgName(a) # name)

\* A word, and what follows the = in it, as a path and as a host.
CheckWord(rule, w, cwd) ==
  LET cands == NotEmpty(w) \cup (IF w \in DOMAIN Joined THEN NotEmpty(Joined[w][2]) ELSE IF w \in DOMAIN Assigned THEN NotEmpty(Assigned[w][2]) ELSE {})
  IN First(UNION {{CheckPath(rule, Resolve(c, cwd)), CheckHost(rule, HostOf(c))} : c \in cands})

CheckCmd(rule, u, redirects, cwd) ==
  LET words == Texts(u.args)
      progs == {w \in ToWords(u.wrappers) : ProgName(w) \notin Builtins} \cup ToWords(FirstN(words, 1))
  IN First({CheckProgram(rule, w) : w \in progs} \cup {CheckWord(rule, w, cwd) : w \in ToWords(Rest(words)) \cup ToWords(redirects)})
CheckCmds(rule, cmds, cwd) ==
  First({CheckCmd(rule, Unwrap(cmds[i].args, <<>>), cmds[i].redirects, cwd) : i \in DOMAIN cmds})

MatchCommand(list, cmds) ==
  LET Is(p, cmd) == IF p.star THEN IsPrefix(p.words, cmd) ELSE p.words = cmd
      Listed(args) == args # <<>> /\ \E p \in list : Is(p, <<NameOf(args)>> \o Texts(Tail(args)))
  IN \E i \in DOMAIN cmds : Listed(Program(cmds[i].args))

-----------------------------------------------------------------------------
(* Actions. *)

\* The environments of the target an action has.
EnvsOf(envs, attrs) ==
  LET Has(e, a) ==
        \/ \E p \in e.pairs : p[1] = (IF a[1] = "azure_subscription_name" THEN "azure_subscription" ELSE a[1]) /\ Matches(p[2], a[2])
        \/ a[1] \in {"db_host", "host"} /\ (MatchesAny(e.hosts, a[2]) \/ Around(a[2]) \cap e.hosts # {})
        \/ e.unknown /\ a = <<"target", "unknown">>
  IN {n \in DOMAIN envs : \E a \in attrs : Has(envs[n], a)}

Implied == [sql_write |-> {"destructive_sql"}, cloud_change |-> {"cloud_destroy"},
            access |-> {"cloud_change", "cloud_destroy", "sql_write", "destructive_sql"}]
KindCovers(kind, action) == kind = action \/ (kind \in DOMAIN Implied /\ action \in Implied[kind])

\* A SQL file that could not be read may hold anything.
KindMatches(kind, a) ==
  \/ KindCovers(kind, a.kind)
  \/ kind = "destructive_sql" /\ a.kind = "sql_write" /\ <<"unread", "true">> \in a.attrs

MatchActions(rule, list, acts) ==
  \E e \in list, a \in acts : KindMatches(e[1], a) /\ (e[2] = "" \/ e[2] \in EnvsOf(rule.envs, a.attrs))

\* actions_deny as require_gateway makes it.
GatewayDeny(rule) ==
  IF rule.gateway /\ ~ListsName(rule, {"model_endpoint"}) THEN rule.actDeny \cup {<<"model_endpoint", "">>} ELSE rule.actDeny

-----------------------------------------------------------------------------
(* One call. f is what Classify says of it. *)

CheckLists(rule, f, commands, writes, pkgs, acts) ==
  \/ MatchCommand(commands, f.cmds)
  \/ \E p \in f.writes : MatchSuffix(writes, p)
  \/ \E p \in f.pkgs, e \in pkgs : PkgMatch(e, p)
  \/ MatchActions(rule, acts, f.acts)

PathTools == {"Read", "Write", "Edit", "MultiEdit", "NotebookEdit", "NotebookRead", "Grep", "Glob", "LS"}

\* What the call names: programs, files, hosts.
CheckNamed(rule, call, cmds) ==
  CASE call.tool = "Bash" -> CheckCmds(rule, cmds, call.cwd)
    [] call.tool \in PathTools -> First({CheckPath(rule, Resolve(p, call.cwd)) : p \in ToWords(call.paths)})
    [] call.tool = "WebFetch" -> CheckHost(rule, call.host)
    [] OTHER -> None

\* The approval lists are read by the same matchers, as a rule that denies.
ApprovalView(rule) ==
  [rule EXCEPT !.mode = "denylist", !.execDeny = rule.execApprove, !.fileDeny = rule.fileApprove, !.hostDeny = rule.hostApprove,
               !.fileAlert = {}, !.netAllow = {}]

NeedsApproval(rule) ==
  \/ rule.execApprove # {} \/ rule.fileApprove # {} \/ rule.hostApprove # {} \/ rule.cmdApprove # {} \/ rule.toolApprove # {}
  \/ rule.actApprove # {} \/ rule.writeApprove # {} \/ rule.pkgApprove # {}

CheckApproval(rule, call, cmds) ==
  /\ NeedsApproval(rule)
  /\ \/ MatchesAny(rule.toolApprove, call.full)
     \/ call.tool = "Bash" /\ MatchCommand(rule.cmdApprove, cmds)
     \/ CheckNamed(ApprovalView(rule), call, cmds).hit

\* What the call is answered: deny, approve (an approver is asked), would (only
\* reported), alert (a file that is watched) or allow.
Verdicts == <<"allow", "alert", "would", "approve", "deny">>
RankOf(verdict) == CHOOSE i \in DOMAIN Verdicts : Verdicts[i] = verdict

\* What the lists say: f is what Classify says of the call.
NamedBy(rule, call, f) == IF MatchesAny(rule.toolDeny, call.full) THEN Hit ELSE CheckNamed(rule, call, f.cmds)
OnDeny(rule, f) == CheckLists(rule, f, rule.cmdDeny, rule.writeDeny, rule.pkgDeny, GatewayDeny(rule))
OnApprove(rule, call, f) ==
  CheckApproval(rule, call, f.cmds) \/ CheckLists(rule, f, {}, rule.writeApprove, rule.pkgApprove, rule.actApprove)

\* Mutant: the approval lists are read first.
AnswerOf_AskFirst(rule, named, listed, asked) ==
  LET denied == named.hit \/ listed
  IN CASE asked /\ Enforcing(rule) -> "approve"
       [] denied /\ ~asked /\ Enforcing(rule) -> "deny"
       [] (denied \/ asked) /\ ~Enforcing(rule) -> "would"
       [] ~denied /\ ~asked /\ named.alert -> "alert"
       [] OTHER -> "allow"

AnswerOf(rule, named, listed, asked) ==
  LET denied == named.hit \/ listed
  IN CASE denied /\ Enforcing(rule) -> "deny"
       [] ~denied /\ asked /\ Enforcing(rule) -> "approve"
       [] (denied \/ asked) /\ ~Enforcing(rule) -> "would"
       [] ~denied /\ ~asked /\ named.alert -> "alert"
       [] OTHER -> "allow"

Evaluate(rule, call, f) == AnswerOf(rule, NamedBy(rule, call, f), OnDeny(rule, f), OnApprove(rule, call, f))

\* A decision: the verdict, the actions and what the session sees.
Decision(f, verdict) == [verdict |-> verdict, acts |-> f.acts, seen |-> [f.seen EXCEPT !.secret = @ \/ verdict = "alert"]]
DecisionOn(rule, call, f) == Decision(f, Evaluate(rule, call, f))
EvaluateClaude(x, call) ==
  DecisionOn(x.rule, call, Classify(x, call))

\* A call in several parts: the most severe verdict, all that was seen.
EvaluateCall(x, calls) ==
  LET Worst(ds) == CHOOSE i \in DOMAIN ds : \A j \in DOMAIN ds : RankOf(ds[j].verdict) <= RankOf(ds[i].verdict)
      Together(ds) ==
        [verdict |-> ds[Worst(ds)].verdict,
         acts |-> UNION {ds[i].acts : i \in DOMAIN ds},
         seen |-> [hosts |-> FlattenSeq([i \in DOMAIN ds |-> ds[i].seen.hosts]),
                   untrusted |-> \E i \in DOMAIN ds : ds[i].seen.untrusted,
                   secret |-> \E i \in DOMAIN ds : ds[i].seen.secret]]
  IN Together([i \in DOMAIN calls |-> EvaluateClaude([x EXCEPT !.cwd = calls[i].cwd], calls[i])])
=============================================================================
