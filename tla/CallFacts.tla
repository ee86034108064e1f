------------------------------ MODULE CallFacts ------------------------------
(* What one tool call does (internal/endpoint/hooks: classify in actions.go,
   bashact.go, env.go, mcppin.go, the observe part of session.go).

   A call in the canonical form every agent's call is brought into is
     [tool, line, paths, host, server, name, texts]
   tool: "Bash" (line), a path tool (paths), "WebFetch" (host), "WebSearch" or
   "mcp" (server, name and the SQL texts of its input).
   The context of a call is x: x.rule, x.cwd, x.env (what the agent's
   environment forwards), x.agent, x.via (the model gateway carried the session)
   and x.hist, what the session did before: [known, secret, untrusted, hosts]. *)
EXTENDS ShellReading, GitReading, SqlReading, PackageReading

CONSTANTS
  HostIn,     \* the words that name a host -> the host
  Secrets,    \* the names of variables that read like a secret
  ModelHost,  \* values of the agents' base URLs -> the hosts they name
  AtGateway,  \* the base URLs that name the machine's model gateway and a provider of the agent
  MCPFile     \* MCP config files by path -> [top, proj]: fingerprints by server, and by project directory

HostOf(w) == Given(HostIn, w)
NoFacts == [acts |-> {}, pkgs |-> {}, writes |-> {}]
Join(a, b) == [acts |-> a.acts \cup b.acts, pkgs |-> a.pkgs \cup b.pkgs, writes |-> a.writes \cup b.writes]
OnlyActs(acts) == [NoFacts EXCEPT !.acts = acts]
FromReading(r) == [NoFacts EXCEPT !.acts = r.acts, !.pkgs = r.pkgs]

-----------------------------------------------------------------------------
(* Paths. *)

GuardedPath(p) ==
  \/ \E d \in {<<".github", "workflows">>, <<".circleci">>, <<".husky">>, <<".git", "hooks">>, <<".claude", "hooks">>} : Says(p, d)
  \/ \E d \in {<<"etc", "cron.d">>, <<"etc", "systemd">>, <<"etc", "sudoers">>} : IsPrefix(d, p)
  \/ p # <<>> /\ Last(p) \in {"CODEOWNERS", "Jenkinsfile", ".gitlab-ci.yml", ".bashrc", ".zshrc", ".profile", ".npmrc"}
  \/ \E f \in {<<".git", "config">>, <<".claude", "settings.json">>, <<".codex", "config.toml">>, <<".mcp.json">>} : IsSuffix(f, p)

CredentialFile(p) ==
  \/ \E f \in {<<".aws", "credentials">>, <<".kube", "config">>, <<".azure">>, <<".npmrc">>, <<".netrc">>, <<"etc", "shadow">>} : Says(p, f)
  \/ p # <<>> /\ Last(p) \in {".env", ".env.local", "server.pem", "server.key"}
  \/ Len(p) > 1 /\ SubSeq(p, Len(p) - 1, Len(p)) \in {<<".ssh", "id_rsa">>, <<".ssh", "id_*">>}

CredentialPath(p) == When(CredentialFile(p), {Act("credential_read", p, {})})
WritePath(p) ==
  IF p # <<>> /\ p[1] = "dev" THEN NoFacts
  ELSE [NoFacts EXCEPT !.writes = {p}, !.acts = When(GuardedPath(p), {Act("guardrail_edit", p, {})})]

\* Build output and temporary directories.
Scratch(p) ==
  \/ Len(p) > 1 /\ p[1] = "tmp"
  \/ p # <<>> /\ Last(p) \in {"node_modules", "dist", "build", "out", "target", "tmp", "venv", ".cache"}

HostAccess(rule, h) ==
  When(h \notin {"", "localhost"} /\ \E n \in DOMAIN rule.envs : MatchesAny(rule.envs[n].hosts, h), {Act("access", <<h>>, {<<"host", h>>})})

-----------------------------------------------------------------------------
(* One simple command: args[1] is the program. *)

RECURSIVE SkipOptions(_, _)
SkipOptions(args, valued) ==
  IF args = <<>> \/ Head(args) \notin Dashed THEN args
  ELSE SkipOptions(IF Head(args) \in valued THEN Rest(Tail(args)) ELSE Tail(args), valued)

\* The command `docker exec [options] container command...` runs, <<>> if none.
ContainerExec(args) ==
  LET Valued == {"-e", "--env", "-u", "--user", "-w", "--workdir", "--name", "-v", "--entrypoint", "-p", "--network"}
      Inner(sub) == IF Word(sub, 1) \in {"exec", "run"} THEN Rest(SkipOptions(Rest(sub), Valued)) ELSE <<>>
  IN Inner(IF Word(args, 1) = "compose" THEN SkipOptions(Tail(args), {"-f", "--file", "-p", "--project-name"}) ELSE args)

CredentialCommands ==
  {<<"gh", "auth", "token">>, <<"aws", "configure", "get">>, <<"aws", "sts", "assume-role">>, <<"gcloud", "auth", "print-access-token">>,
   <<"az", "account", "get-access-token">>, <<"vault", "read">>, <<"git", "credential", "fill">>, <<"docker-credential-osxkeychain", "get">>}

\* Commands that print a token, a secret store or the environment.
CredentialCommand(prog, rest) ==
  LET whole == (prog = "printenv" /\ rest = <<>>) \/ (prog = "set" /\ rest = <<>>) \/ (prog = "declare" /\ HasFlag(rest, {"-x", "-p"}))
      one   == prog = "printenv" /\ Word(rest, 1) \in Secrets
  IN When(whole \/ one \/ \E phrase \in CredentialCommands : IsPrefix(phrase, <<prog>> \o rest), {Act("credential_read", <<prog>> \o FirstN(rest, 2), {})})

\* Recursive deletes. A target with an unknown variable claims nothing.
Destroy(prog, rest, env, x) ==
  LET pos == Positional(rest, {})
      Risky == {t \in {ExpandVars(w, env, x.env) : w \in ToWords(pos)} : t.ok /\ ~Scratch(Resolve(t.text, x.cwd))}
      Finds == When((HasFlag(rest, {"-delete"}) \/ {"-exec", "rm"} \subseteq ToWords(rest)) /\ pos # <<>> /\ ~Scratch(Resolve(pos[1], <<>>)),
                    {Act("fs_destroy", <<"find", pos[1]>>, {})})
      Removes(risky) == When((HasFlag(rest, {"--recursive"}) \/ ShortFlag(rest, {"r", "R"})) /\ risky # {},
                             {Act("fs_destroy", <<"rm", (CHOOSE t \in risky : TRUE).text>>, {})})
  IN IF prog = "find" THEN Finds ELSE Removes(Risky)

\* The words of the program piped into command i, its name without a path.
PipedFrom(cmds, i) ==
  LET Source(src) == IF src = <<>> THEN <<>> ELSE <<ProgName(src[1])>> \o Tail(src)
      At(j) == IF j \in DOMAIN cmds THEN Source(Texts(Program(cmds[j].args))) ELSE <<>>
  IN At(cmds[i].pipeFrom)

ByProgram(x, prog, rest, env, fed) ==
  CASE prog = "git" -> Git(x.rule, rest, x.cwd)
    [] prog = "gh" -> Gh(rest)
    [] prog \in CloudCLIs -> Cloud(prog, rest, env, x)
    [] prog \in DOMAIN SqlClient -> Sql(prog, fed, env, x)
    [] prog \in {"rm", "find"} -> Destroy(prog, rest, env, x)
    [] prog = "crontab" -> When(~HasFlag(rest, {"-l"}), {Act("guardrail_edit", <<prog>>, {})})
    [] prog = "launchctl" -> When(Word(rest, 1) \in {"load", "bootstrap", "enable", "submit"}, {Act("guardrail_edit", <<prog>>, {})})
    [] prog = "systemctl" -> When(Word(Positional(rest, {}), 1) \in {"enable", "link", "edit"}, {Act("guardrail_edit", <<prog>>, {})})
    [] OTHER -> {}

\* What a program does: its own reading, the packages it installs, what any
\* program may be.
ProgramFacts(x, prog, rest, env, fed) ==
  LET bypass == prog = "git" /\ (Given(env, "HUSKY") = "0" \/ Given(env, "SKIP_HOOKS") # "" \/ Given(env, "SKIP") # "")
  IN Join(FromReading(Packages(x.rule, prog, rest, env, x)),
          OnlyActs(ByProgram(x, prog, rest, env, fed) \cup Migration(<<prog>> \o rest, env, x) \cup CredentialCommand(prog, rest)
                   \cup When(bypass, {Act("hook_bypass", <<"environment">>, {})})))

RECURSIVE Command(_, _, _, _, _)
Command(x, cmds, i, args, env) ==
  LET prog == ProgName(args[1])
      rest == Tail(args)
      Contained(inner) == IF inner = <<>> THEN NoFacts ELSE Command(x, cmds, i, inner, env)
  IN Join(ProgramFacts(x, prog, rest, env, [args |-> args, stdin |-> cmds[i].stdin, inputs |-> cmds[i].inputs, source |-> PipedFrom(cmds, i)]),
          Contained(IF prog \in {"docker", "podman"} THEN ContainerExec(rest) ELSE <<>>))

\* The files a command writes: output redirects, and the targets of the
\* programs that write.
WriteTargets(c, prog, rest) ==
  LET Valued == {"-t", "--target-directory", "-e", "-m", "--mode", "-o", "-O", "--output", "-S", "--suffix"}
      \* a word that is also an input was redirected in once
      out == {r \in ToWords(c.redirects) :
                Cardinality({j \in DOMAIN c.redirects : c.redirects[j] = r}) > Cardinality({j \in DOMAIN c.inputs : c.inputs[j] = r})}
      To(pos, dir) ==
        CASE prog \in {"tee", "mv", "rm", "rmdir", "unlink", "shred", "truncate", "touch", "chmod", "chown", "mkdir"} -> ToWords(pos)
          [] prog \in {"cp", "ln", "install", "rsync", "scp"} -> IF dir # "" THEN {dir} ELSE When(Len(pos) > 1, {Last(pos)})
          [] prog \in {"sed", "perl"} -> When(ShortFlag(rest, {"i"}) \/ HasFlag(rest, {"--in-place"}), ToWords(pos))
          [] prog = "curl" -> NotEmpty(FlagValue(rest, {"-o", "--output"}))
          [] prog = "wget" -> NotEmpty(FlagValue(rest, {"-O", "--output-document"}))
          [] prog = "dd" -> {Assigned[w][2] : w \in {w \in ToWords(rest) \cap DOMAIN Assigned : Assigned[w][1] = "of"}}
          [] OTHER -> {}
  IN out \cup To(Positional(rest, Valued), FlagValue(rest, {"-t", "--target-directory"}))

\* The paths a command reads and writes, the hosts it names.
Files(x, c, prog, rest) ==
  LET Value(w) == IF w \in Dashed THEN IF w \in DOMAIN Joined THEN Joined[w][2] ELSE "" ELSE w
      Reaches(w) == CredentialPath(Resolve(w, x.cwd)) \cup When(w \notin DOMAIN Assigned, HostAccess(x.rule, HostOf(w)))
      secrets == {w \in ToWords(rest) \cap DOMAIN Var : Var[w] \in Secrets}
      Of(words, writes) ==
        [acts |-> UNION {Reaches(w) : w \in words} \cup {Act("credential_read", <<w>>, {}) : w \in secrets} \cup UNION {f.acts : f \in writes},
         pkgs |-> {}, writes |-> UNION {f.writes : f \in writes}]
  IN Of({Value(w) : w \in ToWords(rest) \cup ToWords(c.inputs)} \ {""},
        {WritePath(Resolve(w, x.cwd)) : w \in WriteTargets(c, prog, rest)})

-----------------------------------------------------------------------------
(* A command line. *)

Interpreters == {"sh", "bash", "python", "python3", "node", "perl", "ruby"}
Downloaders == {"curl", "wget", "http", "aria2c"}

\* A downloaded script run straight away: piped into an interpreter without a
\* script of its own, or substituted into the string of a shell.
RemoteScripts(cmds) ==
  LET Reads(p) == p # <<>> /\ ProgName(p[1].t) \in Interpreters /\ Positional(Tail(Texts(p)), {}) = <<>>
      Subst(p) == /\ Len(p) > 1 /\ ProgName(p[1].t) \in Shells /\ HasDashC(p)
                  /\ \E w \in ToSet(Tail(p)) : w.k = "word" /\ \E s \in ToSet(w.subs) : s # <<>> /\ s[1].k = "word" /\ s[1].t \in {"curl", "wget"}
      Runs(p, i) == Subst(p) \/ (Reads(p) /\ Word(PipedFrom(cmds, i), 1) \in Downloaders)
  IN When(\E i \in DOMAIN cmds : Runs(Program(cmds[i].args), i), {Act("remote_script", <<>>, {})})

\* The assignments among some words, over those before them.
WithAssigned(ws, vars) ==
  FoldLeft(LAMBDA e, w : IF w \in DOMAIN Assigned THEN (Assigned[w][1] :> Assigned[w][2]) @@ e ELSE e, vars, ws)

\* Command i, its wrappers stripped off, after those before it.
ReadCommand(x, cmds, i, u, st) ==
  LET args == Texts(u.args)
      env  == WithAssigned(FirstN(Texts(cmds[i].args), Len(cmds[i].args) - Len(args)), st.vars)
      prog == NameOf(u.args)
      Dumps(what) == [st EXCEPT !.facts = Join(@, OnlyActs({Act("credential_read", <<what>>, {})}))]
  IN CASE args = <<>> /\ u.wrappers = <<>> -> [st EXCEPT !.vars = env]
       [] args = <<>> /\ u.wrappers # <<>> -> IF ProgName(Last(u.wrappers)) = "env" THEN Dumps("env") ELSE st
       [] prog = "export" -> [(IF Len(args) = 1 \/ Word(args, 2) = "-p" THEN Dumps("export") ELSE st)
                                EXCEPT !.vars = WithAssigned(Tail(args), @)]
       [] OTHER -> [st EXCEPT !.facts = Join(@, Join(Command(x, cmds, i, args, env), Files(x, cmds[i], prog, Rest(args))))]

Bash(x, cmds) ==
  Join(OnlyActs(RemoteScripts(cmds)),
       FoldLeft(LAMBDA st, i : ReadCommand(x, cmds, i, Unwrap(cmds[i].args, <<>>), st),
                [vars |-> <<>>, facts |-> NoFacts], [i \in DOMAIN cmds |-> i]).facts)

-----------------------------------------------------------------------------
(* MCP servers and the model the agent talks to. *)

\* The MCP configs an agent applies, first one first: fingerprints by server.
\* An administrator's file for Claude Code excludes the others.
MCPScopes(x) ==
  LET Top(p) == IF p \in DOMAIN MCPFile THEN MCPFile[p].top ELSE <<>>
      Up(name) == Append(FindUp(x.cwd, {Front(p) : p \in {p \in DOMAIN MCPFile : Last(p) = name}}), name)
      User == <<"home", "dev">>
      Project(proj) == LET In(dir) == IF dir \in DOMAIN proj THEN proj[dir] ELSE <<>> IN In(FindUp(x.cwd, DOMAIN proj))
      Claude(managed) ==
        IF DOMAIN managed # {} THEN <<managed>>
        ELSE <<IF Append(User, ".claude.json") \in DOMAIN MCPFile THEN Project(MCPFile[Append(User, ".claude.json")].proj) ELSE <<>>,
               Top(Up(".mcp.json")), Top(Append(User, ".claude.json"))>>
  IN CASE x.agent = "codex" -> <<Top(Up(".codex")), Top(Append(User, ".codex"))>>
       [] x.agent = "gemini-cli" -> <<Top(<<"etc", ".gemini">>), Top(Up(".gemini")), Top(Append(User, ".gemini"))>>
       [] x.agent = "cursor-agent" -> <<Top(Up(".cursor")), Top(Append(User, ".cursor"))>>
       [] OTHER -> Claude(Top(<<"etc", "managed-mcp.json">>))

\* A pinned server must be defined as one of its pins says.
MCPPin(x, server) ==
  LET Defined(scopes) == FirstGiven([i \in DOMAIN scopes |-> Given(scopes[i], server)])
  IN When(server \in DOMAIN x.rule.pins /\ Defined(MCPScopes(x)) \notin x.rule.pins[server] \ {""},
          {Act("mcp_changed", <<server>>, {<<"mcp_server", server>>})})

MCP(x, call) ==
  LET named == \E n \in DOMAIN x.rule.envs : \E p \in x.rule.envs[n].pairs : p[1] = "mcp_server" /\ Matches(p[2], call.server)
      Or(db) == IF db # {} THEN db ELSE When(named, {Act("access", <<call.name>>, {<<"mcp_server", call.server>>})})
  IN When(x.rule.mcpAllow # {} /\ ~MatchesAny(x.rule.mcpAllow, call.server), {Act("mcp_unlisted", <<call.server>>, {})})
     \cup MCPPin(x, call.server)
     \cup Or(MCPDatabase(call.server, call.name, call.texts))

Family(agent) == IF agent = "claude-code" THEN "claude" ELSE IF agent = "gemini-cli" THEN "gemini" ELSE agent

\* The hosts the agent's environment points its model calls at.
ModelHosts(agent, env) ==
  LET At(v, default) == IF v = "" THEN {default} ELSE {IF v \in DOMAIN ModelHost THEN ModelHost[v] ELSE v}
      Base(names, default) == At(FirstGiven([i \in DOMAIN names |-> Given(env, names[i])]), default)
  IN CASE Family(agent) = "claude" /\ Truthy(Given(env, "CLAUDE_CODE_USE_BEDROCK")) -> Base(<<"ANTHROPIC_BEDROCK_BASE_URL">>, "bedrock")
       [] Family(agent) = "claude" /\ ~Truthy(Given(env, "CLAUDE_CODE_USE_BEDROCK")) -> Base(<<"ANTHROPIC_BASE_URL">>, "api.anthropic.com")
       [] Family(agent) = "codex" -> Base(<<"OPENAI_BASE_URL", "OPENAI_API_BASE">>, "api.openai.com")
       [] Family(agent) = "gemini" -> Base(<<"GOOGLE_GEMINI_BASE_URL", "GEMINI_API_BASE_URL">>, "generativelanguage")
       [] OTHER -> {}

OnGateway(agent, env) ==
  LET var == CASE Family(agent) = "claude" -> "ANTHROPIC_BASE_URL" [] Family(agent) = "gemini" -> "GOOGLE_GEMINI_BASE_URL" [] OTHER -> ""
  IN Given(env, var) \in AtGateway /\ ~(Family(agent) = "claude" /\ Truthy(Given(env, "CLAUDE_CODE_USE_BEDROCK")))

ModelKeys == [claude |-> {"ANTHROPIC_API_KEY", "ANTHROPIC_AUTH_TOKEN"}, codex |-> {"OPENAI_API_KEY", "CODEX_API_KEY"}, gemini |-> {"GEMINI_API_KEY", "GOOGLE_API_KEY"}]

\* Whether an actions list names one of the kinds.
ListsName(rule, kinds) == \E e \in rule.actDeny \cup rule.actApprove : e[1] \in kinds

Model(x) ==
  LET around == x.rule.gateway /\ Family(x.agent) \in DOMAIN ModelKeys /\ ~x.via /\ ~OnGateway(x.agent, x.env)
      foreign == {h \in ModelHosts(x.agent, x.env) : ~MatchesAny(x.rule.modelAllow, h)}
      keys == {k \in IF Family(x.agent) \in DOMAIN ModelKeys THEN ModelKeys[Family(x.agent)] ELSE {} : Given(x.env, k) # ""}
  IN When(around, {Act("model_endpoint", <<"around">>, {})})
     \cup When(x.rule.modelAllow # {} /\ ListsName(x.rule, {"model_endpoint"}) /\ ~x.rule.gateway, {Act("model_endpoint", <<h>>, {}) : h \in foreign})
     \cup When(ListsName(x.rule, {"model_api_key"}), {Act("model_api_key", <<k>>, {}) : k \in keys})

-----------------------------------------------------------------------------
(* What the call adds to its session, and the sequences it completes. *)

RiskyKinds == {"fs_destroy", "destructive_sql", "cloud_destroy", "force_push", "guardrail_edit", "remote_script", "credential_read"}
NetPrograms == Downloaders \cup {"nc", "ssh", "scp", "sftp", "rsync", "git"}
NetHost(w) == IF HostOf(w) = "localhost" THEN "" ELSE HostOf(w)

\* The hosts a network program names, in order.
HostsOf(cmd) ==
  LET Contacts(p, prog) == prog \in NetPrograms /\ (prog = "git" => ToWords(p) \cap {"push", "fetch", "pull", "clone", "ls-remote"} # {})
      In(p) == IF Contacts(p, ProgName(Word(p, 1))) THEN SelectSeq([i \in DOMAIN Tail(p) |-> NetHost(p[i + 1])], LAMBDA h : h # "") ELSE <<>>
  IN In(Texts(Program(cmd.args)))
Fetches(cmd) == NameOf(Program(cmd.args)) \in Downloaders /\ HostsOf(cmd) # <<>>

Seen(x, call, cmds, acts) ==
  [hosts |-> CASE call.tool = "Bash" -> FlattenSeq([i \in DOMAIN cmds |-> HostsOf(cmds[i])])
               [] call.tool = "WebFetch" -> SelectSeq(<<NetHost(call.host)>>, LAMBDA h : h # "")
               [] OTHER -> <<>>,
   untrusted |-> CASE call.tool = "Bash" -> \E i \in DOMAIN cmds : Fetches(cmds[i])
                   [] call.tool = "WebFetch" -> NetHost(call.host) # ""
                   [] call.tool = "WebSearch" -> TRUE
                   [] call.tool = "mcp" -> ~MatchesAny(x.rule.mcpAllow, call.server)
                   [] OTHER -> FALSE,
   secret |-> \E a \in acts : a.kind = "credential_read"]

\* x.hist is [known, secret, untrusted, hosts]; known FALSE without a session.
\* The first new host is reported, and the first risky action (any of them
\* here: their order is not kept).
Sequences(x, seen, acts) ==
  LET Exfil(new) == When(new # <<>>, {Act("exfil_sequence", FirstN(new, 1), {<<"host", Word(new, 1)>>})})
      After(a) == Act("untrusted_then_risky", <<a.kind>>, a.attrs)
      Untrusted(risky) == When(risky # {}, {After(CHOOSE a \in risky : TRUE)})
  IN When(x.hist.known /\ (x.hist.secret \/ seen.secret), Exfil(SelectSeq(seen.hosts, LAMBDA h : h \notin x.hist.hosts)))
     \cup When(x.hist.known /\ x.hist.untrusted, Untrusted({a \in acts : a.kind \in RiskyKinds}))

\* What the call itself does; cmds are its commands.
CallDoes(x, call, cmds) ==
  LET paths  == {Resolve(w, x.cwd) : w \in ToWords(call.paths)}
      writes == {WritePath(p) : p \in paths}
  IN CASE call.tool = "Bash" -> Bash(x, cmds)
       [] call.tool \in {"Write", "Edit"} -> [NoFacts EXCEPT !.acts = UNION {f.acts : f \in writes}, !.writes = UNION {f.writes : f \in writes}]
       [] call.tool = "Read" -> OnlyActs(UNION {CredentialPath(p) : p \in paths})
       [] call.tool = "WebFetch" -> OnlyActs(HostAccess(x.rule, call.host))
       [] call.tool = "mcp" -> OnlyActs(MCP(x, call))
       [] OTHER -> NoFacts

\* With what the model, the package lists and the session say of it.
WithModel(x, own) ==
  Join(own, OnlyActs(Model(x) \cup LookupPackages(x.rule, ListsName(x.rule, {"package_malicious", "package_vulnerable"}), own.pkgs)))
WithSession(x, own, seen, cmds) ==
  [acts |-> own.acts \cup Sequences(x, seen, own.acts), writes |-> own.writes, pkgs |-> own.pkgs, cmds |-> cmds, seen |-> seen]
Observe(x, call, cmds, own) == WithSession(x, own, Seen(x, call, cmds, own.acts), cmds)
ClassifyCommands(x, call, cmds) == Observe(x, call, cmds, WithModel(x, CallDoes(x, call, cmds)))

Classify(x, call) == ClassifyCommands(x, call, IF call.tool = "Bash" THEN Judged(call.line) ELSE <<>>)
=============================================================================
