--------------------------- MODULE PackageReading ---------------------------
(* What the hook says a package manager's command installs, from where, and
   whether install scripts run (internal/endpoint/hooks/packages.go).

   A reading is [acts, pkgs]: actions, and the packages as [eco, name, version,
   manifest], from a manifest or named on the command line. *)
EXTENDS CloudReading

CONSTANTS
  Versioned,         \* package words with a version -> <<name, exact version>>
  SourceSpec,   \* the package words that name a URL, a repository or a path
  PackageJson,  \* directories with a package.json -> its dependencies
  Requirements, \* requirements files by path -> their lines
  Malicious, Vulnerable  \* what OSV knows: sets of <<eco, name>>

Pkg(eco, name, version, manifest) == [eco |-> eco, name |-> name, version |-> version, manifest |-> manifest]
VersionOf(w) == IF w \in DOMAIN Versioned THEN Versioned[w] ELSE <<w, "">>
NoReading == [acts |-> {}, pkgs |-> {}]
Both(a, b) == [acts |-> a.acts \cup b.acts, pkgs |-> a.pkgs \cup b.pkgs]
Readings(set) == [acts |-> UNION {r.acts : r \in set}, pkgs |-> UNION {r.pkgs : r \in set}]
Named(eco, words) ==
  LET Installs(pkgs) == [acts |-> {Act("package_install", <<p.eco, p.name, p.version>>, {}) : p \in pkgs}, pkgs |-> pkgs]
  IN Installs({Pkg(eco, VersionOf(w)[1], VersionOf(w)[2], "") : w \in ToWords(words)})

\* An install source the policy does not list.
Registry(rule, url) == When(url # "" /\ url \notin rule.registries, {Act("package_registry", <<url>>, {})})
From(words) == {Act("package_registry", <<w>>, {}) : w \in ToWords(words) \cap SourceSpec}
Plain(words) == SelectSeq(words, LAMBDA w : w \notin SourceSpec)
Truthy(v) == v \in {"true", "1", "yes"}

-----------------------------------------------------------------------------
NpmValued == {"--registry", "--prefix", "-C", "--dir", "--cwd", "--filter", "-w", "--workspace", "--tag", "-p", "--package", "-c", "--call"}

\* The packages of package.json, with the versions the lockfile pins. A
\* dependency is [name, spec, version]; workspaces and local paths are not fetched.
NpmManifest(x) ==
  LET Of(deps) ==
        [acts |-> {Act("package_registry", <<d.name, d.spec>>, {}) : d \in {d \in deps : d.spec \in SourceSpec}},
         pkgs |-> {Pkg("npm", d.name, d.version, "package.json") : d \in {d \in deps : d.spec \notin SourceSpec \cup {"workspace:", "file:"}}}]
      In(dir) == IF dir = <<"/">> THEN NoReading ELSE Of(PackageJson[dir])
  IN In(FindUp(x.cwd, DOMAIN PackageJson))

\* What an npm-family command is about: [sub, names].
NpmCall(prog, rest) ==
  LET By(verb, names, more) ==
        CASE verb = "" /\ prog = "yarn" -> [sub |-> "install", names |-> <<>>]
          [] verb \in {"i", "add", "install", "in"} -> [sub |-> "install", names |-> names]
          [] verb \in {"ci", "clean-install"} -> [sub |-> "ci", names |-> <<>>]
          [] verb \in {"exec", "dlx", "x"} -> [sub |-> "exec", names |-> FirstN(names, 1) \o IF prog = "npm" /\ verb = "exec" THEN more ELSE <<>>]
          [] verb = "global" /\ prog = "yarn" /\ Word(names, 1) = "add" -> [sub |-> "install", names |-> Rest(names)]
          [] OTHER -> [sub |-> "", names |-> <<>>]
      At(pos, more) == IF prog \in {"npx", "bunx", "pnpx"} THEN [sub |-> "exec", names |-> FirstN(pos, 1) \o more]
                       ELSE By(Word(pos, 1), Rest(pos), more)
  IN At(Positional(rest, NpmValued), FlagValues(rest, {"-p", "--package"}))

NpmActs(rule, prog, rest, env, x, call) ==
  LET sources == {GetEnv(env, x, "NPM_CONFIG_REGISTRY"), GetEnv(env, x, "npm_config_registry"), FlagValue(rest, {"--registry"})}
      scripts == ~HasFlag(rest, {"--ignore-scripts"}) /\ prog \notin {"pnpm", "bun"}
                 /\ ~Truthy(GetEnv(env, x, "npm_config_ignore_scripts")) /\ ~Truthy(GetEnv(env, x, "NPM_CONFIG_IGNORE_SCRIPTS"))
  IN Both(IF call.sub # "exec" /\ call.names = <<>> THEN NpmManifest(x) ELSE Named("npm", Plain(call.names)),
          [acts |-> UNION {Registry(rule, u) : u \in sources} \cup From(call.names)
                    \cup When(call.sub # "exec" /\ scripts, {Act("package_scripts", <<prog, call.sub>>, {})}),
           pkgs |-> {}])

Npm(rule, prog, rest, env, x) ==
  LET By(call) == IF call.sub = "" THEN NoReading ELSE NpmActs(rule, prog, rest, env, x, call) IN By(NpmCall(prog, rest))

-----------------------------------------------------------------------------
PipValued == {"-r", "--requirement", "-c", "--constraint", "-i", "--index-url", "--extra-index-url", "-f", "--find-links", "-e", "--editable",
              "--with", "--from", "--index", "--default-index", "--only-binary", "--no-binary"}

\* A requirements file: a line is [k, v], k one of "pkg", "-r" (another file,
\* followed once), "index" and "url".
ReqLines(rule, path) ==
  LET lines == IF path \in DOMAIN Requirements THEN ToSet(Requirements[path]) ELSE {}
      Of(k) == {l.v : l \in {l \in lines : l.k = k}}
  IN [acts |-> {Act("package_registry", <<u>>, {}) : u \in Of("url")} \cup UNION {Registry(rule, u) : u \in Of("index")},
      pkgs |-> {Pkg("pypi", VersionOf(w)[1], VersionOf(w)[2], "requirements.txt") : w \in Of("pkg")},
      more |-> Of("-r")]

ReadRequirements(rule, path) ==
  LET With(top) == Readings({top} \cup {ReqLines(rule, Resolve(f, Front(path))) : f \in top.more})
  IN With(ReqLines(rule, path))

\* What a pip-family command installs: [ok, names].
PipCall(prog, rest) ==
  LET No  == [ok |-> FALSE, names |-> <<>>]
      Yes(names) == [ok |-> TRUE, names |-> names]
      By(pos, one, two, from) ==
        CASE prog = "pip" -> IF one \in {"install", "download"} THEN Yes(Rest(pos)) ELSE No
          [] prog = "uv" -> CASE one = "pip" /\ two = "install" -> Yes(Rest(Rest(pos)))
                              [] one = "add" -> Yes(Rest(pos))
                              [] one = "tool" /\ two \in {"install", "run"} /\ Len(pos) > 2 -> Yes(<<pos[3]>>)
                              [] one = "sync" -> Yes(<<>>)
                              [] OTHER -> No
          [] prog = "uvx" -> Yes(IF from # <<>> THEN FirstN(from, 1) ELSE FirstN(pos, 1))
          [] prog = "pipx" -> IF one \in {"install", "run"} /\ two # "" THEN Yes(<<two>>) ELSE IF one = "inject" THEN Yes(Rest(Rest(pos))) ELSE No
          [] prog \in {"poetry", "pdm", "rye"} -> IF one = "add" THEN Yes(Rest(pos)) ELSE No
      At(pos) == By(pos, Word(pos, 1), Word(pos, 2), FlagValues(rest, {"--from"}))
  IN At(Positional(rest, PipValued))

PipActs(rule, prog, rest, env, x, call) ==
  LET names == call.names \o FlagValues(rest, {"--with"})
      urls  == {GetEnv(env, x, v) : v \in {"PIP_INDEX_URL", "UV_INDEX_URL", "PIP_EXTRA_INDEX_URL", "UV_EXTRA_INDEX_URL"}}
               \cup ToWords(FlagValues(rest, {"-i", "--index-url", "--default-index", "--index", "--extra-index-url", "-f", "--find-links"}))
      files == {Resolve(f, x.cwd) : f \in ToWords(FlagValues(rest, {"-r", "--requirement"}))}
      wheels == ~FlagGiven(rest, {"--no-binary"})
                /\ (":all:" \in ToWords(FlagValues(rest, {"--only-binary"})) \/ HasFlag(rest, {"--no-build"})
                    \/ GetEnv(env, x, "PIP_ONLY_BINARY") = ":all:" \/ Truthy(GetEnv(env, x, "UV_NO_BUILD")))
  IN IF ~call.ok THEN NoReading
     ELSE Both(Readings({ReadRequirements(rule, f) : f \in files} \cup {Named("pypi", Plain(names))}),
               [acts |-> UNION {Registry(rule, u) : u \in urls} \cup From(names) \cup When(~wheels, {Act("package_scripts", <<prog>>, {})}),
                pkgs |-> {}])

Pip(rule, prog, rest, env, x) == PipActs(rule, prog, rest, env, x, PipCall(prog, rest))

-----------------------------------------------------------------------------
\* cargo, go, gem and brew: <<the verbs that install, the flags of a source, the ecosystem>>.
OtherManagers ==
  [cargo |-> <<{"add", "install"}, {"--git", "--registry", "--index"}>>, go |-> <<{"get", "install"}, {}>>,
   gem |-> <<{"install"}, {"-s", "--source"}>>, brew |-> <<{"install", "reinstall"}, {}>>]

Other(rule, prog, rest) ==
  LET Names(words) == SelectSeq(words, LAMBDA w : prog # "go" \/ w \notin SourceSpec)
      By(pos, verbs, sources) ==
        IF Word(pos, 1) \notin verbs \/ Len(pos) < 2 THEN NoReading
        ELSE Both(Named(prog, Names(Rest(pos))), [acts |-> Registry(rule, FlagValue(rest, sources)), pkgs |-> {}])
  IN By(Positional(rest, When(prog = "gem", {"-v", "--version", "-s", "--source"})), OtherManagers[prog][1], OtherManagers[prog][2])

Packages(rule, prog, rest, env, x) ==
  LET module == prog \in {"python", "python3"} /\ Word(rest, 1) = "-m" /\ Word(rest, 2) = "pip"
  IN CASE prog \in {"npm", "pnpm", "yarn", "bun", "npx", "bunx", "pnpx"} -> Npm(rule, prog, rest, env, x)
       [] module \/ prog \in {"pip", "uv", "uvx", "pipx", "poetry", "pdm", "rye"} ->
            Pip(rule, IF module THEN "pip" ELSE prog, IF module THEN Rest(Rest(rest)) ELSE rest, env, x)
       [] prog \in DOMAIN OtherManagers -> Other(rule, prog, rest)
       [] OTHER -> NoReading

\* A pattern [eco, name, version] of a package list; version "" for any.
PkgMatch(pattern, p) ==
  /\ pattern.eco = p.eco
  /\ Matches(pattern.name, p.name)
  /\ pattern.version = "" \/ Matches(pattern.version, p.version)

\* What the policy and OSV say of the packages; OSV is asked when a list names it.
LookupPackages(rule, asked, pkgs) ==
  {Act("package_unlisted", <<p.eco, p.name, p.version>>, {}) :
     p \in {p \in pkgs : rule.pkgAllow # {} /\ ~\E a \in rule.pkgAllow : PkgMatch(a, p)}}
  \cup When(asked, {Act("package_malicious", <<p.eco, p.name>>, {}) : p \in {p \in pkgs : <<p.eco, p.name>> \in Malicious}})
  \cup When(asked, {Act("package_vulnerable", <<p.eco, p.name>>, {}) : p \in {p \in pkgs : <<p.eco, p.name>> \in Vulnerable}})
=============================================================================
