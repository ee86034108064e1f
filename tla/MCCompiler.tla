----------------------------- MODULE MCCompiler -----------------------------
(* Small instances of Compiler for TLC. *)
EXTENDS Compiler, TLC

MCAgents   == {"claude"}
MCMachine  == [endpoint |-> {"m1"}, owner |-> "dana", teams |-> {"payments"}]
MCExecDirs == {<<"bin">>, <<"usr", "bin">>}
Curl    == <<"usr", "bin", "curl">>
BinCurl == <<"bin", "curl">>
Git     == <<"usr", "bin", "git">>
MCPrograms == {Curl, BinCurl, Git}
MCDaemon   == {<<"usr", "bin", "effigentd">>}
MCFiles    == {<<".env">>, <<"home", ".env">>, <<"home", "notes">>}
MCLoopback == {3}

Low   == [kind |-> "cidr", net |-> 0, len |-> 1]
Zero  == [kind |-> "cidr", net |-> 0, len |-> 2]
One   == [kind |-> "cidr", net |-> 1, len |-> 2]

\* Endpoint policies: a denylist, an agent with lists of its own, an allowlist,
\* an agent that opts out of a list, and one that only observes.
Policy(mode, lists, agent) == [defaults |-> [mode |-> mode, lists |-> lists], agents |-> [a \in MCAgents |-> agent]]
Same == [mode |-> "", lists |-> <<>>]
Basic  == Policy("denylist", "exec_deny" :> {Git} @@ "file_deny" :> {<<"notes">>} @@ "network_deny" :> {One}, Same)
Own    == Policy("denylist", "exec_deny" :> {Git, Curl} @@ "exec_approve" :> {BinCurl},
                 [mode |-> "", lists |-> "exec_deny" :> {Curl} @@ "exec_approve" :> {Git}])
Narrow == Policy("monitor", "exec_deny" :> {Git} @@ "gated_exec" :> {BinCurl},
                 [mode |-> "allowlist", lists |-> "exec_allow" :> {Git, Curl} @@ "exec_approve" :> {Curl}])
Narrowest == Policy("allowlist", "exec_allow" :> {Git} @@ "network_allow" :> {Low}, Same)
OptOut == Policy("denylist", "exec_deny" :> {Git} @@ "exec_approve" :> {Curl},
                 [mode |-> "", lists |-> "exec_approve" :> {}])
MCBases == {Basic, Own, Narrow, Narrowest, OptOut}

Rule(decision, priority, who, what, until) ==
  [id |-> 0, priority |-> priority, who |-> who, what |-> what, decision |-> decision, until |-> until,
   disabled |-> FALSE]
Claude == [Anyone EXCEPT !.agents = {"claude"}]
Sam    == [Anyone EXCEPT !.users = {"sam"}]
Name(n)   == [Nothing EXCEPT !.binaries = {[star |-> FALSE, text |-> <<n>>]}]
Path(b)   == [Nothing EXCEPT !.binaries = {[star |-> FALSE, text |-> b]}]
Under(d)  == [Nothing EXCEPT !.binaries = {[star |-> TRUE, text |-> d]}]
Net(c)    == [Nothing EXCEPT !.hosts = {c}]
Glob(g, cs) == [Nothing EXCEPT !.paths = {g}, !.classes = cs]
Mixed     == [Name("curl") EXCEPT !.hosts = {Low}]
Args      == [Name("curl") EXCEPT !.texts = {[star |-> TRUE, text |-> <<"curl">>]}]

ProgramRules ==
  {Rule(d, p, who, what, 0) : d \in {"allow", "deny", "require_approval"}, p \in {1, 2},
                              who \in {Anyone, Claude}, what \in {Name("curl"), Path(Curl)}}
  \cup {Rule("allow", 1, Anyone, Under(<<"usr">>), 0), Rule("deny", 1, Sam, Path(Curl), 0),
        Rule("deny", 2, Anyone, Path(Git), 2), Rule("deny", 1, Anyone, Mixed, 0), Rule("allow", 1, Anyone, Args, 0)}
FileRules ==
  {Rule(d, 1, Anyone, Glob(<<"**", ".env">>, cs), 0) : d \in {"deny", "require_approval"}, cs \in {{}, {"file_read"}}}
  \cup {Rule("allow", 1, Anyone, Glob(<<"**", ".env">>, {"file_read"}), 0),
        Rule("allow", 1, Anyone, Glob(<<"home", "**">>, {}), 0)}
NetRules ==
  {Rule(d, 2, Anyone, Net(Low), 0) : d \in {"deny", "require_approval"}} \cup {Rule("allow", 1, Anyone, Net(One), 0)}
Subnet == {Rule("deny", 2, Anyone, Net(Low), 0), Rule("allow", 1, Anyone, Net(Zero), 0)}
ManyRules == ProgramRules \cup FileRules \cup NetRules
CurlRules == {Rule("deny", 1, Anyone, Path(Curl), 0)}

Exc(agents, list, value, until) ==
  [endpoints |-> {}, owners |-> {"dana"}, teams |-> {}, agents |-> agents, list |-> list, value |-> value, until |-> until]
ManyExceptions ==
  {Exc({}, "exec_deny", <<"curl">>, 0), Exc({}, "exec_approve", <<"curl">>, 2), Exc({"claude"}, "exec_deny", Git, 2),
   Exc({"claude"}, "exec_approve", Git, 0), Exc({}, "exec_deny", Git, 0), Exc({"claude"}, "exec_allow", BinCurl, 0),
   Exc({}, "network_deny", Low, 0),
   [Exc({}, "exec_deny", Git, 0) EXCEPT !.owners = {}, !.teams = {"payments"}, !.agents = {"claude"}]}
NoExceptions == {}
=============================================================================
