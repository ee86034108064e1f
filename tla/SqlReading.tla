----------------------------- MODULE SqlReading -----------------------------
(* What the hook says a database client, a migration tool or a database MCP
   call does (internal/endpoint/hooks/sql.go, mcpsql.go): the statements it is
   given by flag, heredoc, pipe or file, and the host it reaches.

   A command as the readers see it is [args, stdin, inputs, source]: its words,
   the texts on its standard input, the files there, and the words of the
   command that is piped into it (<<>> for none). *)
EXTENDS CloudReading

CONSTANTS
  Statements, \* SQL texts -> the kinds of their statements, "" for a read
  FileText,   \* the files the agent's user can read -> their text
  UrlHost,    \* the words that are URLs -> the host they name
  MCPTool     \* the MCP tools that work on a database -> [way, kind], see MCPDatabase

KindsIn(text) == IF text \in DOMAIN Statements THEN Statements[text] ELSE {""}

\* Per client: the flags that carry statements, a file, a host, a URL; the
\* variable that names a host; what the first word is; the flags with a value.
SqlClient ==
  [c \in {"psql", "mysql", "sqlite3", "mongosh", "redis-cli", "sqlcmd", "bq", "snowsql", "clickhouse-client", "cockroach", "cqlsh"} |->
     CASE c = "psql"      -> [text |-> {"-c", "--command"}, file |-> {"-f", "--file"}, host |-> {"-h", "--host"}, url |-> {"-d", "--dbname"},
                              var |-> "PGHOST", first |-> "url", valued |-> {"-c", "-f", "-h", "-d", "-U", "-p", "-v", "-o"}]
       [] c = "mysql"     -> [text |-> {"-e", "--execute"}, file |-> {}, host |-> {"-h", "--host"}, url |-> {},
                              var |-> "MYSQL_HOST", first |-> "", valued |-> {}]
       [] c = "sqlite3"   -> [text |-> {"-cmd"}, file |-> {}, host |-> {}, url |-> {},
                              var |-> "", first |-> "file", valued |-> {"-cmd", "-separator", "-nullvalue"}]
       [] c = "mongosh"   -> [text |-> {"--eval"}, file |-> {"-f", "--file"}, host |-> {"--host"}, url |-> {},
                              var |-> "", first |-> "url", valued |-> {"--eval", "--host", "--port", "-u", "-p", "-f"}]
       [] c = "redis-cli" -> [text |-> {}, file |-> {}, host |-> {"-h"}, url |-> {"-u"},
                              var |-> "", first |-> "text", valued |-> {"-h", "-p", "-a", "-u", "-n"}]
       [] c = "sqlcmd"    -> [text |-> {"-Q", "-q", "--query"}, file |-> {"-i", "--input-file"}, host |-> {"-S", "--server"}, url |-> {},
                              var |-> "SQLCMDSERVER", first |-> "", valued |-> {}]
       [] c = "snowsql"   -> [text |-> {"-q", "--query"}, file |-> {"-f", "--filename"}, host |-> {"-a", "--accountname"}, url |-> {},
                              var |-> "", first |-> "account", valued |-> {}]
       [] c = "clickhouse-client" -> [text |-> {"-q", "--query"}, file |-> {"--queries-file"}, host |-> {"-h", "--host"}, url |-> {},
                              var |-> "CLICKHOUSE_HOST", first |-> "", valued |-> {}]
       [] c = "cockroach" -> [text |-> {"-e", "--execute"}, file |-> {}, host |-> {"--host"}, url |-> {"--url"},
                              var |-> "COCKROACH_HOST", first |-> "", valued |-> {}]
       [] c = "cqlsh"     -> [text |-> {"-e", "--execute"}, file |-> {"-f", "--file"}, host |-> {}, url |-> {},
                              var |-> "", first |-> "host", valued |-> {"-e", "--execute", "-f", "--file", "-u", "-p", "-k"}]
       [] c = "bq"        -> [text |-> {}, file |-> {}, host |-> {}, url |-> {},
                              var |-> "", first |-> "bq", valued |-> {"--project_id", "--location", "--format"}]]

\* The database a command reaches: a host flag, else a URL, else a variable,
\* else the local one. A URL that cannot be resolved leaves it unknown.
DbTarget(host, url, var, env, x) ==
  LET Reached(h, u) ==
        IF url # "" /\ ~u.ok /\ (host = "" \/ ~h.ok) THEN {<<"target", "unknown">>}
        ELSE {<<"db_host", FirstGiven(<<IF h.ok THEN h.text ELSE "", IF u.ok THEN Given(UrlHost, u.text) ELSE "",
                                        IF var = "" THEN "" ELSE GetEnv(env, x, var), "localhost">>)>>}
  IN Reached(ExpandVars(host, env, x.env), ExpandVars(url, env, x.env))

SqlTarget(client, rest, pos, env, x) ==
  LET hosts == FlagValues(rest, client.host)
      Url(urls) == IF urls # <<>> THEN urls[1] ELSE IF client.first = "url" THEN Word(pos, 1) ELSE ""
  IN CASE client.first = "file"    -> {}
       [] client.first = "bq"      -> {<<"db_host", "bigquery">>} \cup Known("gcloud_project", FlagValue(rest, {"--project_id"}))
       [] client.first = "account" -> IF hosts # <<>> THEN {<<"db_host", hosts[1]>>} ELSE {<<"target", "unknown">>}
       [] OTHER -> DbTarget(Word(IF client.first = "host" THEN pos ELSE hosts, 1), Url(FlagValues(rest, client.url)), client.var, env, x)

\* Mutant: what a pipe or a redirected file brings is left out.
Fed_Flags(client, c) ==
  [texts |-> ToWords(FlagValues(Rest(c.args), client.text)) \cup ToWords(c.stdin),
   files |-> ToWords(FlagValues(Rest(c.args), client.file)) \ {"-"}]

\* What reaches the client: the texts, and the files that hold more.
Fed(client, c) ==
  LET rest  == Rest(c.args)
      piped == Positional(Rest(c.source), {})
      Pipes(programs) == Len(c.source) > 1 /\ c.source[1] \in programs
      Words(pos) ==
        CASE client.first = "file" -> ToWords(Rest(pos))
          [] client.first = "bq" /\ Word(pos, 1) = "query" -> ToWords(Rest(pos))
          [] client.first = "text" /\ pos # <<>> -> {TextOf(pos)}
          [] OTHER -> {}
  IN [texts |-> ToWords(FlagValues(rest, client.text)) \cup ToWords(c.stdin) \cup Words(Positional(rest, client.valued))
                \cup When(Pipes({"echo", "printf"}), {TextOf(piped)}),
      files |-> (ToWords(FlagValues(rest, client.file)) \cup ToWords(c.inputs)
                 \cup When(Pipes({"cat", "zcat", "gunzip"}), ToWords(piped))) \ {"-"}]

SqlActs(prog, pos, attrs, fed, x) ==
  LET BodyOf(f) == Given(FileText, Resolve(f, x.cwd))
      kinds  == UNION {KindsIn(t) : t \in fed.texts \cup {BodyOf(f) : f \in fed.files}} \ {""}
      unread == {f \in fed.files : BodyOf(f) = ""}
      direct == IF prog = "bq" THEN Word(pos, 1) ELSE ""
  IN CASE direct = "rm" -> {Act("destructive_sql", pos, attrs)}
       [] direct \in {"mk", "load", "insert", "update", "cp"} -> {Act("sql_write", pos, attrs)}
       [] OTHER -> {Act(k, <<prog>>, attrs) : k \in kinds}
                   \cup {Act("sql_write", <<f>>, attrs \cup {<<"unread", "true">>}) : f \in unread}
                   \cup When(kinds = {}, {Act("access", <<prog>>, attrs)})

ClientActs(prog, client, c, env, x) ==
  LET rest == Rest(c.args)
      pos  == Positional(rest, client.valued)
  IN SqlActs(prog, pos, SqlTarget(client, rest, pos, env, x), Fed(client, c), x)

Sql(prog, c, env, x) == ClientActs(prog, SqlClient[prog], c, env, x)

\* Migration tools: the last rule that matches a line decides, a destructive
\* one at once. The rules' expressions are phrases of words here.
MigrationRules ==
  << <<{<<"prisma", "migrate", "reset">>}, "destructive_sql">>, <<{<<"prisma", "migrate", "deploy">>, <<"prisma", "db", "push">>}, "sql_write">>,
     <<{<<"rails", "db:drop">>}, "destructive_sql">>, <<{<<"rails", "db:migrate">>}, "sql_write">>,
     <<{<<"alembic", "downgrade">>}, "destructive_sql">>, <<{<<"alembic", "upgrade">>}, "sql_write">> >>

Migration(line, env, x) ==
  LET Target(host) == IF host = "" THEN {<<"target", "unknown">>} ELSE {<<"db_host", host>>}
      Does(kinds) == When(kinds # {}, {Act(IF "destructive_sql" \in kinds THEN "destructive_sql" ELSE "sql_write", FirstN(line, 3),
                                           Target(Given(UrlHost, GetEnv(env, x, "DATABASE_URL"))))})
  IN Does({r[2] : r \in {r \in ToWords(MigrationRules) : \E p \in r[1] : Says(line, p)}})

\* A call to an MCP tool, by what its name says (MCPTool): it runs the SQL in
\* its input, a command on a key-value store, or one operation of its own.
\* {} when it is none of a database.
MCPDatabase(server, tool, texts) ==
  LET Does(k) == Act(k, <<tool>>, {<<"mcp_server", server>>})
      Runs(kinds) == IF kinds = {""} THEN {Does("access")} ELSE {Does(k) : k \in kinds \ {""}}
      By(own) == IF own.way = "own" THEN {Does(own.kind)} ELSE When(own.way = "sql", Runs(UNION {KindsIn(t) : t \in texts}))
  IN IF tool \in DOMAIN MCPTool THEN By(MCPTool[tool]) ELSE {}
=============================================================================
