----------------------------- MODULE AgentCalls -----------------------------
(* How the payloads of the agents' hooks become canonical calls
   (internal/endpoint/hooks/agents.go, copilot.go): every agent's tools are
   read as Claude Code's, so one rule covers them all.

   A payload is what an agent sends, its JSON as a record:
     [event, tool, cwd, root, fields, line, many, patch, urls, server, name, texts]
   fields: the string inputs by key; line: the command's; many: the lists of
   paths; patch: the lines of a patch as [head, file]; urls: those in a prompt. *)
EXTENDS ToolRules

CONSTANT MCPName  \* <<server, tool>> -> mcp__<server>__<tool>

FieldOf(p, keys) == FirstGiven([i \in DOMAIN keys |-> Given(p.fields, keys[i])])

\* A canonical call. `full` is the name the tool lists match.
Canon(tool, p) ==
  [tool |-> tool, full |-> tool, cwd |-> p.cwd, line |-> <<>>, paths |-> <<>>, host |-> "", server |-> "", name |-> "", texts |-> {}]

OnPath(tool, p, w) == [Canon(tool, p) EXCEPT !.paths = SelectSeq(<<w>>, LAMBDA v : v # "")]
OnUrl(p, url) == [Canon("WebFetch", p) EXCEPT !.host = HostOf(url)]
OnShell(p) == [Canon("Bash", p) EXCEPT !.line = p.line]
OnMCP(p, server) ==
  [Canon("mcp", p) EXCEPT !.full = MCPName[<<server, p.name>>], !.server = server, !.name = p.name, !.texts = p.texts]

\* Claude Code's own payload, and what other agents send under its names.
FromClaude(p) ==
  CASE p.tool = "Bash" -> OnShell(p)
    [] p.tool = "WebFetch" -> OnUrl(p, Given(p.fields, "url"))
    [] p.tool = "mcp" -> OnMCP(p, p.server)
    [] OTHER -> [Canon(p.tool, p) EXCEPT !.paths = SelectSeq([i \in 1..3 |-> Given(p.fields, <<"file_path", "notebook_path", "path">>[i])], LAMBDA v : v # "")]

OrElse(calls, other) == IF calls = <<>> THEN <<other>> ELSE calls

\* Mutant: a file is known by the header it is edited under, not where it moves.
PatchFiles_Stay(patch) ==
  LET named == SelectSeq(patch, LAMBDA l : l.head \in {"Add File", "Update File", "Delete File"} /\ l.file # "")
  IN [i \in DOMAIN named |-> named[i].file]

PatchFiles(patch) ==
  LET named == SelectSeq(patch, LAMBDA l : l.head \in {"Add File", "Update File", "Delete File", "Move to"} /\ l.file # "")
  IN [i \in DOMAIN named |-> named[i].file]

ParseCodex(p) ==
  LET files == PatchFiles(p.patch)
  IN IF p.tool = "apply_patch" THEN OrElse([i \in DOMAIN files |-> OnPath("Edit", p, files[i])], Canon("Edit", p))
     ELSE <<FromClaude(p)>>

MaxFetched == 20  \* the URLs of a prompt that are read

ParseGemini(p) ==
  LET file == FieldOf(p, <<"file_path", "absolute_path", "path">>)
      dir  == FieldOf(p, <<"dir_path", "path">>)
      away == FieldOf(p, <<"dir_path", "directory">>)
      urls == FirstN(p.urls, MaxFetched)
  IN CASE p.tool = "run_shell_command" -> <<[OnShell(p) EXCEPT !.cwd = IF away = "" THEN @ ELSE Resolve(away, p.cwd)]>>
       [] p.tool = "read_file" -> <<OnPath("Read", p, file)>>
       [] p.tool = "read_many_files" -> OrElse([i \in DOMAIN p.many |-> OnPath("Read", p, p.many[i])], Canon(p.tool, p))
       [] p.tool = "write_file" -> <<OnPath("Write", p, file)>>
       [] p.tool = "replace" -> <<OnPath("Edit", p, file)>>
       [] p.tool = "list_directory" -> <<OnPath("LS", p, FieldOf(p, <<"dir_path", "path", "directory">>))>>
       [] p.tool = "glob" -> <<OnPath("Glob", p, dir)>>
       [] p.tool \in {"grep_search", "search_file_content"} -> <<OnPath("Grep", p, dir)>>
       [] p.tool = "web_fetch" -> OrElse([i \in DOMAIN urls |-> OnUrl(p, urls[i])], Canon(p.tool, p))
       [] p.tool = "google_web_search" -> <<Canon("WebSearch", p)>>
       [] OTHER -> <<IF p.server # "" THEN OnMCP(p, p.server) ELSE Canon(p.tool, p)>>

\* Cursor's preToolUse leaves shell commands, reads and MCP calls to the events
\* of their own: they are decided once.
Skipped(agent, p) == agent = "cursor-agent" /\ p.event = "preToolUse" /\ p.tool \in {"Shell", "Read", "MCP"}

ParseCursor(payload) ==
  LET cwd  == FirstGiven(<<payload.cwd, Given(payload.fields, "cwd"), payload.root>>)
      p    == [payload EXCEPT !.cwd = cwd]
      file == FieldOf(p, <<"file_path", "path">>)
      Tool == CASE p.tool \in {"Write", "Delete"} -> OnPath("Write", p, file)
                [] p.tool = "Grep" -> OnPath("Grep", p, file)
                [] p.tool = "List" -> OnPath("LS", p, file)
                [] p.tool \in {"WebFetch", "Fetch"} -> OnUrl(p, Given(p.fields, "url"))
                [] p.tool = "WebSearch" -> Canon("WebSearch", p)
                [] OTHER -> Canon(p.tool, p)
      more == SelectSeq(p.many, LAMBDA f : f \notin {"", file})
      read == (IF file = "" THEN <<>> ELSE <<OnPath("Read", p, file)>>) \o [i \in DOMAIN more |-> OnPath("Read", p, more[i])]
  IN CASE p.event = "beforeShellExecution" -> <<OnShell(p)>>
       [] p.event = "beforeMCPExecution" -> <<OnMCP(p, IF p.server = "" THEN "unknown" ELSE p.server)>>
       [] p.event \in {"beforeReadFile", "beforeTabFileRead"} -> OrElse(read, Canon("Read", p))
       [] OTHER -> <<Tool>>

ParseCopilot(p) ==
  LET file == FieldOf(p, <<"file_path", "path", "filePath">>)
  IN <<CASE p.tool \in {"bash", "powershell", "shell"} -> OnShell(p)
         [] p.tool \in {"view", "read"} -> OnPath("Read", p, file)
         [] p.tool \in {"create", "write"} -> OnPath("Write", p, file)
         [] p.tool \in {"edit", "str_replace", "multiedit"} -> OnPath("Edit", p, file)
         [] p.tool \in {"web_fetch", "webfetch", "fetch"} -> OnUrl(p, Given(p.fields, "url"))
         [] p.tool \in {"glob", "grep"} -> OnPath(IF p.tool = "glob" THEN "Glob" ELSE "Grep", p, Given(p.fields, "path"))
         [] OTHER -> FromClaude(p)>>

Parse(agent, p) ==
  CASE agent = "codex" -> ParseCodex(p)
    [] agent = "gemini-cli" -> ParseGemini(p)
    [] agent = "cursor-agent" -> ParseCursor(p)
    [] agent = "copilot-agent" -> ParseCopilot(p)
    [] OTHER -> <<FromClaude(p)>>
=============================================================================
