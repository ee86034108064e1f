---------------------------- MODULE MCInventory ----------------------------
(* Small instances of Inventory for TLC. *)
EXTENDS Inventory, TLC

MCCaps == [k \in Kinds |-> IF k = "binary" THEN 2 ELSE 1]

\* Events: a kernel event of a program, with what the instances vary.
Exec == [type |-> "exec", agent |-> "claude-code", tracked |-> FALSE, kernel |-> TRUE, starts |-> FALSE,
         via |-> 0, target |-> "", name |-> 1, programs |-> {}, hosts |-> {}, actions |-> {},
         mode |-> "", user |-> "", git |-> "", unlisted |-> FALSE]

\* Three programs at any of four times, two days.
Times == [acts |-> {Exec, [Exec EXCEPT !.name = 2], [Exec EXCEPT !.name = 3]},
          times |-> 0 .. 3, events |-> 4, batch |-> {1, 2}, prune |-> FALSE,
          edits |-> 0, people |-> {}, vendors |-> {}, seats |-> {}, usage |-> {}]

\* The other events: a hook's call of a server and of a shell, what a server's
\* process does, starts with a mode, outcomes, and events that aren't observed.
Hook == [Exec EXCEPT !.kernel = FALSE, !.name = 0]
Acts == {[Hook EXCEPT !.target = "mcp", !.name = 1, !.actions = {1}, !.unlisted = TRUE],
         [Hook EXCEPT !.target = "bash", !.programs = {1, 2}, !.hosts = {1}, !.mode = "auto"],
         [Hook EXCEPT !.target = "web", !.hosts = {1, 2}, !.type = "would_block"],
         [Exec EXCEPT !.type = "blocked", !.target = "connect", !.name = 2, !.via = 1],
         [Exec EXCEPT !.type = "blocked", !.target = "exec", !.via = 2],
         [Exec EXCEPT !.type = "agent_start", !.starts = TRUE, !.mode = "plan"],
         [Exec EXCEPT !.starts = TRUE],
         [Exec EXCEPT !.type = "exit", !.via = 1],
         [Exec EXCEPT !.type = "tool_result"],
         [Exec EXCEPT !.tracked = TRUE]}
Types == [Times EXCEPT !.acts = Acts, !.times = {0, 2}, !.events = 3, !.prune = TRUE]

\* Two tools' use by a user with and without a git email, and what vendors
\* report: a sync beside another edit; mappings and owners over a sync's rows.
Claude == [Exec EXCEPT !.user = "u"]
Work   == {Claude, [Claude EXCEPT !.agent = "cursor-agent"], [Claude EXCEPT !.user = "", !.git = "g"]}
Synced == [Times EXCEPT !.acts = (Work \ {[Claude EXCEPT !.agent = "cursor-agent"]}) \cup {[Claude EXCEPT !.agent = "mcp-fs"]},
                        !.times = {0, 2}, !.events = 2, !.edits = 2, !.people = {"e1", "e2"}, !.vendors = {"anthropic", "cursor"}]
Mapped == [Synced EXCEPT !.acts = Work, !.edits = 3, !.vendors = {}, !.seats = 1 .. 4, !.usage = {1}]
MCLimits == {Times, Types, Synced, Mapped}

MCByEmail == <<"e1", "e2", "e3">>
MCIdentities == {[kind |-> "os_user", value |-> "u", host |-> "h"], [kind |-> "os_user", value |-> "u", host |-> ""],
                 [kind |-> "git_email", value |-> "g", host |-> ""], [kind |-> "host", value |-> "h", host |-> ""]}

Seat(v, i, price, recent, lastUse) ==
  [vendor |-> v, identity |-> i, price |-> price, recent |-> recent, lastUse |-> lastUse]
MCSeatRows == <<Seat("anthropic", "e1", 2, FALSE, 0), Seat("cursor", "e1", 3, FALSE, 1), Seat("cursor", "e2", 3, FALSE, 0),
                Seat("copilot", "l", 1, FALSE, 1)>>

\* The user is named like the third person, who is known where they own the
\* machine, and the login like the second.
MCNameOf == ("e1" :> "n1") @@ ("e2" :> "n2") @@ ("e3" :> "n3") @@ ("u" :> "n3") @@ ("g" :> "n2") @@ ("l" :> "n2")

Used(v, i, kind, day, cost) == [vendor |-> v, identity |-> i, kind |-> kind, day |-> day, cost |-> cost]
MCUsageRows == <<Used("anthropic", "e1", "email", 1, 1), Used("anthropic", "e2", "email", 2, 1),
                 Used("anthropic", "k", "key", 2, 9), Used("cursor", "", "email", 2, 6)>>

\* detect.go's, for a window of two days.
MCThresholds == [medianX |-> 3, runawayMin |-> 2, peers |-> 3, spikeX |-> 5, spikeMin |-> 2,
                 lookback |-> 1, recent |-> 1, mainDays |-> 2, lowDays |-> 1]
=============================================================================
