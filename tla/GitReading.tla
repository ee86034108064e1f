----------------------------- MODULE GitReading -----------------------------
(* What the hook says a git command does (internal/endpoint/hooks/git.go): the
   branches a push reaches and how, branches deleted, work discarded, hooks
   skipped. `cwd` is the directory of the call. *)
EXTENDS Words

CONSTANTS
  Repo,        \* the working trees -> [branch, config], branch "" when detached
  UserConfigs, \* the user's git configs, first one first
  Refspec      \* the refspecs that are not a branch name -> [dst, force, del, tag]

\* A git config is [default, merge]: push.default ("" if it is not set) and
\* branch.<name>.merge by name.
DefaultProtected == {"main", "master", "trunk", "prod", "production", "release", "release/*", "release-*"}
Protected(rule, branch) == MatchesAny(IF rule.protected = {} THEN DefaultProtected ELSE rule.protected, branch)

CurrentBranch(dir) ==
  LET Of(at) == IF at = <<"/">> THEN "" ELSE Repo[at].branch IN Of(FindUp(dir, DOMAIN Repo))

\* The git configs read in a directory: the repository's, then the user's.
Configs(dir) ==
  LET Of(at) == IF at = <<"/">> THEN UserConfigs ELSE <<Repo[at].config>> \o UserConfigs IN Of(FindUp(dir, DOMAIN Repo))

PushTarget(mode, cur, up) ==
  CASE mode \in {"nothing", "matching"} -> [branch |-> "", how |-> mode]
    [] mode \in {"upstream", "tracking"} /\ cur # "" /\ up # "" -> [branch |-> up, how |-> "upstream"]
    [] OTHER -> [branch |-> cur, how |-> "current"]

\* Where a push without refspecs sends the current branch, by push.default.
DefaultPush(dir, override) ==
  LET mode(cfgs) == FirstGiven(<<override>> \o [i \in DOMAIN cfgs |-> cfgs[i].default])
      upstream(cfgs) == FirstGiven([i \in DOMAIN cfgs |-> Given(cfgs[i].merge, CurrentBranch(dir))])
  IN PushTarget(mode(Configs(dir)), CurrentBranch(dir), upstream(Configs(dir)))

ReadRefspec(r, dir) ==
  [(IF r \in DOMAIN Refspec THEN Refspec[r] ELSE [dst |-> r, force |-> FALSE, del |-> FALSE, tag |-> FALSE]) EXCEPT !.dst = IF @ \in {"HEAD", "@"} THEN CurrentBranch(dir) ELSE @]

PushValued == {"-o", "--push-option", "--repo", "--receive-pack", "--exec"}
AllOf == {"all branches", "all matching branches"}

\* What a push reaches, and does to it.
Destinations(rest, dir, specs, def) ==
  LET To(b) == [dst |-> b, force |-> FALSE, del |-> FALSE, tag |-> FALSE]
      ByDefault ==
        CASE HasFlag(rest, {"--all", "--branches", "--mirror"}) -> {To("all branches")}
          [] specs # <<>> \/ HasFlag(rest, {"--tags"}) \/ def.how = "nothing" -> {}
          [] def.how = "matching" -> {To("all matching branches")}
          [] OTHER -> {To(def.branch)}
  IN ByDefault \cup {d \in {ReadRefspec(specs[i], dir) : i \in DOMAIN specs} : ~d.tag}

PushDoes(rule, d, force, del) ==
  IF del \/ d.del THEN {Act("branch_delete", <<d.dst>>, {})}
  ELSE When(force \/ d.force, {Act("force_push", <<d.dst>>, {})})
       \cup When(d.dst \in AllOf \/ (d.dst # "" /\ Protected(rule, d.dst)), {Act("protected_push", <<d.dst>>, {})})

\* git push [options] [remote [refspec...]]
Push(rule, rest, dir, override) ==
  LET force == HasFlag(rest, {"--force", "--force-with-lease", "--force-if-includes", "--mirror"}) \/ ShortFlag(rest, {"f"})
      del   == HasFlag(rest, {"--delete"}) \/ ShortFlag(rest, {"d"})
  IN UNION {PushDoes(rule, d, force, del) : d \in Destinations(rest, dir, Rest(Positional(rest, PushValued)), DefaultPush(dir, override))}
     \cup When(HasFlag(rest, {"--no-verify"}), {Act("hook_bypass", <<"push">>, {})})

\* The options before the subcommand: -C dir, -c key=value and those skipped.
GlobalOptions(args, cwd) ==
  LET Read(st, w) ==
        CASE st.done -> [st EXCEPT !.rest = Append(@, w)]
          [] st.flag = "-C" -> [st EXCEPT !.dir = Resolve(w, @), !.flag = ""]
          [] st.flag = "-c" ->
               LET Set(name, value) == [st EXCEPT !.flag = "", !.default = IF name = "push.default" THEN value ELSE @,
                                                  !.hooks = @ \/ name = "core.hookspath"]
               IN IF w \in DOMAIN Assigned THEN Set(Assigned[w][1], Assigned[w][2]) ELSE Set(w, "")
          [] st.flag # "" -> [st EXCEPT !.flag = ""]
          [] w \in Dashed -> [st EXCEPT !.flag = IF w \in {"-C", "-c", "--git-dir", "--work-tree", "--namespace", "--exec-path"}
                                                 THEN w ELSE ""]
          [] OTHER -> [st EXCEPT !.done = TRUE, !.rest = <<w>>]
  IN FoldLeft(Read, [done |-> FALSE, flag |-> "", dir |-> cwd, default |-> "", hooks |-> FALSE, rest |-> <<>>], args)

Subcommand(rule, g) ==
  LET sub  == Word(g.rest, 1)
      rest == Rest(g.rest)
      Rewrites ==
        \/ sub = "reset" /\ HasFlag(rest, {"--hard"})
        \/ sub = "clean" /\ (HasFlag(rest, {"--force"}) \/ ShortFlag(rest, {"f"}))
        \/ sub \in {"filter-branch", "filter-repo"}
        \/ sub = "stash" /\ Word(rest, 1) \in {"drop", "clear"}
      Bypasses ==
        \/ g.hooks
        \/ sub \in {"commit", "merge", "rebase", "am", "cherry-pick", "revert"} /\ HasFlag(rest, {"--no-verify"})
        \/ sub = "commit" /\ ShortFlag(rest, {"n"})
  IN When(sub = "push", Push(rule, rest, g.dir, g.default))
     \cup When(sub = "branch" /\ (HasFlag(rest, {"-d", "-D", "--delete"}) \/ ShortFlag(rest, {"d", "D"})),
               {Act("branch_delete", <<b>>, {}) : b \in ToWords(Positional(rest, {}))})
     \cup When(Rewrites, {Act("history_rewrite", <<sub>>, {})})
     \cup When(Bypasses, {Act("hook_bypass", <<sub>>, {})})
     \cup When(sub = "config" /\ "core.hooksPath" \in ToWords(rest), {Act("guardrail_edit", <<"core.hooksPath">>, {})})

Git(rule, args, cwd) == Subcommand(rule, GlobalOptions(args, cwd))

\* gh: a merge lands on the base branch.
Gh(rest) ==
  LET Does(what) ==
        CASE what = <<"pr", "merge">> -> {Act("protected_push", what, {})}
          [] what \in {<<"repo", "delete">>, <<"repo", "archive">>, <<"release", "delete">>} -> {Act("cloud_destroy", what, {})}
          [] what \in {"secret", "variable"} \X {"set", "delete"} -> {Act("guardrail_edit", what, {})}
          [] OTHER -> {}
      At(pos) == Does(<<Word(pos, 1), Word(pos, 2)>>)
  IN At(Positional(rest, {"-R", "--repo", "-t", "--subject", "-b", "--body"}))
=============================================================================
