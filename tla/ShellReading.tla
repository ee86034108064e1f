---------------------------- MODULE ShellReading ----------------------------
(* How the agent hooks read a shell command line (internal/endpoint/hooks/
   shell.go, the script part of actions.go): the simple commands of a line,
   those of its substitutions, of the strings handed to `sh -c` and eval, of
   the heredocs a shell reads and of the scripts it runs.

   A line is a sequence of items, in the order of its text:
     [k |-> "word", t, subs, body]  a word: its text, the lines of its $( ), and
                                    the line its text is when a shell reads it
     [k |-> "here", t, quoted, body, subs]   << with its body
     [k |-> "herestr", t]           <<< word
     [k |-> "out", t], [k |-> "in", t]       > file, < file
     [k |-> ";"], [k |-> "|"], [k |-> "nl"]  what ends a command
   Quotes, escapes and comments are resolved in the items already. *)
EXTENDS Words

CONSTANTS
  WithC,       \* those that are short flags holding a c (-c, -lc)
  BaseName,    \* the words that spell a program by its path -> its name
  Script,      \* the shell scripts the agent's user can read -> their lines
  PackageScript  \* package.json script names -> their lines (npm: with pre and post)

Texts(ws) == [i \in DOMAIN ws |-> ws[i].t]
ProgName(t) == IF t \in DOMAIN BaseName THEN BaseName[t] ELSE t

Shells == {"sh", "bash"}
\* The programs that run the command after them, and their flags with a value.
Wrappers == [sudo |-> {"-u"}, env |-> {"-u"}, command |-> {}, exec |-> {"-a"}, nohup |-> {},
             xargs |-> {"-n"}, timeout |-> {"-s"}]

MaxDepth == 4        \* nesting read by splitDepth
MaxScriptDepth == 2  \* scripts that run scripts

-----------------------------------------------------------------------------
(* Programs: assignments and wrappers stripped from the front of a command. *)

RECURSIVE SkipFlags(_, _)
SkipFlags(args, name) ==
  IF args = <<>> THEN <<>>
  ELSE LET f == Head(args).t
       IN IF f = "--" THEN Tail(args)
          ELSE IF f \in Dashed
          THEN SkipFlags(IF f \in Wrappers[name] /\ Len(args) > 1 THEN Tail(Tail(args)) ELSE Tail(args), name)
          ELSE IF name = "env" /\ f \in DOMAIN Assigned THEN SkipFlags(Tail(args), name)
          ELSE args

\* The words of the program that runs, and the wrappers that were stripped.
RECURSIVE Unwrap(_, _)
Unwrap(args, run) ==
  IF args = <<>> THEN [args |-> <<>>, wrappers |-> run]
  ELSE LET Strip(a, name, rest) ==
             IF a \in DOMAIN Assigned THEN Unwrap(Tail(args), run)
             ELSE IF name \notin DOMAIN Wrappers THEN [args |-> args, wrappers |-> run]
             ELSE IF name = "command" /\ Len(args) > 1 /\ args[2].t \in {"-v", "-V"}
             THEN [args |-> <<>>, wrappers |-> Append(run, a)]
             ELSE Unwrap(IF name = "timeout" /\ rest # <<>> THEN Tail(rest) ELSE rest, Append(run, a))
           By(a, name) == Strip(a, name, SkipFlags(Tail(args), name))
       IN By(Head(args).t, ProgName(Head(args).t))

Program(args) == Unwrap(args, <<>>).args
NameOf(args) == IF args = <<>> THEN "" ELSE ProgName(args[1].t)

HasDashC(args) == \E i \in 2..Len(args) : args[i].t \in WithC

-----------------------------------------------------------------------------
(* Splitting a line. *)

NoCommand == [args |-> <<>>, redirects |-> <<>>, inputs |-> <<>>, stdin |-> <<>>, pipeFrom |-> 0, from |-> ""]

\* The command read so far is complete. A command of heredocs alone is none.
FlushCmd(st) ==
  [st EXCEPT !.out = IF st.cur.args # <<>> \/ st.cur.redirects # <<>>
                     THEN Append(@, [st.cur EXCEPT !.pipeFrom = st.pipe]) ELSE @,
             !.cur = NoCommand, !.pipe = 0]

RECURSIVE SplitDepth(_, _)

SplitAll(lines, depth) == FoldLeft(LAMBDA acc, l : acc \o SplitDepth(l, depth), <<>>, lines)

\* What a heredoc's body runs: all of it when a shell reads it as its script,
\* else the substitutions of an unquoted one.
HereCommands(h, cmds, depth) ==
  LET Reads(args) == args # <<>> /\ ProgName(args[1].t) \in Shells \cup {"eval", "source"} /\ ~HasDashC(args)
  IN IF h.owner <= Len(cmds) /\ Reads(Program(cmds[h.owner].args)) THEN SplitDepth(h.item.body, depth + 1)
     ELSE IF h.item.quoted THEN <<>>
     ELSE SplitAll(h.item.subs, depth + 1)

HereFed(out, h) == IF h.owner <= Len(out) THEN [out EXCEPT ![h.owner].stdin = Append(@, h.item.t)] ELSE out
HereBody(fed, h, depth) == fed \o HereCommands(h, fed, depth)

\* One item of the line. `owner` is where the command that reads a heredoc
\* will stand if no command comes between; `pipe` is 1 + the index (from 0) of
\* the command just flushed, which is its index from 1.
ReadItem(st, item, depth) ==
  CASE item.k = "word"    -> [st EXCEPT !.out = @ \o SplitAll(item.subs, depth + 1),
                                        !.cur.args = Append(@, item)]
    [] item.k = "herestr" -> [st EXCEPT !.cur.stdin = Append(@, item.t), !.cur.args = Append(@, item)]
    [] item.k = "out"     -> [st EXCEPT !.cur.redirects = Append(@, item.t)]
    [] item.k = "in"      -> [st EXCEPT !.cur.redirects = Append(@, item.t), !.cur.inputs = Append(@, item.t)]
    [] item.k = "here"    -> [st EXCEPT !.pending = Append(@, [owner |-> Len(st.out) + 1, item |-> item])]
    [] item.k = "|"       -> LET Piped(f) == [f EXCEPT !.pipe = Len(f.out)] IN Piped(FlushCmd(st))
    [] item.k = ";"       -> FlushCmd(st)
    [] item.k = "nl"      -> [FlushCmd(st) EXCEPT !.out = FoldLeft(LAMBDA o, h : HereBody(HereFed(o, h), h, depth), @, st.pending),
                                                  !.pending = <<>>]

\* Mutant: the -c itself is read, not the word behind it.
Handed_Flag(c, depth) ==
  LET From(args, at) ==
        IF args # <<>> /\ ProgName(args[1].t) \in Shells /\ at # {} THEN SplitDepth(args[CHOOSE k \in at : TRUE].body, depth + 1) ELSE <<>>
      In(args) == From(args, {k \in DOMAIN args : args[k].t \in WithC})
  IN In(Program(c.args))

\* The string a command hands to a shell or to eval.
Handed(c, depth) ==
  LET From(args, name, at) ==
        CASE name \in Shells /\ at # {} ->
               SplitDepth(args[1 + CHOOSE k \in at : \A j \in at : k <= j].body, depth + 1)
          [] name = "eval" -> SplitDepth(FlattenSeq([i \in 1..(Len(args) - 1) |-> args[i + 1].body]), depth + 1)
          [] OTHER -> <<>>
      In(args) == From(args, NameOf(args), {k \in 2..(Len(args) - 1) : args[k].t \in WithC})
  IN In(Program(c.args))

SplitDepth(line, depth) ==
  IF depth > MaxDepth THEN <<>>
  ELSE LET start == [out |-> <<>>, cur |-> NoCommand, pending |-> <<>>, pipe |-> 0]
           Read(out) == FoldLeft(LAMBDA acc, c : acc \o Handed(c, depth), out, out)
       IN Read(FlushCmd(FoldLeft(LAMBDA st, item : ReadItem(st, item, depth), start, line)).out)

SplitShell(line) == SplitDepth(line, 0)

-----------------------------------------------------------------------------
(* Scripts. *)

\* The line of the script a command runs, <<>> if none that can be read.
ScriptOf(c) ==
  LET Read(f) == IF f \in DOMAIN Script THEN Script[f] ELSE <<>>
      From(args, name, files) ==
        CASE name \in Shells -> IF HasDashC(args) \/ files = <<>> THEN <<>> ELSE Read(files[1])
          [] name = "source" -> IF Len(args) > 1 THEN Read(args[2].t) ELSE <<>>
          [] name = "npm"    -> IF Len(files) > 1 /\ files[1] = "run" /\ files[2] \in DOMAIN PackageScript
                                THEN PackageScript[files[2]] ELSE <<>>
          [] OTHER -> Read(args[1].t)
      In(args) == IF args = <<>> THEN <<>> ELSE From(args, NameOf(args), SelectSeq(Tail(Texts(args)), LAMBDA t : t \notin Dashed))
  IN In(Program(c.args))

\* The commands with those of the scripts they run behind them. `at` is where
\* each command landed; a pipe within one list keeps pointing at its source.
Land(acc, c, sub) ==
  LET moved == IF c.pipeFrom \in DOMAIN acc.at THEN [c EXCEPT !.pipeFrom = acc.at[c.pipeFrom]] ELSE c
      base  == Len(acc.out) + 1
      Shift(s) == [s EXCEPT !.pipeFrom = IF @ > 0 THEN @ + base ELSE 0, !.from = IF @ = "" THEN "script" ELSE @]
  IN [at |-> Append(acc.at, base), out |-> Append(acc.out, moved) \o [j \in DOMAIN sub |-> Shift(sub[j])]]

RECURSIVE ExpandScripts(_, _)
Inside(body, depth) == IF body = <<>> \/ depth >= MaxScriptDepth THEN <<>> ELSE ExpandScripts(SplitShell(body), depth + 1)
ExpandScripts(cmds, depth) ==
  FoldLeft(LAMBDA acc, c : Land(acc, c, Inside(ScriptOf(c), depth)), [at |-> <<>>, out |-> <<>>], cmds).out

\* The commands the hook judges for a line.
Judged(line) == ExpandScripts(SplitShell(line), 0)
=============================================================================
