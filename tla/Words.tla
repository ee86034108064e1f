-------------------------------- MODULE Words --------------------------------
(* The words of a command as the hook reads them (internal/endpoint/hooks/
   actions.go, sql.go): flags, their values and what is left. Words are
   strings; what the code finds inside one is in the tables below. *)
EXTENDS Naturals, SequencesExt

CONSTANTS
  Dashed,   \* the words that begin with a dash and are longer than one
  Joined,   \* the words --name=value -> <<name, value>>
  Cluster,  \* the words that are a dash and letters (-rf) -> their letters
  Assigned, \* the words NAME=value -> <<NAME, value>>
  Var,      \* the words that are a variable ($DB_HOST) -> its name
  Phrase,   \* several words joined by blanks -> the text they make
  Wild,     \* the patterns with a * -> the strings they match
  Place     \* the words that spell a path -> [abs, at]: absolute or not, its components

ASSUME WordsAssumption ==
  /\ DOMAIN Joined \subseteq Dashed /\ DOMAIN Cluster \subseteq Dashed
  /\ DOMAIN Assigned \cap Dashed = {}

NotEmpty(w) == {w} \ {""}
When(cond, set) == IF cond THEN set ELSE {}
ToWords(s) == {s[i] : i \in DOMAIN s}
Rest(s) == IF s = <<>> THEN <<>> ELSE Tail(s)
Word(s, i) == IF i <= Len(s) THEN s[i] ELSE ""
FirstN(s, n) == SubSeq(s, 1, IF Len(s) < n THEN Len(s) ELSE n)

\* The words before a --.
Options(args) ==
  LET Before(ends) == IF ends = {} THEN args ELSE SubSeq(args, 1, (CHOOSE i \in ends : \A j \in ends : i <= j) - 1)
  IN Before({i \in DOMAIN args : args[i] = "--"})

\* The words that are not flags, without the values of the flags in `valued`.
Positional(args, valued) ==
  LET Take(st, w) ==
        CASE st.skip        -> [st EXCEPT !.skip = FALSE]
          [] w \in Dashed   -> [st EXCEPT !.skip = w \in valued]
          [] OTHER          -> [st EXCEPT !.out = Append(@, w)]
      Left(opts) == FoldLeft(Take, [out |-> <<>>, skip |-> FALSE], opts).out \o SubSeq(args, Len(opts) + 2, Len(args))
  IN Left(Options(args))

\* The values of the flags in `names`, in order: "--x v" and "--x=v".
FlagValues(args, names) ==
  LET Take(st, w) ==
        CASE st.take -> [out |-> Append(st.out, w), take |-> FALSE]
          [] w \in names -> [st EXCEPT !.take = TRUE]
          [] w \in DOMAIN Joined /\ Joined[w][1] \in names -> [st EXCEPT !.out = Append(@, Joined[w][2])]
          [] OTHER -> st
  IN FoldLeft(Take, [out |-> <<>>, take |-> FALSE], Options(args)).out

FlagGiven(args, names) == FlagValues(args, names) # <<>>
FlagValue(args, names) == Word(FlagValues(args, names), 1)

HasFlag(args, names) ==
  \E w \in ToWords(Options(args)) : w \in names \/ (w \in DOMAIN Joined /\ Joined[w][1] \in names)

ShortFlag(args, letters) ==
  \E w \in ToWords(Options(args)) : w \in DOMAIN Cluster /\ Cluster[w] \cap letters # {}

Given(env, name) == IF name \in DOMAIN env THEN env[name] ELSE ""
FirstGiven(values) == Word(SelectSeq(values, LAMBDA v : v # ""), 1)

\* One string of several words.
TextOf(ws) == IF Len(ws) = 1 THEN ws[1] ELSE IF ws \in DOMAIN Phrase THEN Phrase[ws] ELSE ""

\* A word with its variable replaced, from the command's assignments, else the
\* agent's environment (where a secret is only known to be set).
ExpandVars(w, env, agent) ==
  IF w \notin DOMAIN Var THEN [ok |-> TRUE, text |-> w]
  ELSE LET n == Var[w]
       IN CASE n \in DOMAIN env -> [ok |-> TRUE, text |-> env[n]]
            [] n \notin DOMAIN env /\ Given(agent, n) \notin {"", "set"} -> [ok |-> TRUE, text |-> agent[n]]
            [] OTHER -> [ok |-> FALSE, text |-> w]

Matches(pattern, s) == pattern = s \/ (pattern \in DOMAIN Wild /\ s \in Wild[pattern])
MatchesAny(patterns, s) == \E p \in patterns : Matches(p, s)

\* Where a word leads from a directory. Paths are their components.
Resolve(w, cwd) ==
  IF w \notin DOMAIN Place THEN Append(cwd, w)
  ELSE IF Place[w].abs THEN Place[w].at ELSE cwd \o Place[w].at

\* The nearest directory at or above `dir` that is in `dirs`, <<"/">> for none.
FindUp(dir, dirs) ==
  LET Nearest(ups) == IF ups = {} THEN <<"/">> ELSE SubSeq(dir, 1, CHOOSE n \in ups : \A m \in ups : m <= n)
  IN Nearest({n \in 0..Len(dir) : SubSeq(dir, 1, n) \in dirs})

\* The words of a phrase, one after the other, anywhere in a line.
Says(line, phrase) == \E i \in 0..(Len(line) - Len(phrase)) : SubSeq(line, i + 1, i + Len(phrase)) = phrase

\* What a call does: an action, its target as words, and what is known about
\* the target as <<attribute, value>> pairs.
Act(kind, target, attrs) == [kind |-> kind, target |-> target, attrs |-> attrs]
=============================================================================
