---------------------------- MODULE CentralPolicy ----------------------------
(***************************************************************************)
(* The central policy document and its evaluator (internal/shared/policy): *)
(* rules scoped to people, machines and agents, and the precedence that    *)
(* decides one action.                                                     *)
(*                                                                         *)
(* A path is the sequence of its segments, a hostname the sequence of its  *)
(* labels, an address a number of `Width' bits.  What the code compares    *)
(* without case is one value here.                                         *)
(***************************************************************************)
EXTENDS Integers, FiniteSets, Sequences, SequencesExt

CONSTANT Width  \* bits of an address: 32 in the code

ASSUME WidthAssumption == Width \in Nat

Addresses == 0 .. (2^Width - 1)
Decisions == {"allow", "require_approval", "deny"}
Rank(d)   == CASE d = "deny" -> 2 [] d = "require_approval" -> 1 [] OTHER -> 0

\* An action: a program, the files it opens, or a host; with the tool, command
\* or MCP call it is part of as one text, empty when the kernel's probe is judged.
NoHost == [ip |-> -1, name |-> <<>>]
Exec(b)        == [class |-> "exec", binary |-> b, paths |-> {}, host |-> NoHost, port |-> 0, text |-> <<>>]
Open(class, f) == [class |-> class, binary |-> <<>>, paths |-> {f}, host |-> NoHost, port |-> 0, text |-> <<>>]
Connect(ip)    == [class |-> "network", binary |-> <<>>, paths |-> {}, host |-> [NoHost EXCEPT !.ip = ip],
                   port |-> 0, text |-> <<>>]

-----------------------------------------------------------------------------
\* Patterns.

\* [star, text]: exact, or a prefix when the pattern ends in "*".
TextMatch(p, s) == IF p.star THEN IsPrefix(p.text, s) ELSE p.text = s

\* "**" spans directories, "*" stays inside one segment.
GlobMatch(pat, path) ==
  LET globParts[i \in 1 .. Len(pat) + 1, j \in 1 .. Len(path) + 1] ==
        IF i > Len(pat) THEN j > Len(path)
        ELSE IF pat[i] = "**" THEN \E k \in j .. Len(path) + 1 : globParts[i + 1, k]
        ELSE j <= Len(path) /\ pat[i] \in {"*", path[j]} /\ globParts[i + 1, j + 1]
  IN globParts[1, 1]

\* The addresses of a CIDR, and its first one.
Block(c) == {a \in Addresses : a \div 2^(Width - c.len) = c.net \div 2^(Width - c.len)}
FirstIn(c) == (c.net \div 2^(Width - c.len)) * 2^(Width - c.len)

HostMatch(p, host) ==
  CASE p.kind = "cidr"  -> host.ip # -1 /\ host.ip \in Block(p)
    [] p.kind = "under" -> host.name # <<>> /\ IsSuffix(p.name, host.name)
    [] p.kind = "name"  -> p.name = host.name

\* An empty list means any.
AnyOf(list, Ok(_)) == list = {} \/ \E x \in list : Ok(x)

-----------------------------------------------------------------------------
\* Who and what.

Anyone  == [agents |-> {}, users |-> {}, teams |-> {}, endpoints |-> {}, osUsers |-> {}]
Nothing == [classes |-> {}, texts |-> {}, binaries |-> {}, paths |-> {}, hosts |-> {}, ports |-> {}]

SelectorMatches(s, sub) ==
  /\ AnyOf(s.agents, LAMBDA a : a = sub.agent)
  /\ AnyOf(s.users, LAMBDA u : u = sub.owner)
  /\ AnyOf(s.teams, LAMBDA t : t \in sub.teams)
  /\ AnyOf(s.endpoints, LAMBDA e : e \in sub.endpoint)
  /\ AnyOf(s.osUsers, LAMBDA u : u = sub.osUser)

BinaryMatch(p, b) == b # <<>> /\ (TextMatch(p, b) \/ (~p.star /\ <<Last(b)>> = p.text))

TargetMatches(t, a) ==
  /\ AnyOf(t.classes, LAMBDA c : c = a.class)
  /\ AnyOf(t.ports, LAMBDA p : p = a.port)
  /\ AnyOf(t.texts, LAMBDA p : TextMatch(p, a.text))
  /\ AnyOf(t.binaries, LAMBDA p : BinaryMatch(p, a.binary))
  /\ AnyOf(t.paths, LAMBDA p : \E f \in a.paths : GlobMatch(p, f))
  /\ AnyOf(t.hosts, LAMBDA p : a.host # NoHost /\ HostMatch(p, a.host))

-----------------------------------------------------------------------------
\* The evaluator.  A policy has an id, a priority, a scope, a default (or "")
\* and a sequence of rules; a rule ends at `until' (0: never).

Live(r, now) == ~r.disabled /\ (r.until = 0 \/ now < r.until)

InScope(ps, sub) == {i \in DOMAIN ps : ps[i].enabled /\ SelectorMatches(ps[i].scope, sub)}

Candidates(ps, sub, a, now) ==
  {c \in InScope(ps, sub) \X UNION {DOMAIN ps[i].rules : i \in DOMAIN ps} :
     /\ c[2] \in DOMAIN ps[c[1]].rules
     /\ LET r == ps[c[1]].rules[c[2]] IN
        Live(r, now) /\ SelectorMatches(r.who, sub) /\ TargetMatches(r.what, a)}

\* Lower policy priority, lower rule priority, stricter decision, smaller rule
\* id; the sort is stable, so then the order of the documents.
Key(ps, c) == LET r == ps[c[1]].rules[c[2]] IN
              <<ps[c[1]].priority, r.priority, 2 - Rank(r.decision), r.id, c[1], c[2]>>
Precedes(k, l) == \E i \in DOMAIN k : k[i] < l[i] /\ \A j \in 1 .. i - 1 : k[j] = l[j]

NoRule == 0

\* The strictest default of the policies in scope; the first of equals.
DefaultOf(ps, sub) ==
  LET Strictest(is) == CHOOSE i \in is : \A j \in is :
                         Rank(ps[i].default) > Rank(ps[j].default)
                         \/ (Rank(ps[i].default) = Rank(ps[j].default) /\ i <= j)
      Says(p) == [decision |-> IF p.default = "" THEN "allow" ELSE p.default,
                  policy |-> p.id, rule |-> NoRule]
  IN IF InScope(ps, sub) = {} THEN [decision |-> "allow", policy |-> 0, rule |-> NoRule]
     ELSE Says(ps[Strictest(InScope(ps, sub))])

Evaluate(ps, sub, a, now) ==
  LET Best(cands) == CHOOSE c \in cands : \A d \in cands \ {c} : Precedes(Key(ps, c), Key(ps, d))
      Says(p, r)  == [decision |-> r.decision, policy |-> p.id, rule |-> r.id]
      At(c)       == Says(ps[c[1]], ps[c[1]].rules[c[2]])
      From(cands) == IF cands = {} THEN DefaultOf(ps, sub) ELSE At(Best(cands))
  IN From(Candidates(ps, sub, a, now))
=============================================================================
