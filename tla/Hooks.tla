-------------------------------- MODULE Hooks --------------------------------
(* The daemon's answer to the agents' hooks (cmd/effigentd/hooks.go, gate.go;
   session.go under internal/endpoint/hooks). Each call is a goroutine: it takes
   the agent's rule and the session's history, judges the call (ToolRules),
   asks an approver where the rule says so, records the call in its session and
   answers. *)
EXTENDS AgentCalls

CONSTANTS
  Keys,           \* the agent/session keys; "" is a call without a session
  SessionWindow, SessionCalls, SessionTTL, MaxSessions, MaxHosts,
  Instances       \* bounds: [calls, rules, threads, total, time, switches, connected]

ASSUME HooksAssumption ==
  /\ {SessionWindow, SessionCalls, SessionTTL, MaxSessions, MaxHosts} \subseteq Nat
  /\ SessionWindow < SessionTTL /\ MaxSessions > 0

VARIABLES
  instance,   \* which bounds these are
  received,   \* how many calls came in
  switched,   \* how often the rule or the window changed
  now,        \* the clock
  rule,       \* the rule eng.RuleFor returns
  window,     \* a break-glass window is open
  connected,  \* the machine has a control plane to ask
  thread,     \* the calls being answered
  table,      \* Sessions: key -> [last, n, secret, untrusted, hosts]
  log,        \* what was recorded per session, all of it (history)
  dropped     \* the sessions the table has dropped -> "idle" or "full" (history)

bounds == <<instance, received, switched>>
vars == <<instance, received, switched, now, rule, window, connected, thread, table, log, dropped>>
Bound == Instances[instance]

-----------------------------------------------------------------------------
(* Sessions. A mark is [at, n]; n = 0 for none. *)

NoMark == [at |-> 0, n |-> 0]
NewSession == [last |-> 0, n |-> 0, secret |-> NoMark, untrusted |-> NoMark, hosts |-> {}]

\* Mutant: one call too few is in the window.
InWindow_Less(m, cur, t) == m.n > 0 /\ t - m.at <= SessionWindow /\ cur.n - m.n + 1 < SessionCalls

InWindow(m, cur, t) == m.n > 0 /\ t - m.at <= SessionWindow /\ cur.n - m.n < SessionCalls

History(key) ==
  IF key = "" THEN [known |-> FALSE, secret |-> FALSE, untrusted |-> FALSE, hosts |-> {}]
  ELSE LET cur == IF key \in DOMAIN table THEN table[key] ELSE NewSession
       IN [known |-> TRUE, secret |-> InWindow(cur.secret, cur, now), untrusted |-> InWindow(cur.untrusted, cur, now), hosts |-> cur.hosts]

\* The sessions a new one displaces: the idle ones, then the least recently used.
Idle(tab) == {k \in DOMAIN tab : now - tab[k].last > SessionTTL}
Displaced(tab) ==
  LET left == DOMAIN tab \ Idle(tab)
      Older(K) == \A k \in K, j \in left \ K : tab[k].last <= tab[j].last
      over == IF Cardinality(left) < MaxSessions THEN 0 ELSE Cardinality(left) - MaxSessions + 1
  IN {K \in SUBSET left : Cardinality(K) = over /\ Older(K)}

\* As many of the call's hosts as the session still has room for, in order.
WithHosts(hosts, more) ==
  FoldLeft(LAMBDA set, h : IF Cardinality(set) < MaxHosts THEN set \cup {h} ELSE set, hosts, more)

RecordIn(cur, seen, ran) ==
  LET n == cur.n + 1
      next == [cur EXCEPT !.last = now, !.n = n]
      Mark(old, is) == IF is THEN [at |-> now, n |-> n] ELSE old
  IN IF ~ran THEN next
     ELSE [next EXCEPT !.hosts = WithHosts(@, seen.hosts), !.secret = Mark(@, seen.secret), !.untrusted = Mark(@, seen.untrusted)]

Entry(seen, ran) == [at |-> now, hosts |-> ToWords(seen.hosts), secret |-> seen.secret, untrusted |-> seen.untrusted, ran |-> ran]

Record(key, seen, ran) ==
  CASE key = "" -> UNCHANGED <<table, log, dropped>>
    [] key \in DOMAIN table ->
         /\ table' = [table EXCEPT ![key] = RecordIn(@, seen, ran)]
         /\ log' = [log EXCEPT ![key] = Append(@, Entry(seen, ran))]
         /\ UNCHANGED dropped
    [] OTHER ->
         \E full \in Displaced(table) :
           LET idle == Idle(table)
               kept == DOMAIN table \ (idle \cup full)
           IN /\ table' = (key :> RecordIn(NewSession, seen, ran)) @@ [k \in kept |-> table[k]]
              /\ log' = [log EXCEPT ![key] = Append(@, Entry(seen, ran))]
              /\ dropped' = [k \in Keys |-> IF k \in full THEN "full" ELSE IF k \in idle /\ dropped[k] = "" THEN "idle" ELSE dropped[k]]

-----------------------------------------------------------------------------
(* A call. c is [agent, key, env, via, payload]; the gate's calls
   (gate.go) are Claude Code's Bash without a session. *)

NoCall == [pc |-> "idle"]

Context(c, r, hist) == [rule |-> r, cwd |-> <<>>, env |-> c.env, agent |-> c.agent, via |-> c.via, hist |-> hist]
Judge(c, r, hist) == EvaluateCall(Context(c, r, hist), Parse(c.agent, c.payload))

Receive(t, c) ==
  /\ thread[t].pc = "idle" /\ received < Bound.total
  /\ ~Skipped(c.agent, c.payload)
  /\ thread' = [thread EXCEPT ![t] = [pc |-> "ruled", c |-> c, rule |-> rule]]
  /\ received' = received + 1
  /\ UNCHANGED <<instance, switched, now, rule, window, connected, table, log, dropped>>

\* The history is a copy: calls recorded from now on are not in it.
Look(t) ==
  LET th == thread[t]
      hist == History(th.c.key)
  IN /\ th.pc = "ruled"
     /\ thread' = [thread EXCEPT ![t] =
          [pc |-> "judged", c |-> th.c, rule |-> th.rule, hist |-> hist, d |-> Judge(th.c, th.rule, hist),
           at |-> now, upto |-> IF th.c.key = "" THEN 0 ELSE Len(log[th.c.key])]]
     /\ UNCHANGED <<bounds, now, rule, window, connected, table, log, dropped>>

Answer(t, ran) ==
  /\ Record(thread[t].c.key, thread[t].d.seen, ran)
  /\ thread' = [thread EXCEPT ![t] = NoCall]
  /\ UNCHANGED <<bounds, now, rule, window, connected>>

\* Nobody is asked: the verdict stands, or a break-glass window lets a call run
\* that would have needed an approver. Deny lists have been read before.
Decide(t) ==
  /\ thread[t].pc = "judged"
  /\ \/ thread[t].d.verdict # "approve" /\ Answer(t, thread[t].d.verdict # "deny")
     \/ thread[t].d.verdict = "approve" /\ window /\ Answer(t, TRUE)
     \/ thread[t].d.verdict = "approve" /\ ~window /\ ~connected /\ Answer(t, FALSE)

Ask(t) ==
  /\ thread[t].pc = "judged" /\ thread[t].d.verdict = "approve" /\ ~window /\ connected
  /\ thread' = [thread EXCEPT ![t].pc = "asking"]
  /\ UNCHANGED <<bounds, now, rule, window, connected, table, log, dropped>>

\* Only an approval lets the call run: not a denial, an expiry, a request still
\* pending when the wait ends, an error or an agent that gave up.
Outcomes == {"approved", "denied", "expired", "pending", "error", "cancelled"}
Asked(t, outcome) ==
  /\ thread[t].pc = "asking"
  /\ Answer(t, outcome = "approved")

-----------------------------------------------------------------------------
(* The rest of the daemon. *)

Switch == switched < Bound.switches /\ switched' = switched + 1

SetRule == \E i \in DOMAIN Bound.rules :
  /\ Bound.rules[i] # rule /\ Switch
  /\ rule' = Bound.rules[i]
  /\ UNCHANGED <<instance, received, now, window, connected, thread, table, log, dropped>>

SetWindow == /\ Switch
             /\ window' = ~window
             /\ UNCHANGED <<instance, received, now, rule, connected, thread, table, log, dropped>>

Tick == /\ now < Bound.time
        /\ now' = now + 1
        /\ UNCHANGED <<bounds, rule, window, connected, thread, table, log, dropped>>

Init ==
  /\ instance \in DOMAIN Instances
  /\ received = 0 /\ switched = 0 /\ now = 0 /\ window = FALSE
  /\ \E i \in DOMAIN Bound.rules : rule = Bound.rules[i]
  /\ connected \in Bound.connected
  /\ thread = [t \in Bound.threads |-> NoCall]
  /\ table = <<>>
  /\ log = [k \in Keys |-> <<>>]
  /\ dropped = [k \in Keys |-> ""]

Next ==
  \/ \E t \in DOMAIN thread : \/ \E i \in DOMAIN Bound.calls : Receive(t, Bound.calls[i])
                             \/ Look(t) \/ Decide(t) \/ Ask(t) \/ \E o \in Outcomes : Asked(t, o)
  \/ SetRule \/ SetWindow \/ Tick

Spec == Init /\ [][Next]_vars

-----------------------------------------------------------------------------
(* Properties. *)

AtVerdict(t) == thread[t].pc = "judged"

\* The calls of the session recorded before this one looked, and those of them
\* that are in the window.
Past(t) == {i \in 1..thread[t].upto : log[thread[t].c.key][i].ran}
Recent(t) == {i \in Past(t) : thread[t].at - log[thread[t].c.key][i].at <= SessionWindow /\ thread[t].upto - i < SessionCalls}

\* A host the call contacts and no earlier call of its session did, after a
\* credential was read in the window or in this call.
Exfiltrates(t) ==
  /\ thread[t].c.key # ""
  /\ thread[t].d.seen.secret \/ \E i \in Recent(t) : log[thread[t].c.key][i].secret
  /\ ~(ToWords(thread[t].d.seen.hosts) \subseteq UNION {log[thread[t].c.key][i].hosts : i \in Past(t)})

RiskyAfter(t) ==
  /\ thread[t].c.key # ""
  /\ \E i \in Recent(t) : log[thread[t].c.key][i].untrusted
  /\ \E a \in thread[t].d.acts : a.kind \in RiskyKinds

Acted(t, kind) == \E a \in thread[t].d.acts : a.kind = kind

\* The session rules see what the session did (session.go:17-28): a call is
\* reported as exfil_sequence or untrusted_then_risky exactly when the recorded
\* calls of its session, in the window, say so. Excepted are sessions the full
\* table dropped; and one dropped for being idle, or over its hosts, is only
\* reported more often. A same-call file_alert is a read the report misses.
SequenceCaught ==
  \A t \in DOMAIN thread : AtVerdict(t) /\ thread[t].d.verdict # "alert" =>
    LET key == thread[t].c.key
        whole == key = "" \/ dropped[key] # "full"
        exact == key = "" \/ (dropped[key] = "" /\ Cardinality(UNION {log[key][i].hosts : i \in Past(t)}) < MaxHosts)
    IN /\ whole /\ Exfiltrates(t) => Acted(t, "exfil_sequence")
       /\ exact /\ Acted(t, "exfil_sequence") => Exfiltrates(t)
       /\ whole => (Acted(t, "untrusted_then_risky") <=> RiskyAfter(t))
=============================================================================
