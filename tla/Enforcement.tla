------------------------------ MODULE Enforcement ------------------------------
(***************************************************************************)
(* The engine that keeps an agent's kernel policy in force: the event loop *)
(* tracks and untracks the agent, a new policy, a break-glass window, new  *)
(* addresses and a reconnection re-apply its rule, each from a goroutine   *)
(* of its own.  An apply takes the rule under the lock, loads its          *)
(* documents one call at a time, registers them under the lock and then    *)
(* deletes what it replaces.  Tetragon and the daemon may stop and start.  *)
(* One pid is modelled: processes that reuse it come one after the other.  *)
(***************************************************************************)
EXTENDS Naturals, Sequences, FiniteSets

CONSTANTS
  Docs, GuardDocs, \* kernel documents (suffixes), and the ones loaded first
  Policies,        \* policy versions, by number
  Renders,         \* Renders[p]: the documents policy p renders
  MaxProcs, MaxChanges, MaxFaults, \* bounds
  MaxBusy          \* how many goroutines may be at work at once

ASSUME EnforcementAssumption ==
  /\ GuardDocs \subseteq Docs /\ Policies \subseteq Nat \ {0} /\ 1 \in Policies
  /\ Renders \in [Policies -> SUBSET Docs]
  /\ {MaxProcs, MaxChanges, MaxFaults, MaxBusy} \subseteq Nat

VARIABLES
  proc,      \* the process that has the pid, 0 for none
  procs,     \* how many there have been
  up, connected, first, \* the daemon, its event stream, no connection yet
  events,    \* what Tetragon sent and the loop has not handled
  pol,       \* the engine's policy
  window, over, \* a break-glass window is set, and whether its time is over
  fired,     \* its timer has fired and waits for the lock
  gen,
  roots,     \* the Root objects of this run, in order
  tracked,   \* the one in the map of roots, 0 for none
  owned,     \* the keys of byPolicy
  work,      \* what each goroutine does
  kernel,    \* what Tetragon has loaded
  undeleted, \* history: policies a failed call left loaded
  snatched,  \* history: policies that Reconcile or a restart of Tetragon removed
             \* while their apply was under way, or that Reconcile took for stale
  reconciled, \* history: the Reconcile of this connection has ended
  raced,     \* history: a root was untracked or replaced during an apply, or replaced
  changes, faults  \* what is left of the bounds

engine == <<pol, window, over, fired, gen, roots, tracked, owned>>
world  == <<proc, procs>>
link   == <<up, connected, first, events>>
limits == <<changes, faults>>
notes  == <<undeleted, snatched, reconciled, raced>>
vars   == <<world, link, engine, work, kernel, notes, limits>>

\* The goroutines: the event loop, the sweep, the policy sync, Tetragon's
\* connection, the API's break-glass handler, the window's timer, the resolver.
Routines == {"loop", "sweep", "sync", "stream", "api", "timer", "resolver"}

Names == [gen : Nat, doc : Docs]
Rules == [policy : Policies, lifted : BOOLEAN]
Idle  == [pc |-> "idle", root |-> 0, gen |-> 0, rule |-> [policy |-> 1, lifted |-> FALSE],
          docs |-> {}, added |-> {}, failed |-> {}, names |-> {}, have |-> {}, stale |-> {}, then |-> <<>>]

\* What a goroutine is at, and a Root.
Steps == {"reapply", "scan", "reconcile"}
Work == [pc : {"idle", "next", "track", "load", "delete", "check", "remove"}, root : Nat, gen : Nat,
         rule : Rules, docs : SUBSET Docs, added : SUBSET Docs, failed : SUBSET Docs,
         names : SUBSET Names, have : SUBSET Names, stale : SUBSET Names, then : Seq(Steps)]
Root == [exec : 0..MaxProcs, policies : SUBSET Names, last : [gen : Nat, whole : BOOLEAN]]

TypeOK ==
  /\ proc \in 0..MaxProcs /\ procs \in 0..MaxProcs
  /\ up \in BOOLEAN /\ connected \in BOOLEAN /\ first \in BOOLEAN
  /\ events \in Seq([type : {"exec", "exit"}, proc : 0..MaxProcs])
  /\ pol \in Policies /\ window \in BOOLEAN /\ over \in BOOLEAN /\ fired \in BOOLEAN
  /\ gen \in Nat /\ roots \in Seq(Root) /\ tracked \in 0..Len(roots) /\ owned \in SUBSET Names
  /\ work \in [Routines -> Work]
  /\ \A g \in Routines : /\ work[g].pc = "load" => work[g].root \in 1..Len(roots)
                         /\ work[g].pc = "track" => work[g].root \in 0..MaxProcs
                         /\ work[g].pc = "next" => work[g].then # <<>>
  /\ kernel \in SUBSET [name : Names, rule : Rules]
  /\ undeleted \in SUBSET Names /\ snatched \in SUBSET Names
  /\ reconciled \in BOOLEAN /\ raced \in BOOLEAN
  /\ changes \in 0..MaxChanges /\ faults \in 0..MaxFaults

Loaded == {k.name : k \in kernel}

\* ruleFor: the policy's rule, its approval lists lifted while a window lasts.
RuleFor(p) == [policy |-> p, lifted |-> window /\ ~over]
DocsOf(rule) == Renders[rule.policy]

\* The daemon is up and connected, no agent runs.
Init ==
  /\ proc = 0 /\ procs = 0 /\ up = TRUE /\ connected = TRUE /\ first = FALSE /\ events = <<>>
  /\ pol = 1 /\ window = FALSE /\ over = FALSE /\ fired = FALSE
  /\ gen = 0 /\ roots = <<>> /\ tracked = 0 /\ owned = {}
  /\ work = [g \in Routines |-> Idle] /\ kernel = {}
  /\ undeleted = {} /\ snatched = {} /\ reconciled = TRUE /\ raced = FALSE
  /\ changes = MaxChanges /\ faults = MaxFaults

----------------------------------------------------------------------------
(* The agent's processes.  What starts or ends while the stream is down is *)
(* never delivered.                                                        *)

Deliver(type, p) ==
  events' = IF connected THEN Append(events, [type |-> type, proc |-> p]) ELSE events

ProcessStarts ==
  /\ proc = 0 /\ procs < MaxProcs
  /\ proc' = procs + 1 /\ procs' = procs + 1
  /\ Deliver("exec", procs + 1)
  /\ UNCHANGED <<up, connected, first, engine, work, kernel, notes, limits>>

ProcessEnds ==
  /\ proc # 0 /\ proc' = 0
  /\ Deliver("exit", proc)
  /\ UNCHANGED <<procs, up, connected, first, engine, work, kernel, notes, limits>>

----------------------------------------------------------------------------
(* An apply.                                                               *)

Free(g) == work[g].pc = "idle" /\ Cardinality({h \in Routines : work[h].pc # "idle"}) < MaxBusy
Step(g, w) == work' = [work EXCEPT ![g] = w]
Rest(g) == [Idle EXCEPT !.pc = IF work[g].then = <<>> THEN "idle" ELSE "next", !.then = work[g].then]

\* What a goroutine does next, `steps', the first of them now pending.
Then(steps) == [Idle EXCEPT !.pc = "next", !.then = steps]

\* The rule and the generation are taken under the lock.
StartApply(g, i, steps) ==
  /\ gen' = gen + 1
  /\ Step(g, [Idle EXCEPT !.pc = "load", !.root = i, !.gen = gen + 1, !.rule = RuleFor(pol),
                          !.docs = DocsOf(RuleFor(pol)), !.then = steps])

Reapply(g, steps) ==
  \/ /\ tracked # 0 /\ StartApply(g, tracked, steps)
  \/ /\ tracked = 0 /\ gen' = gen
     /\ Step(g, IF steps = <<>> THEN Idle ELSE Then(steps))

\* Documents that can be loaded now: the guard's first.
Ready(w) == LET guard == (w.docs \ (w.added \cup w.failed)) \cap GuardDocs
            IN  IF guard # {} THEN guard ELSE w.docs \ (w.added \cup w.failed)

\* Tetragon refuses a name that is loaded: a restarted daemon counts its
\* generations from the start again.
Add(g, d) ==
  /\ work[g].pc = "load" /\ d \in Ready(work[g])
  /\ LET n == [gen |-> work[g].gen, doc |-> d] IN
     \/ /\ n \notin Loaded /\ kernel' = kernel \cup {[name |-> n, rule |-> work[g].rule]}
        /\ work' = [work EXCEPT ![g].added = @ \cup {d}] /\ UNCHANGED faults
     \/ /\ n \in Loaded \/ faults > 0
        /\ faults' = IF n \in Loaded THEN faults ELSE faults - 1
        /\ work' = [work EXCEPT ![g].failed = @ \cup {d}] /\ UNCHANGED kernel
  /\ UNCHANGED <<world, link, engine, notes, changes>>

\* Mutant: everything old goes, whatever failed.
KeptNone(w) == {}

\* An old document stays when its replacement did not load.
Kept(w)  == {n \in roots[w.root].policies : n.doc \in w.failed}
Fresh(w) == {[gen |-> w.gen, doc |-> d] : d \in w.added}

Register(g) ==
  /\ work[g].pc = "load" /\ Ready(work[g]) = {}
  /\ LET w    == work[g]
         drop == roots[w.root].policies \ Kept(w)
     IN  /\ roots' = [roots EXCEPT ![w.root].policies = Kept(w) \cup Fresh(w),
                                   ![w.root].last = [gen |-> w.gen, whole |-> w.failed = {}]]
         /\ owned' = (owned \ drop) \cup Kept(w) \cup Fresh(w)
         /\ Step(g, [Idle EXCEPT !.pc = "delete", !.names = drop, !.then = w.then])
  /\ UNCHANGED <<world, link, pol, window, over, fired, gen, tracked, kernel, notes, limits>>

\* The calls follow each other; one that fails is only logged.
Delete(g) ==
  /\ work[g].pc = "delete" /\ Step(g, Rest(g))
  /\ \E failing \in {{}} \cup {{n} : n \in work[g].names \cap Loaded} :
       /\ faults >= Cardinality(failing) /\ faults' = faults - Cardinality(failing)
       /\ kernel' = {k \in kernel : k.name \notin work[g].names \ failing}
       /\ undeleted' = (undeleted \ work[g].names) \cup failing
  /\ UNCHANGED <<world, link, engine, snatched, reconciled, raced, changes>>

----------------------------------------------------------------------------
(* Tracking and untracking.                                                *)

Applying(i) == \E g \in Routines : work[g].pc = "load" /\ work[g].root = i

\* track: the new Root takes the pid's place in the map, whoever had it.
Track(g) ==
  /\ work[g].pc = "track"
  /\ roots' = Append(roots, [exec |-> work[g].root, policies |-> {}, last |-> [gen |-> 0, whole |-> FALSE]])
  /\ tracked' = Len(roots) + 1
  /\ raced' = (raced \/ tracked # 0)
  /\ StartApply(g, Len(roots) + 1, work[g].then)
  /\ UNCHANGED <<world, link, pol, window, over, fired, owned, kernel,
                 undeleted, snatched, reconciled, limits>>

\* `root' holds the exec id until the Root exists.
Tracking(p, steps) == [Idle EXCEPT !.pc = "track", !.root = p, !.then = steps]

Follows(i, p) == roots[i].exec \in {0, p}

\* The stream is read once onConnect has returned; what it brings when it breaks
\* may be lost.
Received == Free("loop") /\ work["stream"].pc = "idle" /\ events # <<>>

OnExec ==
  /\ Received /\ Head(events).type = "exec"
  /\ events' = Tail(events)
  /\ LET p == Head(events).proc IN
     \/ /\ tracked # 0 /\ Follows(tracked, p)
        /\ roots' = [roots EXCEPT ![tracked].exec = p] /\ UNCHANGED work
     \/ /\ ~(tracked # 0 /\ Follows(tracked, p))
        /\ Step("loop", Tracking(p, <<>>)) /\ UNCHANGED roots
  /\ UNCHANGED <<world, up, connected, first, pol, window, over, fired, gen, tracked, owned,
                 kernel, notes, limits>>

\* Mutant: what the agent had loaded is left to Tetragon.
UntrackKeeps(g) ==
  /\ tracked' = 0
  /\ owned' = owned \ roots[tracked].policies
  /\ UNCHANGED work
  /\ raced' = (raced \/ Applying(tracked))
  /\ UNCHANGED <<pol, window, over, fired, gen, roots, kernel, undeleted, snatched, reconciled, limits>>

Untrack(g) ==
  /\ tracked' = 0
  /\ owned' = owned \ roots[tracked].policies
  /\ Step(g, [Idle EXCEPT !.pc = "delete", !.names = roots[tracked].policies])
  /\ raced' = (raced \/ Applying(tracked))
  /\ UNCHANGED <<pol, window, over, fired, gen, roots, kernel, undeleted, snatched, reconciled, limits>>

OnExit ==
  /\ Received /\ Head(events).type = "exit"
  /\ events' = Tail(events)
  /\ \/ tracked # 0 /\ Follows(tracked, Head(events).proc) /\ Untrack("loop")
     \/ ~(tracked # 0 /\ Follows(tracked, Head(events).proc)) /\ UNCHANGED <<engine, work, kernel, notes, limits>>
  /\ UNCHANGED <<world, up, connected, first>>

\* The sweep: a root whose pid is gone, its exit missed.
Sweep ==
  /\ up /\ Free("sweep") /\ tracked # 0 /\ proc = 0
  /\ Untrack("sweep")
  /\ UNCHANGED <<world, link>>

\* Bootstrap decides on what is tracked when it looks, and tracks afterwards.
Bootstrap(g) ==
  /\ work[g].pc = "next" /\ Head(work[g].then) = "scan"
  /\ LET steps == Tail(work[g].then) IN
     \/ proc # 0 /\ tracked = 0 /\ Step(g, Tracking(0, steps))
     \/ ~(proc # 0 /\ tracked = 0) /\ Step(g, IF steps = <<>> THEN Idle ELSE Then(steps))
  /\ UNCHANGED <<world, link, engine, kernel, notes, limits>>

----------------------------------------------------------------------------
(* What makes the engine apply again.                                      *)

ReapplyNext(g) ==
  /\ work[g].pc = "next" /\ Head(work[g].then) = "reapply"
  /\ Reapply(g, Tail(work[g].then))
  /\ UNCHANGED <<world, link, pol, window, over, fired, roots, tracked, owned, kernel, notes, limits>>

\* SetPolicy: swap, re-apply, then look for running agents (once connected).
SetPolicy(p) ==
  /\ up /\ changes > 0 /\ Free("sync") /\ p # pol
  /\ pol' = p /\ changes' = changes - 1
  /\ Step("sync", Then(IF first THEN <<"reapply">> ELSE <<"reapply", "scan">>))
  /\ UNCHANGED <<world, link, window, over, fired, gen, roots, tracked, owned, kernel, notes,
                 faults>>

\* A denied hostname has other addresses: the rule is expanded anew.
OnDomainsChanged ==
  /\ up /\ changes > 0 /\ Free("resolver")
  /\ changes' = changes - 1
  /\ Step("resolver", Then(<<"reapply">>))
  /\ UNCHANGED <<world, link, engine, kernel, notes, faults>>

\* A timer that has not fired is stopped.
SetBreakGlass ==
  /\ up /\ Free("api") /\ changes > 0
  /\ changes' = changes - 1 /\ window' = TRUE /\ over' = FALSE
  /\ Step("api", Then(<<"reapply">>))
  /\ UNCHANGED <<world, link, pol, fired, gen, roots, tracked, owned, kernel, notes, faults>>

\* The window's time is over: rules computed from now on are not lifted, and
\* its timer fires.
WindowOver ==
  /\ window /\ ~over /\ over' = TRUE /\ fired' = up
  /\ UNCHANGED <<world, link, pol, window, gen, roots, tracked, owned, work, kernel, notes, limits>>

\* Mutant: the window is closed and nothing re-applied.
ExpireBreakGlassOnly ==
  /\ fired /\ Free("timer") /\ fired' = FALSE
  /\ window' = FALSE /\ over' = FALSE /\ UNCHANGED work
  /\ UNCHANGED <<world, link, pol, gen, roots, tracked, owned, kernel, notes, limits>>

\* The timer closes whichever window is open once it has the lock.
ExpireBreakGlass ==
  /\ fired /\ Free("timer") /\ fired' = FALSE
  /\ window' = FALSE /\ over' = FALSE
  /\ IF ~window THEN UNCHANGED work ELSE Step("timer", Then(<<"reapply">>))
  /\ UNCHANGED <<world, link, pol, gen, roots, tracked, owned, kernel, notes, limits>>

----------------------------------------------------------------------------
(* The connection to Tetragon.                                             *)

\* SetGuard and SetGateExempt re-apply (one re-apply stands for the two), the
\* first connection looks for running agents, every connection reconciles.
Connect ==
  /\ up /\ ~connected /\ Free("stream")
  /\ connected' = TRUE /\ reconciled' = FALSE
  /\ Step("stream", Then(IF first THEN <<"reapply", "scan", "reconcile">>
                                  ELSE <<"reapply", "reconcile">>))
  /\ UNCHANGED <<world, up, first, events, engine, kernel, undeleted, snatched, raced, limits>>

\* Rescans are on from here; a list that fails ends the Reconcile.
Reconcile ==
  /\ work["stream"].pc = "next" /\ Head(work["stream"].then) = "reconcile"
  /\ first' = FALSE
  /\ \/ /\ Step("stream", [Idle EXCEPT !.pc = "check", !.names = Loaded, !.have = Loaded])
        /\ UNCHANGED faults
     \/ faults > 0 /\ faults' = faults - 1 /\ Step("stream", Idle)
  /\ UNCHANGED <<world, up, connected, events, engine, kernel, notes, changes>>

\* Names of ours are skipped.
Check(n) ==
  /\ work["stream"].pc = "check" /\ n \in work["stream"].names \ owned
  /\ Step("stream", [work["stream"] EXCEPT !.pc = "remove", !.stale = {n}])
  /\ UNCHANGED <<world, link, engine, kernel, notes, limits>>

InFlight(n) == \E g \in Routines : work[g].pc = "load" /\ work[g].gen = n.gen /\ n.doc \in work[g].added

\* Its error is ignored; what Reconcile has checked is removed whatever
\* happened in between.
Remove ==
  /\ work["stream"].pc = "remove"
  /\ \E n \in work["stream"].stale :
       /\ Step("stream", [work["stream"] EXCEPT !.pc = "check", !.names = @ \ {n}, !.stale = {}])
       /\ \/ /\ kernel' = {k \in kernel : k.name # n} /\ undeleted' = undeleted \ {n}
             /\ snatched' = IF n \in owned \/ InFlight(n) THEN snatched \cup {n} ELSE snatched
             /\ UNCHANGED faults
          \/ /\ faults > 0 /\ faults' = faults - 1 /\ undeleted' = undeleted \cup {n}
             /\ UNCHANGED <<kernel, snatched>>
  /\ UNCHANGED <<world, link, engine, reconciled, raced, changes>>

\* A root whose policies were not all listed, or that has none, is applied again.
Missing == tracked # 0 /\ (roots[tracked].policies = {} \/ ~(roots[tracked].policies \subseteq work["stream"].have))

Checked ==
  /\ work["stream"].pc = "check" /\ work["stream"].names \subseteq owned
  /\ IF Missing THEN Reapply("stream", <<>>) ELSE Step("stream", Idle) /\ gen' = gen
  /\ reconciled' = TRUE
  /\ UNCHANGED <<world, link, pol, window, over, fired, roots, tracked, owned, kernel,
                 undeleted, snatched, raced, limits>>

\* Tetragon restarts with nothing loaded, or only the stream breaks.
Break ==
  /\ connected /\ faults > 0 /\ faults' = faults - 1
  /\ connected' = FALSE /\ reconciled' = FALSE /\ events' \in {events, <<>>}
  /\ \/ kernel' = {} /\ undeleted' = {} /\ snatched' = snatched \cup {n \in Loaded : InFlight(n)}
     \/ UNCHANGED <<kernel, undeleted, snatched>>
  /\ UNCHANGED <<world, up, first, engine, work, raced, changes>>

----------------------------------------------------------------------------
(* The daemon.                                                             *)

Down ==
  /\ up' = FALSE /\ connected' = FALSE /\ events' = <<>>
  /\ fired' = FALSE /\ gen' = 0 /\ roots' = <<>> /\ tracked' = 0 /\ owned' = {}
  /\ work' = [g \in Routines |-> Idle]
  /\ faults' = faults - 1 /\ snatched' = {} /\ reconciled' = FALSE /\ raced' = FALSE
  /\ UNCHANGED <<world, first, pol, window, over, changes>>

\* Killed: what it loaded stays loaded.
Crash == up /\ faults > 0 /\ Down /\ UNCHANGED <<kernel, undeleted>>

\* Stopped: it deletes the tracked agents' policies first.
Stop ==
  /\ up /\ faults > 0 /\ Down /\ UNCHANGED undeleted
  /\ kernel' = IF tracked = 0 THEN kernel ELSE {k \in kernel : k.name \notin roots[tracked].policies}

\* Its policy comes back from the cache, a window that lasts from its file
\* (what it has loaded for the agent before is in nobody's list).
Start ==
  /\ ~up /\ up' = TRUE /\ first' = TRUE
  /\ window' = (window /\ ~over)
  /\ over' = FALSE
  /\ UNCHANGED <<world, connected, events, pol, fired, gen, roots, tracked, owned, work, kernel, notes, limits>>

----------------------------------------------------------------------------
Apply     == \E g \in Routines : (\E d \in Docs : Add(g, d)) \/ Register(g)
                                   \/ Delete(g)
Follow    == \E g \in Routines : Track(g) \/ Bootstrap(g) \/ ReapplyNext(g)
Change    == (\E p \in Policies : SetPolicy(p)) \/ OnDomainsChanged \/ SetBreakGlass \/ WindowOver \/ ExpireBreakGlass
Reconcils == Reconcile \/ (\E n \in work["stream"].names : Check(n)) \/ Remove \/ Checked

Next ==
  \/ ProcessStarts \/ ProcessEnds \/ OnExec \/ OnExit \/ Sweep
  \/ Apply \/ Follow \/ Change
  \/ Connect \/ Reconcils \/ Break
  \/ Crash \/ Stop \/ Start

Spec == Init /\ [][Next]_vars

----------------------------------------------------------------------------
(* Properties.                                                             *)

Settled == /\ connected /\ reconciled /\ ~fired /\ events = <<>>
           /\ \A g \in Routines : work[g].pc = "idle"

Policed == IF tracked = 0 THEN {} ELSE roots[tracked].policies

\* Once every goroutine is idle, the kernel enforces exactly the current rule:
\* the policy last set, lifted only while a window lasts.  Two cases are
\* excepted: an apply that took its rule earlier registered last, and one
\* whose documents did not all load or were removed under it.
KernelCurrent ==
  (/\ Settled /\ tracked # 0 /\ ~raced
   /\ roots[tracked].last = [gen |-> gen, whole |-> TRUE] /\ snatched \cap Policed = {})
  => {k \in kernel : k.name \notin undeleted \ Policed}
       = {[name |-> [gen |-> gen, doc |-> d], rule |-> RuleFor(pol)] : d \in DocsOf(RuleFor(pol))}

\* What is loaded is a tracked agent's, or a call to delete it failed: no
\* policy outlives its agent or an earlier run of the daemon, unless the agent
\* was untracked during an apply or its pid was tracked twice.
NoStrays == Settled /\ ~raced => Loaded \subseteq undeleted \cup Policed

\* Make before break: a document in force for a tracked agent stays in force
\* whatever is re-applied, fails to load or is reconciled, until a rule that does
\* not render it; a restart of Tetragon and Reconcile's race are excepted.
Protected == {n.doc : n \in Policed \cap Loaded}
Unrendered(d) == \E g \in Routines : work[g].pc = "load" /\ work'[g].pc = "delete" /\ d \notin work[g].docs
NeverLess ==
  [][tracked # 0 /\ tracked' = tracked
     => \A d \in Protected : \/ d \in Protected' \/ (connected /\ ~connected') \/ Unrendered(d)
                             \/ \E n \in (snatched \cap Policed)' : n.doc = d]_vars

\* What breakglass.go says of the end of a window ("schedules a re-apply at
\* expiry to put the denies back"): once it is over and every goroutine idle,
\* the approval lists are denied again.
DeniesBack ==
  Settled /\ tracked # 0 /\ ~window /\ faults = MaxFaults => \A k \in kernel : ~k.rule.lifted
=============================================================================
