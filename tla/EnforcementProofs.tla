--------------------------- MODULE EnforcementProofs ---------------------------
(***************************************************************************)
(* However applies, tracking, policy changes, windows, reconciles, broken  *)
(* streams and restarts interleave, the kernel enforces the current rule   *)
(* once the engine is at rest, no policy is left behind, and a document in *)
(* force stays in force (Enforcement).                                     *)
(***************************************************************************)
EXTENDS Enforcement, FiniteSetTheorems, TLAPS

\* The parts of the type invariant.
Event == [type : {"exec", "exit"}, proc : 0..MaxProcs]
Kernel == [name : Names, rule : Rules]
Sound(w, n) == /\ w.pc = "load" => w.root \in 1..n
               /\ w.pc = "track" => w.root \in 0..MaxProcs
               /\ w.pc = "next" => w.then # <<>>

WorldOK == proc \in 0..MaxProcs /\ procs \in 0..MaxProcs
LinkOK  == up \in BOOLEAN /\ connected \in BOOLEAN /\ first \in BOOLEAN /\ events \in Seq(Event)
RuleOK  == pol \in Policies /\ window \in BOOLEAN /\ over \in BOOLEAN /\ fired \in BOOLEAN
RootsOK == gen \in Nat /\ roots \in Seq(Root) /\ tracked \in 0..Len(roots) /\ owned \in SUBSET Names
WorkOK  == work \in [Routines -> Work] /\ \A g \in Routines : Sound(work[g], Len(roots))
NotesOK == /\ kernel \in SUBSET Kernel /\ undeleted \in SUBSET Names /\ snatched \in SUBSET Names
           /\ reconciled \in BOOLEAN /\ raced \in BOOLEAN
LimitsOK == changes \in 0..MaxChanges /\ faults \in 0..MaxFaults

LEMMA Typed == TypeOK <=> WorldOK /\ LinkOK /\ RuleOK /\ RootsOK /\ WorkOK /\ NotesOK /\ LimitsOK
  BY DEF TypeOK, WorldOK, LinkOK, RuleOK, RootsOK, WorkOK, NotesOK, LimitsOK, Event, Kernel, Sound

LEMMA TypedNext == WorldOK' /\ LinkOK' /\ RuleOK' /\ RootsOK' /\ WorkOK' /\ NotesOK' /\ LimitsOK' => TypeOK'
  BY DEF TypeOK, WorldOK, LinkOK, RuleOK, RootsOK, WorkOK, NotesOK, LimitsOK, Event, Kernel, Sound

LEMMA Bounds == MaxProcs \in Nat /\ MaxChanges \in Nat /\ MaxFaults \in Nat /\ 1 \in Policies
  BY EnforcementAssumption

-----------------------------------------------------------------------------
(* What a goroutine can be at.                                             *)

LEMMA RuleIsRule == RuleOK => RuleFor(pol) \in Rules
  BY DEF RuleOK, RuleFor, Rules

LEMMA DocsAreDocs == \A rule \in Rules : DocsOf(rule) \in SUBSET Docs
  BY EnforcementAssumption DEF Rules, DocsOf

LEMMA IdleIsWork == Idle \in Work /\ Idle.pc = "idle" /\ Idle.then = <<>>
<1>1. [policy |-> 1, lifted |-> FALSE] \in Rules
  BY Bounds DEF Rules
<1>2. QED BY <1>1 DEF Idle, Work

LEMMA ThenIsWork ==
  ASSUME NEW steps \in Seq(Steps)
  PROVE  Then(steps) \in Work /\ Then(steps).pc = "next" /\ Then(steps).then = steps
  BY IdleIsWork DEF Then, Work

LEMMA RestIsWork ==
  ASSUME NEW g, work[g] \in Work
  PROVE  /\ Rest(g) \in Work /\ Rest(g).pc \in {"idle", "next"} /\ Rest(g).then = work[g].then
         /\ Rest(g).pc = "next" => Rest(g).then # <<>>
  BY IdleIsWork DEF Rest, Work

LEMMA TrackingIsWork ==
  ASSUME NEW steps \in Seq(Steps), NEW p \in Nat
  PROVE  /\ Tracking(p, steps) \in Work /\ Tracking(p, steps).pc = "track"
         /\ Tracking(p, steps).root = p /\ Tracking(p, steps).then = steps
  BY IdleIsWork DEF Tracking, Work

\* What StartApply gives its goroutine to do.
Load(i, steps) == [Idle EXCEPT !.pc = "load", !.root = i, !.gen = gen + 1, !.rule = RuleFor(pol),
                               !.docs = DocsOf(RuleFor(pol)), !.then = steps]

LEMMA LoadIsWork ==
  ASSUME RuleOK, RootsOK, NEW i \in Nat, NEW steps \in Seq(Steps)
  PROVE  /\ Load(i, steps) \in Work /\ Load(i, steps).pc = "load" /\ Load(i, steps).root = i
         /\ Load(i, steps).gen = gen + 1 /\ Load(i, steps).rule = RuleFor(pol)
         /\ Load(i, steps).docs = DocsOf(RuleFor(pol))
         /\ Load(i, steps).added = {} /\ Load(i, steps).failed = {}
<1>1. RuleFor(pol) \in Rules /\ DocsOf(RuleFor(pol)) \in SUBSET Docs /\ gen + 1 \in Nat
  BY RuleIsRule, DocsAreDocs DEF RootsOK
<1>2. Idle.added = {} /\ Idle.failed = {}
  BY DEF Idle
<1>3. QED BY <1>1, <1>2, IdleIsWork DEF Load, Work

\* A goroutine's step leaves the others as they are.
LEMMA OneWorks ==
  ASSUME WorkOK, NEW g \in Routines, NEW w \in Work, Step(g, w), NEW n \in Nat, Len(roots) <= n,
         Len(roots) \in Nat, Len(roots') = n, Sound(w, n)
  PROVE  WorkOK' /\ work'[g] = w /\ \A h \in Routines : h # g => work'[h] = work[h]
  BY DEF WorkOK, Step, Sound

\* What goes on with the rest of its steps, or rests.
Going(steps) == IF steps = <<>> THEN Idle ELSE Then(steps)

LEMMA GoingIsWork ==
  ASSUME NEW steps \in Seq(Steps)
  PROVE  /\ Going(steps) \in Work /\ Going(steps).pc \in {"idle", "next"}
         /\ Going(steps).pc = "next" => Going(steps).then # <<>>
  BY IdleIsWork, ThenIsWork DEF Going

LEMMA SeqFacts ==
  ASSUME NEW S, NEW q \in Seq(S), q # <<>>
  PROVE  Head(q) \in S /\ Tail(q) \in Seq(S)
  OBVIOUS

\* What an apply registers, and what of the old stays.
LEMMA RootNames ==
  ASSUME RootsOK, WorkOK, NEW g \in Routines, work[g].pc = "load"
  PROVE  /\ work[g] \in Work /\ work[g].root \in 1..Len(roots) /\ roots[work[g].root] \in Root
         /\ roots[work[g].root].policies \in SUBSET Names
         /\ Kept(work[g]) \subseteq roots[work[g].root].policies
         /\ Fresh(work[g]) \in SUBSET Names
<1>1. work[g] \in Work /\ work[g].root \in 1..Len(roots)
  BY DEF WorkOK, Sound
<1>2. roots[work[g].root] \in Root
  BY <1>1 DEF RootsOK
<1>3. roots[work[g].root].policies \in SUBSET Names
  BY <1>2 DEF Root
<1>4. Kept(work[g]) \subseteq roots[work[g].root].policies
  BY DEF Kept
<1>5. Fresh(work[g]) \in SUBSET Names
  <2>1. work[g].gen \in Nat /\ work[g].added \in SUBSET Docs
    BY <1>1 DEF Work
  <2>2. QED BY <2>1 DEF Fresh, Names
<1>6. QED BY <1>1, <1>2, <1>3, <1>4, <1>5

LEMMA StepAlone ==
  ASSUME WorkOK, RootsOK, NEW g \in Routines, NEW w \in Work, Step(g, w),
         Len(roots') = Len(roots), Sound(w, Len(roots))
  PROVE  WorkOK' /\ work'[g] = w /\ \A h \in Routines : h # g => work'[h] = work[h]
<1>1. Len(roots) \in Nat
  BY DEF RootsOK
<1>2. QED BY <1>1, OneWorks

\* A goroutine that goes on, or rests, whatever it did.
LEMMA Goes ==
  ASSUME WorkOK, RootsOK, NEW g \in Routines, NEW w \in Work, Step(g, w), roots' = roots,
         w.pc \notin {"load", "track"}, w.pc = "next" => w.then # <<>>
  PROVE  WorkOK' /\ work'[g] = w /\ \A h \in Routines : h # g => work'[h] = work[h]
<1>1. Sound(w, Len(roots))
  BY DEF Sound
<1>2. QED BY <1>1, StepAlone

\* An apply starts.
LEMMA Loads ==
  ASSUME WorkOK, RootsOK, RuleOK, NEW g \in Routines, NEW steps \in Seq(Steps), NEW i \in Nat,
         StartApply(g, i, steps), i \in 1..Len(roots'), Len(roots') \in Nat, Len(roots) <= Len(roots')
  PROVE  /\ WorkOK' /\ work'[g] = Load(i, steps) /\ gen' = gen + 1
         /\ \A h \in Routines : h # g => work'[h] = work[h]
<1>1. Load(i, steps) \in Work /\ Load(i, steps).pc = "load" /\ Load(i, steps).root = i
  BY LoadIsWork
<1>2. Step(g, Load(i, steps)) /\ gen' = gen + 1
  BY DEF StartApply, Load
<1>3. Sound(Load(i, steps), Len(roots'))
  BY <1>1 DEF Sound
<1>4. Len(roots) \in Nat
  BY DEF RootsOK
<1>5. QED BY <1>1, <1>2, <1>3, <1>4, OneWorks

-----------------------------------------------------------------------------
(* Every step keeps the types.                                             *)

LEMMA TypeInit == Init => TypeOK
<1> SUFFICES ASSUME Init PROVE TypeOK
  OBVIOUS
<1>1. WorkOK
  BY IdleIsWork DEF Init, WorkOK, Sound
<1>2. WorldOK /\ LinkOK /\ RuleOK /\ NotesOK /\ LimitsOK
  <2>1. WorldOK /\ LimitsOK
    BY Bounds DEF Init, WorldOK, LimitsOK
  <2>2. LinkOK
    <3>1. up \in BOOLEAN /\ connected \in BOOLEAN /\ first \in BOOLEAN
      BY DEF Init
    <3>2. events = <<>>
      BY DEF Init
    <3>3. events \in Seq(Event)
      BY <3>2
    <3>4. QED BY <3>1, <3>3 DEF LinkOK
  <2>3. RuleOK /\ NotesOK
    BY Bounds DEF Init, RuleOK, NotesOK
  <2>4. QED BY <2>1, <2>2, <2>3
<1>3. RootsOK
  BY DEF Init, RootsOK
<1>4. QED BY <1>1, <1>2, <1>3, Typed

LEMMA TypeProcess ==
  ASSUME TypeOK, ProcessStarts \/ ProcessEnds
  PROVE  TypeOK'
<1>0. WorldOK /\ LinkOK /\ RuleOK /\ RootsOK /\ WorkOK /\ NotesOK /\ LimitsOK
  BY Typed
<1>1. UNCHANGED <<up, connected, first, engine, work, kernel, notes, limits>>
  BY DEF ProcessStarts, ProcessEnds
<1>2. WorldOK' /\ \E type \in {"exec", "exit"}, p \in 0..MaxProcs : Deliver(type, p)
  <2>1. CASE ProcessStarts
    <3>1. procs + 1 \in 0..MaxProcs
      BY <1>0, <2>1, Bounds DEF WorldOK, ProcessStarts
    <3>2. QED BY <2>1, <3>1 DEF WorldOK, ProcessStarts
  <2>2. CASE ProcessEnds
    BY <1>0, <2>2, Bounds DEF WorldOK, ProcessEnds
  <2>3. QED BY <2>1, <2>2
<1>3. LinkOK'
  <2>1. PICK type \in {"exec", "exit"}, p \in 0..MaxProcs : Deliver(type, p)
    BY <1>2
  <2>2. [type |-> type, proc |-> p] \in Event
    BY DEF Event
  <2>3. Append(events, [type |-> type, proc |-> p]) \in Seq(Event)
    BY <1>0, <2>2 DEF LinkOK
  <2>4. QED BY <1>0, <1>1, <2>1, <2>3 DEF LinkOK, Deliver
<1>4. RuleOK' /\ RootsOK' /\ WorkOK' /\ NotesOK' /\ LimitsOK'
  BY <1>0, <1>1 DEF RuleOK, RootsOK, WorkOK, NotesOK, LimitsOK, engine, notes, limits
<1>5. QED BY <1>2, <1>3, <1>4, TypedNext

LEMMA TypeAdd ==
  ASSUME TypeOK, NEW g \in Routines, NEW d \in Docs, Add(g, d)
  PROVE  TypeOK'
<1>0. WorldOK /\ LinkOK /\ RuleOK /\ RootsOK /\ WorkOK /\ NotesOK /\ LimitsOK
  BY Typed
<1> DEFINE n == [gen |-> work[g].gen, doc |-> d]
<1>1. UNCHANGED <<world, link, engine, notes, changes>>
  BY DEF Add
<1>2. work[g] \in Work /\ Sound(work[g], Len(roots)) /\ work[g].pc = "load"
  BY <1>0 DEF WorkOK, Add
<1>3. n \in Names /\ [name |-> n, rule |-> work[g].rule] \in Kernel
  BY <1>2 DEF Names, Kernel, Work
<1>4. [work[g] EXCEPT !.added = @ \cup {d}] \in Work /\ [work[g] EXCEPT !.failed = @ \cup {d}] \in Work
  BY <1>2 DEF Work
<1>5. \A w \in {[work[g] EXCEPT !.added = @ \cup {d}], [work[g] EXCEPT !.failed = @ \cup {d}]} : Sound(w, Len(roots))
  BY <1>2 DEF Sound, Work
<1>6. Step(g, [work[g] EXCEPT !.added = @ \cup {d}]) \/ Step(g, [work[g] EXCEPT !.failed = @ \cup {d}])
  BY <1>0 DEF Add, Step, WorkOK
<1>7. Len(roots') = Len(roots)
  BY <1>1 DEF engine
<1>8. WorkOK'
  BY <1>0, <1>4, <1>5, <1>6, <1>7, StepAlone
<1>9. kernel' \in SUBSET Kernel /\ faults' \in 0..MaxFaults
  BY <1>0, <1>3, Bounds DEF Add, NotesOK, LimitsOK
<1>10. NotesOK' /\ LimitsOK'
  BY <1>0, <1>1, <1>9 DEF NotesOK, LimitsOK, notes
<1>11. WorldOK' /\ LinkOK' /\ RuleOK' /\ RootsOK'
  BY <1>0, <1>1 DEF WorldOK, LinkOK, RuleOK, RootsOK, world, link, engine
<1>12. QED BY <1>8, <1>10, <1>11, TypedNext

LEMMA TypeRegister ==
  ASSUME TypeOK, NEW g \in Routines, Register(g)
  PROVE  TypeOK'
<1>0. WorldOK /\ LinkOK /\ RuleOK /\ RootsOK /\ WorkOK /\ NotesOK /\ LimitsOK
  BY Typed
<1> DEFINE w    == work[g]
           drop == roots[w.root].policies \ Kept(w)
           next == [Idle EXCEPT !.pc = "delete", !.names = drop, !.then = w.then]
           kept == Kept(w) \cup Fresh(w)
           last == [gen |-> w.gen, whole |-> w.failed = {}]
           root == [roots[w.root] EXCEPT !.policies = kept, !.last = last]
<1>1. UNCHANGED <<world, link, pol, window, over, fired, gen, tracked, kernel, notes, limits>>
  BY DEF Register
<1>2. /\ w \in Work /\ w.root \in 1..Len(roots) /\ roots[w.root] \in Root
      /\ drop \in SUBSET Names /\ kept \in SUBSET Names
  BY <1>0, RootNames DEF Register
<1>3. next \in Work /\ next.pc = "delete"
  BY <1>2, IdleIsWork DEF Work
<1>4. root \in Root
  <2>1. last \in [gen : Nat, whole : BOOLEAN]
    BY <1>2 DEF Work
  <2>2. QED BY <1>2, <2>1 DEF Root
<1>5. roots' = [roots EXCEPT ![w.root] = root] /\ Step(g, next) /\ owned' = (owned \ drop) \cup kept
  BY <1>0, <1>2 DEF Register, RootsOK
<1>6. roots' \in Seq(Root) /\ Len(roots') = Len(roots)
  BY <1>0, <1>2, <1>4, <1>5 DEF RootsOK
<1>7. RootsOK'
  BY <1>0, <1>1, <1>2, <1>5, <1>6 DEF RootsOK
<1>8. WorkOK'
  <2>1. Sound(next, Len(roots))
    BY <1>3 DEF Sound
  <2>2. QED BY <1>0, <1>3, <1>5, <1>6, <2>1, StepAlone
<1>9. WorldOK' /\ LinkOK' /\ RuleOK' /\ NotesOK' /\ LimitsOK'
  BY <1>0, <1>1 DEF WorldOK, LinkOK, RuleOK, NotesOK, LimitsOK, world, link, notes, limits
<1>10. QED BY <1>7, <1>8, <1>9, TypedNext

\* One call in the row of deletions fails at most.
LEMMA OneFails ==
  ASSUME NEW names, NEW failing \in {{}} \cup {{n} : n \in names}
  PROVE  Cardinality(failing) \in Nat
<1>1. IsFiniteSet(failing)
  <2>1. CASE failing = {}
    BY <2>1, FS_EmptySet
  <2>2. CASE \E n \in names : failing = {n}
    BY <2>2, FS_Singleton
  <2>3. QED BY <2>1, <2>2
<1>2. QED BY <1>1, FS_CardinalityType

LEMMA TypeDelete ==
  ASSUME TypeOK, NEW g \in Routines, Delete(g)
  PROVE  TypeOK'
<1>0. WorldOK /\ LinkOK /\ RuleOK /\ RootsOK /\ WorkOK /\ NotesOK /\ LimitsOK
  BY Typed
<1>1. UNCHANGED <<world, link, engine, snatched, reconciled, raced, changes>> /\ roots' = roots
  BY DEF Delete, engine
<1>2. work[g] \in Work
  BY <1>0 DEF WorkOK
<1>3. WorkOK'
  BY <1>0, <1>1, <1>2, RestIsWork, Goes DEF Delete
<1>4. PICK failing \in {{}} \cup {{n} : n \in work[g].names \cap Loaded} :
        /\ faults >= Cardinality(failing) /\ faults' = faults - Cardinality(failing)
        /\ kernel' = {k \in kernel : k.name \notin work[g].names \ failing}
        /\ undeleted' = (undeleted \ work[g].names) \cup failing
  BY DEF Delete
<1>5. Cardinality(failing) \in Nat
  BY OneFails
<1>6. faults' \in 0..MaxFaults
  BY <1>0, <1>4, <1>5, Bounds DEF LimitsOK
<1>7. failing \subseteq Names
  <2>1. work[g].names \in SUBSET Names
    BY <1>2 DEF Work
  <2>2. QED BY <2>1
<1>8. NotesOK' /\ LimitsOK'
  BY <1>0, <1>1, <1>4, <1>6, <1>7 DEF NotesOK, LimitsOK
<1>9. WorldOK' /\ LinkOK' /\ RuleOK' /\ RootsOK'
  BY <1>0, <1>1 DEF WorldOK, LinkOK, RuleOK, RootsOK, world, link, engine
<1>10. QED BY <1>3, <1>8, <1>9, TypedNext

\* Track's new Root.
NewRoot(p) == [exec |-> p, policies |-> {}, last |-> [gen |-> 0, whole |-> FALSE]]

LEMMA NewRootIsRoot == \A p \in 0..MaxProcs : NewRoot(p) \in Root
  BY DEF NewRoot, Root

LEMMA TypeTrack ==
  ASSUME TypeOK, NEW g \in Routines, Track(g)
  PROVE  TypeOK'
<1>0. WorldOK /\ LinkOK /\ RuleOK /\ RootsOK /\ WorkOK /\ NotesOK /\ LimitsOK
  BY Typed
<1> DEFINE n == Len(roots)
<1>1. UNCHANGED <<world, link, pol, window, over, fired, owned, kernel, undeleted, snatched, reconciled, limits>>
  BY DEF Track
<1>2. work[g] \in Work /\ work[g].root \in 0..MaxProcs /\ work[g].then \in Seq(Steps)
  <2>1. work[g] \in Work /\ work[g].root \in 0..MaxProcs
    BY <1>0 DEF WorkOK, Sound, Track
  <2>2. QED BY <2>1 DEF Work
<1>3. n \in Nat /\ NewRoot(work[g].root) \in Root
  BY <1>0, <1>2, NewRootIsRoot DEF RootsOK
<1>4. roots' = Append(roots, NewRoot(work[g].root)) /\ tracked' = n + 1
  BY DEF Track, NewRoot
<1>5. roots' \in Seq(Root) /\ Len(roots') = n + 1
  BY <1>0, <1>3, <1>4 DEF RootsOK
<1>6. StartApply(g, n + 1, work[g].then)
  BY DEF Track
<1>7. WorkOK' /\ gen' = gen + 1
  <2>1. n + 1 \in Nat /\ n + 1 \in 1..Len(roots') /\ Len(roots') \in Nat /\ Len(roots) <= Len(roots')
    BY <1>3, <1>5
  <2>2. QED BY <1>0, <1>2, <1>6, <2>1, Loads
<1>8. RootsOK'
  BY <1>0, <1>1, <1>3, <1>4, <1>5, <1>7 DEF RootsOK
<1>9. raced' \in BOOLEAN
  BY DEF Track
<1>10. NotesOK'
  BY <1>0, <1>1, <1>9 DEF NotesOK
<1>11. WorldOK' /\ LinkOK' /\ RuleOK' /\ LimitsOK'
  BY <1>0, <1>1 DEF WorldOK, LinkOK, RuleOK, LimitsOK, world, link, limits
<1>12. QED BY <1>7, <1>8, <1>10, <1>11, TypedNext

\* The loop takes the first event.
LEMMA Receives ==
  ASSUME LinkOK, Received, events' = Tail(events), UNCHANGED <<up, connected, first>>
  PROVE  LinkOK' /\ Head(events).proc \in 0..MaxProcs
<1>1. events \in Seq(Event) /\ events # <<>>
  BY DEF LinkOK, Received
<1>2. Head(events) \in Event /\ Tail(events) \in Seq(Event)
  BY <1>1, SeqFacts
<1>3. Head(events).proc \in 0..MaxProcs
  BY <1>2 DEF Event
<1>4. QED BY <1>2, <1>3 DEF LinkOK

LEMMA TypeOnExec ==
  ASSUME TypeOK, OnExec
  PROVE  TypeOK'
<1>0. WorldOK /\ LinkOK /\ RuleOK /\ RootsOK /\ WorkOK /\ NotesOK /\ LimitsOK
  BY Typed
<1> DEFINE p == Head(events).proc
<1>1. UNCHANGED <<world, up, connected, first, pol, window, over, fired, gen, tracked, owned, kernel, notes, limits>>
  BY DEF OnExec
<1>2. LinkOK' /\ p \in 0..MaxProcs
  BY <1>0, <1>1, Receives DEF OnExec
<1>3. RootsOK' /\ WorkOK'
  <2>1. CASE tracked # 0 /\ roots' = [roots EXCEPT ![tracked].exec = p] /\ UNCHANGED work
    <3>1. tracked \in 1..Len(roots) /\ roots[tracked] \in Root
      BY <1>0, <2>1 DEF RootsOK
    <3>2. [roots[tracked] EXCEPT !.exec = p] \in Root
      BY <1>2, <3>1 DEF Root
    <3>3. roots' \in Seq(Root) /\ Len(roots') = Len(roots)
      BY <1>0, <2>1, <3>1, <3>2 DEF RootsOK
    <3>4. QED BY <1>0, <1>1, <2>1, <3>3 DEF RootsOK, WorkOK
  <2>2. CASE Step("loop", Tracking(p, <<>>)) /\ UNCHANGED roots
    <3>1. "loop" \in Routines /\ <<>> \in Seq(Steps) /\ p \in Nat
      BY <1>2, Bounds DEF Routines
    <3>2. /\ Tracking(p, <<>>) \in Work /\ Tracking(p, <<>>).pc = "track" /\ Tracking(p, <<>>).root = p
      <4> HIDE DEF p
      <4>1. QED BY <3>1, TrackingIsWork
    <3>3. Sound(Tracking(p, <<>>), Len(roots))
      BY <1>2, <3>2 DEF Sound
    <3>4. WorkOK'
      BY <1>0, <2>2, <3>1, <3>2, <3>3, StepAlone
    <3>5. QED BY <1>0, <1>1, <2>2, <3>4 DEF RootsOK
  <2>3. QED BY <2>1, <2>2 DEF OnExec
<1>4. WorldOK' /\ RuleOK' /\ NotesOK' /\ LimitsOK'
  BY <1>0, <1>1 DEF WorldOK, RuleOK, NotesOK, LimitsOK, world, notes, limits
<1>5. QED BY <1>2, <1>3, <1>4, TypedNext

\* What untracking leaves its goroutine to do.
Deletion(names) == [Idle EXCEPT !.pc = "delete", !.names = names]

LEMMA DeletionIsWork ==
  ASSUME NEW names \in SUBSET Names
  PROVE  Deletion(names) \in Work /\ Deletion(names).pc = "delete" /\ Deletion(names).names = names
  BY IdleIsWork DEF Deletion, Work

LEMMA TrackedRoot ==
  ASSUME RootsOK, tracked # 0
  PROVE  tracked \in 1..Len(roots) /\ roots[tracked] \in Root /\ Policed = roots[tracked].policies /\ Policed \in SUBSET Names
<1>1. tracked \in 1..Len(roots) /\ roots[tracked] \in Root
  BY DEF RootsOK
<1>2. QED BY <1>1 DEF Policed, Root

LEMMA TypeUntrack ==
  ASSUME RuleOK, RootsOK, WorkOK, NotesOK, LimitsOK, NEW g \in Routines, tracked # 0, Untrack(g)
  PROVE  RuleOK' /\ RootsOK' /\ WorkOK' /\ NotesOK' /\ LimitsOK'
<1>1. UNCHANGED <<pol, window, over, fired, gen, roots, kernel, undeleted, snatched, reconciled, limits>>
  BY DEF Untrack
<1>2. roots[tracked].policies \in SUBSET Names
  BY TrackedRoot
<1>3. Step(g, Deletion(roots[tracked].policies))
  BY DEF Untrack, Deletion
<1>4. WorkOK'
  BY <1>1, <1>2, <1>3, DeletionIsWork, Goes
<1>5. raced' \in BOOLEAN /\ tracked' = 0 /\ owned' = owned \ roots[tracked].policies
  BY DEF Untrack
<1>6. NotesOK'
  BY <1>1, <1>5 DEF NotesOK
<1>7. RootsOK'
  BY <1>1, <1>5 DEF RootsOK
<1>8. QED BY <1>1, <1>4, <1>6, <1>7 DEF RuleOK, LimitsOK, limits

LEMMA TypeOnExit ==
  ASSUME TypeOK, OnExit
  PROVE  TypeOK'
<1>0. WorldOK /\ LinkOK /\ RuleOK /\ RootsOK /\ WorkOK /\ NotesOK /\ LimitsOK
  BY Typed
<1>1. LinkOK' /\ WorldOK'
  <2>1. UNCHANGED <<world, up, connected, first>> /\ Received /\ events' = Tail(events)
    BY DEF OnExit
  <2>2. QED BY <1>0, <2>1, Receives DEF world, WorldOK
<1>2. CASE tracked # 0 /\ Untrack("loop")
  <2>1. "loop" \in Routines
    BY DEF Routines
  <2>2. QED BY <1>0, <1>1, <1>2, <2>1, TypeUntrack, TypedNext
<1>3. CASE UNCHANGED <<engine, work, kernel, notes, limits>>
  <2>1. RuleOK' /\ RootsOK' /\ WorkOK' /\ NotesOK' /\ LimitsOK'
    BY <1>0, <1>3 DEF RuleOK, RootsOK, WorkOK, NotesOK, LimitsOK, engine, notes, limits
  <2>2. QED BY <1>1, <2>1, TypedNext
<1>4. QED BY <1>2, <1>3 DEF OnExit

LEMMA TypeSweep ==
  ASSUME TypeOK, Sweep
  PROVE  TypeOK'
<1>0. WorldOK /\ LinkOK /\ RuleOK /\ RootsOK /\ WorkOK /\ NotesOK /\ LimitsOK
  BY Typed
<1>1. "sweep" \in Routines /\ tracked # 0 /\ Untrack("sweep")
  BY DEF Routines, Sweep
<1>2. RuleOK' /\ RootsOK' /\ WorkOK' /\ NotesOK' /\ LimitsOK'
  BY <1>0, <1>1, TypeUntrack
<1>3. WorldOK' /\ LinkOK'
  BY <1>0 DEF Sweep, WorldOK, LinkOK, world, link
<1>4. QED BY <1>2, <1>3, TypedNext

\* A goroutine at work on the rest of its steps.
LEMMA NextSteps ==
  ASSUME WorkOK, NEW g \in Routines, work[g].pc = "next"
  PROVE  /\ work[g].then \in Seq(Steps) /\ work[g].then # <<>>
         /\ Tail(work[g].then) \in Seq(Steps)
<1>1. work[g] \in Work /\ work[g].then # <<>>
  BY DEF WorkOK, Sound
<1>2. work[g].then \in Seq(Steps)
  BY <1>1 DEF Work
<1>3. QED BY <1>1, <1>2, SeqFacts

LEMMA TypeBootstrap ==
  ASSUME TypeOK, NEW g \in Routines, Bootstrap(g)
  PROVE  TypeOK'
<1>0. WorldOK /\ LinkOK /\ RuleOK /\ RootsOK /\ WorkOK /\ NotesOK /\ LimitsOK
  BY Typed
<1> DEFINE steps == Tail(work[g].then)
<1>1. UNCHANGED <<world, link, engine, kernel, notes, limits>> /\ roots' = roots
  BY DEF Bootstrap, engine
<1>2. steps \in Seq(Steps)
  BY <1>0, NextSteps DEF Bootstrap
<1>3. WorkOK'
  <2>1. CASE Step(g, Tracking(0, steps))
    <3>1. 0 \in Nat /\ 0 \in 0..MaxProcs
      BY Bounds
    <3>2. /\ Tracking(0, steps) \in Work /\ Tracking(0, steps).pc = "track" /\ Tracking(0, steps).root = 0
      BY <1>2, <3>1, TrackingIsWork
    <3>3. Sound(Tracking(0, steps), Len(roots))
      BY <3>1, <3>2 DEF Sound
    <3>4. QED BY <1>0, <1>1, <2>1, <3>2, <3>3, StepAlone
  <2>2. CASE Step(g, Going(steps))
    BY <1>0, <1>1, <1>2, <2>2, GoingIsWork, Goes
  <2>3. QED BY <2>1, <2>2 DEF Bootstrap, Going
<1>4. WorldOK' /\ LinkOK' /\ RuleOK' /\ RootsOK' /\ NotesOK' /\ LimitsOK'
  BY <1>0, <1>1 DEF WorldOK, LinkOK, RuleOK, RootsOK, NotesOK, LimitsOK, world, link, engine, notes, limits
<1>5. QED BY <1>3, <1>4, TypedNext

\* What a re-apply leaves the goroutine at.
LEMMA Reapplies ==
  ASSUME WorkOK, RootsOK, RuleOK, NEW g \in Routines, NEW steps \in Seq(Steps), Reapply(g, steps), roots' = roots
  PROVE  /\ WorkOK' /\ gen' \in Nat
         /\ \A h \in Routines : h # g => work'[h] = work[h]
         /\ \/ tracked # 0 /\ gen' = gen + 1 /\ work'[g] = Load(tracked, steps)
            \/ tracked = 0 /\ gen' = gen /\ work'[g] = Going(steps)
<1>1. CASE tracked # 0 /\ StartApply(g, tracked, steps)
  <2>1. /\ tracked \in Nat /\ tracked \in 1..Len(roots') /\ Len(roots') \in Nat /\ Len(roots) <= Len(roots')
    BY <1>1 DEF RootsOK
  <2>2. WorkOK' /\ work'[g] = Load(tracked, steps) /\ gen' = gen + 1
        /\ \A h \in Routines : h # g => work'[h] = work[h]
    BY <1>1, <2>1, Loads
  <2>3. gen' \in Nat
    BY <2>2 DEF RootsOK
  <2>4. QED BY <1>1, <2>2, <2>3
<1>2. CASE tracked = 0 /\ gen' = gen /\ Step(g, Going(steps))
  <2>1. WorkOK' /\ work'[g] = Going(steps) /\ \A h \in Routines : h # g => work'[h] = work[h]
    BY <1>2, GoingIsWork, Goes
  <2>2. QED BY <1>2, <2>1 DEF RootsOK
<1>3. QED BY <1>1, <1>2 DEF Reapply, Going

LEMMA TypeReapplyNext ==
  ASSUME TypeOK, NEW g \in Routines, ReapplyNext(g)
  PROVE  TypeOK'
<1>0. WorldOK /\ LinkOK /\ RuleOK /\ RootsOK /\ WorkOK /\ NotesOK /\ LimitsOK
  BY Typed
<1>1. UNCHANGED <<world, link, pol, window, over, fired, roots, tracked, owned, kernel, notes, limits>>
  BY DEF ReapplyNext
<1>2. Tail(work[g].then) \in Seq(Steps) /\ Reapply(g, Tail(work[g].then))
  BY <1>0, NextSteps DEF ReapplyNext
<1>3. WorkOK' /\ gen' \in Nat
  BY <1>0, <1>1, <1>2, Reapplies
<1>4. WorldOK' /\ LinkOK' /\ RuleOK' /\ RootsOK' /\ NotesOK' /\ LimitsOK'
  BY <1>0, <1>1, <1>3 DEF WorldOK, LinkOK, RuleOK, RootsOK, NotesOK, LimitsOK, world, link, notes, limits
<1>5. QED BY <1>3, <1>4, TypedNext

LEMMA ChangeSteps ==
  /\ <<"reapply">> \in Seq(Steps) /\ <<"reapply", "scan">> \in Seq(Steps)
  /\ <<"reapply", "reconcile">> \in Seq(Steps) /\ <<"reapply", "scan", "reconcile">> \in Seq(Steps)
  /\ <<"reapply">> # <<>> /\ <<"reapply", "scan">> # <<>>
  /\ <<"reapply", "reconcile">> # <<>> /\ <<"reapply", "scan", "reconcile">> # <<>>
  BY DEF Steps

\* What a change gives a goroutine to do: to apply again, first of all.
ToReapply(g) == \E steps \in Seq(Steps) : steps # <<>> /\ Head(steps) = "reapply" /\ Step(g, Then(steps))

LEMMA ToReapplySteps == \A g \in Routines :
  /\ Step(g, Then(<<"reapply">>)) => ToReapply(g)
  /\ Step(g, Then(<<"reapply", "scan">>)) => ToReapply(g)
  /\ Step(g, Then(<<"reapply", "reconcile">>)) => ToReapply(g)
  /\ Step(g, Then(<<"reapply", "scan", "reconcile">>)) => ToReapply(g)
<1> SUFFICES ASSUME NEW g \in Routines PROVE
    /\ Step(g, Then(<<"reapply">>)) => ToReapply(g)
    /\ Step(g, Then(<<"reapply", "scan">>)) => ToReapply(g)
    /\ Step(g, Then(<<"reapply", "reconcile">>)) => ToReapply(g)
    /\ Step(g, Then(<<"reapply", "scan", "reconcile">>)) => ToReapply(g)
  OBVIOUS
<1>1. /\ Head(<<"reapply">>) = "reapply" /\ Head(<<"reapply", "scan">>) = "reapply"
      /\ Head(<<"reapply", "reconcile">>) = "reapply" /\ Head(<<"reapply", "scan", "reconcile">>) = "reapply"
  OBVIOUS
<1>2. QED BY <1>1, ChangeSteps DEF ToReapply

LEMMA Changed ==
  ASSUME WorkOK, RootsOK, NEW g \in Routines, ToReapply(g), roots' = roots
  PROVE  /\ WorkOK' /\ \A h \in Routines : h # g => work'[h] = work[h]
         /\ work'[g].pc = "next" /\ Head(work'[g].then) = "reapply"
<1>1. PICK steps \in Seq(Steps) : steps # <<>> /\ Head(steps) = "reapply" /\ Step(g, Then(steps))
  BY DEF ToReapply
<1>2. Then(steps) \in Work /\ Then(steps).pc = "next" /\ Then(steps).then = steps
  BY ThenIsWork
<1>3. WorkOK' /\ work'[g] = Then(steps) /\ \A h \in Routines : h # g => work'[h] = work[h]
  BY <1>1, <1>2, Goes
<1>4. QED BY <1>1, <1>2, <1>3

LEMMA TypeChange ==
  ASSUME TypeOK, Change
  PROVE  TypeOK'
<1>0. WorldOK /\ LinkOK /\ RuleOK /\ RootsOK /\ WorkOK /\ NotesOK /\ LimitsOK
  BY Typed
<1>1. UNCHANGED <<world, link, gen, roots, tracked, owned, kernel, notes, faults>>
  BY DEF Change, SetPolicy, OnDomainsChanged, SetBreakGlass, WindowOver, ExpireBreakGlass, engine, limits
<1>2. WorkOK' /\ RuleOK'
  <2>1. CASE \E p \in Policies : SetPolicy(p)
    <3>1. "sync" \in Routines /\ ToReapply("sync")
      BY <2>1, ToReapplySteps DEF SetPolicy, Routines
    <3>2. WorkOK'
      BY <1>0, <1>1, <3>1, Changed
    <3>3. RuleOK'
      BY <1>0, <2>1 DEF RuleOK, SetPolicy
    <3>4. QED BY <3>2, <3>3
  <2>2. CASE OnDomainsChanged
    <3>1. "resolver" \in Routines /\ ToReapply("resolver")
      BY <2>2, ToReapplySteps DEF OnDomainsChanged, Routines
    <3>2. WorkOK'
      BY <1>0, <1>1, <3>1, Changed
    <3>3. RuleOK'
      BY <1>0, <2>2 DEF RuleOK, OnDomainsChanged, engine
    <3>4. QED BY <3>2, <3>3
  <2>3. CASE SetBreakGlass
    <3>1. "api" \in Routines /\ ToReapply("api")
      BY <2>3, ToReapplySteps DEF SetBreakGlass, Routines
    <3>2. WorkOK'
      BY <1>0, <1>1, <3>1, Changed
    <3>3. RuleOK'
      BY <1>0, <2>3 DEF RuleOK, SetBreakGlass
    <3>4. QED BY <3>2, <3>3
  <2>4. CASE WindowOver
    <3>1. WorkOK'
      BY <1>0, <1>1, <2>4 DEF WorkOK, WindowOver
    <3>2. RuleOK'
      BY <1>0, <2>4 DEF RuleOK, WindowOver, LinkOK
    <3>3. QED BY <3>1, <3>2
  <2>5. CASE ExpireBreakGlass
    <3>1. WorkOK'
      <4>1. CASE UNCHANGED work
        BY <1>0, <1>1, <4>1 DEF WorkOK
      <4>2. CASE Step("timer", Then(<<"reapply">>))
        <5>1. "timer" \in Routines /\ ToReapply("timer")
          BY <4>2, ToReapplySteps DEF Routines
        <5>2. QED BY <1>0, <1>1, <5>1, Changed
      <4>3. QED BY <2>5, <4>1, <4>2 DEF ExpireBreakGlass
    <3>2. RuleOK'
      BY <1>0, <2>5 DEF RuleOK, ExpireBreakGlass
    <3>3. QED BY <3>1, <3>2
  <2>6. QED BY <2>1, <2>2, <2>3, <2>4, <2>5 DEF Change
<1>3. changes' \in 0..MaxChanges
  <2>1. changes' = changes \/ (changes > 0 /\ changes' = changes - 1)
    BY DEF Change, SetPolicy, OnDomainsChanged, SetBreakGlass, WindowOver, ExpireBreakGlass, limits
  <2>2. QED BY <1>0, <2>1, Bounds DEF LimitsOK
<1>4. WorldOK' /\ LinkOK' /\ RootsOK' /\ NotesOK' /\ LimitsOK'
  BY <1>0, <1>1, <1>3 DEF WorldOK, LinkOK, RootsOK, NotesOK, LimitsOK, world, link, notes
<1>5. QED BY <1>2, <1>4, TypedNext

LEMMA TypeConnect ==
  ASSUME TypeOK, Connect
  PROVE  TypeOK'
<1>0. WorldOK /\ LinkOK /\ RuleOK /\ RootsOK /\ WorkOK /\ NotesOK /\ LimitsOK
  BY Typed
<1>1. UNCHANGED <<world, up, first, events, engine, kernel, undeleted, snatched, raced, limits>> /\ roots' = roots
  BY DEF Connect, engine
<1>2. "stream" \in Routines /\ ToReapply("stream")
  BY ToReapplySteps DEF Routines, Connect
<1>3. WorkOK'
  BY <1>0, <1>1, <1>2, Changed
<1>4. connected' \in BOOLEAN /\ reconciled' \in BOOLEAN
  BY DEF Connect
<1>5. WorldOK' /\ LinkOK' /\ RuleOK' /\ RootsOK' /\ NotesOK' /\ LimitsOK'
  BY <1>0, <1>1, <1>4 DEF WorldOK, LinkOK, RuleOK, RootsOK, NotesOK, LimitsOK, world, engine, limits
<1>6. QED BY <1>3, <1>5, TypedNext

\* Reconcile's list, and one name at a time of it.
Listed(names) == [Idle EXCEPT !.pc = "check", !.names = names, !.have = names]

LEMMA ListedIsWork ==
  ASSUME NEW names \in SUBSET Names
  PROVE  /\ Listed(names) \in Work /\ Listed(names).pc = "check"
         /\ Listed(names).names = names /\ Listed(names).have = names
  BY IdleIsWork DEF Listed, Work

LEMMA CheckedIsWork ==
  ASSUME NEW w \in Work, NEW n \in Names
  PROVE  /\ [w EXCEPT !.pc = "remove", !.stale = {n}] \in Work
         /\ [w EXCEPT !.pc = "remove", !.stale = {n}].pc = "remove"
         /\ [w EXCEPT !.pc = "remove", !.stale = {n}].names = w.names
         /\ [w EXCEPT !.pc = "remove", !.stale = {n}].have = w.have
         /\ [w EXCEPT !.pc = "check", !.names = @ \ {n}, !.stale = {}] \in Work
         /\ [w EXCEPT !.pc = "check", !.names = @ \ {n}, !.stale = {}].pc = "check"
         /\ [w EXCEPT !.pc = "check", !.names = @ \ {n}, !.stale = {}].names = w.names \ {n}
         /\ [w EXCEPT !.pc = "check", !.names = @ \ {n}, !.stale = {}].have = w.have
  BY DEF Work

LEMMA LoadedNames == NotesOK => Loaded \in SUBSET Names
  BY DEF NotesOK, Loaded, Kernel

LEMMA TypeReconcile ==
  ASSUME TypeOK, Reconcile
  PROVE  TypeOK'
<1>0. WorldOK /\ LinkOK /\ RuleOK /\ RootsOK /\ WorkOK /\ NotesOK /\ LimitsOK
  BY Typed
<1>1. UNCHANGED <<world, up, connected, events, engine, kernel, notes, changes>> /\ roots' = roots
  BY DEF Reconcile, engine
<1>2. "stream" \in Routines
  BY DEF Routines
<1>3. WorkOK'
  <2>1. CASE Step("stream", Listed(Loaded))
    BY <1>0, <1>1, <1>2, <2>1, LoadedNames, ListedIsWork, Goes
  <2>2. CASE Step("stream", Idle)
    BY <1>0, <1>1, <1>2, <2>2, IdleIsWork, Goes
  <2>3. QED BY <2>1, <2>2 DEF Reconcile, Listed
<1>4. faults' \in 0..MaxFaults /\ first' \in BOOLEAN
  <2>1. faults' = faults \/ (faults > 0 /\ faults' = faults - 1)
    BY DEF Reconcile
  <2>2. first' \in BOOLEAN
    BY DEF Reconcile
  <2>3. faults' \in 0..MaxFaults
    BY <1>0, <2>1, Bounds DEF LimitsOK
  <2>4. QED BY <2>2, <2>3
<1>5. WorldOK' /\ LinkOK' /\ RuleOK' /\ RootsOK' /\ NotesOK' /\ LimitsOK'
  BY <1>0, <1>1, <1>4 DEF WorldOK, LinkOK, RuleOK, RootsOK, NotesOK, LimitsOK, world, engine, notes
<1>6. QED BY <1>3, <1>5, TypedNext

LEMMA TypeCheck ==
  ASSUME TypeOK, NEW n \in work["stream"].names, Check(n)
  PROVE  TypeOK'
<1>0. WorldOK /\ LinkOK /\ RuleOK /\ RootsOK /\ WorkOK /\ NotesOK /\ LimitsOK
  BY Typed
<1>1. UNCHANGED <<world, link, engine, kernel, notes, limits>> /\ roots' = roots
  BY DEF Check, engine
<1>2. "stream" \in Routines /\ work["stream"] \in Work
  BY <1>0 DEF Routines, WorkOK
<1>3. n \in Names
  BY <1>2 DEF Work
<1>4. WorkOK'
  <2>1. Step("stream", [work["stream"] EXCEPT !.pc = "remove", !.stale = {n}])
    BY DEF Check
  <2>2. QED BY <1>0, <1>1, <1>2, <1>3, <2>1, CheckedIsWork, Goes
<1>5. WorldOK' /\ LinkOK' /\ RuleOK' /\ RootsOK' /\ NotesOK' /\ LimitsOK'
  BY <1>0, <1>1 DEF WorldOK, LinkOK, RuleOK, RootsOK, NotesOK, LimitsOK, world, link, engine, notes, limits
<1>6. QED BY <1>4, <1>5, TypedNext

LEMMA TypeRemove ==
  ASSUME TypeOK, Remove
  PROVE  TypeOK'
<1>0. WorldOK /\ LinkOK /\ RuleOK /\ RootsOK /\ WorkOK /\ NotesOK /\ LimitsOK
  BY Typed
<1>1. UNCHANGED <<world, link, engine, reconciled, raced, changes>> /\ roots' = roots
  BY DEF Remove, engine
<1>2. "stream" \in Routines /\ work["stream"] \in Work
  BY <1>0 DEF Routines, WorkOK
<1>3. PICK n \in work["stream"].stale :
       /\ Step("stream", [work["stream"] EXCEPT !.pc = "check", !.names = @ \ {n}, !.stale = {}])
       /\ \/ /\ kernel' = {k \in kernel : k.name # n} /\ undeleted' = undeleted \ {n}
             /\ snatched' = IF n \in owned \/ InFlight(n) THEN snatched \cup {n} ELSE snatched
             /\ UNCHANGED faults
          \/ /\ faults > 0 /\ faults' = faults - 1 /\ undeleted' = undeleted \cup {n}
             /\ UNCHANGED <<kernel, snatched>>
  BY DEF Remove
<1>4. n \in Names
  BY <1>2 DEF Work
<1>5. WorkOK'
  BY <1>0, <1>1, <1>2, <1>3, <1>4, CheckedIsWork, Goes
<1>6. faults' \in 0..MaxFaults
  BY <1>0, <1>3, Bounds DEF LimitsOK
<1>7. NotesOK'
  BY <1>0, <1>1, <1>3, <1>4 DEF NotesOK
<1>8. WorldOK' /\ LinkOK' /\ RuleOK' /\ RootsOK' /\ LimitsOK'
  BY <1>0, <1>1, <1>6 DEF WorldOK, LinkOK, RuleOK, RootsOK, LimitsOK, world, link, engine
<1>9. QED BY <1>5, <1>7, <1>8, TypedNext

LEMMA StreamRoutine == WorkOK => "stream" \in Routines /\ work["stream"] \in Work
  BY DEF Routines, WorkOK

LEMMA EmptySteps == <<>> \in Seq(Steps) /\ Going(<<>>) = Idle
  BY DEF Going

LEMMA TypeChecked ==
  ASSUME TypeOK, Checked
  PROVE  TypeOK'
<1>0. WorldOK /\ LinkOK /\ RuleOK /\ RootsOK /\ WorkOK /\ NotesOK /\ LimitsOK
  BY Typed
<1>1. UNCHANGED <<world, link, pol, window, over, fired, roots, tracked, owned, kernel, undeleted, snatched, raced, limits>>
  BY DEF Checked
<1>2. WorkOK' /\ gen' \in Nat
  <2>1. CASE Reapply("stream", <<>>)
    BY <1>0, <1>1, <2>1, StreamRoutine, EmptySteps, Reapplies
  <2>2. CASE Step("stream", Idle) /\ gen' = gen
    <3>1. WorkOK'
      BY <1>0, <1>1, <2>2, StreamRoutine, IdleIsWork, Goes
    <3>2. QED BY <1>0, <2>2, <3>1 DEF RootsOK
  <2>3. QED BY <2>1, <2>2 DEF Checked
<1>3. reconciled' \in BOOLEAN
  BY DEF Checked
<1>4. WorldOK' /\ LinkOK' /\ RuleOK' /\ RootsOK' /\ NotesOK' /\ LimitsOK'
  BY <1>0, <1>1, <1>2, <1>3 DEF WorldOK, LinkOK, RuleOK, RootsOK, NotesOK, LimitsOK, world, link, limits
<1>5. QED BY <1>2, <1>4, TypedNext

LEMMA TypeBreak ==
  ASSUME TypeOK, Break
  PROVE  TypeOK'
<1>0. WorldOK /\ LinkOK /\ RuleOK /\ RootsOK /\ WorkOK /\ NotesOK /\ LimitsOK
  BY Typed
<1>1. UNCHANGED <<world, up, first, engine, work, raced, changes>>
  BY DEF Break
<1>2. NotesOK'
  <2>1. kernel' \in SUBSET Kernel /\ undeleted' \in SUBSET Names /\ snatched' \in SUBSET Names
    BY <1>0, LoadedNames DEF Break, NotesOK
  <2>2. reconciled' \in BOOLEAN
    BY DEF Break
  <2>3. QED BY <1>0, <1>1, <2>1, <2>2 DEF NotesOK
<1>3. events' \in Seq(Event)
  <2>1. <<>> \in Seq(Event) /\ events \in Seq(Event)
    BY <1>0 DEF LinkOK
  <2>2. QED BY <2>1 DEF Break
<1>4. LinkOK'
  BY <1>0, <1>1, <1>3 DEF LinkOK, Break
<1>5. LimitsOK'
  BY <1>0, <1>1, Bounds DEF Break, LimitsOK
<1>6. WorldOK' /\ RuleOK' /\ RootsOK' /\ WorkOK'
  BY <1>0, <1>1 DEF WorldOK, RuleOK, RootsOK, WorkOK, world, engine
<1>7. QED BY <1>2, <1>4, <1>5, <1>6, TypedNext

LEMMA TypeDown ==
  ASSUME TypeOK, Down, faults > 0, kernel' \subseteq kernel, UNCHANGED undeleted
  PROVE  TypeOK'
<1>0. WorldOK /\ LinkOK /\ RuleOK /\ RootsOK /\ WorkOK /\ NotesOK /\ LimitsOK
  BY Typed
<1>1. UNCHANGED <<world, first, pol, window, over, changes>>
  BY DEF Down
<1>2. LinkOK'
  <2>1. up' = FALSE /\ connected' = FALSE /\ events' = <<>> /\ <<>> \in Seq(Event)
    BY DEF Down
  <2>2. QED BY <1>0, <1>1, <2>1 DEF LinkOK
<1>3. RuleOK' /\ WorldOK'
  <2>1. fired' \in BOOLEAN
    BY DEF Down
  <2>2. QED BY <1>0, <1>1, <2>1 DEF RuleOK, WorldOK, world
<1>4. RootsOK'
  <2>1. gen' = 0 /\ roots' = <<>> /\ tracked' = 0 /\ owned' = {}
    BY DEF Down
  <2>2. QED BY <2>1 DEF RootsOK
<1>5. WorkOK'
  <2>1. work' = [g \in Routines |-> Idle]
    BY DEF Down
  <2>2. QED BY <2>1, IdleIsWork DEF WorkOK, Sound
<1>6. NotesOK'
  <2>1. snatched' = {} /\ reconciled' \in BOOLEAN /\ raced' \in BOOLEAN
    BY DEF Down
  <2>2. QED BY <1>0, <2>1 DEF NotesOK
<1>7. LimitsOK'
  BY <1>0, <1>1, Bounds DEF Down, LimitsOK
<1>8. QED BY <1>2, <1>3, <1>4, <1>5, <1>6, <1>7, TypedNext

LEMMA TypeStart ==
  ASSUME TypeOK, Start
  PROVE  TypeOK'
<1>0. WorldOK /\ LinkOK /\ RuleOK /\ RootsOK /\ WorkOK /\ NotesOK /\ LimitsOK
  BY Typed
<1>1. UNCHANGED <<world, connected, events, pol, fired, gen, roots, tracked, owned, work, kernel, notes, limits>>
  BY DEF Start
<1>2. up' \in BOOLEAN /\ first' \in BOOLEAN /\ window' \in BOOLEAN /\ over' \in BOOLEAN
  BY DEF Start
<1>3. QED BY <1>0, <1>1, <1>2, TypedNext
    DEF WorldOK, LinkOK, RuleOK, RootsOK, WorkOK, NotesOK, LimitsOK, world, notes, limits

LEMMA StopsShort == Crash \/ Stop => Down /\ faults > 0 /\ kernel' \subseteq kernel /\ UNCHANGED undeleted /\ up
  BY DEF Crash, Stop

LEMMA TypeStep == TypeOK /\ [Next]_vars => TypeOK'
<1> SUFFICES ASSUME TypeOK, [Next]_vars PROVE TypeOK'
  OBVIOUS
<1>1. CASE ProcessStarts \/ ProcessEnds
  BY <1>1, TypeProcess
<1>2. CASE OnExec \/ OnExit \/ Sweep
  BY <1>2, TypeOnExec, TypeOnExit, TypeSweep
<1>3. CASE Apply
  BY <1>3, TypeAdd, TypeRegister, TypeDelete DEF Apply
<1>4. CASE Follow
  BY <1>4, TypeTrack, TypeBootstrap, TypeReapplyNext DEF Follow
<1>5. CASE Change
  BY <1>5, TypeChange
<1>6. CASE Connect \/ Break
  BY <1>6, TypeConnect, TypeBreak
<1>7. CASE Reconcils
  BY <1>7, TypeReconcile, TypeCheck, TypeRemove, TypeChecked DEF Reconcils
<1>8. CASE Crash \/ Stop
  BY <1>8, StopsShort, TypeDown
<1>9. CASE Start
  BY <1>9, TypeStart
<1>10. CASE UNCHANGED vars
  BY <1>10 DEF vars, world, link, engine, notes, limits, TypeOK
<1>11. QED BY <1>1, <1>2, <1>3, <1>4, <1>5, <1>6, <1>7, <1>8, <1>9, <1>10 DEF Next

\* Type correctness: the daemon, its goroutines and the kernel stay within their
\* types however their steps interleave.
THEOREM TypeCorrect == Spec => []TypeOK
  BY TypeInit, TypeStep, PTL DEF Spec

-----------------------------------------------------------------------------
(* What holds of the generations, the roots and the names they have.       *)

Loading(g)  == work[g].pc = "load"
Deleting(g) == work[g].pc = "delete"

\* A generation is drawn once in a run of the daemon.
GensDrawn == \A g \in Routines : Loading(g) =>
  /\ work[g].gen \in 1..gen
  /\ \A h \in Routines : Loading(h) /\ work[h].gen = work[g].gen => h = g

\* What is registered, or being deleted, is of a generation that was drawn and
\* that no apply under way has.
Drawn(n) == n.gen <= gen /\ \A g \in Routines : Loading(g) => work[g].gen # n.gen
PastOnes ==
  /\ \A i \in 1..Len(roots) : \A n \in roots[i].policies : Drawn(n)
  /\ \A g \in Routines : Deleting(g) => \A n \in work[g].names : Drawn(n)

\* What the tracked root has is no other root's, and nobody is deleting it.
Apart ==
  /\ \A i \in 1..Len(roots) : i # tracked => roots[i].policies \cap Policed = {}
  /\ \A g \in Routines : Deleting(g) => work[g].names \cap Policed = {}

\* byPolicy has the tracked root's names, and no others unless applies raced.
Owned ==
  /\ Policed \subseteq owned
  /\ ~raced => owned \subseteq Policed /\ \A g \in Routines : Loading(g) => work[g].root = tracked

\* The tracked root's last apply has ended.
LastDrawn == tracked # 0 =>
  roots[tracked].last.gen <= gen /\ \A g \in Routines : Loading(g) => work[g].gen # roots[tracked].last.gen

\* Nothing is registered, drawn or started.
SameRoots == Len(roots') = Len(roots) /\ \A i \in 1..Len(roots) :
  roots'[i].policies = roots[i].policies /\ roots'[i].last = roots[i].last
SameLoads == \A h \in Routines : Loading(h)' =>
  Loading(h) /\ work'[h].gen = work[h].gen /\ work'[h].root = work[h].root /\ work'[h].rule = work[h].rule
SameDeletes == \A h \in Routines : Deleting(h)' => Deleting(h) /\ work'[h].names = work[h].names
Steady == UNCHANGED <<gen, tracked, owned, raced>> /\ SameRoots /\ SameLoads /\ SameDeletes

LEMMA SteadyTracked ==
  ASSUME RootsOK, Steady
  PROVE  /\ Policed' = Policed
         /\ tracked # 0 => roots'[tracked].last = roots[tracked].last
<1>1. tracked # 0 => tracked \in 1..Len(roots)
  BY DEF RootsOK
<1>2. QED BY <1>1 DEF Steady, SameRoots, Policed

LEMMA SteadyGens ==
  ASSUME GensDrawn, Steady
  PROVE  GensDrawn'
  BY DEF GensDrawn, Steady, SameLoads

LEMMA SteadyPast ==
  ASSUME PastOnes, Steady
  PROVE  PastOnes'
<1>1. \A n : Drawn(n) => Drawn(n)'
  BY DEF Drawn, Steady, SameLoads
<1>2. QED BY <1>1 DEF PastOnes, Steady, SameRoots, SameDeletes

LEMMA SteadyApart ==
  ASSUME RootsOK, Apart, Steady
  PROVE  Apart'
<1>1. Policed' = Policed
  BY SteadyTracked
<1>2. QED BY <1>1 DEF Apart, Steady, SameRoots, SameDeletes

LEMMA SteadyOwned ==
  ASSUME RootsOK, Owned, Steady
  PROVE  Owned'
<1>1. Policed' = Policed
  BY SteadyTracked
<1>2. QED BY <1>1 DEF Owned, Steady, SameLoads

LEMMA SteadyLast ==
  ASSUME RootsOK, LastDrawn, Steady
  PROVE  LastDrawn'
<1>1. tracked # 0 => roots'[tracked].last = roots[tracked].last
  BY SteadyTracked
<1>2. tracked' = tracked /\ gen' = gen
  BY DEF Steady
<1>3. QED BY <1>1, <1>2 DEF LastDrawn, Steady, SameLoads

-----------------------------------------------------------------------------
(* What the applies under way have loaded, and what is loaded.             *)

\* What an apply has loaded is there, or was removed under it, under its rule.
LoadStands(w) ==
  /\ w.docs = DocsOf(w.rule) /\ w.added \cup w.failed \subseteq w.docs
  /\ Fresh(w) \subseteq Loaded \cup snatched
  /\ \A k \in kernel : k.name \in Fresh(w) => k.rule = w.rule
LoadsStand == \A g \in Routines : Loading(g) => LoadStands(work[g])

\* What is loaded is known to somebody, or the Reconcile to come will list it.
Unreconciled(n) == ~reconciled /\ (work["stream"].pc \in {"check", "remove"} => n \in work["stream"].names)
ToDelete(n) == \E g \in Routines : Deleting(g) /\ n \in work[g].names
Accounted(n) == n \in undeleted \/ n \in owned \/ InFlight(n) \/ Unreconciled(n) \/ ToDelete(n)
NoneAstray == \A n \in Loaded : Accounted(n)

\* A re-apply is to come.
Pending == fired \/ \E g \in Routines : work[g].pc = "next" /\ Head(work[g].then) = "reapply"

\* The latest apply has the current rule, or another is to come.
LoadsCurrent == Pending \/ \A g \in Routines :
  Loading(g) /\ work[g].gen = gen /\ work[g].root = tracked => work[g].rule = RuleFor(pol)

\* When all its documents loaded, the tracked root has exactly one rule's, the
\* current one's if its apply was the latest.
RuledBy(rule) ==
  /\ Policed = {[gen |-> roots[tracked].last.gen, doc |-> d] : d \in DocsOf(rule)}
  /\ \A k \in kernel : k.name \in Policed => k.rule = rule
  /\ roots[tracked].last.gen = gen => Pending \/ rule = RuleFor(pol)
WholeCurrent == tracked # 0 /\ roots[tracked].last.whole => \E rule \in Rules : RuledBy(rule)

\* And they are loaded, unless Reconcile removed them or will find them missing.
Gone(n) == n \notin Loaded \cup snatched
Overlooked(n) == ~reconciled /\ (work["stream"].pc \in {"check", "remove"} => n \notin work["stream"].have)
Latest == tracked # 0 /\ roots[tracked].last = [gen |-> gen, whole |-> TRUE]
WholeLoaded == Latest /\ connected => \A n \in Policed : Gone(n) => Overlooked(n)

\* While the daemon is down it knows nothing, and does nothing.
DownIsIdle == ~up =>
  /\ ~connected /\ events = <<>> /\ ~fired /\ roots = <<>> /\ tracked = 0 /\ owned = {}
  /\ \A g \in Routines : work[g] = Idle
FiredInWindow == fired => window

\* The inductive invariant, with the types.
Books == GensDrawn /\ PastOnes /\ Apart /\ Owned /\ LastDrawn
Core == Books /\ LoadsStand /\ NoneAstray /\ LoadsCurrent /\ WholeCurrent /\ WholeLoaded
IInv == Core /\ DownIsIdle /\ FiredInWindow

\* The current rule is what it was, or a re-apply is to come, or nothing is tracked.
KeepsRule == tracked = 0 \/ Pending' \/ (~Pending /\ RuleFor(pol)' = RuleFor(pol))

LEMMA SteadyLoads ==
  ASSUME RootsOK, WorkOK, LoadsCurrent, Steady, KeepsRule
  PROVE  LoadsCurrent'
<1> SUFFICES ASSUME ~Pending', NEW g \in Routines, Loading(g)', work'[g].gen = gen', work'[g].root = tracked'
             PROVE  work'[g].rule = RuleFor(pol)'
  BY DEF LoadsCurrent
<1>1. /\ Loading(g) /\ work[g].gen = gen /\ work[g].root = tracked /\ work'[g].rule = work[g].rule
  BY DEF Steady, SameLoads
<1>2. tracked # 0
  BY <1>1 DEF WorkOK, Sound, Loading
<1>3. ~Pending /\ RuleFor(pol)' = RuleFor(pol)
  BY <1>2 DEF KeepsRule
<1>4. QED BY <1>1, <1>3 DEF LoadsCurrent

LEMMA SteadyWhole ==
  ASSUME RootsOK, WholeCurrent, Steady, KeepsRule, \A k \in kernel' : k.name \in Policed => k \in kernel
  PROVE  WholeCurrent'
<1> SUFFICES ASSUME tracked' # 0, roots'[tracked'].last.whole
             PROVE  \E rule \in Rules : RuledBy(rule)'
  BY DEF WholeCurrent
<1>1. tracked' = tracked /\ gen' = gen /\ Policed' = Policed /\ roots'[tracked].last = roots[tracked].last
  BY SteadyTracked DEF Steady
<1>2. PICK rule \in Rules : RuledBy(rule)
  BY <1>1 DEF WholeCurrent
<1>3. roots'[tracked].last.gen = gen' => Pending' \/ rule = RuleFor(pol)'
  BY <1>1, <1>2 DEF RuledBy, KeepsRule
<1>4. DocsOf(rule)' = DocsOf(rule)
  BY DEF DocsOf
<1>5. RuledBy(rule)'
  BY <1>1, <1>2, <1>3, <1>4 DEF RuledBy
<1>6. QED BY <1>5

LEMMA SteadyLoaded ==
  ASSUME RootsOK, WholeLoaded, Steady,
         connected' => \A n \in Policed : Gone(n)' => Gone(n) /\ ((connected => Overlooked(n)) => Overlooked(n)')
  PROVE  WholeLoaded'
<1>1. tracked' = tracked /\ gen' = gen /\ Policed' = Policed
      /\ (tracked # 0 => roots'[tracked].last = roots[tracked].last)
  BY SteadyTracked DEF Steady
<1>2. Latest' => Latest
  BY <1>1 DEF Latest
<1>3. QED BY <1>1, <1>2 DEF WholeLoaded

LEMMA SteadyBooks ==
  ASSUME RootsOK, Books, Steady
  PROVE  Books'
  BY SteadyGens, SteadyPast, SteadyApart, SteadyOwned, SteadyLast DEF Books

-----------------------------------------------------------------------------
(* Steps in which nothing is loaded, registered, deleted or untracked.     *)

Busy == {"load", "delete"}
SameBusy == \A h \in Routines : work'[h] = work[h] \/ (work[h].pc \notin Busy /\ work'[h].pc \notin Busy)
Quiet == UNCHANGED <<gen, tracked, owned, raced, kernel, undeleted, snatched>> /\ SameRoots /\ SameBusy

\* What Reconcile knows, and what it has yet to find out.
Reconciling == work["stream"].pc \in {"check", "remove"}
KeepsList ==
  /\ \A n \in Loaded : Unreconciled(n) => Unreconciled(n)' \/ n \in owned
  /\ connected' => \A n \in Policed : Gone(n) /\ (connected => Overlooked(n)) => Overlooked(n)'

LEMMA QuietSteady == Quiet => Steady
  BY DEF Quiet, Steady, SameLoads, SameDeletes, SameBusy, Busy, Loading, Deleting

LEMMA QuietKeeps ==
  ASSUME RootsOK, WorkOK, Core, Quiet, KeepsRule, KeepsList
  PROVE  Core'
<1>1. Steady
  BY QuietSteady
<1>2. kernel' = kernel /\ snatched' = snatched /\ undeleted' = undeleted /\ owned' = owned
  BY DEF Quiet
<1>3. Books'
  BY <1>1, SteadyBooks DEF Core
<1>4. LoadsStand'
  <2> SUFFICES ASSUME NEW h \in Routines, Loading(h)' PROVE LoadStands(work[h])'
    BY DEF LoadsStand
  <2>1. work'[h] = work[h] /\ Loading(h)
    BY DEF Quiet, SameBusy, Busy, Loading
  <2>2. LoadStands(work[h])
    BY <2>1 DEF Core, LoadsStand
  <2>3. QED BY <1>2, <2>1, <2>2 DEF LoadStands, Fresh, Loaded, DocsOf
<1>5. NoneAstray'
  <2> SUFFICES ASSUME NEW n \in Loaded' PROVE Accounted(n)'
    BY DEF NoneAstray
  <2>1. n \in Loaded
    BY <1>2 DEF Loaded
  <2>2. Accounted(n)
    BY <2>1 DEF Core, NoneAstray
  <2>3. InFlight(n) => InFlight(n)'
    BY DEF InFlight, Quiet, SameBusy, Busy
  <2>4. ToDelete(n) => ToDelete(n)'
    BY DEF ToDelete, Deleting, Quiet, SameBusy, Busy
  <2>5. Unreconciled(n) => Unreconciled(n)' \/ n \in owned
    BY <2>1 DEF KeepsList
  <2>6. QED BY <1>2, <2>2, <2>3, <2>4, <2>5 DEF Accounted
<1>6. LoadsCurrent'
  BY <1>1, SteadyLoads DEF Core
<1>7. WholeCurrent'
  BY <1>1, <1>2, SteadyWhole DEF Core
<1>8. WholeLoaded'
  <2>1. \A n : Gone(n)' <=> Gone(n)
    BY <1>2 DEF Gone, Loaded
  <2>2. QED BY <1>1, <2>1, SteadyLoaded DEF Core, KeepsList
<1>9. QED BY <1>3, <1>4, <1>5, <1>6, <1>7, <1>8 DEF Core

\* The stream does something else than reconciling, before and after.
Aside == work'["stream"] = work["stream"] \/ (~Reconciling /\ ~Reconciling')

LEMMA AsideKeeps ==
  ASSUME reconciled' = reconciled, connected' = connected, Aside
  PROVE  KeepsList /\ \A n : (Unreconciled(n) => Unreconciled(n)') /\ (Overlooked(n) => Overlooked(n)')
  BY DEF KeepsList, Aside, Reconciling, Unreconciled, Overlooked

\* The rule stays, and so do the re-applies to come.
LEMMA RuleStays ==
  ASSUME UNCHANGED <<pol, window, over>>, fired => fired',
         \A h \in Routines : work[h].pc = "next" /\ Head(work[h].then) = "reapply" => work'[h] = work[h]
  PROVE  KeepsRule
<1>1. Pending => Pending'
  BY DEF Pending
<1>2. RuleFor(pol)' = RuleFor(pol)
  BY DEF RuleFor
<1>3. QED BY <1>1, <1>2 DEF KeepsRule

\* One goroutine, not applying or deleting, goes on to something of that kind.
LEMMA OneSameBusy ==
  ASSUME NEW g \in Routines, \A h \in Routines : h # g => work'[h] = work[h],
         work[g].pc \notin Busy, work'[g].pc \notin Busy
  PROVE  SameBusy
  BY DEF SameBusy

LEMMA RootsStay == roots' = roots => SameRoots
  BY DEF SameRoots

\* A change leaves a goroutine a re-apply to do.
LEMMA ChangePends ==
  ASSUME TypeOK, TypeOK', Core, NEW g \in Routines, work[g].pc = "idle", ToReapply(g), roots' = roots,
         UNCHANGED <<gen, tracked, owned, raced, kernel, undeleted, snatched, connected, reconciled>>
  PROVE  Core'
<1>0. RootsOK /\ WorkOK
  BY Typed
<1>1. /\ work'[g].pc = "next" /\ Head(work'[g].then) = "reapply"
      /\ \A h \in Routines : h # g => work'[h] = work[h]
  BY <1>0, Changed
<1>2. KeepsRule
  BY <1>1 DEF KeepsRule, Pending
<1>3. Aside
  BY <1>1, <1>0, StreamRoutine DEF Aside, Reconciling
<1>4. Quiet
  <2>1. SameBusy
    BY <1>1, OneSameBusy DEF Busy
  <2>2. QED BY <2>1, RootsStay DEF Quiet
<1>5. QED BY <1>0, <1>2, <1>3, <1>4, AsideKeeps, QuietKeeps

LEMMA CoreStill ==
  ASSUME TypeOK, Core, UNCHANGED <<engine, work, kernel, notes>>, UNCHANGED connected
  PROVE  Core'
<1>0. RootsOK /\ WorkOK
  BY Typed
<1>1. KeepsRule
  <2>1. UNCHANGED <<pol, window, over, fired, work>>
    BY DEF engine
  <2>2. QED BY <2>1, RuleStays
<1>2. KeepsList
  BY AsideKeeps DEF Aside, notes
<1>3. Quiet
  <2>1. roots' = roots /\ UNCHANGED <<gen, tracked, owned, raced, kernel, undeleted, snatched>>
    BY DEF engine, notes
  <2>2. SameBusy
    BY DEF SameBusy
  <2>3. QED BY <2>1, <2>2, RootsStay DEF Quiet
<1>4. QED BY <1>0, <1>1, <1>2, <1>3, QuietKeeps

LEMMA CoreProcess ==
  ASSUME TypeOK, Core, ProcessStarts \/ ProcessEnds
  PROVE  Core'
<1>1. UNCHANGED <<engine, work, kernel, notes>> /\ UNCHANGED connected
  BY DEF ProcessStarts, ProcessEnds
<1>2. QED BY <1>1, CoreStill

\* A goroutine that is not reconciling does something that loads and deletes
\* nothing, and was not about to apply again.
LEMMA CoreAlone ==
  ASSUME TypeOK, Core, NEW g \in Routines, \A h \in Routines : h # g => work'[h] = work[h],
         work[g].pc \notin Busy, work'[g].pc \notin Busy,
         ~(work[g].pc = "next" /\ Head(work[g].then) = "reapply"),
         work[g].pc \notin {"check", "remove"}, work'[g].pc \notin {"check", "remove"}, SameRoots,
         UNCHANGED <<pol, window, over, fired, gen, tracked, owned, raced, kernel, undeleted, snatched, connected, reconciled>>
  PROVE  Core'
<1>0. RootsOK /\ WorkOK /\ "stream" \in Routines
  BY Typed, StreamRoutine
<1>1. KeepsRule
  BY RuleStays
<1>2. Aside
  BY <1>0 DEF Aside, Reconciling
<1>3. KeepsList
  BY <1>2, AsideKeeps
<1>4. Quiet
  BY OneSameBusy DEF Quiet
<1>5. QED BY <1>0, <1>1, <1>3, <1>4, QuietKeeps

LEMMA CoreOnExec ==
  ASSUME TypeOK, Core, OnExec
  PROVE  Core'
<1>0. RootsOK /\ WorkOK /\ LinkOK
  BY Typed
<1> DEFINE p == Head(events).proc
<1>1. UNCHANGED <<connected, pol, window, over, fired, gen, tracked, owned, kernel, undeleted, snatched, reconciled, raced>>
  BY DEF OnExec, notes
<1>2. "loop" \in Routines /\ work["loop"].pc = "idle"
  BY DEF OnExec, Received, Free, Routines
<1>3. CASE tracked # 0 /\ roots' = [roots EXCEPT ![tracked].exec = p] /\ UNCHANGED work
  <2>1. tracked \in 1..Len(roots) /\ roots[tracked] \in Root
    BY <1>3, TrackedRoot, <1>0
  <2>2. SameRoots
    BY <1>0, <1>3, <2>1 DEF SameRoots, RootsOK, Root
  <2>3. QED BY <1>1, <1>2, <1>3, <2>2, CoreAlone DEF Busy
<1>4. CASE Step("loop", Tracking(p, <<>>)) /\ UNCHANGED roots
  <2>1. p \in 0..MaxProcs /\ p \in Nat
    <3>1. Received /\ events' = Tail(events) /\ UNCHANGED <<up, connected, first>>
      BY DEF OnExec
    <3>2. QED BY <1>0, <3>1, Receives, Bounds
  <2>2. Tracking(p, <<>>) \in Work /\ Tracking(p, <<>>).pc = "track" /\ Tracking(p, <<>>).root = p
    <3> HIDE DEF p
    <3>1. <<>> \in Seq(Steps)
      BY EmptySteps
    <3>2. QED BY <2>1, <3>1, TrackingIsWork
  <2>3. work'["loop"].pc = "track" /\ \A h \in Routines : h # "loop" => work'[h] = work[h]
    <3>1. Sound(Tracking(p, <<>>), Len(roots))
      BY <2>1, <2>2 DEF Sound
    <3>2. QED BY <1>0, <1>2, <1>4, <2>2, <3>1, StepAlone
  <2>4. SameRoots
    BY <1>4, RootsStay
  <2>5. QED BY <1>1, <1>2, <2>3, <2>4, CoreAlone DEF Busy
<1>5. QED BY <1>3, <1>4 DEF OnExec

LEMMA CoreBootstrap ==
  ASSUME TypeOK, Core, NEW g \in Routines, Bootstrap(g)
  PROVE  Core'
<1>0. RootsOK /\ WorkOK
  BY Typed
<1> DEFINE steps == Tail(work[g].then)
<1>1. /\ UNCHANGED <<connected, pol, window, over, fired, gen, tracked, owned, kernel, undeleted, snatched, reconciled, raced>>
      /\ roots' = roots /\ SameRoots
  BY RootsStay DEF Bootstrap, engine, notes, link
<1>2. work[g].pc = "next" /\ Head(work[g].then) = "scan" /\ steps \in Seq(Steps)
  BY <1>0, NextSteps DEF Bootstrap
<1>3. work'[g].pc \in {"idle", "next", "track"} /\ \A h \in Routines : h # g => work'[h] = work[h]
  <2>1. CASE Step(g, Tracking(0, steps))
    <3>1. 0 \in Nat /\ 0 \in 0..MaxProcs
      BY Bounds
    <3>2. Tracking(0, steps) \in Work /\ Tracking(0, steps).pc = "track" /\ Tracking(0, steps).root = 0
      BY <1>2, <3>1, TrackingIsWork
    <3>3. Sound(Tracking(0, steps), Len(roots))
      BY <3>1, <3>2 DEF Sound
    <3>4. QED BY <1>0, <1>1, <2>1, <3>2, <3>3, StepAlone
  <2>2. CASE Step(g, Going(steps))
    BY <1>0, <1>1, <1>2, <2>2, GoingIsWork, Goes
  <2>3. QED BY <2>1, <2>2 DEF Bootstrap, Going
<1>4. QED BY <1>1, <1>2, <1>3, CoreAlone DEF Busy

LEMMA CoreChange ==
  ASSUME TypeOK, TypeOK', Core, DownIsIdle, FiredInWindow, Change
  PROVE  Core'
<1>0. RootsOK /\ WorkOK /\ RuleOK /\ LinkOK
  BY Typed
<1>1. /\ UNCHANGED <<connected, gen, tracked, owned, kernel, undeleted, snatched, reconciled, raced>>
      /\ roots' = roots /\ SameRoots
  BY RootsStay DEF Change, SetPolicy, OnDomainsChanged, SetBreakGlass, WindowOver, ExpireBreakGlass, engine, link, notes
<1>2. CASE \E p \in Policies : SetPolicy(p)
  <2>1. "sync" \in Routines /\ work["sync"].pc = "idle" /\ ToReapply("sync")
    BY <1>2, ToReapplySteps DEF SetPolicy, Free, Routines
  <2>2. QED BY <1>1, <2>1, ChangePends
<1>3. CASE OnDomainsChanged
  <2>1. "resolver" \in Routines /\ work["resolver"].pc = "idle" /\ ToReapply("resolver")
    BY <1>3, ToReapplySteps DEF OnDomainsChanged, Free, Routines
  <2>2. QED BY <1>1, <2>1, ChangePends
<1>4. CASE SetBreakGlass
  <2>1. "api" \in Routines /\ work["api"].pc = "idle" /\ ToReapply("api")
    BY <1>4, ToReapplySteps DEF SetBreakGlass, Free, Routines
  <2>2. QED BY <1>1, <2>1, ChangePends
<1>5. ASSUME UNCHANGED work, KeepsRule PROVE Core'
  <2>1. KeepsList
    BY <1>1, <1>5, AsideKeeps DEF Aside
  <2>2. Quiet
    BY <1>1, <1>5 DEF Quiet, SameBusy
  <2>3. QED BY <1>0, <1>5, <2>1, <2>2, QuietKeeps
<1>6. CASE WindowOver
  <2>1. UNCHANGED work
    BY <1>6 DEF WindowOver
  <2>2. KeepsRule
    <3>1. CASE up
      <4>1. fired'
        BY <1>6, <3>1 DEF WindowOver
      <4>2. QED BY <4>1 DEF KeepsRule, Pending
    <3>2. CASE ~up
      BY <3>2 DEF DownIsIdle, KeepsRule
    <3>3. QED BY <3>1, <3>2
  <2>3. QED BY <1>5, <2>1, <2>2
<1>7. CASE ExpireBreakGlass
  <2>1. "timer" \in Routines /\ work["timer"].pc = "idle" /\ window
    BY <1>7 DEF ExpireBreakGlass, FiredInWindow, Free, Routines
  <2>2. ToReapply("timer")
    BY <1>7, <2>1, ToReapplySteps DEF ExpireBreakGlass
  <2>3. QED BY <1>1, <2>1, <2>2, ChangePends
<1>8. QED BY <1>2, <1>3, <1>4, <1>6, <1>7 DEF Change

LEMMA CoreConnect ==
  ASSUME TypeOK, TypeOK', Core, Connect
  PROVE  Core'
<1>0. RootsOK /\ WorkOK
  BY Typed
<1>1. /\ UNCHANGED <<pol, window, over, fired, gen, tracked, owned, kernel, undeleted, snatched, raced>>
      /\ roots' = roots /\ SameRoots
  BY RootsStay DEF Connect, engine
<1>2. "stream" \in Routines /\ work["stream"].pc = "idle" /\ ToReapply("stream")
  BY ToReapplySteps DEF Routines, Connect, Free
<1>3. /\ work'["stream"].pc = "next" /\ Head(work'["stream"].then) = "reapply"
      /\ \A h \in Routines : h # "stream" => work'[h] = work[h]
  BY <1>0, <1>1, <1>2, Changed
<1>4. KeepsRule
  BY <1>2, <1>3 DEF KeepsRule, Pending
<1>5. KeepsList
  BY <1>3 DEF KeepsList, Unreconciled, Overlooked, Connect
<1>6. Quiet
  BY <1>1, <1>2, <1>3, OneSameBusy DEF Quiet, Busy
<1>7. QED BY <1>0, <1>4, <1>5, <1>6, QuietKeeps

LEMMA CoreReconcile ==
  ASSUME TypeOK, Core, Reconcile
  PROVE  Core'
<1>0. RootsOK /\ WorkOK /\ NotesOK
  BY Typed
<1>1. /\ UNCHANGED <<pol, window, over, fired, gen, tracked, owned, kernel, undeleted, snatched, raced, reconciled, connected>>
      /\ roots' = roots /\ SameRoots
  BY RootsStay DEF Reconcile, engine, notes
<1>2. "stream" \in Routines /\ work["stream"].pc = "next" /\ Head(work["stream"].then) = "reconcile"
  BY DEF Routines, Reconcile
<1>3. CASE Step("stream", Idle)
  <2>1. work'["stream"].pc = "idle" /\ \A h \in Routines : h # "stream" => work'[h] = work[h]
    BY <1>0, <1>1, <1>2, <1>3, IdleIsWork, Goes
  <2>2. QED BY <1>1, <1>2, <2>1, CoreAlone DEF Busy
<1>4. CASE Step("stream", Listed(Loaded))
  <2>1. /\ work'["stream"].pc = "check" /\ work'["stream"].names = Loaded /\ work'["stream"].have = Loaded
        /\ \A h \in Routines : h # "stream" => work'[h] = work[h]
    BY <1>0, <1>1, <1>2, <1>4, LoadedNames, ListedIsWork, Goes
  <2>2. KeepsRule
    BY <1>1, <1>2, <2>1, RuleStays
  <2>3. KeepsList
    <3>1. \A n \in Loaded : Unreconciled(n) => Unreconciled(n)'
      BY <1>1, <2>1 DEF Unreconciled
    <3>2. \A n : Gone(n) /\ (connected => Overlooked(n)) /\ connected => Overlooked(n)'
      BY <1>1, <2>1 DEF Gone, Overlooked
    <3>3. QED BY <1>1, <3>1, <3>2 DEF KeepsList
  <2>4. Quiet
    BY <1>1, <1>2, <2>1, OneSameBusy DEF Quiet, Busy
  <2>5. QED BY <1>0, <2>2, <2>3, <2>4, QuietKeeps
<1>5. QED BY <1>3, <1>4 DEF Reconcile, Listed

LEMMA CoreCheck ==
  ASSUME TypeOK, Core, NEW n \in work["stream"].names, Check(n)
  PROVE  Core'
<1>0. RootsOK /\ WorkOK
  BY Typed
<1>1. /\ UNCHANGED <<pol, window, over, fired, gen, tracked, owned, kernel, undeleted, snatched, raced, reconciled, connected>>
      /\ roots' = roots /\ SameRoots
  BY RootsStay DEF Check, engine, notes, link
<1>2. "stream" \in Routines /\ work["stream"] \in Work /\ work["stream"].pc = "check" /\ n \in Names
  BY <1>0, StreamRoutine DEF Check, Work
<1>3. /\ work'["stream"].pc = "remove" /\ work'["stream"].names = work["stream"].names
      /\ work'["stream"].have = work["stream"].have
      /\ \A h \in Routines : h # "stream" => work'[h] = work[h]
  <2> DEFINE w == [work["stream"] EXCEPT !.pc = "remove", !.stale = {n}]
  <2>1. Step("stream", w)
    BY DEF Check
  <2>2. w \in Work /\ w.pc = "remove" /\ w.names = work["stream"].names /\ w.have = work["stream"].have
    BY <1>2, CheckedIsWork
  <2> HIDE DEF w
  <2>3. work'["stream"] = w /\ \A h \in Routines : h # "stream" => work'[h] = work[h]
    BY <1>0, <1>1, <1>2, <2>1, <2>2, Goes
  <2>4. QED BY <2>2, <2>3
<1>4. KeepsRule
  BY <1>1, <1>2, <1>3, RuleStays
<1>5. KeepsList
  BY <1>1, <1>2, <1>3 DEF KeepsList, Unreconciled, Overlooked
<1>6. Quiet
  BY <1>1, <1>2, <1>3, OneSameBusy DEF Quiet, Busy
<1>7. QED BY <1>0, <1>4, <1>5, <1>6, QuietKeeps

LEMMA CoreStart ==
  ASSUME TypeOK, Core, DownIsIdle, Start
  PROVE  Core'
<1>0. RootsOK /\ WorkOK
  BY Typed
<1>1. /\ UNCHANGED <<connected, gen, tracked, owned, kernel, undeleted, snatched, raced, reconciled, work>>
      /\ roots' = roots /\ SameRoots
  BY RootsStay DEF Start, notes
<1>2. tracked = 0
  BY DEF DownIsIdle, Start
<1>3. KeepsRule
  BY <1>2 DEF KeepsRule
<1>4. KeepsList
  BY <1>1, AsideKeeps DEF Aside
<1>5. Quiet
  BY <1>1 DEF Quiet, SameBusy
<1>6. QED BY <1>0, <1>3, <1>4, <1>5, QuietKeeps

-----------------------------------------------------------------------------
(* Steps that load or delete documents.                                    *)

\* The names of the tracked root are of generations no apply under way has.
LEMMA PolicedDrawn ==
  ASSUME RootsOK, Books
  PROVE  Policed \subseteq owned /\ \A n \in Policed : Drawn(n)
<1>1. CASE tracked = 0
  BY <1>1 DEF Policed
<1>2. CASE tracked # 0
  <2>1. tracked \in 1..Len(roots) /\ Policed = roots[tracked].policies
    BY <1>2, TrackedRoot
  <2>2. QED BY <2>1 DEF Books, PastOnes, Owned
<1>3. QED BY <1>1, <1>2

\* Two applies under way load different names.
LEMMA FreshApart ==
  ASSUME GensDrawn, NEW g \in Routines, NEW h \in Routines, Loading(g), Loading(h), g # h
  PROVE  work[g].gen # work[h].gen /\ \A n \in Fresh(work[h]) : n.gen = work[h].gen
  BY DEF GensDrawn, Fresh

LEMMA CoreAdd ==
  ASSUME TypeOK, Core, NEW g \in Routines, NEW d \in Docs, Add(g, d)
  PROVE  Core'
<1>0. RootsOK /\ WorkOK /\ NotesOK /\ Books /\ LoadsStand /\ NoneAstray
  BY Typed DEF Core
<1> DEFINE w == work[g]
           n == [gen |-> w.gen, doc |-> d]
           loads == [w EXCEPT !.added = @ \cup {d}]
           fails == [w EXCEPT !.failed = @ \cup {d}]
           put == [name |-> n, rule |-> w.rule]
<1>1. /\ UNCHANGED <<pol, window, over, fired, gen, tracked, owned, undeleted, snatched, raced, reconciled, connected>>
      /\ roots' = roots /\ SameRoots
  BY RootsStay DEF Add, engine, notes, link
<1>2. w \in Work /\ w.pc = "load" /\ Loading(g) /\ d \in w.docs /\ n \in Names
  <2>1. w \in Work /\ w.pc = "load" /\ Loading(g) /\ d \in Ready(w)
    BY <1>0 DEF Add, WorkOK, Loading
  <2>2. d \in w.docs
    BY <2>1 DEF Ready
  <2>3. QED BY <2>1, <2>2 DEF Names, Work
<1>3. \A h \in Routines : h # g => work'[h] = work[h]
  BY <1>0 DEF Add, WorkOK
<1>4. \/ n \notin Loaded /\ kernel' = kernel \cup {put} /\ work'[g] = loads
      \/ kernel' = kernel /\ work'[g] = fails
  BY <1>0 DEF Add, WorkOK
<1>5. /\ loads.pc = "load" /\ loads.gen = w.gen /\ loads.root = w.root /\ loads.rule = w.rule
      /\ loads.added = w.added \cup {d} /\ loads.failed = w.failed /\ loads.docs = w.docs
      /\ fails.pc = "load" /\ fails.gen = w.gen /\ fails.root = w.root /\ fails.rule = w.rule
      /\ fails.added = w.added /\ fails.failed = w.failed \cup {d} /\ fails.docs = w.docs
  BY <1>2 DEF Work
<1> HIDE DEF loads, fails
<1>6. /\ work'[g].pc = "load" /\ work'[g].gen = w.gen /\ work'[g].root = w.root /\ work'[g].rule = w.rule
      /\ work'[g].docs = w.docs /\ w.added \subseteq work'[g].added
      /\ work'[g].added \cup work'[g].failed \subseteq w.added \cup w.failed \cup {d}
  BY <1>4, <1>5
<1>7. Steady
  <2>1. SameLoads /\ SameDeletes
    BY <1>2, <1>3, <1>6 DEF SameLoads, SameDeletes, Loading, Deleting
  <2>2. QED BY <1>1, <2>1 DEF Steady
<1>8. Books'
  BY <1>0, <1>7, SteadyBooks
<1>9. Loaded \subseteq Loaded' /\ kernel \subseteq kernel'
  BY <1>4 DEF Loaded
<1>10. LoadsStand'
  <2> SUFFICES ASSUME NEW h \in Routines, Loading(h)' PROVE LoadStands(work[h])'
    BY DEF LoadsStand
  <2>1. Loading(h) /\ LoadStands(work[h])
    BY <1>0, <1>7 DEF Steady, SameLoads, LoadsStand
  <2>2. CASE h # g
    <3>1. work'[h] = work[h] /\ Fresh(work[h])' = Fresh(work[h])
      BY <1>3, <2>2 DEF Fresh
    <3>2. \A k \in kernel' : k.name \in Fresh(work[h]) => k \in kernel
      <4>1. n.gen = w.gen
        OBVIOUS
      <4>2. w.gen # work[h].gen /\ \A m \in Fresh(work[h]) : m.gen = work[h].gen
        BY <1>0, <1>2, <2>1, <2>2, FreshApart DEF Books
      <4>3. QED BY <1>4, <4>1, <4>2
    <3>3. QED BY <1>1, <1>9, <2>1, <3>1, <3>2 DEF LoadStands, DocsOf
  <2>3. CASE h = g
    <3>1. LoadStands(w)
      BY <2>1, <2>3
    <3>2. work'[g].docs = DocsOf(work'[g].rule) /\ work'[g].added \cup work'[g].failed \subseteq work'[g].docs
      BY <1>2, <1>6, <3>1 DEF LoadStands
    <3>3. CASE n \notin Loaded /\ kernel' = kernel \cup {put} /\ work'[g] = loads
      <4>1. Fresh(loads) = Fresh(w) \cup {n}
        BY <1>5 DEF Fresh
      <4>2. n \in Loaded'
        <5>1. put \in kernel' /\ put.name = n
          BY <3>3
        <5>2. QED BY <5>1 DEF Loaded
      <4>3. \A k \in kernel : k.name # n
        BY <3>3 DEF Loaded
      <4>4. \A k \in kernel' : k.name \in Fresh(loads) => k.rule = w.rule
        <5> SUFFICES ASSUME NEW k \in kernel', k.name \in Fresh(loads) PROVE k.rule = w.rule
          OBVIOUS
        <5>1. CASE k = put
          BY <5>1
        <5>2. CASE k \in kernel
          BY <3>1, <4>1, <4>3, <5>2 DEF LoadStands
        <5>3. QED BY <3>3, <5>1, <5>2
      <4>5. Fresh(loads) \subseteq Loaded' \cup snatched'
        BY <1>1, <1>9, <3>1, <4>1, <4>2 DEF LoadStands
      <4>6. Fresh(work[g])' = Fresh(loads) /\ work'[g].rule = w.rule
        BY <3>3, <1>5 DEF Fresh
      <4>7. QED BY <2>3, <3>2, <4>4, <4>5, <4>6 DEF LoadStands, DocsOf
    <3>4. CASE kernel' = kernel /\ work'[g] = fails
      <4>1. Fresh(work[g])' = Fresh(w)
        BY <1>5, <3>4 DEF Fresh
      <4>2. QED BY <1>1, <1>6, <1>9, <2>3, <3>1, <3>2, <3>4, <4>1 DEF LoadStands, DocsOf
    <3>5. QED BY <1>4, <3>3, <3>4
  <2>4. QED BY <2>2, <2>3
<1>11. NoneAstray'
  <2> SUFFICES ASSUME NEW m \in Loaded' PROVE Accounted(m)'
    BY DEF NoneAstray
  <2>1. CASE m \in Loaded
    <3>1. Accounted(m)
      BY <1>0, <2>1 DEF NoneAstray
    <3>2. InFlight(m) => InFlight(m)'
      BY <1>3, <1>6 DEF InFlight
    <3>3. ToDelete(m) => ToDelete(m)'
      BY <1>2, <1>3 DEF ToDelete, Deleting
    <3>4. Unreconciled(m) => Unreconciled(m)'
      BY <1>0, <1>1, <1>3, <1>6, StreamRoutine DEF Unreconciled
    <3>5. QED BY <1>1, <3>1, <3>2, <3>3, <3>4 DEF Accounted
  <2>2. CASE m \notin Loaded
    <3>1. m = n /\ work'[g] = loads
      BY <1>4, <2>2 DEF Loaded
    <3>2. InFlight(m)'
      BY <1>5, <3>1 DEF InFlight
    <3>3. QED BY <3>2 DEF Accounted
  <2>3. QED BY <2>1, <2>2
<1>12. KeepsRule
  BY <1>1, <1>2, <1>3, RuleStays
<1>13. LoadsCurrent'
  BY <1>0, <1>7, <1>12, SteadyLoads DEF Core
<1>14. WholeCurrent'
  <2>1. \A k \in kernel' : k.name \in Policed => k \in kernel
    <3>1. n \notin Policed
      BY <1>0, <1>2, PolicedDrawn DEF Drawn
    <3>2. QED BY <1>4, <3>1
  <2>2. QED BY <1>0, <1>7, <1>12, <2>1, SteadyWhole DEF Core
<1>15. WholeLoaded'
  <2>1. Aside
    BY <1>0, <1>2, <1>3, <1>6, StreamRoutine DEF Aside, Reconciling
  <2>2. \A m : (Gone(m)' => Gone(m)) /\ (Overlooked(m) => Overlooked(m)')
    BY <1>1, <1>9, <2>1, AsideKeeps DEF Gone
  <2>3. QED BY <1>0, <1>1, <1>7, <2>2, SteadyLoaded DEF Core
<1>16. QED BY <1>8, <1>10, <1>11, <1>13, <1>14, <1>15 DEF Core

\* What an apply has loaded is in flight, and nobody is deleting it.
LEMMA FreshInFlight ==
  ASSUME NEW h \in Routines, Loading(h)
  PROVE  \A n \in Fresh(work[h]) : InFlight(n)
  BY DEF Fresh, InFlight, Loading

LEMMA FreshNotDeleted ==
  ASSUME PastOnes, NEW g \in Routines, Deleting(g), NEW h \in Routines, Loading(h)
  PROVE  \A n \in Fresh(work[h]) : n \notin work[g].names
  BY DEF PastOnes, Drawn, Fresh

\* Documents that go, or stay, leave the applies as they stood.
LEMMA LoadsGo ==
  ASSUME LoadsStand, kernel' \subseteq kernel,
         \A h \in Routines : Loading(h)' => Loading(h) /\ work'[h] = work[h],
         \A h \in Routines : Loading(h) => \A n \in Fresh(work[h]) \cap (Loaded \cup snatched) : n \in Loaded' \cup snatched'
  PROVE  LoadsStand'
<1> SUFFICES ASSUME NEW h \in Routines, Loading(h)' PROVE LoadStands(work[h])'
  BY DEF LoadsStand
<1>1. Loading(h) /\ work'[h] = work[h] /\ LoadStands(work[h])
  BY DEF LoadsStand
<1>2. Fresh(work[h])' = Fresh(work[h])
  BY <1>1 DEF Fresh
<1>3. QED BY <1>1, <1>2 DEF LoadStands, DocsOf

LEMMA CoreDelete ==
  ASSUME TypeOK, Core, NEW g \in Routines, Delete(g)
  PROVE  Core'
<1>0. RootsOK /\ WorkOK /\ NotesOK /\ Books /\ LoadsStand /\ NoneAstray /\ PastOnes /\ Apart
  BY Typed DEF Core, Books
<1> DEFINE names == work[g].names
<1>1. /\ UNCHANGED <<pol, window, over, fired, gen, tracked, owned, snatched, raced, reconciled, connected>>
      /\ roots' = roots /\ SameRoots
  BY RootsStay DEF Delete, engine, link
<1>2. work[g] \in Work /\ work[g].pc = "delete" /\ Deleting(g)
  BY <1>0 DEF Delete, WorkOK, Deleting
<1>3. work'[g].pc \in {"idle", "next"} /\ \A h \in Routines : h # g => work'[h] = work[h]
  BY <1>0, <1>1, <1>2, RestIsWork, Goes DEF Delete
<1>4. PICK failing \in {{}} \cup {{n} : n \in names \cap Loaded} :
        /\ kernel' = {k \in kernel : k.name \notin names \ failing}
        /\ undeleted' = (undeleted \ names) \cup failing
  BY DEF Delete
<1>5. /\ kernel' \subseteq kernel /\ Loaded' \subseteq Loaded
      /\ \A n \in Loaded : n \notin names => n \in Loaded'
      /\ \A n \in Loaded' : n \in names => n \in undeleted'
      /\ \A n \in undeleted : n \notin names => n \in undeleted'
  <2>1. kernel' \subseteq kernel
    BY <1>4
  <2>2. Loaded' \subseteq Loaded
    BY <2>1 DEF Loaded
  <2>3. \A n \in Loaded : n \notin names => n \in Loaded'
    BY <1>4 DEF Loaded
  <2>4. \A n \in Loaded' : n \in names => n \in failing
    BY <1>4 DEF Loaded
  <2>5. QED BY <1>4, <2>1, <2>2, <2>3, <2>4
<1>6. Steady
  <2>1. SameLoads /\ SameDeletes
    BY <1>2, <1>3 DEF SameLoads, SameDeletes, Loading, Deleting
  <2>2. QED BY <1>1, <2>1 DEF Steady
<1>7. Books'
  BY <1>0, <1>6, SteadyBooks
<1>8. LoadsStand'
  <2>1. \A h \in Routines : Loading(h)' => Loading(h) /\ work'[h] = work[h]
    BY <1>3 DEF Loading
  <2>2. \A h \in Routines : Loading(h) => \A n \in Fresh(work[h]) \cap (Loaded \cup snatched) : n \in Loaded' \cup snatched'
    BY <1>0, <1>1, <1>2, <1>5, FreshNotDeleted
  <2>3. QED BY <1>0, <1>5, <2>1, <2>2, LoadsGo
<1>9. Aside
  BY <1>0, <1>2, <1>3, StreamRoutine DEF Aside, Reconciling
<1>10. NoneAstray'
  <2> SUFFICES ASSUME NEW m \in Loaded' PROVE Accounted(m)'
    BY DEF NoneAstray
  <2>1. CASE m \in names
    BY <1>5, <2>1 DEF Accounted
  <2>2. CASE m \notin names
    <3>1. Accounted(m)
      BY <1>0, <1>5 DEF NoneAstray
    <3>2. InFlight(m) => InFlight(m)'
      BY <1>2, <1>3 DEF InFlight
    <3>3. ToDelete(m) => ToDelete(m)'
      BY <1>3, <2>2 DEF ToDelete, Deleting
    <3>4. Unreconciled(m) => Unreconciled(m)'
      BY <1>1, <1>9, AsideKeeps
    <3>5. QED BY <1>1, <1>5, <2>2, <3>1, <3>2, <3>3, <3>4 DEF Accounted
  <2>3. QED BY <2>1, <2>2
<1>11. KeepsRule
  BY <1>1, <1>2, <1>3, RuleStays
<1>12. LoadsCurrent' /\ WholeCurrent'
  BY <1>0, <1>5, <1>6, <1>11, SteadyLoads, SteadyWhole DEF Core
<1>13. WholeLoaded'
  <2>1. \A m \in Policed : Gone(m)' => Gone(m)
    BY <1>0, <1>1, <1>2, <1>5 DEF Gone, Apart
  <2>2. \A m : Overlooked(m) => Overlooked(m)'
    BY <1>1, <1>9, AsideKeeps
  <2>3. QED BY <1>0, <1>1, <1>6, <2>1, <2>2, SteadyLoaded DEF Core
<1>14. QED BY <1>7, <1>8, <1>10, <1>12, <1>13 DEF Core

LEMMA CoreRemove ==
  ASSUME TypeOK, Core, Remove
  PROVE  Core'
<1>0. RootsOK /\ WorkOK /\ NotesOK /\ Books /\ LoadsStand /\ NoneAstray
  BY Typed DEF Core
<1>1. /\ UNCHANGED <<pol, window, over, fired, gen, tracked, owned, raced, reconciled, connected>>
      /\ roots' = roots /\ SameRoots
  BY RootsStay DEF Remove, engine, link
<1>2. "stream" \in Routines /\ work["stream"] \in Work /\ work["stream"].pc = "remove"
  BY <1>0, StreamRoutine DEF Remove
<1>3. PICK n \in work["stream"].stale :
       /\ Step("stream", [work["stream"] EXCEPT !.pc = "check", !.names = @ \ {n}, !.stale = {}])
       /\ \/ /\ kernel' = {k \in kernel : k.name # n} /\ undeleted' = undeleted \ {n}
             /\ snatched' = IF n \in owned \/ InFlight(n) THEN snatched \cup {n} ELSE snatched
          \/ /\ undeleted' = undeleted \cup {n} /\ UNCHANGED <<kernel, snatched>>
  BY DEF Remove
<1>4. /\ work'["stream"].pc = "check" /\ work'["stream"].names = work["stream"].names \ {n}
      /\ work'["stream"].have = work["stream"].have
      /\ \A h \in Routines : h # "stream" => work'[h] = work[h]
  <2> DEFINE w == [work["stream"] EXCEPT !.pc = "check", !.names = @ \ {n}, !.stale = {}]
  <2>1. Step("stream", w) /\ n \in Names
    BY <1>2, <1>3 DEF Work
  <2>2. w \in Work /\ w.pc = "check" /\ w.names = work["stream"].names \ {n} /\ w.have = work["stream"].have
    BY <1>2, <2>1, CheckedIsWork
  <2> HIDE DEF w
  <2>3. work'["stream"] = w /\ \A h \in Routines : h # "stream" => work'[h] = work[h]
    BY <1>0, <1>1, <1>2, <2>1, <2>2, Goes
  <2>4. QED BY <2>2, <2>3
<1>5. /\ kernel' \subseteq kernel /\ Loaded' \subseteq Loaded
      /\ \A m \in Loaded \cup snatched : m # n \/ m \in owned \/ InFlight(m) => m \in Loaded' \cup snatched'
      /\ n \in Loaded' => n \in undeleted'
      /\ \A m \in undeleted : m # n => m \in undeleted'
  <2>1. CASE /\ kernel' = {k \in kernel : k.name # n} /\ undeleted' = undeleted \ {n}
             /\ snatched' = IF n \in owned \/ InFlight(n) THEN snatched \cup {n} ELSE snatched
    <3>1. Loaded' = Loaded \ {n}
      BY <2>1 DEF Loaded
    <3>2. QED BY <2>1, <3>1
  <2>2. CASE undeleted' = undeleted \cup {n} /\ UNCHANGED <<kernel, snatched>>
    BY <2>2 DEF Loaded
  <2>3. QED BY <1>3, <2>1, <2>2
<1>6. Steady
  <2>1. SameLoads /\ SameDeletes
    BY <1>2, <1>4 DEF SameLoads, SameDeletes, Loading, Deleting
  <2>2. QED BY <1>1, <2>1 DEF Steady
<1>7. Books'
  BY <1>0, <1>6, SteadyBooks
<1>8. LoadsStand'
  <2>1. \A h \in Routines : Loading(h)' => Loading(h) /\ work'[h] = work[h]
    BY <1>4 DEF Loading
  <2>2. \A h \in Routines : Loading(h) => \A m \in Fresh(work[h]) \cap (Loaded \cup snatched) : m \in Loaded' \cup snatched'
    BY <1>5, FreshInFlight
  <2>3. QED BY <1>0, <1>5, <2>1, <2>2, LoadsGo
<1>9. NoneAstray'
  <2> SUFFICES ASSUME NEW m \in Loaded' PROVE Accounted(m)'
    BY DEF NoneAstray
  <2>1. CASE m = n
    BY <1>5, <2>1 DEF Accounted
  <2>2. CASE m # n
    <3>1. Accounted(m)
      BY <1>0, <1>5 DEF NoneAstray
    <3>2. InFlight(m) => InFlight(m)'
      BY <1>2, <1>4 DEF InFlight
    <3>3. ToDelete(m) => ToDelete(m)'
      BY <1>2, <1>4 DEF ToDelete, Deleting
    <3>4. Unreconciled(m) => Unreconciled(m)'
      BY <1>1, <1>2, <1>4, <2>2 DEF Unreconciled
    <3>5. QED BY <1>1, <1>5, <2>2, <3>1, <3>2, <3>3, <3>4 DEF Accounted
  <2>3. QED BY <2>1, <2>2
<1>10. KeepsRule
  BY <1>1, <1>2, <1>4, RuleStays
<1>11. LoadsCurrent' /\ WholeCurrent'
  BY <1>0, <1>5, <1>6, <1>10, SteadyLoads, SteadyWhole DEF Core
<1>12. WholeLoaded'
  <2>1. Policed \subseteq owned
    BY <1>0, PolicedDrawn
  <2>2. \A m \in Policed : Gone(m)' => Gone(m)
    BY <1>5, <2>1 DEF Gone
  <2>3. \A m : Overlooked(m) => Overlooked(m)'
    BY <1>1, <1>2, <1>4 DEF Overlooked
  <2>4. QED BY <1>0, <1>1, <1>6, <2>2, <2>3, SteadyLoaded DEF Core
<1>13. QED BY <1>7, <1>8, <1>9, <1>11, <1>12 DEF Core

LEMMA CoreBreak ==
  ASSUME TypeOK, Core, Break
  PROVE  Core'
<1>0. RootsOK /\ WorkOK /\ NotesOK /\ Books /\ LoadsStand /\ NoneAstray
  BY Typed DEF Core
<1>1. /\ UNCHANGED <<pol, window, over, fired, gen, tracked, owned, raced, work>>
      /\ roots' = roots /\ SameRoots /\ ~reconciled' /\ ~connected'
  BY RootsStay DEF Break, engine
<1>2. \/ kernel' = {} /\ snatched' = snatched \cup {n \in Loaded : InFlight(n)}
      \/ UNCHANGED <<kernel, undeleted, snatched>>
  BY DEF Break
<1>3. Steady
  BY <1>1 DEF Steady, SameLoads, SameDeletes, Loading, Deleting
<1>4. Books'
  BY <1>0, <1>3, SteadyBooks
<1>5. kernel' \subseteq kernel
  BY <1>2
<1>6. LoadsStand'
  <2>1. \A h \in Routines : Loading(h)' => Loading(h) /\ work'[h] = work[h]
    BY <1>1 DEF Loading
  <2>2. \A h \in Routines : Loading(h) => \A m \in Fresh(work[h]) \cap (Loaded \cup snatched) : m \in Loaded' \cup snatched'
    BY <1>2, FreshInFlight DEF Loaded
  <2>3. QED BY <1>0, <1>5, <2>1, <2>2, LoadsGo
<1>7. NoneAstray'
  <2> SUFFICES ASSUME NEW m \in Loaded' PROVE Accounted(m)'
    BY DEF NoneAstray
  <2>1. m \in Loaded /\ UNCHANGED <<kernel, undeleted, snatched>>
    BY <1>2 DEF Loaded
  <2>2. Accounted(m)
    BY <1>0, <2>1 DEF NoneAstray
  <2>3. QED BY <1>1, <2>1, <2>2 DEF Accounted, InFlight, ToDelete, Deleting, Unreconciled
<1>8. KeepsRule
  BY <1>1, RuleStays
<1>9. LoadsCurrent' /\ WholeCurrent'
  BY <1>0, <1>3, <1>5, <1>8, SteadyLoads, SteadyWhole DEF Core
<1>10. WholeLoaded'
  BY <1>1 DEF WholeLoaded
<1>11. QED BY <1>4, <1>6, <1>7, <1>9, <1>10 DEF Core

-----------------------------------------------------------------------------
(* Applies that start, with a new Root or for the one tracked.             *)

Draws(g, i, steps) ==
  /\ work[g].pc \notin Busy /\ work'[g] = Load(i, steps) /\ gen' = gen + 1 /\ tracked' = i
  /\ \A h \in Routines : h # g => work'[h] = work[h]
  /\ UNCHANGED <<pol, window, over, owned, kernel, undeleted, snatched>>
  /\ \/ roots' = roots /\ i = tracked /\ raced' = raced
     \/ /\ i = Len(roots) + 1 /\ raced' = (raced \/ tracked # 0)
        /\ \E p \in 0..MaxProcs : roots' = Append(roots, NewRoot(p))

\* Its generation is new, what is registered is older.
LEMMA DrawsRoots ==
  ASSUME RootsOK, NEW g, NEW i, NEW steps, Draws(g, i, steps), i # 0
  PROVE  /\ \A j \in 1..Len(roots') : (j \in 1..Len(roots) /\ roots'[j] = roots[j]) \/ roots'[j].policies = {}
         /\ Policed' = {} \/ (Policed' = Policed /\ i = tracked)
         /\ Policed' = roots'[i].policies
         /\ roots'[i].last = [gen |-> 0, whole |-> FALSE] \/ (roots'[i].last = roots[i].last /\ roots' = roots /\ i = tracked)
<1>1. CASE roots' = roots /\ i = tracked
  BY <1>1 DEF Policed, Draws
<1>2. CASE i = Len(roots) + 1 /\ \E p \in 0..MaxProcs : roots' = Append(roots, NewRoot(p))
  <2>1. PICK p \in 0..MaxProcs : roots' = Append(roots, NewRoot(p))
    BY <1>2
  <2>2. NewRoot(p) \in Root /\ roots \in Seq(Root)
    BY NewRootIsRoot DEF RootsOK
  <2>3. /\ Len(roots') = Len(roots) + 1 /\ roots'[Len(roots) + 1] = NewRoot(p)
        /\ \A j \in 1..Len(roots) : roots'[j] = roots[j]
    BY <2>1, <2>2
  <2>4. \A j \in 1..Len(roots') : j \in 1..Len(roots) \/ j = Len(roots) + 1
    BY <2>2, <2>3
  <2>5. Policed' = {} /\ roots'[i].last = [gen |-> 0, whole |-> FALSE] /\ roots'[i].policies = {}
    BY <1>2, <2>3 DEF Policed, NewRoot, Draws
  <2>6. QED BY <1>2, <2>3, <2>4, <2>5
<1>3. QED BY <1>1, <1>2 DEF Draws

LEMMA DrawsBooks ==
  ASSUME RootsOK, RuleOK, WorkOK, Books, NEW g \in Routines, NEW i \in Nat, NEW steps \in Seq(Steps),
         Draws(g, i, steps), i # 0
  PROVE  Books'
<1>1. /\ Loading(g)' /\ ~Loading(g) /\ work'[g].gen = gen + 1 /\ work'[g].root = i /\ ~Deleting(g)'
  BY LoadIsWork DEF Draws, Loading, Deleting, Busy
<1>2. /\ gen \in Nat /\ gen' = gen + 1 /\ tracked' = i /\ owned' = owned
      /\ \A h \in Routines : h # g => work'[h] = work[h]
  BY DEF RootsOK, Draws
<1>3. \A h \in Routines : Loading(h) => work[h].gen \in 1..gen /\ work[h].root \in 1..Len(roots)
  BY DEF Books, GensDrawn, WorkOK, Sound, Loading
<1>4. GensDrawn'
  <2> SUFFICES ASSUME NEW a \in Routines, Loading(a)'
               PROVE  /\ work'[a].gen \in 1..gen'
                      /\ \A h \in Routines : Loading(h)' /\ work'[h].gen = work'[a].gen => h = a
    BY DEF GensDrawn
  <2>1. \A h \in Routines : h # g /\ Loading(h)' => Loading(h) /\ work'[h].gen = work[h].gen /\ work[h].gen \in 1..gen
    BY <1>2, <1>3 DEF Loading
  <2>2. CASE a = g
    BY <1>1, <1>2, <2>1, <2>2
  <2>3. CASE a # g
    BY <1>1, <1>2, <2>1, <2>3 DEF Books, GensDrawn
  <2>4. QED BY <2>2, <2>3
<1>5. PastOnes'
  <2>1. \A n : n.gen \in Nat /\ Drawn(n) => Drawn(n)'
    BY <1>1, <1>2 DEF Drawn, Loading
  <2>2. ASSUME NEW j \in 1..Len(roots'), NEW n \in roots'[j].policies PROVE Drawn(n)'
    <3>1. j \in 1..Len(roots) /\ n \in roots[j].policies
      BY <2>2, DrawsRoots
    <3>2. roots[j] \in Root
      BY <3>1 DEF RootsOK
    <3>3. n \in Names
      BY <3>1, <3>2 DEF Root
    <3>4. n.gen \in Nat /\ Drawn(n)
      BY <3>1, <3>3 DEF Names, Books, PastOnes
    <3>5. QED BY <2>1, <3>4
  <2>3. ASSUME NEW h \in Routines, Deleting(h)', NEW n \in work'[h].names PROVE Drawn(n)'
    <3>1. h # g /\ Deleting(h) /\ n \in work[h].names
      BY <1>1, <1>2, <2>3 DEF Deleting
    <3>2. work[h] \in Work
      BY DEF WorkOK
    <3>3. n \in Names
      BY <3>1, <3>2 DEF Work
    <3>4. n.gen \in Nat /\ Drawn(n)
      BY <3>1, <3>3 DEF Names, Books, PastOnes
    <3>5. QED BY <2>1, <3>4
  <2>4. QED BY <2>2, <2>3 DEF PastOnes
<1>6. Apart'
  <2>1. CASE Policed' = {}
    BY <2>1 DEF Apart
  <2>2. CASE Policed' = Policed /\ i = tracked
    <3>1. \A j \in 1..Len(roots') : j # tracked' => roots'[j].policies \cap Policed' = {}
      BY <1>2, <2>2, DrawsRoots DEF Books, Apart
    <3>2. \A h \in Routines : Deleting(h)' => work'[h].names \cap Policed' = {}
      BY <1>1, <1>2, <2>2 DEF Books, Apart, Deleting
    <3>3. QED BY <3>1, <3>2 DEF Apart
  <2>3. QED BY <2>1, <2>2, DrawsRoots
<1>7. Owned'
  <2>1. Policed' \subseteq owned'
    BY <1>2, DrawsRoots DEF Books, Owned
  <2>2. ASSUME ~raced' PROVE owned' \subseteq Policed' /\ \A h \in Routines : Loading(h)' => work'[h].root = tracked'
    <3>1. ~raced /\ ((roots' = roots /\ i = tracked) \/ tracked = 0)
      <4>1. CASE roots' = roots /\ i = tracked /\ raced' = raced
        BY <2>2, <4>1
      <4>2. CASE raced' = (raced \/ tracked # 0)
        BY <2>2, <4>2
      <4>3. QED BY <4>1, <4>2 DEF Draws
    <3>2. owned \subseteq Policed /\ \A h \in Routines : Loading(h) => work[h].root = tracked
      BY <3>1 DEF Books, Owned
    <3>3. CASE roots' = roots /\ i = tracked
      <4>1. Policed' = Policed
        BY <1>2, <3>3 DEF Policed
      <4>2. QED BY <1>1, <1>2, <3>2, <3>3, <4>1 DEF Loading
    <3>4. CASE tracked = 0
      <4>1. owned = {} /\ \A h \in Routines : ~Loading(h)
        BY <1>3, <3>2, <3>4 DEF Policed, RootsOK
      <4>2. QED BY <1>1, <1>2, <4>1 DEF Loading
    <3>5. QED BY <3>1, <3>3, <3>4
  <2>3. QED BY <2>1, <2>2 DEF Owned
<1>8. LastDrawn'
  <2>1. roots'[i].last.gen = 0 \/ (roots'[i].last = roots[i].last /\ i = tracked)
    BY DrawsRoots
  <2>2. CASE roots'[i].last.gen = 0
    <3>1. \A h \in Routines : Loading(h)' => work'[h].gen # 0
      BY <1>1, <1>2, <1>3 DEF Loading
    <3>2. QED BY <1>2, <2>2, <3>1 DEF LastDrawn
  <2>3. CASE roots'[i].last = roots[i].last /\ i = tracked
    <3>1. /\ roots[i].last.gen <= gen /\ \A h \in Routines : Loading(h) => work[h].gen # roots[i].last.gen
      BY <2>3 DEF Books, LastDrawn
    <3>2. roots[i].last.gen \in Nat
      <4>1. roots[i] \in Root
        BY <2>3, TrackedRoot
      <4>2. QED BY <4>1 DEF Root
    <3>3. \A h \in Routines : Loading(h)' => work'[h].gen # roots[i].last.gen
      BY <1>1, <1>2, <3>1, <3>2 DEF Loading
    <3>4. roots[i].last.gen <= gen'
      BY <1>2, <3>1, <3>2
    <3>5. QED BY <1>2, <2>3, <3>3, <3>4 DEF LastDrawn
  <2>4. QED BY <2>1, <2>2, <2>3
<1>9. QED BY <1>4, <1>5, <1>6, <1>7, <1>8 DEF Books

LEMMA CoreDraws ==
  ASSUME RootsOK, RuleOK, WorkOK, Core, NEW g \in Routines, NEW i \in Nat, NEW steps \in Seq(Steps),
         Draws(g, i, steps), i # 0, \A n \in Loaded : Unreconciled(n) => Unreconciled(n)' \/ n \in owned
  PROVE  Core'
<1>0. Books /\ LoadsStand /\ NoneAstray /\ WholeCurrent /\ Books'
  BY DrawsBooks DEF Core
<1>1. /\ work'[g] = Load(i, steps) /\ Load(i, steps).pc = "load" /\ Load(i, steps).gen = gen + 1
      /\ Load(i, steps).rule = RuleFor(pol) /\ Load(i, steps).docs = DocsOf(RuleFor(pol))
      /\ Load(i, steps).added = {} /\ Load(i, steps).failed = {}
  BY LoadIsWork DEF Draws
<1>2. /\ gen \in Nat /\ gen' = gen + 1 /\ tracked' = i /\ work[g].pc \notin Busy
      /\ UNCHANGED <<pol, window, over, owned, kernel, undeleted, snatched>>
      /\ \A h \in Routines : h # g => work'[h] = work[h]
  BY DEF RootsOK, Draws
<1>3. Loaded' = Loaded /\ RuleFor(pol)' = RuleFor(pol)
  BY <1>2 DEF Loaded, RuleFor
<1>4. LoadsStand'
  <2> SUFFICES ASSUME NEW h \in Routines, Loading(h)' PROVE LoadStands(work[h])'
    BY DEF LoadsStand
  <2>1. CASE h = g
    <3>1. Fresh(work[g])' = {}
      BY <1>1 DEF Fresh
    <3>2. QED BY <1>1, <2>1, <3>1 DEF LoadStands, DocsOf
  <2>2. CASE h # g
    <3>1. work'[h] = work[h] /\ Loading(h) /\ LoadStands(work[h])
      BY <1>0, <1>2, <2>2 DEF Loading, LoadsStand
    <3>2. Fresh(work[h])' = Fresh(work[h])
      BY <3>1 DEF Fresh
    <3>3. QED BY <1>2, <1>3, <3>1, <3>2 DEF LoadStands, DocsOf
  <2>3. QED BY <2>1, <2>2
<1>5. NoneAstray'
  <2> SUFFICES ASSUME NEW n \in Loaded' PROVE Accounted(n)'
    BY DEF NoneAstray
  <2>1. n \in Loaded /\ Accounted(n)
    BY <1>0, <1>3 DEF NoneAstray
  <2>2. InFlight(n) => InFlight(n)'
    BY <1>2 DEF InFlight, Busy
  <2>3. ToDelete(n) => ToDelete(n)'
    BY <1>2 DEF ToDelete, Deleting, Busy
  <2>4. Unreconciled(n) => Unreconciled(n)' \/ n \in owned
    BY <2>1
  <2>5. QED BY <1>2, <2>1, <2>2, <2>3, <2>4 DEF Accounted
<1>6. LoadsCurrent'
  <2> SUFFICES ASSUME NEW h \in Routines, Loading(h)', work'[h].gen = gen' PROVE work'[h].rule = RuleFor(pol)'
    BY DEF LoadsCurrent
  <2>1. CASE h = g
    BY <1>1, <1>3, <2>1
  <2>2. CASE h # g
    <3>1. work[h].gen = gen + 1 /\ Loading(h)
      BY <1>2, <2>2 DEF Loading
    <3>2. QED BY <1>0, <1>2, <3>1 DEF Books, GensDrawn
  <2>3. QED BY <2>1, <2>2
<1>7. roots'[i].last.gen <= gen /\ roots'[i].last.gen # gen'
  <2>1. CASE roots'[i].last = [gen |-> 0, whole |-> FALSE]
    BY <1>2, <2>1
  <2>2. CASE roots'[i].last = roots[i].last /\ i = tracked
    <3>1. roots[i].last.gen \in Nat
      <4>1. roots[i] \in Root
        BY <2>2, TrackedRoot
      <4>2. QED BY <4>1 DEF Root
    <3>2. QED BY <1>0, <1>2, <2>2, <3>1 DEF Books, LastDrawn
  <2>3. QED BY <2>1, <2>2, DrawsRoots
<1>8. WholeCurrent'
  <2> SUFFICES ASSUME roots'[i].last.whole PROVE \E rule \in Rules : RuledBy(rule)'
    BY <1>2 DEF WholeCurrent
  <2>1. roots'[i].last = roots[i].last /\ roots' = roots /\ i = tracked
    <3>1. [gen |-> 0, whole |-> FALSE].whole = FALSE
      OBVIOUS
    <3>2. QED BY <3>1, DrawsRoots
  <2>2. PICK rule \in Rules : RuledBy(rule)
    BY <1>0, <2>1 DEF WholeCurrent
  <2>3. Policed' = Policed
    BY <1>2, <2>1 DEF Policed
  <2>4. RuledBy(rule)'
    BY <1>2, <1>7, <2>1, <2>2, <2>3 DEF RuledBy, DocsOf
  <2>5. QED BY <2>4
<1>9. WholeLoaded'
  <2>1. ~Latest'
    BY <1>2, <1>7 DEF Latest
  <2>2. QED BY <2>1 DEF WholeLoaded
<1>10. QED BY <1>0, <1>4, <1>5, <1>6, <1>8, <1>9 DEF Core

LEMMA CoreTrack ==
  ASSUME TypeOK, Core, NEW g \in Routines, Track(g)
  PROVE  Core'
<1>0. RootsOK /\ RuleOK /\ WorkOK
  BY Typed
<1> DEFINE i == Len(roots) + 1
           steps == work[g].then
<1>1. work[g].pc = "track" /\ work[g] \in Work /\ work[g].root \in 0..MaxProcs /\ i \in Nat /\ i # 0
  BY <1>0 DEF Track, WorkOK, Sound, RootsOK
<1>2. steps \in Seq(Steps)
  BY <1>1 DEF Work
<1>3. roots' = Append(roots, NewRoot(work[g].root)) /\ tracked' = i /\ raced' = (raced \/ tracked # 0)
  BY DEF Track, NewRoot
<1>4. work'[g] = Load(i, steps) /\ gen' = gen + 1 /\ \A h \in Routines : h # g => work'[h] = work[h]
  <2>1. StartApply(g, i, steps) /\ NewRoot(work[g].root) \in Root
    BY <1>1, NewRootIsRoot DEF Track
  <2>2. Len(roots') = i
    BY <1>0, <1>3, <2>1 DEF RootsOK
  <2>3. i \in 1..Len(roots') /\ Len(roots') \in Nat /\ Len(roots) <= Len(roots')
    BY <1>0, <1>1, <2>2 DEF RootsOK
  <2> HIDE DEF i, steps
  <2>4. QED BY <1>0, <1>1, <1>2, <2>1, <2>3, Loads
<1>5. UNCHANGED <<pol, window, over, owned, kernel, undeleted, snatched, reconciled, connected>>
  BY DEF Track, link
<1>6. Draws(g, i, steps)
  <2>1. \E p \in 0..MaxProcs : roots' = Append(roots, NewRoot(p))
    BY <1>1, <1>3
  <2>2. work[g].pc \notin Busy
    BY <1>1 DEF Busy
  <2>3. QED BY <1>3, <1>4, <1>5, <2>1, <2>2 DEF Draws
<1>7. \A n : Unreconciled(n) => Unreconciled(n)'
  <2>1. work'[g].pc = "load"
    BY <1>0, <1>1, <1>2, <1>4, LoadIsWork
  <2>2. Aside
    BY <1>0, <1>1, <1>4, <2>1, StreamRoutine DEF Aside, Reconciling
  <2>3. QED BY <1>5, <2>2, AsideKeeps
<1> HIDE DEF i, steps
<1>8. QED BY <1>0, <1>1, <1>2, <1>6, <1>7, CoreDraws

LEMMA CoreReapplyNext ==
  ASSUME TypeOK, Core, NEW g \in Routines, ReapplyNext(g)
  PROVE  Core'
<1>0. RootsOK /\ RuleOK /\ WorkOK
  BY Typed
<1> DEFINE steps == Tail(work[g].then)
<1>1. /\ UNCHANGED <<connected, pol, window, over, fired, tracked, owned, kernel, undeleted, snatched, reconciled, raced>>
      /\ roots' = roots /\ SameRoots
  BY RootsStay DEF ReapplyNext, notes, link
<1>2. work[g].pc = "next" /\ steps \in Seq(Steps)
  BY <1>0, NextSteps DEF ReapplyNext
<1>3. /\ \A h \in Routines : h # g => work'[h] = work[h]
      /\ \/ tracked # 0 /\ gen' = gen + 1 /\ work'[g] = Load(tracked, steps)
         \/ tracked = 0 /\ gen' = gen /\ work'[g] = Going(steps)
  BY <1>0, <1>1, <1>2, Reapplies DEF ReapplyNext
<1>4. CASE tracked # 0 /\ gen' = gen + 1 /\ work'[g] = Load(tracked, steps)
  <2>1. Draws(g, tracked, steps)
    BY <1>1, <1>2, <1>3, <1>4 DEF Draws, Busy
  <2>2. tracked \in Nat
    BY <1>0 DEF RootsOK
  <2> HIDE DEF steps
  <2>3. work'[g].pc = "load"
    <3>1. Load(tracked, steps).pc = "load"
      BY <1>0, <1>2, <2>2, LoadIsWork
    <3>2. QED BY <1>4, <3>1
  <2>4. Aside
    BY <1>0, <1>2, <1>3, <2>3, StreamRoutine DEF Aside, Reconciling
  <2>5. \A n : Unreconciled(n) => Unreconciled(n)'
    BY <1>1, <2>4, AsideKeeps
  <2>6. QED BY <1>0, <1>2, <1>4, <2>1, <2>2, <2>5, CoreDraws
<1>5. CASE tracked = 0 /\ gen' = gen /\ work'[g] = Going(steps)
  <2>1. work'[g].pc \in {"idle", "next"}
    BY <1>2, <1>5, GoingIsWork
  <2>2. KeepsRule
    BY <1>5 DEF KeepsRule
  <2>3. Aside
    BY <1>0, <1>2, <1>3, <2>1, StreamRoutine DEF Aside, Reconciling
  <2>4. KeepsList
    BY <1>1, <2>3, AsideKeeps
  <2>5. Quiet
    BY <1>1, <1>2, <1>3, <1>5, <2>1, OneSameBusy DEF Quiet, Busy
  <2>6. QED BY <1>0, <2>2, <2>4, <2>5, QuietKeeps
<1>6. QED BY <1>3, <1>4, <1>5

LEMMA CoreChecked ==
  ASSUME TypeOK, Core, Checked
  PROVE  Core'
<1>0. RootsOK /\ RuleOK /\ WorkOK /\ Books
  BY Typed DEF Core
<1>1. /\ UNCHANGED <<connected, pol, window, over, fired, tracked, owned, kernel, undeleted, snatched, raced>>
      /\ roots' = roots /\ SameRoots
  BY RootsStay DEF Checked, link
<1>2. "stream" \in Routines /\ work["stream"].pc = "check" /\ work["stream"].names \subseteq owned
  BY <1>0, StreamRoutine DEF Checked
<1>3. \A n : Unreconciled(n) => n \in owned
  BY <1>2 DEF Unreconciled
<1>4. CASE Missing /\ Reapply("stream", <<>>)
  <2>1. tracked # 0 /\ tracked \in Nat
    BY <1>0, <1>4 DEF Missing, RootsOK
  <2>2. /\ gen' = gen + 1 /\ work'["stream"] = Load(tracked, <<>>)
        /\ \A h \in Routines : h # "stream" => work'[h] = work[h]
    BY <1>0, <1>1, <1>2, <1>4, <2>1, EmptySteps, Reapplies
  <2>3. Draws("stream", tracked, <<>>)
    BY <1>1, <1>2, <2>2 DEF Draws, Busy
  <2>4. QED BY <1>0, <1>2, <1>3, <2>1, <2>3, EmptySteps, CoreDraws
<1>5. CASE ~Missing /\ Step("stream", Idle) /\ gen' = gen
  <2>1. work'["stream"].pc = "idle" /\ \A h \in Routines : h # "stream" => work'[h] = work[h]
    BY <1>0, <1>1, <1>2, <1>5, IdleIsWork, Goes
  <2>2. KeepsRule
    BY <1>1, <1>2, <2>1, RuleStays
  <2>3. \A n \in Policed : n \in work["stream"].have
    BY <1>5 DEF Missing, Policed
  <2>4. KeepsList
    BY <1>1, <1>2, <1>3, <2>3 DEF KeepsList, Overlooked
  <2>5. Quiet
    BY <1>1, <1>2, <1>5, <2>1, OneSameBusy DEF Quiet, Busy
  <2>6. QED BY <1>0, <2>2, <2>4, <2>5, QuietKeeps
<1>6. QED BY <1>4, <1>5 DEF Checked

-----------------------------------------------------------------------------
(* Untracking, registering, and the daemon's end.                          *)

LEMMA CoreUntrack ==
  ASSUME TypeOK, Core, NEW g \in Routines, work[g].pc = "idle", tracked # 0, Untrack(g), UNCHANGED connected
  PROVE  Core'
<1>0. RootsOK /\ WorkOK /\ Books /\ LoadsStand /\ NoneAstray
  BY Typed DEF Core
<1>1. /\ UNCHANGED <<pol, window, over, fired, gen, kernel, undeleted, snatched, reconciled>> /\ roots' = roots
      /\ tracked' = 0 /\ raced' = (raced \/ Applying(tracked))
  BY DEF Untrack
<1>2. /\ tracked \in 1..Len(roots) /\ Policed = roots[tracked].policies /\ Policed \in SUBSET Names
      /\ Policed' = {} /\ owned' = owned \ Policed
  BY <1>0, <1>1, TrackedRoot DEF Untrack, Policed
<1>3. /\ work'[g].pc = "delete" /\ work'[g].names = Policed
      /\ \A h \in Routines : h # g => work'[h] = work[h]
  <2>1. Step(g, Deletion(Policed)) /\ Deletion(Policed) \in Work
        /\ Deletion(Policed).pc = "delete" /\ Deletion(Policed).names = Policed
    BY <1>2, DeletionIsWork DEF Untrack, Deletion
  <2>2. QED BY <1>0, <1>1, <2>1, Goes
<1>4. \A h \in Routines : Loading(h)' <=> Loading(h)
  BY <1>3 DEF Loading
<1>5. \A h \in Routines : Loading(h) => work'[h] = work[h]
  BY <1>3 DEF Loading
<1>6. Books'
  <2>1. GensDrawn'
    BY <1>0, <1>1, <1>4, <1>5 DEF Books, GensDrawn
  <2>2. PastOnes'
    <3>1. \A n : Drawn(n) => Drawn(n)'
      BY <1>1, <1>4, <1>5 DEF Drawn
    <3>2. \A j \in 1..Len(roots') : \A n \in roots'[j].policies : Drawn(n)'
      BY <1>0, <1>1, <3>1 DEF Books, PastOnes
    <3>3. ASSUME NEW h \in Routines, Deleting(h)', NEW n \in work'[h].names PROVE Drawn(n)'
      <4>1. CASE h = g
        BY <1>0, <1>3, <3>1, <3>3, <4>1, PolicedDrawn
      <4>2. CASE h # g
        BY <1>0, <1>3, <3>1, <3>3, <4>2 DEF Books, PastOnes, Deleting
      <4>3. QED BY <4>1, <4>2
    <3>4. QED BY <3>2, <3>3 DEF PastOnes
  <2>3. Apart'
    BY <1>2 DEF Apart
  <2>4. Owned'
    <3>1. Policed' \subseteq owned'
      BY <1>2
    <3>2. ASSUME ~raced' PROVE owned' \subseteq Policed' /\ \A h \in Routines : Loading(h)' => work'[h].root = tracked'
      <4>1. ~raced /\ ~Applying(tracked)
        BY <1>1, <3>2
      <4>2. owned \subseteq Policed /\ \A h \in Routines : Loading(h) => work[h].root = tracked
        BY <1>0, <4>1 DEF Books, Owned
      <4>3. \A h \in Routines : ~Loading(h)
        BY <4>1, <4>2 DEF Applying, Loading
      <4>4. QED BY <1>2, <1>4, <4>2, <4>3
    <3>3. QED BY <3>1, <3>2 DEF Owned
  <2>5. LastDrawn'
    BY <1>1 DEF LastDrawn
  <2>6. QED BY <2>1, <2>2, <2>3, <2>4, <2>5 DEF Books
<1>7. LoadsStand'
  <2>1. \A h \in Routines : Loading(h)' => Loading(h) /\ work'[h] = work[h]
    BY <1>4, <1>5
  <2>2. Loaded' = Loaded
    BY <1>1 DEF Loaded
  <2>3. QED BY <1>0, <1>1, <2>1, <2>2, LoadsGo
<1>8. NoneAstray'
  <2> SUFFICES ASSUME NEW n \in Loaded' PROVE Accounted(n)'
    BY DEF NoneAstray
  <2>1. Accounted(n)
    BY <1>0, <1>1 DEF NoneAstray, Loaded
  <2>2. InFlight(n) => InFlight(n)'
    BY <1>3 DEF InFlight
  <2>3. ToDelete(n) \/ n \in Policed => ToDelete(n)'
    BY <1>3 DEF ToDelete, Deleting
  <2>4. Unreconciled(n) => Unreconciled(n)'
    <3>1. Aside
      BY <1>0, <1>3, StreamRoutine DEF Aside, Reconciling
    <3>2. QED BY <1>1, <3>1, AsideKeeps
  <2>5. QED BY <1>1, <1>2, <2>1, <2>2, <2>3, <2>4 DEF Accounted
<1>9. LoadsCurrent'
  <2>1. \A h \in Routines : Loading(h)' => work'[h].root # 0
    BY <1>0, <1>4, <1>5 DEF WorkOK, Sound, Loading
  <2>2. QED BY <1>1, <2>1 DEF LoadsCurrent
<1>10. WholeCurrent' /\ WholeLoaded'
  BY <1>1 DEF WholeCurrent, WholeLoaded, Latest
<1>11. QED BY <1>6, <1>7, <1>8, <1>9, <1>10 DEF Core

LEMMA CoreOnExit ==
  ASSUME TypeOK, Core, OnExit
  PROVE  Core'
<1>1. UNCHANGED connected /\ "loop" \in Routines /\ work["loop"].pc = "idle"
  BY DEF OnExit, Received, Free, Routines
<1>2. CASE tracked # 0 /\ Untrack("loop")
  BY <1>1, <1>2, CoreUntrack
<1>3. CASE UNCHANGED <<engine, work, kernel, notes, limits>>
  BY <1>1, <1>3, CoreStill
<1>4. QED BY <1>2, <1>3 DEF OnExit

LEMMA CoreSweep ==
  ASSUME TypeOK, Core, Sweep
  PROVE  Core'
<1>1. UNCHANGED connected /\ "sweep" \in Routines /\ work["sweep"].pc = "idle" /\ tracked # 0 /\ Untrack("sweep")
  BY DEF Sweep, Free, Routines, link
<1>2. QED BY <1>1, CoreUntrack

LEMMA CoreDown ==
  ASSUME Down
  PROVE  Core'
<1>1. /\ gen' = 0 /\ roots' = <<>> /\ tracked' = 0 /\ owned' = {} /\ ~reconciled' /\ ~connected'
      /\ work' = [g \in Routines |-> Idle]
  BY DEF Down
<1>2. \A g \in Routines : work'[g].pc = "idle"
  BY <1>1, IdleIsWork
<1>3. "stream" \in Routines
  BY DEF Routines
<1>4. \A g \in Routines : ~Loading(g)' /\ ~Deleting(g)'
  BY <1>2 DEF Loading, Deleting
<1>5. GensDrawn' /\ LoadsStand' /\ LoadsCurrent'
  BY <1>4 DEF GensDrawn, LoadsStand, LoadsCurrent
<1>6. Policed' = {} /\ Len(roots') = 0
  BY <1>1 DEF Policed
<1>7. PastOnes' /\ Apart' /\ Owned' /\ LastDrawn'
  BY <1>1, <1>4, <1>6 DEF PastOnes, Apart, Owned, LastDrawn
<1>8. NoneAstray'
  BY <1>1, <1>2, <1>3 DEF NoneAstray, Accounted, Unreconciled
<1>9. WholeCurrent' /\ WholeLoaded'
  BY <1>1 DEF WholeCurrent, WholeLoaded, Latest
<1>10. QED BY <1>5, <1>7, <1>8, <1>9 DEF Core, Books

\* What registering does: the root has what stays and what loaded, the rest is
\* to be deleted.
Dropped(w) == roots[w.root].policies \ Kept(w)
Registered(w) == Kept(w) \cup Fresh(w)

LEMMA Registers ==
  ASSUME TypeOK, NEW g \in Routines, Register(g)
  PROVE  LET w == work[g] IN
         /\ Loading(g) /\ w \in Work /\ w.root \in 1..Len(roots)
         /\ w.docs \subseteq w.added \cup w.failed
         /\ roots'[w.root].policies = Registered(w) /\ roots'[w.root].last.gen = w.gen
         /\ roots'[w.root].last.whole = (w.failed = {})
         /\ Len(roots') = Len(roots) /\ \A j \in 1..Len(roots) : j # w.root => roots'[j] = roots[j]
         /\ owned' = (owned \ Dropped(w)) \cup Registered(w)
         /\ work'[g].pc = "delete" /\ work'[g].names = Dropped(w)
         /\ \A h \in Routines : h # g => work'[h] = work[h]
<1>0. RootsOK /\ WorkOK
  BY Typed
<1> DEFINE w == work[g]
           root == [roots[w.root] EXCEPT !.policies = Registered(w), !.last = [gen |-> w.gen, whole |-> w.failed = {}]]
           next == [Idle EXCEPT !.pc = "delete", !.names = Dropped(w), !.then = w.then]
<1>1. Loading(g) /\ w \in Work /\ w.root \in 1..Len(roots) /\ roots[w.root] \in Root
  BY <1>0, RootNames DEF Register, Loading
<1>2. w.docs \subseteq w.added \cup w.failed
  BY DEF Register, Ready
<1>3. roots' = [roots EXCEPT ![w.root] = root]
  BY <1>0, <1>1 DEF Register, RootsOK, Registered
<1>4. root.policies = Registered(w) /\ root.last.gen = w.gen /\ root.last.whole = (w.failed = {})
  BY <1>1 DEF Root
<1>5. roots'[w.root] = root /\ Len(roots') = Len(roots) /\ \A j \in 1..Len(roots) : j # w.root => roots'[j] = roots[j]
  <2>1. [gen |-> w.gen, whole |-> w.failed = {}] \in [gen : Nat, whole : BOOLEAN]
    BY <1>1 DEF Work
  <2>2. Registered(w) \in SUBSET Names
    BY <1>0, <1>1, RootNames DEF Registered, Loading
  <2>3. root \in Root
    BY <1>1, <2>1, <2>2 DEF Root
  <2> HIDE DEF root
  <2>4. QED BY <1>0, <1>1, <1>3, <2>3 DEF RootsOK
<1>6. owned' = (owned \ Dropped(w)) \cup Registered(w)
  BY DEF Register, Dropped, Registered
<1>7. work'[g] = next /\ \A h \in Routines : h # g => work'[h] = work[h]
  BY <1>0 DEF Register, Step, WorkOK, Dropped
<1>8. next.pc = "delete" /\ next.names = Dropped(w)
  BY IdleIsWork DEF Work
<1>9. QED BY <1>1, <1>2, <1>4, <1>5, <1>6, <1>7, <1>8

LEMMA CoreRegister ==
  ASSUME TypeOK, Core, NEW g \in Routines, Register(g)
  PROVE  Core'
<1>0. RootsOK /\ WorkOK /\ Books /\ LoadsStand /\ NoneAstray /\ GensDrawn /\ PastOnes /\ Apart /\ Owned
  BY Typed DEF Core, Books
<1> DEFINE w == work[g]
           i == w.root
           drop == Dropped(w)
           fresh == Fresh(w)
           kept == Kept(w)
<1>1. /\ Loading(g) /\ w \in Work /\ i \in 1..Len(roots) /\ w.docs \subseteq w.added \cup w.failed
      /\ roots'[i].policies = kept \cup fresh /\ roots'[i].last.gen = w.gen
      /\ roots'[i].last.whole = (w.failed = {})
      /\ Len(roots') = Len(roots) /\ \A j \in 1..Len(roots) : j # i => roots'[j] = roots[j]
      /\ owned' = (owned \ drop) \cup kept \cup fresh
      /\ work'[g].pc = "delete" /\ work'[g].names = drop
      /\ \A h \in Routines : h # g => work'[h] = work[h]
  BY Registers DEF Registered
<1>2. UNCHANGED <<pol, window, over, fired, gen, tracked, kernel, undeleted, snatched, reconciled, raced, connected>>
  BY DEF Register, notes, link
<1>3. kept \cup drop = roots[i].policies /\ kept \cap drop = {} /\ \A n \in fresh : n.gen = w.gen
  BY DEF Kept, Dropped, Fresh
<1>4. LoadStands(w) /\ gen \in Nat /\ w.gen \in 1..gen
  BY <1>0, <1>1 DEF LoadsStand, GensDrawn, RootsOK
<1>5. \A n : Drawn(n) => n \notin fresh /\ Drawn(n)'
  <2>1. \A n \in fresh : ~Drawn(n)
    BY <1>1, <1>3 DEF Drawn
  <2>2. \A n : Drawn(n) => Drawn(n)'
    BY <1>1, <1>2 DEF Drawn, Loading
  <2>3. QED BY <2>1, <2>2
<1>6. \A h \in Routines : Loading(h)' => h # g /\ Loading(h) /\ work'[h] = work[h]
  BY <1>1 DEF Loading
<1>7. \A h \in Routines : Deleting(h)' => (h = g /\ work'[h].names = drop) \/ (h # g /\ Deleting(h) /\ work'[h].names = work[h].names)
  BY <1>1 DEF Deleting
<1> HIDE DEF w, i, drop, fresh, kept
<1>8. tracked # 0 => tracked \in 1..Len(roots) /\ Policed = roots[tracked].policies
  BY <1>0, TrackedRoot
<1>9. \A n \in Policed : Drawn(n)
  BY <1>0, PolicedDrawn
<1>10. i = tracked => Policed' = kept \cup fresh /\ Policed = kept \cup drop
  BY <1>1, <1>2, <1>3, <1>8 DEF Policed
<1>11. i # tracked => Policed' = Policed
  BY <1>1, <1>2, <1>8 DEF Policed
<1>12. i # tracked => (kept \cup drop) \cap Policed = {}
  BY <1>0, <1>1, <1>3 DEF Apart
<1>13. Books'
  <2>1. GensDrawn'
    BY <1>0, <1>2, <1>6 DEF GensDrawn
  <2>2. PastOnes'
    <3>1. \A n \in roots[i].policies : Drawn(n)
      BY <1>0, <1>1 DEF PastOnes
    <3>2. ASSUME NEW n \in fresh PROVE Drawn(n)'
      <4>1. n.gen = w.gen /\ w.gen <= gen
        BY <1>3, <1>4
      <4>2. \A h \in Routines : Loading(h)' => work'[h].gen # w.gen
        BY <1>0, <1>1, <1>6 DEF GensDrawn, w
      <4>3. QED BY <1>2, <4>1, <4>2 DEF Drawn
    <3>3. ASSUME NEW j \in 1..Len(roots'), NEW n \in roots'[j].policies PROVE Drawn(n)'
      <4>1. CASE j = i
        BY <1>1, <1>3, <1>5, <3>1, <3>2, <3>3, <4>1
      <4>2. CASE j # i
        BY <1>0, <1>1, <1>5, <3>3, <4>2 DEF PastOnes
      <4>3. QED BY <4>1, <4>2
    <3>4. ASSUME NEW h \in Routines, Deleting(h)', NEW n \in work'[h].names PROVE Drawn(n)'
      <4>1. CASE work'[h].names = drop
        BY <1>3, <1>5, <3>1, <3>4, <4>1
      <4>2. CASE Deleting(h) /\ work'[h].names = work[h].names
        BY <1>0, <1>5, <3>4, <4>2 DEF PastOnes
      <4>3. QED BY <1>7, <3>4, <4>1, <4>2
    <3>5. QED BY <3>3, <3>4 DEF PastOnes
  <2>3. Apart'
    <3>1. CASE i = tracked
      <4>1. \A j \in 1..Len(roots') : j # tracked' => roots'[j].policies \cap Policed' = {}
        <5> SUFFICES ASSUME NEW j \in 1..Len(roots'), j # tracked PROVE roots'[j].policies \cap Policed' = {}
          BY <1>2
        <5>1. roots'[j] = roots[j] /\ j \in 1..Len(roots)
          BY <1>1, <3>1
        <5>2. roots[j].policies \cap Policed = {} /\ roots[j].policies \cap fresh = {}
          BY <1>0, <1>5, <5>1 DEF Apart, PastOnes
        <5>3. QED BY <1>10, <3>1, <5>1, <5>2
      <4>2. \A h \in Routines : Deleting(h)' => work'[h].names \cap Policed' = {}
        <5> SUFFICES ASSUME NEW h \in Routines, Deleting(h)' PROVE work'[h].names \cap Policed' = {}
          OBVIOUS
        <5>1. CASE work'[h].names = drop
          <6>1. drop \cap fresh = {}
            BY <1>3, <1>5, <1>9, <1>10, <3>1
          <6>2. QED BY <1>3, <1>10, <3>1, <5>1, <6>1
        <5>2. CASE Deleting(h) /\ work'[h].names = work[h].names
          <6>1. work[h].names \cap Policed = {} /\ work[h].names \cap fresh = {}
            BY <1>0, <1>5, <5>2 DEF Apart, PastOnes
          <6>2. QED BY <1>10, <3>1, <5>2, <6>1
        <5>3. QED BY <1>7, <5>1, <5>2
      <4>3. QED BY <4>1, <4>2 DEF Apart
    <3>2. CASE i # tracked
      <4>1. fresh \cap Policed = {}
        BY <1>5, <1>9
      <4>2. \A j \in 1..Len(roots') : j # tracked' => roots'[j].policies \cap Policed' = {}
        BY <1>0, <1>1, <1>2, <1>11, <1>12, <3>2, <4>1 DEF Apart
      <4>3. \A h \in Routines : Deleting(h)' => work'[h].names \cap Policed' = {}
        BY <1>0, <1>7, <1>11, <1>12, <3>2 DEF Apart
      <4>4. QED BY <4>2, <4>3 DEF Apart
    <3>3. QED BY <3>1, <3>2
  <2>4. Owned'
    <3>1. Policed' \subseteq owned'
      <4>1. CASE i = tracked
        BY <1>1, <1>10, <4>1
      <4>2. CASE i # tracked
        BY <1>0, <1>1, <1>11, <1>12, <4>2 DEF Owned
      <4>3. QED BY <4>1, <4>2
    <3>2. ASSUME ~raced' PROVE owned' \subseteq Policed' /\ \A h \in Routines : Loading(h)' => work'[h].root = tracked'
      <4>1. owned \subseteq Policed /\ \A h \in Routines : Loading(h) => work[h].root = tracked
        BY <1>0, <1>2, <3>2 DEF Owned
      <4>2. i = tracked
        BY <1>1, <4>1 DEF i, w
      <4>3. QED BY <1>1, <1>2, <1>6, <1>10, <4>1, <4>2
    <3>3. QED BY <3>1, <3>2 DEF Owned
  <2>5. LastDrawn'
    <3> SUFFICES ASSUME tracked # 0
                 PROVE  roots'[tracked].last.gen <= gen /\ \A h \in Routines : Loading(h)' => work'[h].gen # roots'[tracked].last.gen
      BY <1>2 DEF LastDrawn
    <3>1. CASE i = tracked
      BY <1>0, <1>1, <1>4, <1>6, <3>1 DEF GensDrawn, w
    <3>2. CASE i # tracked
      BY <1>0, <1>1, <1>6, <1>8, <3>2 DEF Books, LastDrawn
    <3>3. QED BY <3>1, <3>2
  <2>6. QED BY <2>1, <2>2, <2>3, <2>4, <2>5 DEF Books
<1>14. LoadsStand'
  <2>1. \A h \in Routines : Loading(h)' => Loading(h) /\ work'[h] = work[h]
    BY <1>6
  <2>2. Loaded' = Loaded
    BY <1>2 DEF Loaded
  <2>3. QED BY <1>0, <1>2, <2>1, <2>2, LoadsGo
<1>15. NoneAstray'
  <2> SUFFICES ASSUME NEW n \in Loaded' PROVE Accounted(n)'
    BY DEF NoneAstray
  <2>1. Accounted(n)
    BY <1>0, <1>2 DEF NoneAstray, Loaded
  <2>2. ToDelete(n) => ToDelete(n)'
    BY <1>1 DEF ToDelete, Deleting, Loading
  <2>3. n \in drop => ToDelete(n)'
    BY <1>1 DEF ToDelete, Deleting
  <2>4. n \in owned => n \in owned' \/ ToDelete(n)'
    BY <1>1, <2>3
  <2>5. ASSUME InFlight(n) PROVE InFlight(n)' \/ n \in owned'
    <3>1. PICK h \in Routines : work[h].pc = "load" /\ work[h].gen = n.gen /\ n.doc \in work[h].added
      BY <2>5 DEF InFlight
    <3>2. CASE h # g
      BY <1>1, <3>1, <3>2 DEF InFlight
    <3>3. CASE h = g
      <4>1. n \in Names
        BY <1>2, Typed, LoadedNames DEF Loaded
      <4>2. n = [gen |-> n.gen, doc |-> n.doc]
        BY <4>1 DEF Names
      <4>3. n \in fresh
        BY <3>1, <3>3, <4>2 DEF fresh, Fresh, w
      <4>4. QED BY <1>1, <4>3
    <3>4. QED BY <3>2, <3>3
  <2>6. Unreconciled(n) => Unreconciled(n)'
    <3>1. Aside
      BY <1>0, <1>1, StreamRoutine DEF Aside, Reconciling, Loading
    <3>2. QED BY <1>2, <3>1, AsideKeeps
  <2>7. QED BY <1>0, <1>2, <2>1, <2>2, <2>4, <2>5, <2>6 DEF Accounted
<1>16. Pending => Pending'
  BY <1>1, <1>2 DEF Pending, Loading
<1>17. RuleFor(pol)' = RuleFor(pol)
  BY <1>2 DEF RuleFor
<1>18. LoadsCurrent'
  BY <1>2, <1>6, <1>16, <1>17 DEF Core, LoadsCurrent
<1>19. i = tracked /\ roots'[tracked].last.whole => w.failed = {} /\ kept = {} /\ Policed' = fresh /\ w.added = w.docs
  <2> SUFFICES ASSUME i = tracked, roots'[tracked].last.whole PROVE w.failed = {} /\ kept = {} /\ Policed' = fresh /\ w.added = w.docs
    OBVIOUS
  <2>1. w.failed = {}
    BY <1>1
  <2>2. kept = {}
    BY <2>1 DEF kept, Kept
  <2>3. w.added = w.docs
    BY <1>1, <1>4, <2>1 DEF LoadStands
  <2>4. QED BY <1>10, <2>1, <2>2, <2>3
<1>20. WholeCurrent'
  <2> SUFFICES ASSUME tracked # 0, roots'[tracked].last.whole PROVE \E rule \in Rules : RuledBy(rule)'
    BY <1>2 DEF WholeCurrent
  <2>1. CASE i = tracked
    <3>1. PICK rule \in Rules : rule = w.rule
      BY <1>1 DEF Work
    <3>2. Policed' = {[gen |-> w.gen, doc |-> d] : d \in DocsOf(rule)}
      BY <1>4, <1>19, <2>1, <3>1 DEF LoadStands, fresh, Fresh
    <3>3. \A k \in kernel' : k.name \in Policed' => k.rule = rule
      BY <1>2, <1>4, <1>19, <2>1, <3>1 DEF LoadStands, fresh
    <3>4. w.gen = gen => Pending' \/ rule = RuleFor(pol)
      <4>1. Loading(g) /\ work[g] = w /\ work[g].root = tracked
        BY <1>1, <2>1 DEF i, w
      <4>2. QED BY <1>16, <3>1, <4>1 DEF Core, LoadsCurrent
    <3>5. roots'[tracked].last.gen = w.gen
      BY <1>1, <2>1
    <3>6. RuledBy(rule)'
      BY <1>2, <1>17, <3>2, <3>3, <3>4, <3>5 DEF RuledBy, DocsOf
    <3>7. QED BY <3>6
  <2>2. CASE i # tracked
    <3>1. roots'[tracked] = roots[tracked] /\ Policed' = Policed
      BY <1>1, <1>8, <1>11, <2>2
    <3>2. PICK rule \in Rules : RuledBy(rule)
      BY <3>1 DEF Core, WholeCurrent
    <3>3. RuledBy(rule)'
      BY <1>2, <1>16, <1>17, <3>1, <3>2 DEF RuledBy, DocsOf
    <3>4. QED BY <3>3
  <2>3. QED BY <2>1, <2>2
<1>21. WholeLoaded'
  <2> SUFFICES ASSUME Latest', connected', NEW n \in Policed', Gone(n)' PROVE Overlooked(n)'
    BY DEF WholeLoaded
  <2>1. Gone(n) /\ tracked # 0
    BY <1>2 DEF Gone, Loaded, Latest
  <2>2. CASE i = tracked
    <3>1. roots'[tracked].last.whole
      BY <1>2 DEF Latest
    <3>2. n \in fresh
      BY <1>19, <2>2, <3>1
    <3>3. QED BY <1>4, <2>1, <3>2 DEF LoadStands, Gone, fresh
  <2>3. CASE i # tracked
    <3>1. roots'[tracked] = roots[tracked] /\ Policed' = Policed
      BY <1>1, <1>8, <1>11, <2>1, <2>3
    <3>2. Latest /\ connected
      BY <1>2, <3>1 DEF Latest
    <3>3. Overlooked(n)
      BY <2>1, <3>1, <3>2 DEF Core, WholeLoaded
    <3>4. Aside
      BY <1>0, <1>1, StreamRoutine DEF Aside, Reconciling, Loading
    <3>5. QED BY <1>2, <3>3, <3>4, AsideKeeps
  <2>4. QED BY <2>2, <2>3
<1>22. QED BY <1>13, <1>14, <1>15, <1>18, <1>20, <1>21 DEF Core

-----------------------------------------------------------------------------
(* While the daemon is down.                                               *)

LEMMA DownStep ==
  ASSUME TypeOK, DownIsIdle, [Next]_vars
  PROVE  DownIsIdle'
<1>0. LinkOK /\ RootsOK /\ WorkOK
  BY Typed
<1>1. CASE Crash \/ Stop
  <2>1. /\ ~connected' /\ events' = <<>> /\ ~fired' /\ roots' = <<>> /\ tracked' = 0 /\ owned' = {}
        /\ work' = [g \in Routines |-> Idle]
    BY <1>1, StopsShort DEF Down
  <2>2. QED BY <2>1 DEF DownIsIdle
<1>2. CASE Start
  BY <1>2 DEF Start, DownIsIdle
<1>3. CASE up /\ up' = up
  BY <1>3 DEF DownIsIdle
<1>4. CASE ~up /\ ~Crash /\ ~Stop /\ ~Start
  <2>1. /\ ~connected /\ events = <<>> /\ ~fired /\ roots = <<>> /\ tracked = 0 /\ owned = {}
        /\ \A g \in Routines : work[g] = Idle /\ work[g].pc = "idle"
    BY <1>4, IdleIsWork DEF DownIsIdle
  <2>2. "stream" \in Routines
    BY DEF Routines
  <2>3. CASE ProcessStarts \/ ProcessEnds
    BY <2>1, <2>3 DEF ProcessStarts, ProcessEnds, Deliver, DownIsIdle, engine
  <2>4. CASE WindowOver
    BY <1>4, <2>1, <2>4 DEF WindowOver, DownIsIdle, link
  <2>5. CASE UNCHANGED vars
    BY <2>1, <2>5 DEF vars, link, engine, DownIsIdle
  <2>6. ~OnExec /\ ~OnExit /\ ~Sweep
    BY <1>4, <2>1 DEF OnExec, OnExit, Sweep, Received
  <2>7. ~Apply /\ ~Follow
    BY <2>1 DEF Apply, Add, Register, Delete, Follow, Track, Bootstrap, ReapplyNext
  <2>8. Change => WindowOver
    BY <1>4, <2>1 DEF Change, SetPolicy, OnDomainsChanged, SetBreakGlass, ExpireBreakGlass
  <2>9. ~Connect /\ ~Reconcils /\ ~Break
    BY <1>4, <2>1, <2>2 DEF Connect, Reconcils, Reconcile, Check, Remove, Checked, Break
  <2>10. QED BY <1>4, <2>3, <2>4, <2>5, <2>6, <2>7, <2>8, <2>9 DEF Next
<1>5. up' = up \/ Crash \/ Stop \/ Start
  <2>1. CASE ProcessStarts \/ ProcessEnds \/ OnExec \/ OnExit \/ Sweep
    BY <2>1 DEF ProcessStarts, ProcessEnds, OnExec, OnExit, Sweep, link
  <2>2. CASE Apply \/ Follow
    BY <2>2 DEF Apply, Add, Register, Delete, Follow, Track, Bootstrap, ReapplyNext, link
  <2>3. CASE Change
    BY <2>3 DEF Change, SetPolicy, OnDomainsChanged, SetBreakGlass, WindowOver, ExpireBreakGlass, link
  <2>4. CASE Connect \/ Reconcils \/ Break
    BY <2>4 DEF Connect, Reconcils, Reconcile, Check, Remove, Checked, Break, link
  <2>5. CASE UNCHANGED vars
    BY <2>5 DEF vars, link
  <2>6. QED BY <2>1, <2>2, <2>3, <2>4, <2>5 DEF Next
<1>6. up \in BOOLEAN
  BY <1>0 DEF LinkOK
<1>7. QED BY <1>1, <1>2, <1>3, <1>4, <1>5, <1>6

LEMMA FiredStep ==
  ASSUME TypeOK, DownIsIdle, FiredInWindow, [Next]_vars
  PROVE  FiredInWindow'
<1>1. CASE Crash \/ Stop
  BY <1>1, StopsShort DEF Down, FiredInWindow
<1>2. CASE Start
  BY <1>2 DEF Start, DownIsIdle, FiredInWindow
<1>3. CASE Change
  <2>1. CASE WindowOver
    BY <2>1 DEF WindowOver, FiredInWindow
  <2>2. CASE ExpireBreakGlass
    BY <2>2 DEF ExpireBreakGlass, FiredInWindow
  <2>3. CASE SetBreakGlass
    BY <2>3 DEF SetBreakGlass, FiredInWindow
  <2>4. CASE (\E p \in Policies : SetPolicy(p)) \/ OnDomainsChanged
    BY <2>4 DEF SetPolicy, OnDomainsChanged, FiredInWindow, engine
  <2>5. QED BY <1>3, <2>1, <2>2, <2>3, <2>4 DEF Change
<1>4. CASE UNCHANGED <<fired, window>>
  BY <1>4 DEF FiredInWindow
<1>5. Next => Crash \/ Stop \/ Start \/ Change \/ UNCHANGED <<fired, window>>
  <2>1. CASE ProcessStarts \/ ProcessEnds \/ OnExec \/ OnExit \/ Sweep
    BY <2>1 DEF ProcessStarts, ProcessEnds, OnExec, OnExit, Sweep, Untrack, engine
  <2>2. CASE Apply \/ Follow
    BY <2>2 DEF Apply, Add, Register, Delete, Follow, Track, Bootstrap, ReapplyNext, engine
  <2>3. CASE Connect \/ Reconcils \/ Break
    BY <2>3 DEF Connect, Reconcils, Reconcile, Check, Remove, Checked, Break, engine
  <2>4. QED BY <2>1, <2>2, <2>3 DEF Next
<1>6. UNCHANGED vars => UNCHANGED <<fired, window>>
  BY DEF vars, engine
<1>7. QED BY <1>1, <1>2, <1>3, <1>4, <1>5, <1>6

-----------------------------------------------------------------------------
(* The invariant.                                                          *)

LEMMA CoreStep ==
  ASSUME TypeOK, Core, DownIsIdle, FiredInWindow, [Next]_vars
  PROVE  Core'
<1>0. TypeOK'
  BY TypeStep
<1>1. CASE ProcessStarts \/ ProcessEnds
  BY <1>1, CoreProcess
<1>2. CASE OnExec \/ OnExit \/ Sweep
  BY <1>2, CoreOnExec, CoreOnExit, CoreSweep
<1>3. CASE Apply
  BY <1>3, CoreAdd, CoreRegister, CoreDelete DEF Apply
<1>4. CASE Follow
  BY <1>4, CoreTrack, CoreBootstrap, CoreReapplyNext DEF Follow
<1>5. CASE Change
  BY <1>0, <1>5, CoreChange
<1>6. CASE Connect \/ Break
  BY <1>0, <1>6, CoreConnect, CoreBreak
<1>7. CASE Reconcils
  BY <1>7, CoreReconcile, CoreCheck, CoreRemove, CoreChecked DEF Reconcils
<1>8. CASE Crash \/ Stop
  BY <1>8, StopsShort, CoreDown
<1>9. CASE Start
  BY <1>9, CoreStart
<1>10. CASE UNCHANGED vars
  BY <1>10, CoreStill DEF vars, link
<1>11. QED BY <1>1, <1>2, <1>3, <1>4, <1>5, <1>6, <1>7, <1>8, <1>9, <1>10 DEF Next

LEMMA IInvInit == Init => IInv
<1> SUFFICES ASSUME Init PROVE IInv
  OBVIOUS
<1>1. /\ gen = 0 /\ roots = <<>> /\ tracked = 0 /\ owned = {} /\ kernel = {} /\ up /\ ~fired
      /\ \A g \in Routines : work[g].pc = "idle"
  BY IdleIsWork DEF Init
<1>2. \A g \in Routines : ~Loading(g) /\ ~Deleting(g)
  BY <1>1 DEF Loading, Deleting
<1>3. GensDrawn /\ LoadsStand /\ LoadsCurrent
  BY <1>2 DEF GensDrawn, LoadsStand, LoadsCurrent
<1>4. Policed = {} /\ Len(roots) = 0
  BY <1>1 DEF Policed
<1>5. PastOnes /\ Apart /\ Owned /\ LastDrawn
  BY <1>1, <1>2, <1>4 DEF PastOnes, Apart, Owned, LastDrawn
<1>6. NoneAstray /\ WholeCurrent /\ WholeLoaded
  BY <1>1 DEF NoneAstray, Loaded, WholeCurrent, WholeLoaded, Latest
<1>7. QED BY <1>1, <1>3, <1>5, <1>6 DEF IInv, Core, Books, DownIsIdle, FiredInWindow

LEMMA Invariant == Spec => [](TypeOK /\ IInv)
<1>1. Init => TypeOK /\ IInv
  BY TypeInit, IInvInit
<1>2. TypeOK /\ IInv /\ [Next]_vars => (TypeOK /\ IInv)'
  BY TypeStep, CoreStep, DownStep, FiredStep DEF IInv
<1>3. QED BY <1>1, <1>2, PTL DEF Spec

\* At rest, what is loaded is a tracked agent's or was left by a failed call.
LEMMA StraysExcluded == TypeOK /\ Core => NoStrays
<1> SUFFICES ASSUME TypeOK, Core, Settled, ~raced, NEW n \in Loaded PROVE n \in undeleted \cup Policed
  BY DEF NoStrays
<1>1. Accounted(n)
  BY DEF Core, NoneAstray
<1>2. ~InFlight(n) /\ ~ToDelete(n) /\ ~Unreconciled(n)
  BY DEF Settled, InFlight, ToDelete, Deleting, Unreconciled
<1>3. owned \subseteq Policed
  BY DEF Core, Books, Owned
<1>4. QED BY <1>1, <1>2, <1>3 DEF Accounted

\* No policy outlives its agent or an earlier run of the daemon.
THEOREM NothingLeftBehind == Spec => []NoStrays
<1>1. TypeOK /\ IInv => NoStrays
  BY StraysExcluded DEF IInv
<1>2. QED BY <1>1, Invariant, PTL

\* At rest, after an apply that loaded all its documents, the kernel has exactly
\* the current rule's.
LEMMA CurrentWhenSettled == TypeOK /\ Core => KernelCurrent
<1> SUFFICES ASSUME TypeOK, Core, Settled, tracked # 0, ~raced,
                    roots[tracked].last = [gen |-> gen, whole |-> TRUE], snatched \cap Policed = {}
             PROVE  {k \in kernel : k.name \notin undeleted \ Policed}
                      = {[name |-> [gen |-> gen, doc |-> d], rule |-> RuleFor(pol)] : d \in DocsOf(RuleFor(pol))}
  BY DEF KernelCurrent
<1>1. roots[tracked].last.whole /\ roots[tracked].last.gen = gen
  OBVIOUS
<1>2. ~Pending
  BY DEF Settled, Pending
<1>3. PICK rule \in Rules : RuledBy(rule)
  BY <1>1 DEF Core, WholeCurrent
<1>4. /\ rule = RuleFor(pol) /\ Policed = {[gen |-> gen, doc |-> d] : d \in DocsOf(RuleFor(pol))}
      /\ \A k \in kernel : k.name \in Policed => k.rule = RuleFor(pol)
  BY <1>1, <1>2, <1>3 DEF RuledBy
<1>5. \A n \in Policed : n \in Loaded
  BY DEF Core, WholeLoaded, Latest, Settled, Gone, Overlooked
<1>6. \A k \in kernel : k.name \notin undeleted \ Policed <=> k.name \in Policed
  BY StraysExcluded DEF NoStrays, Loaded
<1>7. \A k \in kernel : k = [name |-> k.name, rule |-> k.rule]
  BY Typed DEF NotesOK, Kernel
<1>8. {k \in kernel : k.name \in Policed} = {[name |-> n, rule |-> RuleFor(pol)] : n \in Policed}
  <2>1. ASSUME NEW k \in kernel, k.name \in Policed PROVE k = [name |-> k.name, rule |-> RuleFor(pol)]
    BY <1>4, <1>7, <2>1
  <2>2. ASSUME NEW n \in Policed PROVE \E k \in kernel : k.name \in Policed /\ k = [name |-> n, rule |-> RuleFor(pol)]
    <3>1. PICK k \in kernel : k.name = n
      BY <1>5, <2>2 DEF Loaded
    <3>2. QED BY <2>1, <2>2, <3>1
  <2>3. QED BY <2>1, <2>2
<1>9. {[name |-> n, rule |-> RuleFor(pol)] : n \in Policed}
        = {[name |-> [gen |-> gen, doc |-> d], rule |-> RuleFor(pol)] : d \in DocsOf(RuleFor(pol))}
  BY <1>4
<1>10. {k \in kernel : k.name \notin undeleted \ Policed} = {k \in kernel : k.name \in Policed}
  BY <1>6
<1>11. QED BY <1>8, <1>9, <1>10

\* Whatever changed while applies were under way, the kernel enforces the
\* current rule once every goroutine is idle.
THEOREM KernelInForce == Spec => []KernelCurrent
<1>1. TypeOK /\ IInv => KernelCurrent
  BY CurrentWhenSettled DEF IInv
<1>2. QED BY <1>1, Invariant, PTL

-----------------------------------------------------------------------------
(* Make before break.                                                      *)

\* What a step may do to a document in force: nothing, or one of the exceptions.
StaysOr(d) == \/ d \in Protected' \/ (connected /\ ~connected') \/ Unrendered(d)
              \/ \E n \in (snatched \cap Policed)' : n.doc = d

LEMMA StaysLoaded ==
  ASSUME Policed' = Policed, NEW n \in Policed, n \in Loaded' \/ n \in snatched'
  PROVE  StaysOr(n.doc)
<1>1. CASE n \in Loaded'
  BY <1>1 DEF StaysOr, Protected
<1>2. CASE n \in snatched'
  BY <1>2 DEF StaysOr
<1>3. QED BY <1>1, <1>2

LEMMA SameRootsPoliced == RootsOK /\ SameRoots /\ tracked' = tracked => Policed' = Policed
  BY DEF RootsOK, SameRoots, Policed

LEMMA RegisterKeeps ==
  ASSUME TypeOK, Core, NEW g \in Routines, Register(g), NEW n \in Policed \cap Loaded, tracked # 0
  PROVE  StaysOr(n.doc)
<1>0. RootsOK /\ WorkOK /\ NotesOK
  BY Typed
<1> DEFINE w == work[g]
<1>1. UNCHANGED <<kernel, snatched, tracked>>
  BY DEF Register, notes
<1>2. /\ Loading(g) /\ w.docs \subseteq w.added \cup w.failed /\ w.root \in 1..Len(roots)
      /\ roots'[w.root].policies = Registered(w)
      /\ \A j \in 1..Len(roots) : j # w.root => roots'[j] = roots[j]
      /\ work'[g].pc = "delete"
  BY Registers
<1>3. tracked \in 1..Len(roots) /\ Policed = roots[tracked].policies
  BY <1>0, TrackedRoot
<1>4. Loaded' = Loaded
  BY <1>1 DEF Loaded
<1>5. CASE w.root # tracked
  <2>1. Policed' = Policed
    BY <1>1, <1>2, <1>3, <1>5 DEF Policed
  <2>2. QED BY <1>4, <2>1, StaysLoaded
<1>6. CASE w.root = tracked
  <2>1. Policed' = Kept(w) \cup Fresh(w)
    BY <1>1, <1>2, <1>3, <1>6 DEF Policed, Registered
  <2>2. CASE n.doc \notin w.docs
    BY <1>2, <2>2 DEF StaysOr, Unrendered, Loading
  <2>3. CASE n.doc \in w.failed
    <3>1. n \in Policed'
      BY <1>3, <1>6, <2>1, <2>3 DEF Kept
    <3>2. QED BY <1>4, <3>1 DEF StaysOr, Protected
  <2>4. CASE n.doc \in w.added
    <3> DEFINE m == [gen |-> w.gen, doc |-> n.doc]
    <3>1. m \in Policed' /\ m.doc = n.doc
      BY <2>1, <2>4 DEF Fresh
    <3>2. m \in Loaded' \cup snatched'
      <4>1. m \in Fresh(w)
        BY <2>4 DEF Fresh
      <4>2. LoadStands(w)
        BY <1>2 DEF Core, LoadsStand
      <4>3. QED BY <1>1, <1>4, <4>1, <4>2 DEF LoadStands
    <3> HIDE DEF m
    <3>3. CASE m \in Loaded'
      BY <3>1, <3>3 DEF StaysOr, Protected
    <3>4. CASE m \in snatched'
      BY <3>1, <3>4 DEF StaysOr
    <3>5. QED BY <3>2, <3>3, <3>4
  <2>5. QED BY <1>2, <2>2, <2>3, <2>4
<1>7. QED BY <1>5, <1>6

LEMMA NothingLess ==
  ASSUME TypeOK, Core, [Next]_vars, tracked # 0, tracked' = tracked, NEW n \in Policed \cap Loaded
  PROVE  StaysOr(n.doc)
<1>0. RootsOK /\ WorkOK /\ LinkOK /\ Books /\ PastOnes
  BY Typed DEF Core, Books
<1>1. ASSUME SameRoots, kernel \subseteq kernel' PROVE StaysOr(n.doc)
  <2>1. Policed' = Policed
    BY <1>0, <1>1, SameRootsPoliced
  <2>2. n \in Loaded'
    BY <1>1 DEF Loaded
  <2>3. QED BY <2>1, <2>2, StaysLoaded
<1>2. CASE ProcessStarts \/ ProcessEnds \/ Connect \/ Start \/ UNCHANGED vars
  <2>1. roots' = roots /\ kernel' = kernel
    BY <1>2 DEF ProcessStarts, ProcessEnds, Connect, Start, vars, engine
  <2>2. QED BY <1>1, <2>1, RootsStay
<1>3. CASE OnExec
  <2>1. kernel' = kernel
    BY <1>3 DEF OnExec
  <2>2. SameRoots
    <3>1. tracked \in 1..Len(roots) /\ roots[tracked] \in Root
      BY <1>0, TrackedRoot
    <3>2. CASE roots' = roots
      BY <3>2, RootsStay
    <3>3. CASE roots' = [roots EXCEPT ![tracked].exec = Head(events).proc]
      BY <1>0, <3>1, <3>3 DEF SameRoots, RootsOK, Root
    <3>4. QED BY <1>3, <3>2, <3>3 DEF OnExec
  <2>3. QED BY <1>1, <2>1, <2>2
<1>4. CASE OnExit \/ Sweep
  <2>1. roots' = roots /\ kernel' = kernel
    BY <1>4 DEF OnExit, Sweep, Untrack, engine
  <2>2. QED BY <1>1, <2>1, RootsStay
<1>5. CASE Change
  <2>1. roots' = roots /\ kernel' = kernel
    BY <1>5 DEF Change, SetPolicy, OnDomainsChanged, SetBreakGlass, WindowOver, ExpireBreakGlass, engine
  <2>2. QED BY <1>1, <2>1, RootsStay
<1>6. CASE Follow
  <2>1. PICK g \in Routines : Track(g) \/ Bootstrap(g) \/ ReapplyNext(g)
    BY <1>6 DEF Follow
  <2>2. ~Track(g)
    <3>1. Len(roots) + 1 # tracked
      BY <1>0 DEF RootsOK
    <3>2. QED BY <3>1 DEF Track
  <2>3. roots' = roots /\ kernel' = kernel
    BY <2>1, <2>2 DEF Bootstrap, ReapplyNext, engine
  <2>4. QED BY <1>1, <2>3, RootsStay
<1>7. CASE Apply
  <2>1. PICK g \in Routines : (\E d \in Docs : Add(g, d)) \/ Register(g) \/ Delete(g)
    BY <1>7 DEF Apply
  <2>2. CASE \E d \in Docs : Add(g, d)
    <3>1. roots' = roots /\ kernel \subseteq kernel'
      BY <2>2 DEF Add, engine
    <3>2. QED BY <1>1, <3>1, RootsStay
  <2>3. CASE Register(g)
    BY <2>3, RegisterKeeps
  <2>4. CASE Delete(g)
    <3>1. roots' = roots /\ Deleting(g)
      BY <2>4 DEF Delete, engine, Deleting
    <3>2. Policed' = Policed
      BY <1>0, <3>1, RootsStay, SameRootsPoliced
    <3>3. n \notin work[g].names
      BY <1>0, <3>1 DEF Books, Apart
    <3>4. n \in Loaded'
      BY <2>4, <3>3 DEF Delete, Loaded
    <3>5. QED BY <3>2, <3>4, StaysLoaded
  <2>5. QED BY <2>1, <2>2, <2>3, <2>4
<1>8. CASE Reconcils
  <2>1. CASE Reconcile \/ (\E m \in work["stream"].names : Check(m)) \/ Checked
    <3>1. roots' = roots /\ kernel' = kernel
      BY <2>1 DEF Reconcile, Check, Checked, engine
    <3>2. QED BY <1>1, <3>1, RootsStay
  <2>2. CASE Remove
    <3>1. roots' = roots
      BY <2>2 DEF Remove, engine
    <3>2. Policed' = Policed
      BY <1>0, <3>1, RootsStay, SameRootsPoliced
    <3>3. n \in owned
      BY <1>0, PolicedDrawn
    <3>4. n \in Loaded' \/ n \in snatched'
      <4>1. PICK m \in work["stream"].stale :
              \/ /\ kernel' = {k \in kernel : k.name # m}
                 /\ snatched' = IF m \in owned \/ InFlight(m) THEN snatched \cup {m} ELSE snatched
              \/ UNCHANGED <<kernel, snatched>>
        BY <2>2 DEF Remove
      <4>2. CASE m = n
        BY <3>3, <4>1, <4>2 DEF Loaded
      <4>3. CASE m # n
        BY <4>1, <4>3 DEF Loaded
      <4>4. QED BY <4>2, <4>3
    <3>5. QED BY <3>2, <3>4, StaysLoaded
  <2>3. QED BY <1>8, <2>1, <2>2 DEF Reconcils
<1>9. CASE Break
  BY <1>9 DEF Break, StaysOr
<1>10. CASE Crash \/ Stop
  BY <1>10, StopsShort DEF Down
<1>11. QED BY <1>2, <1>3, <1>4, <1>5, <1>6, <1>7, <1>8, <1>9, <1>10 DEF Next

\* A document in force for a tracked agent stays in force whatever is re-applied,
\* fails to load or is reconciled, until a rule that does not render it.
THEOREM MakeBeforeBreak == Spec => NeverLess
<1>1. TypeOK /\ IInv /\ [Next]_vars
        => (tracked # 0 /\ tracked' = tracked
             => \A d \in Protected : \/ d \in Protected' \/ (connected /\ ~connected') \/ Unrendered(d)
                                     \/ \E n \in (snatched \cap Policed)' : n.doc = d)
  <2> SUFFICES ASSUME TypeOK, IInv, [Next]_vars, tracked # 0, tracked' = tracked, NEW d \in Protected
               PROVE  StaysOr(d)
    BY DEF StaysOr
  <2>1. PICK n \in Policed \cap Loaded : n.doc = d
    BY DEF Protected
  <2>2. QED BY <2>1, NothingLess DEF IInv
<1>2. QED BY <1>1, Invariant, PTL DEF Spec, NeverLess
=============================================================================
