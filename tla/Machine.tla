-------------------------------- MODULE Machine --------------------------------
(***************************************************************************)
(* One machine and the control plane's record of it: enrollment, the       *)
(* signed policy's way to the machine and back as a reported version, and  *)
(* break-glass codes from their issue to the record of their use           *)
(* (cpclient, cmd/effigentd, engine/breakglass.go, sign; server and store).*)
(*                                                                         *)
(* An endpoint is a number in order of enrollment; a version is its place  *)
(* among the versions published.  Signatures verify: the control plane is  *)
(* the only signer.  What the kernel makes of a policy or of a window is   *)
(* in Enforcement, the batches events travel in are in EventPipeline.      *)
(***************************************************************************)
EXTENDS Integers, FiniteSets, Sequences

CONSTANTS
  MaxWindow,  \* longest window, in ticks
  Limits      \* bounds of the instances explored: [codes, threads,
              \* uses, versions, faults, now]

ASSUME MachineAssumption ==
  /\ MaxWindow \in Nat
  /\ \A l \in Limits : l.uses \in Nat /\ l.versions \in Nat /\ l.faults \in Nat /\ l.now \in Nat

VARIABLES
  limit,     \* the bounds of this instance: the codes that may be issued, the requests
             \* the local API serves at a time, and how
             \* many uses of the enrollment token, versions, faults (crashes, lost
             \* answers, failed writes) and ticks
  now, faults,
  versions,  \* control plane: kind of each version published
  eps,       \*   [revoked, reported] of each endpoint
  codes,     \*   [for, expiry, usedOn] of each code issued
  stored,    \*   codes whose report is stored (the batch is committed)
  trail,     \*   uses in the audit trail: [code, endpoint]
  ingest,    \*   the batch a handler is working on, or None
  beats,     \*   heartbeats sent and not processed yet: [endpoint, version]
  disk,      \* machine: [state, cache, bg]: what is in the state directory
  tmp,       \*   the temporary file of the break-glass record, or None
  phase,     \*   "down", "enrolling", "starting" or "up"
  enroll,    \*   the enrollment answer on its way: 0, Asked, or an endpoint
  me,        \*   the endpoint the daemon runs as, 0 when not enrolled
  current,   \*   the policy version in force, 0: the built-in policy
  sync,      \*   the sync loop: [pc, doc]
  window,    \*   the engine's break-glass window: [code, until], or None
  timer,     \*   its timer is set
  late,      \*   timers that fired and wait for the engine's lock
  act,       \*   activations in progress, one for each thread
  outbox,    \*   reports of uses not taken by the control plane yet
  honoured,  \* history: how often each code was honoured on the machine
  overlap,   \* history: two activations never met ("none"), met ("windows"), or
             \* met before the first had stored its record ("records")
  early      \* history: a late timer closed a window before its end

control  == <<versions, eps, codes, stored, trail, ingest, beats>>
glass    == <<tmp, window, timer, late, act, outbox, honoured, overlap, early>>
policy   == <<enroll, me, current, sync>>
vars     == <<limit, now, faults, versions, eps, codes, stored, trail, ingest, beats, disk, tmp, phase, enroll, me,
              current, sync, window, timer, late, act, outbox, honoured, overlap, early>>

None   == [none |-> TRUE]
All    == 0   \* a code for every machine
Asked  == -1
Kinds  == {"plain", "compiled", "unfit", "refused"}
Latest == Len(versions)
Idle   == [pc |-> "idle"]
Free(t) == act[t].pc = "idle"

NoRecord  == [used |-> <<>>, active |-> None]
Fault     == faults < limit.faults /\ faults' = faults + 1
Reachable(e) == e # 0 /\ ~eps[e].revoked

Init ==
  /\ limit \in Limits
  /\ now = 0 /\ faults = 0
  /\ versions = <<>> /\ eps = <<>> /\ codes = [c \in {} |-> None]
  /\ stored = {} /\ trail = {} /\ ingest = None /\ beats = {}
  /\ disk = [state |-> 0, cache |-> None, bg |-> NoRecord] /\ tmp = None
  /\ phase = "down" /\ enroll = 0 /\ me = 0 /\ current = 0 /\ sync = [pc |-> "idle", doc |-> None]
  /\ window = None /\ timer = FALSE /\ late = 0 /\ act = [t \in limit.threads |-> Idle]
  /\ outbox = {} /\ honoured = [c \in limit.codes |-> 0] /\ overlap = "none" /\ early = FALSE

-----------------------------------------------------------------------------
\* The control plane's console.

\* A version is one body for all ("plain"), compiled for each machine, compiled
\* but not for this one any more ("unfit"), or a body this daemon cannot parse.
Publish(kind) ==
  /\ Latest < limit.versions
  /\ versions' = Append(versions, kind)
  /\ UNCHANGED <<limit, now, faults, eps, codes, stored, trail, ingest, beats, disk, phase, policy, glass>>

Revoke(e) ==
  /\ ~eps[e].revoked
  /\ eps' = [eps EXCEPT ![e].revoked = TRUE]
  /\ UNCHANGED <<limit, now, faults, versions, codes, stored, trail, ingest, beats, disk, phase, policy, glass>>

\* createBreakGlass: for one machine or for all.
IssueCode(c, for, length) ==
  /\ c \notin DOMAIN codes
  /\ length \in 1 .. MaxWindow
  /\ codes' = [x \in DOMAIN codes \cup {c} |->
                 IF x = c THEN [for |-> for, expiry |-> now + length, usedOn |-> 0] ELSE codes[x]]
  /\ UNCHANGED <<limit, now, faults, versions, eps, stored, trail, ingest, beats, disk, phase, policy, glass>>

-----------------------------------------------------------------------------
\* Enrollment: a saved identity wins; without one a token is exchanged, again
\* and again until an answer arrives or the token is refused.

Ask ==
  /\ phase = "enrolling" /\ enroll = 0
  /\ enroll' = Asked
  /\ UNCHANGED <<limit, now, faults, control, disk, phase, me, current, sync, glass>>

\* Store.Enroll: one use of the token, one endpoint.
EnrollServed ==
  /\ enroll = Asked
  /\ IF Len(eps) < limit.uses
       THEN /\ eps' = Append(eps, [revoked |-> FALSE, reported |-> 0])
            /\ enroll' = Len(eps) + 1
            /\ UNCHANGED phase
       ELSE /\ enroll' = 0 /\ phase' = "down"  \* refused: the daemon exits
            /\ UNCHANGED eps
  /\ UNCHANGED <<limit, now, faults, versions, codes, stored, trail, ingest, beats, disk, me, current, sync, glass>>

\* The answer does not arrive; the endpoint exists.
EnrollLost ==
  /\ enroll # 0 /\ Fault
  /\ enroll' = 0
  /\ UNCHANGED <<limit, now, control, disk, phase, me, current, sync, glass>>

\* Written to a temporary file and renamed.
Enrolled ==
  /\ phase = "enrolling" /\ enroll > 0
  /\ disk' = [disk EXCEPT !.state = enroll]
  /\ enroll' = 0 /\ phase' = "down"
  /\ UNCHANGED <<limit, now, faults, control, me, current, sync, glass>>

\* `effigentd enroll' on a machine whose daemon is stopped: a new identity
\* beside the old one's cached policy and break-glass record.
Reenroll ==
  /\ phase = "down" /\ disk.state # 0 /\ Len(eps) < limit.uses
  /\ phase' = "enrolling"
  /\ UNCHANGED <<limit, now, faults, control, disk, policy, glass>>

-----------------------------------------------------------------------------
\* The daemon starts and stops.

\* SetBreakGlass: Stop has no effect on a timer that has fired.
SetBreakGlass(w) ==
  IF now < w.until THEN window' = w /\ timer' = TRUE ELSE window' = None /\ timer' = FALSE

\* bgActiveWindow: never longer than a code can last.
Restorable(w) == w # None /\ now < w.until /\ w.until - now <= MaxWindow

\* LoadCached: a policy compiled for another endpoint is refused, one that does
\* not parse cannot have been cached.
Acceptable(doc) == doc.for \in {All, disk.state}

\* Mutant: the recorded window is not restored.
Start_Forgets ==
  /\ phase = "down" /\ disk.state # 0
  /\ LET cached == IF disk.cache # None /\ Acceptable(disk.cache) THEN disk.cache.version ELSE 0
     IN current' = cached /\ phase' = IF cached = 0 THEN "starting" ELSE "up"
  /\ me' = disk.state
  /\ window' = None /\ timer' = FALSE
  /\ UNCHANGED <<limit, now, faults, control, disk, enroll, sync, tmp, late, act, outbox, honoured, overlap, early>>

Start ==
  /\ phase = "down" /\ disk.state # 0
  /\ LET cached == IF disk.cache # None /\ Acceptable(disk.cache) THEN disk.cache.version ELSE 0
     IN current' = cached /\ phase' = IF cached = 0 THEN "starting" ELSE "up"
  /\ me' = disk.state
  /\ IF Restorable(disk.bg.active) THEN SetBreakGlass(disk.bg.active)
                                   ELSE window' = None /\ timer' = FALSE
  /\ UNCHANGED <<limit, now, faults, control, disk, enroll, sync, tmp, late, act, outbox, honoured, overlap, early>>

\* With no identity saved and a token in the environment.
StartEnrolling ==
  /\ phase = "down" /\ disk.state = 0
  /\ phase' = "enrolling"
  /\ UNCHANGED <<limit, now, faults, control, disk, policy, glass>>

\* Reports still in memory may be gone.
Crash ==
  /\ phase # "down" /\ Fault
  /\ phase' = "down" /\ enroll' = 0 /\ me' = 0 /\ current' = 0
  /\ sync' = [pc |-> "idle", doc |-> None]
  /\ window' = None /\ timer' = FALSE /\ late' = 0 /\ act' = [t \in limit.threads |-> Idle]
  /\ outbox' \in SUBSET outbox
  /\ UNCHANGED <<limit, now, control, disk, tmp, honoured, overlap, early>>

-----------------------------------------------------------------------------
\* Policy sync: one loop, one request at a time.

Poll ==
  /\ phase = "starting" \/ (phase = "up" /\ limit.versions > 0)  \* bound: where something is published
  /\ sync.pc = "idle"
  /\ sync' = [pc |-> "asked", doc |-> None]
  /\ UNCHANGED <<limit, now, faults, control, disk, phase, enroll, me, current, glass>>

\* Mutant: the version after the machine's is taken for the machine's.
ServePolicy_OffByOne ==
  /\ sync.pc = "asked" /\ Reachable(me)
  /\ sync' = IF Latest <= current + 1 \/ versions[Latest] = "unfit" THEN [pc |-> "beat", doc |-> None]
             ELSE [pc |-> "got", doc |-> [version |-> Latest, for |-> IF versions[Latest] = "compiled" THEN me ELSE All]]
  /\ UNCHANGED <<limit, now, faults, control, disk, phase, enroll, me, current, glass>>

\* endpointPolicy: nothing newer (204), it does not compile (422), or a document.
ServePolicy ==
  /\ sync.pc = "asked" /\ Reachable(me)
  /\ sync' = IF Latest <= current \/ versions[Latest] = "unfit" THEN [pc |-> "beat", doc |-> None]
             ELSE [pc |-> "got", doc |-> [version |-> Latest, for |-> IF versions[Latest] = "compiled" THEN me ELSE All]]
  /\ UNCHANGED <<limit, now, faults, control, disk, phase, enroll, me, current, glass>>

\* No answer, or 401: the heartbeat goes out all the same, unless the first
\* sync has run out of time.
SyncFails ==
  /\ sync.pc \in {"asked", "got"}
  /\ IF Reachable(me) THEN Fault ELSE UNCHANGED faults
  /\ \/ sync' = [pc |-> "beat", doc |-> None] /\ UNCHANGED phase
     \/ /\ phase = "starting" /\ phase' = "up"
        /\ sync' = [pc |-> "idle", doc |-> None]
  /\ UNCHANGED <<limit, now, control, disk, enroll, me, current, glass>>

\* accept: verified, newer, applied.
Accept ==
  /\ sync.pc = "got"
  /\ IF sync.doc.version <= current \/ versions[sync.doc.version] = "refused"
       THEN sync' = [pc |-> "beat", doc |-> None] /\ UNCHANGED current
       ELSE sync' = [sync EXCEPT !.pc = "applied"] /\ current' = sync.doc.version
  /\ UNCHANGED <<limit, now, faults, control, disk, phase, enroll, me, glass>>

\* The document is cached; a write that fails is not reported.
Persist ==
  /\ sync.pc = "applied"
  /\ \/ disk' = [disk EXCEPT !.cache = sync.doc] /\ UNCHANGED faults
     \/ Fault /\ UNCHANGED disk
  /\ sync' = [pc |-> "beat", doc |-> None]
  /\ UNCHANGED <<limit, now, control, phase, enroll, me, current, glass>>

\* The client waits for the answer or gives up: either way the request may be
\* processed later than the next one.
Beat ==
  /\ sync.pc = "beat"
  /\ beats' = beats \cup {[endpoint |-> me, version |-> current]}
  /\ sync' = [pc |-> "idle", doc |-> None]
  /\ phase' = "up"
  /\ UNCHANGED <<limit, now, faults, versions, eps, codes, stored, trail, ingest, disk, enroll, me, current, glass>>

ServeBeat(b) ==
  /\ b \in beats
  /\ beats' = beats \ {b}
  /\ \/ eps' = [eps EXCEPT ![b.endpoint].reported = b.version]
     \/ eps[b.endpoint].revoked /\ UNCHANGED eps  \* refused
  /\ UNCHANGED <<limit, now, faults, versions, codes, stored, trail, ingest, disk, phase, policy, glass>>

-----------------------------------------------------------------------------
\* A break-glass code is typed on the machine.

Valid(c) == c \in DOMAIN codes /\ codes[c].for \in {All, me} /\ now <= codes[c].expiry

\* Mutant: an entry is pruned at the moment its code ends.
Prune_AtEnd(used) == [c \in {c \in DOMAIN used : now < used[c]} |-> used[c]]

Prune(used) == [c \in {c \in DOMAIN used : now <= used[c]} |-> used[c]]

\* The code is verified and the record read (bgMarkUsed).
Activate(t, c) ==
  /\ phase = "up" /\ Free(t) /\ Valid(c)
  /\ LET used == Prune(disk.bg.used)
         w    == [code |-> c, until |-> codes[c].expiry]
     IN /\ c \notin DOMAIN used
        /\ act' = [act EXCEPT ![t] = [pc |-> "read", window |-> w,
              record |-> [used   |-> [x \in DOMAIN used \cup {c} |-> IF x = c THEN w.until ELSE used[x]],
                          active |-> w]]]
  /\ overlap' = IF overlap = "records" \/ \E u \in limit.threads : act[u].pc \in {"read", "written"} THEN "records"
                ELSE IF \E u \in limit.threads : ~Free(u) THEN "windows" ELSE overlap
  /\ UNCHANGED <<limit, now, faults, control, disk, phase, policy, tmp, window, timer, late, outbox, honoured, early>>

\* Both threads write the same temporary file.
WriteRecord(t) ==
  /\ act[t].pc = "read"
  /\ \/ /\ tmp' = act[t].record
        /\ act' = [act EXCEPT ![t].pc = "written"]
        /\ UNCHANGED faults
     \/ /\ Fault /\ act' = [act EXCEPT ![t] = Idle]  \* refused: could not be recorded
        /\ UNCHANGED tmp
  /\ UNCHANGED <<limit, now, control, disk, phase, policy, window, timer, late, outbox, honoured, overlap, early>>

RenameRecord(t) ==
  /\ act[t].pc = "written"
  /\ IF tmp = None
       THEN act' = [act EXCEPT ![t] = Idle] /\ UNCHANGED <<disk, tmp>>
       ELSE /\ disk' = [disk EXCEPT !.bg = tmp] /\ tmp' = None
            /\ act' = [act EXCEPT ![t].pc = "marked"]
  /\ UNCHANGED <<limit, now, faults, control, phase, policy, window, timer, late, outbox, honoured, overlap, early>>

OpenWindow(t) ==
  /\ act[t].pc = "marked"
  /\ SetBreakGlass(act[t].window)
  /\ act' = [act EXCEPT ![t].pc = "open"]
  /\ honoured' = [honoured EXCEPT ![act[t].window.code] = @ + 1]
  /\ UNCHANGED <<limit, now, faults, control, disk, phase, policy, tmp, late, outbox, overlap, early>>

\* The use is reported and the user told.
ReportUse(t) ==
  /\ act[t].pc = "open"
  /\ outbox' = outbox \cup {act[t].window.code}
  /\ act' = [act EXCEPT ![t] = Idle]
  /\ UNCHANGED <<limit, now, faults, control, disk, phase, policy, tmp, window, timer, late, honoured, overlap, early>>

\* The window's timer fires, and expireBreakGlass gets the lock.
TimerFires ==
  /\ timer /\ now >= window.until
  /\ timer' = FALSE /\ late' = late + 1
  /\ UNCHANGED <<limit, now, faults, control, disk, phase, policy, tmp, window, act, outbox, honoured, overlap, early>>

Expire ==
  /\ late > 0
  /\ late' = late - 1
  /\ window' = None /\ timer' = FALSE
  /\ early' = (early \/ (window # None /\ now < window.until))
  /\ UNCHANGED <<limit, now, faults, control, disk, phase, policy, tmp, act, outbox, honoured, overlap>>

-----------------------------------------------------------------------------
\* Events reach the control plane: a batch with a report of a use, or with none.

\* Bound: events without a report only where a version is published.
Batches == {{c} : c \in outbox} \cup IF limit.versions > 0 THEN {{}} ELSE {}

\* endpointAuth reads the endpoint's row, the reported version with it.
Post(reports) ==
  /\ phase = "up" /\ ingest = None /\ Reachable(me)
  /\ ingest' = [pc |-> "read", endpoint |-> me, reports |-> reports, seen |-> eps[me].reported]
  /\ UNCHANGED <<limit, now, faults, versions, eps, codes, stored, trail, beats, disk, phase, policy, glass>>

\* Store.Ingest: a batch that is already stored has no further effect.
Commit ==
  /\ ingest # None /\ ingest.pc = "read"
  /\ IF ingest.reports # {} /\ ingest.reports \subseteq stored
       THEN /\ ingest' = None /\ outbox' = outbox \ ingest.reports
            /\ UNCHANGED stored
       ELSE /\ stored' = stored \cup ingest.reports
            /\ ingest' = [ingest EXCEPT !.pc = "stored"]
            /\ UNCHANGED outbox
  /\ UNCHANGED <<limit, now, faults, versions, eps, codes, trail, beats, disk, phase, policy, tmp, window, timer, late,
                 act, honoured, overlap, early>>

\* recordBreakGlassUse: the first use stays on the code's row; a use that cannot
\* be written there is in neither place.
RecordUse ==
  /\ ingest # None /\ ingest.pc = "stored"
  /\ \/ /\ codes' = [c \in DOMAIN codes |-> IF c \in ingest.reports /\ codes[c].usedOn = 0
                                            THEN [codes[c] EXCEPT !.usedOn = ingest.endpoint] ELSE codes[c]]
        /\ trail' = trail \cup {[code |-> c, endpoint |-> ingest.endpoint] : c \in ingest.reports}
        /\ UNCHANGED faults
     \/ /\ Fault /\ ingest.reports # {}
        /\ UNCHANGED <<codes, trail>>
  /\ ingest' = [ingest EXCEPT !.pc = "recorded"]
  /\ UNCHANGED <<limit, now, versions, eps, stored, beats, disk, phase, policy, glass>>

\* The last step writes the version read with the row.
Answer ==
  /\ ingest # None /\ ingest.pc = "recorded"
  /\ eps' = [eps EXCEPT ![ingest.endpoint].reported = ingest.seen]
  /\ outbox' = outbox \ ingest.reports
  /\ ingest' = None
  /\ UNCHANGED <<limit, now, faults, versions, codes, stored, trail, beats, disk, phase, policy, tmp, window, timer, late,
                 act, honoured, overlap, early>>

\* The instance stops: the batch is sent again.
ServerStops ==
  /\ ingest # None /\ Fault
  /\ ingest' = None
  /\ UNCHANGED <<limit, now, versions, eps, codes, stored, trail, beats, disk, phase, policy, glass>>

Tick ==
  /\ now < limit.now
  /\ now' = now + 1
  /\ UNCHANGED <<limit, faults, control, disk, phase, policy, glass>>

Enrolling == Ask \/ EnrollServed \/ Enrolled \/ Start \/ StartEnrolling
Syncing   == Poll \/ ServePolicy \/ Accept \/ Persist \/ Beat \/ \E b \in beats : ServeBeat(b)
Ingesting == Commit \/ RecordUse \/ Answer
Activating(t) == WriteRecord(t) \/ RenameRecord(t) \/ OpenWindow(t) \/ ReportUse(t)

Next ==
  \/ Enrolling \/ EnrollLost \/ Reenroll \/ Crash
  \/ Syncing \/ SyncFails
  \/ \E kind \in Kinds : Publish(kind)
  \/ \E e \in DOMAIN eps : Revoke(e)
  \/ \E c \in limit.codes, for \in {All} \cup DOMAIN eps, length \in 1 .. MaxWindow : IssueCode(c, for, length)
  \/ \E t \in limit.threads : Activating(t) \/ \E c \in limit.codes : Activate(t, c)
  \/ TimerFires \/ Expire
  \/ \E reports \in Batches : Post(reports)
  \/ Ingesting \/ ServerStops
  \/ Tick

Spec == Init /\ [][Next]_vars

-----------------------------------------------------------------------------
\* The loop polls for as long as the daemon runs, and handlers end.
Fairness ==
  /\ WF_vars(Enrolling) /\ WF_vars(Poll \/ Accept \/ Persist \/ Beat) /\ WF_vars(ServePolicy)
  /\ WF_vars(\E b \in beats : ServeBeat(b)) /\ WF_vars(Ingesting)

FairSpec == Spec /\ Fairness

-----------------------------------------------------------------------------
Running     == phase \in {"starting", "up"}
Endpoint    == [revoked : BOOLEAN, reported : Nat]
CodeRow     == [for : Nat, expiry : Nat, usedOn : Nat]
BeatRow     == [endpoint : Nat, version : Nat]
Document    == [version : Nat, for : Nat]
SyncRow     == [pc : {"idle", "asked", "beat"}, doc : {None}] \cup [pc : {"got", "applied"}, doc : Document]

\* Of the codes in C.
WindowRow(C) == [code : C, until : Nat]
UseRow(C)    == [code : C, endpoint : Nat]
BatchRow(C)  == [pc : {"read", "stored", "recorded"}, endpoint : Nat, reports : SUBSET C, seen : Nat]
OfCodes(f, C, S) == DOMAIN f \subseteq C /\ f \in [DOMAIN f -> S]
IsRecord(r, C)   == /\ r = [used |-> r.used, active |-> r.active]
                    /\ OfCodes(r.used, C, Nat) /\ r.active \in WindowRow(C) \cup {None}
IsActing(x, C)   == /\ x = [pc |-> x.pc, window |-> x.window, record |-> x.record]
                    /\ x.pc \in {"read", "written", "marked", "open"}
                    /\ x.window \in WindowRow(C) /\ IsRecord(x.record, C)

\* The types of the control plane's and the machine's state; an endpoint that the
\* machine goes by is enrolled, a code is one that may be issued.
TypeOK ==
  /\ limit \in Limits /\ now \in Nat /\ faults \in Nat
  /\ versions \in Seq(Kinds) /\ eps \in Seq(Endpoint) /\ OfCodes(codes, limit.codes, CodeRow)
  /\ stored \subseteq limit.codes /\ trail \subseteq UseRow(limit.codes)
  /\ ingest \in BatchRow(limit.codes) \cup {None} /\ beats \subseteq BeatRow
  /\ disk = [state |-> disk.state, cache |-> disk.cache, bg |-> disk.bg]
  /\ disk.state \in 0 .. Len(eps) /\ disk.cache \in Document \cup {None} /\ IsRecord(disk.bg, limit.codes)
  /\ tmp = None \/ IsRecord(tmp, limit.codes)
  /\ phase \in {"down", "enrolling", "starting", "up"} /\ enroll \in Asked .. Len(eps)
  /\ me \in 0 .. Len(eps) /\ current \in Nat /\ sync \in SyncRow
  /\ window \in WindowRow(limit.codes) \cup {None} /\ timer \in BOOLEAN /\ late \in Nat
  /\ act = [t \in limit.threads |-> act[t]]
  /\ \A t \in limit.threads : act[t] = Idle \/ IsActing(act[t], limit.codes)
  /\ outbox \subseteq limit.codes
  /\ honoured \in [limit.codes -> Nat] /\ overlap \in {"none", "windows", "records"} /\ early \in BOOLEAN

\* A code is honoured once on a machine, over restarts, new enrollments, records
\* that are pruned and writes that fail (breakglass.go: a used nonce is never
\* honored again), unless one activation reads the record while another is about
\* to replace it.
HonouredOnce == overlap # "records" => \A c \in limit.codes : honoured[c] <= 1

\* A restart does not put the approval lists back early: while the daemon runs
\* and no activation is in progress, a recorded window that has not ended is
\* open; unless two activations raced or a late timer closed a newer window.
WindowKept ==
  phase \in {"starting", "up"} /\ (\A t \in limit.threads : Free(t)) /\ overlap = "none" /\ ~early
    => (Restorable(disk.bg.active) => window = disk.bg.active)

\* A machine that stays enrolled ends with the version published last; and the
\* console shows it again and again: a late heartbeat or a batch that writes
\* back the version it read gives way to the next heartbeat.
Settled == phase = "up" /\ Reachable(me) /\ Latest > 0 /\ versions[Latest] \in {"plain", "compiled"}
Converges ==
  /\ <>[](Settled => current = Latest)
  /\ []<>(Settled => eps[me].reported = Latest)
=============================================================================
