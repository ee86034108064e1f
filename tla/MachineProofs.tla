----------------------------- MODULE MachineProofs -----------------------------
(***************************************************************************)
(* Theorems about Machine, for any codes, threads, endpoints and versions: *)
(* types, HonouredOnce and WindowKept.                                     *)
(***************************************************************************)
EXTENDS Machine, SequenceTheorems, TLAPS

USE MachineAssumption

-----------------------------------------------------------------------------
\* Types.

ControlOK ==
  /\ versions \in Seq(Kinds) /\ eps \in Seq(Endpoint) /\ OfCodes(codes, limit.codes, CodeRow)
  /\ stored \subseteq limit.codes /\ trail \subseteq UseRow(limit.codes)
  /\ ingest \in BatchRow(limit.codes) \cup {None} /\ beats \subseteq BeatRow
DiskOK ==
  /\ disk = [state |-> disk.state, cache |-> disk.cache, bg |-> disk.bg]
  /\ disk.state \in 0 .. Len(eps) /\ disk.cache \in Document \cup {None} /\ IsRecord(disk.bg, limit.codes)
  /\ tmp = None \/ IsRecord(tmp, limit.codes)
PolicyOK ==
  /\ phase \in {"down", "enrolling", "starting", "up"} /\ enroll \in Asked .. Len(eps)
  /\ me \in 0 .. Len(eps) /\ current \in Nat /\ sync \in SyncRow
GlassOK ==
  /\ window \in WindowRow(limit.codes) \cup {None} /\ timer \in BOOLEAN /\ late \in Nat
  /\ act = [t \in limit.threads |-> act[t]]
  /\ \A t \in limit.threads : act[t] = Idle \/ IsActing(act[t], limit.codes)
  /\ outbox \subseteq limit.codes
  /\ honoured \in [limit.codes -> Nat] /\ overlap \in {"none", "windows", "records"} /\ early \in BOOLEAN
BoundsOK == limit \in Limits /\ now \in Nat /\ faults \in Nat

LEMMA TypeParts ==
  /\ TypeOK <=> BoundsOK /\ ControlOK /\ DiskOK /\ PolicyOK /\ GlassOK
  /\ TypeOK' <=> BoundsOK' /\ ControlOK' /\ DiskOK' /\ PolicyOK' /\ GlassOK'
BY DEF TypeOK, BoundsOK, ControlOK, DiskOK, PolicyOK, GlassOK

LEMMA EmptyMap == ASSUME NEW C, NEW S PROVE OfCodes(<<>>, C, S) /\ DOMAIN <<>> = {}
<1>1. <<>> \in Seq(S) /\ DOMAIN <<>> = {}
  OBVIOUS
<1>2. <<>> \in [{} -> S]
  BY <1>1, SeqDef
<1>3. QED BY <1>1, <1>2 DEF OfCodes

LEMMA NoRecordIsRecord == ASSUME NEW C PROVE IsRecord(NoRecord, C)
BY EmptyMap DEF IsRecord, NoRecord

\* A thread that moves on keeps its window and its record.
LEMMA MovesOn ==
  ASSUME NEW C, NEW x, IsActing(x, C), NEW p \in {"read", "written", "marked", "open"}
  PROVE  /\ IsActing([x EXCEPT !.pc = p], C) /\ [x EXCEPT !.pc = p].pc = p
         /\ [x EXCEPT !.pc = p].window = x.window /\ [x EXCEPT !.pc = p].record = x.record
BY DEF IsActing

LEMMA PruneIsMap ==
  ASSUME NEW C, NEW f, OfCodes(f, C, Nat)
  PROVE  /\ OfCodes(Prune(f), C, Nat)
         /\ \A c : c \in DOMAIN Prune(f) <=> c \in DOMAIN f /\ now <= f[c]
         /\ \A c \in DOMAIN Prune(f) : Prune(f)[c] = f[c]
BY DEF Prune, OfCodes

\* Only act[t] changes, to x.
LEMMA OneActs ==
  ASSUME GlassOK, NEW t \in limit.threads, NEW x, x = Idle \/ IsActing(x, limit.codes),
         act' = [act EXCEPT ![t] = x], limit' = limit
  PROVE  /\ act'[t] = x /\ \A u \in limit.threads : u # t => act'[u] = act[u]
         /\ act' = [u \in limit'.threads |-> act'[u]]
         /\ \A u \in limit'.threads : act'[u] = Idle \/ IsActing(act'[u], limit'.codes)
BY DEF GlassOK

LEMMA TypedInit == Init => TypeOK
<1> SUFFICES ASSUME Init PROVE TypeOK
  OBVIOUS
<1>1. BoundsOK
  BY DEF Init, BoundsOK
<1>2. ControlOK
  <2>1. versions \in Seq(Kinds) /\ eps \in Seq(Endpoint)
    BY DEF Init
  <2>2. OfCodes(codes, limit.codes, CodeRow)
    BY DEF Init, OfCodes
  <2>3. QED BY <2>1, <2>2 DEF Init, ControlOK
<1>3. DiskOK
  BY NoRecordIsRecord DEF Init, DiskOK
<1>4. PolicyOK
  BY DEF Init, PolicyOK, SyncRow, Asked
<1>5. GlassOK
  BY DEF Init, GlassOK
<1>6. QED BY <1>1, <1>2, <1>3, <1>4, <1>5, TypeParts

LEMMA KeepsControl == ASSUME ControlOK, UNCHANGED <<limit, control>> PROVE ControlOK'
BY DEF ControlOK, control

LEMMA KeepsDisk == ASSUME DiskOK, UNCHANGED <<limit, eps, disk, tmp>> PROVE DiskOK'
BY DEF DiskOK

LEMMA KeepsPolicy == ASSUME PolicyOK, UNCHANGED <<eps, phase, policy>> PROVE PolicyOK'
BY DEF PolicyOK, policy

LEMMA KeepsGlass ==
  ASSUME GlassOK, UNCHANGED <<limit, window, timer, late, act, outbox, honoured, overlap, early>> PROVE GlassOK'
BY DEF GlassOK

LEMMA KeepsBounds == ASSUME BoundsOK, UNCHANGED <<limit, now>>, UNCHANGED faults \/ Fault PROVE BoundsOK'
BY DEF BoundsOK, Fault

\* An endpoint enrolled, revoked or heard leaves what names endpoints right.
LEMMA MoreEndpoints ==
  ASSUME DiskOK, PolicyOK, eps \in Seq(Endpoint), eps' \in Seq(Endpoint), Len(eps') >= Len(eps)
  PROVE  /\ UNCHANGED <<limit, disk, tmp>> => DiskOK'
         /\ UNCHANGED <<phase, policy>> => PolicyOK'
<1>1. Len(eps) \in Nat /\ Len(eps') \in Nat
  OBVIOUS
<1>2. QED BY <1>1 DEF DiskOK, PolicyOK, policy, Asked

LEMMA SetEndpoint ==
  ASSUME NEW q \in Seq(Endpoint), NEW e \in DOMAIN q, NEW v \in Endpoint
  PROVE  [q EXCEPT ![e] = v] \in Seq(Endpoint) /\ Len([q EXCEPT ![e] = v]) = Len(q)
OBVIOUS

LEMMA ConsoleTyped ==
  ASSUME TypeOK
  PROVE  /\ \A kind \in Kinds : Publish(kind) => TypeOK'
         /\ \A e \in DOMAIN eps : Revoke(e) => TypeOK'
         /\ \A c \in limit.codes, for \in {All} \cup DOMAIN eps, length \in 1 .. MaxWindow :
               IssueCode(c, for, length) => TypeOK'
<1> USE TypeParts
<1>1. ASSUME NEW kind \in Kinds, Publish(kind) PROVE TypeOK'
  <2>1. versions' \in Seq(Kinds)
    BY <1>1 DEF Publish, ControlOK
  <2>2. ControlOK'
    BY <1>1, <2>1 DEF Publish, ControlOK
  <2>3. DiskOK' /\ PolicyOK' /\ GlassOK' /\ BoundsOK'
    BY <1>1, KeepsDisk, KeepsPolicy, KeepsGlass, KeepsBounds DEF Publish, glass
  <2>4. QED BY <2>2, <2>3
<1>2. ASSUME NEW e \in DOMAIN eps, Revoke(e) PROVE TypeOK'
  <2>1. [eps[e] EXCEPT !.revoked = TRUE] \in Endpoint
    <3>1. eps[e] \in Endpoint
      BY DEF ControlOK
    <3>2. QED BY <3>1 DEF Endpoint
  <2>2. eps' \in Seq(Endpoint) /\ Len(eps') = Len(eps) /\ Len(eps) \in Nat
    BY <1>2, <2>1, SetEndpoint DEF ControlOK, Revoke
  <2>3. ControlOK'
    BY <1>2, <2>2 DEF Revoke, ControlOK
  <2>4. DiskOK' /\ PolicyOK' /\ GlassOK' /\ BoundsOK'
    BY <1>2, <2>2, MoreEndpoints, KeepsGlass, KeepsBounds DEF Revoke, glass, ControlOK
  <2>5. QED BY <2>3, <2>4
<1>3. ASSUME NEW c \in limit.codes, NEW for \in {All} \cup DOMAIN eps, NEW length \in 1 .. MaxWindow,
             IssueCode(c, for, length)
      PROVE  TypeOK'
  <2>1. for \in Nat
    BY DEF ControlOK, All
  <2>2. [for |-> for, expiry |-> now + length, usedOn |-> 0] \in CodeRow
    BY <2>1 DEF BoundsOK, CodeRow
  <2>3. OfCodes(codes', limit.codes, CodeRow)
    BY <1>3, <2>2 DEF ControlOK, IssueCode, OfCodes
  <2>4. ControlOK'
    BY <1>3, <2>3 DEF IssueCode, ControlOK
  <2>5. DiskOK' /\ PolicyOK' /\ GlassOK' /\ BoundsOK'
    BY <1>3, KeepsDisk, KeepsPolicy, KeepsGlass, KeepsBounds DEF IssueCode, glass
  <2>6. QED BY <2>4, <2>5
<1>4. QED BY <1>1, <1>2, <1>3

LEMMA EnrollingTyped ==
  ASSUME TypeOK, Enrolling \/ EnrollLost \/ Reenroll \/ Crash
  PROVE  TypeOK'
<1> USE TypeParts
<1>1. CASE Ask
  <2>1. PolicyOK'
    BY <1>1 DEF PolicyOK, Ask, Asked, ControlOK, control
  <2>2. QED BY <1>1, <2>1, KeepsControl, KeepsDisk, KeepsGlass, KeepsBounds DEF Ask, control, glass
<1>2. CASE EnrollServed
  <2>1. eps' \in Seq(Endpoint) /\ Len(eps') >= Len(eps) /\ Len(eps) \in Nat /\ enroll' \in 0 .. Len(eps')
    <3>1. CASE Len(eps) < limit.uses
      <4>1. [revoked |-> FALSE, reported |-> 0] \in Endpoint
        BY DEF Endpoint
      <4>2. QED BY <1>2, <3>1, <4>1 DEF ControlOK, EnrollServed
    <3>2. CASE ~(Len(eps) < limit.uses)
      BY <1>2, <3>2 DEF ControlOK, EnrollServed
    <3>3. QED BY <3>1, <3>2
  <2>2. ControlOK'
    BY <1>2, <2>1 DEF EnrollServed, ControlOK
  <2>3. DiskOK'
    BY <1>2, <2>1, MoreEndpoints DEF EnrollServed, ControlOK, glass
  <2>4. PolicyOK'
    BY <1>2, <2>1 DEF EnrollServed, PolicyOK, Asked
  <2>5. QED BY <1>2, <2>2, <2>3, <2>4, KeepsGlass, KeepsBounds DEF EnrollServed, glass
<1>3. CASE Enrolled
  <2>1. DiskOK' /\ PolicyOK'
    BY <1>3 DEF DiskOK, PolicyOK, Enrolled, Asked, ControlOK, control, glass
  <2>2. QED BY <1>3, <2>1, KeepsControl, KeepsGlass, KeepsBounds DEF Enrolled, glass
<1>4. CASE Start
  <2>1. disk.bg.active # None => disk.bg.active \in WindowRow(limit.codes)
    BY DEF DiskOK, IsRecord
  <2>2. window' \in WindowRow(limit.codes) \cup {None} /\ timer' \in BOOLEAN
    BY <1>4, <2>1 DEF Start, Restorable, SetBreakGlass
  <2>3. GlassOK'
    BY <1>4, <2>2 DEF GlassOK, Start
  <2>4. current' \in Nat /\ phase' \in {"starting", "up"}
    BY <1>4 DEF Start, DiskOK, Document
  <2>5. PolicyOK'
    BY <1>4, <2>4 DEF PolicyOK, Start, DiskOK, control
  <2>6. QED BY <1>4, <2>3, <2>5, KeepsControl, KeepsDisk, KeepsBounds DEF Start, control
<1>5. CASE StartEnrolling
  <2>1. PolicyOK'
    BY <1>5 DEF PolicyOK, StartEnrolling, control, policy
  <2>2. QED BY <1>5, <2>1, KeepsControl, KeepsDisk, KeepsGlass, KeepsBounds DEF StartEnrolling, control, glass
<1>6. CASE EnrollLost
  <2>1. PolicyOK'
    BY <1>6 DEF PolicyOK, EnrollLost, control, ControlOK, Asked
  <2>2. QED BY <1>6, <2>1, KeepsControl, KeepsDisk, KeepsGlass, KeepsBounds DEF EnrollLost, control, glass
<1>7. CASE Reenroll
  <2>1. PolicyOK'
    BY <1>7 DEF PolicyOK, Reenroll, control, policy
  <2>2. QED BY <1>7, <2>1, KeepsControl, KeepsDisk, KeepsGlass, KeepsBounds DEF Reenroll, control, glass
<1>8. CASE Crash
  <2>1. sync' \in SyncRow
    BY <1>8 DEF Crash, SyncRow
  <2>2. PolicyOK'
    BY <1>8, <2>1 DEF PolicyOK, Crash, control, ControlOK, Asked
  <2>3. outbox' \subseteq limit.codes
    BY <1>8 DEF Crash, GlassOK
  <2>4. GlassOK'
    BY <1>8, <2>3 DEF GlassOK, Crash
  <2>5. QED BY <1>8, <2>2, <2>4, KeepsControl, KeepsDisk, KeepsBounds DEF Crash, control
<1>9. QED BY <1>1, <1>2, <1>3, <1>4, <1>5, <1>6, <1>7, <1>8 DEF Enrolling

LEMMA SyncingTyped ==
  ASSUME TypeOK, Syncing \/ SyncFails
  PROVE  TypeOK'
<1> USE TypeParts
<1>1. \A pc \in {"idle", "asked", "beat"} : [pc |-> pc, doc |-> None] \in SyncRow
  BY DEF SyncRow
<1>2. CASE Poll
  <2>1. PolicyOK'
    BY <1>1, <1>2 DEF PolicyOK, Poll, control
  <2>2. QED BY <1>2, <2>1, KeepsControl, KeepsDisk, KeepsGlass, KeepsBounds DEF Poll, control, glass
<1>3. CASE ServePolicy
  <2>1. [version |-> Latest, for |-> IF versions[Latest] = "compiled" THEN me ELSE All] \in Document
    BY DEF Document, Latest, PolicyOK, ControlOK, All
  <2>2. sync' \in SyncRow
    BY <1>1, <1>3, <2>1 DEF ServePolicy, SyncRow
  <2>3. PolicyOK'
    BY <1>3, <2>2 DEF PolicyOK, ServePolicy, control
  <2>4. QED BY <1>3, <2>3, KeepsControl, KeepsDisk, KeepsGlass, KeepsBounds DEF ServePolicy, control, glass
<1>4. CASE SyncFails
  <2>1. sync' \in SyncRow
    BY <1>1, <1>4 DEF SyncFails
  <2>2. PolicyOK'
    BY <1>4, <2>1 DEF PolicyOK, SyncFails, control
  <2>3. QED BY <1>4, <2>2, KeepsControl, KeepsDisk, KeepsGlass, KeepsBounds DEF SyncFails, control, glass
<1>5. CASE Accept
  <2>1. sync.doc \in Document
    BY <1>5 DEF Accept, PolicyOK, SyncRow
  <2>2. current' \in Nat
    BY <1>5, <2>1 DEF Accept, PolicyOK, Document
  <2>3. [sync EXCEPT !.pc = "applied"] \in SyncRow
    BY <1>5 DEF Accept, PolicyOK, SyncRow
  <2>4. sync' \in SyncRow
    BY <1>1, <1>5, <2>3 DEF Accept
  <2>5. PolicyOK'
    BY <1>5, <2>2, <2>4 DEF PolicyOK, Accept, control
  <2>6. QED BY <1>5, <2>5, KeepsControl, KeepsDisk, KeepsGlass, KeepsBounds DEF Accept, control, glass
<1>6. CASE Persist
  <2>1. sync.doc \in Document
    BY <1>6 DEF Persist, PolicyOK, SyncRow
  <2>2. DiskOK'
    <3>1. CASE disk' = [disk EXCEPT !.cache = sync.doc]
      BY <1>6, <2>1, <3>1 DEF DiskOK, Persist, control, glass
    <3>2. CASE UNCHANGED disk
      BY <1>6, <3>2, KeepsDisk DEF Persist, control, glass
    <3>3. QED BY <1>6, <3>1, <3>2 DEF Persist
  <2>3. PolicyOK'
    BY <1>1, <1>6 DEF PolicyOK, Persist, control
  <2>4. QED BY <1>6, <2>2, <2>3, KeepsControl, KeepsGlass, KeepsBounds DEF Persist, control, glass
<1>7. CASE Beat
  <2>1. beats' \subseteq BeatRow
    BY <1>7 DEF Beat, ControlOK, PolicyOK, BeatRow
  <2>2. ControlOK'
    BY <1>7, <2>1 DEF Beat, ControlOK
  <2>3. PolicyOK'
    BY <1>1, <1>7 DEF PolicyOK, Beat
  <2>4. QED BY <1>7, <2>2, <2>3, KeepsDisk, KeepsGlass, KeepsBounds DEF Beat, glass
<1>8. ASSUME NEW b \in beats, ServeBeat(b) PROVE TypeOK'
  <2>1. b \in BeatRow
    BY DEF ControlOK
  <2>2. eps' \in Seq(Endpoint) /\ Len(eps') = Len(eps) /\ Len(eps) \in Nat
    <3>1. CASE UNCHANGED eps
      BY <3>1 DEF ControlOK
    <3>2. CASE eps' = [eps EXCEPT ![b.endpoint].reported = b.version]
      <4>1. CASE b.endpoint \in DOMAIN eps
        <5>1. eps[b.endpoint] \in Endpoint
          BY <4>1 DEF ControlOK
        <5>2. [eps[b.endpoint] EXCEPT !.reported = b.version] \in Endpoint
          BY <2>1, <5>1 DEF Endpoint, BeatRow
        <5>3. QED BY <3>2, <4>1, <5>2, SetEndpoint DEF ControlOK
      <4>2. CASE b.endpoint \notin DOMAIN eps
        <5>1. eps' = eps
          BY <3>2, <4>2 DEF ControlOK
        <5>2. QED BY <5>1 DEF ControlOK
      <4>3. QED BY <4>1, <4>2
    <3>3. QED BY <1>8, <3>1, <3>2 DEF ServeBeat
  <2>3. ControlOK'
    BY <1>8, <2>2 DEF ServeBeat, ControlOK
  <2>4. DiskOK' /\ PolicyOK' /\ GlassOK' /\ BoundsOK'
    BY <1>8, <2>2, MoreEndpoints, KeepsGlass, KeepsBounds DEF ServeBeat, glass, ControlOK
  <2>5. QED BY <2>3, <2>4
<1>9. QED BY <1>2, <1>3, <1>4, <1>5, <1>6, <1>7, <1>8 DEF Syncing

\* What an activation in progress works on.
LEMMA ActsOn ==
  ASSUME GlassOK, NEW t \in limit.threads, ~Free(t)
  PROVE  /\ IsActing(act[t], limit.codes) /\ act[t].window \in WindowRow(limit.codes)
         /\ IsRecord(act[t].record, limit.codes) /\ act[t].window.code \in limit.codes
<1>1. IsActing(act[t], limit.codes)
  BY DEF GlassOK, Free, Idle
<1>2. QED BY <1>1 DEF IsActing, WindowRow

\* The activation that begins.
LEMMA Begins ==
  ASSUME TypeOK, NEW t \in limit.threads, NEW c \in limit.codes, Activate(t, c)
  PROVE  /\ IsActing(act'[t], limit.codes) /\ act' = [act EXCEPT ![t] = act'[t]]
         /\ act'[t].pc = "read" /\ act'[t].window.code = c /\ act'[t].window.until = codes[c].expiry
         /\ act'[t].record.active = act'[t].window
         /\ \A x \in DOMAIN act'[t].record.used :
               act'[t].record.used[x] = IF x = c THEN codes[c].expiry ELSE Prune(disk.bg.used)[x]
         /\ DOMAIN act'[t].record.used = DOMAIN Prune(disk.bg.used) \cup {c}
         /\ c \notin DOMAIN Prune(disk.bg.used) /\ Valid(c)
<1> DEFINE used == Prune(disk.bg.used)
           w    == [code |-> c, until |-> codes[c].expiry]
           more == [x \in DOMAIN used \cup {c} |-> IF x = c THEN w.until ELSE used[x]]
           x    == [pc |-> "read", window |-> w, record |-> [used |-> more, active |-> w]]
<1>1. codes[c].expiry \in Nat
  BY DEF Activate, Valid, TypeOK, OfCodes, CodeRow
<1>2. w \in WindowRow(limit.codes) /\ w.until = codes[c].expiry
  BY <1>1 DEF WindowRow
<1>3. OfCodes(used, limit.codes, Nat)
  BY PruneIsMap DEF TypeOK, IsRecord
<1>4. OfCodes(more, limit.codes, Nat) /\ DOMAIN more = DOMAIN used \cup {c}
  BY <1>1, <1>3 DEF OfCodes
<1> HIDE DEF used
<1>5. more = [y \in DOMAIN used \cup {c} |-> IF y = c THEN codes[c].expiry ELSE used[y]]
  OBVIOUS
<1>6. act' = [act EXCEPT ![t] = x] /\ c \notin DOMAIN used /\ Valid(c)
  BY DEF Activate, used
<1> HIDE DEF w, more
<1>7. IsRecord([used |-> more, active |-> w], limit.codes)
  BY <1>2, <1>4 DEF IsRecord
<1>8. IsActing(x, limit.codes)
  BY <1>2, <1>7 DEF IsActing
<1>9. act'[t] = x
  BY <1>6 DEF TypeOK
<1>10. x.pc = "read" /\ x.window = w /\ x.record.active = w /\ x.record.used = more
  OBVIOUS
<1> HIDE DEF x
<1>11. /\ act'[t].pc = "read" /\ act'[t].window = w /\ act'[t].record.active = w /\ act'[t].record.used = more
  BY <1>9, <1>10
<1>12. \A y \in DOMAIN more : more[y] = IF y = c THEN codes[c].expiry ELSE used[y]
  BY <1>4, <1>5
<1>13. w.code = c /\ w.until = codes[c].expiry
  BY DEF w
<1>14. IsActing(act'[t], limit.codes) /\ act' = [act EXCEPT ![t] = act'[t]]
  BY <1>6, <1>8, <1>9
<1>15. QED BY <1>4, <1>6, <1>11, <1>12, <1>13, <1>14 DEF used

LEMMA ActivatingTyped ==
  ASSUME TypeOK, NEW t \in limit.threads
  PROVE  /\ Activating(t) => TypeOK'
         /\ \A c \in limit.codes : Activate(t, c) => TypeOK'
<1> USE TypeParts
<1>1. CASE WriteRecord(t)
  <2>1. IsActing(act[t], limit.codes)
    BY <1>1, ActsOn DEF WriteRecord, Free
  <2>2. tmp' = None \/ IsRecord(tmp', limit.codes)
    BY <1>1, <2>1 DEF WriteRecord, IsActing, DiskOK
  <2>3. PICK x : (x = Idle \/ IsActing(x, limit.codes)) /\ act' = [act EXCEPT ![t] = x]
    BY <1>1, <2>1, MovesOn DEF WriteRecord
  <2>4. GlassOK'
    BY <1>1, <2>3, OneActs DEF WriteRecord, GlassOK
  <2>5. DiskOK'
    BY <1>1, <2>2 DEF WriteRecord, DiskOK, control
  <2>6. QED BY <1>1, <2>4, <2>5, KeepsControl, KeepsPolicy, KeepsBounds DEF WriteRecord, control
<1>2. CASE RenameRecord(t)
  <2>1. IsActing(act[t], limit.codes)
    BY <1>2, ActsOn DEF RenameRecord, Free
  <2>2. PICK x : (x = Idle \/ IsActing(x, limit.codes)) /\ act' = [act EXCEPT ![t] = x]
    BY <1>2, <2>1, MovesOn DEF RenameRecord
  <2>3. GlassOK'
    BY <1>2, <2>2, OneActs DEF RenameRecord, GlassOK
  <2>4. DiskOK'
    BY <1>2 DEF RenameRecord, DiskOK, control
  <2>5. QED BY <1>2, <2>3, <2>4, KeepsControl, KeepsPolicy, KeepsBounds DEF RenameRecord, control
<1>3. CASE OpenWindow(t)
  <2>1. IsActing(act[t], limit.codes) /\ act[t].window \in WindowRow(limit.codes) /\ act[t].window.code \in limit.codes
    BY <1>3, ActsOn DEF OpenWindow, Free
  <2>2. PICK x : IsActing(x, limit.codes) /\ act' = [act EXCEPT ![t] = x]
    BY <1>3, <2>1, MovesOn DEF OpenWindow
  <2>3. window' \in WindowRow(limit.codes) \cup {None} /\ timer' \in BOOLEAN
    BY <1>3, <2>1 DEF OpenWindow, SetBreakGlass
  <2>4. honoured' \in [limit.codes -> Nat]
    BY <1>3, <2>1 DEF OpenWindow, GlassOK
  <2>5. GlassOK'
    BY <1>3, <2>2, <2>3, <2>4, OneActs DEF OpenWindow, GlassOK
  <2>6. QED BY <1>3, <2>5, KeepsControl, KeepsDisk, KeepsPolicy, KeepsBounds DEF OpenWindow, control
<1>4. CASE ReportUse(t)
  <2>1. act[t].window.code \in limit.codes
    BY <1>4, ActsOn DEF ReportUse, Free
  <2>2. GlassOK'
    BY <1>4, <2>1, OneActs DEF ReportUse, GlassOK
  <2>3. QED BY <1>4, <2>2, KeepsControl, KeepsDisk, KeepsPolicy, KeepsBounds DEF ReportUse, control
<1>5. ASSUME NEW c \in limit.codes, Activate(t, c) PROVE TypeOK'
  <2>1. PICK x : IsActing(x, limit.codes) /\ act' = [act EXCEPT ![t] = x]
    BY <1>5, Begins
  <2>2. overlap' \in {"none", "windows", "records"}
    BY <1>5 DEF Activate, GlassOK
  <2>3. GlassOK'
    BY <1>5, <2>1, <2>2, OneActs DEF Activate, GlassOK
  <2>4. QED BY <1>5, <2>3, KeepsControl, KeepsDisk, KeepsPolicy, KeepsBounds DEF Activate, control
<1>6. QED BY <1>1, <1>2, <1>3, <1>4, <1>5 DEF Activating

LEMMA GlassOfTimer ==
  ASSUME GlassOK, UNCHANGED <<limit, act, outbox, honoured, overlap>>,
         window' \in WindowRow(limit.codes) \cup {None}, timer' \in BOOLEAN, late' \in Nat, early' \in BOOLEAN
  PROVE  GlassOK'
BY DEF GlassOK

LEMMA TimerTyped ==
  ASSUME TypeOK, TimerFires \/ Expire \/ Tick
  PROVE  TypeOK'
<1> USE TypeParts
<1>1. CASE TimerFires
  <2>0. /\ timer' = FALSE /\ late' = late + 1
        /\ UNCHANGED <<limit, window, act, outbox, honoured, overlap, early>>
    BY <1>1, Zenon DEF TimerFires
  <2>1. late' \in Nat /\ window' \in WindowRow(limit.codes) \cup {None} /\ early' \in BOOLEAN
    BY <2>0 DEF GlassOK
  <2>2. GlassOK'
    BY <2>0, <2>1, GlassOfTimer
  <2>3. QED BY <1>1, <2>2, KeepsControl, KeepsDisk, KeepsPolicy, KeepsBounds DEF TimerFires, control
<1>2. CASE Expire
  <2>1. early' \in BOOLEAN
    <3>1. CASE window # None /\ now < window.until
      BY <1>2, <3>1 DEF Expire
    <3>2. CASE ~(window # None /\ now < window.until)
      BY <1>2, <3>2 DEF Expire, GlassOK
    <3>3. QED BY <3>1, <3>2
  <2>0. window' = None /\ timer' = FALSE /\ late' = late - 1 /\ late > 0 /\ UNCHANGED <<limit, act, outbox, honoured, overlap>>
    BY <1>2, Zenon DEF Expire
  <2>2. GlassOK'
    <3>1. late' \in Nat
      BY <2>0 DEF GlassOK
    <3>2. QED BY <2>0, <2>1, <3>1, GlassOfTimer
  <2>3. QED BY <1>2, <2>2, KeepsControl, KeepsDisk, KeepsPolicy, KeepsBounds DEF Expire, control
<1>3. CASE Tick
  <2>1. BoundsOK'
    BY <1>3 DEF Tick, BoundsOK
  <2>2. QED BY <1>3, <2>1, KeepsControl, KeepsDisk, KeepsPolicy, KeepsGlass DEF Tick, control, glass
<1>4. QED BY <1>1, <1>2, <1>3

\* A handler that goes on with a batch.
LEMMA BatchGoesOn ==
  ASSUME NEW C, NEW x \in BatchRow(C), NEW p \in {"read", "stored", "recorded"}
  PROVE  [x EXCEPT !.pc = p] \in BatchRow(C)
BY DEF BatchRow

LEMMA IngestTyped ==
  ASSUME TypeOK
  PROVE  /\ \A reports \in Batches : Post(reports) => TypeOK'
         /\ Ingesting \/ ServerStops => TypeOK'
<1> USE TypeParts
<1>1. ASSUME NEW reports \in Batches, Post(reports) PROVE TypeOK'
  <2>1. reports \subseteq limit.codes
    BY DEF Batches, GlassOK
  <2>2. eps[me].reported \in Nat
    <3>1. me \in DOMAIN eps
      BY <1>1 DEF Post, Reachable, PolicyOK, ControlOK
    <3>2. eps[me] \in Endpoint
      BY <3>1 DEF ControlOK
    <3>3. QED BY <3>2 DEF Endpoint
  <2>3. ingest' \in BatchRow(limit.codes)
    BY <1>1, <2>1, <2>2 DEF Post, BatchRow, PolicyOK
  <2>4. ControlOK'
    BY <1>1, <2>3 DEF Post, ControlOK
  <2>5. QED BY <1>1, <2>4, KeepsDisk, KeepsPolicy, KeepsGlass, KeepsBounds DEF Post, glass
<1>2. CASE Commit
  <2>1. ingest \in BatchRow(limit.codes) /\ ingest.reports \subseteq limit.codes
    BY <1>2 DEF Commit, ControlOK, BatchRow
  <2>2. ingest' \in BatchRow(limit.codes) \cup {None} /\ stored' \subseteq limit.codes
    <3>1. [ingest EXCEPT !.pc = "stored"] \in BatchRow(limit.codes)
      BY <2>1, BatchGoesOn
    <3>2. stored \subseteq limit.codes
      BY DEF ControlOK
    <3>3. QED BY <1>2, <2>1, <3>1, <3>2 DEF Commit
  <2>3. ControlOK'
    BY <1>2, <2>2 DEF Commit, ControlOK
  <2>4. outbox' \subseteq limit.codes
    BY <1>2 DEF Commit, GlassOK
  <2>5. GlassOK'
    BY <1>2, <2>4 DEF Commit, GlassOK
  <2>6. QED BY <1>2, <2>3, <2>5, KeepsDisk, KeepsPolicy, KeepsBounds DEF Commit
<1>3. CASE RecordUse
  <2>1. /\ ingest \in BatchRow(limit.codes) /\ ingest.reports \subseteq limit.codes /\ ingest.endpoint \in Nat
    BY <1>3 DEF RecordUse, ControlOK, BatchRow
  <2>2. \A c \in DOMAIN codes : codes[c] \in CodeRow /\ [codes[c] EXCEPT !.usedOn = ingest.endpoint] \in CodeRow
    BY <2>1 DEF ControlOK, OfCodes, CodeRow
  <2>3. OfCodes(codes', limit.codes, CodeRow)
    BY <1>3, <2>2 DEF RecordUse, ControlOK, OfCodes
  <2>4. trail' \subseteq UseRow(limit.codes)
    BY <1>3, <2>1 DEF RecordUse, ControlOK, UseRow
  <2>5. ingest' \in BatchRow(limit.codes)
    BY <1>3, <2>1, BatchGoesOn DEF RecordUse
  <2>6. ControlOK'
    BY <1>3, <2>3, <2>4, <2>5 DEF RecordUse, ControlOK
  <2>7. QED BY <1>3, <2>6, KeepsDisk, KeepsPolicy, KeepsGlass, KeepsBounds DEF RecordUse, glass
<1>4. CASE Answer
  <2>1. ingest \in BatchRow(limit.codes) /\ ingest.seen \in Nat
    BY <1>4 DEF Answer, ControlOK, BatchRow
  <2>2. eps' \in Seq(Endpoint) /\ Len(eps') = Len(eps) /\ Len(eps) \in Nat
    <3>1. CASE ingest.endpoint \in DOMAIN eps
      <4>1. eps[ingest.endpoint] \in Endpoint
        BY <3>1 DEF ControlOK
      <4>2. [eps[ingest.endpoint] EXCEPT !.reported = ingest.seen] \in Endpoint
        BY <2>1, <4>1 DEF Endpoint
      <4>3. QED BY <1>4, <3>1, <4>2, SetEndpoint DEF Answer, ControlOK
    <3>2. CASE ingest.endpoint \notin DOMAIN eps
      <4>1. eps' = eps
        BY <1>4, <3>2 DEF Answer, ControlOK
      <4>2. QED BY <4>1 DEF ControlOK
    <3>3. QED BY <3>1, <3>2
  <2>3. ControlOK'
    BY <1>4, <2>2 DEF Answer, ControlOK
  <2>4. outbox' \subseteq limit.codes
    BY <1>4 DEF Answer, GlassOK
  <2>5. GlassOK'
    BY <1>4, <2>4 DEF Answer, GlassOK
  <2>6. DiskOK' /\ PolicyOK'
    BY <1>4, <2>2, MoreEndpoints DEF Answer, ControlOK
  <2>7. QED BY <1>4, <2>3, <2>5, <2>6, KeepsBounds DEF Answer
<1>5. CASE ServerStops
  <2>1. ControlOK'
    BY <1>5 DEF ServerStops, ControlOK
  <2>2. QED BY <1>5, <2>1, KeepsDisk, KeepsPolicy, KeepsGlass, KeepsBounds DEF ServerStops, glass
<1>6. QED BY <1>1, <1>2, <1>3, <1>4, <1>5 DEF Ingesting

LEMMA TypedNext == TypeOK /\ [Next]_vars => TypeOK'
<1> SUFFICES ASSUME TypeOK, [Next]_vars PROVE TypeOK'
  OBVIOUS
<1>1. CASE Next
  <2>1. CASE \/ Enrolling \/ EnrollLost \/ Reenroll \/ Crash \/ Syncing \/ SyncFails
    BY <2>1, EnrollingTyped, SyncingTyped
  <2>2. CASE \/ \E kind \in Kinds : Publish(kind)
             \/ \E e \in DOMAIN eps : Revoke(e)
             \/ \E c \in limit.codes, for \in {All} \cup DOMAIN eps, length \in 1 .. MaxWindow : IssueCode(c, for, length)
    BY <2>2, ConsoleTyped
  <2>3. CASE \E t \in limit.threads : Activating(t) \/ \E c \in limit.codes : Activate(t, c)
    BY <2>3, ActivatingTyped
  <2>4. CASE \/ TimerFires \/ Expire \/ Tick
    BY <2>4, TimerTyped
  <2>5. CASE (\E reports \in Batches : Post(reports)) \/ Ingesting \/ ServerStops
    BY <2>5, IngestTyped
  <2>6. QED BY <1>1, <2>1, <2>2, <2>3, <2>4, <2>5 DEF Next
<1>2. CASE UNCHANGED vars
  BY <1>2, TypeParts, KeepsControl, KeepsDisk, KeepsPolicy, KeepsGlass, KeepsBounds DEF vars, control, policy
<1>3. QED BY <1>1, <1>2

\* Every state keeps its types, for any codes, threads, versions and endpoints.
THEOREM TypeCorrect == Spec => []TypeOK
<1>1. QED BY TypedInit, TypedNext, PTL DEF Spec

-----------------------------------------------------------------------------
\* The uses of a code: honoured, promised by an activation under way, or
\* recorded.

\* A record says of each code it lists when the code ends, and of a window the
\* same of its code; k are the codes issued.
TrueRecord(r, k) ==
  /\ \A c \in DOMAIN r.used : c \in DOMAIN k /\ r.used[c] = k[c].expiry
  /\ r.active # None => r.active.code \in DOMAIN k /\ r.active.until = k[r.active.code].expiry
TrueActing(x, k) ==
  TrueRecord(x.record, k) /\ x.record.active = x.window /\ x.window.code \in DOMAIN x.record.used

RecordsTrue ==
  /\ TrueRecord(disk.bg, codes)
  /\ tmp # None => TrueRecord(tmp, codes)
  /\ \A t \in limit.threads : ~Free(t) => TrueActing(act[t], codes)

Recording(t) == act[t].pc \in {"read", "written"}
Promised(t)  == act[t].pc \in {"read", "written", "marked"}
CodeOf(t)    == act[t].window.code

\* A code that is spent can not be activated any more.
Past(c)  == codes[c].expiry < now
Spent(c) == c \in DOMAIN codes /\ (c \in DOMAIN disk.bg.used \/ Past(c))

\* One activation at a time is about to replace the record, and what it is about
\* to store lists every code in the record but those that have ended.
OneRecords == \A t, u \in limit.threads : Recording(t) /\ Recording(u) => t = u
InTmp      == \A t \in limit.threads : act[t].pc = "written" => tmp = act[t].record
NothingForgotten ==
  \A t \in limit.threads : Recording(t) =>
    \A c \in DOMAIN disk.bg.used : c \in DOMAIN act[t].record.used \/ Past(c)

\* A code honoured is spent; a code promised has not been honoured, and nobody
\* else promises it.
HonouredIsSpent == \A c \in limit.codes : honoured[c] > 0 => honoured[c] = 1 /\ Spent(c)
PromisedOnce ==
  \A t \in limit.threads : Promised(t) =>
    /\ honoured[CodeOf(t)] = 0
    /\ act[t].pc = "marked" => Spent(CodeOf(t))
    /\ \A u \in limit.threads : Promised(u) /\ CodeOf(u) = CodeOf(t) => u = t

Uses    == OneRecords /\ InTmp /\ NothingForgotten /\ HonouredIsSpent /\ PromisedOnce
UsesInv == RecordsTrue /\ (overlap # "records" => Uses)

\* Codes are issued, none changes its end.
Extends(k, l) == DOMAIN k \subseteq DOMAIN l /\ \A c \in DOMAIN k : l[c].expiry = k[c].expiry

\* What is in progress, recorded and honoured stays, while time may pass.
Quiet ==
  /\ UNCHANGED <<limit, act, tmp, honoured, overlap>> /\ disk'.bg = disk.bg
  /\ now' \in Nat /\ now' >= now /\ Extends(codes, codes')

LEMMA StaysTrue ==
  ASSUME NEW k, NEW l, Extends(k, l)
  PROVE  /\ \A r : TrueRecord(r, k) => TrueRecord(r, l)
         /\ \A x : TrueActing(x, k) => TrueActing(x, l)
BY DEF Extends, TrueRecord, TrueActing

LEMMA UsesInit == Init => UsesInv
<1> SUFFICES ASSUME Init PROVE UsesInv
  OBVIOUS
<1>1. DOMAIN disk.bg.used = {} /\ disk.bg.active = None
  BY EmptyMap DEF Init, NoRecord
<1>2. \A t \in limit.threads : act[t].pc = "idle"
  BY DEF Init, Idle
<1>3. RecordsTrue
  BY <1>1, <1>2 DEF Init, RecordsTrue, TrueRecord, Free
<1>4. Uses
  BY <1>1, <1>2 DEF Init, Uses, OneRecords, InTmp, NothingForgotten, HonouredIsSpent, PromisedOnce, Recording, Promised
<1>5. QED BY <1>3, <1>4 DEF UsesInv

LEMMA UsesQuiet == ASSUME TypeOK, UsesInv, Quiet PROVE UsesInv'
<1>1. RecordsTrue'
  BY StaysTrue DEF Quiet, UsesInv, RecordsTrue, Free
<1>2. \A c \in DOMAIN codes : Past(c) => Past(c)'
  <2>1. \A c \in DOMAIN codes : codes[c].expiry \in Nat
    BY DEF TypeOK, OfCodes, CodeRow
  <2>2. QED BY <2>1 DEF Quiet, Extends, Past, TypeOK
<1>3. \A c : Spent(c) => Spent(c)'
  BY <1>2 DEF Spent, Quiet, Extends
<1>4. ASSUME overlap' # "records" PROVE Uses'
  <2>1. Uses
    BY <1>4 DEF UsesInv, Quiet
  <2>2. OneRecords' /\ InTmp'
    BY <2>1 DEF Uses, OneRecords, InTmp, Recording, Quiet
  <2>3. NothingForgotten'
    <3>1. DOMAIN disk.bg.used \subseteq DOMAIN codes
      BY DEF UsesInv, RecordsTrue, TrueRecord
    <3>2. QED BY <1>2, <2>1, <3>1 DEF Uses, NothingForgotten, Recording, Quiet
  <2>4. HonouredIsSpent'
    BY <1>3, <2>1 DEF Uses, HonouredIsSpent, Quiet
  <2>5. PromisedOnce'
    BY <1>3, <2>1 DEF Uses, PromisedOnce, Promised, CodeOf, Quiet
  <2>6. QED BY <2>2, <2>3, <2>4, <2>5 DEF Uses
<1>5. QED BY <1>1, <1>4 DEF UsesInv

LEMMA UsesCrash == ASSUME TypeOK, UsesInv, Crash PROVE UsesInv'
<1>1. \A t \in limit'.threads : act'[t].pc = "idle"
  BY DEF Crash, Idle
<1>2. UNCHANGED <<limit, now, codes, disk, tmp, honoured, overlap>>
  BY DEF Crash, control
<1>3. RecordsTrue'
  BY <1>1, <1>2 DEF UsesInv, RecordsTrue, Free
<1>4. ASSUME overlap' # "records" PROVE Uses'
  <2>1. HonouredIsSpent
    BY <1>2, <1>4 DEF UsesInv, Uses
  <2>2. HonouredIsSpent'
    BY <1>2, <2>1 DEF HonouredIsSpent, Spent, Past
  <2>3. QED BY <1>1, <2>2 DEF Uses, OneRecords, InTmp, NothingForgotten, PromisedOnce, Recording, Promised
<1>5. QED BY <1>3, <1>4 DEF UsesInv

\* A code that is neither in the pruned record nor past is not spent.
LEMMA UsesActivate ==
  ASSUME TypeOK, UsesInv, NEW t \in limit.threads, NEW c \in limit.codes, Activate(t, c)
  PROVE  UsesInv'
<1>1. UNCHANGED <<limit, now, codes, disk, tmp, honoured>>
  BY DEF Activate, control
<1>2. /\ act'[t].pc = "read" /\ act'[t].window.code = c /\ act'[t].window.until = codes[c].expiry
      /\ act'[t].record.active = act'[t].window
      /\ DOMAIN act'[t].record.used = DOMAIN Prune(disk.bg.used) \cup {c}
      /\ c \notin DOMAIN Prune(disk.bg.used) /\ Valid(c)
  BY Begins
<1>3. \A x \in DOMAIN act'[t].record.used :
        act'[t].record.used[x] = IF x = c THEN codes[c].expiry ELSE Prune(disk.bg.used)[x]
  BY Begins
<1>4. \A u \in limit.threads : u # t => act'[u] = act[u]
  <2>1. PICK x : act' = [act EXCEPT ![t] = x]
    BY DEF Activate
  <2>2. QED BY <2>1 DEF TypeOK
<1>5. OfCodes(disk.bg.used, limit.codes, Nat)
  BY DEF TypeOK, IsRecord
<1>6. /\ \A x : x \in DOMAIN Prune(disk.bg.used) <=> x \in DOMAIN disk.bg.used /\ now <= disk.bg.used[x]
      /\ \A x \in DOMAIN Prune(disk.bg.used) : Prune(disk.bg.used)[x] = disk.bg.used[x]
  BY <1>5, PruneIsMap
<1>7. \A x \in DOMAIN disk.bg.used : x \in DOMAIN codes /\ disk.bg.used[x] = codes[x].expiry /\ disk.bg.used[x] \in Nat
  BY <1>5 DEF UsesInv, RecordsTrue, TrueRecord, OfCodes
<1>8. c \in DOMAIN codes /\ now <= codes[c].expiry /\ codes[c].expiry \in Nat /\ now \in Nat
  BY <1>2 DEF Valid, TypeOK, OfCodes, CodeRow
<1>9. TrueActing(act'[t], codes)
  <2>1. \A x \in DOMAIN act'[t].record.used : x \in DOMAIN codes /\ act'[t].record.used[x] = codes[x].expiry
    BY <1>2, <1>3, <1>6, <1>7, <1>8
  <2>2. QED BY <1>2, <1>8, <2>1 DEF TrueActing, TrueRecord
<1>10. RecordsTrue'
  BY <1>1, <1>4, <1>9 DEF UsesInv, RecordsTrue, Free
<1>11. ~Spent(c)
  BY <1>2, <1>6, <1>7, <1>8 DEF Spent, Past
<1>12. ASSUME overlap' # "records" PROVE Uses'
  <2>1. overlap # "records" /\ \A u \in limit.threads : ~Recording(u)
    BY <1>12 DEF Activate, Recording
  <2>2. Uses
    BY <2>1 DEF UsesInv
  <2>3. OneRecords' /\ InTmp'
    BY <1>1, <1>2, <1>4, <2>1, <2>2 DEF Uses, OneRecords, InTmp, Recording
  <2>4. NothingForgotten'
    <3>1. \A x \in DOMAIN disk.bg.used : x \in DOMAIN act'[t].record.used \/ Past(x)
      BY <1>2, <1>6, <1>7, <1>8 DEF Past
    <3>2. QED BY <1>1, <1>4, <2>1, <3>1 DEF NothingForgotten, Recording, Past
  <2>5. HonouredIsSpent'
    BY <1>1, <2>2 DEF Uses, HonouredIsSpent, Spent, Past
  <2>6. honoured[c] = 0
    BY <1>11, <2>2 DEF Uses, HonouredIsSpent, TypeOK
  <2>7. \A u \in limit.threads : u # t /\ Promised(u) => act[u].pc = "marked" /\ CodeOf(u) # c
    BY <1>11, <2>1, <2>2 DEF Uses, PromisedOnce, Promised, Recording
  <2>8. PromisedOnce'
    BY <1>1, <1>2, <1>4, <2>2, <2>6, <2>7 DEF Uses, PromisedOnce, Promised, CodeOf, Spent, Past
  <2>9. QED BY <2>3, <2>4, <2>5, <2>8 DEF Uses
<1>13. QED BY <1>10, <1>12 DEF UsesInv

\* A thread that writes its record, or can not.
LEMMA UsesWrite ==
  ASSUME TypeOK, UsesInv, NEW t \in limit.threads, WriteRecord(t)
  PROVE  UsesInv'
<1>1. UNCHANGED <<limit, now, codes, disk, honoured, overlap>> /\ act[t].pc = "read"
  BY DEF WriteRecord, control
<1>2. IsActing(act[t], limit.codes) /\ ~Free(t) /\ Recording(t)
  BY <1>1, ActsOn, TypeParts DEF Free, Recording
<1>3. PICK x : /\ act' = [act EXCEPT ![t] = x]
               /\ \/ x.pc = "written" /\ x.window = act[t].window /\ x.record = act[t].record /\ tmp' = x.record
                  \/ x = Idle /\ tmp' = tmp
  <2> DEFINE x == [act[t] EXCEPT !.pc = "written"]
  <2>1. x.pc = "written" /\ x.window = act[t].window /\ x.record = act[t].record
    BY <1>2, MovesOn
  <2>2. CASE tmp' = act[t].record /\ act' = [act EXCEPT ![t] = x]
    <3> HIDE DEF x
    <3>1. QED BY <2>1, <2>2
  <2>3. CASE act' = [act EXCEPT ![t] = Idle] /\ UNCHANGED tmp
    BY <2>3
  <2>4. QED BY <2>2, <2>3 DEF WriteRecord
<1>4. act'[t] = x /\ \A u \in limit.threads : u # t => act'[u] = act[u]
  BY <1>3 DEF TypeOK
<1>5. TrueActing(act[t], codes)
  BY <1>2 DEF UsesInv, RecordsTrue
<1>6. RecordsTrue'
  BY <1>1, <1>3, <1>4, <1>5 DEF UsesInv, RecordsTrue, TrueActing, Free, Idle
<1>7. ASSUME overlap' # "records" PROVE Uses'
  <2>1. Uses
    BY <1>1, <1>7 DEF UsesInv
  <2>2. \A u \in limit.threads : u # t => ~Recording(u)
    BY <1>2, <2>1 DEF Uses, OneRecords
  <2>3. act'[t].pc \in {"written", "idle"}
    BY <1>3, <1>4 DEF Idle
  <2>4. OneRecords' /\ InTmp'
    BY <1>1, <1>3, <1>4, <2>2, <2>3 DEF OneRecords, InTmp, Recording, Idle
  <2>5. NothingForgotten'
    BY <1>1, <1>2, <1>3, <1>4, <2>1 DEF Uses, NothingForgotten, Recording, Past, Idle
  <2>6. HonouredIsSpent'
    BY <1>1, <2>1 DEF Uses, HonouredIsSpent, Spent, Past
  <2>7. \A u \in limit.threads : Promised(u)' => Promised(u) /\ CodeOf(u)' = CodeOf(u) /\ (act'[u].pc = "marked" => u # t)
    BY <1>1, <1>3, <1>4 DEF Promised, CodeOf, Idle
  <2>8. PromisedOnce'
    BY <1>1, <1>4, <2>1, <2>7 DEF Uses, PromisedOnce, Spent, Past
  <2>9. QED BY <2>4, <2>5, <2>6, <2>8 DEF Uses
<1>8. QED BY <1>6, <1>7 DEF UsesInv

\* The record is replaced by one that lists all that is spent and not past.
LEMMA UsesRename ==
  ASSUME TypeOK, UsesInv, NEW t \in limit.threads, RenameRecord(t)
  PROVE  UsesInv'
<1>1. UNCHANGED <<limit, now, codes, honoured, overlap>> /\ act[t].pc = "written"
  BY DEF RenameRecord, control
<1>2. IsActing(act[t], limit.codes) /\ ~Free(t) /\ Recording(t)
  BY <1>1, ActsOn, TypeParts DEF Free, Recording
<1>3. TrueActing(act[t], codes)
  BY <1>2 DEF UsesInv, RecordsTrue
<1>4. PICK x : /\ act' = [act EXCEPT ![t] = x]
               /\ \/ x = Idle /\ tmp = None /\ UNCHANGED <<disk, tmp>>
                  \/ /\ x.pc = "marked" /\ x.window = act[t].window /\ x.record = act[t].record
                     /\ tmp # None /\ disk'.bg = tmp /\ tmp' = None
  <2> DEFINE x == [act[t] EXCEPT !.pc = "marked"]
  <2>1. x.pc = "marked" /\ x.window = act[t].window /\ x.record = act[t].record
    BY <1>2, MovesOn
  <2>2. CASE tmp # None /\ disk' = [disk EXCEPT !.bg = tmp] /\ tmp' = None /\ act' = [act EXCEPT ![t] = x]
    <3>1. disk'.bg = tmp
      BY <2>2 DEF TypeOK
    <3> HIDE DEF x
    <3>2. QED BY <2>1, <2>2, <3>1
  <2>3. CASE tmp = None /\ act' = [act EXCEPT ![t] = Idle] /\ UNCHANGED <<disk, tmp>>
    BY <2>3
  <2>4. QED BY <2>2, <2>3 DEF RenameRecord
<1>5. act'[t] = x /\ \A u \in limit.threads : u # t => act'[u] = act[u]
  BY <1>4 DEF TypeOK
<1>6. RecordsTrue'
  BY <1>1, <1>3, <1>4, <1>5 DEF UsesInv, RecordsTrue, TrueActing, Free, Idle
<1>7. ASSUME overlap' # "records" PROVE Uses'
  <2>1. Uses
    BY <1>1, <1>7 DEF UsesInv
  <2>2. \A u \in limit.threads : u # t => ~Recording(u)
    BY <1>2, <2>1 DEF Uses, OneRecords
  <2>3. act'[t].pc \in {"marked", "idle"}
    BY <1>4, <1>5 DEF Idle
  <2>4. OneRecords' /\ InTmp' /\ NothingForgotten'
    BY <1>1, <1>5, <2>2, <2>3 DEF OneRecords, InTmp, NothingForgotten, Recording
  <2>5. x.pc = "marked" => disk'.bg = act[t].record
    BY <1>1, <1>4, <2>1 DEF Uses, InTmp, Idle
  <2>6. \A c : Spent(c) => Spent(c)'
    <3>1. \A c \in DOMAIN disk.bg.used : c \in DOMAIN act[t].record.used \/ Past(c)
      BY <1>2, <2>1 DEF Uses, NothingForgotten
    <3>2. CASE x = Idle
      BY <1>1, <1>4, <3>2 DEF Spent, Past, Idle
    <3>3. CASE x.pc = "marked"
      BY <1>1, <2>5, <3>1, <3>3 DEF Spent, Past
    <3>4. QED BY <1>4, <3>2, <3>3
  <2>7. HonouredIsSpent'
    BY <1>1, <2>1, <2>6 DEF Uses, HonouredIsSpent
  <2>8. x.pc = "marked" => Spent(CodeOf(t))'
    BY <1>1, <1>3, <1>4, <1>5, <2>5 DEF TrueActing, TrueRecord, Spent, CodeOf, Idle
  <2>9. \A u \in limit.threads : Promised(u)' => Promised(u) /\ CodeOf(u)' = CodeOf(u)
    BY <1>1, <1>4, <1>5 DEF Promised, CodeOf, Idle
  <2>10. \A u \in limit.threads : act'[u].pc = "marked" => Spent(CodeOf(u))'
    <3>1. ASSUME NEW u \in limit.threads, u # t, act'[u].pc = "marked" PROVE Spent(CodeOf(u))'
      <4>1. Spent(CodeOf(u)) /\ CodeOf(u)' = CodeOf(u)
        BY <1>5, <2>1, <3>1 DEF Uses, PromisedOnce, Promised, CodeOf
      <4>2. PICK c : c = CodeOf(u)
        OBVIOUS
      <4>3. Spent(c)' /\ CodeOf(u)' = c
        BY <2>6, <4>1, <4>2
      <4>4. QED BY <4>3 DEF Spent, Past
    <3>2. QED BY <1>5, <2>8, <3>1
  <2>11. PromisedOnce'
    BY <1>1, <2>1, <2>9, <2>10 DEF Uses, PromisedOnce
  <2>12. QED BY <2>4, <2>7, <2>11 DEF Uses
<1>8. QED BY <1>6, <1>7 DEF UsesInv

\* The one thread that promises a code honours it.
LEMMA UsesOpen ==
  ASSUME TypeOK, UsesInv, NEW t \in limit.threads, OpenWindow(t)
  PROVE  UsesInv'
<1>1. UNCHANGED <<limit, now, codes, disk, tmp, overlap>> /\ act[t].pc = "marked"
  BY DEF OpenWindow, control
<1>2. IsActing(act[t], limit.codes) /\ ~Free(t) /\ Promised(t) /\ CodeOf(t) \in limit.codes
  BY <1>1, ActsOn, TypeParts DEF Free, Promised, CodeOf
<1>3. PICK x : /\ act' = [act EXCEPT ![t] = x]
               /\ x.pc = "open" /\ x.window = act[t].window /\ x.record = act[t].record
  <2> DEFINE x == [act[t] EXCEPT !.pc = "open"]
  <2>1. x.pc = "open" /\ x.window = act[t].window /\ x.record = act[t].record
    BY <1>2, MovesOn
  <2>2. act' = [act EXCEPT ![t] = x]
    BY DEF OpenWindow
  <2> HIDE DEF x
  <2>3. QED BY <2>1, <2>2
<1>4. act'[t] = x /\ \A u \in limit.threads : u # t => act'[u] = act[u]
  BY <1>3 DEF TypeOK
<1>5. RecordsTrue'
  BY <1>1, <1>2, <1>3, <1>4 DEF UsesInv, RecordsTrue, TrueActing, Free
<1>6. /\ honoured'[CodeOf(t)] = honoured[CodeOf(t)] + 1
      /\ \A c \in limit.codes : c # CodeOf(t) => honoured'[c] = honoured[c]
  BY <1>2 DEF OpenWindow, CodeOf, TypeOK
<1>7. ASSUME overlap' # "records" PROVE Uses'
  <2>1. Uses
    BY <1>1, <1>7 DEF UsesInv
  <2>2. OneRecords' /\ InTmp' /\ NothingForgotten'
    BY <1>1, <1>3, <1>4, <2>1 DEF Uses, OneRecords, InTmp, NothingForgotten, Recording, Past
  <2>3. honoured[CodeOf(t)] = 0 /\ Spent(CodeOf(t))
    BY <1>1, <1>2, <2>1 DEF Uses, PromisedOnce
  <2>4. \A c : Spent(c) => Spent(c)'
    BY <1>1 DEF Spent, Past
  <2>5. HonouredIsSpent'
    BY <1>1, <1>6, <2>1, <2>3, <2>4 DEF Uses, HonouredIsSpent
  <2>6. \A u \in limit.threads :
          Promised(u)' => u # t /\ Promised(u) /\ CodeOf(u)' = CodeOf(u) /\ act'[u].pc = act[u].pc
    BY <1>1, <1>3, <1>4 DEF Promised, CodeOf
  <2>7. \A u \in limit.threads : Promised(u)' => CodeOf(u) # CodeOf(t) /\ CodeOf(u) \in limit.codes
    <3>1. ASSUME NEW u \in limit.threads, Promised(u)' PROVE CodeOf(u) # CodeOf(t) /\ CodeOf(u) \in limit.codes
      <4>1. u # t /\ Promised(u)
        BY <2>6, <3>1
      <4>2. CodeOf(u) # CodeOf(t)
        BY <1>2, <2>1, <4>1 DEF Uses, PromisedOnce
      <4>3. CodeOf(u) \in limit.codes
        BY <4>1, ActsOn, TypeParts DEF Promised, Free, CodeOf
      <4>4. QED BY <4>2, <4>3
    <3>2. QED BY <3>1
  <2>8. PromisedOnce'
    BY <1>1, <1>6, <2>1, <2>6, <2>7 DEF Uses, PromisedOnce, Spent, Past
  <2>9. QED BY <2>2, <2>5, <2>8 DEF Uses
<1>8. QED BY <1>5, <1>7 DEF UsesInv

LEMMA UsesReport ==
  ASSUME TypeOK, UsesInv, NEW t \in limit.threads, ReportUse(t)
  PROVE  UsesInv'
<1>1. UNCHANGED <<limit, now, codes, disk, tmp, overlap, honoured>>
  BY DEF ReportUse, control
<1>2. act'[t] = Idle /\ \A u \in limit.threads : u # t => act'[u] = act[u]
  BY DEF ReportUse, TypeOK
<1>3. RecordsTrue'
  BY <1>1, <1>2 DEF UsesInv, RecordsTrue, Free, Idle
<1>4. ASSUME overlap' # "records" PROVE Uses'
  <2>1. Uses
    BY <1>1, <1>4 DEF UsesInv
  <2>2. OneRecords' /\ InTmp' /\ NothingForgotten' /\ HonouredIsSpent'
    BY <1>1, <1>2, <2>1 DEF Uses, OneRecords, InTmp, NothingForgotten, HonouredIsSpent, Recording, Spent, Past, Idle
  <2>3. PromisedOnce'
    BY <1>1, <1>2, <2>1 DEF Uses, PromisedOnce, Promised, CodeOf, Spent, Past, Idle
  <2>4. QED BY <2>2, <2>3 DEF Uses
<1>5. QED BY <1>3, <1>4 DEF UsesInv

\* Everything else leaves the record and the activations alone.
LEMMA OthersAreQuiet ==
  ASSUME TypeOK, [Next]_vars
  PROVE  \/ Quiet \/ Crash
         \/ \E t \in limit.threads : Activating(t) \/ \E c \in limit.codes : Activate(t, c)
<1>1. Extends(codes, codes)
  BY DEF Extends
<1>2. now \in Nat /\ now >= now
  BY DEF TypeOK
<1>3. ASSUME UNCHANGED <<limit, now, codes, disk, act, tmp, honoured, overlap>> PROVE Quiet
  BY <1>1, <1>2, <1>3 DEF Quiet
<1>4. CASE Enrolling \/ EnrollLost \/ Reenroll
  <2>1. CASE Enrolled
    <3>1. disk'.bg = disk.bg
      BY <2>1 DEF Enrolled, TypeOK
    <3>2. QED BY <1>1, <1>2, <2>1, <3>1 DEF Quiet, Enrolled, control, glass
  <2>2. CASE Ask \/ EnrollServed \/ Start \/ StartEnrolling \/ EnrollLost \/ Reenroll
    BY <1>3, <2>2 DEF Ask, EnrollServed, Start, StartEnrolling, EnrollLost, Reenroll, control, glass
  <2>3. QED BY <1>4, <2>1, <2>2 DEF Enrolling
<1>5. CASE Syncing \/ SyncFails
  <2>1. CASE Persist
    <3>1. disk'.bg = disk.bg
      BY <2>1 DEF Persist, TypeOK
    <3>2. QED BY <1>1, <1>2, <2>1, <3>1 DEF Quiet, Persist, control, glass
  <2>2. CASE Poll \/ ServePolicy \/ Accept \/ Beat \/ SyncFails \/ \E b \in beats : ServeBeat(b)
    BY <1>3, <2>2 DEF Poll, ServePolicy, Accept, Beat, SyncFails, ServeBeat, control, glass
  <2>3. QED BY <1>5, <2>1, <2>2 DEF Syncing
<1>6. CASE \/ \E kind \in Kinds : Publish(kind)
           \/ \E e \in DOMAIN eps : Revoke(e)
  BY <1>3, <1>6 DEF Publish, Revoke, glass
<1>7. ASSUME NEW c \in limit.codes, NEW for \in {All} \cup DOMAIN eps, NEW length \in 1 .. MaxWindow,
             IssueCode(c, for, length)
      PROVE  Quiet
  <2>1. Extends(codes, codes')
    BY <1>7 DEF IssueCode, Extends
  <2>2. QED BY <1>2, <1>7, <2>1 DEF Quiet, IssueCode, glass
<1>8. CASE TimerFires \/ Expire
  BY <1>3, <1>8 DEF TimerFires, Expire, control
<1>9. CASE (\E reports \in Batches : Post(reports)) \/ Commit \/ Answer \/ ServerStops
  BY <1>3, <1>9 DEF Post, Commit, Answer, ServerStops, glass
<1>10. CASE RecordUse
  <2>1. DOMAIN codes' = DOMAIN codes /\ \A c \in DOMAIN codes : codes'[c].expiry = codes[c].expiry
    <3>1. \A c \in DOMAIN codes : codes[c] \in CodeRow
      BY DEF TypeOK, OfCodes
    <3>2. QED BY <1>10, <3>1 DEF RecordUse, CodeRow
  <2>2. QED BY <1>2, <1>10, <2>1 DEF Quiet, RecordUse, Extends, glass
<1>11. CASE Tick
  BY <1>1, <1>11 DEF Tick, Quiet, TypeOK, control, glass
<1>12. CASE UNCHANGED vars
  BY <1>3, <1>12 DEF vars
<1>13. QED BY <1>4, <1>5, <1>6, <1>7, <1>8, <1>9, <1>10, <1>11, <1>12 DEF Next, Ingesting

LEMMA UsesNext == TypeOK /\ UsesInv /\ [Next]_vars => UsesInv'
<1> SUFFICES ASSUME TypeOK, UsesInv, [Next]_vars PROVE UsesInv'
  OBVIOUS
<1>1. QED BY OthersAreQuiet, UsesQuiet, UsesCrash, UsesActivate, UsesWrite, UsesRename, UsesOpen, UsesReport DEF Activating

\* A code is honoured once, however activations, crashes, restarts and new
\* enrollments interleave, as long as no two activations record at the same time.
THEOREM UsedOnce == Spec => []HonouredOnce
<1>1. TypeOK /\ UsesInv => HonouredOnce
  BY DEF TypeOK, UsesInv, Uses, HonouredIsSpent, HonouredOnce
<1>2. QED BY <1>1, TypedInit, TypedNext, UsesInit, UsesNext, PTL DEF Spec

-----------------------------------------------------------------------------
\* The window that is recorded and the window that is open.

\* No code ends later than a window may last, and a window can end no later than
\* its code.
InReach == \A c \in DOMAIN codes : codes[c].expiry <= now + MaxWindow

\* Requests are under way only while the daemon is in the phase that makes them.
Phases ==
  /\ sync.pc # "idle" => Running
  /\ enroll # 0 => phase = "enrolling"
  /\ \A t \in limit.threads : ~Free(t) => phase = "up"

OneAtATime == \A t, u \in limit.threads : ~Free(t) /\ ~Free(u) => t = u
Ready      == \A t \in limit.threads : act[t].pc # "marked"

\* Between the record and the engine's window lies one step: the thread that has
\* recorded its window and is about to open it.
MarkedIsRecorded == \A t \in limit.threads : act[t].pc = "marked" => disk.bg.active = act[t].window
RecordedIsOpen   == Running /\ Ready /\ ~early => (Restorable(disk.bg.active) => window = disk.bg.active)

Opens     == OneAtATime /\ MarkedIsRecorded /\ RecordedIsOpen
WindowInv == InReach /\ Phases /\ (overlap = "none" => Opens)

\* The engine's window stays as well, and the daemon runs as before or not at all.
Still ==
  /\ Quiet /\ UNCHANGED window /\ (early => early')
  /\ (Running' => Running)

LEMMA ReachInit == Init => InReach /\ Phases
BY DEF Init, InReach, Phases, Free, Idle

LEMMA ReachNext == TypeOK /\ InReach /\ [Next]_vars => InReach'
<1> SUFFICES ASSUME TypeOK, InReach, [Next]_vars PROVE InReach'
  OBVIOUS
<1>1. \A c \in DOMAIN codes : codes[c] \in CodeRow /\ codes[c].expiry \in Nat
  BY DEF TypeOK, OfCodes, CodeRow
<1>2. ASSUME NEW c \in limit.codes, NEW for \in {All} \cup DOMAIN eps, NEW length \in 1 .. MaxWindow,
             IssueCode(c, for, length)
      PROVE  InReach'
  <2>1. now' = now /\ DOMAIN codes' = DOMAIN codes \cup {c} /\ c \notin DOMAIN codes
    BY <1>2 DEF IssueCode
  <2>2. codes'[c].expiry = now + length
    BY <1>2 DEF IssueCode
  <2>3. \A x \in DOMAIN codes : codes'[x] = codes[x]
    BY <1>2 DEF IssueCode
  <2>4. now + length <= now + MaxWindow
    BY DEF TypeOK
  <2>5. QED BY <2>1, <2>2, <2>3, <2>4 DEF InReach
<1>3. CASE RecordUse
  <2>1. now' = now /\ DOMAIN codes' = DOMAIN codes /\ \A c \in DOMAIN codes : codes'[c].expiry = codes[c].expiry
    BY <1>1, <1>3 DEF RecordUse, CodeRow
  <2>2. QED BY <2>1 DEF InReach
<1>4. CASE Tick
  BY <1>1, <1>4 DEF Tick, InReach, TypeOK, control
<1>5. CASE UNCHANGED <<now, codes>>
  BY <1>5 DEF InReach
<1>6. CASE Enrolling \/ EnrollLost \/ Reenroll \/ Crash
  BY <1>5, <1>6 DEF Enrolling, Ask, EnrollServed, Enrolled, Start, StartEnrolling, EnrollLost, Reenroll, Crash, control
<1>7. CASE Syncing \/ SyncFails
  BY <1>5, <1>7 DEF Syncing, Poll, ServePolicy, Accept, Persist, Beat, SyncFails, ServeBeat, control
<1>8. CASE \/ \E kind \in Kinds : Publish(kind)
           \/ \E e \in DOMAIN eps : Revoke(e)
           \/ TimerFires \/ Expire
           \/ \E reports \in Batches : Post(reports)
           \/ Commit \/ Answer \/ ServerStops
  BY <1>5, <1>8 DEF Publish, Revoke, TimerFires, Expire, Post, Commit, Answer, ServerStops, control
<1>9. CASE \E t \in limit.threads : Activating(t) \/ \E c \in limit.codes : Activate(t, c)
  BY <1>5, <1>9 DEF Activating, Activate, WriteRecord, RenameRecord, OpenWindow, ReportUse, control
<1>10. CASE UNCHANGED vars
  BY <1>5, <1>10 DEF vars
<1>11. QED BY <1>2, <1>3, <1>4, <1>6, <1>7, <1>8, <1>9, <1>10 DEF Next, Ingesting

LEMMA PhasesNext == TypeOK /\ Phases /\ [Next]_vars => Phases'
<1> SUFFICES ASSUME TypeOK, Phases, [Next]_vars PROVE Phases'
  OBVIOUS
<1>1. CASE UNCHANGED <<limit, phase, sync, enroll, act>>
  BY <1>1 DEF Phases, Running, Free
<1>2. CASE Ask \/ EnrollServed \/ Enrolled \/ StartEnrolling \/ EnrollLost \/ Reenroll
  <2>1. (\A t \in limit.threads : Free(t)) /\ sync.pc = "idle"
    BY <1>2 DEF Phases, Running, Ask, EnrollServed, Enrolled, StartEnrolling, EnrollLost, Reenroll, Asked
  <2>2. UNCHANGED <<limit, sync, act>>
    BY <1>2 DEF Ask, EnrollServed, Enrolled, StartEnrolling, EnrollLost, Reenroll, glass, policy
  <2>3. enroll' # 0 => phase' = "enrolling"
    BY <1>2 DEF Phases, Ask, EnrollServed, Enrolled, StartEnrolling, EnrollLost, Reenroll, policy, Asked
  <2>4. QED BY <2>1, <2>2, <2>3 DEF Phases, Free
<1>3. CASE Start
  <2>1. (\A t \in limit.threads : Free(t)) /\ enroll = 0
    BY <1>3 DEF Phases, Start
  <2>2. UNCHANGED <<limit, sync, act, enroll>> /\ Running'
    BY <1>3 DEF Start, Running
  <2>3. QED BY <2>1, <2>2 DEF Phases, Free
<1>4. CASE Crash
  BY <1>4 DEF Crash, Phases, Free, Idle
<1>5. CASE Syncing \/ SyncFails
  <2>1. CASE Poll \/ ServePolicy \/ Accept \/ Persist \/ SyncFails \/ Beat
    <3>1. Running
      BY <2>1 DEF Phases, Running, Poll, ServePolicy, Accept, Persist, SyncFails, Beat
    <3>2. UNCHANGED <<limit, enroll, act>>
      BY <2>1 DEF Poll, ServePolicy, Accept, Persist, SyncFails, Beat, glass
    <3>3. phase' = phase \/ phase' = "up"
      BY <2>1 DEF Poll, ServePolicy, Accept, Persist, SyncFails, Beat
    <3>4. QED BY <3>1, <3>2, <3>3 DEF Phases, Running, Free
  <2>2. CASE \E b \in beats : ServeBeat(b)
    BY <1>1, <2>2 DEF ServeBeat, policy, glass
  <2>3. QED BY <1>5, <2>1, <2>2 DEF Syncing
<1>6. CASE \/ \E kind \in Kinds : Publish(kind)
           \/ \E e \in DOMAIN eps : Revoke(e)
           \/ \E c \in limit.codes, for \in {All} \cup DOMAIN eps, length \in 1 .. MaxWindow : IssueCode(c, for, length)
           \/ TimerFires \/ Expire \/ Tick
           \/ \E reports \in Batches : Post(reports)
           \/ Ingesting \/ ServerStops
  BY <1>1, <1>6 DEF Publish, Revoke, IssueCode, TimerFires, Expire, Tick, Post, Ingesting, Commit, RecordUse, Answer,
     ServerStops, policy, glass
<1>7. ASSUME NEW t \in limit.threads, Activating(t) \/ \E c \in limit.codes : Activate(t, c) PROVE Phases'
  <2>1. UNCHANGED <<limit, phase, sync, enroll>>
    BY <1>7 DEF Activating, Activate, WriteRecord, RenameRecord, OpenWindow, ReportUse, policy
  <2>2. phase = "up"
    BY <1>7 DEF Phases, Free, Activating, Activate, WriteRecord, RenameRecord, OpenWindow, ReportUse
  <2>3. QED BY <2>1, <2>2 DEF Phases, Running
<1>8. CASE UNCHANGED vars
  BY <1>1, <1>8 DEF vars
<1>9. QED BY <1>2, <1>3, <1>4, <1>5, <1>6, <1>7, <1>8 DEF Next, Enrolling

LEMMA OthersAreStill ==
  ASSUME TypeOK, Phases, [Next]_vars
  PROVE  \/ Still \/ Start \/ Crash \/ (Expire /\ Quiet)
         \/ \E t \in limit.threads : Activating(t) \/ \E c \in limit.codes : Activate(t, c)
<1> SUFFICES ASSUME Quiet, ~Start, ~Crash, ~Expire,
                    ~\E t \in limit.threads : Activating(t) \/ \E c \in limit.codes : Activate(t, c)
             PROVE  Still
  BY OthersAreQuiet
<1>1. CASE UNCHANGED <<window, early, phase>>
  <2>1. early => early'
    BY <1>1, Zenon
  <2>2. window' = window /\ (Running' => Running)
    BY <1>1, Zenon DEF Running
  <2>3. QED BY <2>1, <2>2, Zenon DEF Still
<1>2. CASE Ask \/ EnrollServed \/ Enrolled \/ StartEnrolling \/ EnrollLost \/ Reenroll
  <2>1. UNCHANGED <<window, early>>
    BY <1>2 DEF Ask, EnrollServed, Enrolled, StartEnrolling, EnrollLost, Reenroll, glass
  <2>2. Running' => Running
    BY <1>2 DEF Running, Ask, EnrollServed, Enrolled, StartEnrolling, EnrollLost, Reenroll
  <2>3. QED BY <2>1, <2>2 DEF Still
<1>3. CASE Syncing \/ SyncFails
  <2>1. CASE Poll \/ ServePolicy \/ Accept \/ Persist \/ SyncFails \/ Beat
    <3>1. Running
      BY <2>1 DEF Phases, Running, Poll, ServePolicy, Accept, Persist, SyncFails, Beat
    <3>2. UNCHANGED <<window, early>>
      BY <2>1 DEF Poll, ServePolicy, Accept, Persist, SyncFails, Beat, glass
    <3>3. QED BY <3>1, <3>2 DEF Still
  <2>2. CASE \E b \in beats : ServeBeat(b)
    BY <1>1, <2>2 DEF ServeBeat, policy, glass
  <2>3. QED BY <1>3, <2>1, <2>2 DEF Syncing
<1>4. CASE \/ \E kind \in Kinds : Publish(kind)
           \/ \E e \in DOMAIN eps : Revoke(e)
           \/ \E c \in limit.codes, for \in {All} \cup DOMAIN eps, length \in 1 .. MaxWindow : IssueCode(c, for, length)
           \/ TimerFires \/ Tick
           \/ \E reports \in Batches : Post(reports)
           \/ Ingesting \/ ServerStops
  BY <1>1, <1>4 DEF Publish, Revoke, IssueCode, TimerFires, Tick, Post, Ingesting, Commit, RecordUse, Answer, ServerStops, glass
<1>5. CASE UNCHANGED vars
  BY <1>1, <1>5 DEF vars
<1>6. QED BY <1>2, <1>3, <1>4, <1>5 DEF Next, Enrolling

\* A window that time has made restorable was restorable before.
LEMMA OpensStill ==
  ASSUME TypeOK, RecordsTrue, InReach, Opens, Still
  PROVE  Opens'
<1>1. OneAtATime' /\ MarkedIsRecorded'
  BY DEF Still, Quiet, Opens, OneAtATime, MarkedIsRecorded, Free
<1>2. ASSUME Restorable(disk.bg.active)' PROVE Restorable(disk.bg.active)
  <2> DEFINE w == disk.bg.active
  <2>1. w # None /\ now' < w.until /\ now' >= now /\ now' \in Nat /\ now \in Nat
    BY <1>2 DEF Restorable, Still, Quiet, TypeOK
  <2>2. w.until \in Nat
    BY <2>1 DEF TypeOK, IsRecord, WindowRow
  <2>3. w.until <= now + MaxWindow
    BY <2>1 DEF RecordsTrue, TrueRecord, InReach
  <2>4. QED BY <2>1, <2>2, <2>3 DEF Restorable
<1>3. RecordedIsOpen'
  BY <1>2 DEF Still, Quiet, Opens, RecordedIsOpen, Ready
<1>4. QED BY <1>1, <1>3 DEF Opens

\* A restart restores the window.
LEMMA OpensStart ==
  ASSUME TypeOK, Phases, Start
  PROVE  Opens'
<1>1. UNCHANGED <<limit, now, disk, act>> /\ \A t \in limit.threads : Free(t)
  BY DEF Phases, Start
<1>2. Restorable(disk.bg.active) => window' = disk.bg.active
  BY DEF Start, Restorable, SetBreakGlass
<1>3. OneAtATime' /\ MarkedIsRecorded'
  BY <1>1 DEF OneAtATime, MarkedIsRecorded, Free
<1>4. RecordedIsOpen'
  BY <1>1, <1>2 DEF RecordedIsOpen, Restorable
<1>5. QED BY <1>3, <1>4 DEF Opens

LEMMA OpensCrash == ASSUME Crash PROVE Opens'
BY DEF Crash, Opens, OneAtATime, MarkedIsRecorded, RecordedIsOpen, Running, Free, Idle

\* A late timer closes a window that has ended, or closes it early.
LEMMA OpensExpire ==
  ASSUME Opens, Expire
  PROVE  Opens'
<1>1. UNCHANGED <<limit, now, disk, phase, act>> /\ window' = None
  BY DEF Expire
<1>2. ~early' => ~early /\ (window = None \/ ~(now < window.until))
  <2>1. CASE window # None /\ now < window.until
    BY <2>1 DEF Expire
  <2>2. CASE ~(window # None /\ now < window.until)
    BY <2>2 DEF Expire
  <2>3. QED BY <2>1, <2>2
<1>3. OneAtATime' /\ MarkedIsRecorded'
  BY <1>1 DEF Opens, OneAtATime, MarkedIsRecorded, Free
<1>4. RecordedIsOpen'
  BY <1>1, <1>2 DEF Opens, RecordedIsOpen, Running, Ready, Restorable
<1>5. QED BY <1>3, <1>4 DEF Opens

LEMMA OpensActivate ==
  ASSUME TypeOK, overlap = "none" => Opens, NEW t \in limit.threads, NEW c \in limit.codes, Activate(t, c),
         overlap' = "none"
  PROVE  Opens'
<1>1. UNCHANGED <<limit, now, disk, phase, window, early>>
  BY DEF Activate
<1>2. \A u \in limit.threads : Free(u)
  BY DEF Activate
<1>3. Opens
  BY <1>2 DEF Activate
<1>4. act'[t].pc = "read"
  BY Begins
<1>5. \A u \in limit.threads : u # t => act'[u] = act[u]
  <2>1. PICK x : act' = [act EXCEPT ![t] = x]
    BY DEF Activate
  <2>2. QED BY <2>1 DEF TypeOK
<1>6. OneAtATime' /\ MarkedIsRecorded'
  BY <1>1, <1>2, <1>4, <1>5 DEF OneAtATime, MarkedIsRecorded, Free
<1>7. Ready
  BY <1>2 DEF Ready, Free
<1>8. RecordedIsOpen'
  BY <1>1, <1>3, <1>7 DEF Opens, RecordedIsOpen, Running, Restorable
<1>9. QED BY <1>6, <1>8 DEF Opens

\* What the one activation stores is what it opens next.
LEMMA OpensActivating ==
  ASSUME TypeOK, UsesInv, Opens, overlap = "none", NEW t \in limit.threads, Activating(t)
  PROVE  Opens'
<1>1. IsActing(act[t], limit.codes) /\ ~Free(t)
  BY ActsOn, TypeParts DEF Activating, WriteRecord, RenameRecord, OpenWindow, ReportUse, Free
<1>2. \A u \in limit.threads : u # t => Free(u)
  BY <1>1 DEF Opens, OneAtATime
<1>3. UNCHANGED <<limit, now, phase, early>>
  BY DEF Activating, WriteRecord, RenameRecord, OpenWindow, ReportUse
<1>4. PICK x : act' = [act EXCEPT ![t] = x]
  BY DEF Activating, WriteRecord, RenameRecord, OpenWindow, ReportUse
<1>5. act'[t] = x /\ \A u \in limit.threads : u # t => act'[u] = act[u] /\ act'[u].pc = "idle"
  BY <1>2, <1>4 DEF TypeOK, Free
<1>6. OneAtATime'
  BY <1>3, <1>5 DEF OneAtATime, Free
<1>7. InTmp /\ TrueActing(act[t], codes)
  BY <1>1 DEF UsesInv, Uses, RecordsTrue
<1>8. CASE WriteRecord(t)
  <2>1. act'[t].pc # "marked" /\ act[t].pc # "marked" /\ UNCHANGED <<disk, window>>
    <3>1. [act[t] EXCEPT !.pc = "written"].pc = "written"
      BY <1>1, MovesOn
    <3>2. act'[t] \in {[act[t] EXCEPT !.pc = "written"], Idle}
      BY <1>8 DEF WriteRecord, TypeOK
    <3>3. Idle.pc = "idle"
      BY DEF Idle
    <3>4. act[t].pc = "read" /\ UNCHANGED <<disk, window>>
      BY <1>8, Zenon DEF WriteRecord
    <3>5. QED BY <3>1, <3>2, <3>3, <3>4
  <2>2. Ready /\ Ready'
    BY <1>2, <1>3, <1>5, <2>1 DEF Ready, Free
  <2>3. QED BY <1>3, <1>6, <2>1, <2>2 DEF Opens, MarkedIsRecorded, RecordedIsOpen, Running, Ready, Restorable
<1>9. CASE RenameRecord(t)
  <2>1. act[t].pc = "written" /\ tmp = act[t].record /\ UNCHANGED window
    BY <1>7, <1>9 DEF RenameRecord, InTmp
  <2>2. Ready
    BY <1>2, <2>1 DEF Ready, Free
  <2>3. CASE tmp = None
    <3>1. act'[t].pc = "idle" /\ UNCHANGED disk
      BY <1>9, <2>3 DEF RenameRecord, TypeOK, Idle
    <3>2. Ready'
      BY <1>3, <1>5, <3>1 DEF Ready
    <3>3. QED BY <1>3, <1>6, <2>1, <2>2, <3>1, <3>2 DEF Opens, MarkedIsRecorded, RecordedIsOpen, Running, Ready, Restorable
  <2>4. CASE tmp # None
    <3>1. disk'.bg = act[t].record
      BY <1>9, <2>1, <2>4 DEF RenameRecord, TypeOK
    <3>2. act'[t].pc = "marked" /\ act'[t].window = act[t].window
      <4>1. act'[t] = [act[t] EXCEPT !.pc = "marked"]
        BY <1>9, <2>4 DEF RenameRecord, TypeOK
      <4>2. QED BY <1>1, <4>1, MovesOn
    <3>3. disk'.bg.active = act'[t].window
      BY <1>7, <3>1, <3>2 DEF TrueActing
    <3>4. MarkedIsRecorded' /\ ~Ready'
      BY <1>3, <1>5, <3>2, <3>3 DEF MarkedIsRecorded, Ready
    <3>5. QED BY <1>6, <3>4 DEF Opens, RecordedIsOpen
  <2>5. QED BY <2>3, <2>4
<1>10. CASE OpenWindow(t)
  <2>1. act[t].pc = "marked" /\ disk.bg.active = act[t].window /\ UNCHANGED disk
    BY <1>10 DEF OpenWindow, Opens, MarkedIsRecorded
  <2>2. Restorable(disk.bg.active) => window' = disk.bg.active
    BY <1>10, <2>1 DEF OpenWindow, SetBreakGlass, Restorable
  <2>3. act'[t].pc = "open"
    <3>1. act'[t] = [act[t] EXCEPT !.pc = "open"]
      BY <1>10 DEF OpenWindow, TypeOK
    <3>2. QED BY <1>1, <3>1, MovesOn
  <2>4. MarkedIsRecorded'
    BY <1>3, <1>5, <2>3 DEF MarkedIsRecorded
  <2>5. RecordedIsOpen'
    BY <1>3, <2>1, <2>2 DEF RecordedIsOpen, Restorable
  <2>6. QED BY <1>6, <2>4, <2>5 DEF Opens
<1>11. CASE ReportUse(t)
  <2>1. act'[t].pc = "idle" /\ act[t].pc = "open" /\ UNCHANGED <<disk, window>>
    BY <1>11 DEF ReportUse, TypeOK, Idle
  <2>2. Ready /\ Ready'
    BY <1>2, <1>3, <1>5, <2>1 DEF Ready, Free
  <2>3. QED BY <1>3, <1>6, <2>1, <2>2 DEF Opens, MarkedIsRecorded, RecordedIsOpen, Running, Ready, Restorable
<1>12. QED BY <1>8, <1>9, <1>10, <1>11 DEF Activating

LEMMA OpensNext ==
  ASSUME TypeOK, UsesInv, WindowInv, [Next]_vars, overlap' = "none"
  PROVE  Opens'
<1>1. InReach /\ Phases /\ RecordsTrue /\ (overlap = "none" => Opens)
  BY DEF WindowInv, UsesInv
<1>2. CASE Still
  <2>1. overlap = "none"
    BY <1>2 DEF Still, Quiet
  <2>2. QED BY <1>1, <1>2, <2>1, OpensStill
<1>3. CASE Start
  BY <1>1, <1>3, OpensStart
<1>4. CASE Crash
  BY <1>4, OpensCrash
<1>5. CASE Expire
  <2>1. overlap = "none"
    BY <1>5 DEF Expire
  <2>2. QED BY <1>1, <1>5, <2>1, OpensExpire
<1>6. ASSUME NEW t \in limit.threads, Activating(t) PROVE Opens'
  <2>1. overlap = "none"
    BY <1>6 DEF Activating, WriteRecord, RenameRecord, OpenWindow, ReportUse
  <2>2. QED BY <1>1, <1>6, <2>1, OpensActivating
<1>7. ASSUME NEW t \in limit.threads, NEW c \in limit.codes, Activate(t, c) PROVE Opens'
  BY <1>1, <1>7, OpensActivate
<1>8. QED BY <1>1, <1>2, <1>3, <1>4, <1>5, <1>6, <1>7, OthersAreStill

LEMMA WindowInit == Init => WindowInv
<1>1. Init => Opens
  BY DEF Init, Opens, OneAtATime, MarkedIsRecorded, RecordedIsOpen, Running, Free, Idle
<1>2. QED BY <1>1, ReachInit DEF WindowInv

LEMMA WindowNext == TypeOK /\ UsesInv /\ WindowInv /\ [Next]_vars => WindowInv'
BY ReachNext, PhasesNext, OpensNext DEF WindowInv

\* A window recorded is open while the daemon runs, over crashes and restarts,
\* until it ends; unless two activations met or a late timer closed it early.
THEOREM WindowStays == Spec => []WindowKept
<1>1. WindowInv => WindowKept
  BY DEF WindowInv, Opens, RecordedIsOpen, Running, Ready, Free, WindowKept
<1>2. QED BY <1>1, TypedInit, TypedNext, UsesInit, UsesNext, WindowInit, WindowNext, PTL DEF Spec
=============================================================================
