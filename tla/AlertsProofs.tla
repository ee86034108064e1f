----------------------------- MODULE AlertsProofs -----------------------------
(***************************************************************************)
(* Theorems about Alerts, for any instances, limits, thresholds and        *)
(* cooldowns: types, AnnouncedAsMarked and NoFalseTamper.                  *)
(***************************************************************************)
EXTENDS Alerts, SequenceTheorems, TLAPS

USE AlertsAssumption, LimitsAssumption, WebhooksAssumption

-----------------------------------------------------------------------------
\* Types.

LEMMA UpNat == ASSUME NEW n \in Nat, NEW cap \in Nat PROVE Up(n, cap) \in Nat
BY DEF Up

LEMMA DownNat == ASSUME NEW n \in Nat PROVE Down(n) \in Nat
BY DEF Down

LEMMA IsSeq ==
  ASSUME NEW S, NEW n \in Nat, NEW f \in [1 .. n -> S]
  PROVE  f \in Seq(S) /\ Len(f) = n /\ DOMAIN f = 1 .. n
<1>1. f \in Seq(S)
  BY SeqDef
<1>2. QED BY <1>1, LenProperties

LEMMA ReplaceSeq ==
  ASSUME NEW S, NEW q \in Seq(S), NEW d \in DOMAIN q, NEW e \in S
  PROVE  /\ [q EXCEPT ![d] = e] \in Seq(S) /\ Len([q EXCEPT ![d] = e]) = Len(q)
         /\ DOMAIN [q EXCEPT ![d] = e] = DOMAIN q
OBVIOUS

\* What emit appends is new rows with their counts.
LEMMA EmitTyped ==
  ASSUME QueueTypeOK, NEW kinds \in Seq(EventKinds), Emit(kinds)
  PROVE  /\ deliveries' \in Seq(DeliveryRow) /\ received' \in Seq(Nat) /\ Len(received') = Len(deliveries')
         /\ DOMAIN deliveries \subseteq DOMAIN deliveries'
<1> DEFINE rows == IF webhook THEN [n \in 1 .. Len(kinds) |-> Row(kinds[n])] ELSE <<>>
           counts == [n \in DOMAIN rows |-> 0]
<1>1. rows \in Seq(DeliveryRow)
  <2>1. \A n \in 1 .. Len(kinds) : Row(kinds[n]) \in DeliveryRow
    BY DEF Row, DeliveryRow
  <2>2. [n \in 1 .. Len(kinds) |-> Row(kinds[n])] \in Seq(DeliveryRow)
    BY <2>1, IsSeq
  <2>3. QED BY <2>2
<1>2. counts \in Seq(Nat) /\ Len(counts) = Len(rows)
  <2> HIDE DEF rows
  <2>1. DOMAIN rows = 1 .. Len(rows) /\ Len(rows) \in Nat
    BY <1>1
  <2>2. QED BY <2>1, IsSeq
<1>3. deliveries' = deliveries \o rows /\ received' = received \o counts
  BY DEF Emit
<1> HIDE DEF rows, counts
<1>4. deliveries \o rows \in Seq(DeliveryRow) /\ Len(deliveries \o rows) = Len(deliveries) + Len(rows)
  BY <1>1, ConcatProperties DEF QueueTypeOK
<1>5. received \o counts \in Seq(Nat) /\ Len(received \o counts) = Len(received) + Len(counts)
  BY <1>2, ConcatProperties DEF QueueTypeOK
<1>6. DOMAIN deliveries \subseteq DOMAIN (deliveries \o rows)
  BY <1>1, <1>4, LenProperties DEF QueueTypeOK
<1>7. QED BY <1>2, <1>3, <1>4, <1>5, <1>6 DEF QueueTypeOK

LEMMA EmitQueue ==
  ASSUME QueueTypeOK, NEW kinds \in Seq(EventKinds), Emit(kinds), UNCHANGED <<faults, webhook, sending>>
  PROVE  QueueTypeOK'
<1>1. PICK ds, rs : ds = deliveries' /\ rs = received'
  OBVIOUS
<1>2. ds \in Seq(DeliveryRow) /\ rs \in Seq(Nat) /\ Len(rs) = Len(ds) /\ DOMAIN deliveries \subseteq DOMAIN ds
  BY <1>1, EmitTyped
<1>3. QED BY <1>1, <1>2 DEF QueueTypeOK

\* One more fault, or none.
LEMMA FaultTyped ==
  ASSUME faults \in Nat, Fault \/ UNCHANGED faults
  PROVE  faults' \in Nat
BY DEF Fault

LEMMA RowChange ==
  ASSUME QueueTypeOK, NEW f \in [DOMAIN deliveries -> DeliveryRow], deliveries' = f
  PROVE  /\ deliveries' \in Seq(DeliveryRow) /\ Len(deliveries') = Len(deliveries)
         /\ DOMAIN deliveries' = DOMAIN deliveries
<1>1. Len(deliveries) \in Nat /\ DOMAIN deliveries = 1 .. Len(deliveries)
  BY DEF QueueTypeOK
<1>2. QED BY <1>1, IsSeq

LEMMA TypeDeleteWebhook ==
  ASSUME QueueTypeOK, DeleteWebhook
  PROVE  QueueTypeOK'
<1> DEFINE f == [d \in DOMAIN deliveries |-> [deliveries[d] EXCEPT !.state = "gone"]]
<1>1. f \in [DOMAIN deliveries -> DeliveryRow]
  <2>1. \A d \in DOMAIN deliveries : deliveries[d] \in DeliveryRow
    BY DEF QueueTypeOK
  <2>2. \A x \in DeliveryRow : [x EXCEPT !.state = "gone"] \in DeliveryRow
    BY DEF DeliveryRow
  <2>3. QED BY <2>1, <2>2
<1>2. deliveries' = f /\ webhook' = FALSE /\ UNCHANGED <<faults, sending, received>>
  BY DEF DeleteWebhook
<1> HIDE DEF f
<1>3. QED BY <1>1, <1>2, RowChange DEF QueueTypeOK

LEMMA TypeClaim ==
  ASSUME QueueTypeOK, NEW i \in Instances, Claim(i)
  PROVE  QueueTypeOK'
<1> DEFINE f == [d \in DOMAIN deliveries |-> IF d \in Due THEN [deliveries[d] EXCEPT !.due = Lease] ELSE deliveries[d]]
<1>0. \A d \in DOMAIN deliveries : deliveries[d] \in DeliveryRow
  BY DEF QueueTypeOK
<1>1. f \in [DOMAIN deliveries -> DeliveryRow]
  <2>1. \A x \in DeliveryRow : [x EXCEPT !.due = Lease] \in DeliveryRow
    BY DEF DeliveryRow
  <2>2. QED BY <1>0, <2>1
<1>2. Claims(i) \subseteq AttemptRow /\ \A s \in Claims(i) : s.id \in DOMAIN deliveries
  <2>1. \A d \in DOMAIN deliveries : deliveries[d].attempts \in Nat /\ d \in Nat
    BY <1>0 DEF DeliveryRow, QueueTypeOK
  <2>2. QED BY <2>1 DEF Claims, Due, AttemptRow
<1>3. deliveries' = f /\ sending' = sending \cup Claims(i) /\ UNCHANGED <<faults, webhook, received>>
  BY DEF Claim
<1> HIDE DEF f
<1>4. QED BY <1>1, <1>2, <1>3, RowChange DEF QueueTypeOK

LEMMA TypeSend ==
  ASSUME QueueTypeOK, NEW s \in sending, Send(s)
  PROVE  QueueTypeOK'
<1>0. PICK result \in {"ok", "refused", "retry"} :
        /\ sending' = (sending \ {s}) \cup {[s EXCEPT !.result = result]}
        /\ \/ received' = received \/ received' = [received EXCEPT ![s.id] = @ + 1]
        /\ Fault \/ UNCHANGED faults
  BY DEF Send
<1>1. [s EXCEPT !.result = result] \in AttemptRow /\ [s EXCEPT !.result = result].id = s.id
  BY DEF QueueTypeOK, AttemptRow
<1>2. received' \in Seq(Nat) /\ Len(received') = Len(received)
  <2>1. s.id \in DOMAIN received /\ received[s.id] + 1 \in Nat /\ received \in Seq(Nat)
    BY DEF QueueTypeOK
  <2>2. CASE received' = [received EXCEPT ![s.id] = @ + 1]
    <3> DEFINE n == received[s.id] + 1
    <3>1. n \in Nat /\ received' = [received EXCEPT ![s.id] = n]
      BY <2>1, <2>2
    <3> HIDE DEF n
    <3>2. QED BY <2>1, <3>1, ReplaceSeq
  <2>3. QED BY <1>0, <2>1, <2>2
<1>3. UNCHANGED <<webhook, deliveries>> /\ faults' \in Nat
  BY <1>0, FaultTyped DEF Send, QueueTypeOK
<1>4. QED BY <1>0, <1>1, <1>2, <1>3 DEF QueueTypeOK

LEMMA TypeFinish ==
  ASSUME QueueTypeOK, NEW s \in sending, Finish(s)
  PROVE  QueueTypeOK'
<1> DEFINE y == Recorded(deliveries[s.id], s)
<1>1. deliveries[s.id] \in DeliveryRow
  BY DEF QueueTypeOK
<1>2. Result(s) \in {"pending", "delivered", "failed"}
  BY DEF Result
<1>3. y \in DeliveryRow
  <2>1. \A r \in DeliveryRow : Recorded(r, s) \in DeliveryRow
    <3>1. PICK due \in Nat : due = IF Result(s) = "pending" THEN Wait ELSE 0
      OBVIOUS
    <3>2. PICK state \in {"pending", "delivered", "failed"} : state = Result(s)
      BY <1>2
    <3>3. \A r \in DeliveryRow, n \in Nat : [r EXCEPT !.state = state, !.attempts = n, !.due = due] \in DeliveryRow
      BY DEF DeliveryRow
    <3>4. \A r \in DeliveryRow : r.attempts + 1 \in Nat
      BY DEF DeliveryRow
    <3>5. QED BY <3>1, <3>2, <3>3, <3>4 DEF Recorded
  <2>2. QED BY <1>1, <2>1
<1>4. deliveries' = deliveries \/ deliveries' = [deliveries EXCEPT ![s.id] = y]
  BY DEF Finish
<1>5. UNCHANGED <<faults, webhook, received>> /\ sending' = sending \ {s}
  BY DEF Finish
<1> HIDE DEF y
<1>6. deliveries' \in Seq(DeliveryRow) /\ Len(deliveries') = Len(deliveries) /\ DOMAIN deliveries' = DOMAIN deliveries
  <2>1. s.id \in DOMAIN deliveries /\ deliveries \in Seq(DeliveryRow)
    BY DEF QueueTypeOK
  <2>2. CASE deliveries' = [deliveries EXCEPT ![s.id] = y]
    BY <1>3, <2>1, <2>2, ReplaceSeq
  <2>3. QED BY <1>4, <2>1, <2>2
<1>7. QED BY <1>5, <1>6 DEF QueueTypeOK

LEMMA TypeQueueTick ==
  ASSUME QueueTypeOK, QueueTick, UNCHANGED <<webhook, received>>
  PROVE  QueueTypeOK'
<1> DEFINE f == [d \in DOMAIN deliveries |-> [deliveries[d] EXCEPT !.due = Down(@)]]
<1>1. f \in [DOMAIN deliveries -> DeliveryRow]
  <2>1. \A d \in DOMAIN deliveries : deliveries[d] \in DeliveryRow
    BY DEF QueueTypeOK
  <2>2. \A x \in DeliveryRow : [x EXCEPT !.due = Down(@)] \in DeliveryRow
    BY DownNat DEF DeliveryRow
  <2>3. QED BY <2>1, <2>2
<1>2. \A s \in sending : [s EXCEPT !.left = Down(@)] \in AttemptRow /\ [s EXCEPT !.left = Down(@)].id = s.id
  BY DownNat DEF AttemptRow, QueueTypeOK
<1>3. deliveries' = f /\ sending' = {[s EXCEPT !.left = Down(@)] : s \in sending} /\ faults' \in Nat
  BY FaultTyped DEF QueueTick, QueueTypeOK
<1> HIDE DEF f
<1>4. QED BY <1>1, <1>2, <1>3, RowChange DEF QueueTypeOK

LEMMA QueueSame ==
  ASSUME QueueTypeOK, UNCHANGED queue, Fault \/ UNCHANGED faults
  PROVE  QueueTypeOK'
<1>1. faults' \in Nat
  BY FaultTyped DEF QueueTypeOK
<1>2. QED BY <1>1 DEF QueueTypeOK, queue

MachineOK ==
  /\ moves \in Nat /\ power \in {"on", "asleep", "off"} /\ daemon \in {"up", "closing", "down"} /\ run \in Nat
  /\ marker \in {"none", "boot", "old"} /\ outbox \subseteq EventRow /\ beats \subseteq BeatRow
  /\ hook \in HookState /\ acked \in HookState
RowOK ==
  /\ seen \in Nat /\ offline \in BOOLEAN /\ heard \in BOOLEAN
  /\ stop \in StopRow \cup {None} /\ report \in ReportRow \cup {None} /\ cooling \in [Kinds -> Nat]
ServerOK ==
  detector \in [limit.instances -> PassRow] /\ lock \in limit.instances \cup {0} /\ notices \subseteq NoticeRow
HistoryOK ==
  /\ last \in {"online", "offline"} /\ cut \in BOOLEAN /\ lost \in BOOLEAN
  /\ ends \in Seq(Endings) /\ latest \in Nat /\ recorded \subseteq Nat
  /\ alarms \subseteq AlarmRow

LEMMA Parts ==
  TypeOK <=> limit \in Limits /\ QueueTypeOK /\ MachineOK /\ RowOK /\ ServerOK /\ HistoryOK
BY DEF TypeOK, MachineOK, RowOK, ServerOK, HistoryOK

LEMMA PartsNext ==
  TypeOK' <=> limit' \in Limits /\ QueueTypeOK' /\ MachineOK' /\ RowOK' /\ ServerOK' /\ HistoryOK'
BY DEF TypeOK, MachineOK, RowOK, ServerOK, HistoryOK

\* The parts an action leaves alone keep their types.
LEMMA PartsSame ==
  ASSUME TypeOK
  PROVE  /\ UNCHANGED <<limit, server>> => limit' \in Limits /\ ServerOK'
         /\ UNCHANGED machine /\ UNCHANGED moves => MachineOK'
         /\ UNCHANGED row => RowOK'
         /\ UNCHANGED history => HistoryOK'
<1>1. UNCHANGED <<limit, server>> => limit' \in Limits /\ ServerOK'
  BY Parts DEF ServerOK, server
<1>2. UNCHANGED machine /\ UNCHANGED moves => MachineOK'
  BY Parts DEF MachineOK, machine
<1>3. UNCHANGED row => RowOK'
  BY Parts DEF RowOK, row
<1>4. UNCHANGED history => HistoryOK'
  BY Parts DEF HistoryOK, history
<1>5. QED BY <1>1, <1>2, <1>3, <1>4

LEMMA EndsReplace ==
  ASSUME HistoryOK
  PROVE  /\ \A e \in Endings : [ends EXCEPT ![run] = e] \in Seq(Endings)
         /\ [ends EXCEPT ![run] = ends[run]] \in Seq(Endings)
<1>0. Len(ends) \in Nat /\ ends \in [1 .. Len(ends) -> Endings]
  BY DEF HistoryOK
<1>1. ASSUME NEW e \in Endings PROVE [ends EXCEPT ![run] = e] \in Seq(Endings)
  <2>1. [ends EXCEPT ![run] = e] \in [1 .. Len(ends) -> Endings]
    BY <1>0
  <2>2. QED BY <1>0, <2>1, IsSeq
<1>2. CASE run \in DOMAIN ends
  <2>1. ends[run] \in Endings
    BY <1>2 DEF HistoryOK
  <2>2. QED BY <1>1, <2>1
<1>3. CASE run \notin DOMAIN ends
  <2>1. [ends EXCEPT ![run] = ends[run]] \in [1 .. Len(ends) -> Endings]
    BY <1>0, <1>3
  <2>2. [ends EXCEPT ![run] = ends[run]] \in Seq(Endings)
    BY <1>0, <2>1, IsSeq
  <2>3. QED BY <1>1, <2>2
<1>4. QED BY <1>2, <1>3

\* What the machine does by itself.
LEMMA LivingTyped ==
  ASSUME MachineOK, HistoryOK, Living
  PROVE  MachineOK' /\ HistoryOK'
<1>1. CASE Start
  <2> DEFINE e == [kind |-> "unclean", run |-> run, shutdown |-> IF marker = "old" THEN "system" ELSE "no", age |-> 0]
  <2>1. e \in EventRow
    BY DEF EventRow, Ways, MachineOK
  <2>2. outbox' \subseteq EventRow /\ run' \in Nat
    BY <1>1, <2>1 DEF Start, MachineOK
  <2>3. ends' \in Seq(Endings)
    BY <1>1 DEF Start, HistoryOK, Endings
  <2>4. QED BY <1>1, <2>2, <2>3 DEF Start, MachineOK, HistoryOK, HookState
<1>2. ASSUME NEW shutdown \in {"system", "no", "unknown"}, Stop(shutdown) PROVE MachineOK' /\ HistoryOK'
  <2>1. [kind |-> "stop", run |-> run, shutdown |-> shutdown, age |-> 0] \in EventRow
    BY DEF EventRow, Ways, MachineOK
  <2>2. ends' \in Seq(Endings)
    BY <1>2, EndsReplace DEF Stop, Endings, Ways
  <2>3. QED BY <1>2, <2>1, <2>2 DEF Stop, Move, MachineOK, HistoryOK
<1>3. CASE Exit
  BY <1>3 DEF Exit, MachineOK, HistoryOK, history
<1>4. CASE Kill
  <2>1. ends' \in Seq(Endings)
    <3>1. CASE ends[run] = "runs"
      BY <1>4, <3>1, EndsReplace DEF Kill, Endings
    <3>2. CASE ends[run] # "runs"
      BY <1>4, <3>2, EndsReplace DEF Kill, HistoryOK
    <3>3. QED BY <3>1, <3>2
  <2>2. QED BY <1>4, <2>1 DEF Kill, Move, MachineOK, HistoryOK
<1>5. CASE PowerOff
  <2>1. ends' \in Seq(Endings)
    BY <1>5, EndsReplace DEF PowerOff, HistoryOK, Endings
  <2>2. QED BY <1>5, <2>1 DEF PowerOff, Move, MachineOK, HistoryOK
<1>6. CASE Boot
  BY <1>6 DEF Boot, MachineOK, HistoryOK, history
<1>7. CASE Sleep
  BY <1>7 DEF Sleep, Move, MachineOK, HistoryOK, history
<1>8. CASE Wake
  BY <1>8 DEF Wake, MachineOK, HistoryOK, history
<1>9. CASE TouchHook
  BY <1>9 DEF TouchHook, Move, MachineOK, HistoryOK, history, HookState
<1>10. QED BY <1>1, <1>2, <1>3, <1>4, <1>5, <1>6, <1>7, <1>8, <1>9 DEF Living

LEMMA TypeLiving ==
  ASSUME TypeOK, Living
  PROVE  TypeOK'
<1>1. UNCHANGED <<limit, faults, queue, row, server>>
  BY DEF Living, Start, Stop, Exit, Kill, PowerOff, Boot, Sleep, Wake, TouchHook
<1>2. QED BY <1>1, LivingTyped, QueueSame, Parts, PartsNext, PartsSame

LEMMA TypeBeat ==
  ASSUME TypeOK, Beat
  PROVE  TypeOK'
<1>1. UNCHANGED <<limit, faults, moves, queue, row, server, history>>
  BY DEF Beat
<1>2. MachineOK'
  <2>1. [run |-> run, hook |-> IF hook = acked THEN "same" ELSE hook, waiting |-> TRUE] \in BeatRow
    BY Parts DEF MachineOK, BeatRow
  <2>2. QED BY <2>1, Parts DEF MachineOK, Beat
<1>3. QED BY <1>1, <1>2, QueueSame, Parts, PartsNext, PartsSame

LEMMA TypeBeatTimesOut ==
  ASSUME TypeOK, NEW b \in beats, BeatTimesOut(b)
  PROVE  TypeOK'
<1>1. UNCHANGED <<limit, moves, queue, row, server>> /\ (Fault \/ UNCHANGED faults)
  BY DEF BeatTimesOut
<1>2. MachineOK'
  <2>1. [b EXCEPT !.waiting = FALSE] \in BeatRow
    BY Parts DEF MachineOK, BeatRow
  <2>2. QED BY <2>1, Parts DEF MachineOK, BeatTimesOut
<1>3. HistoryOK'
  BY Parts DEF HistoryOK, BeatTimesOut
<1>4. QED BY <1>1, <1>2, <1>3, QueueSame, Parts, PartsNext, PartsSame

LEMMA HearTyped ==
  ASSUME TypeOK, NEW r \in Nat, NEW s \in StopRow \cup {None}, Hear(r, s)
  PROVE  seen' \in Nat /\ heard' \in BOOLEAN /\ stop' \in StopRow \cup {None} /\ latest' \in Nat
<1>1. Heard(s) \in StopRow \cup {None}
  <2>1. \A t \in StopRow : [t EXCEPT !.gap = t.age] \in StopRow
    BY DEF StopRow
  <2>2. QED BY <2>1 DEF Heard
<1>2. QED BY <1>1, Parts DEF Hear, HistoryOK

LEMMA NoticesTyped ==
  ASSUME TypeOK, NEW i \in limit.instances, NEW r \in Nat, NEW what \in {"hooks", "unclean"},
         notices' = notices \/ notices' = notices \cup {[by |-> i, what |-> what, run |-> r]}
  PROVE  notices' \subseteq NoticeRow
<1>1. [by |-> i, what |-> what, run |-> r] \in NoticeRow
  BY Parts DEF NoticeRow
<1>2. QED BY <1>1, Parts DEF ServerOK

LEMMA TypeServeBeat ==
  ASSUME TypeOK, NEW i \in limit.instances, NEW b \in beats, ServeBeat(b, i)
  PROVE  TypeOK'
<1> DEFINE now == [hook |-> b.hook, expected |-> b.hook = "ok" \/ (report # None /\ report.expected)]
<1>0. b \in BeatRow /\ b.run \in Nat /\ b.hook \in HookState \cup {"same"}
  BY Parts DEF MachineOK, BeatRow
<1>1. MachineOK'
  BY <1>0, Parts DEF MachineOK, ServeBeat
<1>2. RowOK' /\ HistoryOK'
  <2>1. Hear(b.run, stop) /\ stop \in StopRow \cup {None}
    BY Parts DEF ServeBeat, RowOK
  <2>2. report' \in ReportRow \cup {None}
    <3>1. b.hook # "same" => now \in ReportRow
      BY <1>0 DEF ReportRow
    <3>2. report' = report \/ (b.hook # "same" /\ report' = now)
      BY DEF ServeBeat
    <3> HIDE DEF now
    <3>3. QED BY <3>1, <3>2, Parts DEF RowOK
  <2>3. UNCHANGED <<offline, cooling, last, cut, lost, ends, recorded, alarms>>
    BY DEF ServeBeat
  <2>4. QED BY <1>0, <2>1, <2>2, <2>3, HearTyped, Parts DEF RowOK, HistoryOK
<1>3. ServerOK'
  <2>1. notices' = notices \/ notices' = notices \cup {[by |-> i, what |-> "hooks", run |-> b.run]}
    BY DEF ServeBeat
  <2>2. UNCHANGED <<limit, detector, lock>>
    BY DEF ServeBeat
  <2>3. QED BY <1>0, <2>1, <2>2, NoticesTyped, Parts DEF ServerOK
<1>4. UNCHANGED <<limit, faults, queue>>
  BY DEF ServeBeat
<1>5. QED BY <1>1, <1>2, <1>3, <1>4, QueueSame, Parts, PartsNext

LEMMA TypeSendEvent ==
  ASSUME TypeOK, NEW i \in limit.instances, NEW e \in outbox, SendEvent(e, i)
  PROVE  TypeOK'
<1>0. e \in EventRow /\ e.run \in Nat /\ e.shutdown \in Ways /\ e.age \in Nat
  BY Parts DEF MachineOK, EventRow
<1>1. MachineOK'
  BY Parts DEF MachineOK, SendEvent
<1>2. RowOK' /\ HistoryOK'
  <2>1. Newest(e) \in StopRow \cup {None} /\ stop \in StopRow \cup {None}
    BY <1>0, Parts DEF RowOK, Newest, StopRow
  <2>2. (Hear(run, Newest(e)) \/ Hear(run, stop)) /\ run \in Nat
    BY Parts DEF SendEvent, MachineOK
  <2>3. recorded' \subseteq Nat
    BY <1>0, Parts DEF SendEvent, HistoryOK
  <2>4. UNCHANGED <<offline, report, cooling, last, cut, lost, ends, alarms>>
    BY DEF SendEvent
  <2>5. seen' \in Nat /\ heard' \in BOOLEAN /\ stop' \in StopRow \cup {None} /\ latest' \in Nat
    BY <2>1, <2>2, HearTyped
  <2>6. QED BY <2>3, <2>4, <2>5, Parts DEF RowOK, HistoryOK
<1>3. ServerOK'
  <2>1. notices' = notices \/ notices' = notices \cup {[by |-> i, what |-> "unclean", run |-> e.run]}
    BY DEF SendEvent
  <2>2. UNCHANGED <<limit, detector, lock>>
    BY DEF SendEvent
  <2>3. QED BY <1>0, <2>1, <2>2, NoticesTyped, Parts DEF ServerOK
<1>4. UNCHANGED <<limit, faults, queue>>
  BY DEF SendEvent
<1>5. QED BY <1>1, <1>2, <1>3, <1>4, QueueSame, Parts, PartsNext

LEMMA TamperTyped ==
  ASSUME TypeOK, NEW kind \in Kinds, NEW alarm \in AlarmRow, Tamper(kind, alarm)
  PROVE  cooling' \in [Kinds -> Nat] /\ alarms' \subseteq AlarmRow
BY Parts DEF Tamper, RowOK, HistoryOK

LEMMA Emitted ==
  /\ <<"tamper">> \in Seq(EventKinds) /\ <<"hooks">> \in Seq(EventKinds) /\ <<>> \in Seq(EventKinds)
  /\ <<"offline", "tamper">> \in Seq(EventKinds) /\ <<"offline">> \in Seq(EventKinds) /\ <<"online">> \in Seq(EventKinds)
  /\ <<"other">> \in Seq(EventKinds)
BY DEF EventKinds

LEMMA TypeAnnounce ==
  ASSUME TypeOK, NEW n \in notices, Announce(n)
  PROVE  TypeOK'
<1> DEFINE alarm == [kind |-> "unclean", run |-> n.run, of |-> n.run, known |-> TRUE]
<1>1. alarm \in AlarmRow
  BY Parts DEF ServerOK, NoticeRow, AlarmRow, Kinds
<1>2. UNCHANGED <<limit, faults, webhook, sending, machine, moves>>
  BY DEF Announce
<1>3. QueueTypeOK'
  <2>1. \E kinds \in Seq(EventKinds) : Emit(kinds)
    BY Emitted DEF Announce
  <2>2. QED BY <1>2, <2>1, EmitQueue, Parts
<1>4. cooling' \in [Kinds -> Nat] /\ alarms' \subseteq AlarmRow
  <2>1. Tamper("unclean", alarm) \/ UNCHANGED <<cooling, alarms>>
    BY DEF Announce
  <2> HIDE DEF alarm
  <2>2. QED BY <1>1, <2>1, TamperTyped, Parts DEF RowOK, HistoryOK, Kinds
<1>5. RowOK' /\ HistoryOK'
  BY <1>4, Parts DEF Announce, RowOK, HistoryOK
<1>6. ServerOK'
  BY Parts DEF Announce, ServerOK
<1>7. QED BY <1>2, <1>3, <1>5, <1>6, Parts, PartsNext, PartsSame

LEMMA PassTyped ==
  ASSUME TypeOK, NEW i \in limit.instances
  PROVE  /\ detector[i] \in PassRow /\ detector[i].pc \in {"idle", "locked", "offline", "half", "online", "done"}
         /\ detector[i].pc = "offline" => detector[i].told \in ToldRow
         /\ detector[i].pc # "offline" =>
              \A pc \in {"idle", "locked", "half", "online", "done"} : [detector[i] EXCEPT !.pc = pc] \in PassRow
<1>1. detector[i] \in PassRow
  BY Parts DEF ServerOK
<1>2. QED BY <1>1 DEF PassRow

\* A pass goes on.
LEMMA PassesTyped ==
  ASSUME TypeOK, NEW i \in limit.instances, NEW p \in PassRow, detector' = [detector EXCEPT ![i] = p],
         lock' \in {lock, i, 0}, UNCHANGED <<limit, notices>>
  PROVE  ServerOK' /\ limit' \in Limits
BY Parts DEF ServerOK

LEMMA TypeTakeLock ==
  ASSUME TypeOK, NEW i \in limit.instances, TakeLock(i)
  PROVE  TypeOK'
<1>1. PICK p : p = [detector[i] EXCEPT !.pc = "locked"]
  OBVIOUS
<1>2. p \in PassRow
  BY <1>1, PassTyped DEF TakeLock
<1>3. detector' = [detector EXCEPT ![i] = p] /\ lock' = i /\ UNCHANGED <<limit, faults, moves, queue, machine, row, notices, history>>
  BY <1>1 DEF TakeLock
<1>4. QED BY <1>2, <1>3, PassesTyped, QueueSame, Parts, PartsNext, PartsSame

LEMMA TypeMarkOffline ==
  ASSUME TypeOK, NEW i \in limit.instances, MarkOffline(i)
  PROVE  TypeOK'
<1> DEFINE alarm == [kind |-> "stopped", run |-> latest, of |-> IF stop = None THEN 0 ELSE stop.run, known |-> latest \in recorded]
           told  == [shutdown |-> IF Deliberate THEN stop.shutdown ELSE "silent", alarm |-> alarm]
<1>1. alarm \in AlarmRow
  <2>1. (IF stop = None THEN 0 ELSE stop.run) \in Nat
    BY Parts DEF RowOK, StopRow
  <2>2. latest \in Nat /\ (latest \in recorded) \in BOOLEAN
    BY Parts DEF HistoryOK
  <2>3. QED BY <2>1, <2>2 DEF AlarmRow, Kinds
<1>2. told \in ToldRow
  <2>1. (IF Deliberate THEN stop.shutdown ELSE "silent") \in Ways \cup {"silent"}
    BY Parts DEF RowOK, StopRow, Deliberate
  <2> HIDE DEF alarm
  <2>2. QED BY <1>1, <2>1 DEF ToldRow
<1>3. PICK p \in PassRow : detector' = [detector EXCEPT ![i] = p]
  <2>1. CASE Silent
    <3> HIDE DEF told
    <3>1. [pc |-> "offline", told |-> told] \in PassRow
      BY <1>2 DEF PassRow
    <3>2. detector' = [detector EXCEPT ![i] = [pc |-> "offline", told |-> told]]
      BY <2>1 DEF MarkOffline, told
    <3>3. QED BY <3>1, <3>2
  <2>2. CASE ~Silent
    BY <2>2, PassTyped DEF MarkOffline
  <2>3. QED BY <2>1, <2>2
<1>4. offline' \in BOOLEAN /\ heard' \in BOOLEAN
  BY Parts DEF MarkOffline, RowOK
<1>5. UNCHANGED <<limit, faults, moves, queue, machine, seen, stop, report, cooling, lock, notices, history>>
  BY DEF MarkOffline
<1>6. RowOK'
  BY <1>4, <1>5, Parts DEF RowOK
<1>7. ServerOK' /\ limit' \in Limits
  BY <1>3, <1>5, PassesTyped
<1>8. QED BY <1>5, <1>6, <1>7, QueueSame, Parts, PartsNext, PartsSame

LEMMA TypeAnnounceOffline ==
  ASSUME TypeOK, NEW i \in limit.instances, AnnounceOffline(i)
  PROVE  TypeOK'
<1>1. [pc |-> "half", told |-> None] \in PassRow
  BY DEF PassRow
<1>2. UNCHANGED <<limit, faults, moves, webhook, sending, machine, seen, offline, heard, stop, report, lock, notices, cut, lost,
                  ends, latest, recorded>>
  BY DEF AnnounceOffline
<1>3. QueueTypeOK'
  <2>1. \E kinds \in Seq(EventKinds) : Emit(kinds)
    BY Emitted DEF AnnounceOffline
  <2>2. QED BY <1>2, <2>1, EmitQueue, Parts
<1>4. cooling' \in [Kinds -> Nat] /\ alarms' \subseteq AlarmRow
  <2>1. CASE detector[i].told.shutdown = "no"
    <3>1. detector[i].told \in ToldRow
      BY PassTyped DEF AnnounceOffline
    <3>2. detector[i].told.alarm \in AlarmRow
      BY <3>1 DEF ToldRow
    <3>3. Tamper("stopped", detector[i].told.alarm) /\ "stopped" \in Kinds
      BY <2>1 DEF AnnounceOffline, Kinds
    <3>4. QED BY <3>2, <3>3, TamperTyped
  <2>2. CASE detector[i].told.shutdown # "no"
    BY <2>2, Parts DEF AnnounceOffline, RowOK, HistoryOK
  <2>3. QED BY <2>1, <2>2
<1>5. RowOK' /\ HistoryOK'
  BY <1>2, <1>4, Parts DEF AnnounceOffline, RowOK, HistoryOK
<1>6. ServerOK' /\ limit' \in Limits
  BY <1>1, <1>2, PassesTyped DEF AnnounceOffline
<1>7. QED BY <1>2, <1>3, <1>5, <1>6, Parts, PartsNext, PartsSame

LEMMA TypeMarkOnline ==
  ASSUME TypeOK, NEW i \in limit.instances, MarkOnline(i)
  PROVE  TypeOK'
<1>1. PICK pc \in {"online", "done"} : detector' = [detector EXCEPT ![i].pc = pc]
  BY DEF MarkOnline
<1>2. PICK p : p = [detector[i] EXCEPT !.pc = pc]
  OBVIOUS
<1>3. p \in PassRow
  BY <1>2, PassTyped DEF MarkOnline
<1>4. offline' \in BOOLEAN
  BY Parts DEF MarkOnline, RowOK
<1>5. UNCHANGED <<limit, faults, moves, queue, machine, seen, heard, stop, report, cooling, lock, notices, history>>
  BY DEF MarkOnline
<1>6. RowOK'
  BY <1>4, <1>5, Parts DEF RowOK
<1>7. ServerOK' /\ limit' \in Limits
  BY <1>1, <1>2, <1>3, <1>5, PassesTyped
<1>8. QED BY <1>5, <1>6, <1>7, QueueSame, Parts, PartsNext, PartsSame

LEMMA TypeAnnounceOnline ==
  ASSUME TypeOK, NEW i \in limit.instances, AnnounceOnline(i)
  PROVE  TypeOK'
<1>1. PICK p : p = [detector[i] EXCEPT !.pc = "done"]
  OBVIOUS
<1>2. p \in PassRow
  BY <1>1, PassTyped DEF AnnounceOnline
<1>3. UNCHANGED <<limit, faults, moves, webhook, sending, machine, row, lock, notices, cut, lost, ends, latest, recorded, alarms>>
  BY DEF AnnounceOnline
<1>4. QueueTypeOK'
  <2>1. Emit(<<"online">>)
    BY DEF AnnounceOnline
  <2>2. QED BY <1>3, <2>1, Emitted, EmitQueue, Parts
<1>5. HistoryOK'
  BY <1>3, Parts DEF AnnounceOnline, HistoryOK
<1>6. ServerOK' /\ limit' \in Limits
  BY <1>1, <1>2, <1>3, PassesTyped DEF AnnounceOnline
<1>7. QED BY <1>3, <1>4, <1>5, <1>6, Parts, PartsNext, PartsSame

LEMMA TypeRelease ==
  ASSUME TypeOK, NEW i \in limit.instances, Release(i)
  PROVE  TypeOK'
<1>1. Rest \in PassRow
  BY DEF Rest, PassRow
<1>2. detector' = [detector EXCEPT ![i] = Rest] /\ lock' \in {lock, 0}
      /\ UNCHANGED <<limit, faults, moves, queue, machine, row, notices, history>>
  BY DEF Release
<1>3. QED BY <1>1, <1>2, PassesTyped, QueueSame, Parts, PartsNext, PartsSame

LEMMA TypeLoseLock ==
  ASSUME TypeOK, LoseLock
  PROVE  TypeOK'
<1>1. UNCHANGED <<limit, moves, queue, machine, row>> /\ Fault
  BY DEF LoseLock
<1>2. ServerOK' /\ HistoryOK'
  BY Parts DEF LoseLock, ServerOK, HistoryOK
<1>3. QED BY <1>1, <1>2, QueueSame, Parts, PartsNext, PartsSame

LEMMA TypeCrash ==
  ASSUME TypeOK, NEW i \in limit.instances, Crash(i)
  PROVE  TypeOK'
<1>1. UNCHANGED <<limit, moves, webhook, deliveries, received, machine, row>> /\ faults' \in Nat /\ sending' \subseteq sending
  BY FaultTyped, Parts DEF Crash, QueueTypeOK
<1>2. QueueTypeOK'
  BY <1>1, Parts DEF QueueTypeOK
<1>3. ServerOK'
  <2>1. Rest \in PassRow
    BY DEF Rest, PassRow
  <2>2. detector' = [detector EXCEPT ![i] = Rest] /\ lock' \in {lock, 0} /\ notices' \subseteq notices
    BY DEF Crash
  <2>3. QED BY <1>1, <2>1, <2>2, Parts DEF ServerOK
<1>4. HistoryOK'
  <2>1. cut' \in BOOLEAN
    BY Parts DEF Crash, HistoryOK
  <2>2. QED BY <2>1, Parts DEF Crash, HistoryOK
<1>5. QED BY <1>1, <1>2, <1>3, <1>4, Parts, PartsNext, PartsSame

LEMMA TypeEmitOther ==
  ASSUME TypeOK, EmitOther
  PROVE  TypeOK'
<1>1. UNCHANGED <<limit, faults, moves, webhook, sending, machine, row, server, history>> /\ Emit(<<"other">>)
  BY DEF EmitOther
<1>2. QueueTypeOK'
  BY <1>1, Emitted, EmitQueue, Parts
<1>3. QED BY <1>1, <1>2, Parts, PartsNext, PartsSame

LEMMA TypeQueueing ==
  ASSUME TypeOK, Queueing
  PROVE  TypeOK'
<1>1. UNCHANGED <<limit, moves, machine, row, server, history>>
  BY DEF Queueing, DeleteWebhook, Delivering, Claim, Send, Finish
<1>2. limit.instances \subseteq Instances
  BY Parts
<1>3. QueueTypeOK'
  BY <1>2, TypeDeleteWebhook, TypeClaim, TypeSend, TypeFinish, Parts DEF Queueing, Delivering
<1>4. QED BY <1>1, <1>3, Parts, PartsNext, PartsSame

LEMMA TypeTick ==
  ASSUME TypeOK, Tick
  PROVE  TypeOK'
<1>1. UNCHANGED <<limit, moves, webhook, received, power, daemon, run, marker, hook, acked, beats, offline, heard, report, server, history>>
  BY DEF Tick
<1>2. QueueTypeOK'
  BY <1>1, TypeQueueTick, Parts DEF Tick
<1>3. MachineOK'
  <2>1. \A e \in outbox : [e EXCEPT !.age = Up(@, Slack + 1)] \in EventRow
    BY UpNat, Parts DEF MachineOK, EventRow
  <2>2. outbox' \subseteq EventRow
    BY <2>1 DEF Tick
  <2>3. QED BY <1>1, <2>2, Parts DEF MachineOK
<1>4. RowOK'
  <2>1. seen' \in Nat
    BY UpNat, Parts DEF RowOK, Tick
  <2>2. stop' \in StopRow \cup {None}
    <3>1. \A s \in StopRow : [s EXCEPT !.age = Up(@, Slack + 1)] \in StopRow
      BY UpNat DEF StopRow
    <3>2. QED BY <3>1, Parts DEF RowOK, Tick
  <2>3. cooling' \in [Kinds -> Nat]
    BY DownNat, Parts DEF RowOK, Tick
  <2>4. QED BY <1>1, <2>1, <2>2, <2>3, Parts DEF RowOK
<1>5. QED BY <1>1, <1>2, <1>3, <1>4, Parts, PartsNext, PartsSame

LEMMA TypedNext ==
  ASSUME TypeOK, [Next]_vars
  PROVE  TypeOK'
<1>1. CASE Living \/ Beat \/ (\E b \in beats : BeatTimesOut(b)) \/ Serving
  BY <1>1, TypeLiving, TypeBeat, TypeBeatTimesOut, TypeServeBeat DEF Serving
<1>2. CASE \E i \in limit.instances : (\E e \in outbox : SendEvent(e, i)) \/ Detecting(i) \/ Crash(i)
  BY <1>2, TypeSendEvent, TypeTakeLock, TypeMarkOffline, TypeAnnounceOffline, TypeMarkOnline, TypeAnnounceOnline, TypeRelease,
     TypeCrash DEF Detecting
<1>3. CASE (\E n \in notices : Announce(n)) \/ LoseLock \/ EmitOther \/ Queueing \/ Tick
  BY <1>3, TypeAnnounce, TypeLoseLock, TypeEmitOther, TypeQueueing, TypeTick
<1>4. CASE UNCHANGED vars
  <2>1. UNCHANGED <<limit, faults, moves, queue, machine, row, server, history>>
    BY <1>4 DEF vars, queue, machine, row, server, history
  <2>2. QED BY <2>1, QueueSame, Parts, PartsNext, PartsSame
<1>5. QED BY <1>1, <1>2, <1>3, <1>4 DEF Next

LEMMA TypedInit == Init => TypeOK
<1>1. SUFFICES ASSUME Init PROVE TypeOK
  OBVIOUS
<1>2. limit \in Limits /\ limit.hooks \subseteq HookState /\ limit.webhook \in BOOLEAN
  BY <1>1 DEF Init, HookState
<1>3. QueueTypeOK
  BY <1>1, <1>2 DEF Init, QueueTypeOK
<1>4. MachineOK /\ RowOK
  BY <1>1, <1>2 DEF Init, MachineOK, RowOK, HookState
<1>5. ServerOK
  BY <1>1 DEF Init, ServerOK, Rest, PassRow
<1>6. HistoryOK
  <2>1. ends = <<>> /\ latest = 0 /\ recorded = {} /\ alarms = {} /\ last = "online" /\ cut = FALSE /\ lost = FALSE
    BY <1>1 DEF Init
  <2>2. cut \in BOOLEAN /\ lost \in BOOLEAN
    BY <2>1
  <2>3. ends \in Seq(Endings)
    BY <2>1
  <2>4. QED BY <2>1, <2>2, <2>3 DEF HistoryOK
<1>7. QED BY <1>2, <1>3, <1>4, <1>5, <1>6, Parts

\* The machine's, the control plane's and the queue's state keep their types.
THEOREM TypeCorrect == Spec => []TypeOK
<1>1. QED BY TypedInit, TypedNext, PTL DEF Spec

-----------------------------------------------------------------------------
\* A pass that keeps its lock is alone; the mark and the announcement made last
\* differ only while the pass that changed the mark has not told.
Telling == {"offline", "online"}

Alone  == \A i \in limit.instances : detector[i].pc # "idle" => lock = i
Marked == IF offline THEN "offline" ELSE "online"
Told   ==
  /\ (\A i \in limit.instances : detector[i].pc \notin Telling) => last = Marked
  /\ \A i \in limit.instances : detector[i].pc = "offline" => Marked = "offline" /\ last = "online"
  /\ \A i \in limit.instances : detector[i].pc = "online" => Marked = "online" /\ last = "offline"

MarksInv == TypeOK /\ (~cut => Alone /\ Told)

\* Steps of the machine, the requests and the queue touch neither.
Marks == <<limit, detector, lock, offline, last, cut>>

LEMMA MarksSame ==
  ASSUME MarksInv, UNCHANGED Marks
  PROVE  (~cut => Alone /\ Told)'
<1>1. Marked' = Marked
  BY DEF Marks, Marked
<1>2. UNCHANGED <<limit, detector, lock, last, cut>>
  BY DEF Marks
<1>3. QED BY <1>1, <1>2 DEF MarksInv, Alone, Told

LEMMA OthersLeaveMarks ==
  ASSUME [Next]_vars, ~\E i \in limit.instances : Detecting(i) \/ Crash(i), ~LoseLock
  PROVE  UNCHANGED Marks
<1>1. CASE Living
  BY <1>1 DEF Living, Start, Stop, Exit, Kill, PowerOff, Boot, Sleep, Wake, TouchHook, row, server, history, Marks
<1>2. CASE Beat \/ (\E b \in beats : BeatTimesOut(b)) \/ Serving
  BY <1>2 DEF Beat, BeatTimesOut, Serving, ServeBeat, row, server, history, Marks
<1>3. CASE \E i \in limit.instances : \E e \in outbox : SendEvent(e, i)
  BY <1>3 DEF SendEvent, Marks
<1>4. CASE (\E n \in notices : Announce(n)) \/ EmitOther
  BY <1>4 DEF Announce, EmitOther, row, server, history, Marks
<1>5. CASE Queueing
  BY <1>5 DEF Queueing, DeleteWebhook, Delivering, Claim, Send, Finish, row, server, history, Marks
<1>6. CASE Tick
  BY <1>6 DEF Tick, server, history, Marks
<1>7. CASE UNCHANGED vars
  BY <1>7 DEF vars, Marks
<1>8. QED BY <1>1, <1>2, <1>3, <1>4, <1>5, <1>6, <1>7 DEF Next

\* A step of one pass.
LEMMA OnePass ==
  ASSUME TypeOK, NEW i \in limit.instances, NEW p, detector' = [detector EXCEPT ![i] = p]
  PROVE  detector'[i] = p /\ \A j \in limit.instances : j # i => detector'[j] = detector[j]
BY Parts DEF ServerOK

LEMMA Distinct ==
  ASSUME TypeOK
  PROVE  0 \notin limit.instances
BY Parts

LEMMA DetectingMarks ==
  ASSUME MarksInv, NEW i \in limit.instances, Detecting(i), ~cut'
  PROVE  Alone' /\ Told'
<1>0. TypeOK /\ Alone /\ Told /\ limit' = limit
  BY DEF MarksInv, Detecting, TakeLock, MarkOffline, AnnounceOffline, MarkOnline, AnnounceOnline, Release, history
<1>1. CASE TakeLock(i)
  <2>1. PICK p : p = [detector[i] EXCEPT !.pc = "locked"]
    OBVIOUS
  <2>2. p.pc = "locked" /\ detector' = [detector EXCEPT ![i] = p] /\ lock' = i /\ lock = 0
    BY <1>0, <1>1, <2>1, PassTyped DEF TakeLock, PassRow
  <2>3. \A j \in limit.instances : detector[j].pc = "idle"
    BY <1>0, <2>2, Distinct DEF Alone
  <2>4. UNCHANGED <<Marked, last>>
    BY <1>1 DEF TakeLock, row, history, Marked
  <2>5. QED BY <1>0, <2>2, <2>3, <2>4, OnePass DEF Alone, Told, Telling
<1>2. ASSUME detector[i].pc # "idle" PROVE lock = i /\ \A j \in limit.instances : j # i => detector[j].pc = "idle"
  BY <1>0, <1>2 DEF Alone
\* A step by which pass i, alone, goes on.
<1>3. ASSUME detector[i].pc # "idle", NEW p, detector' = [detector EXCEPT ![i] = p],
             lock' = lock \/ p.pc = "idle",
             p.pc \notin Telling => last' = Marked',
             p.pc = "offline" => Marked' = "offline" /\ last' = "online",
             p.pc = "online" => Marked' = "online" /\ last' = "offline"
      PROVE  Alone' /\ Told'
  <2>1. detector'[i] = p /\ \A j \in limit.instances : j # i => detector'[j].pc = "idle"
    BY <1>0, <1>2, <1>3, OnePass
  <2>2. Alone'
    BY <1>0, <1>2, <1>3, <2>1 DEF Alone
  <2>3. Told'
    BY <1>0, <1>3, <2>1 DEF Told, Telling
  <2>4. QED BY <2>2, <2>3
<1>4. ASSUME detector[i].pc \in {"locked", "half", "done"} PROVE last = Marked
  BY <1>0, <1>2, <1>4 DEF Told, Telling
<1>5. CASE MarkOffline(i)
  <2>1. lock' = lock /\ last' = last /\ detector[i].pc = "locked"
    BY <1>5 DEF MarkOffline, history
  <2>2. CASE Silent
    <3>1. PICK told : detector' = [detector EXCEPT ![i] = [pc |-> "offline", told |-> told]] /\ offline' = TRUE
      BY <1>5, <2>2 DEF MarkOffline
    <3>2. PICK p : p = [pc |-> "offline", told |-> told]
      OBVIOUS
    <3>3. p.pc = "offline" /\ detector' = [detector EXCEPT ![i] = p]
      BY <3>1, <3>2
    <3>4. Marked = "online" /\ Marked' = "offline"
      BY <2>2, <3>1 DEF Silent, Marked
    <3>5. QED BY <1>3, <1>4, <2>1, <3>3, <3>4 DEF Telling
  <2>3. CASE ~Silent
    <3>1. PICK p : p = [detector[i] EXCEPT !.pc = "half"]
      OBVIOUS
    <3>2. p.pc = "half" /\ detector' = [detector EXCEPT ![i] = p] /\ offline' = offline
      BY <1>0, <1>5, <2>3, <3>1, PassTyped DEF PassRow, MarkOffline
    <3>3. Marked' = Marked
      BY <3>2 DEF Marked
    <3>4. QED BY <1>3, <1>4, <2>1, <3>2, <3>3 DEF Telling
  <2>4. QED BY <2>2, <2>3
<1>6. CASE AnnounceOffline(i)
  <2>1. lock' = lock /\ last' = "offline" /\ offline' = offline /\ detector[i].pc = "offline"
    BY <1>6 DEF AnnounceOffline
  <2>2. Marked = "offline" /\ Marked' = Marked
    <3>1. Marked' = Marked
      BY <2>1 DEF Marked
    <3>2. QED BY <1>0, <2>1, <3>1 DEF Told
  <2>3. PICK p : p = [pc |-> "half", told |-> None]
    OBVIOUS
  <2>4. p.pc = "half" /\ detector' = [detector EXCEPT ![i] = p]
    BY <1>6, <2>3 DEF AnnounceOffline
  <2>5. QED BY <1>3, <2>1, <2>2, <2>4 DEF Telling
<1>7. CASE MarkOnline(i)
  <2>1. lock' = lock /\ last' = last /\ detector[i].pc = "half"
    BY <1>7 DEF MarkOnline, history
  <2>2. PICK pc : pc = (IF offline /\ heard THEN "online" ELSE "done") /\ detector' = [detector EXCEPT ![i].pc = pc]
    BY <1>7 DEF MarkOnline
  <2>3. PICK p : p = [detector[i] EXCEPT !.pc = pc]
    OBVIOUS
  <2>4. p.pc = pc /\ detector' = [detector EXCEPT ![i] = p]
    BY <1>0, <2>2, <2>3, PassTyped DEF PassRow
  <2>5. (pc = "online" /\ Marked = "offline" /\ Marked' = "online") \/ (pc = "done" /\ Marked' = Marked)
    <3>1. offline' = (offline /\ ~heard)
      BY <1>7 DEF MarkOnline
    <3>2. QED BY <2>2, <3>1 DEF Marked
  <2>6. QED BY <1>3, <1>4, <2>1, <2>4, <2>5 DEF Telling
<1>8. CASE AnnounceOnline(i)
  <2>1. lock' = lock /\ last' = "online" /\ offline' = offline /\ detector[i].pc = "online"
    BY <1>8 DEF AnnounceOnline, row
  <2>2. Marked = "online" /\ Marked' = Marked
    <3>1. Marked' = Marked
      BY <2>1 DEF Marked
    <3>2. QED BY <1>0, <2>1, <3>1 DEF Told
  <2>3. PICK p : p = [detector[i] EXCEPT !.pc = "done"]
    OBVIOUS
  <2>4. detector' = [detector EXCEPT ![i] = p] /\ p.pc = "done"
    BY <1>0, <1>8, <2>3, PassTyped DEF AnnounceOnline, PassRow
  <2>5. QED BY <1>3, <2>1, <2>2, <2>4 DEF Telling
<1>9. CASE Release(i)
  <2>1. UNCHANGED <<last, Marked>> /\ detector[i].pc = "done"
    BY <1>9 DEF Release, row, history, Marked
  <2>2. detector' = [detector EXCEPT ![i] = Rest] /\ Rest.pc = "idle"
    BY <1>9 DEF Release, Rest
  <2>3. QED BY <1>3, <1>4, <2>1, <2>2 DEF Telling
<1>10. QED BY <1>1, <1>5, <1>6, <1>7, <1>8, <1>9 DEF Detecting

LEMMA CrashMarks ==
  ASSUME MarksInv, NEW i \in limit.instances, Crash(i), ~cut'
  PROVE  Alone' /\ Told'
<1>1. TypeOK /\ ~cut /\ detector[i].pc = "idle"
  BY DEF MarksInv, Crash
<1>2. Alone /\ Told /\ UNCHANGED <<limit, Marked, last>>
  BY <1>1 DEF MarksInv, Crash, row, Marked
<1>3. detector' = [detector EXCEPT ![i] = Rest] /\ Rest.pc = "idle" /\ lock' = IF lock = i THEN 0 ELSE lock
  BY DEF Crash, Rest
<1>4. QED BY <1>1, <1>2, <1>3, OnePass DEF Alone, Told, Telling

LEMMA MarksNext ==
  ASSUME MarksInv, [Next]_vars
  PROVE  MarksInv'
<1>1. TypeOK'
  BY TypedNext DEF MarksInv
<1>2. (~cut => Alone /\ Told)'
  <2>1. CASE \E i \in limit.instances : Detecting(i) \/ Crash(i)
    BY <2>1, DetectingMarks, CrashMarks
  <2>2. CASE LoseLock
    BY <2>2 DEF LoseLock
  <2>3. CASE ~(\E i \in limit.instances : Detecting(i) \/ Crash(i)) /\ ~LoseLock
    BY <2>3, OthersLeaveMarks, MarksSame
  <2>4. QED BY <2>1, <2>2, <2>3
<1>3. QED BY <1>1, <1>2 DEF MarksInv

LEMMA MarksInit == Init => MarksInv
<1>1. SUFFICES ASSUME Init PROVE MarksInv
  OBVIOUS
<1>2. \A i \in limit.instances : detector[i].pc = "idle"
  BY <1>1 DEF Init, Rest
<1>3. last = "online" /\ Marked = "online"
  BY <1>1 DEF Init, Marked
<1>4. QED BY <1>1, <1>2, <1>3, TypedInit DEF MarksInv, Alone, Told, Telling

\* Each silence and each return is announced, once and in order: at rest the
\* announcement made last says what the mark says, unless a pass stopped half way
\* or lost its lock.
THEOREM TellsTheMark == Spec => []AnnouncedAsMarked
<1>1. MarksInv => AnnouncedAsMarked
  BY DEF MarksInv, Told, Telling, Marked, AnnouncedAsMarked
<1>2. QED BY <1>1, MarksInit, MarksNext, PTL DEF Spec

-----------------------------------------------------------------------------
\* How runs end, and what of it is on its way to an alert.
Runs == 1 .. run

\* ends tells of every run how it ended, but for the one under way.
EndsTold == /\ Len(ends) = run
            /\ daemon # "down" => run > 0
            /\ daemon = "up" => ends[run] = "runs"
            /\ \A r \in Runs : ends[r] = "runs" => r = run /\ daemon = "up"

\* A marker that is found on this boot is not of a run that lost power.
MarkerTold == /\ marker # "none" => run > 0
              /\ run > 0 /\ ends[run] = "power" => power = "off" \/ marker # "boot"

Ended(r) == r \in Runs /\ ends[r] \notin {"runs", "power"}

\* A stop that was sent is the end of its run, a restart tells of a run that was
\* cut short.
EventsTrue  == \A e \in outbox : /\ e.kind = "stop" => e.run \in Runs /\ ends[e.run] = e.shutdown
                                 /\ e.kind = "unclean" /\ e.shutdown = "no" => Ended(e.run)
NoticesTrue == \A n \in notices : n.what = "unclean" => Ended(n.run)

\* The row has the newest of the stops recorded, and no later run was heard of than there is.
HeardOf == latest <= run /\ \A b \in beats : b.run <= run
StopTrue == stop # None => /\ stop.run \in Runs /\ ends[stop.run] = stop.shutdown
                           /\ stop.run \in recorded /\ stop.run <= latest
Newer    == \A r \in recorded : stop # None /\ r <= stop.run

\* What an alert may say.
Sound(a) == IF a.kind = "stopped"
            THEN (a.run \in Runs /\ a.of = a.run /\ ends[a.run] = "no") \/ (a.of < a.run /\ a.known = FALSE)
            ELSE Ended(a.run)
PassesTrue == \A i \in limit.instances : detector[i].pc = "offline" /\ detector[i].told.shutdown = "no"
                                          => Sound(detector[i].told.alarm)
AlarmsTrue == \A a \in alarms : Sound(a)

RunsInv == /\ TypeOK /\ EndsTold /\ MarkerTold /\ EventsTrue /\ NoticesTrue /\ HeardOf /\ StopTrue /\ Newer
           /\ PassesTrue /\ AlarmsTrue

\* How a run ended never changes.
Stands == /\ run' \in Nat /\ run <= run'
          /\ \A r \in Runs : ends[r] # "runs" => ends'[r] = ends[r]

LEMMA NumberOfRuns == ASSUME TypeOK PROVE run \in Nat /\ ends \in Seq(Endings)
BY Parts DEF MachineOK, HistoryOK

Life == <<power, daemon, run, marker, ends>>

LEMMA OthersLeaveLife ==
  ASSUME [Next]_vars, ~Living
  PROVE  UNCHANGED Life
<1>1. CASE Beat \/ (\E b \in beats : BeatTimesOut(b)) \/ Serving
  BY <1>1 DEF Beat, BeatTimesOut, Serving, ServeBeat, history, Life
<1>2. CASE \E i \in limit.instances : (\E e \in outbox : SendEvent(e, i)) \/ Crash(i)
  BY <1>2 DEF SendEvent, Crash, machine, Life
<1>3. CASE \E i \in limit.instances : Detecting(i)
  BY <1>3 DEF Detecting, TakeLock, MarkOffline, AnnounceOffline, MarkOnline, AnnounceOnline, Release, machine, history, Life
<1>4. CASE (\E n \in notices : Announce(n)) \/ LoseLock \/ EmitOther
  BY <1>4 DEF Announce, LoseLock, EmitOther, machine, history, Life
<1>5. CASE Queueing
  BY <1>5 DEF Queueing, machine, history, Life
<1>6. CASE Tick
  BY <1>6 DEF Tick, history, Life
<1>7. CASE UNCHANGED vars
  BY <1>7 DEF vars, Life
<1>8. QED BY <1>1, <1>2, <1>3, <1>4, <1>5, <1>6, <1>7 DEF Next

\* The run under way ends, or a stop makes it end so.
LEMMA RunEnds ==
  ASSUME TypeOK, EndsTold, MarkerTold, daemon = "up", daemon' # "up", run' = run, marker' = marker, power' = power \/ power' = "off",
         NEW e \in Endings, e # "runs", e = "power" => power' = "off", ends' = [ends EXCEPT ![run] = e]
  PROVE  EndsTold' /\ MarkerTold' /\ Stands
<1>1. run \in Runs /\ Len(ends) = run /\ ends[run] = "runs" /\ ends \in Seq(Endings)
  BY NumberOfRuns DEF EndsTold, Runs
<1>2. Len(ends') = run /\ ends'[run] = e /\ \A r \in Runs : r # run => ends'[r] = ends[r]
  BY <1>1, NumberOfRuns DEF Runs
<1>3. Stands
  BY <1>1, <1>2, NumberOfRuns DEF Stands
<1>4. EndsTold'
  BY <1>1, <1>2 DEF EndsTold, Runs
<1>5. MarkerTold'
  BY <1>1, <1>2 DEF MarkerTold, Runs
<1>6. QED BY <1>3, <1>4, <1>5

\* The daemon is down, the runs are as they were.
LEMMA RunsSame ==
  ASSUME TypeOK, EndsTold, MarkerTold, UNCHANGED <<run, ends>>, daemon' = daemon \/ (daemon # "up" /\ daemon' = "down"),
         power' = power \/ power' = "off" \/ power # "off" \/ marker' # "boot",
         marker' \in {marker, "none"} \/ (marker = "boot" /\ marker' = "old")
  PROVE  EndsTold' /\ MarkerTold' /\ Stands
<1>1. Stands
  BY NumberOfRuns DEF Stands
<1>2. EndsTold'
  BY DEF EndsTold, Runs
<1>3. MarkerTold'
  BY DEF MarkerTold
<1>4. QED BY <1>1, <1>2, <1>3

LEMMA LifeNext ==
  ASSUME TypeOK, EndsTold, MarkerTold, [Next]_vars
  PROVE  EndsTold' /\ MarkerTold' /\ Stands
<1>1. CASE Start
  <2>1. run' = run + 1 /\ ends' = Append(ends, "runs") /\ daemon' = "up" /\ daemon = "down"
    BY <1>1 DEF Start
  <2>2. ends'[run + 1] = "runs" /\ Len(ends') = run + 1 /\ \A r \in Runs : ends'[r] = ends[r]
    BY <2>1, NumberOfRuns DEF EndsTold, Runs
  <2>3. \A r \in 1 .. run + 1 : r \in Runs \/ r = run + 1
    BY NumberOfRuns DEF Runs
  <2>4. Stands
    <3>1. run' \in Nat /\ run <= run'
      BY <2>1, NumberOfRuns
    <3>2. QED BY <2>2, <3>1 DEF Stands
  <2>5. EndsTold'
    BY <2>1, <2>2, <2>3, NumberOfRuns DEF EndsTold, Runs
  <2>6. MarkerTold'
    BY <2>1, <2>2, NumberOfRuns DEF MarkerTold
  <2>7. QED BY <2>4, <2>5, <2>6
<1>2. ASSUME NEW shutdown \in {"system", "no", "unknown"}, Stop(shutdown) PROVE EndsTold' /\ MarkerTold' /\ Stands
  <2>1. shutdown \in Endings /\ shutdown # "runs" /\ shutdown # "power"
    BY DEF Endings, Ways
  <2>2. QED BY <1>2, <2>1, RunEnds DEF Stop
<1>3. CASE Kill
  <2>1. CASE daemon = "up"
    <3>1. ends[run] = "runs"
      BY <2>1 DEF EndsTold
    <3>2. ends' = [ends EXCEPT ![run] = "killed"] /\ "killed" \in Endings
      BY <1>3, <3>1 DEF Kill, Endings
    <3>3. QED BY <1>3, <2>1, <3>2, RunEnds DEF Kill
  <2>2. CASE daemon # "up"
    <3>1. run \in Runs /\ ends[run] # "runs"
      BY <1>3, <2>2, NumberOfRuns DEF EndsTold, Runs, Kill
    <3>2. ends' = [ends EXCEPT ![run] = ends[run]]
      BY <1>3, <3>1 DEF Kill
    <3>3. ends' = ends
      BY <3>2, NumberOfRuns
    <3>4. QED BY <1>3, <2>2, <3>3, RunsSame DEF Kill
  <2>3. QED BY <2>1, <2>2
<1>4. CASE PowerOff
  <2>1. CASE daemon = "up"
    <3>1. "power" \in Endings
      BY DEF Endings
    <3>2. QED BY <1>4, <2>1, <3>1, RunEnds DEF PowerOff
  <2>2. CASE daemon # "up"
    BY <1>4, <2>2, RunsSame DEF PowerOff
  <2>3. QED BY <2>1, <2>2
<1>5. CASE Exit
  BY <1>5, RunsSame DEF Exit, history
<1>6. CASE Boot
  BY <1>6, RunsSame DEF Boot, history
<1>7. CASE Sleep
  BY <1>7, RunsSame DEF Sleep, history
<1>8. CASE Wake
  BY <1>8, RunsSame DEF Wake, history
<1>9. CASE TouchHook
  BY <1>9, RunsSame DEF TouchHook, history
<1>10. CASE ~Living
  BY <1>10, OthersLeaveLife, RunsSame DEF Life
<1>11. QED BY <1>1, <1>2, <1>3, <1>4, <1>5, <1>6, <1>7, <1>8, <1>9, <1>10 DEF Living

LEMMA EndedStands ==
  ASSUME TypeOK, Stands
  PROVE  /\ \A r \in Runs : r \in Runs' /\ (ends[r] \in Ways => ends'[r] = ends[r])
         /\ \A r : Ended(r) => Ended(r)'
         /\ \A a : Sound(a) => Sound(a)'
<1>1. \A r \in Runs : r \in Runs' /\ (ends[r] \in Ways => ends'[r] = ends[r])
  BY NumberOfRuns DEF Stands, Runs, Ways
<1>2. \A r : Ended(r) => Ended(r)'
  BY NumberOfRuns DEF Stands, Runs, Ended
<1>3. \A a : Sound(a) => Sound(a)'
  BY <1>1, <1>2 DEF Sound, Ways
<1>4. QED BY <1>1, <1>2, <1>3

\* Events: what the daemon says of its runs, on the way.
LEMMA OthersLeaveEvents ==
  ASSUME [Next]_vars, ~Start, ~\E shutdown \in Ways : Stop(shutdown), ~Tick
  PROVE  outbox' \subseteq outbox
<1>1. CASE Living
  BY <1>1 DEF Living, Exit, Kill, PowerOff, Boot, Sleep, Wake, TouchHook, Ways
<1>2. CASE Beat \/ (\E b \in beats : BeatTimesOut(b)) \/ Serving
  BY <1>2 DEF Beat, BeatTimesOut, Serving, ServeBeat
<1>3. CASE \E i \in limit.instances : (\E e \in outbox : SendEvent(e, i)) \/ Crash(i)
  BY <1>3 DEF SendEvent, Crash, machine
<1>4. CASE \E i \in limit.instances : Detecting(i)
  BY <1>4 DEF Detecting, TakeLock, MarkOffline, AnnounceOffline, MarkOnline, AnnounceOnline, Release, machine
<1>5. CASE (\E n \in notices : Announce(n)) \/ LoseLock \/ EmitOther
  BY <1>5 DEF Announce, LoseLock, EmitOther, machine
<1>6. CASE Queueing
  BY <1>6 DEF Queueing, machine
<1>7. CASE UNCHANGED vars
  BY <1>7 DEF vars
<1>8. QED BY <1>1, <1>2, <1>3, <1>4, <1>5, <1>6, <1>7 DEF Next

EventTrue(e) == /\ e.kind = "stop" => e.run \in Runs /\ ends[e.run] = e.shutdown
                /\ e.kind = "unclean" /\ e.shutdown = "no" => Ended(e.run)

LEMMA EventStands ==
  ASSUME TypeOK, Stands, NEW e \in outbox, EventTrue(e)
  PROVE  EventTrue(e)'
<1>1. e.shutdown \in Ways
  BY Parts DEF MachineOK, EventRow
<1>2. QED BY <1>1, EndedStands DEF EventTrue

LEMMA EventsNext ==
  ASSUME RunsInv, [Next]_vars, Stands
  PROVE  EventsTrue'
<1>0. TypeOK /\ EndsTold /\ MarkerTold /\ \A e \in outbox : EventTrue(e)
  BY DEF RunsInv, EventsTrue, EventTrue
<1>1. SUFFICES \A e \in outbox' : EventTrue(e)'
  BY DEF EventsTrue, EventTrue
<1>2. \A e \in outbox : EventTrue(e)'
  BY <1>0, EventStands
<1>3. CASE Start
  <2>1. PICK r, e : r = run /\ e = [kind |-> "unclean", run |-> r, shutdown |-> IF marker = "old" THEN "system" ELSE "no", age |-> 0]
    OBVIOUS
  <2>2. outbox' = outbox \cup (IF marker = "none" THEN {} ELSE {e})
    BY <1>3, <2>1 DEF Start
  <2>3. ASSUME marker # "none" PROVE EventTrue(e)'
    <3>1. r \in Runs /\ power = "on" /\ daemon = "down"
      BY <1>0, <1>3, <2>1, <2>3, NumberOfRuns DEF MarkerTold, Runs, Start
    <3>2. marker # "old" => Ended(r)
      BY <1>0, <2>1, <2>3, <3>1, Parts DEF EndsTold, MarkerTold, Ended, MachineOK
    <3>3. marker # "old" => Ended(r)'
      BY <1>0, <3>2, EndedStands
    <3>4. e.kind = "unclean" /\ e.run = r /\ (marker = "old" => e.shutdown = "system")
      BY <2>1
    <3>5. QED BY <3>3, <3>4 DEF EventTrue
  <2>4. QED BY <1>2, <2>2, <2>3
<1>4. ASSUME NEW shutdown \in Ways, Stop(shutdown) PROVE \A e \in outbox' : EventTrue(e)'
  <2>1. PICK r, e : r = run /\ e = [kind |-> "stop", run |-> r, shutdown |-> shutdown, age |-> 0]
    OBVIOUS
  <2>2. outbox' = outbox \cup {e} /\ run' = run /\ ends' = [ends EXCEPT ![run] = shutdown] /\ daemon = "up"
    BY <1>4, <2>1 DEF Stop
  <2>3. r \in Runs' /\ ends'[r] = shutdown
    BY <1>0, <2>1, <2>2, NumberOfRuns DEF EndsTold, Runs
  <2>4. e.kind = "stop" /\ e.run = r /\ e.shutdown = shutdown
    BY <2>1
  <2>5. EventTrue(e)'
    BY <2>3, <2>4 DEF EventTrue
  <2>6. QED BY <1>2, <2>2, <2>5
<1>5. CASE Tick
  <2>1. outbox' = {[e EXCEPT !.age = Up(@, Slack + 1)] : e \in outbox}
    BY <1>5 DEF Tick
  <2>2. \A e \in outbox : EventTrue([e EXCEPT !.age = Up(@, Slack + 1)])'
    <3>1. TAKE e \in outbox
    <3>2. PICK f : f = [e EXCEPT !.age = Up(@, Slack + 1)]
      OBVIOUS
    <3>3. f.kind = e.kind /\ f.run = e.run /\ f.shutdown = e.shutdown
      BY <1>0, <3>2, Parts DEF MachineOK, EventRow
    <3>4. EventTrue(f)'
      BY <1>2, <3>3 DEF EventTrue
    <3>5. QED BY <3>2, <3>4
  <2>3. QED BY <2>1, <2>2
<1>6. QED BY <1>2, <1>3, <1>4, <1>5, OthersLeaveEvents

\* Notices come from the events that were sent.
LEMMA NoticesNext ==
  ASSUME RunsInv, [Next]_vars, Stands
  PROVE  NoticesTrue'
<1>0. TypeOK /\ NoticesTrue /\ EventsTrue
  BY DEF RunsInv
<1>1. \A n \in notices : n.what = "unclean" => Ended(n.run)'
  BY <1>0, EndedStands DEF NoticesTrue
<1>2. ASSUME NEW i \in limit.instances, NEW e \in outbox, SendEvent(e, i) PROVE NoticesTrue'
  <2>1. PICK n : n = [by |-> i, what |-> "unclean", run |-> e.run]
    OBVIOUS
  <2>2. notices' \subseteq notices \cup (IF e.kind = "unclean" /\ e.shutdown = "no" THEN {n} ELSE {}) /\ n.run = e.run
    BY <1>2, <2>1 DEF SendEvent
  <2>3. e.kind = "unclean" /\ e.shutdown = "no" => Ended(e.run)'
    BY <1>0, EndedStands DEF EventsTrue
  <2>4. QED BY <1>1, <2>2, <2>3 DEF NoticesTrue
<1>3. ASSUME NEW i \in limit.instances, NEW b \in beats, ServeBeat(b, i) PROVE NoticesTrue'
  <2>1. PICK n : n = [by |-> i, what |-> "hooks", run |-> b.run]
    OBVIOUS
  <2>2. notices' \subseteq notices \cup {n} /\ n.what = "hooks"
    BY <1>3, <2>1 DEF ServeBeat
  <2>3. QED BY <1>1, <2>2 DEF NoticesTrue
<1>4. ASSUME notices' \subseteq notices PROVE NoticesTrue'
  BY <1>1, <1>4 DEF NoticesTrue
<1>5. CASE Living
  BY <1>4, <1>5 DEF Living, Start, Stop, Exit, Kill, PowerOff, Boot, Sleep, Wake, TouchHook, server
<1>6. CASE Beat \/ (\E b \in beats : BeatTimesOut(b))
  BY <1>4, <1>6 DEF Beat, BeatTimesOut, server
<1>7. CASE \E i \in limit.instances : Detecting(i) \/ Crash(i)
  BY <1>4, <1>7 DEF Detecting, TakeLock, MarkOffline, AnnounceOffline, MarkOnline, AnnounceOnline, Release, Crash
<1>8. CASE (\E n \in notices : Announce(n)) \/ LoseLock \/ EmitOther \/ Queueing \/ Tick
  BY <1>4, <1>8 DEF Announce, LoseLock, EmitOther, Queueing, Tick, server
<1>9. CASE UNCHANGED vars
  BY <1>4, <1>9 DEF vars
<1>10. QED BY <1>2, <1>3, <1>5, <1>6, <1>7, <1>8, <1>9 DEF Next, Serving

\* The row of the machine: what it was last heard from, and the stop it keeps.
Known == <<stop, latest, recorded>>

LEMMA OthersLeaveKnown ==
  ASSUME [Next]_vars, ~Serving, ~\E i \in limit.instances : \E e \in outbox : SendEvent(e, i), ~Tick
  PROVE  UNCHANGED Known
<1>1. CASE Living
  BY <1>1 DEF Living, Start, Stop, Exit, Kill, PowerOff, Boot, Sleep, Wake, TouchHook, row, history, Known
<1>2. CASE Beat \/ (\E b \in beats : BeatTimesOut(b))
  BY <1>2 DEF Beat, BeatTimesOut, row, history, Known
<1>3. CASE \E i \in limit.instances : Crash(i)
  BY <1>3 DEF Crash, row, Known
<1>4. CASE \E i \in limit.instances : Detecting(i)
  BY <1>4 DEF Detecting, TakeLock, MarkOffline, AnnounceOffline, MarkOnline, AnnounceOnline, Release, row, history, Known
<1>5. CASE (\E n \in notices : Announce(n)) \/ LoseLock \/ EmitOther
  BY <1>5 DEF Announce, LoseLock, EmitOther, row, history, Known
<1>6. CASE Queueing
  BY <1>6 DEF Queueing, row, history, Known
<1>7. CASE UNCHANGED vars
  BY <1>7 DEF vars, Known
<1>8. QED BY <1>1, <1>2, <1>3, <1>4, <1>5, <1>6, <1>7 DEF Next

LEMMA OthersLeaveBeats ==
  ASSUME [Next]_vars, ~Beat, ~\E b \in beats : BeatTimesOut(b)
  PROVE  beats' \subseteq beats
<1>1. CASE Living
  BY <1>1 DEF Living, Start, Stop, Exit, Kill, PowerOff, Boot, Sleep, Wake, TouchHook
<1>2. CASE Serving
  BY <1>2 DEF Serving, ServeBeat
<1>3. CASE \E i \in limit.instances : (\E e \in outbox : SendEvent(e, i)) \/ Crash(i)
  BY <1>3 DEF SendEvent, Crash, machine
<1>4. CASE \E i \in limit.instances : Detecting(i)
  BY <1>4 DEF Detecting, TakeLock, MarkOffline, AnnounceOffline, MarkOnline, AnnounceOnline, Release, machine
<1>5. CASE (\E n \in notices : Announce(n)) \/ LoseLock \/ EmitOther
  BY <1>5 DEF Announce, LoseLock, EmitOther, machine
<1>6. CASE Queueing
  BY <1>6 DEF Queueing, machine
<1>7. CASE Tick
  BY <1>7 DEF Tick
<1>8. CASE UNCHANGED vars
  BY <1>8 DEF vars
<1>9. QED BY <1>1, <1>2, <1>3, <1>4, <1>5, <1>6, <1>7, <1>8 DEF Next

LEMMA BeatsNext ==
  ASSUME RunsInv, [Next]_vars, Stands
  PROVE  \A b \in beats' : b.run <= run'
<1>0. TypeOK /\ (\A b \in beats : b.run <= run) /\ run \in Nat /\ run' \in Nat /\ run <= run' /\ \A b \in beats : b.run \in Nat
  BY NumberOfRuns, Parts DEF RunsInv, HeardOf, Stands, MachineOK, BeatRow
<1>1. CASE beats' \subseteq beats
  BY <1>0, <1>1
<1>2. CASE Beat
  <2>1. PICK b : b = [run |-> run, hook |-> IF hook = acked THEN "same" ELSE hook, waiting |-> TRUE]
    OBVIOUS
  <2>2. beats' = beats \cup {b} /\ b.run = run
    BY <1>2, <2>1 DEF Beat
  <2>3. QED BY <1>0, <2>2
<1>3. ASSUME NEW b \in beats, BeatTimesOut(b) PROVE \A c \in beats' : c.run <= run'
  <2>1. PICK d : d = [b EXCEPT !.waiting = FALSE]
    OBVIOUS
  <2>2. d.run = b.run
    BY <1>0, <2>1, Parts DEF MachineOK, BeatRow
  <2>3. beats' \subseteq beats \cup {d}
    BY <1>3, <2>1 DEF BeatTimesOut
  <2>4. QED BY <1>0, <2>2, <2>3
<1>4. QED BY <1>1, <1>2, <1>3, OthersLeaveBeats

\* A stop in the row, s, that keeps what it says.
StopFits(s) == s # None => s.run \in Runs /\ ends[s.run] = s.shutdown /\ s.run \in recorded /\ s.run <= latest

LEMMA StopRows ==
  ASSUME NEW s \in StopRow
  PROVE  s.run \in Nat /\ s.shutdown \in Ways /\ s.age \in Nat /\ s.gap \in Nat
BY DEF StopRow

LEMMA HearKeeps ==
  ASSUME NEW r \in Nat, NEW s \in StopRow \cup {None}, Hear(r, s), latest \in Nat
  PROVE  /\ latest' \in Nat /\ latest <= latest' /\ r <= latest' /\ latest' \in {latest, r}
         /\ stop' # None => s # None /\ stop'.run = s.run /\ stop'.shutdown = s.shutdown
         /\ s # None => stop'.run = s.run /\ stop' = [s EXCEPT !.gap = s.age]
<1>1. latest' \in Nat /\ latest <= latest' /\ r <= latest' /\ latest' \in {latest, r}
  BY DEF Hear
<1>2. CASE s = None
  BY <1>1, <1>2 DEF Hear, Heard
<1>3. CASE s # None
  <2>1. s \in StopRow /\ stop' = [s EXCEPT !.gap = s.age]
    BY <1>3 DEF Hear, Heard
  <2>2. stop'.run = s.run /\ stop'.shutdown = s.shutdown
    BY <2>1 DEF StopRow
  <2>3. QED BY <1>1, <1>3, <2>1, <2>2
<1>4. QED BY <1>2, <1>3

LEMMA NoneIsNone ==
  ASSUME NEW s \in StopRow
  PROVE  s # None
<1>1. "run" \in DOMAIN s
  BY DEF StopRow
<1>2. DOMAIN None = {"none"}
  BY DEF None
<1>3. QED BY <1>1, <1>2

LEMMA KnownSame ==
  ASSUME RunsInv, Stands, UNCHANGED Known
  PROVE  StopTrue' /\ Newer' /\ latest' <= run'
<1>0. TypeOK /\ StopTrue /\ Newer /\ latest <= run /\ latest \in Nat /\ run \in Nat /\ run' \in Nat /\ run <= run'
  BY NumberOfRuns, Parts DEF RunsInv, HeardOf, Stands, HistoryOK
<1>1. UNCHANGED <<stop, latest, recorded>>
  BY DEF Known
<1>2. Newer' /\ latest' <= run'
  BY <1>0, <1>1 DEF Newer
<1>3. StopTrue'
  <2>1. SUFFICES ASSUME stop # None PROVE stop.run \in Runs' /\ ends'[stop.run] = stop.shutdown /\ stop.run \in recorded
                                          /\ stop.run <= latest
    BY <1>1 DEF StopTrue
  <2>2. stop \in StopRow
    BY <1>0, <2>1, Parts DEF RowOK
  <2>3. PICK s \in StopRow : s = stop
    BY <2>2
  <2>4. s.run \in Runs /\ ends[s.run] = s.shutdown /\ s.run \in recorded /\ s.run <= latest
    BY <1>0, <2>1, <2>3 DEF StopTrue
  <2>5. s.run \in Runs' /\ ends'[s.run] = s.shutdown
    BY <1>0, <2>4, StopRows, EndedStands
  <2>6. QED BY <2>3, <2>4, <2>5
<1>4. QED BY <1>2, <1>3

\* Hearing of run r, the row keeps the stop s.
LEMMA KnownHears ==
  ASSUME RunsInv, Stands, UNCHANGED <<run, ends>>, NEW r \in Nat, r <= run, NEW s \in StopRow \cup {None}, Hear(r, s),
         s # None => s.run \in Runs /\ ends[s.run] = s.shutdown /\ s.run \in recorded' /\ (s.run <= latest \/ s.run <= r),
         \A q \in recorded' : q \in Nat /\ s # None /\ q <= s.run
  PROVE  StopTrue' /\ Newer' /\ latest' <= run'
<1>0. TypeOK /\ latest <= run /\ latest \in Nat /\ run \in Nat
  BY NumberOfRuns, Parts DEF RunsInv, HeardOf, HistoryOK
<1>1. /\ latest' \in Nat /\ latest <= latest' /\ r <= latest' /\ latest' \in {latest, r}
      /\ stop' # None => s # None /\ stop'.run = s.run /\ stop'.shutdown = s.shutdown
      /\ s # None => stop'.run = s.run /\ stop' = [s EXCEPT !.gap = s.age]
  BY <1>0, HearKeeps
<1>2. s # None => s.run \in Nat /\ stop' # None
  <2>1. SUFFICES ASSUME s # None PROVE s.run \in Nat /\ stop' # None
    OBVIOUS
  <2>2. s \in StopRow /\ s.run \in Nat
    BY <2>1, StopRows
  <2>3. PICK t : t = [s EXCEPT !.gap = s.age]
    OBVIOUS
  <2>4. t \in StopRow
    BY <2>2, <2>3 DEF StopRow
  <2>5. QED BY <1>1, <2>1, <2>2, <2>3, <2>4, NoneIsNone
<1>3. StopTrue'
  <2>1. SUFFICES ASSUME stop' # None PROVE stop'.run \in Runs' /\ ends'[stop'.run] = stop'.shutdown /\ stop'.run \in recorded'
                                           /\ stop'.run <= latest'
    BY DEF StopTrue
  <2>2. s # None /\ stop'.run = s.run /\ stop'.shutdown = s.shutdown /\ s.run \in Nat
    BY <1>1, <1>2, <2>1
  <2>3. Runs' = Runs
    BY DEF Runs
  <2>4. s.run <= latest'
    BY <1>0, <1>1, <2>2
  <2>5. QED BY <2>2, <2>3, <2>4
<1>4. Newer'
  BY <1>1, <1>2 DEF Newer
<1>5. latest' <= run'
  BY <1>0, <1>1
<1>6. QED BY <1>3, <1>4, <1>5

LEMMA KnownNext ==
  ASSUME RunsInv, [Next]_vars, Stands
  PROVE  StopTrue' /\ Newer' /\ latest' <= run'
<1>0. TypeOK /\ run \in Nat /\ stop \in StopRow \cup {None} /\ StopTrue /\ Newer /\ recorded \subseteq Nat
  BY NumberOfRuns, Parts DEF RunsInv, RowOK, HistoryOK
<1>1. ASSUME NEW b \in beats, NEW i \in limit.instances, ServeBeat(b, i) PROVE StopTrue' /\ Newer' /\ latest' <= run'
  <2>1. b.run \in Nat /\ b.run <= run
    BY Parts DEF RunsInv, HeardOf, MachineOK, BeatRow
  <2>2. Hear(b.run, stop) /\ UNCHANGED <<run, ends, recorded>>
    BY <1>1 DEF ServeBeat
  <2>3. QED BY <1>0, <2>1, <2>2, KnownHears DEF StopTrue, Newer
<1>2. ASSUME NEW i \in limit.instances, NEW e \in outbox, SendEvent(e, i) PROVE StopTrue' /\ Newer' /\ latest' <= run'
  <2>0. UNCHANGED <<run, ends>> /\ e \in EventRow
    BY <1>2, Parts DEF SendEvent, RunsInv, MachineOK
  <2>1. CASE e.kind # "stop"
    <3>1. Hear(run, stop) /\ recorded' = recorded
      BY <1>2, <2>1 DEF SendEvent
    <3>2. PICK r, s : r = run /\ s = stop
      OBVIOUS
    <3>3. r \in Nat /\ r <= run /\ s \in StopRow \cup {None} /\ Hear(r, s)
      BY <1>0, <3>1, <3>2
    <3>4. s # None => s.run \in Runs /\ ends[s.run] = s.shutdown /\ s.run \in recorded' /\ s.run <= latest
      BY <1>0, <3>1, <3>2 DEF StopTrue
    <3>5. \A q \in recorded' : q \in Nat /\ s # None /\ q <= s.run
      BY <1>0, <3>1, <3>2 DEF Newer
    <3>6. QED BY <2>0, <3>3, <3>4, <3>5, KnownHears
  <2>2. CASE e.kind = "stop"
    <3>1. Hear(run, Newest(e)) /\ recorded' = recorded \cup {e.run}
      BY <1>2, <2>2 DEF SendEvent
    <3>2. e.run \in Runs /\ ends[e.run] = e.shutdown /\ e.run <= run /\ e.run \in Nat /\ e.age \in Nat /\ e.shutdown \in Ways
      <4>1. e.run \in Runs /\ ends[e.run] = e.shutdown
        BY <2>2 DEF RunsInv, EventsTrue
      <4>2. QED BY <1>0, <2>0, <4>1 DEF Runs, EventRow
    <3>3. CASE stop = None \/ stop.run < e.run
      <4>1. PICK s : s = [run |-> e.run, shutdown |-> e.shutdown, age |-> e.age, gap |-> 0]
        OBVIOUS
      <4>2. s \in StopRow /\ Newest(e) = s /\ s.run = e.run /\ s.shutdown = e.shutdown
        BY <3>2, <3>3, <4>1 DEF StopRow, Newest
      <4>3. s # None
        BY <4>2, NoneIsNone
      <4>4. \A q \in recorded' : q \in Nat /\ q <= e.run
        <5>1. \A q \in recorded : q \in Nat /\ stop # None /\ q <= stop.run
          BY <1>0 DEF Newer
        <5>2. stop # None => stop.run \in Nat
          BY <1>0, StopRows
        <5>3. QED BY <3>1, <3>2, <3>3, <5>1, <5>2
      <4>5. PICK r : r = run
        OBVIOUS
      <4>6. r \in Nat /\ r <= run /\ Hear(r, s) /\ s.run \in recorded' /\ s.run <= r
        BY <1>0, <3>1, <3>2, <4>2, <4>5
      <4>7. QED BY <2>0, <3>2, <4>2, <4>3, <4>4, <4>6, KnownHears
    <3>4. CASE ~(stop = None \/ stop.run < e.run)
      <4>1. Newest(e) = stop /\ stop \in StopRow /\ stop.run \in Nat /\ e.run <= stop.run
        BY <1>0, <3>2, <3>4, StopRows DEF Newest
      <4>2. \A q \in recorded' : q \in Nat /\ stop # None /\ q <= stop.run
        BY <1>0, <3>1, <3>2, <3>4, <4>1 DEF Newer
      <4>3. stop.run \in Runs /\ ends[stop.run] = stop.shutdown /\ stop.run \in recorded' /\ stop.run <= latest
        BY <1>0, <3>1, <3>4 DEF StopTrue
      <4>4. QED BY <1>0, <2>0, <3>1, <4>1, <4>2, <4>3, KnownHears
    <3>5. QED BY <3>3, <3>4
  <2>3. QED BY <2>1, <2>2
<1>3. CASE Tick
  <2>1. PICK s : s = stop
    OBVIOUS
  <2>2. stop' = IF s = None THEN None ELSE [s EXCEPT !.age = Up(@, Slack + 1)]
    BY <1>3, <2>1 DEF Tick
  <2>3. UNCHANGED <<latest, recorded, run, ends>>
    BY <1>3 DEF Tick, history
  <2>4. CASE s = None
    <3>1. UNCHANGED Known
      BY <2>1, <2>2, <2>3, <2>4 DEF Known
    <3>2. QED BY <3>1, KnownSame
  <2>5. CASE s # None
    <3>1. s \in StopRow
      BY <1>0, <2>1, <2>5
    <3>2. stop' = [s EXCEPT !.age = Up(@, Slack + 1)]
      BY <2>2, <2>5
    <3>3. stop'.run = s.run /\ stop'.shutdown = s.shutdown
      BY <3>1, <3>2 DEF StopRow
    <3>4. stop' # None
      <4>1. stop' \in StopRow
        BY <3>1, <3>2, UpNat DEF StopRow
      <4>2. QED BY <4>1, NoneIsNone
    <3>5. StopTrue' /\ Newer'
      BY <1>0, <2>1, <2>3, <2>5, <3>3, <3>4 DEF StopTrue, Newer, Runs
    <3>6. QED BY <2>3, <3>5 DEF RunsInv, HeardOf
  <2>6. QED BY <2>4, <2>5
<1>4. QED BY <1>1, <1>2, <1>3, OthersLeaveKnown, KnownSame DEF Serving

\* What a pass takes from the row is sound: the run heard of last has ended with
\* the stop in the row, or no stop of it is recorded.
LEMMA MarkSound ==
  ASSUME RunsInv, Deliberate, stop.shutdown = "no",
         NEW a, a = [kind |-> "stopped", run |-> latest, of |-> IF stop = None THEN 0 ELSE stop.run, known |-> latest \in recorded]
  PROVE  Sound(a)
<1>1. stop # None /\ stop \in StopRow /\ stop.run \in Nat /\ latest \in Nat
  BY Parts, StopRows DEF RunsInv, Deliberate, RowOK, HistoryOK
<1>2. stop.run \in Runs /\ ends[stop.run] = "no" /\ stop.run <= latest
  BY <1>1 DEF RunsInv, StopTrue
<1>3. a.kind = "stopped" /\ a.run = latest /\ a.of = stop.run /\ a.known = (latest \in recorded)
  BY <1>1
<1>4. CASE stop.run = latest
  BY <1>2, <1>3, <1>4 DEF Sound
<1>5. CASE stop.run < latest
  <2>1. latest \notin recorded
    BY <1>1, <1>5 DEF RunsInv, Newer
  <2>2. a.known = FALSE
    <3>1. (latest \in recorded) = FALSE
      BY <2>1
    <3>2. QED BY <1>3, <3>1, Zenon
  <2>3. QED BY <1>3, <1>5, <2>2 DEF Sound
<1>6. QED BY <1>1, <1>2, <1>4, <1>5

\* What the passes are about to tell.
LEMMA OthersLeavePasses ==
  ASSUME [Next]_vars, ~\E i \in limit.instances : Detecting(i) \/ Crash(i)
  PROVE  UNCHANGED <<limit, detector>>
<1>1. CASE Living
  BY <1>1 DEF Living, Start, Stop, Exit, Kill, PowerOff, Boot, Sleep, Wake, TouchHook, server
<1>2. CASE Beat \/ (\E b \in beats : BeatTimesOut(b)) \/ Serving
  BY <1>2 DEF Beat, BeatTimesOut, Serving, ServeBeat, server
<1>3. CASE \E i \in limit.instances : \E e \in outbox : SendEvent(e, i)
  BY <1>3 DEF SendEvent
<1>4. CASE (\E n \in notices : Announce(n)) \/ LoseLock \/ EmitOther
  BY <1>4 DEF Announce, LoseLock, EmitOther, server
<1>5. CASE Queueing
  BY <1>5 DEF Queueing, DeleteWebhook, Delivering, Claim, Send, Finish, server
<1>6. CASE Tick
  BY <1>6 DEF Tick, server
<1>7. CASE UNCHANGED vars
  BY <1>7 DEF vars
<1>8. QED BY <1>1, <1>2, <1>3, <1>4, <1>5, <1>6, <1>7 DEF Next

LEMMA DetectingMachine ==
  ASSUME NEW i \in limit.instances, Detecting(i) \/ Crash(i)
  PROVE  UNCHANGED <<limit, run, ends>>
BY DEF Detecting, TakeLock, MarkOffline, AnnounceOffline, MarkOnline, AnnounceOnline, Release, Crash, machine, history

\* What a pass tells stays sound.
LEMMA ToldStands ==
  ASSUME RunsInv, Stands, NEW i \in limit.instances, NEW p, p = detector[i], p.pc = "offline", p.told.shutdown = "no"
  PROVE  Sound(p.told.alarm)'
<1>1. Sound(p.told.alarm)
  BY DEF RunsInv, PassesTrue
<1>2. QED BY <1>1, EndedStands DEF RunsInv

LEMMA PassesSame ==
  ASSUME RunsInv, Stands, UNCHANGED <<limit, detector>>
  PROVE  PassesTrue'
<1>1. SUFFICES ASSUME NEW i \in limit.instances, NEW p, p = detector[i], p.pc = "offline", p.told.shutdown = "no"
               PROVE  Sound(p.told.alarm)'
  BY DEF PassesTrue, Sound, Ended, Runs
<1>2. QED BY <1>1, ToldStands

\* One pass goes on with p, which tells nothing or something sound.
LEMMA PassesStep ==
  ASSUME RunsInv, Stands, NEW i \in limit.instances, NEW p, detector' = [detector EXCEPT ![i] = p], limit' = limit,
         p.pc = "offline" /\ p.told.shutdown = "no" => Sound(p.told.alarm)
  PROVE  PassesTrue'
<1>1. detector'[i] = p /\ \A j \in limit.instances : j # i => detector'[j] = detector[j]
  BY OnePass DEF RunsInv
<1>2. p.pc = "offline" /\ p.told.shutdown = "no" => Sound(p.told.alarm)'
  BY EndedStands DEF RunsInv
<1>3. SUFFICES ASSUME NEW j \in limit.instances, NEW q, q = detector'[j], q.pc = "offline", q.told.shutdown = "no"
               PROVE  Sound(q.told.alarm)'
  BY DEF PassesTrue, Sound, Ended, Runs
<1>4. QED BY <1>1, <1>2, <1>3, ToldStands

LEMMA PassesNext ==
  ASSUME RunsInv, [Next]_vars, Stands
  PROVE  PassesTrue'
<1>0. TypeOK
  BY DEF RunsInv
<1>1. ASSUME NEW i \in limit.instances, MarkOffline(i) PROVE PassesTrue'
  <2>1. CASE Silent
    <3>1. PICK a : a = [kind |-> "stopped", run |-> latest, of |-> IF stop = None THEN 0 ELSE stop.run, known |-> latest \in recorded]
      OBVIOUS
    <3>2. PICK w : w = IF Deliberate THEN stop.shutdown ELSE "silent"
      OBVIOUS
    <3>3. PICK p : p = [pc |-> "offline", told |-> [shutdown |-> w, alarm |-> a]]
      OBVIOUS
    <3>4. detector' = [detector EXCEPT ![i] = p] /\ limit' = limit
      BY <1>1, <2>1, <3>1, <3>2, <3>3 DEF MarkOffline
    <3>5. p.told.shutdown = w /\ p.told.alarm = a
      BY <3>3
    <3>6. w = "no" => Sound(a)
      BY <3>1, <3>2, MarkSound
    <3>7. QED BY <3>4, <3>5, <3>6, PassesStep
  <2>2. CASE ~Silent
    <3>1. PICK p : p = [detector[i] EXCEPT !.pc = "half"]
      OBVIOUS
    <3>2. p.pc = "half" /\ detector' = [detector EXCEPT ![i] = p] /\ limit' = limit
      BY <1>0, <1>1, <2>2, <3>1, PassTyped DEF PassRow, MarkOffline
    <3>3. QED BY <3>2, PassesStep
  <2>3. QED BY <2>1, <2>2
<1>2. ASSUME NEW i \in limit.instances, TakeLock(i) \/ AnnounceOffline(i) \/ MarkOnline(i) \/ AnnounceOnline(i) \/ Release(i) \/ Crash(i)
      PROVE  PassesTrue'
  <2>1. limit' = limit
    BY <1>2, DetectingMachine DEF Detecting
  <2>2. PICK p : p.pc # "offline" /\ detector' = [detector EXCEPT ![i] = p]
    <3>1. ASSUME NEW pc \in {"locked", "online", "done"}, detector' = [detector EXCEPT ![i].pc = pc]
          PROVE  \E p : p.pc # "offline" /\ detector' = [detector EXCEPT ![i] = p]
      <4>1. PICK p : p = [detector[i] EXCEPT !.pc = pc]
        OBVIOUS
      <4>2. p.pc = pc /\ detector' = [detector EXCEPT ![i] = p]
        BY <1>0, <3>1, <4>1, PassTyped DEF PassRow
      <4>3. QED BY <4>2
    <3>2. CASE TakeLock(i) \/ MarkOnline(i) \/ AnnounceOnline(i)
      BY <3>1, <3>2 DEF TakeLock, MarkOnline, AnnounceOnline
    <3>3. CASE AnnounceOffline(i)
      <4>1. PICK p : p = [pc |-> "half", told |-> None]
        OBVIOUS
      <4>2. p.pc = "half" /\ detector' = [detector EXCEPT ![i] = p]
        BY <3>3, <4>1 DEF AnnounceOffline
      <4>3. QED BY <4>2
    <3>4. CASE Release(i) \/ Crash(i)
      <4>1. detector' = [detector EXCEPT ![i] = Rest] /\ Rest.pc = "idle"
        BY <3>4 DEF Release, Crash, Rest
      <4>2. QED BY <4>1
    <3>5. QED BY <1>2, <3>2, <3>3, <3>4
  <2>3. QED BY <2>1, <2>2, PassesStep
<1>3. QED BY <1>1, <1>2, OthersLeavePasses, PassesSame DEF Detecting

\* Alarms: only a notice and a pass raise one.
LEMMA OthersRaiseNone ==
  ASSUME [Next]_vars, ~\E n \in notices : Announce(n), ~\E i \in limit.instances : AnnounceOffline(i)
  PROVE  alarms' = alarms
<1>1. CASE Living
  BY <1>1 DEF Living, Start, Stop, Exit, Kill, PowerOff, Boot, Sleep, Wake, TouchHook, history
<1>2. CASE Beat \/ (\E b \in beats : BeatTimesOut(b)) \/ Serving
  BY <1>2 DEF Beat, BeatTimesOut, Serving, ServeBeat, history
<1>3. CASE \E i \in limit.instances : (\E e \in outbox : SendEvent(e, i)) \/ Crash(i)
  BY <1>3 DEF SendEvent, Crash
<1>4. CASE \E i \in limit.instances : Detecting(i)
  BY <1>4 DEF Detecting, TakeLock, MarkOffline, MarkOnline, AnnounceOnline, Release, history
<1>5. CASE LoseLock \/ EmitOther \/ Queueing \/ Tick
  BY <1>5 DEF LoseLock, EmitOther, Queueing, Tick, history
<1>6. CASE UNCHANGED vars
  BY <1>6 DEF vars
<1>7. QED BY <1>1, <1>2, <1>3, <1>4, <1>5, <1>6 DEF Next

LEMMA AlarmsNext ==
  ASSUME RunsInv, [Next]_vars, Stands
  PROVE  AlarmsTrue'
<1>0. TypeOK /\ AlarmsTrue /\ NoticesTrue /\ PassesTrue
  BY DEF RunsInv
<1>1. \A a \in alarms : Sound(a)'
  BY <1>0, EndedStands DEF AlarmsTrue
<1>2. ASSUME NEW n \in notices, Announce(n) PROVE AlarmsTrue'
  <2>1. PICK a : a = [kind |-> "unclean", run |-> n.run, of |-> n.run, known |-> TRUE]
    OBVIOUS
  <2>2. alarms' = alarms \/ (n.what = "unclean" /\ alarms' = alarms \cup {a})
    BY <1>2, <2>1 DEF Announce, Tamper
  <2>3. n.what = "unclean" => Sound(a)'
    <3>1. n.what = "unclean" => Ended(n.run)'
      BY <1>0, EndedStands DEF NoticesTrue
    <3>2. a.kind = "unclean" /\ a.run = n.run
      BY <2>1
    <3>3. QED BY <3>1, <3>2 DEF Sound
  <2>4. QED BY <1>1, <2>2, <2>3 DEF AlarmsTrue
<1>3. ASSUME NEW i \in limit.instances, AnnounceOffline(i) PROVE AlarmsTrue'
  <2>1. PICK p : p = detector[i]
    OBVIOUS
  <2>2. p.pc = "offline" /\ (alarms' = alarms \/ (p.told.shutdown = "no" /\ alarms' = alarms \cup {p.told.alarm}))
    BY <1>3, <2>1 DEF AnnounceOffline, Tamper
  <2>3. p.told.shutdown = "no" => Sound(p.told.alarm)'
    BY <2>1, <2>2, ToldStands
  <2>4. QED BY <1>1, <2>2, <2>3 DEF AlarmsTrue
<1>4. QED BY <1>1, <1>2, <1>3, OthersRaiseNone DEF AlarmsTrue

LEMMA RunsNext ==
  ASSUME RunsInv, [Next]_vars
  PROVE  RunsInv'
<1>1. TypeOK' /\ EndsTold' /\ MarkerTold' /\ Stands
  BY TypedNext, LifeNext DEF RunsInv
<1>2. HeardOf' /\ StopTrue' /\ Newer'
  BY <1>1, BeatsNext, KnownNext DEF HeardOf
<1>3. QED BY <1>1, <1>2, EventsNext, NoticesNext, PassesNext, AlarmsNext DEF RunsInv

LEMMA RunsInit == Init => RunsInv
<1>1. SUFFICES ASSUME Init PROVE RunsInv
  OBVIOUS
<1>2. /\ daemon = "down" /\ run = 0 /\ marker = "none" /\ outbox = {} /\ beats = {} /\ stop = None /\ notices = {} /\ ends = <<>>
      /\ latest = 0 /\ recorded = {} /\ alarms = {} /\ \A i \in limit.instances : detector[i].pc = "idle"
  BY <1>1 DEF Init, Rest
<1>3. EndsTold /\ MarkerTold
  BY <1>2 DEF EndsTold, MarkerTold, Runs
<1>4. EventsTrue /\ NoticesTrue /\ HeardOf /\ StopTrue /\ Newer /\ AlarmsTrue
  BY <1>2 DEF EventsTrue, NoticesTrue, HeardOf, StopTrue, Newer, AlarmsTrue
<1>5. PassesTrue
  BY <1>2 DEF PassesTrue
<1>6. QED BY <1>1, <1>3, <1>4, <1>5, TypedInit DEF RunsInv

\* No tamper alert for a machine that slept, went silent, shut down or rebooted: an
\* alert of a stop is about a run that stopped and left the machine running, but
\* for a daemon that came back and fell silent within the slack of its stop; an
\* alert of an unclean restart about a run that was killed or stopped.
THEOREM AlertsForCause == Spec => []NoFalseTamper
<1>1. RunsInv => NoFalseTamper
  BY DEF RunsInv, AlarmsTrue, Sound, Ended, NoFalseTamper
<1>2. QED BY <1>1, RunsInit, RunsNext, PTL DEF Spec
=============================================================================
