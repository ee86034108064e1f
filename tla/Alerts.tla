-------------------------------- MODULE Alerts --------------------------------
(***************************************************************************)
(* A machine's daemon as the control plane sees it, and the alerts about   *)
(* it (server/endpoint_health.go, server/tamper.go, store/endpoint_health  *)
(* .go, cmd/effigentd/stop.go, cpclient's heartbeats), which go out        *)
(* through the queue of Webhooks.                                          *)
(*                                                                         *)
(* Times are ages in ticks, counted as far as they matter.  One machine;   *)
(* emails are left out: they follow the same claims as the webhook.        *)
(***************************************************************************)
EXTENDS Webhooks

CONSTANTS
  Threshold,  \* ticks of silence after which a machine is offline
  Slack,      \* ticks after a stop within which it is the machine's last word
  Cooldown    \* ticks between two tamper alerts of a kind

ASSUME AlertsAssumption ==
  Threshold \in Nat /\ Slack \in Nat /\ Cooldown \in Nat /\ Slack < Threshold

VARIABLES
  moves,    \* what happened to the machine so far, a count
  power,    \* "on", "asleep" or "off"
  daemon,   \* "up", "closing" or "down"
  run,      \* runs of the daemon so far
  marker,   \* run marker: "none", "boot" (written since the last boot) or "old"
  outbox,   \* events not sent yet: [kind, run, shutdown, age]
  hook,     \* an agent's hook: "ok", "broken", or "none": nothing is reported
  acked,    \* the hook report acknowledged to this run, or "none"
  beats,    \* heartbeats sent: [run, hook, waiting]
  seen,     \* the machine's row: age of last_seen
  offline,  \*   marked offline
  heard,    \*   last_seen is later than the mark
  stop,     \*   the newest stop: [run, shutdown, age, gap], or None
  report,   \*   the hook report: [hook, expected], or None
  cooling,  \*   ticks left of each kind's cooldown
  detector, \* a pass of the offline detector on each instance: [pc, told]
  lock,     \* the instance that holds the detector's lock, 0: nobody
  notices,  \* alerts that run beside the request they come from: [by, what]
  last,     \* history: the announcement made last
  cut,      \* history: a pass lost its lock or stopped half way
  lost,     \* history: the answer to a hook report was lost
  ends,     \* history: how each run ended
  latest,   \* history: the last run heard from
  recorded, \* history: runs whose stop was recorded
  alarms    \* history: tamper alerts: [kind, run, of, known]

None     == [none |-> TRUE]
queue    == <<webhook, deliveries, sending, received>>
machine  == <<power, daemon, run, marker, outbox, hook, acked, beats>>
row      == <<seen, offline, heard, stop, report, cooling>>
server   == <<detector, lock, notices>>
history  == <<last, cut, lost, ends, latest, recorded, alarms>>
vars     == <<limit, faults, webhook, deliveries, sending, received, moves, power, daemon, run, marker, outbox, hook,
              acked, beats, seen, offline, heard, stop, report, cooling, detector, lock, notices, last, cut, lost, ends,
              latest, recorded, alarms>>

CONSTANT Limits  \* bounds of the instances explored: [instances, webhook,
                 \* events, faults, runs, moves, kinds, hooks]: kinds of moves, and hooks' first states

ASSUME LimitsAssumption ==
  \A l \in Limits : l.instances \subseteq Instances \ {0} /\ l.webhook \in BOOLEAN /\ l.hooks \subseteq {"ok", "broken", "none"}

Kinds == {"stopped", "unclean"}
Rest  == [pc |-> "idle", told |-> None]
Up(n, cap) == IF n < cap THEN n + 1 ELSE n

Init ==
  /\ limit \in Limits
  /\ faults = 0 /\ webhook = limit.webhook /\ deliveries = <<>> /\ sending = {} /\ received = <<>>
  /\ moves = 0 /\ power = "on" /\ daemon = "down" /\ run = 0 /\ marker = "none" /\ outbox = {}
  /\ hook \in limit.hooks /\ acked = "none" /\ beats = {}
  /\ seen = 0 /\ offline = FALSE /\ heard = FALSE /\ stop = None /\ report = None
  /\ cooling = [k \in Kinds |-> 0]
  /\ detector = [i \in limit.instances |-> Rest] /\ lock = 0 /\ notices = {}
  /\ last = "online" /\ cut = FALSE /\ lost = FALSE /\ ends = <<>> /\ latest = 0 /\ recorded = {} /\ alarms = {}

-----------------------------------------------------------------------------
\* The machine and its daemon.

Move(kind) == kind \in limit.kinds /\ moves < limit.moves /\ moves' = moves + 1

\* startMarker: a marker left behind tells of a run that did not stop cleanly.
Start ==
  /\ power = "on" /\ daemon = "down" /\ run < limit.runs
  /\ daemon' = "up" /\ run' = run + 1 /\ marker' = "boot" /\ acked' = "none"
  /\ outbox' = outbox \cup
       IF marker = "none" THEN {}
       ELSE {[kind |-> "unclean", run |-> run, shutdown |-> IF marker = "old" THEN "system" ELSE "no", age |-> 0]}
  /\ ends' = Append(ends, "runs")
  /\ UNCHANGED <<limit, faults, moves, queue, power, hook, beats, row, server, last, cut, lost, latest, recorded, alarms>>

\* A signal: what systemd says tells a shutdown from a stop, elsewhere nothing does.
Stop(shutdown) ==
  /\ daemon = "up" /\ power = "on" /\ Move("stop")
  /\ daemon' = "closing"
  /\ outbox' = outbox \cup {[kind |-> "stop", run |-> run, shutdown |-> shutdown, age |-> 0]}
  /\ ends' = [ends EXCEPT ![run] = shutdown]
  /\ UNCHANGED <<limit, faults, queue, power, run, marker, hook, acked, beats, row, server, last, cut, lost, latest,
                 recorded, alarms>>

\* The sinks are closed, then the marker goes; what was not sent stays spooled.
Exit ==
  /\ daemon = "closing"
  /\ daemon' = "down" /\ marker' = "none"
  /\ UNCHANGED <<limit, faults, moves, queue, power, run, outbox, hook, acked, beats, row, server, history>>

Kill ==
  /\ daemon # "down" /\ power = "on" /\ Move("kill")
  /\ daemon' = "down"
  /\ ends' = [ends EXCEPT ![run] = IF @ = "runs" THEN "killed" ELSE @]
  /\ UNCHANGED <<limit, faults, queue, power, run, marker, outbox, hook, acked, beats, row, server, last, cut, lost,
                 latest, recorded, alarms>>

\* Off: a shutdown that has told the daemon, or a power loss.
PowerOff ==
  /\ power # "off" /\ Move("power")
  /\ power' = "off" /\ daemon' = "down"
  /\ ends' = IF daemon = "up" THEN [ends EXCEPT ![run] = "power"] ELSE ends
  /\ UNCHANGED <<limit, faults, queue, run, marker, outbox, hook, acked, beats, row, server, last, cut, lost, latest,
                 recorded, alarms>>

Boot ==
  /\ power = "off"
  /\ power' = "on" /\ marker' = IF marker = "boot" THEN "old" ELSE marker
  /\ UNCHANGED <<limit, faults, moves, queue, daemon, run, outbox, hook, acked, beats, row, server, history>>

Sleep ==
  /\ power = "on" /\ Move("sleep")
  /\ power' = "asleep"
  /\ UNCHANGED <<limit, faults, queue, daemon, run, marker, outbox, hook, acked, beats, row, server, history>>

Wake ==
  /\ power = "asleep"
  /\ power' = "on"
  /\ UNCHANGED <<limit, faults, moves, queue, daemon, run, marker, outbox, hook, acked, beats, row, server, history>>

\* Somebody takes an agent's hook away, or puts it back.
TouchHook ==
  /\ Move("hook")
  /\ hook' = IF hook = "ok" THEN "broken" ELSE "ok"
  /\ UNCHANGED <<limit, faults, queue, power, daemon, run, marker, outbox, acked, beats, row, server, history>>

-----------------------------------------------------------------------------
\* Heartbeats and events.

\* heartbeat: the hooks go along when they differ from what was acknowledged.
Beat ==
  /\ daemon = "up" /\ power = "on" /\ \A b \in beats : ~b.waiting
  /\ beats' = beats \cup {[run |-> run, hook |-> IF hook = acked THEN "same" ELSE hook, waiting |-> TRUE]}
  /\ UNCHANGED <<limit, faults, moves, queue, power, daemon, run, marker, outbox, hook, acked, row, server, history>>

\* The client gives up, the request may still arrive.
BeatTimesOut(b) ==
  /\ b \in beats /\ b.waiting
  /\ IF power = "on" /\ b.run = run /\ daemon = "up" THEN Fault ELSE UNCHANGED faults
  /\ beats' = (beats \ {b}) \cup {[b EXCEPT !.waiting = FALSE]}
  /\ lost' = (lost \/ b.hook # "same")
  /\ UNCHANGED <<limit, moves, queue, power, daemon, run, marker, outbox, hook, acked, row, server, last, cut, ends,
                 latest, recorded, alarms>>

\* last_seen is now: of a stop, only how much earlier it was is kept.
Heard(s) == IF s = None THEN s ELSE [s EXCEPT !.gap = s.age]
Hear(r, s) ==
  /\ seen' = 0 /\ heard' = TRUE
  /\ stop' = Heard(s)
  /\ latest' = IF r > latest THEN r ELSE latest

Problem(rep) == rep # None /\ rep.hook = "broken" /\ rep.expected

\* Mutant: the heartbeat clears the mark.
ServeBeat_Clears(b, i) ==
  /\ b \in beats
  /\ beats' = beats \ {b}
  /\ Hear(b.run, stop)
  /\ acked' = IF b.waiting /\ b.hook # "same" /\ b.run = run THEN b.hook ELSE acked
  /\ LET now == [hook |-> b.hook, expected |-> b.hook = "ok" \/ (report # None /\ report.expected)]
     IN /\ report' = IF b.hook = "same" THEN report ELSE now
        /\ notices' = IF b.hook # "same" /\ Problem(now) /\ ~Problem(report)
                      THEN notices \cup {[by |-> i, what |-> "hooks", run |-> b.run]} ELSE notices
  /\ offline' = FALSE
  /\ UNCHANGED <<limit, faults, moves, queue, power, daemon, run, marker, outbox, hook, cooling, detector, lock,
                 last, cut, lost, ends, recorded, alarms>>

\* heartbeat, reportHooks: an agent whose hook was seen in place once is expected
\* to have it.
ServeBeat(b, i) ==
  /\ b \in beats
  /\ beats' = beats \ {b}
  /\ Hear(b.run, stop)
  /\ acked' = IF b.waiting /\ b.hook # "same" /\ b.run = run THEN b.hook ELSE acked
  /\ LET now == [hook |-> b.hook, expected |-> b.hook = "ok" \/ (report # None /\ report.expected)]
     IN /\ report' = IF b.hook = "same" THEN report ELSE now
        /\ notices' = IF b.hook # "same" /\ Problem(now) /\ ~Problem(report)
                      THEN notices \cup {[by |-> i, what |-> "hooks", run |-> b.run]} ELSE notices
  /\ UNCHANGED <<limit, faults, moves, queue, power, daemon, run, marker, outbox, hook, offline, cooling, detector, lock,
                 last, cut, lost, ends, recorded, alarms>>

\* Mutant: the stop that arrives last is kept.
Newest_Last(e) == [run |-> e.run, shutdown |-> e.shutdown, age |-> e.age, gap |-> 0]

\* RecordEndpointStop: the newest stop is kept.
Newest(e) == IF stop = None \/ stop.run < e.run
             THEN [run |-> e.run, shutdown |-> e.shutdown, age |-> e.age, gap |-> 0] ELSE stop

\* ingest of the batch with this event, last_seen included.
SendEvent(e, i) ==
  /\ e \in outbox /\ daemon # "down" /\ power = "on"
  /\ outbox' = outbox \ {e}
  /\ IF e.kind = "stop" THEN Hear(run, Newest(e)) /\ recorded' = recorded \cup {e.run}
                        ELSE Hear(run, stop) /\ UNCHANGED recorded
  /\ notices' = IF e.kind = "unclean" /\ e.shutdown = "no"
                THEN notices \cup {[by |-> i, what |-> "unclean", run |-> e.run]} ELSE notices
  /\ UNCHANGED <<limit, faults, moves, queue, power, daemon, run, marker, hook, acked, beats, offline, report, cooling,
                 detector, lock, last, cut, lost, ends, alarms>>

-----------------------------------------------------------------------------
\* Alerts.

\* ClaimTamperAlert and the alert; without the claim nothing goes out.
Tamper(kind, alarm) ==
  IF cooling[kind] = 0
    THEN cooling' = [cooling EXCEPT ![kind] = Cooldown] /\ alarms' = alarms \cup {alarm}
    ELSE UNCHANGED <<cooling, alarms>>

Announce(n) ==
  /\ n \in notices
  /\ notices' = notices \ {n}
  /\ IF n.what = "unclean"
       THEN /\ Tamper("unclean", [kind |-> "unclean", run |-> n.run, of |-> n.run, known |-> TRUE])
            /\ Emit(IF cooling["unclean"] = 0 THEN <<"tamper">> ELSE <<>>)
       ELSE Emit(<<"hooks">>) /\ UNCHANGED <<cooling, alarms>>
  /\ UNCHANGED <<limit, faults, moves, webhook, sending, machine, seen, offline, heard, stop, report, detector, lock,
                 last, cut, lost, ends, latest, recorded>>

\* Bound: while the queue has room for the events of this instance.
Silent == ~offline /\ seen > Threshold /\ latest > 0 /\ (webhook => Len(deliveries) < limit.events)

\* checkEndpointHealth under its lock: silent machines are marked, each is
\* announced; then those that are back.  A pass that would find nothing is left
\* out.
TakeLock(i) ==
  /\ detector[i].pc = "idle" /\ lock = 0
  /\ Silent \/ (offline /\ heard)
  /\ lock' = i
  /\ detector' = [detector EXCEPT ![i].pc = "locked"]
  /\ UNCHANGED <<limit, faults, moves, queue, machine, row, notices, history>>

\* stoppedDeliberately, from the row as it was marked.
Deliberate == stop # None /\ stop.gap <= Slack

MarkOffline(i) ==
  /\ detector[i].pc = "locked"
  /\ IF Silent
       THEN /\ offline' = TRUE /\ heard' = FALSE
            /\ detector' = [detector EXCEPT ![i] = [pc |-> "offline", told |->
                 [shutdown |-> IF Deliberate THEN stop.shutdown ELSE "silent",
                  alarm |-> [kind |-> "stopped", run |-> latest, of |-> IF stop = None THEN 0 ELSE stop.run,
                             known |-> latest \in recorded]]]]
       ELSE /\ detector' = [detector EXCEPT ![i].pc = "half"]
            /\ UNCHANGED <<offline, heard>>
  /\ UNCHANGED <<limit, faults, moves, queue, machine, seen, stop, report, cooling, lock, notices, history>>

AnnounceOffline(i) ==
  /\ detector[i].pc = "offline"
  /\ last' = "offline"
  /\ IF detector[i].told.shutdown = "no"
       THEN /\ Tamper("stopped", detector[i].told.alarm)
            /\ Emit(IF cooling["stopped"] = 0 THEN <<"offline", "tamper">> ELSE <<"offline">>)
       ELSE Emit(<<"offline">>) /\ UNCHANGED <<cooling, alarms>>
  /\ detector' = [detector EXCEPT ![i] = [pc |-> "half", told |-> None]]
  /\ UNCHANGED <<limit, faults, moves, webhook, sending, machine, seen, offline, heard, stop, report, lock, notices,
                 cut, lost, ends, latest, recorded>>

MarkOnline(i) ==
  /\ detector[i].pc = "half"
  /\ detector' = [detector EXCEPT ![i].pc = IF offline /\ heard THEN "online" ELSE "done"]
  /\ offline' = (offline /\ ~heard)
  /\ UNCHANGED <<limit, faults, moves, queue, machine, seen, heard, stop, report, cooling, lock, notices, history>>

AnnounceOnline(i) ==
  /\ detector[i].pc = "online"
  /\ last' = "online"
  /\ Emit(<<"online">>)
  /\ detector' = [detector EXCEPT ![i].pc = "done"]
  /\ UNCHANGED <<limit, faults, moves, webhook, sending, machine, row, lock, notices, cut, lost, ends, latest, recorded,
                 alarms>>

Release(i) ==
  /\ detector[i].pc = "done"
  /\ detector' = [detector EXCEPT ![i] = Rest]
  /\ lock' = IF lock = i THEN 0 ELSE lock
  /\ UNCHANGED <<limit, faults, moves, queue, machine, row, notices, history>>

\* The connection that holds the lock breaks; the pass goes on.
LoseLock ==
  /\ lock # 0 /\ Fault
  /\ lock' = 0 /\ cut' = TRUE
  /\ UNCHANGED <<limit, moves, queue, machine, row, detector, notices, last, lost, ends, latest, recorded, alarms>>

\* An instance stops.
Crash(i) ==
  /\ Busy(i) \/ detector[i].pc # "idle" \/ \E n \in notices : n.by = i
  /\ Fault
  /\ sending' = {s \in sending : s.by # i}
  /\ notices' = {n \in notices : n.by # i}
  /\ detector' = [detector EXCEPT ![i] = Rest]
  /\ lock' = IF lock = i THEN 0 ELSE lock
  /\ cut' = (cut \/ detector[i].pc # "idle")
  /\ UNCHANGED <<limit, moves, webhook, deliveries, received, machine, row, last, lost, ends, latest, recorded, alarms>>

\* Bound: events of the rest of the control plane.
EmitOther ==
  /\ Len(deliveries) < limit.events
  /\ Emit(<<"other">>)
  /\ UNCHANGED <<limit, faults, moves, webhook, sending, machine, row, server, history>>

Tick ==
  /\ QueueTick
  /\ seen' = Up(seen, Threshold + 1)
  /\ stop' = IF stop = None THEN None ELSE [stop EXCEPT !.age = Up(@, Slack + 1)]
  /\ outbox' = {[e EXCEPT !.age = Up(@, Slack + 1)] : e \in outbox}
  /\ cooling' = [k \in Kinds |-> Down(cooling[k])]
  /\ UNCHANGED <<limit, moves, webhook, received, power, daemon, run, marker, hook, acked, beats, offline, heard, report,
                 server, history>>

Queueing == (DeleteWebhook \/ \E i \in limit.instances : Delivering(i)) /\ UNCHANGED <<moves, machine, row, server, history>>
Detecting(i) == TakeLock(i) \/ MarkOffline(i) \/ AnnounceOffline(i) \/ MarkOnline(i) \/ AnnounceOnline(i) \/ Release(i)
Living == Start \/ Exit \/ Kill \/ PowerOff \/ Boot \/ Sleep \/ Wake \/ TouchHook
            \/ \E shutdown \in {"system", "no", "unknown"} : Stop(shutdown)
Serving == \E i \in limit.instances : \E b \in beats : ServeBeat(b, i)

Next ==
  \/ Living \/ Beat \/ (\E b \in beats : BeatTimesOut(b)) \/ Serving
  \/ \E i \in limit.instances : (\E e \in outbox : SendEvent(e, i)) \/ Detecting(i) \/ Crash(i)
  \/ (\E n \in notices : Announce(n)) \/ LoseLock \/ EmitOther
  \/ Queueing \/ Tick

Spec == Init /\ [][Next]_vars

Fairness ==
  /\ WF_vars(Beat) /\ WF_vars(Serving) /\ WF_vars(Tick)
  /\ \A i \in Instances : WF_vars(i \in limit.instances /\ Delivering(i) /\ UNCHANGED <<moves, machine, row, server, history>>)

FairSpec == Spec /\ Fairness

-----------------------------------------------------------------------------
Ways      == {"system", "no", "unknown"}
Endings   == Ways \cup {"runs", "killed", "power"}
HookState == {"ok", "broken", "none"}
EventRow  == [kind : {"stop", "unclean"}, run : Nat, shutdown : Ways, age : Nat]
BeatRow   == [run : Nat, hook : HookState \cup {"same"}, waiting : BOOLEAN]
StopRow   == [run : Nat, shutdown : Ways, age : Nat, gap : Nat]
ReportRow == [hook : HookState, expected : BOOLEAN]
AlarmRow  == [kind : Kinds, run : Nat, of : Nat, known : BOOLEAN]
NoticeRow == [by : Instances, what : {"hooks", "unclean"}, run : Nat]
ToldRow   == [shutdown : Ways \cup {"silent"}, alarm : AlarmRow]
PassRow   == [pc : {"idle", "locked", "half", "online", "done"}, told : {None}] \cup [pc : {"offline"}, told : ToldRow]

\* The types of the machine's, the row's and the server's state.
TypeOK ==
  /\ limit \in Limits /\ QueueTypeOK
  /\ moves \in Nat /\ power \in {"on", "asleep", "off"} /\ daemon \in {"up", "closing", "down"} /\ run \in Nat
  /\ marker \in {"none", "boot", "old"} /\ outbox \subseteq EventRow /\ beats \subseteq BeatRow
  /\ hook \in HookState /\ acked \in HookState
  /\ seen \in Nat /\ offline \in BOOLEAN /\ heard \in BOOLEAN
  /\ stop \in StopRow \cup {None} /\ report \in ReportRow \cup {None} /\ cooling \in [Kinds -> Nat]
  /\ detector \in [limit.instances -> PassRow] /\ lock \in limit.instances \cup {0} /\ notices \subseteq NoticeRow
  /\ last \in {"online", "offline"} /\ cut \in BOOLEAN /\ lost \in BOOLEAN
  /\ ends \in Seq(Endings) /\ latest \in Nat /\ recorded \subseteq Nat
  /\ alarms \subseteq AlarmRow

\* When no pass is under way, the announcement made last says what the mark
\* says: each silence and each return is announced, once and in order; unless a
\* pass stopped half way or lost its lock.
AnnouncedAsMarked ==
  (\A i \in limit.instances : detector[i].pc = "idle") /\ ~cut => last = IF offline THEN "offline" ELSE "online"

\* tamper.go: never for a machine that slept, went silent, shut down or rebooted.
\* An alert of a stop is about the run that was heard last, and that run ended
\* with a stop that left the machine running; unless it sent no stop and its last
\* word came within the slack of the stop of an earlier run.  An alert of an
\* unclean restart is about a run that was killed, or stopped and then killed.
NoFalseTamper ==
  \A a \in alarms :
    IF a.kind = "stopped" THEN (a.of = a.run /\ ends[a.run] = "no") \/ (a.of < a.run /\ ~a.known)
                          ELSE ends[a.run] \notin {"runs", "power"}

\* The control plane ends with the hook report that is true, unless the answer to
\* a report was lost: the daemon then takes an older report for the last one.
HooksKnown ==
  <>[](daemon = "up" /\ power = "on" /\ hook # "none" /\ ~lost => report # None /\ report.hook = hook)
=============================================================================
