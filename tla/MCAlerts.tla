------------------------------ MODULE MCAlerts ------------------------------
(* Small instances of Alerts for TLC. *)
EXTENDS Alerts, TLC

\* Two instances and a queue, with a crash, a stall or a lost answer; a machine
\* that is stopped, killed, put to sleep; a hook taken away; a pass that loses its
\* lock; alerts that go through the queue.
Queue   == [instances |-> {1, 2}, webhook |-> TRUE, events |-> 2, faults |-> 1, runs |-> 0, moves |-> 0, kinds |-> {},
            hooks |-> {"none"}]
Stops   == [instances |-> {1}, webhook |-> FALSE, events |-> 0, faults |-> 0, runs |-> 2, moves |-> 2,
            kinds |-> {"stop", "kill", "power"}, hooks |-> {"none"}]
Hooks   == [Stops EXCEPT !.faults = 1, !.kinds = {"hook", "kill"}, !.hooks = {"ok", "broken"}]
Passes  == [Stops EXCEPT !.instances = {1, 2}, !.faults = 1, !.runs = 1, !.kinds = {"sleep"}]
Both    == [Queue EXCEPT !.instances = {1}, !.events = 1, !.faults = 0, !.runs = 1]
MCLimits == {Queue, Stops, Hooks, Passes, Both}
=============================================================================
