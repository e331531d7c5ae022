-------------------------- MODULE MCTracingService --------------------------
(* TLC instances of TracingService.                                         *)
EXTENDS TracingService

Plain == [trigger |-> "none", deferred |-> FALSE, duration |-> FALSE,
          stopDelay |-> FALSE, file |-> FALSE, flushPeriod |-> FALSE, score |-> 0]
Timed     == [Plain EXCEPT !.duration = TRUE]
Deferred  == [Plain EXCEPT !.deferred = TRUE]
OnTrigger == [Plain EXCEPT !.trigger = "START", !.stopDelay = TRUE, !.file = TRUE]
ToTrigger == [Plain EXCEPT !.trigger = "STOP", !.stopDelay = TRUE, !.score = 1]
ToFile    == [Plain EXCEPT !.file = TRUE, !.flushPeriod = TRUE, !.score = 1]

(* Producers and consumers that come and go during the session.            *)
Departures ==
  [configs |-> {Timed, Deferred}, filters |-> {{1}},
   consumers |-> {"c1"}, calls |-> {"late", "leave", "flush", "detach"},
   sessions |-> 1, instances |-> 2, flushes |-> 1]

(* Two producers, one of which acks its starts and stops.                   *)
Acks ==
  [configs |-> {Timed}, filters |-> {{1, 2}}, consumers |-> {"c1"},
   calls |-> {"flush", "detach"}, sessions |-> 1, instances |-> 2, flushes |-> 2]

(* Every kind of session.                                                   *)
Kinds ==
  [configs |-> {OnTrigger, ToTrigger, ToFile}, filters |-> {{1}},
   consumers |-> {"c1"}, calls |-> {"save", "detach"},
   sessions |-> 1, instances |-> 1, flushes |-> 1]

(* Two sessions that are flushed, that wait for triggers, that compete for  *)
(* a bugreport.                                                             *)
PairFlushed ==
  [configs |-> {Plain}, filters |-> {{1}}, consumers |-> {"c1"},
   calls |-> {"detach", "flush"}, sessions |-> 2, instances |-> 2, flushes |-> 2]
PairTriggered ==
  [configs |-> {ToTrigger}, filters |-> {{2}}, consumers |-> {"c1"},
   calls |-> {"detach"}, sessions |-> 2, instances |-> 2, flushes |-> 0]
PairSaved ==
  [configs |-> {ToFile, [Plain EXCEPT !.score = 2]}, filters |-> {{2}},
   consumers |-> {"c1"}, calls |-> {"detach", "save"},
   sessions |-> 2, instances |-> 2, flushes |-> 0]

(* A session handed from one consumer to the other.                         *)
Handover ==
  [configs |-> {Timed}, filters |-> {{1}}, consumers |-> {"c1", "c2"},
   calls |-> {"detach", "leave"}, sessions |-> 2, instances |-> 1, flushes |-> 0]

(* A consumer that watches the start of its data sources.                   *)
Watch ==
  [configs |-> {Deferred, Plain}, filters |-> {{1}, {1, 2}},
   consumers |-> {"c1"}, calls |-> {"observe", "change", "late", "leave"},
   sessions |-> 1, instances |-> 3, flushes |-> 0]

SessionScenarios ==
  {Departures, Acks, Kinds, PairFlushed, PairTriggered, PairSaved, Handover, Watch}

(* The smallest scenario in which the finding appears.                      *)
OneTimed == {[Acks EXCEPT !.calls = {}, !.filters = {{1}}]}
=============================================================================
