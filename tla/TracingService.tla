---------------------------- MODULE TracingService ----------------------------
(***************************************************************************)
(* The tracing sessions of the service (src/tracing/core/                  *)
(* tracing_service_impl.cc): consumers configure, start, stop, flush,      *)
(* detach from and free sessions; producers come and go, acknowledge       *)
(* starts, stops and flushes late or never; timers race all of them.       *)
(*                                                                         *)
(* The service is one thread, so every handler is one step; handlers call  *)
(* each other, so each is an operator from a service state v to the next   *)
(* one, and an action applies it to the variable svc.  A producer has one  *)
(* data source, which every config asks for.                               *)
(*                                                                         *)
(* A delayed task that does nothing unless its session, or its flush, is   *)
(* still waiting for it (the timeouts of a flush, of a stop and of a start *)
(* trigger, the periodic flush) may run whenever that is so; the others    *)
(* are kept in "timers" until they run.  All consumers have one uid, and   *)
(* configs are ones that the checks of EnableTracing() accept.             *)
(***************************************************************************)
EXTENDS Integers, FiniteSets, FiniteSetsExt

CONSTANTS
  Producers,          \* producer ids; one is never used again (16 bits)
  WillNotifyOnStart,  \* the producers whose data source acks its start
  WillNotifyOnStop,   \* ... and its stop
  Consumers, Keys,    \* consumers and the keys they detach under
  MaxConcurrentTracingSessions,
  MaxPendingFlushes,  \* 1000 in the code
  MaxSessions,        \* bound on the session ids handed out
  Scenarios           \* what the clients do: see Scenario

(* The sessions' configs, and the producers their name filters may select. *)
Config == [trigger : {"none", "START", "STOP"}, deferred : BOOLEAN,
           duration : BOOLEAN, stopDelay : BOOLEAN, file : BOOLEAN,
           flushPeriod : BOOLEAN, score : Nat]

(* A scenario bounds the environment: the consumers, the configs and       *)
(* filters they use, the optional calls that clients make, and how many    *)
(* sessions, data source instances and flushes (other than final ones)     *)
(* there may be.                                                           *)
Calls == {"observe", "change", "detach", "flush", "save", "late", "leave"}
Scenario == [configs : SUBSET Config, filters : SUBSET SUBSET Producers,
             consumers : SUBSET Consumers, calls : SUBSET Calls,
             sessions : 0 .. MaxSessions, instances : Nat, flushes : Nat]

ASSUME ServiceConstants ==
  /\ Producers \subseteq Nat /\ IsFiniteSet(Producers) /\ MaxSessions \in Nat
  /\ WillNotifyOnStart \subseteq Producers
  /\ WillNotifyOnStop \subseteq Producers
  /\ "none" \notin Consumers /\ "none" \notin Keys
  /\ Scenarios \subseteq Scenario
  /\ \A c \in Scenarios : \A cfg \in c.configs :
       /\ cfg.trigger # "none" => ~cfg.duration
       /\ cfg.trigger = "STOP" => ~cfg.file

VARIABLES svc,        \* the state of the service
          scenario    \* never changes

vars == <<svc, scenario>>

SessionIDs == 1 .. MaxSessions
Live(v) == DOMAIN v.sessions
St(v, s) == v.sessions[s].st
(* Function f with x mapped to e.                                          *)
With(f, x, e) == [y \in DOMAIN f \cup {x} |-> IF y = x THEN e ELSE f[y]]
Registered(v) == {p \in Producers : v.producer[p] = "ds"}

(* An ack that was asked for and may still come: of the start or stop of   *)
(* an instance, of a flush.                                                *)
Ack(k, p, id) == [k |-> k, p |-> p, id |-> id]

Init ==
  /\ scenario \in Scenarios
  /\ svc =
        [sessions |-> <<>>,
         consumers |-> <<>>,          \* endpoint -> session id, events mask
         producer |-> [p \in Producers |-> "new"],
         owed |-> {},                 \* acks that may still arrive
         posted |-> {},               \* posted CompleteFlush() tasks
         lastSession |-> 0, lastInstance |-> 0, lastFlush |-> 0,
         crashed |-> FALSE,           \* a null session was dereferenced
         \* history: OnTracingDisabled() and bugreport callbacks of each
         \* session, and the sessions whose consumer got the event that all
         \* data sources started
         told |-> [s \in SessionIDs |-> 0],
         saved |-> [s \in SessionIDs |-> 0],
         noticed |-> {}]

(***************************************************************************)
(* Data source instances                                                   *)
(***************************************************************************)
AllInState(v, s, st) ==
  \A p \in DOMAIN v.sessions[s].inst : v.sessions[s].inst[p].st = st

MaybeNotifyAllDataSourcesStarted(v, s) ==
  LET c == v.sessions[s].consumer
  IN IF \/ c = "none"
        \/ ~AllInState(v, s, "STARTED")
        \/ v.sessions[s].did_notify
     THEN v
     ELSE [v EXCEPT !.sessions[s].did_notify = TRUE,
                    !.noticed = IF v.consumers[c].watching THEN @ \cup {s} ELSE @]

SetupDataSource(v, s, p) ==
  [v EXCEPT !.lastInstance = @ + 1,
            !.sessions[s].inst =
               With(@, p, [id |-> v.lastInstance + 1, st |-> "CONFIGURED"])]

StartDataSourceInstance(v, s, p) ==
  LET i == v.sessions[s].inst[p]
      acks == p \in WillNotifyOnStart
      w == [v EXCEPT !.sessions[s].inst[p].st =
                        IF acks THEN "STARTING" ELSE "STARTED",
                     !.owed = IF acks THEN @ \cup {Ack("started", p, i.id)} ELSE @]
  IN IF acks THEN w ELSE MaybeNotifyAllDataSourcesStarted(w, s)

(* A producer that acks stops does so however the service stops it.        *)
StopDataSourceInstance(v, s, p, disable_immediately) ==
  LET i == v.sessions[s].inst[p]
      acks == p \in WillNotifyOnStop
  IN [v EXCEPT !.sessions[s].inst[p].st =
                  IF acks /\ ~disable_immediately THEN "STOPPING" ELSE "STOPPED",
               !.owed = IF acks THEN @ \cup {Ack("stopped", p, i.id)} ELSE @]

SetupAndStart(v, s, p) ==
  LET w == SetupDataSource(v, s, p)
  IN IF St(w, s) = "STARTED" THEN StartDataSourceInstance(w, s, p) ELSE w

(***************************************************************************)
(* The end of a session                                                    *)
(***************************************************************************)
IsWaitingForTrigger(t) == t.cfg.trigger # "none" /\ ~t.triggered

(* The file of a session that is over: the last write closes it, except    *)
(* for one that waits for a trigger, which is never written.               *)
LastWrite(t) ==
  IF ~t.file THEN t
  ELSE IF ~t.seized /\ IsWaitingForTrigger(t) THEN [t EXCEPT !.period = FALSE]
  ELSE [t EXCEPT !.period = FALSE, !.file = FALSE, !.written = TRUE]

Mutant_KeepsBugreportCallback(v, s) ==
  LET t == v.sessions[s]
      stopped == [t EXCEPT !.st = "DISABLED",
                           !.inst = [p \in DOMAIN @ |-> [@[p] EXCEPT !.st = "STOPPED"]]]
  IN [v EXCEPT
        !.sessions[s] = LastWrite(stopped),
        !.saved[s] = IF t.bugreport THEN @ + 1 ELSE @,
        !.told[s] = IF t.consumer # "none" THEN @ + 1 ELSE @]

DisableTracingNotifyConsumerAndFlushFile(v, s) ==
  LET t == v.sessions[s]
      stopped == [t EXCEPT !.st = "DISABLED",
                           !.inst = [p \in DOMAIN @ |-> [@[p] EXCEPT !.st = "STOPPED"]]]
  IN [v EXCEPT
        !.sessions[s] = [LastWrite(stopped) EXCEPT !.bugreport = FALSE],
        !.saved[s] = IF t.bugreport THEN @ + 1 ELSE @,
        !.told[s] = IF t.consumer # "none" THEN @ + 1 ELSE @]

DisableTracing(v, s, immediately) ==
  LET now == immediately \/ St(v, s) = "CONFIGURED"
      w == FoldSet(LAMBDA p, u : StopDataSourceInstance(u, s, p, now),
                   v, DOMAIN v.sessions[s].inst)
  IN IF s \notin Live(v) THEN v
     ELSE CASE St(v, s) = "DISABLED" -> v
            [] St(v, s) = "DISABLING_WAITING_STOP_ACKS" ->
                 IF immediately
                 THEN DisableTracingNotifyConsumerAndFlushFile(v, s) ELSE v
            [] OTHER ->
                 IF AllInState(w, s, "STOPPED")
                 THEN DisableTracingNotifyConsumerAndFlushFile(w, s)
                 ELSE [w EXCEPT !.sessions[s].st = "DISABLING_WAITING_STOP_ACKS"]

(* Pending flushes of the session go with it, their callbacks unused.      *)
FreeBuffers(v, s) ==
  IF s \notin Live(v) THEN v
  ELSE [DisableTracing(v, s, TRUE) EXCEPT
          !.sessions = [t \in DOMAIN @ \ {s} |-> @[t]]]

(***************************************************************************)
(* Flushes                                                                 *)
(***************************************************************************)

Mutant_FinalFlushFrees(v, s, by) ==
  IF by # "final" THEN v
  ELSE IF s \notin Live(v) THEN [v EXCEPT !.crashed = TRUE]
  ELSE FreeBuffers(v, s)

(* The callback of a flush: the consumer's and the periodic one only take  *)
(* note; the one of FlushAndDisableTracing() looks its session up again.   *)
FlushCallback(v, s, by) ==
  IF by # "final" THEN v
  ELSE IF s \notin Live(v) THEN [v EXCEPT !.crashed = TRUE]
  ELSE IF v.sessions[s].consumer # "none" THEN DisableTracing(v, s, FALSE)
  ELSE FreeBuffers(v, s)

Mutant_FlushIdKept(v, s, by) ==
  LET t == v.sessions[s]
      f == v.lastFlush + 1
      asked == DOMAIN t.inst
  IN IF s \notin Live(v) THEN v
     ELSE IF Cardinality(t.flushes) > MaxPendingFlushes \/ t.st # "STARTED"
     THEN FlushCallback(v, s, by)
     ELSE [v EXCEPT
             !.sessions[s].flushes = @ \cup
                {[id |-> f, waiting |-> asked, by |-> by,
                  asked |-> asked, acked |-> {}]},
             !.owed = @ \cup {Ack("flush", p, f) : p \in asked}]

(* Every producer with an instance is asked, whatever the instance's state.*)
Flush(v, s, by) ==
  LET t == v.sessions[s]
      f == v.lastFlush + 1
      asked == DOMAIN t.inst
  IN IF s \notin Live(v) THEN v
     ELSE IF Cardinality(t.flushes) > MaxPendingFlushes \/ t.st # "STARTED"
     THEN FlushCallback(v, s, by)
     ELSE [v EXCEPT
             !.lastFlush = f,
             !.sessions[s].flushes = @ \cup
                {[id |-> f, waiting |-> asked, by |-> by,
                  asked |-> asked, acked |-> {}]},
             !.owed = @ \cup {Ack("flush", p, f) : p \in asked}]

FlushAndDisableTracing(v, s) == Flush(v, s, "final")

CompleteFlush(v, s, fl) == FlushCallback(v, s, fl.by)

Mutant_AckCountsForAll(v, p, f) ==
  LET Upto(s) == v.sessions[s].flushes
      Done(s) == {fl \in Upto(s) : fl.waiting \subseteq {p}}
      Left(s) == {[fl EXCEPT !.waiting = fl.waiting \ {p}] : fl \in Upto(s) \ Done(s)}
  IN [v EXCEPT
        !.posted = @ \cup UNION {{[s |-> s, flush |-> fl] : fl \in Done(s)} : s \in Live(v)},
        !.sessions = [s \in Live(v) |->
           [v.sessions[s] EXCEPT !.flushes =
              (v.sessions[s].flushes \ Upto(s)) \cup Left(s)]]]

(* An ack counts for every flush up to the one it names, in all sessions.  *)
NotifyFlushDoneForProducer(v, p, f) ==
  LET Upto(s) == {fl \in v.sessions[s].flushes : fl.id <= f}
      Done(s) == {fl \in Upto(s) : fl.waiting \subseteq {p}}
      Left(s) == {[fl EXCEPT !.waiting = fl.waiting \ {p}] : fl \in Upto(s) \ Done(s)}
  IN [v EXCEPT
        !.posted = @ \cup UNION {{[s |-> s, flush |-> fl] : fl \in Done(s)} : s \in Live(v)},
        !.sessions = [s \in Live(v) |->
           [v.sessions[s] EXCEPT !.flushes =
              (v.sessions[s].flushes \ Upto(s)) \cup Left(s)]]]

(***************************************************************************)
(* Starting                                                                *)
(***************************************************************************)
StartTracing(v, s) ==
  LET t == v.sessions[s]
      timers == (IF t.duration THEN {"duration"} ELSE {})
                  \cup (IF t.cfg.file THEN {"write"} ELSE {})
      w == [v EXCEPT !.sessions[s].st = "STARTED",
                     !.sessions[s].timers = @ \cup timers]
      started == FoldSet(LAMBDA p, u : StartDataSourceInstance(u, s, p),
                         w, DOMAIN t.inst)
  IN IF t.st # "CONFIGURED" THEN v
     ELSE MaybeNotifyAllDataSourcesStarted(started, s)

NewSession(c, cfg, filter) ==
  [st |-> "CONFIGURED", cfg |-> cfg, consumer |-> c, detach_key |-> "none",
   filter |-> filter, inst |-> <<>>, flushes |-> {}, timers |-> {},
   \* STOP triggers time out by way of the duration
   duration |-> cfg.duration \/ cfg.trigger = "STOP",
   triggered |-> FALSE, did_notify |-> FALSE,
   file |-> cfg.file, period |-> cfg.file, written |-> FALSE,
   bugreport |-> FALSE, seized |-> FALSE]

(* Instances set up before the session is CONFIGURED are the same as ones  *)
(* set up just after.                                                      *)
EnableTracing(v, c, cfg, filter) ==
  LET s == v.lastSession + 1
      w == [v EXCEPT !.lastSession = s,
                     !.consumers[c].tsid = s,
                     !.sessions = With(@, s, NewSession(c, cfg, filter))]
      set == FoldSet(LAMBDA p, u : SetupDataSource(u, s, p),
                     w, Registered(v) \cap filter)
  IN IF ~cfg.deferred /\ cfg.trigger # "START" THEN StartTracing(set, s) ELSE set

Running(v, s) == St(v, s) \in {"STARTED", "CONFIGURED"}

ChangeTraceConfig(v, s, filter) ==
  LET added == (Registered(v) \cap filter) \ DOMAIN v.sessions[s].inst
      w == [v EXCEPT !.sessions[s].filter = filter]
  IN IF Running(v, s)
     THEN FoldSet(LAMBDA p, u : SetupAndStart(u, s, p), w, added) ELSE v

RegisterDataSource(v, p) ==
  FoldSet(LAMBDA s, u : SetupAndStart(u, s, p),
          [v EXCEPT !.producer[p] = "ds"],
          {s \in Live(v) : Running(v, s) /\ p \in v.sessions[s].filter})

(***************************************************************************)
(* Acks of instances, and data sources that go away                        *)
(***************************************************************************)
NotifyDataSourceStarted(v, s, p) ==
  IF St(v, s) = "STARTED" /\ v.sessions[s].inst[p].st = "STARTING"
  THEN MaybeNotifyAllDataSourcesStarted(
         [v EXCEPT !.sessions[s].inst[p].st = "STARTED"], s)
  ELSE v

NotifyDataSourceStopped(v, s, p) ==
  LET w == [v EXCEPT !.sessions[s].inst[p].st = "STOPPED"]
  IN IF v.sessions[s].inst[p].st # "STOPPING" THEN v
     ELSE IF /\ AllInState(w, s, "STOPPED")
             /\ St(w, s) = "DISABLING_WAITING_STOP_ACKS"
     THEN DisableTracingNotifyConsumerAndFlushFile(w, s)
     ELSE w

Mutant_RemoveUnacked(v, s, p) ==
  LET w == [v EXCEPT !.sessions[s].inst = [q \in DOMAIN @ \ {p} |-> @[q]]]
  IN MaybeNotifyAllDataSourcesStarted(w, s)

RemoveInstance(v, s, p) ==
  LET i == v.sessions[s].inst[p]
      stop == IF i.st \in {"STOPPED", "STOPPING"} THEN v
              ELSE StopDataSourceInstance(v, s, p, FALSE)
      acked == NotifyDataSourceStopped(stop, s, p)
      w == [acked EXCEPT !.sessions[s].inst = [q \in DOMAIN @ \ {p} |-> @[q]]]
  IN MaybeNotifyAllDataSourcesStarted(w, s)

UnregisterDataSource(v, p) ==
  FoldSet(LAMBDA s, u : RemoveInstance(u, s, p),
          [v EXCEPT !.producer[p] = "idle"],
          {s \in Live(v) : p \in DOMAIN v.sessions[s].inst})

(***************************************************************************)
(* Triggers, files, bugreports                                             *)
(***************************************************************************)
ActivateTrigger(v, s) ==
  LET t == v.sessions[s]
      w == [v EXCEPT !.sessions[s].triggered = TRUE]
  IN CASE t.cfg.trigger = "START" /\ t.st = "CONFIGURED" ->
            StartTracing([w EXCEPT !.sessions[s].duration = t.cfg.stopDelay], s)
       [] t.cfg.trigger = "STOP" /\ ~t.triggered ->
            [w EXCEPT !.sessions[s].timers = @ \cup {"stop"}]
       [] OTHER -> w

(* "full": the file reached max_file_size_bytes, or a write failed.        *)
ReadBuffersIntoFile(v, s, full) ==
  LET t == v.sessions[s]
      Last(w) == [w EXCEPT !.sessions[s].timers = @ \ {"write"}]
      written == [v EXCEPT !.sessions[s].written = TRUE]
      closed == Last([written EXCEPT !.sessions[s].file = FALSE,
                                     !.sessions[s].period = FALSE])
  IN CASE ~t.file \/ (~t.seized /\ IsWaitingForTrigger(t)) -> Last(v)
       [] OTHER -> IF full \/ ~t.period
                   THEN IF t.st = "STARTED" THEN DisableTracing(closed, s, FALSE)
                                            ELSE closed
                   ELSE written

Eligible(v) == {s \in Live(v) : /\ v.sessions[s].cfg.score > 0
                                /\ St(v, s) = "STARTED"
                                /\ ~(v.sessions[s].file /\ v.sessions[s].written)}

(* The best session is stolen, the first of equals.  Whatever its own file *)
(* was, it now writes to the one temporary file of bugreports.             *)
MaybeSaveTraceForBugreport(v) ==
  LET Score(s) == v.sessions[s].cfg.score
      top == Max({Score(s) : s \in Eligible(v)})
      best == Min({s \in Eligible(v) : Score(s) = top})
  IN IF \/ Eligible(v) = {}
        \/ \E s \in Eligible(v) : v.sessions[s].bugreport
     THEN v
     ELSE [v EXCEPT !.sessions[best].file = TRUE,
                    !.sessions[best].bugreport = TRUE,
                    !.sessions[best].seized = TRUE,
                    !.sessions[best].timers = @ \cup {"seize"}]

(***************************************************************************)
(* Calls of producers                                                      *)
(***************************************************************************)

(* Acks that can have no effect any more are forgotten: of an instance or  *)
(* a producer that is gone, of flushes none of which is pending.           *)
Matters(v, a) ==
  IF a.k = "flush"
  THEN \E s \in Live(v) : \E fl \in v.sessions[s].flushes : fl.id <= a.id
  ELSE \E s \in Live(v) : /\ a.p \in DOMAIN v.sessions[s].inst
                          /\ v.sessions[s].inst[a.p].id = a.id
Step(v) ==
  /\ ~svc.crashed
  /\ svc' = [v EXCEPT !.owed = {a \in @ : Matters(v, a)}]
  /\ UNCHANGED scenario

Call(name) == name \in scenario.calls
Early == svc.lastSession = 0

ConnectProducer(p) ==
  /\ Early \/ Call("late")
  /\ svc.producer[p] = "new"
  /\ Step([svc EXCEPT !.producer[p] = "idle"])

Register(p) ==
  /\ Early \/ Call("late")
  /\ svc.producer[p] = "idle"
  /\ Step(RegisterDataSource(svc, p))
  /\ svc'.lastInstance <= scenario.instances

Unregister(p) ==
  /\ Call("leave")
  /\ svc.producer[p] = "ds"
  /\ Step(UnregisterDataSource(svc, p))

DisconnectProducer(p) ==
  LET v == IF svc.producer[p] = "ds" THEN UnregisterDataSource(svc, p) ELSE svc
  IN /\ Call("leave")
     /\ svc.producer[p] \in {"idle", "ds"}
     /\ Step([v EXCEPT !.producer[p] = "gone",
                       !.owed = {a \in @ : a.p # p}])

(* Notes for SuccessIsEarned that p acked the flushes up to f.             *)
RecordAck(v, p, f) ==
  LET Acked(fl) == IF fl.id <= f THEN [fl EXCEPT !.acked = fl.acked \cup {p}] ELSE fl
  IN [v EXCEPT !.sessions = [s \in Live(v) |->
        [v.sessions[s] EXCEPT !.flushes = {Acked(fl) : fl \in v.sessions[s].flushes}]]]

(* An ack reaches the service: in any order, some never.                   *)
AckArrives(a) ==
  LET v == [svc EXCEPT !.owed = @ \ {a}]
      where == {s \in Live(v) : /\ a.p \in DOMAIN v.sessions[s].inst
                                /\ v.sessions[s].inst[a.p].id = a.id}
  IN Step(CASE a.k = "flush" -> 
                 NotifyFlushDoneForProducer(RecordAck(v, a.p, a.id), a.p, a.id)
            [] a.k = "started" ->
                 FoldSet(LAMBDA s, u : NotifyDataSourceStarted(u, s, a.p), v, where)
            [] a.k = "stopped" ->
                 FoldSet(LAMBDA s, u : NotifyDataSourceStopped(u, s, a.p), v, where))

(* A producer activates a trigger: its name, producer_name_regex,          *)
(* skip_probability and max_per_24_h decide which sessions it reaches.     *)
ActivateTriggers(p, reached) ==
  /\ svc.producer[p] \in {"idle", "ds"}
  /\ reached # {}
  /\ Step(FoldSet(LAMBDA s, u : ActivateTrigger(u, s), svc, reached))

(***************************************************************************)
(* Calls of consumers                                                      *)
(***************************************************************************)
ConnectConsumer(c) ==
  /\ c \notin DOMAIN svc.consumers
  /\ Step([svc EXCEPT !.consumers = With(@, c, [tsid |-> 0, watching |-> FALSE])])

DisconnectConsumer(c) ==
  /\ Call("leave")
  /\ c \in DOMAIN svc.consumers
  /\ LET v == FreeBuffers(svc, svc.consumers[c].tsid)
     IN Step([v EXCEPT !.consumers = [d \in DOMAIN @ \ {c} |-> @[d]]])

(* The consumer calls with the session it has.                             *)
HasSession(c, s) == c \in DOMAIN svc.consumers /\ svc.consumers[c].tsid = s

Enable(c, cfg, filter) ==
  /\ HasSession(c, 0)
  /\ Cardinality(Live(svc)) < MaxConcurrentTracingSessions
  /\ svc.lastSession < scenario.sessions
  /\ Step(EnableTracing(svc, c, cfg, filter))
  /\ svc'.lastInstance <= scenario.instances

Change(c, s, filter) ==
  /\ Call("change")
  /\ HasSession(c, s)
  /\ Step(ChangeTraceConfig(svc, s, filter))
  /\ svc'.lastInstance <= scenario.instances

Start(c, s) == HasSession(c, s) /\ Step(StartTracing(svc, s))

Disable(c, s) == HasSession(c, s) /\ Step(DisableTracing(svc, s, FALSE))

Free(c, s) ==
  /\ HasSession(c, s)
  /\ Step([FreeBuffers(svc, s) EXCEPT !.consumers[c].tsid = 0])

FlushSession(c, s) ==
  /\ Call("flush")
  /\ HasSession(c, s)
  /\ Step(Flush(svc, s, "consumer"))
  /\ svc'.lastFlush <= scenario.flushes

Detached(v, k) == {s \in Live(v) : v.sessions[s].detach_key = k}

Detach(c, s, k) ==
  /\ Call("detach")
  /\ HasSession(c, s)
  /\ Detached(svc, k) = {}
  /\ Step([svc EXCEPT !.sessions[s].consumer = "none",
                      !.sessions[s].detach_key = k,
                      !.consumers[c].tsid = 0])

Attach(c, s, k) ==
  /\ HasSession(c, 0)
  /\ s \in Detached(svc, k)
  /\ Step([svc EXCEPT !.sessions[s].consumer = c,
                      !.sessions[s].detach_key = "none",
                      !.consumers[c].tsid = s])

ObserveEvents(c, watching) ==
  LET v == [svc EXCEPT !.consumers[c].watching = watching]
      s == svc.consumers[c].tsid
  IN /\ Call("observe")
     /\ c \in DOMAIN svc.consumers
     /\ Step(IF s # 0 /\ watching
             THEN MaybeNotifyAllDataSourcesStarted(v, s) ELSE v)

SaveTraceForBugreport(c) ==
  Call("save") /\ c \in DOMAIN svc.consumers /\ Step(MaybeSaveTraceForBugreport(svc))

(***************************************************************************)
(* Tasks of the service                                                    *)
(***************************************************************************)
CompletePosted(t) ==
  Step(CompleteFlush([svc EXCEPT !.posted = @ \ {t}], t.s, t.flush))

Mutant_TimeoutWaitsForAcks(s, fl) ==
  /\ fl.waiting = {}
  /\ Step(CompleteFlush([svc EXCEPT !.sessions[s].flushes = @ \ {fl}], s, fl))

OnFlushTimeout(s, fl) ==
  Step(CompleteFlush([svc EXCEPT !.sessions[s].flushes = @ \ {fl}], s, fl))

OnDisableTracingTimeout(s) ==
  /\ St(svc, s) = "DISABLING_WAITING_STOP_ACKS"
  /\ Step(DisableTracingNotifyConsumerAndFlushFile(svc, s))

OnStartTriggersTimeout(s) ==
  /\ svc.sessions[s].cfg.trigger = "START"
  /\ St(svc, s) = "CONFIGURED"
  /\ Step(DisableTracing(svc, s, FALSE))

TimerRan(s, timer) == [svc EXCEPT !.sessions[s].timers = @ \ {timer}]

Mutant_AnyTriggerOverrides(s) ==
  LET t == svc.sessions[s]
      v == TimerRan(s, "duration")
  IN /\ "duration" \in t.timers
     /\ Step(IF t.triggered THEN v ELSE FlushAndDisableTracing(v, s))

OnDuration(s) ==
  LET t == svc.sessions[s]
      v == TimerRan(s, "duration")
  IN /\ "duration" \in t.timers
     /\ Step(IF t.cfg.trigger = "STOP" /\ t.triggered
             THEN v ELSE FlushAndDisableTracing(v, s))

(* The stop delay of a STOP trigger, and the task posted by                *)
(* MaybeSaveTraceForBugreport().                                           *)
OnStopTimer(s, timer) ==
  /\ timer \in {"stop", "seize"} \cap svc.sessions[s].timers
  /\ Step(FlushAndDisableTracing(TimerRan(s, timer), s))

OnWritePeriod(s, full) ==
  /\ "write" \in svc.sessions[s].timers
  /\ Step(ReadBuffersIntoFile(svc, s, full))

PeriodicFlushTask(s) ==
  /\ svc.sessions[s].cfg.flushPeriod
  /\ St(svc, s) = "STARTED"
  /\ Step(Flush(svc, s, "periodic"))
  /\ svc'.lastFlush <= scenario.flushes

(* The tasks that are posted once and run in the end.                      *)
ServiceTask ==
  \/ \E t \in svc.posted : CompletePosted(t)
  \/ \E s \in Live(svc) :
       \/ \E fl \in svc.sessions[s].flushes : OnFlushTimeout(s, fl)
       \/ OnDisableTracingTimeout(s)
       \/ OnStartTriggersTimeout(s)
       \/ OnDuration(s)
       \/ \E timer \in {"stop", "seize"} : OnStopTimer(s, timer)

Next ==
  \/ ServiceTask
  \/ \E s \in Live(svc) : \/ \E full \in BOOLEAN : OnWritePeriod(s, full)
                          \/ PeriodicFlushTask(s)
  \/ \E p \in UNION scenario.filters :
       \/ ConnectProducer(p) \/ Register(p) \/ Unregister(p) \/ DisconnectProducer(p)
       \/ \E reached \in SUBSET {s \in Live(svc) :
                                   svc.sessions[s].cfg.trigger # "none"} :
            ActivateTriggers(p, reached)
  \/ \E a \in svc.owed : AckArrives(a)
  \/ \E c \in scenario.consumers :
       \/ ConnectConsumer(c) \/ DisconnectConsumer(c)
       \/ \E cfg \in scenario.configs, filter \in scenario.filters : Enable(c, cfg, filter)
       \/ \E s \in Live(svc) :
            \/ \E filter \in scenario.filters : Change(c, s, filter)
            \/ Start(c, s) \/ Disable(c, s) \/ Free(c, s) \/ FlushSession(c, s)
            \/ \E k \in Keys : Detach(c, s, k) \/ Attach(c, s, k)
       \/ \E watching \in BOOLEAN : ObserveEvents(c, watching)
       \/ SaveTraceForBugreport(c)

Spec == Init /\ [][Next]_vars /\ WF_vars(ServiceTask)

(***************************************************************************)
(* Properties                                                              *)
(***************************************************************************)
InstanceState == {"CONFIGURED", "STARTING", "STARTED", "STOPPING", "STOPPED"}
SessionState ==
  {"CONFIGURED", "STARTED", "DISABLING_WAITING_STOP_ACKS", "DISABLED"}

(* Type invariant: ids stay below the last one handed out, and what is     *)
(* pending or owed names producers and flushes that exist.                 *)
TypeOK ==
  /\ Live(svc) \subseteq 1 .. svc.lastSession
  /\ svc.producer \in [Producers -> {"new", "idle", "ds", "gone"}]
  /\ DOMAIN svc.consumers \subseteq Consumers
  /\ \A a \in svc.owed :
       /\ a.k \in {"started", "stopped", "flush"} /\ a.p \in Producers
       /\ a.id \in 1 .. (IF a.k = "flush" THEN svc.lastFlush ELSE svc.lastInstance)
  /\ \A s \in Live(svc) : LET t == svc.sessions[s] IN
       /\ t.st \in SessionState
       /\ t.consumer \in Consumers \cup {"none"}
       /\ t.detach_key \in Keys \cup {"none"}
       /\ t.timers \subseteq {"duration", "write", "stop", "seize"}
       /\ DOMAIN t.inst \subseteq Producers
       /\ \A p \in DOMAIN t.inst : /\ t.inst[p].st \in InstanceState
                                   /\ t.inst[p].id \in 1 .. svc.lastInstance
       /\ \A fl \in t.flushes : /\ fl.id \in 1 .. svc.lastFlush
                                /\ fl.waiting \subseteq fl.asked
                                /\ fl.asked \subseteq Producers

(* The states of a session and of its instances agree, as the DCHECKs of   *)
(* StartDataSourceInstance(), DisableTracing(), OnDisableTracingTimeout()  *)
(* and FreeBuffers() require: a session waits for stop acks exactly while  *)
(* one is missing, however acks, timeouts and departing producers race;    *)
(* and every instance belongs to a data source that is still registered    *)
(* (the handlers use GetProducer() unchecked).                             *)
InstancesMatchSession ==
  \A s \in Live(svc) : LET t == svc.sessions[s]
                           states == {t.inst[p].st : p \in DOMAIN t.inst} IN
    /\ DOMAIN t.inst \subseteq Registered(svc)
    /\ t.st = "CONFIGURED" => states \subseteq {"CONFIGURED"}
    /\ t.st = "STARTED" => states \subseteq {"STARTING", "STARTED"}
    /\ t.st = "DISABLING_WAITING_STOP_ACKS" =>
         "STOPPING" \in states /\ states \subseteq {"STOPPING", "STOPPED"}
    /\ t.st = "DISABLED" => states \subseteq {"STOPPED"}

(* A consumer and its session point at each other, across detach, attach,  *)
(* disconnect and a session that the service frees by itself: nothing      *)
(* dangles (consumer_maybe_null, tracing_session_id_), and of the sessions *)
(* detached under a key there is one.                                      *)
ConsumerLinks ==
  /\ \A c \in DOMAIN svc.consumers : LET s == svc.consumers[c].tsid IN
       s # 0 => s \in Live(svc) /\ svc.sessions[s].consumer = c
  /\ \A s \in Live(svc) : LET c == svc.sessions[s].consumer IN
       /\ c # "none" => HasSession(c, s)
       /\ c = "none" <=> svc.sessions[s].detach_key # "none"
  /\ \A k \in Keys : Cardinality(Detached(svc, k)) <= 1

(* A flush is reported as a success only when every producer it asked has  *)
(* acked it or a later one (tracing_service.h, Flush(): "once all of them  *)
(* have acked"), although acks come in any order, name other flushes and   *)
(* race the timeout: a posted CompleteFlush() reports one, and so does the *)
(* timeout of a flush that waits for nobody.                               *)
SuccessIsEarned ==
  /\ \A t \in svc.posted : t.flush.asked \subseteq t.flush.acked
  /\ \A s \in Live(svc) : \A fl \in svc.sessions[s].flushes :
       fl.waiting = {} => fl.asked = {}

(* What a session goes through, as SessionLifecycle promises.              *)
Phase(s) ==
  CASE s > svc.lastSession -> "none"
    [] s \in Live(svc) -> St(svc, s)
    [] OTHER -> "gone"
Life ==
  [s \in SessionIDs |->
     [phase |-> Phase(s),
      attached |-> s \in Live(svc) /\ svc.sessions[s].consumer # "none",
      seized |-> s \in Live(svc) /\ svc.sessions[s].bugreport,
      told |-> svc.told[s],
      saved |-> svc.saved[s]]]
Abstract == INSTANCE SessionLifecycle WITH life <- Life
Lifecycle == Abstract!Spec

Over(s) == s <= svc.lastSession /\ (s \in Live(svc) => St(svc, s) = "DISABLED")

(* A started session that has a duration, a STOP trigger that fired or a   *)
(* bugreport waiting for it ends, whatever its producers and consumers do  *)
(* or fail to do.                                                          *)
SessionsEnd ==
  \A s \in SessionIDs :
    (s \in Live(svc) /\ svc.sessions[s].timers \ {"write"} # {})
      ~> (Over(s) \/ svc.crashed)

(* Every flush ends: its callback runs, by an ack or by the timeout, unless*)
(* its session is freed first (OnFlushTimeout, CompleteFlush).             *)
(* MaxFlushes is as large as the flush ids of the scenarios get.           *)
MaxFlushes == Max({c.flushes : c \in Scenarios}) + MaxSessions
FlushPending(f) ==
  \/ \E t \in svc.posted : t.flush.id = f
  \/ \E s \in Live(svc) : \E fl \in svc.sessions[s].flushes : fl.id = f
FlushesAreAnswered ==
  \A f \in 1 .. MaxFlushes : []<>(~FlushPending(f) \/ svc.crashed)

(* tracing_service_impl.h says GetTracingSession() returns "nullptr if the *)
(* session doesn't exists": callers look before they use it.               *)
NoNullSession == ~svc.crashed
=============================================================================
