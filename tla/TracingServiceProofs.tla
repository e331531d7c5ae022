------------------------- MODULE TracingServiceProofs -------------------------
(***************************************************************************)
(* Proofs about the sessions of the service, for any producers, consumers, *)
(* sessions and scenarios: the inductive invariant ServiceInv, the         *)
(* properties that follow from it, and that the service implements         *)
(* SessionLifecycle.                                                       *)
(*                                                                         *)
(* The first part is about the handlers: each of them keeps a good state   *)
(* good and moves the sessions as SessionLifecycle allows.  A handler that *)
(* works on one session is Local to it; a loop over producers or sessions  *)
(* is a fold, about which FoldInduction proves by induction.  The second   *)
(* part is about the actions and the specification.                        *)
(***************************************************************************)
EXTENDS TracingService, FiniteSetTheorems, TLAPS

(***************************************************************************)
(* The invariant                                                           *)
(***************************************************************************)
ServiceFields ==
  {"sessions", "consumers", "producer", "owed", "posted", "lastSession",
   "lastInstance", "lastFlush", "crashed", "told", "saved", "noticed"}
SessionFields ==
  {"st", "cfg", "consumer", "detach_key", "filter", "inst", "flushes", "timers",
   "duration", "triggered", "did_notify", "file", "period", "written",
   "bugreport", "seized"}
Instance(n) == [id : 1 .. n, st : InstanceState]
PendingFlush(n) ==
  [id : 1 .. n, waiting : SUBSET Producers, by : {"consumer", "periodic", "final"},
   asked : SUBSET Producers, acked : SUBSET Producers]

InstancesType(t, n) == DOMAIN t.inst \subseteq Producers /\ \A p \in DOMAIN t.inst : t.inst[p] \in Instance(n)
FlushesType(t, n) == \A fl \in t.flushes : fl \in PendingFlush(n) /\ fl.waiting \subseteq fl.asked
SessionType(t) ==
  /\ DOMAIN t = SessionFields
  /\ t.st \in SessionState /\ t.cfg \in Config
  /\ t.consumer \in Consumers \cup {"none"} /\ t.detach_key \in Keys \cup {"none"}
  /\ t.timers \subseteq {"duration", "write", "stop", "seize"}
  /\ t.bugreport \in BOOLEAN
OwedType(v) == \A a \in v.owed :
  /\ a.k \in {"started", "stopped", "flush"} /\ a.p \in Producers
  /\ a.id \in 1 .. (IF a.k = "flush" THEN v.lastFlush ELSE v.lastInstance)
Numbers(v) ==
  /\ v.lastSession \in 0 .. MaxSessions /\ v.lastInstance \in Nat /\ v.lastFlush \in Nat
  /\ Live(v) \subseteq 1 .. v.lastSession
Clients(v) ==
  /\ v.producer \in [Producers -> {"new", "idle", "ds", "gone"}]
  /\ DOMAIN v.consumers \subseteq Consumers
  /\ \A c \in DOMAIN v.consumers : v.consumers[c] \in [tsid : Nat, watching : BOOLEAN]
History(v) == v.told \in [SessionIDs -> Nat] /\ v.saved \in [SessionIDs -> Nat]

(* What holds of the service also within a handler.                        *)
ServiceType(v) ==
  /\ DOMAIN v = ServiceFields /\ Numbers(v) /\ Clients(v) /\ History(v) /\ OwedType(v)
  /\ \A s \in Live(v) : /\ SessionType(v.sessions[s])
                        /\ InstancesType(v.sessions[s], v.lastInstance)
                        /\ FlushesType(v.sessions[s], v.lastFlush)

(***************************************************************************)
(* Handlers of one session                                                 *)
(***************************************************************************)
(* A handler of session s took the service from v to r: it left the other  *)
(* sessions, the clients and the flushes alone.                            *)
Elsewhere(v, r, s) ==
  /\ DOMAIN r.sessions = DOMAIN v.sessions
  /\ \A x \in DOMAIN v.sessions : x # s => r.sessions[x] = v.sessions[x]
  /\ \A x \in SessionIDs : x # s => r.told[x] = v.told[x] /\ r.saved[x] = v.saved[x]
Outside(v, r) ==
  /\ r.consumers = v.consumers /\ r.producer = v.producer /\ r.posted = v.posted
  /\ r.lastSession = v.lastSession /\ r.lastFlush = v.lastFlush /\ r.crashed = v.crashed
Kept(t, q) ==
  /\ q.consumer = t.consumer /\ q.detach_key = t.detach_key /\ q.flushes = t.flushes
  /\ q.cfg = t.cfg
Local(v, r, s) ==
  /\ ServiceType(r) /\ Outside(v, r) /\ Elsewhere(v, r, s)
  /\ Kept(v.sessions[s], r.sessions[s])

(* It did not change the state of the session, nor report anything.        *)
Stays(v, r, s) ==
  /\ r.sessions[s].st = v.sessions[s].st /\ r.sessions[s].bugreport = v.sessions[s].bugreport
  /\ r.told[s] = v.told[s] /\ r.saved[s] = v.saved[s]

LEMMA LocalRefl ==
  ASSUME NEW v, NEW s, ServiceType(v)
  PROVE  Local(v, v, s) /\ Stays(v, v, s)
BY DEF Local, Outside, Elsewhere, Kept, Stays

LEMMA LocalTrans ==
  ASSUME NEW v, NEW w, NEW r, NEW s, Local(v, w, s), Local(w, r, s)
  PROVE  /\ Local(v, r, s)
         /\ Stays(v, w, s) /\ Stays(w, r, s) => Stays(v, r, s)
<1>1. Outside(v, r)
  BY DEF Local, Outside
<1>2. Elsewhere(v, r, s)
  BY DEF Local, Elsewhere
<1>3. Kept(v.sessions[s], r.sessions[s])
  BY DEF Local, Kept
<1>4. Stays(v, w, s) /\ Stays(w, r, s) => Stays(v, r, s)
  BY DEF Stays
<1> QED BY <1>1, <1>2, <1>3, <1>4 DEF Local

(* A new record t for session s.                                           *)
Puts(v, r, s, t) ==
  /\ DOMAIN r = ServiceFields /\ Outside(v, r) /\ History(r)
  /\ r.sessions = [v.sessions EXCEPT ![s] = t]
  /\ r.lastInstance \in Nat /\ v.lastInstance <= r.lastInstance /\ OwedType(r)
  /\ \A x \in SessionIDs : x # s => r.told[x] = v.told[x] /\ r.saved[x] = v.saved[x]
Fits(q, t, n) == SessionType(t) /\ InstancesType(t, n) /\ Kept(q, t)

LEMMA PutSession ==
  ASSUME NEW v, ServiceType(v), NEW s \in Live(v), NEW t, NEW r, Puts(v, r, s, t),
         Fits(v.sessions[s], t, r.lastInstance)
  PROVE  Local(v, r, s) /\ r.sessions[s] = t
<1>0. /\ DOMAIN r = ServiceFields /\ Outside(v, r) /\ History(r)
      /\ r.sessions = [v.sessions EXCEPT ![s] = t]
      /\ r.lastInstance \in Nat /\ v.lastInstance <= r.lastInstance /\ OwedType(r)
      /\ \A x \in SessionIDs : x # s => r.told[x] = v.told[x] /\ r.saved[x] = v.saved[x]
      /\ SessionType(t) /\ InstancesType(t, r.lastInstance) /\ Kept(v.sessions[s], t)
  BY DEF Puts, Fits
<1>1. /\ DOMAIN r.sessions = DOMAIN v.sessions /\ r.sessions[s] = t
      /\ \A x \in DOMAIN v.sessions : x # s => r.sessions[x] = v.sessions[x]
  BY <1>0 DEF Live
<1>2. Elsewhere(v, r, s)
  BY <1>0, <1>1 DEF Elsewhere
<1>3. Numbers(r)
  BY <1>0, <1>1 DEF ServiceType, Numbers, Outside, Live
<1>4. Clients(r)
  BY <1>0 DEF ServiceType, Clients, Outside
<1>5. ASSUME NEW x \in Live(r)
      PROVE  /\ SessionType(r.sessions[x])
             /\ InstancesType(r.sessions[x], r.lastInstance)
             /\ FlushesType(r.sessions[x], r.lastFlush)
  <2>0. v.lastInstance \in Nat /\ v.lastFlush \in Nat /\ r.lastFlush = v.lastFlush
    BY <1>0 DEF ServiceType, Numbers, Outside
  <2>1. CASE x = s
    <3>1. FlushesType(v.sessions[s], v.lastFlush)
      BY DEF ServiceType
    <3>2. FlushesType(t, r.lastFlush)
      BY <1>0, <2>0, <3>1 DEF Kept, FlushesType
    <3> QED BY <1>0, <1>1, <2>1, <3>2
  <2>2. CASE x # s
    <3>1. x \in Live(v) /\ r.sessions[x] = v.sessions[x]
      BY <1>1, <2>2 DEF Live
    <3>2. InstancesType(v.sessions[x], v.lastInstance)
      BY <3>1 DEF ServiceType
    <3>3. InstancesType(v.sessions[x], r.lastInstance)
      BY <1>0, <2>0, <3>2 DEF InstancesType, Instance
    <3> QED BY <2>0, <3>1, <3>3 DEF ServiceType
  <2> QED BY <2>1, <2>2
<1>6. ServiceType(r)
  BY <1>0, <1>3, <1>4, <1>5 DEF ServiceType
<1> QED BY <1>0, <1>1, <1>2, <1>6 DEF Local

LEMMA TypeFacts ==
  ASSUME NEW v, ServiceType(v), NEW s \in Live(v)
  PROVE  /\ DOMAIN v = ServiceFields /\ s \in DOMAIN v.sessions /\ s \in SessionIDs
         /\ DOMAIN v.sessions[s] = SessionFields /\ SessionType(v.sessions[s])
         /\ InstancesType(v.sessions[s], v.lastInstance)
         /\ v.lastInstance \in Nat /\ v.lastFlush \in Nat
         /\ History(v) /\ OwedType(v)
<1>1. /\ DOMAIN v = ServiceFields /\ s \in DOMAIN v.sessions
      /\ DOMAIN v.sessions[s] = SessionFields /\ SessionType(v.sessions[s])
      /\ InstancesType(v.sessions[s], v.lastInstance)
      /\ v.lastInstance \in Nat /\ v.lastFlush \in Nat /\ History(v) /\ OwedType(v)
      /\ v.lastSession \in 0 .. MaxSessions /\ s \in 1 .. v.lastSession
  BY DEF ServiceType, SessionType, Numbers, Live
<1>2. s \in SessionIDs
  BY <1>1, ServiceConstants DEF SessionIDs
<1> QED BY <1>1, <1>2

(* Records of a session that differ in other fields.                       *)
SameType(t, q) ==
  /\ DOMAIN q = SessionFields
  /\ q.consumer = t.consumer /\ q.detach_key = t.detach_key /\ q.flushes = t.flushes
  /\ q.cfg = t.cfg

LEMMA ChangedRecord ==
  ASSUME NEW t, SessionType(t), NEW q, SameType(t, q), q.st \in SessionState,
         q.timers \subseteq {"duration", "write", "stop", "seize"}, q.bugreport \in BOOLEAN
  PROVE  SessionType(q) /\ Kept(t, q)
BY DEF SessionType, SameType, Kept

(* Steps that only change the record of the session, the acks that are     *)
(* awaited and the notice to the consumer.                                 *)
Becomes(v, s, t, o, n) ==
  [v EXCEPT !.sessions = [v.sessions EXCEPT ![s] = t], !.owed = o, !.noticed = n]
AsksFor(v, s, o) ==
  \A a \in o \ v.owed : \E p \in DOMAIN v.sessions[s].inst :
     \E k \in {"started", "stopped"} : a = Ack(k, p, v.sessions[s].inst[p].id)

LEMMA PutQuietly ==
  ASSUME NEW v, ServiceType(v), NEW s \in Live(v), NEW t, NEW o, NEW n, NEW r,
         r = Becomes(v, s, t, o, n), AsksFor(v, s, o), Fits(v.sessions[s], t, v.lastInstance)
  PROVE  /\ Local(v, r, s) /\ r.sessions[s] = t /\ r.lastInstance = v.lastInstance
         /\ r.told[s] = v.told[s] /\ r.saved[s] = v.saved[s]
<1>1. PICK S : S = [v.sessions EXCEPT ![s] = t]
  OBVIOUS
<1>2. DOMAIN v = ServiceFields
  BY DEF ServiceType
<1>3. r = [v EXCEPT !.sessions = S, !.owed = o, !.noticed = n]
  BY <1>1 DEF Becomes
<1>4. /\ DOMAIN r = ServiceFields /\ r.sessions = S /\ r.owed = o
      /\ r.consumers = v.consumers /\ r.producer = v.producer /\ r.posted = v.posted
      /\ r.lastSession = v.lastSession /\ r.lastFlush = v.lastFlush /\ r.crashed = v.crashed
      /\ r.told = v.told /\ r.saved = v.saved /\ r.lastInstance = v.lastInstance
  BY <1>2, <1>3 DEF ServiceFields
<1>5. Outside(v, r) /\ History(r)
  BY <1>4, TypeFacts DEF Outside, History
<1>6. OwedType(r)
  <2>1. SUFFICES ASSUME NEW a \in o
        PROVE  /\ a.k \in {"started", "stopped", "flush"} /\ a.p \in Producers
               /\ a.id \in 1 .. (IF a.k = "flush" THEN v.lastFlush ELSE v.lastInstance)
    BY <1>4 DEF OwedType
  <2>2. CASE a \in v.owed
    BY <2>2, TypeFacts DEF OwedType
  <2>3. CASE a \notin v.owed
    <3>1. PICK p \in DOMAIN v.sessions[s].inst, k \in {"started", "stopped"} :
            a = Ack(k, p, v.sessions[s].inst[p].id)
      BY <2>3 DEF AsksFor
    <3>2. p \in Producers /\ v.sessions[s].inst[p] \in Instance(v.lastInstance)
      BY TypeFacts DEF InstancesType
    <3>3. v.sessions[s].inst[p].id \in 1 .. v.lastInstance
      BY <3>2 DEF Instance
    <3> QED BY <3>1, <3>2, <3>3 DEF Ack
  <2> QED BY <2>2, <2>3
<1>7. /\ r.sessions = [v.sessions EXCEPT ![s] = t]
      /\ r.lastInstance \in Nat /\ v.lastInstance <= r.lastInstance
      /\ Fits(v.sessions[s], t, r.lastInstance)
      /\ \A x \in SessionIDs : x # s => r.told[x] = v.told[x] /\ r.saved[x] = v.saved[x]
  <2>1. v.lastInstance \in Nat
    BY TypeFacts
  <2>2. r.sessions = [v.sessions EXCEPT ![s] = t] /\ Fits(v.sessions[s], t, r.lastInstance)
    BY <1>1, <1>4
  <2> QED BY <1>4, <2>1, <2>2
<1>8. Local(v, r, s) /\ r.sessions[s] = t
  <2>1. Puts(v, r, s, t)
    BY <1>4, <1>5, <1>6, <1>7 DEF Puts
  <2>2. Fits(v.sessions[s], t, r.lastInstance)
    BY <1>7
  <2> QED BY <2>1, <2>2, PutSession
<1> QED BY <1>4, <1>8

LEMMA NotifyAllStartedLocal ==
  ASSUME NEW v, ServiceType(v), NEW s \in Live(v),
         NEW r, r = MaybeNotifyAllDataSourcesStarted(v, s)
  PROVE  /\ Local(v, r, s) /\ Stays(v, r, s)
         /\ r.sessions[s].inst = v.sessions[s].inst
<1> DEFINE c == v.sessions[s].consumer
           quiet == \/ c = "none" \/ ~AllInState(v, s, "STARTED") \/ v.sessions[s].did_notify
<1>1. CASE quiet
  <2>1. r = v
    BY <1>1 DEF MaybeNotifyAllDataSourcesStarted
  <2> QED BY <2>1, LocalRefl
<1>2. CASE ~quiet
  <2>1. PICK t, n : /\ t = [v.sessions[s] EXCEPT !.did_notify = TRUE]
                    /\ n = IF v.consumers[c].watching THEN v.noticed \cup {s} ELSE v.noticed
    OBVIOUS
  <2>2. DOMAIN v = ServiceFields /\ DOMAIN v.sessions[s] = SessionFields
    BY TypeFacts
  <2>3. r = Becomes(v, s, t, v.owed, n)
    <3>1. r = [v EXCEPT !.sessions[s].did_notify = TRUE,
                        !.noticed = IF v.consumers[c].watching THEN @ \cup {s} ELSE @]
      BY <1>2 DEF MaybeNotifyAllDataSourcesStarted
    <3>2. PICK S : S = [v.sessions EXCEPT ![s] = t]
      OBVIOUS
    <3>3. r = [v EXCEPT !.sessions = S, !.noticed = n]
      BY <2>1, <2>2, <3>1, <3>2 DEF ServiceFields
    <3>4. r = [v EXCEPT !.sessions = S, !.owed = v.owed, !.noticed = n]
      BY <2>2, <3>3 DEF ServiceFields
    <3> QED BY <3>2, <3>4 DEF Becomes
  <2>4. /\ Fits(v.sessions[s], t, v.lastInstance)
        /\ t.inst = v.sessions[s].inst /\ t.st = v.sessions[s].st
        /\ t.bugreport = v.sessions[s].bugreport
    <3>1. PICK q : q = v.sessions[s]
      OBVIOUS
    <3>2. /\ SameType(q, t) /\ t.inst = q.inst /\ t.st = q.st /\ t.bugreport = q.bugreport
          /\ t.timers = q.timers
      BY <2>1, <2>2, <3>1 DEF SessionFields, SameType
    <3>3. SessionType(q) /\ InstancesType(q, v.lastInstance)
      BY <3>1, TypeFacts
    <3>4. /\ t.st \in SessionState /\ t.bugreport \in BOOLEAN
          /\ t.timers \subseteq {"duration", "write", "stop", "seize"}
          /\ InstancesType(t, v.lastInstance)
      BY <3>2, <3>3 DEF SessionType, InstancesType
    <3> QED BY <3>1, <3>2, <3>3, <3>4, ChangedRecord DEF Fits
  <2>5. /\ Local(v, r, s) /\ r.sessions[s] = t
        /\ r.told[s] = v.told[s] /\ r.saved[s] = v.saved[s]
    <3>1. AsksFor(v, s, v.owed)
      BY DEF AsksFor
    <3> HIDE DEF c
    <3> QED BY <2>3, <2>4, <3>1, PutQuietly
  <2> QED BY <2>4, <2>5 DEF Stays
<1> QED BY <1>1, <1>2

(* Other instances for a session, with ids up to m.                        *)
LEMMA PutInstances ==
  ASSUME NEW q, SessionType(q), NEW m, NEW J, DOMAIN J \subseteq Producers,
         \A p \in DOMAIN J : J[p] \in Instance(m), NEW t, t = [q EXCEPT !.inst = J]
  PROVE  /\ Fits(q, t, m) /\ t.inst = J /\ t.st = q.st /\ t.bugreport = q.bugreport
<1>1. DOMAIN q = SessionFields
  BY DEF SessionType
<1>2. /\ SameType(q, t) /\ t.inst = J /\ t.st = q.st /\ t.bugreport = q.bugreport
      /\ t.timers = q.timers
  BY <1>1 DEF SessionFields, SameType
<1>3. /\ t.st \in SessionState /\ t.bugreport \in BOOLEAN
      /\ t.timers \subseteq {"duration", "write", "stop", "seize"}
      /\ InstancesType(t, m)
  BY <1>2 DEF SessionType, InstancesType
<1> QED BY <1>2, <1>3, ChangedRecord DEF Fits

(* Another state x for the instance of producer p.                         *)
InstanceSet(v, r, s, p, x) ==
  LET i == v.sessions[s].inst
      j == r.sessions[s].inst
  IN /\ DOMAIN j = DOMAIN i /\ j[p].st = x /\ j[p].id = i[p].id
     /\ \A q \in DOMAIN i : q # p => j[q] = i[q]
SetState(v, s, p, x, o) == [v EXCEPT !.sessions[s].inst[p].st = x, !.owed = o]

LEMMA SetStateLocal ==
  ASSUME NEW v, ServiceType(v), NEW s \in Live(v), NEW p \in DOMAIN v.sessions[s].inst,
         NEW x \in InstanceState, NEW o, AsksFor(v, s, o), NEW r, r = SetState(v, s, p, x, o)
  PROVE  Local(v, r, s) /\ Stays(v, r, s) /\ InstanceSet(v, r, s, p, x)
<1>1. PICK q : q = v.sessions[s]
  OBVIOUS
<1>2. PICK i : i = [q.inst[p] EXCEPT !.st = x]
  OBVIOUS
<1>3. PICK J : J = [q.inst EXCEPT ![p] = i]
  OBVIOUS
<1>4. PICK t : t = [q EXCEPT !.inst = J]
  OBVIOUS
<1>5. /\ DOMAIN v = ServiceFields /\ DOMAIN q = SessionFields /\ SessionType(q)
      /\ InstancesType(q, v.lastInstance) /\ p \in DOMAIN q.inst
  BY <1>1, TypeFacts
<1>6. i \in Instance(v.lastInstance) /\ i.st = x /\ i.id = q.inst[p].id
  <2>1. q.inst[p] \in Instance(v.lastInstance)
    BY <1>5 DEF InstancesType
  <2> QED BY <1>2, <2>1 DEF Instance
<1>7. /\ DOMAIN J = DOMAIN q.inst /\ J[p] = i
      /\ \A z \in DOMAIN q.inst : z # p => J[z] = q.inst[z]
      /\ DOMAIN J \subseteq Producers /\ \A z \in DOMAIN J : J[z] \in Instance(v.lastInstance)
  BY <1>3, <1>5, <1>6 DEF InstancesType
<1>8. /\ Fits(q, t, v.lastInstance) /\ t.inst = J /\ t.st = q.st /\ t.bugreport = q.bugreport
  BY <1>4, <1>5, <1>7, PutInstances
<1>9. r = Becomes(v, s, t, o, v.noticed)
  <2>1. PICK S : S = [v.sessions EXCEPT ![s] = t]
    OBVIOUS
  <2>2. r = [v EXCEPT !.sessions = S, !.owed = o]
    BY <1>1, <1>2, <1>3, <1>4, <2>1 DEF SetState
  <2>3. r = [v EXCEPT !.sessions = S, !.owed = o, !.noticed = v.noticed]
    BY <1>5, <2>2 DEF ServiceFields
  <2> QED BY <2>1, <2>3 DEF Becomes
<1>10. /\ Local(v, r, s) /\ r.sessions[s] = t
       /\ r.told[s] = v.told[s] /\ r.saved[s] = v.saved[s]
  BY <1>1, <1>8, <1>9, PutQuietly
<1>11. Stays(v, r, s)
  BY <1>1, <1>8, <1>10 DEF Stays
<1>12. InstanceSet(v, r, s, p, x)
  BY <1>1, <1>6, <1>7, <1>8, <1>10 DEF InstanceSet
<1> QED BY <1>10, <1>11, <1>12

LEMMA AsksOne ==
  ASSUME NEW v, NEW s, NEW p \in DOMAIN v.sessions[s].inst, NEW k \in {"started", "stopped"},
         NEW acks, NEW o,
         o = IF acks THEN v.owed \cup {Ack(k, p, v.sessions[s].inst[p].id)} ELSE v.owed
  PROVE  AsksFor(v, s, o)
BY DEF AsksFor

LEMMA StartInstanceLocal ==
  ASSUME NEW v, ServiceType(v), NEW s \in Live(v), NEW p \in DOMAIN v.sessions[s].inst,
         NEW r, r = StartDataSourceInstance(v, s, p)
  PROVE  /\ Local(v, r, s) /\ Stays(v, r, s)
         /\ \E x \in {"STARTING", "STARTED"} : InstanceSet(v, r, s, p, x)
<1> DEFINE acks == p \in WillNotifyOnStart
<1>1. PICK x, o : /\ x = IF acks THEN "STARTING" ELSE "STARTED"
                  /\ o = IF acks THEN v.owed \cup {Ack("started", p, v.sessions[s].inst[p].id)}
                         ELSE v.owed
  OBVIOUS
<1>2. PICK w : w = SetState(v, s, p, x, o)
  OBVIOUS
<1>3. x \in {"STARTING", "STARTED"} /\ x \in InstanceState
  BY <1>1 DEF InstanceState
<1>4. AsksFor(v, s, o)
  BY <1>1, AsksOne
<1>5. Local(v, w, s) /\ Stays(v, w, s) /\ InstanceSet(v, w, s, p, x)
  BY <1>2, <1>3, <1>4, SetStateLocal
<1>6. w = [v EXCEPT !.sessions[s].inst[p].st = IF acks THEN "STARTING" ELSE "STARTED",
                    !.owed = IF acks THEN @ \cup {Ack("started", p, v.sessions[s].inst[p].id)}
                             ELSE @]
  <2>1. DOMAIN v = ServiceFields
    BY TypeFacts
  <2> QED BY <1>1, <1>2, <2>1 DEF SetState, ServiceFields
<1>7. CASE acks
  <2>1. r = w
    BY <1>6, <1>7 DEF StartDataSourceInstance
  <2> QED BY <1>3, <1>5, <2>1
<1>8. CASE ~acks
  <2>1. r = MaybeNotifyAllDataSourcesStarted(w, s)
    BY <1>6, <1>8 DEF StartDataSourceInstance
  <2>2. ServiceType(w) /\ s \in Live(w)
    BY <1>5 DEF Local, Elsewhere, Live
  <2>3. Local(w, r, s) /\ Stays(w, r, s) /\ r.sessions[s].inst = w.sessions[s].inst
    BY <2>1, <2>2, NotifyAllStartedLocal
  <2>4. Local(v, r, s) /\ Stays(v, r, s)
    BY <1>5, <2>3, LocalTrans
  <2>5. InstanceSet(v, r, s, p, x)
    BY <1>5, <2>3 DEF InstanceSet
  <2> QED BY <1>3, <2>4, <2>5
<1> QED BY <1>7, <1>8

LEMMA StopInstanceLocal ==
  ASSUME NEW v, ServiceType(v), NEW s \in Live(v), NEW p \in DOMAIN v.sessions[s].inst,
         NEW now, NEW r, r = StopDataSourceInstance(v, s, p, now)
  PROVE  /\ Local(v, r, s) /\ Stays(v, r, s)
         /\ \E x \in {"STOPPING", "STOPPED"} :
              InstanceSet(v, r, s, p, x) /\ (now => x = "STOPPED")
<1> DEFINE acks == p \in WillNotifyOnStop
<1>1. PICK x, o : /\ x = IF acks /\ ~now THEN "STOPPING" ELSE "STOPPED"
                  /\ o = IF acks THEN v.owed \cup {Ack("stopped", p, v.sessions[s].inst[p].id)}
                         ELSE v.owed
  OBVIOUS
<1>2. x \in {"STOPPING", "STOPPED"} /\ x \in InstanceState /\ (now => x = "STOPPED")
  BY <1>1 DEF InstanceState
<1>3. AsksFor(v, s, o)
  BY <1>1, AsksOne
<1>4. r = SetState(v, s, p, x, o)
  <2>1. DOMAIN v = ServiceFields
    BY TypeFacts
  <2> QED BY <1>1, <2>1 DEF SetState, ServiceFields, StopDataSourceInstance
<1>5. Local(v, r, s) /\ Stays(v, r, s) /\ InstanceSet(v, r, s, p, x)
  BY <1>2, <1>3, <1>4, SetStateLocal
<1> QED BY <1>2, <1>5

LEMMA SetupLocal ==
  ASSUME NEW v, ServiceType(v), NEW s \in Live(v), NEW p \in Producers,
         NEW r, r = SetupDataSource(v, s, p)
  PROVE  /\ Local(v, r, s) /\ Stays(v, r, s)
         /\ DOMAIN r.sessions[s].inst = DOMAIN v.sessions[s].inst \cup {p}
         /\ r.sessions[s].inst[p].st = "CONFIGURED"
         /\ \A q \in DOMAIN v.sessions[s].inst :
              q # p => r.sessions[s].inst[q] = v.sessions[s].inst[q]
<1>1. PICK q : q = v.sessions[s]
  OBVIOUS
<1>2. PICK m : m = v.lastInstance + 1
  OBVIOUS
<1>3. PICK J : J = With(q.inst, p, [id |-> m, st |-> "CONFIGURED"])
  OBVIOUS
<1>4. PICK t : t = [q EXCEPT !.inst = J]
  OBVIOUS
<1>5. /\ DOMAIN v = ServiceFields /\ SessionType(q) /\ InstancesType(q, v.lastInstance)
      /\ v.lastInstance \in Nat /\ v.lastFlush \in Nat /\ History(v) /\ OwedType(v)
  BY <1>1, TypeFacts
<1>6. m \in Nat /\ v.lastInstance <= m /\ m \in 1 .. m
  BY <1>2, <1>5
<1>7. /\ DOMAIN J = DOMAIN q.inst \cup {p} /\ J[p] = [id |-> m, st |-> "CONFIGURED"]
      /\ \A z \in DOMAIN q.inst : z # p => J[z] = q.inst[z]
  BY <1>3 DEF With
<1>8. DOMAIN J \subseteq Producers /\ \A z \in DOMAIN J : J[z] \in Instance(m)
  <2>1. J[p] \in Instance(m)
    BY <1>6, <1>7 DEF Instance, InstanceState
  <2>2. ASSUME NEW z \in DOMAIN q.inst, z # p PROVE J[z] \in Instance(m)
    <3>1. q.inst[z] \in Instance(v.lastInstance)
      BY <1>5 DEF InstancesType
    <3>2. q.inst[z] \in Instance(m)
      BY <1>5, <1>6, <3>1 DEF Instance
    <3> QED BY <1>7, <2>2, <3>2
  <2> QED BY <1>5, <1>7, <2>1, <2>2 DEF InstancesType
<1>9. Fits(q, t, m) /\ t.inst = J /\ t.st = q.st /\ t.bugreport = q.bugreport
  BY <1>4, <1>5, <1>8, PutInstances
<1>10. PICK S : S = [v.sessions EXCEPT ![s] = t]
  OBVIOUS
<1>11. r = [v EXCEPT !.lastInstance = m, !.sessions = S]
  BY <1>1, <1>2, <1>3, <1>4, <1>5, <1>10 DEF SetupDataSource, ServiceFields
<1>12. /\ DOMAIN r = ServiceFields /\ r.sessions = S /\ r.owed = v.owed
       /\ r.consumers = v.consumers /\ r.producer = v.producer /\ r.posted = v.posted
       /\ r.lastSession = v.lastSession /\ r.lastFlush = v.lastFlush /\ r.crashed = v.crashed
       /\ r.told = v.told /\ r.saved = v.saved /\ r.lastInstance = m
  BY <1>5, <1>11 DEF ServiceFields
<1>13. Puts(v, r, s, t)
  <2>1. OwedType(r)
    BY <1>5, <1>6, <1>12 DEF OwedType
  <2>2. Outside(v, r) /\ History(r)
    BY <1>5, <1>12 DEF Outside, History
  <2>3. r.sessions = [v.sessions EXCEPT ![s] = t]
    BY <1>10, <1>12
  <2> QED BY <1>6, <1>12, <2>1, <2>2, <2>3 DEF Puts
<1>14. Fits(v.sessions[s], t, r.lastInstance)
  BY <1>1, <1>9, <1>12
<1>15. Local(v, r, s) /\ r.sessions[s] = t
  BY <1>13, <1>14, PutSession
<1> QED BY <1>1, <1>7, <1>9, <1>12, <1>15 DEF Stays

(* The end of a session.                                                   *)
Ended(v, r, s) ==
  /\ r.sessions[s].st = "DISABLED" /\ r.sessions[s].bugreport = FALSE
  /\ r.told[s] = (IF v.sessions[s].consumer # "none" THEN v.told[s] + 1 ELSE v.told[s])
  /\ r.saved[s] = (IF v.sessions[s].bugreport THEN v.saved[s] + 1 ELSE v.saved[s])
AllStopped(v, r, s) ==
  /\ DOMAIN r.sessions[s].inst = DOMAIN v.sessions[s].inst
  /\ \A p \in DOMAIN v.sessions[s].inst : r.sessions[s].inst[p].st = "STOPPED"

LEMMA LastWriteKeeps ==
  ASSUME NEW t, DOMAIN t = SessionFields
  PROVE  /\ SameType(t, LastWrite(t)) /\ LastWrite(t).st = t.st
         /\ LastWrite(t).inst = t.inst /\ LastWrite(t).timers = t.timers
<1>1. CASE ~t.file
  BY <1>1 DEF LastWrite, SameType
<1>2. CASE t.file /\ ~t.seized /\ IsWaitingForTrigger(t)
  <2>1. PICK q : q = [t EXCEPT !.period = FALSE]
    OBVIOUS
  <2>2. SameType(t, q) /\ q.st = t.st /\ q.inst = t.inst /\ q.timers = t.timers
    BY <2>1 DEF SameType, SessionFields
  <2>3. LastWrite(t) = q
    BY <1>2, <2>1 DEF LastWrite
  <2> QED BY <2>2, <2>3
<1>3. CASE t.file /\ ~(~t.seized /\ IsWaitingForTrigger(t))
  <2>1. PICK q : q = [t EXCEPT !.period = FALSE, !.file = FALSE, !.written = TRUE]
    OBVIOUS
  <2>2. SameType(t, q) /\ q.st = t.st /\ q.inst = t.inst /\ q.timers = t.timers
    BY <2>1 DEF SameType, SessionFields
  <2>3. LastWrite(t) = q
    BY <1>3, <2>1 DEF LastWrite
  <2> QED BY <2>2, <2>3
<1> QED BY <1>1, <1>2, <1>3

LEMMA EndLocal ==
  ASSUME NEW v, ServiceType(v), NEW s \in Live(v),
         NEW r, r = DisableTracingNotifyConsumerAndFlushFile(v, s)
  PROVE  Local(v, r, s) /\ Ended(v, r, s) /\ AllStopped(v, r, s)
<1>1. PICK t : t = v.sessions[s]
  OBVIOUS
<1>2. PICK J : J = [p \in DOMAIN t.inst |-> [t.inst[p] EXCEPT !.st = "STOPPED"]]
  OBVIOUS
<1>3. PICK e : e = [t EXCEPT !.st = "DISABLED", !.inst = J]
  OBVIOUS
<1>4. PICK l : l = LastWrite(e)
  OBVIOUS
<1>5. PICK q : q = [l EXCEPT !.bugreport = FALSE]
  OBVIOUS
<1>6. /\ DOMAIN v = ServiceFields /\ SessionType(t) /\ InstancesType(t, v.lastInstance)
      /\ v.lastInstance \in Nat /\ v.lastFlush \in Nat /\ History(v) /\ OwedType(v)
      /\ s \in SessionIDs
  BY <1>1, TypeFacts
<1>7. /\ DOMAIN J = DOMAIN t.inst /\ DOMAIN J \subseteq Producers
      /\ \A p \in DOMAIN J : J[p].st = "STOPPED" /\ J[p] \in Instance(v.lastInstance)
  <2>1. ASSUME NEW p \in DOMAIN t.inst
        PROVE  J[p].st = "STOPPED" /\ J[p] \in Instance(v.lastInstance)
    <3>1. t.inst[p] \in Instance(v.lastInstance)
      BY <1>6 DEF InstancesType
    <3>2. J[p] = [t.inst[p] EXCEPT !.st = "STOPPED"]
      BY <1>2
    <3> QED BY <3>1, <3>2 DEF Instance, InstanceState
  <2> QED BY <1>2, <1>6, <2>1 DEF InstancesType
<1>8. SameType(t, e) /\ e.st = "DISABLED" /\ e.inst = J /\ e.timers = t.timers
  BY <1>3, <1>6 DEF SessionType, SameType, SessionFields
<1>9. SameType(t, l) /\ l.st = "DISABLED" /\ l.inst = J /\ l.timers = t.timers
  <2>1. DOMAIN e = SessionFields
    BY <1>8 DEF SameType
  <2>2. SameType(e, l) /\ l.st = e.st /\ l.inst = e.inst /\ l.timers = e.timers
    BY <1>4, <2>1, LastWriteKeeps
  <2> QED BY <1>8, <2>2 DEF SameType
<1>10. /\ SameType(t, q) /\ q.st = "DISABLED" /\ q.inst = J /\ q.timers = t.timers
       /\ q.bugreport = FALSE
  BY <1>5, <1>9 DEF SameType, SessionFields
<1>11. Fits(t, q, v.lastInstance)
  <2>1. q.st \in SessionState /\ q.bugreport \in BOOLEAN
    BY <1>10 DEF SessionState
  <2>2. q.timers \subseteq {"duration", "write", "stop", "seize"}
    BY <1>6, <1>10 DEF SessionType
  <2>3. InstancesType(q, v.lastInstance)
    BY <1>7, <1>10 DEF InstancesType
  <2> QED BY <1>6, <1>10, <2>1, <2>2, <2>3, ChangedRecord DEF Fits
<1>12. PICK S, sv, td : /\ S = [v.sessions EXCEPT ![s] = q]
                        /\ sv = [v.saved EXCEPT ![s] = IF t.bugreport THEN @ + 1 ELSE @]
                        /\ td = [v.told EXCEPT ![s] = IF t.consumer # "none" THEN @ + 1 ELSE @]
  OBVIOUS
<1>13. r = [v EXCEPT !.sessions = S, !.saved = sv, !.told = td]
  BY <1>1, <1>2, <1>3, <1>4, <1>5, <1>6, <1>12
     DEF DisableTracingNotifyConsumerAndFlushFile, ServiceFields
<1>14. /\ DOMAIN r = ServiceFields /\ r.sessions = S /\ r.owed = v.owed
       /\ r.consumers = v.consumers /\ r.producer = v.producer /\ r.posted = v.posted
       /\ r.lastSession = v.lastSession /\ r.lastFlush = v.lastFlush /\ r.crashed = v.crashed
       /\ r.told = td /\ r.saved = sv /\ r.lastInstance = v.lastInstance
  BY <1>6, <1>13 DEF ServiceFields
<1>15. /\ td \in [SessionIDs -> Nat] /\ sv \in [SessionIDs -> Nat]
       /\ td[s] = (IF t.consumer # "none" THEN v.told[s] + 1 ELSE v.told[s])
       /\ sv[s] = (IF t.bugreport THEN v.saved[s] + 1 ELSE v.saved[s])
       /\ \A x \in SessionIDs : x # s => td[x] = v.told[x] /\ sv[x] = v.saved[x]
  BY <1>6, <1>12 DEF History
<1>16. Puts(v, r, s, q)
  <2>1. Outside(v, r)
    BY <1>14 DEF Outside
  <2>2. History(r) /\ OwedType(r)
    BY <1>6, <1>14, <1>15 DEF History, OwedType
  <2>3. r.sessions = [v.sessions EXCEPT ![s] = q]
    BY <1>12, <1>14
  <2>4. \A x \in SessionIDs : x # s => r.told[x] = v.told[x] /\ r.saved[x] = v.saved[x]
    BY <1>14, <1>15
  <2> QED BY <1>6, <1>14, <2>1, <2>2, <2>3, <2>4 DEF Puts
<1>17. Fits(v.sessions[s], q, r.lastInstance)
  BY <1>1, <1>11, <1>14
<1>18. Local(v, r, s) /\ r.sessions[s] = q
  BY <1>16, <1>17, PutSession
<1>19. Ended(v, r, s)
  BY <1>1, <1>10, <1>14, <1>15, <1>18 DEF Ended
<1>20. AllStopped(v, r, s)
  BY <1>1, <1>7, <1>10, <1>18 DEF AllStopped
<1> QED BY <1>18, <1>19, <1>20

(***************************************************************************)
(* What a handler does to its session                                      *)
(***************************************************************************)
(* The instances of a session are in states that its own state allows, and *)
(* are of the producers in R; no bugreport waits for a session that ended. *)
Match(t, R) ==
  /\ DOMAIN t.inst \subseteq R
  /\ t.st = "CONFIGURED" => \A p \in DOMAIN t.inst : t.inst[p].st = "CONFIGURED"
  /\ t.st = "STARTED" => \A p \in DOMAIN t.inst : t.inst[p].st \in {"STARTING", "STARTED"}
  /\ t.st = "DISABLING_WAITING_STOP_ACKS" =>
       /\ \E p \in DOMAIN t.inst : t.inst[p].st = "STOPPING"
       /\ \A p \in DOMAIN t.inst : t.inst[p].st \in {"STOPPING", "STOPPED"}
  /\ t.st = "DISABLED" =>
       t.bugreport = FALSE /\ \A p \in DOMAIN t.inst : t.inst[p].st = "STOPPED"

(* The life of a session in service state v: Life is that in svc.          *)
PhaseOf(v, s) ==
  CASE s > v.lastSession -> "none"
    [] s \in Live(v) -> St(v, s)
    [] OTHER -> "gone"
LifeOf(v, s) ==
  [phase |-> PhaseOf(v, s),
   attached |-> s \in Live(v) /\ v.sessions[s].consumer # "none",
   seized |-> s \in Live(v) /\ v.sessions[s].bugreport,
   told |-> v.told[s], saved |-> v.saved[s]]
Moved(v, r, s) ==
  LifeOf(r, s) = LifeOf(v, s) \/ Abstract!SessionStep(LifeOf(v, s), LifeOf(r, s))

Handled(v, r, s, R) == Local(v, r, s) /\ Match(r.sessions[s], R) /\ Moved(v, r, s)

LEMMA LocalLive ==
  ASSUME NEW v, NEW r, NEW s \in Live(v), Local(v, r, s)
  PROVE  /\ ServiceType(r) /\ s \in Live(r) /\ r.lastSession = v.lastSession
         /\ Registered(r) = Registered(v)
BY DEF Local, Elsewhere, Outside, Live, Registered

LEMMA LifeOfLive ==
  ASSUME NEW v, ServiceType(v), NEW s \in Live(v)
  PROVE  LifeOf(v, s) =
           [phase |-> v.sessions[s].st, attached |-> v.sessions[s].consumer # "none",
            seized |-> v.sessions[s].bugreport, told |-> v.told[s], saved |-> v.saved[s]]
<1>1. PhaseOf(v, s) = v.sessions[s].st
  <2>1. s \in Int /\ v.lastSession \in Int /\ ~(s > v.lastSession)
    BY DEF ServiceType, Numbers
  <2> QED BY <2>1 DEF PhaseOf, St
<1>2. (s \in Live(v) /\ v.sessions[s].bugreport) = v.sessions[s].bugreport
  <2>1. v.sessions[s].bugreport \in BOOLEAN
    BY TypeFacts DEF SessionType
  <2> QED BY <2>1
<1>3. (s \in Live(v) /\ v.sessions[s].consumer # "none") = (v.sessions[s].consumer # "none")
  OBVIOUS
<1> QED BY <1>1, <1>2, <1>3, Zenon DEF LifeOf

LEMMA StaysPut ==
  ASSUME NEW v, ServiceType(v), NEW s \in Live(v), NEW r, Local(v, r, s), Stays(v, r, s)
  PROVE  LifeOf(r, s) = LifeOf(v, s) /\ Moved(v, r, s)
<1>1. ServiceType(r) /\ s \in Live(r)
  BY LocalLive
<1>2. r.sessions[s].consumer = v.sessions[s].consumer
  BY DEF Local, Kept
<1>3. LifeOf(r, s) = LifeOf(v, s)
  BY <1>1, <1>2, LifeOfLive DEF Stays
<1> QED BY <1>3 DEF Moved

LEMMA OthersStayPut ==
  ASSUME NEW v, NEW s, NEW r, Local(v, r, s), NEW x \in SessionIDs, x # s
  PROVE  LifeOf(r, x) = LifeOf(v, x)
<1>1. /\ DOMAIN r.sessions = DOMAIN v.sessions /\ r.told[x] = v.told[x]
      /\ r.saved[x] = v.saved[x] /\ r.lastSession = v.lastSession
      /\ x \in DOMAIN v.sessions => r.sessions[x] = v.sessions[x]
  BY DEF Local, Elsewhere, Outside
<1>2. PhaseOf(r, x) = PhaseOf(v, x)
  BY <1>1 DEF PhaseOf, Live, St
<1>3. /\ (x \in Live(r) /\ r.sessions[x].consumer # "none")
           = (x \in Live(v) /\ v.sessions[x].consumer # "none")
      /\ (x \in Live(r) /\ r.sessions[x].bugreport) = (x \in Live(v) /\ v.sessions[x].bugreport)
  BY <1>1 DEF Live
<1> QED BY <1>1, <1>2, <1>3, Zenon DEF LifeOf

(* A session that goes on: nobody is told.                                 *)
Onwards(v, r, s) ==
  /\ r.sessions[s].bugreport = v.sessions[s].bugreport
  /\ r.told[s] = v.told[s] /\ r.saved[s] = v.saved[s]
  /\ \/ v.sessions[s].st = "CONFIGURED" /\ r.sessions[s].st = "STARTED"
     \/ v.sessions[s].st = "STARTED" /\ r.sessions[s].st = "DISABLING_WAITING_STOP_ACKS"

LEMMA GoesOn ==
  ASSUME NEW v, ServiceType(v), NEW s \in Live(v), NEW r, Local(v, r, s), Onwards(v, r, s)
  PROVE  Moved(v, r, s)
<1>1. ServiceType(r) /\ s \in Live(r)
  BY LocalLive
<1>2. r.sessions[s].consumer = v.sessions[s].consumer
  BY DEF Local, Kept
<1>3. PICK a, b : a = LifeOf(v, s) /\ b = LifeOf(r, s)
  OBVIOUS
<1>4. b = [a EXCEPT !.phase = b.phase] /\ a.phase = v.sessions[s].st /\ b.phase = r.sessions[s].st
  BY <1>1, <1>2, <1>3, LifeOfLive DEF Onwards
<1>5. Abstract!Advance(a, b)
  BY <1>4 DEF Onwards, Abstract!Advance, Abstract!Active, Abstract!Follow, Abstract!Ended
<1> QED BY <1>3, <1>5 DEF Moved, Abstract!SessionStep

LEMMA Ends ==
  ASSUME NEW v, ServiceType(v), NEW s \in Live(v), NEW r, Local(v, r, s), Ended(v, r, s),
         v.sessions[s].st # "DISABLED"
  PROVE  Moved(v, r, s)
<1>1. ServiceType(r) /\ s \in Live(r) /\ v.sessions[s].st \in SessionState
  BY LocalLive, TypeFacts DEF SessionType
<1>2. r.sessions[s].consumer = v.sessions[s].consumer
  BY DEF Local, Kept
<1>3. PICK a, b : a = LifeOf(v, s) /\ b = LifeOf(r, s)
  OBVIOUS
<1>4. /\ a.phase = v.sessions[s].st /\ a.attached = (v.sessions[s].consumer # "none")
      /\ a.seized = v.sessions[s].bugreport /\ a.told = v.told[s] /\ a.saved = v.saved[s]
  BY <1>3, LifeOfLive
<1>5. b = [phase |-> "DISABLED", attached |-> a.attached, seized |-> FALSE,
           told |-> IF a.attached THEN a.told + 1 ELSE a.told,
           saved |-> IF a.seized THEN a.saved + 1 ELSE a.saved]
  <2>1. b = [phase |-> "DISABLED", attached |-> r.sessions[s].consumer # "none",
             seized |-> FALSE, told |-> r.told[s], saved |-> r.saved[s]]
    BY <1>1, <1>3, LifeOfLive DEF Ended
  <2>2. (r.sessions[s].consumer # "none") = a.attached
    BY <1>2, <1>4
  <2>3. /\ r.told[s] = (IF a.attached THEN a.told + 1 ELSE a.told)
        /\ r.saved[s] = (IF a.seized THEN a.saved + 1 ELSE a.saved)
    BY <1>4 DEF Ended
  <2> QED BY <2>1, <2>2, <2>3
<1>6. b.phase = "DISABLED"
  BY <1>5
<1>7. (a.attached /\ b.phase = "DISABLED") = a.attached
  BY <1>4, <1>6
<1>8. Abstract!End(a, b)
  <2>1. a.phase \in Abstract!Active /\ b.phase \in Abstract!Ended
    BY <1>1, <1>4, <1>6 DEF Abstract!Active, Abstract!Ended, SessionState
  <2> QED BY <1>5, <1>6, <1>7, <2>1, Zenon DEF Abstract!End
<1> QED BY <1>3, <1>8 DEF Moved, Abstract!SessionStep

(***************************************************************************)
(* Loops over the instances of a session                                   *)
(***************************************************************************)
LEMMA InstancesFinite ==
  ASSUME NEW v, ServiceType(v), NEW s \in Live(v)
  PROVE  IsFiniteSet(DOMAIN v.sessions[s].inst)
BY TypeFacts, ServiceConstants, FS_Subset DEF InstancesType

StartEach(v, s) ==
  FoldSet(LAMBDA p, u : StartDataSourceInstance(u, s, p), v, DOMAIN v.sessions[s].inst)
StartOne(s, b, p, u) == StartDataSourceInstance(u, s, p)
SomeStarted(s, w, c, done, u) ==
  /\ Local(w, u, s) /\ Stays(w, u, s)
  /\ DOMAIN u.sessions[s].inst = DOMAIN w.sessions[s].inst
  /\ \A p \in done : u.sessions[s].inst[p].st \in {"STARTING", "STARTED"}
StartLoop == INSTANCE FoldInduction WITH Op <- StartOne, P <- SomeStarted

LEMMA StartAll ==
  ASSUME NEW v, ServiceType(v), NEW s \in Live(v), NEW r, r = StartEach(v, s)
  PROVE  SomeStarted(s, v, 0, DOMAIN v.sessions[s].inst, r)
<1>1. PICK S : S = DOMAIN v.sessions[s].inst
  OBVIOUS
<1>2. r = StartLoop!Fold(s, v, v, S)
  BY <1>1 DEF StartEach, StartLoop!Fold, StartOne, FoldSet, MapThenFoldSet, StartLoop!FoldSet,
              StartLoop!MapThenFoldSet
<1>3. StartLoop!IsFiniteSet(S)
  BY <1>1, InstancesFinite DEF StartLoop!IsFiniteSet, IsFiniteSet
<1>4. SomeStarted(s, v, 0, {}, v)
  BY LocalRefl DEF SomeStarted
<1>5. ASSUME NEW done \in SUBSET S, NEW p \in S \ done, NEW u, SomeStarted(s, v, 0, done, u)
      PROVE  SomeStarted(s, v, 0, done \cup {p}, StartOne(s, v, p, u))
  <2>1. PICK w : w = StartDataSourceInstance(u, s, p)
    OBVIOUS
  <2>2. /\ Local(v, u, s) /\ Stays(v, u, s) /\ DOMAIN u.sessions[s].inst = S
        /\ \A q \in done : u.sessions[s].inst[q].st \in {"STARTING", "STARTED"}
    BY <1>1, <1>5 DEF SomeStarted
  <2>3. ServiceType(u) /\ s \in Live(u)
    BY <2>2, LocalLive
  <2>4. /\ Local(u, w, s) /\ Stays(u, w, s)
        /\ \E x \in {"STARTING", "STARTED"} : InstanceSet(u, w, s, p, x)
    BY <2>1, <2>2, <2>3, StartInstanceLocal
  <2>5. Local(v, w, s) /\ Stays(v, w, s)
    BY <2>2, <2>4, LocalTrans
  <2>6. /\ DOMAIN w.sessions[s].inst = S
        /\ \A q \in done \cup {p} : w.sessions[s].inst[q].st \in {"STARTING", "STARTED"}
    BY <2>2, <2>4 DEF InstanceSet
  <2> QED BY <1>1, <2>1, <2>5, <2>6 DEF SomeStarted, StartOne
<1>6. SomeStarted(s, v, 0, S, r)
  BY <1>2, <1>3, <1>4, <1>5, StartLoop!FoldInduces
<1> QED BY <1>1, <1>6

StopEach(v, s, now) ==
  FoldSet(LAMBDA p, u : StopDataSourceInstance(u, s, p, now), v, DOMAIN v.sessions[s].inst)
StopOne(s, now, p, u) == StopDataSourceInstance(u, s, p, now)
SomeStopped(s, now, w, done, u) ==
  /\ Local(w, u, s) /\ Stays(w, u, s)
  /\ DOMAIN u.sessions[s].inst = DOMAIN w.sessions[s].inst
  /\ \A p \in done : /\ u.sessions[s].inst[p].st \in {"STOPPING", "STOPPED"}
                     /\ now => u.sessions[s].inst[p].st = "STOPPED"
StopLoop == INSTANCE FoldInduction WITH Op <- StopOne, P <- SomeStopped

LEMMA StopAll ==
  ASSUME NEW v, ServiceType(v), NEW s \in Live(v), NEW now, NEW r, r = StopEach(v, s, now)
  PROVE  SomeStopped(s, now, v, DOMAIN v.sessions[s].inst, r)
<1>1. PICK S : S = DOMAIN v.sessions[s].inst
  OBVIOUS
<1>2. r = StopLoop!Fold(s, now, v, S)
  BY <1>1 DEF StopEach, StopLoop!Fold, StopOne, FoldSet, MapThenFoldSet, StopLoop!FoldSet,
              StopLoop!MapThenFoldSet
<1>3. StopLoop!IsFiniteSet(S)
  BY <1>1, InstancesFinite DEF StopLoop!IsFiniteSet, IsFiniteSet
<1>4. SomeStopped(s, now, v, {}, v)
  BY LocalRefl DEF SomeStopped
<1>5. ASSUME NEW done \in SUBSET S, NEW p \in S \ done, NEW u, SomeStopped(s, now, v, done, u)
      PROVE  SomeStopped(s, now, v, done \cup {p}, StopOne(s, now, p, u))
  <2>1. PICK w : w = StopDataSourceInstance(u, s, p, now)
    OBVIOUS
  <2>2. /\ Local(v, u, s) /\ Stays(v, u, s) /\ DOMAIN u.sessions[s].inst = S
        /\ \A q \in done : /\ u.sessions[s].inst[q].st \in {"STOPPING", "STOPPED"}
                           /\ now => u.sessions[s].inst[q].st = "STOPPED"
    BY <1>1, <1>5 DEF SomeStopped
  <2>3. ServiceType(u) /\ s \in Live(u)
    BY <2>2, LocalLive
  <2>4. /\ Local(u, w, s) /\ Stays(u, w, s)
        /\ \E x \in {"STOPPING", "STOPPED"} :
             InstanceSet(u, w, s, p, x) /\ (now => x = "STOPPED")
    BY <2>1, <2>2, <2>3, StopInstanceLocal
  <2>5. Local(v, w, s) /\ Stays(v, w, s)
    BY <2>2, <2>4, LocalTrans
  <2>6. /\ DOMAIN w.sessions[s].inst = S
        /\ \A q \in done \cup {p} : /\ w.sessions[s].inst[q].st \in {"STOPPING", "STOPPED"}
                                    /\ now => w.sessions[s].inst[q].st = "STOPPED"
    BY <2>2, <2>4 DEF InstanceSet
  <2> QED BY <1>1, <2>1, <2>5, <2>6 DEF SomeStopped, StopOne
<1>6. SomeStopped(s, now, v, S, r)
  BY <1>2, <1>3, <1>4, <1>5, StopLoop!FoldInduces
<1> QED BY <1>1, <1>6

(***************************************************************************)
(* Handlers that start and stop a session                                  *)
(***************************************************************************)
PutRecord(v, s, q) == [v EXCEPT !.sessions = [v.sessions EXCEPT ![s] = q]]
Alike(t, q) ==
  /\ SameType(t, q) /\ q.inst = t.inst /\ q.st \in SessionState /\ q.bugreport \in BOOLEAN
  /\ q.timers \subseteq {"duration", "write", "stop", "seize"}

LEMMA PutAlike ==
  ASSUME NEW v, ServiceType(v), NEW s \in Live(v), NEW q, Alike(v.sessions[s], q),
         NEW r, r = PutRecord(v, s, q)
  PROVE  /\ Local(v, r, s) /\ r.sessions[s] = q
         /\ r.told[s] = v.told[s] /\ r.saved[s] = v.saved[s]
<1>1. DOMAIN v = ServiceFields
  BY TypeFacts
<1>2. r = Becomes(v, s, q, v.owed, v.noticed)
  <2>1. PICK S : S = [v.sessions EXCEPT ![s] = q]
    OBVIOUS
  <2>2. r = [v EXCEPT !.sessions = S]
    BY <2>1 DEF PutRecord
  <2>3. r = [v EXCEPT !.sessions = S, !.owed = v.owed, !.noticed = v.noticed]
    BY <1>1, <2>2 DEF ServiceFields
  <2> QED BY <2>1, <2>3 DEF Becomes
<1>3. Fits(v.sessions[s], q, v.lastInstance)
  <2>1. SessionType(v.sessions[s]) /\ InstancesType(v.sessions[s], v.lastInstance)
    BY TypeFacts
  <2>2. InstancesType(q, v.lastInstance)
    BY <2>1 DEF InstancesType, Alike
  <2> QED BY <2>1, <2>2, ChangedRecord DEF Alike, Fits
<1>4. AsksFor(v, s, v.owed)
  BY DEF AsksFor
<1> QED BY <1>2, <1>3, <1>4, PutQuietly

LEMMA StartHandled ==
  ASSUME NEW v, ServiceType(v), NEW s \in Live(v), NEW R, Match(v.sessions[s], R),
         NEW r, r = StartTracing(v, s)
  PROVE  /\ Handled(v, r, s, R)
         /\ \/ r = v
            \/ v.sessions[s].st = "CONFIGURED" /\ Onwards(v, r, s)
<1>0. PICK t : t = v.sessions[s]
  OBVIOUS
<1>1. CASE t.st # "CONFIGURED"
  <2>1. r = v
    BY <1>0, <1>1 DEF StartTracing
  <2> QED BY <2>1, LocalRefl, StaysPut DEF Handled
<1>2. CASE t.st = "CONFIGURED"
  <2>1. PICK tm : tm = t.timers \cup ((IF t.duration THEN {"duration"} ELSE {})
                                        \cup (IF t.cfg.file THEN {"write"} ELSE {}))
    OBVIOUS
  <2>2. PICK q : q = [t EXCEPT !.st = "STARTED", !.timers = tm]
    OBVIOUS
  <2>3. DOMAIN v = ServiceFields /\ DOMAIN t = SessionFields /\ SessionType(t)
    BY <1>0, TypeFacts
  <2>4. Alike(t, q) /\ q.st = "STARTED" /\ q.bugreport = t.bugreport
    <3>1. /\ SameType(t, q) /\ q.inst = t.inst /\ q.st = "STARTED"
          /\ q.bugreport = t.bugreport /\ q.timers = tm
      BY <2>2, <2>3 DEF SameType, SessionFields
    <3>2. q.timers \subseteq {"duration", "write", "stop", "seize"} /\ q.bugreport \in BOOLEAN
      BY <2>1, <2>3, <3>1 DEF SessionType
    <3> QED BY <3>1, <3>2 DEF Alike, SessionState
  <2>5. PICK w : w = PutRecord(v, s, q)
    OBVIOUS
  <2>6. /\ Local(v, w, s) /\ w.sessions[s] = q
        /\ w.told[s] = v.told[s] /\ w.saved[s] = v.saved[s]
    BY <1>0, <2>4, <2>5, PutAlike
  <2>7. PICK u : u = StartEach(w, s)
    OBVIOUS
  <2>8. r = MaybeNotifyAllDataSourcesStarted(u, s)
    <3>1. w = [v EXCEPT !.sessions[s].st = "STARTED",
                        !.sessions[s].timers = @ \cup ((IF t.duration THEN {"duration"} ELSE {})
                                        \cup (IF t.cfg.file THEN {"write"} ELSE {}))]
      BY <1>0, <2>1, <2>2, <2>3, <2>5 DEF PutRecord, ServiceFields
    <3>2. w.sessions[s].inst = t.inst
      BY <1>0, <2>4, <2>6 DEF Alike
    <3> QED BY <1>0, <1>2, <2>7, <3>1, <3>2 DEF StartTracing, StartEach
  <2>9. ServiceType(w) /\ s \in Live(w)
    BY <2>6, LocalLive
  <2>10. SomeStarted(s, w, 0, DOMAIN w.sessions[s].inst, u)
    BY <2>7, <2>9, StartAll
  <2>11. /\ Local(w, u, s) /\ Stays(w, u, s)
         /\ DOMAIN u.sessions[s].inst = DOMAIN t.inst
         /\ \A p \in DOMAIN t.inst : u.sessions[s].inst[p].st \in {"STARTING", "STARTED"}
    <3>1. w.sessions[s].inst = t.inst
      BY <1>0, <2>4, <2>6 DEF Alike
    <3> QED BY <2>10, <3>1 DEF SomeStarted
  <2>12. ServiceType(u) /\ s \in Live(u)
    BY <2>9, <2>11, LocalLive
  <2>13. Local(u, r, s) /\ Stays(u, r, s) /\ r.sessions[s].inst = u.sessions[s].inst
    BY <2>8, <2>12, NotifyAllStartedLocal
  <2>14. Local(w, r, s) /\ Stays(w, r, s)
    BY <2>11, <2>13, LocalTrans
  <2>15. Local(v, r, s)
    BY <2>6, <2>14, LocalTrans
  <2>16. Onwards(v, r, s) /\ r.sessions[s].st = "STARTED"
    BY <1>0, <1>2, <2>4, <2>6, <2>14 DEF Onwards, Stays
  <2>17. Match(r.sessions[s], R)
    <3>1. DOMAIN t.inst \subseteq R
      BY <1>0 DEF Match
    <3> QED BY <2>11, <2>13, <2>16, <3>1 DEF Match
  <2> QED BY <1>0, <1>2, <2>15, <2>16, <2>17, GoesOn DEF Handled
<1> QED BY <1>1, <1>2

(* The end of a session, told to the consumer.                             *)
LEMMA EndHandled ==
  ASSUME NEW v, ServiceType(v), NEW s \in Live(v), NEW R, DOMAIN v.sessions[s].inst \subseteq R,
         v.sessions[s].st # "DISABLED", NEW r, r = DisableTracingNotifyConsumerAndFlushFile(v, s)
  PROVE  Handled(v, r, s, R) /\ Ended(v, r, s)
<1>1. Local(v, r, s) /\ Ended(v, r, s) /\ AllStopped(v, r, s)
  BY EndLocal
<1>2. Match(r.sessions[s], R)
  BY <1>1 DEF Ended, AllStopped, Match
<1> QED BY <1>1, <1>2, Ends DEF Handled

LEMMA EndedLater ==
  ASSUME NEW v, NEW w, NEW r, NEW s, Local(v, w, s), Stays(v, w, s), Ended(w, r, s)
  PROVE  Ended(v, r, s)
BY DEF Local, Kept, Stays, Ended

(* DisableTracing() once the instances are asked to stop.                  *)
Disabled(w, s) ==
  IF AllInState(w, s, "STOPPED") THEN DisableTracingNotifyConsumerAndFlushFile(w, s)
  ELSE [w EXCEPT !.sessions[s].st = "DISABLING_WAITING_STOP_ACKS"]

LEMMA DisabledHandled ==
  ASSUME NEW v, ServiceType(v), NEW s \in Live(v), NEW R, Match(v.sessions[s], R), NEW now,
         v.sessions[s].st \in {"CONFIGURED", "STARTED"}, v.sessions[s].st = "CONFIGURED" => now,
         NEW r, r = Disabled(StopEach(v, s, now), s)
  PROVE  Handled(v, r, s, R) /\ (now => Ended(v, r, s))
<1>1. PICK w : w = StopEach(v, s, now)
  OBVIOUS
<1>2. SomeStopped(s, now, v, DOMAIN v.sessions[s].inst, w)
  BY <1>1, StopAll
<1>3. /\ Local(v, w, s) /\ Stays(v, w, s)
      /\ DOMAIN w.sessions[s].inst = DOMAIN v.sessions[s].inst
      /\ \A p \in DOMAIN w.sessions[s].inst :
           /\ w.sessions[s].inst[p].st \in {"STOPPING", "STOPPED"}
           /\ now => w.sessions[s].inst[p].st = "STOPPED"
  BY <1>2 DEF SomeStopped
<1>4. ServiceType(w) /\ s \in Live(w)
  BY <1>3, LocalLive
<1>5. DOMAIN w.sessions[s].inst \subseteq R /\ w.sessions[s].st = v.sessions[s].st
  BY <1>3 DEF Match, Stays
<1>6. r = Disabled(w, s)
  BY <1>1
<1>7. CASE AllInState(w, s, "STOPPED")
  <2>1. r = DisableTracingNotifyConsumerAndFlushFile(w, s)
    BY <1>6, <1>7 DEF Disabled
  <2>2. Handled(w, r, s, R) /\ Ended(w, r, s)
    BY <1>4, <1>5, <2>1, EndHandled
  <2>3. Local(v, r, s)
    BY <1>3, <2>2, LocalTrans DEF Handled
  <2>4. Ended(v, r, s)
    BY <1>3, <2>2, EndedLater
  <2>5. Moved(v, r, s)
    BY <2>3, <2>4, Ends
  <2> QED BY <2>2, <2>3, <2>4, <2>5 DEF Handled
<1>8. CASE ~AllInState(w, s, "STOPPED")
  <2>1. PICK t, q : /\ t = w.sessions[s]
                    /\ q = [t EXCEPT !.st = "DISABLING_WAITING_STOP_ACKS"]
    OBVIOUS
  <2>2. DOMAIN w = ServiceFields /\ DOMAIN t = SessionFields /\ SessionType(t)
    BY <1>4, <2>1, TypeFacts
  <2>3. /\ Alike(t, q) /\ q.st = "DISABLING_WAITING_STOP_ACKS" /\ q.bugreport = t.bugreport
        /\ q.inst = t.inst
    <3>1. /\ SameType(t, q) /\ q.inst = t.inst /\ q.st = "DISABLING_WAITING_STOP_ACKS"
          /\ q.bugreport = t.bugreport /\ q.timers = t.timers
      BY <2>1, <2>2 DEF SameType, SessionFields
    <3> QED BY <2>2, <3>1 DEF Alike, SessionState, SessionType
  <2>4. r = PutRecord(w, s, q)
    BY <1>6, <1>8, <2>1 DEF Disabled, PutRecord
  <2>5. /\ Local(w, r, s) /\ r.sessions[s] = q
        /\ r.told[s] = w.told[s] /\ r.saved[s] = w.saved[s]
    BY <1>4, <2>1, <2>3, <2>4, PutAlike
  <2>6. Local(v, r, s)
    BY <1>3, <2>5, LocalTrans
  <2>7. ~now
    BY <1>3, <1>8 DEF AllInState
  <2>8. Onwards(v, r, s)
    BY <1>3, <2>1, <2>3, <2>5, <2>7 DEF Onwards, Stays
  <2>9. Match(r.sessions[s], R)
    <3>1. \E p \in DOMAIN t.inst : t.inst[p].st = "STOPPING"
      BY <1>3, <1>8, <2>1 DEF AllInState
    <3>2. \A p \in DOMAIN t.inst : t.inst[p].st \in {"STOPPING", "STOPPED"}
      BY <1>3, <2>1
    <3> QED BY <1>5, <2>1, <2>3, <2>5, <3>1, <3>2 DEF Match
  <2> QED BY <2>6, <2>7, <2>8, <2>9, GoesOn DEF Handled
<1> QED BY <1>7, <1>8

LEMMA DisableHandled ==
  ASSUME NEW v, ServiceType(v), NEW s \in Live(v), NEW R, Match(v.sessions[s], R),
         NEW now \in BOOLEAN, NEW r, r = DisableTracing(v, s, now)
  PROVE  /\ Handled(v, r, s, R)
         /\ now => IF v.sessions[s].st = "DISABLED" THEN r = v ELSE Ended(v, r, s)
<1>1. v.sessions[s].st \in SessionState
  BY TypeFacts DEF SessionType
<1>2. CASE v.sessions[s].st = "DISABLED"
  <2>1. r = v
    BY <1>2 DEF DisableTracing, St
  <2> QED BY <1>2, <2>1, LocalRefl, StaysPut DEF Handled
<1>3. CASE v.sessions[s].st = "DISABLING_WAITING_STOP_ACKS"
  <2>1. CASE now
    <3>1. r = DisableTracingNotifyConsumerAndFlushFile(v, s)
      BY <1>3, <2>1 DEF DisableTracing, St
    <3>2. DOMAIN v.sessions[s].inst \subseteq R
      BY DEF Match
    <3> QED BY <1>3, <3>1, <3>2, EndHandled
  <2>2. CASE ~now
    <3>1. r = v
      BY <1>3, <2>2 DEF DisableTracing, St
    <3> QED BY <2>2, <3>1, LocalRefl, StaysPut DEF Handled
  <2> QED BY <2>1, <2>2
<1>4. CASE v.sessions[s].st \in {"CONFIGURED", "STARTED"}
  <2>1. PICK n : n = (now \/ St(v, s) = "CONFIGURED")
    OBVIOUS
  <2>2. r = Disabled(StopEach(v, s, now \/ St(v, s) = "CONFIGURED"), s)
    <3>1. /\ s \in Live(v) /\ ~(St(v, s) = "DISABLED")
          /\ ~(St(v, s) = "DISABLING_WAITING_STOP_ACKS")
      BY <1>4 DEF St
    <3> QED BY <3>1 DEF DisableTracing, Disabled, StopEach
  <2>3. (v.sessions[s].st = "CONFIGURED" => n) /\ r = Disabled(StopEach(v, s, n), s)
    BY <2>1, <2>2 DEF St
  <2>4. Handled(v, r, s, R) /\ (n => Ended(v, r, s))
    BY <1>4, <2>3, DisabledHandled
  <2> QED BY <1>4, <2>1, <2>4
<1> QED BY <1>1, <1>2, <1>3, <1>4 DEF SessionState

LEMMA StaysHandled ==
  ASSUME NEW v, ServiceType(v), NEW s \in Live(v), NEW R, NEW r, Local(v, r, s),
         Stays(v, r, s), Match(r.sessions[s], R)
  PROVE  Handled(v, r, s, R)
BY StaysPut DEF Handled

LEMMA HandledAfter ==
  ASSUME NEW v, ServiceType(v), NEW s \in Live(v), NEW R, NEW w, Local(v, w, s),
         Stays(v, w, s), NEW r, Handled(w, r, s, R)
  PROVE  Handled(v, r, s, R)
<1>1. LifeOf(w, s) = LifeOf(v, s)
  BY StaysPut
<1>2. Local(v, r, s)
  BY LocalTrans DEF Handled
<1> QED BY <1>1, <1>2 DEF Handled, Moved

(***************************************************************************)
(* Handlers of an instance                                                 *)
(***************************************************************************)
LEMMA SetupAndStartHandled ==
  ASSUME NEW v, ServiceType(v), NEW s \in Live(v), NEW R, Match(v.sessions[s], R),
         NEW p \in Producers, p \in R, Running(v, s), NEW r, r = SetupAndStart(v, s, p)
  PROVE  Local(v, r, s) /\ Stays(v, r, s) /\ Match(r.sessions[s], R)
<1>1. PICK w : w = SetupDataSource(v, s, p)
  OBVIOUS
<1>2. /\ Local(v, w, s) /\ Stays(v, w, s)
      /\ DOMAIN w.sessions[s].inst = DOMAIN v.sessions[s].inst \cup {p}
      /\ w.sessions[s].inst[p].st = "CONFIGURED"
      /\ \A q \in DOMAIN v.sessions[s].inst :
           q # p => w.sessions[s].inst[q] = v.sessions[s].inst[q]
  BY <1>1, SetupLocal
<1>3. ServiceType(w) /\ s \in Live(w)
  BY <1>2, LocalLive
<1>4. w.sessions[s].st = v.sessions[s].st
  BY <1>2 DEF Stays
<1>5. CASE v.sessions[s].st = "STARTED"
  <2>1. r = StartDataSourceInstance(w, s, p)
    BY <1>1, <1>4, <1>5 DEF SetupAndStart, St
  <2>2. /\ Local(w, r, s) /\ Stays(w, r, s)
        /\ \E x \in {"STARTING", "STARTED"} : InstanceSet(w, r, s, p, x)
    BY <1>2, <1>3, <2>1, StartInstanceLocal
  <2>3. Local(v, r, s) /\ Stays(v, r, s)
    BY <1>2, <2>2, LocalTrans
  <2>4. Match(r.sessions[s], R)
    BY <1>2, <1>5, <2>2, <2>3 DEF Match, InstanceSet, Stays
  <2> QED BY <2>3, <2>4
<1>6. CASE v.sessions[s].st = "CONFIGURED"
  <2>1. r = w
    BY <1>1, <1>4, <1>6 DEF SetupAndStart, St
  <2>2. Match(w.sessions[s], R)
    BY <1>2, <1>4, <1>6 DEF Match
  <2> QED BY <1>2, <2>1, <2>2
<1> QED BY <1>5, <1>6 DEF Running, St

LEMMA AckStarted ==
  ASSUME NEW v, ServiceType(v), NEW s \in Live(v), NEW R, Match(v.sessions[s], R),
         NEW p \in DOMAIN v.sessions[s].inst, NEW r, r = NotifyDataSourceStarted(v, s, p)
  PROVE  Handled(v, r, s, R)
<1>1. CASE ~(St(v, s) = "STARTED" /\ v.sessions[s].inst[p].st = "STARTING")
  <2>1. r = v
    BY <1>1 DEF NotifyDataSourceStarted
  <2> QED BY <2>1, LocalRefl, StaysHandled
<1>2. CASE St(v, s) = "STARTED" /\ v.sessions[s].inst[p].st = "STARTING"
  <2>1. PICK w : w = SetState(v, s, p, "STARTED", v.owed)
    OBVIOUS
  <2>2. AsksFor(v, s, v.owed) /\ "STARTED" \in InstanceState
    BY DEF AsksFor, InstanceState
  <2>3. Local(v, w, s) /\ Stays(v, w, s) /\ InstanceSet(v, w, s, p, "STARTED")
    BY <2>1, <2>2, SetStateLocal
  <2>4. r = MaybeNotifyAllDataSourcesStarted(w, s)
    <3>1. DOMAIN v = ServiceFields
      BY TypeFacts
    <3>2. w = [v EXCEPT !.sessions[s].inst[p].st = "STARTED"]
      BY <2>1, <3>1 DEF SetState, ServiceFields
    <3> QED BY <1>2, <3>2 DEF NotifyDataSourceStarted
  <2>5. ServiceType(w) /\ s \in Live(w)
    BY <2>3, LocalLive
  <2>6. Local(w, r, s) /\ Stays(w, r, s) /\ r.sessions[s].inst = w.sessions[s].inst
    BY <2>4, <2>5, NotifyAllStartedLocal
  <2>7. Local(v, r, s) /\ Stays(v, r, s)
    BY <2>3, <2>6, LocalTrans
  <2>8. Match(r.sessions[s], R)
    BY <1>2, <2>3, <2>6, <2>7 DEF Match, InstanceSet, Stays, St
  <2> QED BY <2>7, <2>8, StaysHandled
<1> QED BY <1>1, <1>2

(* An ack of a stop, from a session in any state.                          *)
AckedStop(v, r, s, p) ==
  \/ r = v /\ v.sessions[s].inst[p].st # "STOPPING"
  \/ /\ Stays(v, r, s) /\ InstanceSet(v, r, s, p, "STOPPED")
     /\ ~(v.sessions[s].st = "DISABLING_WAITING_STOP_ACKS" /\ AllInState(r, s, "STOPPED"))
  \/ /\ v.sessions[s].st = "DISABLING_WAITING_STOP_ACKS"
     /\ Ended(v, r, s) /\ AllStopped(v, r, s)

LEMMA AckStoppedLocal ==
  ASSUME NEW v, ServiceType(v), NEW s \in Live(v),
         NEW p \in DOMAIN v.sessions[s].inst, NEW r, r = NotifyDataSourceStopped(v, s, p)
  PROVE  Local(v, r, s) /\ AckedStop(v, r, s, p)
<1>1. CASE v.sessions[s].inst[p].st # "STOPPING"
  <2>1. r = v
    BY <1>1 DEF NotifyDataSourceStopped
  <2> QED BY <1>1, <2>1, LocalRefl DEF AckedStop
<1>2. CASE v.sessions[s].inst[p].st = "STOPPING"
  <2>1. PICK w : w = SetState(v, s, p, "STOPPED", v.owed)
    OBVIOUS
  <2>2. AsksFor(v, s, v.owed) /\ "STOPPED" \in InstanceState
    BY DEF AsksFor, InstanceState
  <2>3. Local(v, w, s) /\ Stays(v, w, s) /\ InstanceSet(v, w, s, p, "STOPPED")
    BY <2>1, <2>2, SetStateLocal
  <2>4. r = IF /\ AllInState(w, s, "STOPPED")
               /\ St(w, s) = "DISABLING_WAITING_STOP_ACKS"
            THEN DisableTracingNotifyConsumerAndFlushFile(w, s) ELSE w
    <3>1. DOMAIN v = ServiceFields
      BY TypeFacts
    <3>2. w = [v EXCEPT !.sessions[s].inst[p].st = "STOPPED"]
      BY <2>1, <3>1 DEF SetState, ServiceFields
    <3> QED BY <1>2, <3>2 DEF NotifyDataSourceStopped
  <2>5. ServiceType(w) /\ s \in Live(w) /\ w.sessions[s].st = v.sessions[s].st
    BY <2>3, LocalLive DEF Stays
  <2>6. CASE AllInState(w, s, "STOPPED") /\ St(w, s) = "DISABLING_WAITING_STOP_ACKS"
    <3>1. r = DisableTracingNotifyConsumerAndFlushFile(w, s)
      BY <2>4, <2>6
    <3>2. Local(w, r, s) /\ Ended(w, r, s) /\ AllStopped(w, r, s)
      BY <2>5, <3>1, EndLocal
    <3>3. Local(v, r, s) /\ Ended(v, r, s)
      BY <2>3, <3>2, LocalTrans, EndedLater
    <3>4. AllStopped(v, r, s)
      BY <2>3, <3>2 DEF AllStopped, InstanceSet
    <3> QED BY <2>5, <2>6, <3>3, <3>4 DEF AckedStop, St
  <2>7. CASE ~(AllInState(w, s, "STOPPED") /\ St(w, s) = "DISABLING_WAITING_STOP_ACKS")
    <3>1. r = w
      BY <2>4, <2>7
    <3> QED BY <2>3, <2>5, <2>7, <3>1 DEF AckedStop, St
  <2> QED BY <2>6, <2>7
<1> QED BY <1>1, <1>2

LEMMA AckStopped ==
  ASSUME NEW v, ServiceType(v), NEW s \in Live(v), NEW R, Match(v.sessions[s], R),
         NEW p \in DOMAIN v.sessions[s].inst, NEW r, r = NotifyDataSourceStopped(v, s, p)
  PROVE  Handled(v, r, s, R)
<1>1. Local(v, r, s) /\ AckedStop(v, r, s, p)
  BY AckStoppedLocal
<1>2. CASE r = v
  BY <1>2, LocalRefl, StaysHandled
<1>3. CASE /\ r # v /\ Stays(v, r, s) /\ InstanceSet(v, r, s, p, "STOPPED")
           /\ v.sessions[s].inst[p].st = "STOPPING"
           /\ ~(v.sessions[s].st = "DISABLING_WAITING_STOP_ACKS" /\ AllInState(r, s, "STOPPED"))
  <2>1. v.sessions[s].st \in SessionState
    BY TypeFacts DEF SessionType
  <2>2. v.sessions[s].st = "DISABLING_WAITING_STOP_ACKS"
    BY <1>3, <2>1 DEF Match, SessionState
  <2>3. Match(r.sessions[s], R)
    BY <1>3, <2>2 DEF Match, InstanceSet, Stays, AllInState
  <2> QED BY <1>1, <1>3, <2>3, StaysHandled
<1>4. CASE v.sessions[s].st = "DISABLING_WAITING_STOP_ACKS" /\ Ended(v, r, s) /\ AllStopped(v, r, s)
  <2>1. Match(r.sessions[s], R)
    BY <1>4 DEF Match, Ended, AllStopped
  <2>2. Moved(v, r, s)
    BY <1>1, <1>4, Ends
  <2> QED BY <1>1, <2>1, <2>2 DEF Handled
<1>5. v.sessions[s].inst[p].st # "STOPPING" => r = v
  BY DEF NotifyDataSourceStopped
<1> QED BY <1>1, <1>2, <1>3, <1>4, <1>5 DEF AckedStop

(* The instance of p leaves the session.                                   *)
Dropped(v, s, p) == [v EXCEPT !.sessions[s].inst = [q \in DOMAIN @ \ {p} |-> @[q]]]

LEMMA DropLocal ==
  ASSUME NEW v, ServiceType(v), NEW s \in Live(v), NEW p, NEW r, r = Dropped(v, s, p)
  PROVE  /\ Local(v, r, s) /\ Stays(v, r, s)
         /\ DOMAIN r.sessions[s].inst = DOMAIN v.sessions[s].inst \ {p}
         /\ \A q \in DOMAIN r.sessions[s].inst : r.sessions[s].inst[q] = v.sessions[s].inst[q]
<1>1. PICK q : q = v.sessions[s]
  OBVIOUS
<1>2. PICK J : J = [z \in DOMAIN q.inst \ {p} |-> q.inst[z]]
  OBVIOUS
<1>3. PICK t : t = [q EXCEPT !.inst = J]
  OBVIOUS
<1>4. DOMAIN v = ServiceFields /\ SessionType(q) /\ InstancesType(q, v.lastInstance)
  BY <1>1, TypeFacts
<1>5. /\ DOMAIN J = DOMAIN q.inst \ {p} /\ \A z \in DOMAIN J : J[z] = q.inst[z]
      /\ DOMAIN J \subseteq Producers /\ \A z \in DOMAIN J : J[z] \in Instance(v.lastInstance)
  BY <1>2, <1>4 DEF InstancesType
<1>6. Fits(q, t, v.lastInstance) /\ t.inst = J /\ t.st = q.st /\ t.bugreport = q.bugreport
  BY <1>3, <1>4, <1>5, PutInstances
<1>7. r = Becomes(v, s, t, v.owed, v.noticed)
  <2>1. PICK S : S = [v.sessions EXCEPT ![s] = t]
    OBVIOUS
  <2>2. r = [v EXCEPT !.sessions = S]
    BY <1>1, <1>2, <1>3, <2>1 DEF Dropped
  <2>3. r = [v EXCEPT !.sessions = S, !.owed = v.owed, !.noticed = v.noticed]
    BY <1>4, <2>2 DEF ServiceFields
  <2> QED BY <2>1, <2>3 DEF Becomes
<1>8. AsksFor(v, s, v.owed)
  BY DEF AsksFor
<1>9. /\ Local(v, r, s) /\ r.sessions[s] = t
      /\ r.told[s] = v.told[s] /\ r.saved[s] = v.saved[s]
  BY <1>1, <1>6, <1>7, <1>8, PutQuietly
<1>10. Stays(v, r, s)
  BY <1>1, <1>6, <1>9 DEF Stays
<1> QED BY <1>1, <1>5, <1>6, <1>9, <1>10

LEMMA RemoveHandled ==
  ASSUME NEW v, ServiceType(v), NEW s \in Live(v), NEW R, Match(v.sessions[s], R),
         NEW p \in DOMAIN v.sessions[s].inst, NEW r, r = RemoveInstance(v, s, p)
  PROVE  Handled(v, r, s, R) /\ p \notin DOMAIN r.sessions[s].inst
<1>1. PICK u : u = IF v.sessions[s].inst[p].st \in {"STOPPED", "STOPPING"} THEN v
                   ELSE StopDataSourceInstance(v, s, p, FALSE)
  OBVIOUS
<1>2. PICK a : a = NotifyDataSourceStopped(u, s, p)
  OBVIOUS
<1>3. PICK w : w = Dropped(a, s, p)
  OBVIOUS
<1>4. r = MaybeNotifyAllDataSourcesStarted(w, s)
  BY <1>1, <1>2, <1>3 DEF RemoveInstance, Dropped
<1>5. /\ Local(v, u, s) /\ Stays(v, u, s)
      /\ DOMAIN u.sessions[s].inst = DOMAIN v.sessions[s].inst
      /\ \A q \in DOMAIN v.sessions[s].inst : q # p => u.sessions[s].inst[q] = v.sessions[s].inst[q]
      /\ v.sessions[s].inst[p].st \in {"STOPPED", "STOPPING"} => u = v
  <2>1. CASE v.sessions[s].inst[p].st \in {"STOPPED", "STOPPING"}
    BY <1>1, <2>1, LocalRefl
  <2>2. CASE v.sessions[s].inst[p].st \notin {"STOPPED", "STOPPING"}
    <3>1. /\ Local(v, u, s) /\ Stays(v, u, s)
          /\ \E x \in {"STOPPING", "STOPPED"} : InstanceSet(v, u, s, p, x) /\ (FALSE => x = "STOPPED")
      BY <1>1, <2>2, StopInstanceLocal
    <3> QED BY <2>2, <3>1 DEF InstanceSet
  <2> QED BY <2>1, <2>2
<1>6. ServiceType(u) /\ s \in Live(u) /\ u.sessions[s].st = v.sessions[s].st
  BY <1>5, LocalLive DEF Stays
<1>7. Local(u, a, s) /\ AckedStop(u, a, s, p)
  BY <1>2, <1>5, <1>6, AckStoppedLocal
<1>8. ServiceType(a) /\ s \in Live(a)
  BY <1>6, <1>7, LocalLive
<1>9. /\ Local(a, w, s) /\ Stays(a, w, s)
      /\ DOMAIN w.sessions[s].inst = DOMAIN a.sessions[s].inst \ {p}
      /\ \A q \in DOMAIN w.sessions[s].inst : w.sessions[s].inst[q] = a.sessions[s].inst[q]
  BY <1>3, <1>8, DropLocal
<1>10. ServiceType(w) /\ s \in Live(w)
  BY <1>8, <1>9, LocalLive
<1>11. Local(w, r, s) /\ Stays(w, r, s) /\ r.sessions[s].inst = w.sessions[s].inst
  BY <1>4, <1>10, NotifyAllStartedLocal
<1>12. Local(a, r, s) /\ Stays(a, r, s)
  BY <1>9, <1>11, LocalTrans
<1>13. Local(v, r, s) /\ Local(v, a, s)
  BY <1>5, <1>7, <1>12, LocalTrans
<1>14. CASE Stays(u, a, s) /\ ~Ended(u, a, s)
  <2>1. Stays(v, r, s)
    <3>1. Stays(v, a, s)
      BY <1>5, <1>7, <1>14, LocalTrans
    <3> QED BY <1>12, <1>13, <3>1, LocalTrans
  <2>2. /\ DOMAIN r.sessions[s].inst = DOMAIN v.sessions[s].inst \ {p}
        /\ \A q \in DOMAIN r.sessions[s].inst : r.sessions[s].inst[q] = v.sessions[s].inst[q]
    <3>1. /\ DOMAIN a.sessions[s].inst = DOMAIN u.sessions[s].inst
          /\ \A q \in DOMAIN u.sessions[s].inst : q # p => a.sessions[s].inst[q] = u.sessions[s].inst[q]
      BY <1>7, <1>14 DEF AckedStop, InstanceSet
    <3> QED BY <1>5, <1>9, <1>11, <3>1
  <2>3. r.sessions[s].st = v.sessions[s].st /\ r.sessions[s].bugreport = v.sessions[s].bugreport
    BY <2>1 DEF Stays
  <2>4. ASSUME v.sessions[s].st = "DISABLING_WAITING_STOP_ACKS"
        PROVE  \E q \in DOMAIN r.sessions[s].inst : r.sessions[s].inst[q].st = "STOPPING"
    <3>0. /\ \A q \in DOMAIN v.sessions[s].inst : v.sessions[s].inst[q].st \in {"STOPPING", "STOPPED"}
          /\ \E q \in DOMAIN v.sessions[s].inst : v.sessions[s].inst[q].st = "STOPPING"
      BY <2>4 DEF Match
    <3>1. u = v
      BY <1>5, <3>0
    <3>2. CASE a = v /\ v.sessions[s].inst[p].st # "STOPPING"
      BY <2>2, <3>0, <3>2
    <3>3. CASE InstanceSet(v, a, s, p, "STOPPED") /\ ~AllInState(a, s, "STOPPED")
      <4>1. PICK q \in DOMAIN a.sessions[s].inst : a.sessions[s].inst[q].st # "STOPPED"
        BY <3>3 DEF AllInState
      <4>2. q # p /\ q \in DOMAIN v.sessions[s].inst /\ a.sessions[s].inst[q] = v.sessions[s].inst[q]
        BY <3>3, <4>1 DEF InstanceSet
      <4> QED BY <2>2, <3>0, <4>1, <4>2
    <3> QED BY <1>7, <1>14, <2>4, <3>1, <3>2, <3>3 DEF AckedStop
  <2>5. Match(r.sessions[s], R)
    BY <2>2, <2>3, <2>4 DEF Match
  <2> QED BY <1>13, <2>1, <2>2, <2>5, StaysHandled
<1>15. CASE u.sessions[s].st = "DISABLING_WAITING_STOP_ACKS" /\ Ended(u, a, s) /\ AllStopped(u, a, s)
  <2>1. Ended(v, a, s) /\ v.sessions[s].st = "DISABLING_WAITING_STOP_ACKS"
    BY <1>5, <1>6, <1>15, EndedLater
  <2>2. Ended(v, r, s)
    BY <1>12, <2>1 DEF Ended, Stays
  <2>3. Moved(v, r, s)
    BY <1>13, <2>1, <2>2, Ends
  <2>4. Match(r.sessions[s], R)
    <3>1. DOMAIN v.sessions[s].inst \subseteq R
      BY DEF Match
    <3> QED BY <1>5, <1>9, <1>11, <1>15, <2>2, <3>1 DEF Match, AllStopped, Ended
  <2> QED BY <1>9, <1>11, <1>13, <2>3, <2>4 DEF Handled
<1>16. (a = u \/ Stays(u, a, s)) /\ u.sessions[s].st # "DISABLED" => Stays(u, a, s) /\ ~Ended(u, a, s)
  BY DEF Stays, Ended
<1>17. CASE u.sessions[s].st = "DISABLED"
  <2>1. \A q \in DOMAIN v.sessions[s].inst : v.sessions[s].inst[q].st = "STOPPED"
    BY <1>6, <1>17 DEF Match
  <2>2. u = v /\ a = v
    BY <1>2, <1>5, <2>1 DEF NotifyDataSourceStopped
  <2>3. Match(r.sessions[s], R)
    BY <1>6, <1>9, <1>11, <1>12, <1>17, <2>1, <2>2 DEF Match, Stays
  <2> QED BY <1>9, <1>11, <1>12, <2>2, <2>3, StaysHandled
<1> QED BY <1>7, <1>14, <1>15, <1>16, <1>17 DEF AckedStop

(***************************************************************************)
(* Triggers and files                                                      *)
(***************************************************************************)
Minor(t, q) ==
  /\ SameType(t, q) /\ q.inst = t.inst /\ q.st = t.st /\ q.bugreport = t.bugreport
  /\ q.timers \subseteq t.timers \cup {"stop"}

LEMMA PutMinor ==
  ASSUME NEW v, ServiceType(v), NEW s \in Live(v), NEW q, Minor(v.sessions[s], q),
         NEW r, r = PutRecord(v, s, q)
  PROVE  /\ Local(v, r, s) /\ Stays(v, r, s) /\ r.sessions[s] = q
         /\ \A R : Match(v.sessions[s], R) => Match(q, R)
<1>1. Alike(v.sessions[s], q)
  BY TypeFacts DEF SessionType, Minor, Alike
<1>2. /\ Local(v, r, s) /\ r.sessions[s] = q
      /\ r.told[s] = v.told[s] /\ r.saved[s] = v.saved[s]
  BY <1>1, PutAlike
<1>3. \A R : Match(v.sessions[s], R) => Match(q, R)
  BY DEF Minor, Match
<1> QED BY <1>2, <1>3 DEF Minor, Stays

LEMMA TriggerHandled ==
  ASSUME NEW v, ServiceType(v), NEW s \in Live(v), NEW R, Match(v.sessions[s], R),
         NEW r, r = ActivateTrigger(v, s)
  PROVE  Handled(v, r, s, R)
<1>0. PICK t : t = v.sessions[s]
  OBVIOUS
<1>1. DOMAIN v = ServiceFields /\ DOMAIN t = SessionFields /\ SessionType(t)
  BY <1>0, TypeFacts
<1>2. PICK q : q = [t EXCEPT !.triggered = TRUE]
  OBVIOUS
<1>3. Minor(t, q) /\ DOMAIN q = SessionFields /\ q.timers = t.timers
  BY <1>1, <1>2 DEF Minor, SameType, SessionFields
<1>4. PICK w : w = PutRecord(v, s, q)
  OBVIOUS
<1>5. /\ Local(v, w, s) /\ Stays(v, w, s) /\ w.sessions[s] = q /\ Match(q, R)
  BY <1>0, <1>3, <1>4, PutMinor
<1>6. w = [v EXCEPT !.sessions[s].triggered = TRUE]
  BY <1>0, <1>2, <1>4 DEF PutRecord
<1>7. ServiceType(w) /\ s \in Live(w)
  BY <1>5, LocalLive
<1>8. CASE t.cfg.trigger = "START" /\ t.st = "CONFIGURED"
  <2>1. PICK d : d = [q EXCEPT !.duration = t.cfg.stopDelay]
    OBVIOUS
  <2>2. Minor(q, d)
    BY <1>3, <2>1 DEF Minor, SameType, SessionFields
  <2>3. PICK x : x = PutRecord(w, s, d)
    OBVIOUS
  <2>4. Local(w, x, s) /\ Stays(w, x, s) /\ x.sessions[s] = d /\ Match(d, R)
    BY <1>5, <1>7, <2>2, <2>3, PutMinor
  <2>5. x = [w EXCEPT !.sessions[s].duration = t.cfg.stopDelay]
    BY <1>5, <2>1, <2>3 DEF PutRecord
  <2>6. r = StartTracing(x, s)
    BY <1>0, <1>6, <1>8, <2>5 DEF ActivateTrigger
  <2>7. ServiceType(x) /\ s \in Live(x)
    BY <1>7, <2>4, LocalLive
  <2>8. Handled(x, r, s, R)
    BY <2>4, <2>6, <2>7, StartHandled
  <2>9. Local(v, x, s) /\ Stays(v, x, s)
    BY <1>5, <2>4, LocalTrans
  <2> QED BY <2>8, <2>9, HandledAfter
<1>9. CASE ~(t.cfg.trigger = "START" /\ t.st = "CONFIGURED") /\ t.cfg.trigger = "STOP" /\ ~t.triggered
  <2>1. PICK d : d = [q EXCEPT !.timers = @ \cup {"stop"}]
    OBVIOUS
  <2>2. Minor(q, d)
    BY <1>3, <2>1 DEF Minor, SameType, SessionFields
  <2>3. r = PutRecord(w, s, d)
    <3>1. r = [w EXCEPT !.sessions[s].timers = @ \cup {"stop"}]
      BY <1>0, <1>6, <1>9 DEF ActivateTrigger
    <3> QED BY <1>5, <2>1, <3>1 DEF PutRecord
  <2>4. Local(w, r, s) /\ Stays(w, r, s) /\ r.sessions[s] = d /\ Match(d, R)
    BY <1>5, <1>7, <2>2, <2>3, PutMinor
  <2>5. Local(v, r, s) /\ Stays(v, r, s)
    BY <1>5, <2>4, LocalTrans
  <2> QED BY <2>4, <2>5, StaysHandled
<1>10. CASE /\ ~(t.cfg.trigger = "START" /\ t.st = "CONFIGURED")
            /\ ~(t.cfg.trigger = "STOP" /\ ~t.triggered)
  <2>1. r = w
    BY <1>0, <1>6, <1>10 DEF ActivateTrigger
  <2> QED BY <1>5, <2>1, StaysHandled
<1> QED BY <1>8, <1>9, <1>10

LEMMA PutTwice ==
  ASSUME NEW v, DOMAIN v = ServiceFields, NEW s, NEW q, NEW e
  PROVE  PutRecord(PutRecord(v, s, q), s, e) = PutRecord(v, s, e)
<1>1. PICK S, T, U : /\ S = v.sessions /\ T = [S EXCEPT ![s] = q] /\ U = [S EXCEPT ![s] = e]
  OBVIOUS
<1>2. U = [T EXCEPT ![s] = e]
  BY <1>1
<1>3. PICK w : w = [v EXCEPT !.sessions = T]
  OBVIOUS
<1>4. w.sessions = T /\ [w EXCEPT !.sessions = U] = [v EXCEPT !.sessions = U]
  BY <1>3 DEF ServiceFields
<1> QED BY <1>1, <1>2, <1>3, <1>4 DEF PutRecord

LEMMA WriteHandled ==
  ASSUME NEW v, ServiceType(v), NEW s \in Live(v), NEW R, Match(v.sessions[s], R),
         NEW full, NEW r, r = ReadBuffersIntoFile(v, s, full)
  PROVE  Handled(v, r, s, R)
<1>0. PICK t : t = v.sessions[s]
  OBVIOUS
<1>1. DOMAIN v = ServiceFields /\ DOMAIN t = SessionFields /\ SessionType(t)
  BY <1>0, TypeFacts
<1>2. PICK l, w, c : /\ l = [t EXCEPT !.timers = @ \ {"write"}]
                     /\ w = [t EXCEPT !.written = TRUE]
                     /\ c = [t EXCEPT !.written = TRUE, !.file = FALSE, !.period = FALSE,
                                      !.timers = @ \ {"write"}]
  OBVIOUS
<1>3. Minor(t, l) /\ Minor(t, w) /\ Minor(t, c)
  BY <1>1, <1>2 DEF Minor, SameType, SessionFields
<1>4. PICK L, W, C : L = PutRecord(v, s, l) /\ W = PutRecord(v, s, w) /\ C = PutRecord(v, s, c)
  OBVIOUS
<1>5. /\ Local(v, L, s) /\ Stays(v, L, s) /\ L.sessions[s] = l /\ Match(l, R)
      /\ Local(v, W, s) /\ Stays(v, W, s) /\ W.sessions[s] = w /\ Match(w, R)
      /\ Local(v, C, s) /\ Stays(v, C, s) /\ C.sessions[s] = c /\ Match(c, R)
  <2>1. Local(v, L, s) /\ Stays(v, L, s) /\ L.sessions[s] = l /\ Match(l, R)
    BY <1>0, <1>3, <1>4, PutMinor
  <2>2. Local(v, W, s) /\ Stays(v, W, s) /\ W.sessions[s] = w /\ Match(w, R)
    BY <1>0, <1>3, <1>4, PutMinor
  <2>3. Local(v, C, s) /\ Stays(v, C, s) /\ C.sessions[s] = c /\ Match(c, R)
    BY <1>0, <1>3, <1>4, PutMinor
  <2> QED BY <2>1, <2>2, <2>3
<1>6. CASE ~t.file \/ (~t.seized /\ IsWaitingForTrigger(t))
  <2>1. r = [v EXCEPT !.sessions[s].timers = @ \ {"write"}]
    BY <1>0, <1>6 DEF ReadBuffersIntoFile
  <2>2. r = L
    BY <1>0, <1>2, <1>4, <2>1 DEF PutRecord
  <2> QED BY <1>5, <2>2, StaysHandled
<1>7. CASE ~(~t.file \/ (~t.seized /\ IsWaitingForTrigger(t)))
  <2>1. W = [v EXCEPT !.sessions[s].written = TRUE]
    BY <1>0, <1>2, <1>4 DEF PutRecord
  <2>2. C = [[W EXCEPT !.sessions[s].file = FALSE, !.sessions[s].period = FALSE]
               EXCEPT !.sessions[s].timers = @ \ {"write"}]
    <3>1. PICK e : e = [w EXCEPT !.file = FALSE, !.period = FALSE]
      OBVIOUS
    <3>2. c = [e EXCEPT !.timers = @ \ {"write"}]
      BY <1>1, <1>2, <3>1 DEF SessionFields
    <3>3. PICK E : E = PutRecord(W, s, e)
      OBVIOUS
    <3>4. E = [W EXCEPT !.sessions[s].file = FALSE, !.sessions[s].period = FALSE]
      BY <1>5, <3>1, <3>3 DEF PutRecord
    <3>5. E = PutRecord(v, s, e) /\ C = PutRecord(E, s, c)
      BY <1>1, <1>4, <3>3, TypeFacts, PutTwice
    <3>6. E.sessions[s] = e
      BY <1>1, <3>5, TypeFacts DEF PutRecord, ServiceFields
    <3>7. C = [E EXCEPT !.sessions[s].timers = @ \ {"write"}]
      BY <3>2, <3>5, <3>6 DEF PutRecord
    <3> QED BY <3>4, <3>7
  <2>3. r = IF full \/ ~t.period
            THEN IF t.st = "STARTED" THEN DisableTracing(C, s, FALSE) ELSE C
            ELSE W
    BY <1>0, <1>7, <2>1, <2>2 DEF ReadBuffersIntoFile
  <2>4. ServiceType(C) /\ s \in Live(C)
    BY <1>5, LocalLive
  <2>5. CASE r = DisableTracing(C, s, FALSE)
    <3>1. Handled(C, r, s, R)
      BY <1>5, <2>4, <2>5, DisableHandled
    <3> QED BY <1>5, <3>1, HandledAfter
  <2>6. CASE r = C \/ r = W
    BY <1>5, <2>6, StaysHandled
  <2> QED BY <2>3, <2>5, <2>6
<1> QED BY <1>6, <1>7

(***************************************************************************)
(* The invariant between handlers                                          *)
(***************************************************************************)
Matching(v, R) == \A s \in Live(v) : Match(v.sessions[s], R)

Points(v, s) ==
  LET c == v.sessions[s].consumer
  IN /\ c # "none" => c \in DOMAIN v.consumers /\ v.consumers[c].tsid = s
     /\ c = "none" <=> v.sessions[s].detach_key # "none"
Links(v) ==
  /\ \A c \in DOMAIN v.consumers : LET s == v.consumers[c].tsid IN
       s # 0 => s \in Live(v) /\ v.sessions[s].consumer = c
  /\ \A s \in Live(v) : Points(v, s)
  /\ \A s \in Live(v) : \A x \in Live(v) :
       v.sessions[s].detach_key = v.sessions[x].detach_key => s = x \/ v.sessions[s].detach_key = "none"

(* Whoever was asked and has not acked a flush is waited for.              *)
EarnedFlush(fl) == fl.asked \subseteq fl.acked \cup fl.waiting /\ (fl.waiting = {} => fl.asked = {})
Earned(v) ==
  /\ \A t \in v.posted : t.flush.asked \subseteq t.flush.acked
  /\ \A s \in Live(v) : \A fl \in v.sessions[s].flushes : EarnedFlush(fl)

Good(v) == ServiceType(v) /\ Matching(v, Registered(v)) /\ Links(v) /\ Earned(v)
Moves(v, r) == \A s \in SessionIDs : Moved(v, r, s)

(***************************************************************************)
(* Loops over sessions                                                     *)
(***************************************************************************)
(* From v to u, the sessions in done were visited once.                    *)
Untouched(v, u, x) ==
  /\ x \in Live(v) => u.sessions[x] = v.sessions[x]
  /\ u.told[x] = v.told[x] /\ u.saved[x] = v.saved[x]
Sweep(v, R, done, u) ==
  /\ ServiceType(u) /\ Outside(v, u) /\ DOMAIN u.sessions = DOMAIN v.sessions
  /\ \A x \in SessionIDs \ done : Untouched(v, u, x)
  /\ \A x \in Live(v) : Kept(v.sessions[x], u.sessions[x]) /\ Match(u.sessions[x], R)
  /\ \A x \in done : Moved(v, u, x)

LEMMA LiveIDs ==
  ASSUME NEW v, ServiceType(v)
  PROVE  Live(v) \subseteq SessionIDs /\ IsFiniteSet(Live(v)) /\ IsFiniteSet(SessionIDs)
<1>1. Live(v) \subseteq SessionIDs
  BY TypeFacts
<1>2. IsFiniteSet(SessionIDs)
  BY ServiceConstants, FS_Interval DEF SessionIDs
<1> QED BY <1>1, <1>2, FS_Subset

LEMMA SameLife ==
  ASSUME NEW v, NEW u, NEW x, DOMAIN u.sessions = DOMAIN v.sessions, Untouched(v, u, x),
         u.lastSession = v.lastSession
  PROVE  LifeOf(u, x) = LifeOf(v, x)
<1>1. PhaseOf(u, x) = PhaseOf(v, x)
  BY DEF PhaseOf, Live, St, Untouched
<1>2. /\ (x \in Live(u) /\ u.sessions[x].consumer # "none")
           = (x \in Live(v) /\ v.sessions[x].consumer # "none")
      /\ (x \in Live(u) /\ u.sessions[x].bugreport) = (x \in Live(v) /\ v.sessions[x].bugreport)
  BY DEF Live, Untouched
<1> QED BY <1>1, <1>2, Zenon DEF LifeOf, Untouched

LEMMA SweepStarts ==
  ASSUME NEW v, ServiceType(v), NEW R, Matching(v, R)
  PROVE  Sweep(v, R, {}, v)
BY DEF Sweep, Outside, Untouched, Kept, Matching

LEMMA SweepNext ==
  ASSUME NEW v, ServiceType(v), NEW R, NEW done \in SUBSET Live(v), NEW u, Sweep(v, R, done, u),
         NEW s \in Live(v) \ done, NEW r, Handled(u, r, s, R)
  PROVE  Sweep(v, R, done \cup {s}, r)
<1>1. /\ ServiceType(u) /\ Outside(v, u) /\ DOMAIN u.sessions = DOMAIN v.sessions
      /\ \A x \in SessionIDs \ done : Untouched(v, u, x)
      /\ \A x \in Live(v) : Kept(v.sessions[x], u.sessions[x]) /\ Match(u.sessions[x], R)
      /\ \A x \in done : Moved(v, u, x)
  BY DEF Sweep
<1>2. /\ ServiceType(r) /\ Outside(u, r) /\ DOMAIN r.sessions = DOMAIN u.sessions
      /\ \A x \in DOMAIN u.sessions : x # s => r.sessions[x] = u.sessions[x]
      /\ \A x \in SessionIDs : x # s => r.told[x] = u.told[x] /\ r.saved[x] = u.saved[x]
      /\ Kept(u.sessions[s], r.sessions[s]) /\ Match(r.sessions[s], R) /\ Moved(u, r, s)
      /\ Local(u, r, s)
  BY DEF Handled, Local, Elsewhere
<1>3. ServiceType(r) /\ Outside(v, r) /\ DOMAIN r.sessions = DOMAIN v.sessions
  BY <1>1, <1>2 DEF Outside
<1>4. ASSUME NEW x \in SessionIDs \ (done \cup {s}) PROVE Untouched(v, r, x)
  <2>1. Untouched(v, u, x) /\ x # s
    BY <1>1
  <2> QED BY <1>1, <1>2, <2>1 DEF Untouched, Live
<1>5. ASSUME NEW x \in Live(v)
      PROVE  Kept(v.sessions[x], r.sessions[x]) /\ Match(r.sessions[x], R)
  <2>1. Kept(v.sessions[x], u.sessions[x]) /\ Match(u.sessions[x], R)
    BY <1>1
  <2>2. CASE x = s
    BY <1>2, <2>1, <2>2 DEF Kept
  <2>3. CASE x # s
    <3>1. r.sessions[x] = u.sessions[x]
      BY <1>1, <1>2, <2>3 DEF Live
    <3> QED BY <2>1, <3>1
  <2> QED BY <2>2, <2>3
<1>6. ASSUME NEW x \in done \cup {s} PROVE Moved(v, r, x)
  <2>0. Live(v) \subseteq SessionIDs
    BY LiveIDs
  <2>1. CASE x = s
    <3>1. Untouched(v, u, s) /\ u.lastSession = v.lastSession
      BY <1>1, <2>0 DEF Outside
    <3>2. LifeOf(u, s) = LifeOf(v, s)
      BY <1>1, <3>1, SameLife
    <3> QED BY <1>2, <2>1, <3>2 DEF Moved
  <2>2. CASE x # s
    <3>1. x \in done /\ x \in SessionIDs
      BY <2>0, <2>2
    <3>2. LifeOf(r, x) = LifeOf(u, x)
      BY <1>2, <2>2, <3>1, OthersStayPut
    <3> QED BY <1>1, <3>1, <3>2 DEF Moved
  <2> QED BY <2>1, <2>2
<1> QED BY <1>3, <1>4, <1>5, <1>6 DEF Sweep

LEMMA SweepGood ==
  ASSUME NEW v, ServiceType(v), Links(v), Earned(v), NEW R, NEW done \in SUBSET Live(v),
         NEW u, Sweep(v, R, done, u)
  PROVE  /\ ServiceType(u) /\ Matching(u, R) /\ Links(u) /\ Earned(u) /\ Moves(v, u)
         /\ Registered(u) = Registered(v) /\ Live(u) = Live(v) /\ u.consumers = v.consumers
<1>1. /\ ServiceType(u) /\ Outside(v, u) /\ DOMAIN u.sessions = DOMAIN v.sessions
      /\ \A x \in SessionIDs \ done : Untouched(v, u, x)
      /\ \A x \in Live(v) : Kept(v.sessions[x], u.sessions[x]) /\ Match(u.sessions[x], R)
      /\ \A x \in done : Moved(v, u, x)
  BY DEF Sweep
<1>2. /\ Live(u) = Live(v) /\ Registered(u) = Registered(v) /\ u.consumers = v.consumers
      /\ u.posted = v.posted /\ u.lastSession = v.lastSession
  BY <1>1 DEF Live, Registered, Outside
<1>3. Matching(u, R)
  BY <1>1, <1>2 DEF Matching
<1>4. \A x \in Live(v) : /\ u.sessions[x].consumer = v.sessions[x].consumer
                         /\ u.sessions[x].detach_key = v.sessions[x].detach_key
                         /\ u.sessions[x].flushes = v.sessions[x].flushes
  BY <1>1 DEF Kept
<1>5. Links(u)
  BY <1>2, <1>4 DEF Links, Points
<1>6. Earned(u)
  BY <1>2, <1>4 DEF Earned
<1>7. Moves(v, u)
  <2>1. SUFFICES ASSUME NEW x \in SessionIDs \ done PROVE Moved(v, u, x)
    BY <1>1 DEF Moves
  <2>2. LifeOf(u, x) = LifeOf(v, x)
    BY <1>1, <1>2, SameLife
  <2> QED BY <2>2 DEF Moved
<1> QED BY <1>1, <1>2, <1>3, <1>5, <1>6, <1>7

LEMMA HandledGood ==
  ASSUME NEW v, Good(v), NEW s \in Live(v), NEW r, Handled(v, r, s, Registered(v))
  PROVE  /\ Good(r) /\ Moves(v, r) /\ Live(r) = Live(v) /\ r.consumers = v.consumers
         /\ Registered(r) = Registered(v)
<1>1. PICK R : R = Registered(v)
  OBVIOUS
<1>2. ServiceType(v) /\ Matching(v, R) /\ Links(v) /\ Earned(v) /\ Handled(v, r, s, R)
  BY <1>1 DEF Good
<1>3. Sweep(v, R, {}, v)
  BY <1>2, SweepStarts
<1>4. Sweep(v, R, {} \cup {s}, r)
  BY <1>2, <1>3, SweepNext
<1>5. /\ ServiceType(r) /\ Matching(r, R) /\ Links(r) /\ Earned(r) /\ Moves(v, r)
      /\ Registered(r) = Registered(v) /\ Live(r) = Live(v) /\ r.consumers = v.consumers
  BY <1>2, <1>4, SweepGood
<1> QED BY <1>1, <1>5 DEF Good

(* The loops over sessions: of RegisterDataSource(), of the acks, of       *)
(* ActivateTriggers() and of UnregisterDataSource().                       *)
Swept(p, v, R, done, u) == Sweep(v, R, done, u)

LEMMA NotVisited ==
  ASSUME NEW v, ServiceType(v), NEW R, NEW S \in SUBSET Live(v), NEW done \in SUBSET S,
         NEW u, Sweep(v, R, done, u), NEW s \in S \ done
  PROVE  /\ ServiceType(u) /\ s \in Live(u) /\ u.sessions[s] = v.sessions[s]
         /\ Match(u.sessions[s], R)
<1>1. s \in SessionIDs \ done /\ s \in Live(v)
  BY LiveIDs
<1> QED BY <1>1 DEF Sweep, Untouched, Live

RegisterEach(v, p, S) == FoldSet(LAMBDA s, u : SetupAndStart(u, s, p), v, S)
RegisterOne(p, b, s, u) == SetupAndStart(u, s, p)
RegisterLoop == INSTANCE FoldInduction WITH Op <- RegisterOne, P <- Swept

LEMMA RegisterAll ==
  ASSUME NEW v, ServiceType(v), NEW R, Matching(v, R), NEW p, NEW S \in SUBSET Live(v),
         p \in Producers, p \in R, \A s \in S : Running(v, s),
         NEW r, r = RegisterEach(v, p, S)
  PROVE  Swept(p, v, R, S, r)
<1>1. r = RegisterLoop!Fold(p, v, v, S)
  BY DEF RegisterEach, RegisterLoop!Fold, RegisterOne, FoldSet, MapThenFoldSet, RegisterLoop!FoldSet,
         RegisterLoop!MapThenFoldSet
<1>2. RegisterLoop!IsFiniteSet(S)
  <2>1. IsFiniteSet(S)
    BY LiveIDs, FS_Subset
  <2> QED BY <2>1 DEF RegisterLoop!IsFiniteSet, IsFiniteSet
<1>3. Swept(p, v, R, {}, v)
  BY SweepStarts DEF Swept
<1>4. ASSUME NEW done \in SUBSET S, NEW s \in S \ done, NEW u, Swept(p, v, R, done, u)
      PROVE  Swept(p, v, R, done \cup {s}, RegisterOne(p, v, s, u))
  <2>0. Sweep(v, R, done, u)
    BY <1>4 DEF Swept
  <2>1. PICK w : w = SetupAndStart(u, s, p)
    OBVIOUS
  <2>2. /\ ServiceType(u) /\ s \in Live(u) /\ u.sessions[s] = v.sessions[s]
        /\ Match(u.sessions[s], R)
    BY <2>0, NotVisited
  <2>3. Handled(u, w, s, R)
    <3>1. Running(u, s)
      BY <2>2 DEF Running, St
    <3>2. Local(u, w, s) /\ Stays(u, w, s) /\ Match(w.sessions[s], R)
      BY <2>1, <2>2, <3>1, SetupAndStartHandled
    <3> QED BY <2>2, <3>2, StaysHandled
  <2>4. Sweep(v, R, done \cup {s}, w)
    BY <2>0, <2>3, SweepNext
  <2> QED BY <2>1, <2>4 DEF Swept, RegisterOne
<1>5. Swept(p, v, R, S, r)
  BY <1>1, <1>2, <1>3, <1>4, RegisterLoop!FoldInduces
<1> QED BY <1>5

StartedEach(v, p, S) == FoldSet(LAMBDA s, u : NotifyDataSourceStarted(u, s, p), v, S)
StartedOne(p, b, s, u) == NotifyDataSourceStarted(u, s, p)
StartedLoop == INSTANCE FoldInduction WITH Op <- StartedOne, P <- Swept

LEMMA StartedAll ==
  ASSUME NEW v, ServiceType(v), NEW R, Matching(v, R), NEW p, NEW S \in SUBSET Live(v),
         \A s \in S : p \in DOMAIN v.sessions[s].inst,
         NEW r, r = StartedEach(v, p, S)
  PROVE  Swept(p, v, R, S, r)
<1>1. r = StartedLoop!Fold(p, v, v, S)
  BY DEF StartedEach, StartedLoop!Fold, StartedOne, FoldSet, MapThenFoldSet, StartedLoop!FoldSet,
         StartedLoop!MapThenFoldSet
<1>2. StartedLoop!IsFiniteSet(S)
  <2>1. IsFiniteSet(S)
    BY LiveIDs, FS_Subset
  <2> QED BY <2>1 DEF StartedLoop!IsFiniteSet, IsFiniteSet
<1>3. Swept(p, v, R, {}, v)
  BY SweepStarts DEF Swept
<1>4. ASSUME NEW done \in SUBSET S, NEW s \in S \ done, NEW u, Swept(p, v, R, done, u)
      PROVE  Swept(p, v, R, done \cup {s}, StartedOne(p, v, s, u))
  <2>0. Sweep(v, R, done, u)
    BY <1>4 DEF Swept
  <2>1. PICK w : w = NotifyDataSourceStarted(u, s, p)
    OBVIOUS
  <2>2. /\ ServiceType(u) /\ s \in Live(u) /\ u.sessions[s] = v.sessions[s]
        /\ Match(u.sessions[s], R)
    BY <2>0, NotVisited
  <2>3. Handled(u, w, s, R)
    BY <2>1, <2>2, AckStarted
  <2>4. Sweep(v, R, done \cup {s}, w)
    BY <2>0, <2>3, SweepNext
  <2> QED BY <2>1, <2>4 DEF Swept, StartedOne
<1>5. Swept(p, v, R, S, r)
  BY <1>1, <1>2, <1>3, <1>4, StartedLoop!FoldInduces
<1> QED BY <1>5

StoppedEach(v, p, S) == FoldSet(LAMBDA s, u : NotifyDataSourceStopped(u, s, p), v, S)
StoppedOne(p, b, s, u) == NotifyDataSourceStopped(u, s, p)
StoppedLoop == INSTANCE FoldInduction WITH Op <- StoppedOne, P <- Swept

LEMMA StoppedAll ==
  ASSUME NEW v, ServiceType(v), NEW R, Matching(v, R), NEW p, NEW S \in SUBSET Live(v),
         \A s \in S : p \in DOMAIN v.sessions[s].inst,
         NEW r, r = StoppedEach(v, p, S)
  PROVE  Swept(p, v, R, S, r)
<1>1. r = StoppedLoop!Fold(p, v, v, S)
  BY DEF StoppedEach, StoppedLoop!Fold, StoppedOne, FoldSet, MapThenFoldSet, StoppedLoop!FoldSet,
         StoppedLoop!MapThenFoldSet
<1>2. StoppedLoop!IsFiniteSet(S)
  <2>1. IsFiniteSet(S)
    BY LiveIDs, FS_Subset
  <2> QED BY <2>1 DEF StoppedLoop!IsFiniteSet, IsFiniteSet
<1>3. Swept(p, v, R, {}, v)
  BY SweepStarts DEF Swept
<1>4. ASSUME NEW done \in SUBSET S, NEW s \in S \ done, NEW u, Swept(p, v, R, done, u)
      PROVE  Swept(p, v, R, done \cup {s}, StoppedOne(p, v, s, u))
  <2>0. Sweep(v, R, done, u)
    BY <1>4 DEF Swept
  <2>1. PICK w : w = NotifyDataSourceStopped(u, s, p)
    OBVIOUS
  <2>2. /\ ServiceType(u) /\ s \in Live(u) /\ u.sessions[s] = v.sessions[s]
        /\ Match(u.sessions[s], R)
    BY <2>0, NotVisited
  <2>3. Handled(u, w, s, R)
    BY <2>1, <2>2, AckStopped
  <2>4. Sweep(v, R, done \cup {s}, w)
    BY <2>0, <2>3, SweepNext
  <2> QED BY <2>1, <2>4 DEF Swept, StoppedOne
<1>5. Swept(p, v, R, S, r)
  BY <1>1, <1>2, <1>3, <1>4, StoppedLoop!FoldInduces
<1> QED BY <1>5

TriggerEach(v, p, S) == FoldSet(LAMBDA s, u : ActivateTrigger(u, s), v, S)
TriggerOne(p, b, s, u) == ActivateTrigger(u, s)
TriggerLoop == INSTANCE FoldInduction WITH Op <- TriggerOne, P <- Swept

LEMMA TriggerAll ==
  ASSUME NEW v, ServiceType(v), NEW R, Matching(v, R), NEW p, NEW S \in SUBSET Live(v),
         NEW r, r = TriggerEach(v, p, S)
  PROVE  Swept(p, v, R, S, r)
<1>1. r = TriggerLoop!Fold(p, v, v, S)
  BY DEF TriggerEach, TriggerLoop!Fold, TriggerOne, FoldSet, MapThenFoldSet, TriggerLoop!FoldSet,
         TriggerLoop!MapThenFoldSet
<1>2. TriggerLoop!IsFiniteSet(S)
  <2>1. IsFiniteSet(S)
    BY LiveIDs, FS_Subset
  <2> QED BY <2>1 DEF TriggerLoop!IsFiniteSet, IsFiniteSet
<1>3. Swept(p, v, R, {}, v)
  BY SweepStarts DEF Swept
<1>4. ASSUME NEW done \in SUBSET S, NEW s \in S \ done, NEW u, Swept(p, v, R, done, u)
      PROVE  Swept(p, v, R, done \cup {s}, TriggerOne(p, v, s, u))
  <2>0. Sweep(v, R, done, u)
    BY <1>4 DEF Swept
  <2>1. PICK w : w = ActivateTrigger(u, s)
    OBVIOUS
  <2>2. /\ ServiceType(u) /\ s \in Live(u) /\ u.sessions[s] = v.sessions[s]
        /\ Match(u.sessions[s], R)
    BY <2>0, NotVisited
  <2>3. Handled(u, w, s, R)
    BY <2>1, <2>2, TriggerHandled
  <2>4. Sweep(v, R, done \cup {s}, w)
    BY <2>0, <2>3, SweepNext
  <2> QED BY <2>1, <2>4 DEF Swept, TriggerOne
<1>5. Swept(p, v, R, S, r)
  BY <1>1, <1>2, <1>3, <1>4, TriggerLoop!FoldInduces
<1> QED BY <1>5

Removed(p, v, R, done, u) ==
  Sweep(v, R, done, u) /\ \A s \in done : p \notin DOMAIN u.sessions[s].inst
RemoveEach(v, p, S) == FoldSet(LAMBDA s, u : RemoveInstance(u, s, p), v, S)
RemoveOne(p, b, s, u) == RemoveInstance(u, s, p)
RemoveLoop == INSTANCE FoldInduction WITH Op <- RemoveOne, P <- Removed

LEMMA RemoveAll ==
  ASSUME NEW v, ServiceType(v), NEW R, Matching(v, R), NEW p, NEW S \in SUBSET Live(v),
         \A s \in S : p \in DOMAIN v.sessions[s].inst,
         NEW r, r = RemoveEach(v, p, S)
  PROVE  Removed(p, v, R, S, r)
<1>1. r = RemoveLoop!Fold(p, v, v, S)
  BY DEF RemoveEach, RemoveLoop!Fold, RemoveOne, FoldSet, MapThenFoldSet, RemoveLoop!FoldSet,
         RemoveLoop!MapThenFoldSet
<1>2. RemoveLoop!IsFiniteSet(S)
  <2>1. IsFiniteSet(S)
    BY LiveIDs, FS_Subset
  <2> QED BY <2>1 DEF RemoveLoop!IsFiniteSet, IsFiniteSet
<1>3. Removed(p, v, R, {}, v)
  BY SweepStarts DEF Removed
<1>4. ASSUME NEW done \in SUBSET S, NEW s \in S \ done, NEW u, Removed(p, v, R, done, u)
      PROVE  Removed(p, v, R, done \cup {s}, RemoveOne(p, v, s, u))
  <2>0. Sweep(v, R, done, u)
    BY <1>4 DEF Removed
  <2>1. PICK w : w = RemoveInstance(u, s, p)
    OBVIOUS
  <2>2. /\ ServiceType(u) /\ s \in Live(u) /\ u.sessions[s] = v.sessions[s]
        /\ Match(u.sessions[s], R)
    BY <2>0, NotVisited
  <2>3. Handled(u, w, s, R) /\ p \notin DOMAIN w.sessions[s].inst
    BY <2>1, <2>2, RemoveHandled
  <2>4. Sweep(v, R, done \cup {s}, w)
    BY <2>0, <2>3, SweepNext
  <2>5. ASSUME NEW x \in done \cup {s} PROVE p \notin DOMAIN w.sessions[x].inst
    <3>1. CASE x # s
      <4>1. w.sessions[x] = u.sessions[x]
        BY <2>0, <2>3, <3>1 DEF Handled, Local, Elsewhere, Sweep, Live
      <4> QED BY <1>4, <3>1, <4>1 DEF Removed
    <3> QED BY <2>3, <3>1
  <2> QED BY <2>1, <2>4, <2>5 DEF Removed, RemoveOne
<1>5. Removed(p, v, R, S, r)
  BY <1>1, <1>2, <1>3, <1>4, RemoveLoop!FoldInduces
<1> QED BY <1>5

(* The loops of EnableTracing() and ChangeTraceConfig() over producers.    *)
SetupEach(v, s, S) == FoldSet(LAMBDA p, u : SetupDataSource(u, s, p), v, S)
SetupOne(s, b, p, u) == SetupDataSource(u, s, p)
SomeSetUp(s, v, c, done, u) ==
  /\ Local(v, u, s) /\ Stays(v, u, s) /\ DOMAIN u.sessions[s].inst = done
  /\ \A p \in done : u.sessions[s].inst[p].st = "CONFIGURED"
SetupLoop == INSTANCE FoldInduction WITH Op <- SetupOne, P <- SomeSetUp

LEMMA SetupAll ==
  ASSUME NEW v, ServiceType(v), NEW s \in Live(v), DOMAIN v.sessions[s].inst = {},
         NEW S \in SUBSET Producers, NEW r, r = SetupEach(v, s, S)
  PROVE  SomeSetUp(s, v, 0, S, r)
<1>1. r = SetupLoop!Fold(s, v, v, S)
  BY DEF SetupEach, SetupLoop!Fold, SetupOne, FoldSet, MapThenFoldSet, SetupLoop!FoldSet,
         SetupLoop!MapThenFoldSet
<1>2. SetupLoop!IsFiniteSet(S)
  <2>1. IsFiniteSet(S)
    BY ServiceConstants, FS_Subset
  <2> QED BY <2>1 DEF SetupLoop!IsFiniteSet, IsFiniteSet
<1>3. SomeSetUp(s, v, 0, {}, v)
  BY LocalRefl DEF SomeSetUp
<1>4. ASSUME NEW done \in SUBSET S, NEW p \in S \ done, NEW u, SomeSetUp(s, v, 0, done, u)
      PROVE  SomeSetUp(s, v, 0, done \cup {p}, SetupOne(s, v, p, u))
  <2>1. PICK w : w = SetupDataSource(u, s, p)
    OBVIOUS
  <2>2. /\ Local(v, u, s) /\ Stays(v, u, s) /\ DOMAIN u.sessions[s].inst = done
        /\ \A q \in done : u.sessions[s].inst[q].st = "CONFIGURED"
    BY <1>4 DEF SomeSetUp
  <2>3. ServiceType(u) /\ s \in Live(u) /\ p \in Producers
    BY <2>2, LocalLive
  <2>4. /\ Local(u, w, s) /\ Stays(u, w, s)
        /\ DOMAIN w.sessions[s].inst = DOMAIN u.sessions[s].inst \cup {p}
        /\ w.sessions[s].inst[p].st = "CONFIGURED"
        /\ \A q \in DOMAIN u.sessions[s].inst :
             q # p => w.sessions[s].inst[q] = u.sessions[s].inst[q]
    BY <2>1, <2>3, SetupLocal
  <2>5. Local(v, w, s) /\ Stays(v, w, s)
    BY <2>2, <2>4, LocalTrans
  <2>6. /\ DOMAIN w.sessions[s].inst = done \cup {p}
        /\ \A q \in done \cup {p} : w.sessions[s].inst[q].st = "CONFIGURED"
    BY <2>2, <2>4
  <2> QED BY <2>1, <2>5, <2>6 DEF SomeSetUp, SetupOne
<1>5. SomeSetUp(s, v, 0, S, r)
  BY <1>1, <1>2, <1>3, <1>4, SetupLoop!FoldInduces
<1> QED BY <1>5

ChangeEach(v, s, S) == FoldSet(LAMBDA p, u : SetupAndStart(u, s, p), v, S)
ChangeOne(s, b, p, u) == SetupAndStart(u, s, p)
SomeChanged(s, v, R, done, u) ==
  Local(v, u, s) /\ Stays(v, u, s) /\ Match(u.sessions[s], R)
ChangeLoop == INSTANCE FoldInduction WITH Op <- ChangeOne, P <- SomeChanged

LEMMA ChangeAll ==
  ASSUME NEW v, ServiceType(v), NEW s \in Live(v), NEW R, Match(v.sessions[s], R),
         Running(v, s), NEW S \in SUBSET Producers, S \subseteq R,
         NEW r, r = ChangeEach(v, s, S)
  PROVE  SomeChanged(s, v, R, S, r)
<1>1. r = ChangeLoop!Fold(s, v, v, S)
  BY DEF ChangeEach, ChangeLoop!Fold, ChangeOne, FoldSet, MapThenFoldSet, ChangeLoop!FoldSet,
         ChangeLoop!MapThenFoldSet
<1>2. ChangeLoop!IsFiniteSet(S)
  <2>1. IsFiniteSet(S)
    BY ServiceConstants, FS_Subset
  <2> QED BY <2>1 DEF ChangeLoop!IsFiniteSet, IsFiniteSet
<1>3. SomeChanged(s, v, R, {}, v)
  BY LocalRefl DEF SomeChanged
<1>4. ASSUME NEW done \in SUBSET S, NEW p \in S \ done, NEW u, SomeChanged(s, v, R, done, u)
      PROVE  SomeChanged(s, v, R, done \cup {p}, ChangeOne(s, v, p, u))
  <2>1. PICK w : w = SetupAndStart(u, s, p)
    OBVIOUS
  <2>2. Local(v, u, s) /\ Stays(v, u, s) /\ Match(u.sessions[s], R)
    BY <1>4 DEF SomeChanged
  <2>3. ServiceType(u) /\ s \in Live(u) /\ p \in Producers /\ p \in R /\ Running(u, s)
    BY <2>2, LocalLive DEF Running, Stays, St
  <2>4. Local(u, w, s) /\ Stays(u, w, s) /\ Match(w.sessions[s], R)
    BY <2>1, <2>2, <2>3, SetupAndStartHandled
  <2>5. Local(v, w, s) /\ Stays(v, w, s)
    BY <2>2, <2>4, LocalTrans
  <2> QED BY <2>1, <2>4, <2>5 DEF SomeChanged, ChangeOne
<1>5. SomeChanged(s, v, R, S, r)
  BY <1>1, <1>2, <1>3, <1>4, ChangeLoop!FoldInduces
<1> QED BY <1>5

LEMMA ChangeHandled ==
  ASSUME NEW v, ServiceType(v), NEW s \in Live(v), NEW R, R = Registered(v),
         Match(v.sessions[s], R), NEW filter, NEW r, r = ChangeTraceConfig(v, s, filter)
  PROVE  Handled(v, r, s, R)
<1>1. CASE ~Running(v, s)
  <2>1. r = v
    BY <1>1 DEF ChangeTraceConfig
  <2> QED BY <2>1, LocalRefl, StaysHandled
<1>2. CASE Running(v, s)
  <2>1. PICK t, q : t = v.sessions[s] /\ q = [t EXCEPT !.filter = filter]
    OBVIOUS
  <2>2. DOMAIN t = SessionFields
    BY <2>1, TypeFacts
  <2>3. Minor(t, q)
    BY <2>1, <2>2 DEF Minor, SameType, SessionFields
  <2>4. PICK w : w = PutRecord(v, s, q)
    OBVIOUS
  <2>5. Local(v, w, s) /\ Stays(v, w, s) /\ Match(w.sessions[s], R)
    BY <2>1, <2>3, <2>4, PutMinor
  <2>6. w = [v EXCEPT !.sessions[s].filter = filter]
    BY <2>1, <2>4 DEF PutRecord
  <2>7. PICK S : S = (Registered(v) \cap filter) \ DOMAIN v.sessions[s].inst
    OBVIOUS
  <2>8. r = ChangeEach(w, s, S)
    BY <1>2, <2>6, <2>7 DEF ChangeTraceConfig, ChangeEach
  <2>9. S \in SUBSET Producers /\ S \subseteq R
    BY <2>7 DEF Registered
  <2>10. ServiceType(w) /\ s \in Live(w) /\ Running(w, s)
    BY <1>2, <2>5, LocalLive DEF Running, Stays, St
  <2>11. SomeChanged(s, w, R, S, r)
    BY <2>5, <2>8, <2>9, <2>10, ChangeAll
  <2>12. Local(w, r, s) /\ Stays(w, r, s) /\ Match(r.sessions[s], R)
    BY <2>11 DEF SomeChanged
  <2>13. Local(v, r, s) /\ Stays(v, r, s)
    BY <2>5, <2>12, LocalTrans
  <2> QED BY <2>12, <2>13, StaysHandled
<1> QED BY <1>1, <1>2

(***************************************************************************)
(* Steps beside the sessions                                               *)
(***************************************************************************)
SameLives(v, r) == \A x \in SessionIDs : LifeOf(r, x) = LifeOf(v, x)

LEMMA LivesCompose ==
  ASSUME NEW v, NEW w, NEW r
  PROVE  /\ SameLives(v, w) /\ Moves(w, r) => Moves(v, r)
         /\ Moves(v, w) /\ SameLives(w, r) => Moves(v, r)
         /\ SameLives(v, w) /\ SameLives(w, r) => SameLives(v, r)
         /\ SameLives(v, r) => Moves(v, r)
BY DEF SameLives, Moves, Moved

(* The sessions are as they were.                                          *)
Aside(v, r) ==
  /\ DOMAIN r = ServiceFields /\ r.sessions = v.sessions /\ r.told = v.told /\ r.saved = v.saved
  /\ r.lastSession = v.lastSession /\ r.lastInstance = v.lastInstance
  /\ r.lastFlush = v.lastFlush

LEMMA AsideKeeps ==
  ASSUME NEW v, ServiceType(v), NEW r, Aside(v, r), Clients(r), OwedType(r)
  PROVE  /\ ServiceType(r) /\ Live(r) = Live(v) /\ SameLives(v, r)
         /\ \A R : Matching(v, R) => Matching(r, R)
         /\ r.consumers = v.consumers /\ Links(v) => Links(r)
         /\ r.posted \subseteq v.posted /\ Earned(v) => Earned(r)
<1>1. Live(r) = Live(v)
  BY DEF Aside, Live
<1>2. Numbers(r) /\ History(r)
  BY <1>1 DEF Aside, ServiceType, Numbers, History
<1>3. ServiceType(r)
  BY <1>1, <1>2 DEF Aside, ServiceType
<1>4. SameLives(v, r)
  <2>1. SUFFICES ASSUME NEW x \in SessionIDs PROVE LifeOf(r, x) = LifeOf(v, x)
    BY DEF SameLives
  <2>2. Untouched(v, r, x) /\ DOMAIN r.sessions = DOMAIN v.sessions /\ r.lastSession = v.lastSession
    BY DEF Aside, Untouched
  <2> QED BY <2>2, SameLife
<1>5. \A R : Matching(v, R) => Matching(r, R)
  BY <1>1 DEF Aside, Matching
<1>6. r.consumers = v.consumers /\ Links(v) => Links(r)
  BY <1>1 DEF Aside, Links, Points
<1>7. r.posted \subseteq v.posted /\ Earned(v) => Earned(r)
  BY <1>1 DEF Aside, Earned
<1> QED BY <1>1, <1>3, <1>4, <1>5, <1>6, <1>7

(* Also the clients are.                                                   *)
LEMMA AsideGood ==
  ASSUME NEW v, Good(v), NEW r, Aside(v, r), OwedType(r), r.consumers = v.consumers,
         r.producer = v.producer, r.posted \subseteq v.posted
  PROVE  Good(r) /\ SameLives(v, r) /\ Live(r) = Live(v)
<1>1. ServiceType(v) /\ Matching(v, Registered(v)) /\ Links(v) /\ Earned(v)
  BY DEF Good
<1>2. Clients(r) /\ Registered(r) = Registered(v)
  BY <1>1 DEF ServiceType, Clients, Registered
<1> QED BY <1>1, <1>2, AsideKeeps DEF Good

LEMMA Forgets ==
  ASSUME NEW v, Good(v), NEW o \in SUBSET v.owed, NEW r, r = [v EXCEPT !.owed = o]
  PROVE  Good(r) /\ SameLives(v, r) /\ Live(r) = Live(v) /\ r.sessions = v.sessions
<1>1. DOMAIN v = ServiceFields /\ OwedType(v)
  BY DEF Good, ServiceType
<1>2. /\ Aside(v, r) /\ r.owed = o /\ r.consumers = v.consumers /\ r.producer = v.producer
      /\ r.posted = v.posted
  BY <1>1 DEF Aside, ServiceFields
<1>3. OwedType(r)
  BY <1>1, <1>2 DEF OwedType, Aside
<1> QED BY <1>2, <1>3, AsideGood DEF Aside

LEMMA Unposts ==
  ASSUME NEW v, Good(v), NEW o \in SUBSET v.posted, NEW r, r = [v EXCEPT !.posted = o]
  PROVE  Good(r) /\ SameLives(v, r)
<1>1. DOMAIN v = ServiceFields /\ OwedType(v)
  BY DEF Good, ServiceType
<1>2. /\ Aside(v, r) /\ r.owed = v.owed /\ r.consumers = v.consumers /\ r.producer = v.producer
      /\ r.posted = o
  BY <1>1 DEF Aside, ServiceFields
<1>3. OwedType(r)
  BY <1>1, <1>2 DEF OwedType, Aside
<1> QED BY <1>2, <1>3, AsideGood

LEMMA Crashes ==
  ASSUME NEW v, Good(v), NEW r, r = [v EXCEPT !.crashed = TRUE]
  PROVE  Good(r) /\ SameLives(v, r)
<1>1. DOMAIN v = ServiceFields /\ OwedType(v)
  BY DEF Good, ServiceType
<1>2. /\ Aside(v, r) /\ r.owed = v.owed /\ r.consumers = v.consumers /\ r.producer = v.producer
      /\ r.posted = v.posted
  BY <1>1 DEF Aside, ServiceFields
<1>3. OwedType(r)
  BY <1>1, <1>2 DEF OwedType, Aside
<1> QED BY <1>2, <1>3, AsideGood

(* Another state x of producer p.                                          *)
LEMMA SetProducer ==
  ASSUME NEW v, ServiceType(v), NEW p \in Producers, NEW x \in {"new", "idle", "ds", "gone"},
         NEW r, r = [v EXCEPT !.producer[p] = x]
  PROVE  /\ ServiceType(r) /\ Live(r) = Live(v) /\ SameLives(v, r) /\ r.sessions = v.sessions
         /\ r.consumers = v.consumers
         /\ \A R : Matching(v, R) => Matching(r, R)
         /\ Links(v) => Links(r)
         /\ Earned(v) => Earned(r)
         /\ Registered(r) = IF x = "ds" THEN Registered(v) \cup {p} ELSE Registered(v) \ {p}
<1>1. /\ DOMAIN v = ServiceFields /\ OwedType(v) /\ Clients(v)
      /\ v.producer \in [Producers -> {"new", "idle", "ds", "gone"}]
  BY DEF ServiceType, Clients
<1>2. PICK f : f = [v.producer EXCEPT ![p] = x]
  OBVIOUS
<1>3. r = [v EXCEPT !.producer = f]
  BY <1>2
<1>4. /\ Aside(v, r) /\ r.owed = v.owed /\ r.consumers = v.consumers /\ r.producer = f
      /\ r.posted = v.posted
  BY <1>1, <1>3 DEF Aside, ServiceFields
<1>5. OwedType(r) /\ r.sessions = v.sessions
  BY <1>1, <1>4 DEF OwedType, Aside
<1>6. Clients(r)
  BY <1>1, <1>2, <1>4 DEF Clients
<1>7. Registered(r) = IF x = "ds" THEN Registered(v) \cup {p} ELSE Registered(v) \ {p}
  BY <1>1, <1>2, <1>4 DEF Registered
<1> QED BY <1>4, <1>5, <1>6, <1>7, AsideKeeps

(* Other consumers.                                                        *)
WithConsumers(v, C) == [v EXCEPT !.consumers = C]
ConsumerRecord == [tsid : Nat, watching : BOOLEAN]
ConsumersType(C) == DOMAIN C \subseteq Consumers /\ \A c \in DOMAIN C : C[c] \in ConsumerRecord

LEMMA SetConsumers ==
  ASSUME NEW v, ServiceType(v), NEW C, ConsumersType(C), NEW r, r = WithConsumers(v, C)
  PROVE  /\ ServiceType(r) /\ Live(r) = Live(v) /\ SameLives(v, r) /\ r.sessions = v.sessions
         /\ r.consumers = C /\ Registered(r) = Registered(v)
         /\ \A R : Matching(v, R) => Matching(r, R)
         /\ Earned(v) => Earned(r)
<1>1. DOMAIN v = ServiceFields /\ OwedType(v) /\ Clients(v)
  BY DEF ServiceType
<1>2. /\ Aside(v, r) /\ r.owed = v.owed /\ r.consumers = C /\ r.producer = v.producer
      /\ r.posted = v.posted
  BY <1>1 DEF Aside, ServiceFields, WithConsumers
<1>3. OwedType(r) /\ r.sessions = v.sessions /\ Registered(r) = Registered(v)
  BY <1>1, <1>2 DEF OwedType, Aside, Registered
<1>4. Clients(r)
  BY <1>1, <1>2 DEF Clients, ConsumersType, ConsumerRecord
<1> QED BY <1>2, <1>3, <1>4, AsideKeeps

(***************************************************************************)
(* FreeBuffers() and the callbacks of flushes                              *)
(***************************************************************************)
FreedFrom(a, b, at, f, td, sv) ==
  /\ a = [phase |-> "DISABLED", attached |-> at, seized |-> f, told |-> td, saved |-> sv]
  /\ b = [phase |-> "gone", attached |-> f, seized |-> f, told |-> td, saved |-> sv]

LEMMA FreedRecord ==
  ASSUME NEW at, NEW f, NEW td, NEW sv, NEW a, NEW b, FreedFrom(a, b, at, f, td, sv), f = FALSE
  PROVE  Abstract!Free(a, b)
<1> USE DEF FreedFrom
<1>1. PICK c : c = [a EXCEPT !.phase = "gone", !.attached = f]
  OBVIOUS
<1>2. DOMAIN c = DOMAIN b
  BY <1>1
<1>3. /\ c.phase = "gone" /\ c.attached = f /\ c.seized = f /\ c.told = td /\ c.saved = sv
  BY <1>1
<1>4. c = [x \in DOMAIN c |-> c[x]] /\ b = [x \in DOMAIN b |-> b[x]]
  BY <1>1
<1>5. a.phase = "DISABLED" /\ b = c
  BY <1>1, <1>2, <1>3, <1>4
<1> HIDE DEF FreedFrom
<1> QED BY <1>1, <1>5, Zenon DEF Abstract!Free

LEMMA FreePhase ==
  ASSUME NEW v, Good(v), NEW s \in Live(v), NEW a, a = LifeOf(v, s), NEW b,
         b.phase = "gone",
         b = IF v.sessions[s].st = "DISABLED"
             THEN [phase |-> "gone", attached |-> FALSE, seized |-> FALSE,
                   told |-> v.told[s], saved |-> v.saved[s]]
             ELSE [phase |-> "gone", attached |-> FALSE, seized |-> FALSE,
                   told |-> IF v.sessions[s].consumer # "none" THEN v.told[s] + 1 ELSE v.told[s],
                   saved |-> IF v.sessions[s].bugreport THEN v.saved[s] + 1 ELSE v.saved[s]]
  PROVE  Abstract!SessionStep(a, b)
<1>1. ServiceType(v) /\ v.sessions[s].st \in SessionState /\ v.sessions[s].bugreport \in BOOLEAN
  BY TypeFacts DEF Good, SessionType
<1>2. a = [phase |-> v.sessions[s].st, attached |-> v.sessions[s].consumer # "none",
           seized |-> v.sessions[s].bugreport, told |-> v.told[s], saved |-> v.saved[s]]
  BY <1>1, LifeOfLive
<1>3. CASE v.sessions[s].st = "DISABLED"
  <2>1. v.sessions[s].bugreport = FALSE
    BY <1>3 DEF Good, Matching, Match
  <2>2. PICK at, td, sv, f : /\ at = (v.sessions[s].consumer # "none")
                             /\ td = v.told[s] /\ sv = v.saved[s] /\ f = FALSE
    OBVIOUS
  <2>3. FreedFrom(a, b, at, f, td, sv)
    BY <1>2, <1>3, <2>1, <2>2 DEF FreedFrom
  <2>4. Abstract!Free(a, b)
    BY <2>2, <2>3, FreedRecord
  <2> QED BY <2>4 DEF Abstract!SessionStep
<1>4. CASE v.sessions[s].st # "DISABLED"
  <2>1. a.phase \in Abstract!Active /\ b.phase \in Abstract!Ended
    BY <1>1, <1>2, <1>4 DEF Abstract!Active, Abstract!Ended, SessionState
  <2>2. /\ a.attached = (v.sessions[s].consumer # "none") /\ a.seized = v.sessions[s].bugreport
        /\ a.told = v.told[s] /\ a.saved = v.saved[s]
    BY <1>2
  <2>3. (a.attached /\ b.phase = "DISABLED") = FALSE
    OBVIOUS
  <2>4. b = [phase |-> "gone", attached |-> FALSE, seized |-> FALSE,
             told |-> IF a.attached THEN a.told + 1 ELSE a.told,
             saved |-> IF a.seized THEN a.saved + 1 ELSE a.saved]
    BY <1>4, <2>2
  <2>5. Abstract!End(a, b)
    BY <2>1, <2>3, <2>4, Zenon DEF Abstract!End
  <2> QED BY <2>5 DEF Abstract!SessionStep
<1> QED BY <1>3, <1>4

LEMMA FreeFacts ==
  ASSUME NEW v, Good(v), NEW s \in Live(v), NEW r, r = FreeBuffers(v, s)
  PROVE  /\ ServiceType(r) /\ Matching(r, Registered(r)) /\ Earned(r) /\ Moves(v, r)
         /\ Live(r) = Live(v) \ {s} /\ r.consumers = v.consumers
         /\ \A x \in Live(r) : r.sessions[x] = v.sessions[x]
<1>1. PICK w : w = DisableTracing(v, s, TRUE)
  OBVIOUS
<1>2. ServiceType(v) /\ Match(v.sessions[s], Registered(v))
  BY DEF Good, Matching
<1>3. /\ Handled(v, w, s, Registered(v))
      /\ IF v.sessions[s].st = "DISABLED" THEN w = v ELSE Ended(v, w, s)
  BY <1>1, <1>2, DisableHandled
<1>4. /\ Good(w) /\ Live(w) = Live(v) /\ w.consumers = v.consumers
      /\ Registered(w) = Registered(v)
  BY <1>3, HandledGood
<1>5. PICK F : F = [x \in DOMAIN w.sessions \ {s} |-> w.sessions[x]]
  OBVIOUS
<1>6. r = [w EXCEPT !.sessions = F]
  BY <1>1, <1>5 DEF FreeBuffers
<1>7. DOMAIN w = ServiceFields /\ ServiceType(w)
  BY <1>4 DEF Good, ServiceType
<1>8. /\ DOMAIN r = ServiceFields /\ r.sessions = F /\ r.owed = w.owed
      /\ r.consumers = w.consumers /\ r.producer = w.producer /\ r.posted = w.posted
      /\ r.lastSession = w.lastSession /\ r.lastFlush = w.lastFlush
      /\ r.told = w.told /\ r.saved = w.saved /\ r.lastInstance = w.lastInstance
  BY <1>6, <1>7 DEF ServiceFields
<1>9. Live(r) = Live(w) \ {s} /\ \A x \in Live(r) : r.sessions[x] = w.sessions[x]
  BY <1>5, <1>8 DEF Live
<1>10. Numbers(r) /\ Clients(r) /\ History(r) /\ OwedType(r)
  BY <1>7, <1>8, <1>9 DEF ServiceType, Numbers, Clients, History, OwedType
<1>11. ServiceType(r)
  BY <1>7, <1>8, <1>9, <1>10 DEF ServiceType
<1>12. Registered(r) = Registered(w)
  BY <1>8 DEF Registered
<1>13. Matching(r, Registered(r)) /\ Earned(r)
  BY <1>4, <1>8, <1>9, <1>12 DEF Good, Matching, Earned
<1>14. \A x \in Live(r) : r.sessions[x] = v.sessions[x]
  BY <1>3, <1>4, <1>9 DEF Handled, Local, Elsewhere, Live
<1>15. ASSUME NEW x \in SessionIDs, x # s PROVE LifeOf(r, x) = LifeOf(v, x)
  <2>1. LifeOf(w, x) = LifeOf(v, x)
    BY <1>3, <1>15, OthersStayPut DEF Handled
  <2>2. /\ x \in Live(r) <=> x \in Live(w)
        /\ x \in Live(r) => r.sessions[x] = w.sessions[x]
    BY <1>9, <1>15
  <2>3. PhaseOf(r, x) = PhaseOf(w, x)
    BY <1>8, <2>2 DEF PhaseOf, St
  <2>4. /\ (x \in Live(r) /\ r.sessions[x].consumer # "none")
             = (x \in Live(w) /\ w.sessions[x].consumer # "none")
        /\ (x \in Live(r) /\ r.sessions[x].bugreport) = (x \in Live(w) /\ w.sessions[x].bugreport)
    BY <2>2
  <2>5. LifeOf(r, x) = LifeOf(w, x)
    BY <1>8, <2>3, <2>4, Zenon DEF LifeOf
  <2> QED BY <2>1, <2>5
<1>16. LifeOf(r, s) = [phase |-> "gone", attached |-> FALSE, seized |-> FALSE,
                       told |-> w.told[s], saved |-> w.saved[s]]
  <2>1. s \in Int /\ r.lastSession \in Int /\ ~(s > r.lastSession) /\ s \notin Live(r)
    BY <1>4, <1>7, <1>8, <1>9 DEF ServiceType, Numbers
  <2>2. PhaseOf(r, s) = "gone"
    BY <2>1 DEF PhaseOf
  <2>3. /\ (s \in Live(r) /\ r.sessions[s].consumer # "none") = FALSE
        /\ (s \in Live(r) /\ r.sessions[s].bugreport) = FALSE
    BY <2>1
  <2> QED BY <1>8, <2>2, <2>3, Zenon DEF LifeOf
<1>17. Moved(v, r, s)
  <2>1. PICK b : b = LifeOf(r, s)
    OBVIOUS
  <2>2. b.phase = "gone"
    BY <1>16, <2>1
  <2>3. b = IF v.sessions[s].st = "DISABLED"
             THEN [phase |-> "gone", attached |-> FALSE, seized |-> FALSE,
                   told |-> v.told[s], saved |-> v.saved[s]]
             ELSE [phase |-> "gone", attached |-> FALSE, seized |-> FALSE,
                   told |-> IF v.sessions[s].consumer # "none" THEN v.told[s] + 1 ELSE v.told[s],
                   saved |-> IF v.sessions[s].bugreport THEN v.saved[s] + 1 ELSE v.saved[s]]
    <3>1. CASE v.sessions[s].st = "DISABLED"
      BY <1>3, <1>16, <2>1, <3>1
    <3>2. CASE v.sessions[s].st # "DISABLED"
      BY <1>3, <1>16, <2>1, <3>2 DEF Ended
    <3> QED BY <3>1, <3>2
  <2> QED BY <2>1, <2>2, <2>3, FreePhase DEF Moved
<1>18. Moves(v, r)
  BY <1>15, <1>17 DEF Moves, Moved
<1> QED BY <1>4, <1>8, <1>9, <1>11, <1>13, <1>14, <1>18

(* A flush is over: no consumer has a session that the callback frees.     *)
LEMMA CallbackGood ==
  ASSUME NEW v, Good(v), NEW s, NEW by, NEW r, r = FlushCallback(v, s, by)
  PROVE  Good(r) /\ Moves(v, r)
<1>1. CASE by # "final"
  <2>1. r = v
    BY <1>1 DEF FlushCallback
  <2> QED BY <2>1 DEF Moves, Moved
<1>2. CASE by = "final" /\ s \notin Live(v)
  <2>1. r = [v EXCEPT !.crashed = TRUE]
    BY <1>2 DEF FlushCallback
  <2> QED BY <2>1, Crashes, LivesCompose
<1>3. CASE by = "final" /\ s \in Live(v) /\ v.sessions[s].consumer # "none"
  <2>1. r = DisableTracing(v, s, FALSE)
    BY <1>3 DEF FlushCallback
  <2>2. ServiceType(v) /\ Match(v.sessions[s], Registered(v))
    BY <1>3 DEF Good, Matching
  <2>3. Handled(v, r, s, Registered(v))
    BY <1>3, <2>1, <2>2, DisableHandled
  <2> QED BY <1>3, <2>3, HandledGood
<1>4. CASE by = "final" /\ s \in Live(v) /\ v.sessions[s].consumer = "none"
  <2>1. r = FreeBuffers(v, s)
    BY <1>4 DEF FlushCallback
  <2>2. /\ ServiceType(r) /\ Matching(r, Registered(r)) /\ Earned(r) /\ Moves(v, r)
        /\ Live(r) = Live(v) \ {s} /\ r.consumers = v.consumers
        /\ \A x \in Live(r) : r.sessions[x] = v.sessions[x]
    BY <1>4, <2>1, FreeFacts
  <2>3. Links(r)
    <3>1. Links(v) /\ \A c \in DOMAIN v.consumers : c # "none"
      BY ServiceConstants DEF Good, ServiceType, Clients
    <3>2. \A c \in DOMAIN v.consumers : v.consumers[c].tsid # s
      <4>1. s # 0
        BY <1>4 DEF Good, ServiceType, Numbers
      <4> QED BY <1>4, <3>1, <4>1 DEF Links
    <3> QED BY <2>2, <3>1, <3>2 DEF Links, Points
  <2> QED BY <2>2, <2>3 DEF Good
<1> QED BY <1>1, <1>2, <1>3, <1>4

(***************************************************************************)
(* Flushes                                                                 *)
(***************************************************************************)
(* Session record q is t with other flushes.                               *)
OtherFlushes(t, q) ==
  /\ DOMAIN q = SessionFields /\ q.st = t.st /\ q.cfg = t.cfg /\ q.consumer = t.consumer
  /\ q.detach_key = t.detach_key /\ q.inst = t.inst /\ q.timers = t.timers
  /\ q.bugreport = t.bugreport
FlushOK(fl, n) == fl \in PendingFlush(n) /\ fl.waiting \subseteq fl.asked /\ EarnedFlush(fl)
NewFlushes(v, r) ==
  /\ DOMAIN r = ServiceFields /\ DOMAIN r.sessions = DOMAIN v.sessions
  /\ r.told = v.told /\ r.saved = v.saved /\ r.lastSession = v.lastSession
  /\ r.lastInstance = v.lastInstance /\ r.producer = v.producer /\ r.consumers = v.consumers
  /\ r.lastFlush \in Nat /\ OwedType(r)
  /\ \A x \in Live(v) : /\ OtherFlushes(v.sessions[x], r.sessions[x])
                        /\ \A fl \in r.sessions[x].flushes : FlushOK(fl, r.lastFlush)
  /\ \A t \in r.posted : t.flush.asked \subseteq t.flush.acked

LEMMA FlushesGood ==
  ASSUME NEW v, Good(v), NEW r, NewFlushes(v, r)
  PROVE  Good(r) /\ SameLives(v, r) /\ Live(r) = Live(v)
<1>0. ServiceType(v) /\ Matching(v, Registered(v)) /\ Links(v) /\ Earned(v)
  BY DEF Good
<1>1. /\ Live(r) = Live(v) /\ Registered(r) = Registered(v)
      /\ \A x \in Live(r) : /\ OtherFlushes(v.sessions[x], r.sessions[x])
                            /\ \A fl \in r.sessions[x].flushes : FlushOK(fl, r.lastFlush)
  BY DEF NewFlushes, Live, Registered
<1>2. Numbers(r) /\ Clients(r) /\ History(r)
  BY <1>0, <1>1 DEF ServiceType, NewFlushes, Numbers, Clients, History
<1>3. ASSUME NEW x \in Live(r)
      PROVE  /\ SessionType(r.sessions[x]) /\ InstancesType(r.sessions[x], r.lastInstance)
             /\ FlushesType(r.sessions[x], r.lastFlush) /\ Match(r.sessions[x], Registered(r))
  <2>1. /\ SessionType(v.sessions[x]) /\ InstancesType(v.sessions[x], v.lastInstance)
        /\ Match(v.sessions[x], Registered(r)) /\ OtherFlushes(v.sessions[x], r.sessions[x])
        /\ r.lastInstance = v.lastInstance
    BY <1>0, <1>1 DEF ServiceType, Matching, NewFlushes
  <2>2. FlushesType(r.sessions[x], r.lastFlush)
    BY <1>1 DEF FlushesType, FlushOK
  <2>3. SessionType(r.sessions[x])
    BY <2>1 DEF SessionType, OtherFlushes
  <2>4. InstancesType(r.sessions[x], r.lastInstance) /\ Match(r.sessions[x], Registered(r))
    BY <2>1 DEF InstancesType, Match, OtherFlushes
  <2> QED BY <2>2, <2>3, <2>4
<1>4. ServiceType(r)
  BY <1>2, <1>3 DEF ServiceType, NewFlushes
<1>5. Matching(r, Registered(r))
  BY <1>3 DEF Matching
<1>6. Links(r)
  <2>1. \A x \in Live(r) : /\ r.sessions[x].consumer = v.sessions[x].consumer
                           /\ r.sessions[x].detach_key = v.sessions[x].detach_key
    BY <1>1 DEF OtherFlushes
  <2>2. r.consumers = v.consumers
    BY DEF NewFlushes
  <2> QED BY <1>0, <1>1, <2>1, <2>2 DEF Links, Points
<1>7. Earned(r)
  BY <1>1 DEF Earned, FlushOK, NewFlushes
<1>8. SameLives(v, r)
  <2>1. SUFFICES ASSUME NEW x \in SessionIDs PROVE LifeOf(r, x) = LifeOf(v, x)
    BY DEF SameLives
  <2>2. /\ r.told = v.told /\ r.saved = v.saved /\ r.lastSession = v.lastSession
        /\ x \in Live(r) => /\ r.sessions[x].st = v.sessions[x].st
                            /\ r.sessions[x].consumer = v.sessions[x].consumer
                            /\ r.sessions[x].bugreport = v.sessions[x].bugreport
    BY <1>1 DEF NewFlushes, OtherFlushes
  <2>3. PhaseOf(r, x) = PhaseOf(v, x)
    BY <1>1, <2>2 DEF PhaseOf, St
  <2>4. /\ (x \in Live(r) /\ r.sessions[x].consumer # "none")
             = (x \in Live(v) /\ v.sessions[x].consumer # "none")
        /\ (x \in Live(r) /\ r.sessions[x].bugreport) = (x \in Live(v) /\ v.sessions[x].bugreport)
    BY <1>1, <2>2
  <2> QED BY <2>2, <2>3, <2>4, Zenon DEF LifeOf
<1> QED BY <1>1, <1>4, <1>5, <1>6, <1>7, <1>8 DEF Good

(* What holds of the flushes of a good state, also when later ones exist.  *)
LEMMA FlushFacts ==
  ASSUME NEW v, Good(v), NEW x \in Live(v), NEW fl \in v.sessions[x].flushes,
         NEW n \in Nat, v.lastFlush <= n
  PROVE  FlushOK(fl, n)
<1>1. v.lastFlush \in Nat /\ FlushesType(v.sessions[x], v.lastFlush) /\ EarnedFlush(fl)
  BY DEF Good, ServiceType, Numbers, Earned
<1>2. fl \in PendingFlush(v.lastFlush) /\ fl.waiting \subseteq fl.asked
  BY <1>1 DEF FlushesType
<1>3. fl \in PendingFlush(n)
  BY <1>1, <1>2 DEF PendingFlush
<1> QED BY <1>1, <1>2, <1>3 DEF FlushOK

(* Flushes of one session.                                                 *)
SetFlushes(v, s, F) == PutRecord(v, s, [v.sessions[s] EXCEPT !.flushes = F])
FlushesSet(v, r, s, F) ==
  /\ DOMAIN r = ServiceFields /\ DOMAIN r.sessions = DOMAIN v.sessions
  /\ r.told = v.told /\ r.saved = v.saved /\ r.lastSession = v.lastSession
  /\ r.lastInstance = v.lastInstance /\ r.producer = v.producer
  /\ r.consumers = v.consumers /\ r.lastFlush = v.lastFlush /\ r.owed = v.owed
  /\ r.posted = v.posted
  /\ \A x \in Live(v) : /\ OtherFlushes(v.sessions[x], r.sessions[x])
                        /\ r.sessions[x].flushes =
                             IF x = s THEN F ELSE v.sessions[x].flushes

LEMMA SetFlushesFacts ==
  ASSUME NEW v, Good(v), NEW s \in Live(v), NEW F, NEW r, r = SetFlushes(v, s, F)
  PROVE  FlushesSet(v, r, s, F)
<1>1. PICK t, q : t = v.sessions[s] /\ q = [t EXCEPT !.flushes = F]
  OBVIOUS
<1>2. PICK S : S = [v.sessions EXCEPT ![s] = q]
  OBVIOUS
<1>3. r = [v EXCEPT !.sessions = S]
  BY <1>1, <1>2 DEF SetFlushes, PutRecord
<1>4. DOMAIN v = ServiceFields /\ \A x \in Live(v) : DOMAIN v.sessions[x] = SessionFields
  BY DEF Good, ServiceType, SessionType
<1>5. /\ DOMAIN r = ServiceFields /\ r.sessions = S
      /\ r.told = v.told /\ r.saved = v.saved /\ r.lastSession = v.lastSession
      /\ r.lastInstance = v.lastInstance /\ r.producer = v.producer
      /\ r.consumers = v.consumers /\ r.lastFlush = v.lastFlush /\ r.owed = v.owed
      /\ r.posted = v.posted
  BY <1>3, <1>4 DEF ServiceFields
<1>6. DOMAIN S = DOMAIN v.sessions /\ S[s] = q /\ \A x \in Live(v) : x # s => S[x] = v.sessions[x]
  BY <1>2 DEF Live
<1>7. OtherFlushes(t, q) /\ q.flushes = F
  BY <1>1, <1>4 DEF OtherFlushes, SessionFields
<1>8. \A x \in Live(v) : OtherFlushes(v.sessions[x], v.sessions[x])
  BY <1>4 DEF OtherFlushes
<1> QED BY <1>1, <1>5, <1>6, <1>7, <1>8 DEF FlushesSet

LEMMA DropFlush ==
  ASSUME NEW v, Good(v), NEW s \in Live(v), NEW fl,
         NEW r, r = [v EXCEPT !.sessions[s].flushes = @ \ {fl}]
  PROVE  Good(r) /\ SameLives(v, r)
<1>1. PICK F : F = v.sessions[s].flushes \ {fl}
  OBVIOUS
<1>2. r = SetFlushes(v, s, F)
  BY <1>1 DEF SetFlushes, PutRecord
<1>3. /\ DOMAIN r = ServiceFields /\ DOMAIN r.sessions = DOMAIN v.sessions
      /\ r.told = v.told /\ r.saved = v.saved /\ r.lastSession = v.lastSession
      /\ r.lastInstance = v.lastInstance /\ r.producer = v.producer
      /\ r.consumers = v.consumers /\ r.lastFlush = v.lastFlush /\ r.owed = v.owed
      /\ r.posted = v.posted
      /\ \A x \in Live(v) : /\ OtherFlushes(v.sessions[x], r.sessions[x])
                            /\ r.sessions[x].flushes =
                                 IF x = s THEN F ELSE v.sessions[x].flushes
  <2>1. FlushesSet(v, r, s, F)
    BY <1>2, SetFlushesFacts
  <2> QED BY <2>1 DEF FlushesSet
<1>4. v.lastFlush \in Nat /\ v.lastFlush <= v.lastFlush
  BY DEF Good, ServiceType, Numbers
<1>5. ASSUME NEW x \in Live(v), NEW f \in r.sessions[x].flushes
      PROVE  FlushOK(f, r.lastFlush)
  <2>1. f \in v.sessions[x].flushes
    BY <1>1, <1>3
  <2> QED BY <1>3, <1>4, <2>1, FlushFacts
<1>6. OwedType(r) /\ \A t \in r.posted : t.flush.asked \subseteq t.flush.acked
  <2>1. OwedType(v) /\ Earned(v)
    BY DEF Good, ServiceType
  <2>2. OwedType(r)
    BY <1>3, <2>1 DEF OwedType
  <2> QED BY <1>3, <2>1, <2>2 DEF Earned
<1>7. NewFlushes(v, r)
  BY <1>3, <1>4, <1>5, <1>6 DEF NewFlushes
<1> QED BY <1>7, FlushesGood

LEMMA FlushGood ==
  ASSUME NEW v, Good(v), NEW s \in Live(v), NEW by \in {"consumer", "periodic", "final"},
         NEW r, r = Flush(v, s, by)
  PROVE  Good(r) /\ Moves(v, r)
<1> DEFINE t == v.sessions[s]
           f == v.lastFlush + 1
           asked == DOMAIN t.inst
           new == [id |-> f, waiting |-> asked, by |-> by, asked |-> asked, acked |-> {}]
<1>1. CASE Cardinality(t.flushes) > MaxPendingFlushes \/ t.st # "STARTED"
  <2>1. r = FlushCallback(v, s, by)
    BY <1>1 DEF Flush
  <2> QED BY <2>1, CallbackGood
<1>2. CASE ~(Cardinality(t.flushes) > MaxPendingFlushes \/ t.st # "STARTED")
  <2>1. PICK F, o : /\ F = t.flushes \cup {new}
                    /\ o = v.owed \cup {Ack("flush", p, f) : p \in asked}
    OBVIOUS
  <2>2. PICK w : w = SetFlushes(v, s, F)
    OBVIOUS
  <2>3. FlushesSet(v, w, s, F)
    BY <2>2, SetFlushesFacts
  <2>4. DOMAIN v = ServiceFields /\ v.lastFlush \in Nat /\ ServiceType(v) /\ OwedType(v) /\ Earned(v)
    BY DEF Good, ServiceType, Numbers
  <2>5. r = [w EXCEPT !.lastFlush = f, !.owed = o]
    <3>1. r = [v EXCEPT !.lastFlush = f, !.sessions[s].flushes = @ \cup {new},
                        !.owed = @ \cup {Ack("flush", p, f) : p \in asked}]
      BY <1>2 DEF Flush
    <3>2. PICK S : S = [v.sessions EXCEPT ![s] = [v.sessions[s] EXCEPT !.flushes = F]]
      OBVIOUS
    <3>3. w = [v EXCEPT !.sessions = S]
      BY <2>2, <3>2 DEF SetFlushes, PutRecord
    <3>4. r = [v EXCEPT !.lastFlush = f, !.sessions = S, !.owed = o]
      BY <2>1, <2>4, <3>1, <3>2 DEF ServiceFields
    <3> HIDE DEF f
    <3> QED BY <2>4, <3>3, <3>4 DEF ServiceFields
  <2>6. /\ DOMAIN r = ServiceFields /\ r.sessions = w.sessions /\ r.told = w.told
        /\ r.saved = w.saved /\ r.lastSession = w.lastSession /\ r.lastInstance = w.lastInstance
        /\ r.producer = w.producer /\ r.consumers = w.consumers /\ r.posted = w.posted
        /\ r.lastFlush = f /\ r.owed = o
    <3> HIDE DEF f
    <3> QED BY <2>3, <2>5 DEF FlushesSet, ServiceFields
  <2>7. asked \subseteq Producers /\ f \in Nat /\ f \in 1 .. f /\ v.lastFlush <= f
    BY <2>4, TypeFacts DEF InstancesType
  <2>8. FlushOK(new, f)
    <3>1. /\ new.asked = asked /\ new.waiting = asked /\ new.acked = {}
      OBVIOUS
    <3>2. new \in PendingFlush(f)
      BY <2>7 DEF PendingFlush
    <3> QED BY <3>1, <3>2 DEF FlushOK, EarnedFlush
  <2>9. OwedType(r)
    <3>1. SUFFICES ASSUME NEW a \in o
          PROVE  /\ a.k \in {"started", "stopped", "flush"} /\ a.p \in Producers
                 /\ a.id \in 1 .. (IF a.k = "flush" THEN f ELSE v.lastInstance)
      BY <2>3, <2>6 DEF OwedType, FlushesSet
    <3>2. CASE a \in v.owed
      <4>1. /\ a.k \in {"started", "stopped", "flush"} /\ a.p \in Producers
            /\ a.id \in 1 .. (IF a.k = "flush" THEN v.lastFlush ELSE v.lastInstance)
        BY <2>4, <3>2 DEF OwedType
      <4> QED BY <2>4, <4>1
    <3>3. CASE a \notin v.owed
      <4>1. PICK p \in asked : a = Ack("flush", p, f)
        BY <2>1, <3>3
      <4>2. a.k = "flush" /\ a.p = p /\ a.id = f
        BY <4>1 DEF Ack
      <4> QED BY <2>7, <4>2
    <3> QED BY <3>2, <3>3
  <2>10. ASSUME NEW x \in Live(v), NEW fl \in r.sessions[x].flushes PROVE FlushOK(fl, f)
    <3>1. fl \in v.sessions[x].flushes \/ fl = new
      BY <2>1, <2>3, <2>6 DEF FlushesSet
    <3>2. CASE fl \in v.sessions[x].flushes
      BY <2>7, <3>2, FlushFacts
    <3> QED BY <2>8, <3>1, <3>2
  <2>11. \A z \in r.posted : z.flush.asked \subseteq z.flush.acked
    BY <2>3, <2>4, <2>6 DEF FlushesSet, Earned
  <2>12. \A x \in Live(v) : OtherFlushes(v.sessions[x], r.sessions[x])
    BY <2>3, <2>6 DEF FlushesSet
  <2>13. NewFlushes(v, r)
    BY <2>3, <2>6, <2>7, <2>9, <2>10, <2>11, <2>12 DEF NewFlushes, FlushesSet
  <2>14. Good(r) /\ SameLives(v, r)
    BY <2>13, FlushesGood
  <2> QED BY <2>14, LivesCompose
<1> QED BY <1>1, <1>2

(* Acks of flushes: the one that arrives is noted ...                      *)
AckedFlush(fl, p, f) == IF fl.id <= f THEN [fl EXCEPT !.acked = fl.acked \cup {p}] ELSE fl

LEMMA AckedFlushOK ==
  ASSUME NEW n, NEW fl, FlushOK(fl, n), NEW p \in Producers, NEW f, NEW g, g = AckedFlush(fl, p, f)
  PROVE  FlushOK(g, n) /\ (g.id <= f => p \in g.acked)
<1>1. CASE fl.id <= f
  <2>1. g = [fl EXCEPT !.acked = fl.acked \cup {p}] /\ fl \in PendingFlush(n)
    BY <1>1 DEF AckedFlush, FlushOK
  <2>2. /\ g \in PendingFlush(n) /\ g.id = fl.id /\ g.waiting = fl.waiting
        /\ g.asked = fl.asked /\ g.acked = fl.acked \cup {p}
    BY <2>1 DEF PendingFlush
  <2> QED BY <2>2 DEF FlushOK, EarnedFlush
<1>2. CASE ~(fl.id <= f)
  <2>1. g = fl
    BY <1>2 DEF AckedFlush
  <2> QED BY <1>2, <2>1
<1> QED BY <1>1, <1>2

LEMMA RecordAckGood ==
  ASSUME NEW v, Good(v), NEW p \in Producers, NEW f, NEW r, r = RecordAck(v, p, f)
  PROVE  /\ Good(r) /\ SameLives(v, r)
         /\ \A x \in Live(r) : \A fl \in r.sessions[x].flushes : fl.id <= f => p \in fl.acked
<1> DEFINE G(x) == {IF fl.id <= f THEN [fl EXCEPT !.acked = fl.acked \cup {p}] ELSE fl :
                      fl \in v.sessions[x].flushes}
           W == [x \in Live(v) |-> [v.sessions[x] EXCEPT !.flushes = G(x)]]
<1>0. r = [v EXCEPT !.sessions = W]
  BY DEF RecordAck
<1>1. PICK S : S = W
  OBVIOUS
<1>2. r = [v EXCEPT !.sessions = S]
  BY <1>0, <1>1
<1>3. /\ DOMAIN v = ServiceFields /\ \A x \in Live(v) : DOMAIN v.sessions[x] = SessionFields
      /\ OwedType(v) /\ Earned(v) /\ v.lastFlush \in Nat /\ v.lastFlush <= v.lastFlush
  BY DEF Good, ServiceType, SessionType, Numbers
<1>4. /\ DOMAIN r = ServiceFields /\ r.sessions = S
      /\ r.told = v.told /\ r.saved = v.saved /\ r.lastSession = v.lastSession
      /\ r.lastInstance = v.lastInstance /\ r.producer = v.producer
      /\ r.consumers = v.consumers /\ r.lastFlush = v.lastFlush /\ r.owed = v.owed
      /\ r.posted = v.posted
  BY <1>2, <1>3 DEF ServiceFields
<1>5. DOMAIN S = DOMAIN v.sessions
  BY <1>1 DEF Live
<1>6. ASSUME NEW x \in Live(v)
      PROVE  /\ OtherFlushes(v.sessions[x], S[x])
             /\ S[x].flushes = {AckedFlush(fl, p, f) : fl \in v.sessions[x].flushes}
  <2>1. PICK t, F : t = v.sessions[x] /\ F = {AckedFlush(fl, p, f) : fl \in t.flushes}
    OBVIOUS
  <2>2. S[x] = [t EXCEPT !.flushes = F]
    <3>1. G(x) = F
      BY <2>1 DEF AckedFlush
    <3>2. S[x] = [t EXCEPT !.flushes = G(x)]
      BY <1>1, <2>1 DEF Live
    <3> QED BY <3>1, <3>2
  <2> QED BY <1>3, <2>1, <2>2 DEF OtherFlushes, SessionFields
<1>7. ASSUME NEW x \in Live(v), NEW g \in r.sessions[x].flushes
      PROVE  FlushOK(g, r.lastFlush) /\ (g.id <= f => p \in g.acked)
  <2>1. PICK fl \in v.sessions[x].flushes : g = AckedFlush(fl, p, f)
    BY <1>4, <1>6
  <2>2. FlushOK(fl, v.lastFlush)
    BY <1>3, FlushFacts
  <2> QED BY <1>4, <2>1, <2>2, AckedFlushOK
<1>8. OwedType(r) /\ \A t \in r.posted : t.flush.asked \subseteq t.flush.acked
  BY <1>3, <1>4 DEF OwedType, Earned
<1>9. NewFlushes(v, r)
  BY <1>3, <1>4, <1>5, <1>6, <1>7, <1>8 DEF NewFlushes
<1>10. Good(r) /\ SameLives(v, r) /\ Live(r) = Live(v)
  BY <1>9, FlushesGood
<1> QED BY <1>7, <1>10

(* ... and then counts for the flushes that wait for its producer.         *)
LEMMA AckFlushGood ==
  ASSUME NEW v, Good(v), NEW p \in Producers, NEW f,
         \A x \in Live(v) : \A fl \in v.sessions[x].flushes : fl.id <= f => p \in fl.acked,
         NEW r, r = NotifyFlushDoneForProducer(v, p, f)
  PROVE  Good(r) /\ SameLives(v, r)
<1> DEFINE Upto(x) == {fl \in v.sessions[x].flushes : fl.id <= f}
           Done(x) == {fl \in Upto(x) : fl.waiting \subseteq {p}}
           Left(x) == {[fl EXCEPT !.waiting = fl.waiting \ {p}] : fl \in Upto(x) \ Done(x)}
           New(x) == (v.sessions[x].flushes \ Upto(x)) \cup Left(x)
           W == [x \in Live(v) |-> [v.sessions[x] EXCEPT !.flushes = New(x)]]
           Q == v.posted \cup UNION {{[s |-> x, flush |-> fl] : fl \in Done(x)} : x \in Live(v)}
<1>0. r = [v EXCEPT !.posted = Q, !.sessions = W]
  BY DEF NotifyFlushDoneForProducer
<1>1. PICK S, P : S = W /\ P = Q
  OBVIOUS
<1>2. r = [v EXCEPT !.posted = P, !.sessions = S]
  BY <1>0, <1>1
<1>3. /\ DOMAIN v = ServiceFields /\ \A x \in Live(v) : DOMAIN v.sessions[x] = SessionFields
      /\ OwedType(v) /\ Earned(v) /\ v.lastFlush \in Nat /\ v.lastFlush <= v.lastFlush
  BY DEF Good, ServiceType, SessionType, Numbers
<1>4. /\ DOMAIN r = ServiceFields /\ r.sessions = S
      /\ r.told = v.told /\ r.saved = v.saved /\ r.lastSession = v.lastSession
      /\ r.lastInstance = v.lastInstance /\ r.producer = v.producer
      /\ r.consumers = v.consumers /\ r.lastFlush = v.lastFlush /\ r.owed = v.owed
      /\ r.posted = P
  BY <1>2, <1>3 DEF ServiceFields
<1>5. DOMAIN S = DOMAIN v.sessions
  BY <1>1 DEF Live
<1>6. ASSUME NEW x \in Live(v)
      PROVE  OtherFlushes(v.sessions[x], S[x]) /\ S[x].flushes = New(x)
  <2>1. PICK t, F : t = v.sessions[x] /\ F = New(x)
    OBVIOUS
  <2>2. S[x] = [t EXCEPT !.flushes = F]
    BY <1>1, <2>1
  <2> QED BY <1>3, <2>1, <2>2 DEF OtherFlushes, SessionFields
<1>7. ASSUME NEW x \in Live(v), NEW g \in r.sessions[x].flushes
      PROVE  FlushOK(g, r.lastFlush)
  <2>1. g \in v.sessions[x].flushes \/ g \in Left(x)
    BY <1>4, <1>6
  <2>2. CASE g \in v.sessions[x].flushes
    BY <1>3, <1>4, <2>2, FlushFacts
  <2>3. CASE g \in Left(x)
    <3>1. PICK fl \in Upto(x) \ Done(x) : g = [fl EXCEPT !.waiting = fl.waiting \ {p}]
      BY <2>3
    <3>2. FlushOK(fl, v.lastFlush) /\ p \in fl.acked
      BY <1>3, FlushFacts
    <3>3. fl \in PendingFlush(v.lastFlush) /\ ~(fl.waiting \subseteq {p})
      BY <3>2 DEF FlushOK
    <3>4. /\ g \in PendingFlush(v.lastFlush) /\ g.waiting = fl.waiting \ {p}
          /\ g.asked = fl.asked /\ g.acked = fl.acked
      BY <3>1, <3>3 DEF PendingFlush
    <3> QED BY <1>4, <3>2, <3>3, <3>4 DEF FlushOK, EarnedFlush
  <2> QED BY <2>1, <2>2, <2>3
<1>8. ASSUME NEW t \in r.posted PROVE t.flush.asked \subseteq t.flush.acked
  <2>1. t \in Q
    BY <1>1, <1>4
  <2>2. CASE t \in v.posted
    BY <1>3, <2>2 DEF Earned
  <2>3. CASE t \notin v.posted
    <3>1. PICK x \in Live(v) : \E fl \in Done(x) : t = [s |-> x, flush |-> fl]
      BY <2>1, <2>3
    <3>2. PICK fl \in Done(x) : t = [s |-> x, flush |-> fl]
      BY <3>1
    <3>3. FlushOK(fl, v.lastFlush) /\ p \in fl.acked /\ fl.waiting \subseteq {p}
      BY <1>3, FlushFacts
    <3>4. t.flush = fl
      BY <3>2
    <3> QED BY <3>3, <3>4 DEF FlushOK, EarnedFlush
  <2> QED BY <2>2, <2>3
<1>9. OwedType(r)
  BY <1>3, <1>4 DEF OwedType
<1>10. \A x \in Live(v) : OtherFlushes(v.sessions[x], r.sessions[x])
  BY <1>4, <1>6
<1>11. NewFlushes(v, r)
  <2> HIDE DEF New, Q, W
  <2> QED BY <1>3, <1>4, <1>5, <1>7, <1>8, <1>9, <1>10 DEF NewFlushes
<1> QED BY <1>11, FlushesGood

(***************************************************************************)
(* Consumers                                                               *)
(***************************************************************************)
(* A session leaves with its consumer, or the consumer lets go of it.      *)
LetsGo(v, C, c) ==
  /\ \/ DOMAIN C = DOMAIN v.consumers /\ C[c].tsid = 0
     \/ DOMAIN C = DOMAIN v.consumers \ {c}
  /\ \A d \in DOMAIN C : d # c => C[d] = v.consumers[d]

LEMMA LinksAfterFree ==
  ASSUME NEW v, Good(v), NEW c \in DOMAIN v.consumers, NEW s \in Live(v), v.consumers[c].tsid = s,
         NEW r, Live(r) = Live(v) \ {s}, \A x \in Live(r) : r.sessions[x] = v.sessions[x],
         LetsGo(v, r.consumers, c)
  PROVE  Links(r)
<1> USE DEF LetsGo
<1>1. Links(v) /\ s # 0 /\ c # "none"
  BY ServiceConstants DEF Good, ServiceType, Numbers, Clients
<1>2. v.sessions[s].consumer = c
  BY <1>1 DEF Links
<1>3. ASSUME NEW d \in DOMAIN r.consumers, r.consumers[d].tsid # 0
      PROVE  r.consumers[d].tsid \in Live(r) /\ r.sessions[r.consumers[d].tsid].consumer = d
  <2>1. d # c /\ r.consumers[d] = v.consumers[d] /\ d \in DOMAIN v.consumers
    BY <1>3
  <2>2. v.consumers[d].tsid \in Live(v) /\ v.sessions[v.consumers[d].tsid].consumer = d
    BY <1>1, <1>3, <2>1 DEF Links
  <2>3. v.consumers[d].tsid # s
    BY <1>2, <2>1, <2>2
  <2> QED BY <2>1, <2>2, <2>3
<1>4. ASSUME NEW x \in Live(r) PROVE Points(r, x)
  <2>1. Points(v, x) /\ r.sessions[x] = v.sessions[x] /\ x # s
    BY <1>1 DEF Links
  <2>2. v.sessions[x].consumer # c
    BY <1>1, <2>1 DEF Points
  <2> QED BY <2>1, <2>2 DEF Points
<1> QED BY <1>1, <1>3, <1>4 DEF Links

LEMMA ConsumerFacts ==
  ASSUME NEW v, Good(v)
  PROVE  ConsumersType(v.consumers) /\ "none" \notin DOMAIN v.consumers
BY ServiceConstants DEF Good, ServiceType, Clients, ConsumersType, ConsumerRecord

LEMMA FreeCallGood ==
  ASSUME NEW v, Good(v), NEW c \in DOMAIN v.consumers, NEW s \in Live(v), v.consumers[c].tsid = s,
         NEW C, ConsumersType(C), LetsGo(v, C, c), NEW r, r = WithConsumers(FreeBuffers(v, s), C)
  PROVE  Good(r) /\ Moves(v, r)
<1>1. PICK w : w = FreeBuffers(v, s)
  OBVIOUS
<1>2. /\ ServiceType(w) /\ Matching(w, Registered(w)) /\ Earned(w) /\ Moves(v, w)
      /\ Live(w) = Live(v) \ {s} /\ w.consumers = v.consumers
      /\ \A x \in Live(w) : w.sessions[x] = v.sessions[x]
  BY <1>1, FreeFacts
<1>3. r = WithConsumers(w, C)
  BY <1>1
<1>4. /\ ServiceType(r) /\ Live(r) = Live(w) /\ SameLives(w, r) /\ r.sessions = w.sessions
      /\ r.consumers = C /\ Registered(r) = Registered(w)
      /\ Matching(r, Registered(r)) /\ Earned(r)
  BY <1>2, <1>3, SetConsumers
<1>5. Links(r)
  <2>1. /\ Live(r) = Live(v) \ {s} /\ \A x \in Live(r) : r.sessions[x] = v.sessions[x]
        /\ LetsGo(v, r.consumers, c)
    BY <1>2, <1>4
  <2> QED BY <2>1, LinksAfterFree
<1> QED BY <1>2, <1>4, <1>5, LivesCompose DEF Good

(* A consumer that comes, goes without a session, or changes what it       *)
(* watches.                                                                *)
SameTsids(v, C) ==
  /\ \A c \in DOMAIN C : \/ c \in DOMAIN v.consumers /\ C[c].tsid = v.consumers[c].tsid
                         \/ c \notin DOMAIN v.consumers /\ C[c].tsid = 0
  /\ \A c \in DOMAIN v.consumers \ DOMAIN C : v.consumers[c].tsid \notin Live(v)

LEMMA ConsumersGood ==
  ASSUME NEW v, Good(v), NEW C, ConsumersType(C), SameTsids(v, C),
         NEW r, r = WithConsumers(v, C)
  PROVE  /\ Good(r) /\ SameLives(v, r) /\ Live(r) = Live(v) /\ r.sessions = v.sessions
         /\ r.consumers = C
<1>1. ServiceType(v) /\ Matching(v, Registered(v)) /\ Links(v) /\ Earned(v)
  BY DEF Good
<1>2. /\ ServiceType(r) /\ Live(r) = Live(v) /\ SameLives(v, r) /\ r.sessions = v.sessions
      /\ r.consumers = C /\ Registered(r) = Registered(v)
      /\ Matching(r, Registered(r)) /\ Earned(r)
  BY <1>1, SetConsumers
<1>3. Links(r)
  <2>1. ASSUME NEW c \in DOMAIN C, C[c].tsid # 0
        PROVE  C[c].tsid \in Live(v) /\ v.sessions[C[c].tsid].consumer = c
    BY <1>1, <2>1 DEF Links, SameTsids
  <2>2. ASSUME NEW x \in Live(v) PROVE Points(r, x)
    <3>1. Points(v, x)
      BY <1>1 DEF Links
    <3>2. PICK c : c = v.sessions[x].consumer
      OBVIOUS
    <3>3. c # "none" => c \in DOMAIN C /\ C[c].tsid = x
      BY <3>1, <3>2 DEF Points, SameTsids
    <3> QED BY <1>2, <3>1, <3>2, <3>3 DEF Points
  <2> QED BY <1>1, <1>2, <2>1, <2>2 DEF Links
<1> QED BY <1>2, <1>3 DEF Good

(* Detach() and Attach().                                                  *)
Relinks(v, r, s, x, k, c, n) ==
  r = [v EXCEPT !.sessions[s].consumer = x, !.sessions[s].detach_key = k, !.consumers[c].tsid = n]
Relinked(v, r, s, x, k, c, n) ==
  /\ ServiceType(r) /\ Matching(r, Registered(r)) /\ Earned(r) /\ Live(r) = Live(v)
  /\ r.sessions[s].consumer = x /\ r.sessions[s].detach_key = k
  /\ \A y \in Live(v) : y # s => r.sessions[y] = v.sessions[y]
  /\ DOMAIN r.consumers = DOMAIN v.consumers /\ r.consumers[c].tsid = n
  /\ \A d \in DOMAIN v.consumers : d # c => r.consumers[d] = v.consumers[d]

LEMMA RelinkMoves ==
  ASSUME NEW v, ServiceType(v), NEW s \in Live(v), NEW r, ServiceType(r), Live(r) = Live(v),
         r.lastSession = v.lastSession, r.told = v.told, r.saved = v.saved,
         \A y \in Live(v) : y # s => r.sessions[y] = v.sessions[y],
         r.sessions[s].st = v.sessions[s].st, r.sessions[s].bugreport = v.sessions[s].bugreport,
         (r.sessions[s].consumer # "none") = ~(v.sessions[s].consumer # "none")
  PROVE  Moves(v, r)
<1>1. ASSUME NEW y \in SessionIDs, y # s PROVE LifeOf(r, y) = LifeOf(v, y)
  <2>1. DOMAIN r.sessions = DOMAIN v.sessions /\ Untouched(v, r, y)
    BY <1>1 DEF Live, Untouched
  <2> QED BY <2>1, SameLife
<1>2. PICK a, b : a = LifeOf(v, s) /\ b = LifeOf(r, s)
  OBVIOUS
<1>3. PICK f, g : f = (v.sessions[s].consumer # "none") /\ g = (r.sessions[s].consumer # "none")
  OBVIOUS
<1>4. PICK ph, sz, td, sv : /\ ph = v.sessions[s].st /\ sz = v.sessions[s].bugreport
                            /\ td = v.told[s] /\ sv = v.saved[s]
  OBVIOUS
<1>5. /\ a = [phase |-> ph, attached |-> f, seized |-> sz, told |-> td, saved |-> sv]
      /\ b = [phase |-> ph, attached |-> g, seized |-> sz, told |-> td, saved |-> sv]
  BY <1>2, <1>3, <1>4, LifeOfLive
<1>6. a.attached = f /\ a.phase = ph
  BY <1>5
<1>7. b = [a EXCEPT !.attached = g]
  BY <1>5
<1>8. g = ~a.attached
  BY <1>3, <1>6
<1>9. a.phase \notin {"none", "gone"}
  BY <1>4, <1>6, TypeFacts DEF SessionType, SessionState
<1>10. Abstract!DetachOrAttach(a, b)
  BY <1>7, <1>8, <1>9, Zenon DEF Abstract!DetachOrAttach
<1>11. Moved(v, r, s)
  BY <1>2, <1>10 DEF Moved, Abstract!SessionStep
<1> QED BY <1>1, <1>11 DEF Moves, Moved

LEMMA RelinkFacts ==
  ASSUME NEW v, Good(v), NEW s \in Live(v), NEW x \in Consumers \cup {"none"},
         NEW k \in Keys \cup {"none"}, NEW c \in DOMAIN v.consumers, NEW n \in Nat,
         NEW r, Relinks(v, r, s, x, k, c, n),
         (x # "none") = ~(v.sessions[s].consumer # "none")
  PROVE  Relinked(v, r, s, x, k, c, n) /\ Moves(v, r)
<1>0. /\ ServiceType(v) /\ Matching(v, Registered(v)) /\ Earned(v) /\ ConsumersType(v.consumers)
      /\ DOMAIN v = ServiceFields
  BY ConsumerFacts DEF Good, ServiceType
<1>1. PICK t, q : t = v.sessions[s] /\ q = [t EXCEPT !.consumer = x, !.detach_key = k]
  OBVIOUS
<1>2. PICK e : e = [v.consumers[c] EXCEPT !.tsid = n]
  OBVIOUS
<1>3. PICK S, C : S = [v.sessions EXCEPT ![s] = q] /\ C = [v.consumers EXCEPT ![c] = e]
  OBVIOUS
<1>4. r = [v EXCEPT !.sessions = S, !.consumers = C]
  <2>1. PICK w : w = [v EXCEPT !.sessions = S]
    OBVIOUS
  <2>2. w = [v EXCEPT !.sessions[s].consumer = x, !.sessions[s].detach_key = k]
    BY <1>0, <1>1, <1>3, <2>1 DEF ServiceFields
  <2>3. r = [w EXCEPT !.consumers[c].tsid = n]
    BY <2>2 DEF Relinks
  <2>4. w.consumers = v.consumers
    BY <1>0, <2>1 DEF ServiceFields
  <2>5. r = [w EXCEPT !.consumers = C]
    BY <1>2, <1>3, <2>3, <2>4
  <2> QED BY <1>0, <2>1, <2>5 DEF ServiceFields
<1>5. /\ DOMAIN r = ServiceFields /\ r.sessions = S /\ r.consumers = C /\ r.owed = v.owed
      /\ r.producer = v.producer /\ r.posted = v.posted
      /\ r.lastSession = v.lastSession /\ r.lastFlush = v.lastFlush
      /\ r.told = v.told /\ r.saved = v.saved /\ r.lastInstance = v.lastInstance
  BY <1>0, <1>4 DEF ServiceFields
<1>6. /\ SessionType(t) /\ InstancesType(t, v.lastInstance) /\ FlushesType(t, v.lastFlush)
      /\ Match(t, Registered(v)) /\ \A fl \in t.flushes : EarnedFlush(fl)
  BY <1>0, <1>1 DEF ServiceType, Matching, Earned
<1>7. /\ DOMAIN q = SessionFields /\ q.consumer = x /\ q.detach_key = k /\ q.st = t.st
      /\ q.cfg = t.cfg /\ q.timers = t.timers /\ q.bugreport = t.bugreport
      /\ q.inst = t.inst /\ q.flushes = t.flushes
  BY <1>1, <1>6 DEF SessionType, SessionFields
<1>8. /\ SessionType(q) /\ InstancesType(q, v.lastInstance) /\ FlushesType(q, v.lastFlush)
      /\ Match(q, Registered(v))
  BY <1>6, <1>7 DEF SessionType, InstancesType, FlushesType, Match
<1>9. /\ Live(r) = Live(v) /\ S[s] = q /\ \A y \in Live(v) : y # s => S[y] = v.sessions[y]
  BY <1>3, <1>5 DEF Live
<1>10. e \in ConsumerRecord /\ e.tsid = n
  BY <1>0, <1>2 DEF ConsumersType, ConsumerRecord
<1>11. /\ ConsumersType(C) /\ DOMAIN C = DOMAIN v.consumers /\ C[c].tsid = n
       /\ \A d \in DOMAIN v.consumers : d # c => C[d] = v.consumers[d]
  BY <1>0, <1>3, <1>10 DEF ConsumersType
<1>12. Numbers(r) /\ History(r) /\ OwedType(r)
  BY <1>0, <1>5, <1>9 DEF ServiceType, Numbers, History, OwedType
<1>13. Clients(r)
  BY <1>0, <1>5, <1>11 DEF ServiceType, Clients, ConsumersType, ConsumerRecord
<1>14. Registered(r) = Registered(v)
  BY <1>5 DEF Registered
<1>15. ASSUME NEW y \in Live(r)
       PROVE  /\ SessionType(r.sessions[y]) /\ InstancesType(r.sessions[y], r.lastInstance)
              /\ FlushesType(r.sessions[y], r.lastFlush) /\ Match(r.sessions[y], Registered(r))
              /\ \A fl \in r.sessions[y].flushes : EarnedFlush(fl)
  <2>1. CASE y = s
    BY <1>5, <1>6, <1>7, <1>8, <1>9, <1>14, <2>1
  <2>2. CASE y # s
    <3>1. r.sessions[y] = v.sessions[y] /\ y \in Live(v)
      BY <1>5, <1>9, <2>2
    <3> QED BY <1>0, <1>5, <1>14, <3>1 DEF ServiceType, Matching, Earned
  <2> QED BY <2>1, <2>2
<1>16. ServiceType(r)
  BY <1>5, <1>12, <1>13, <1>15 DEF ServiceType
<1>17. Matching(r, Registered(r)) /\ Earned(r)
  BY <1>0, <1>5, <1>15 DEF Matching, Earned
<1>18. /\ r.sessions[s] = q /\ \A y \in Live(v) : y # s => r.sessions[y] = v.sessions[y]
  BY <1>5, <1>9
<1>19. Moves(v, r)
  <2>1. /\ r.sessions[s].st = v.sessions[s].st
        /\ r.sessions[s].bugreport = v.sessions[s].bugreport
        /\ (r.sessions[s].consumer # "none") = ~(v.sessions[s].consumer # "none")
    BY <1>1, <1>7, <1>18
  <2> QED BY <1>0, <1>5, <1>9, <1>16, <1>18, <2>1, RelinkMoves
<1> QED BY <1>5, <1>7, <1>9, <1>11, <1>16, <1>17, <1>18, <1>19 DEF Relinked

LEMMA DetachGood ==
  ASSUME NEW v, Good(v), NEW s \in Live(v), NEW c \in DOMAIN v.consumers, v.consumers[c].tsid = s,
         NEW k \in Keys, Detached(v, k) = {}, NEW r, Relinks(v, r, s, "none", k, c, 0)
  PROVE  Good(r) /\ Moves(v, r)
<1>1. Links(v) /\ c # "none" /\ k # "none" /\ s # 0
  BY ConsumerFacts, ServiceConstants DEF Good, ServiceType, Numbers
<1>2. v.sessions[s].consumer = c
  BY <1>1 DEF Links
<1>3. Relinked(v, r, s, "none", k, c, 0) /\ Moves(v, r)
  BY <1>1, <1>2, RelinkFacts
<1>4. Links(r)
  <2>1. /\ Live(r) = Live(v) /\ r.sessions[s].consumer = "none" /\ r.sessions[s].detach_key = k
        /\ \A y \in Live(v) : y # s => r.sessions[y] = v.sessions[y]
        /\ DOMAIN r.consumers = DOMAIN v.consumers /\ r.consumers[c].tsid = 0
        /\ \A d \in DOMAIN v.consumers : d # c => r.consumers[d] = v.consumers[d]
    BY <1>3 DEF Relinked
  <2>2. ASSUME NEW d \in DOMAIN r.consumers, r.consumers[d].tsid # 0
        PROVE  r.consumers[d].tsid \in Live(r) /\ r.sessions[r.consumers[d].tsid].consumer = d
    <3>1. d # c /\ d \in DOMAIN v.consumers /\ r.consumers[d] = v.consumers[d]
      BY <2>1, <2>2
    <3>2. v.consumers[d].tsid \in Live(v) /\ v.sessions[v.consumers[d].tsid].consumer = d
      BY <1>1, <2>2, <3>1 DEF Links
    <3> QED BY <1>2, <2>1, <3>1, <3>2
  <2>3. ASSUME NEW y \in Live(r) PROVE Points(r, y)
    <3>1. CASE y = s
      BY <1>1, <2>1, <3>1 DEF Points
    <3>2. CASE y # s
      <4>1. Points(v, y) /\ r.sessions[y] = v.sessions[y]
        BY <1>1, <2>1, <3>2 DEF Links
      <4>2. v.sessions[y].consumer # c
        BY <1>1, <3>2, <4>1 DEF Points
      <4> QED BY <2>1, <4>1, <4>2 DEF Points
    <3> QED BY <3>1, <3>2
  <2>4. ASSUME NEW y \in Live(r), NEW z \in Live(r),
               r.sessions[y].detach_key = r.sessions[z].detach_key
        PROVE  y = z \/ r.sessions[y].detach_key = "none"
    <3>1. \A u \in Live(v) : u # s => r.sessions[u].detach_key # k
      BY <2>1 DEF Detached
    <3> QED BY <1>1, <2>1, <2>4, <3>1 DEF Links
  <2> QED BY <2>2, <2>3, <2>4 DEF Links
<1> QED BY <1>3, <1>4 DEF Good, Relinked

LEMMA AttachGood ==
  ASSUME NEW v, Good(v), NEW k \in Keys, NEW s \in Detached(v, k), NEW c \in DOMAIN v.consumers,
         v.consumers[c].tsid = 0, NEW r, Relinks(v, r, s, c, "none", c, s)
  PROVE  Good(r) /\ Moves(v, r)
<1>1. /\ Links(v) /\ c # "none" /\ k # "none" /\ s # 0 /\ s \in Nat /\ c \in Consumers
      /\ s \in Live(v) /\ v.sessions[s].detach_key = k
  BY ConsumerFacts, ServiceConstants DEF Good, ServiceType, Numbers, Detached, ConsumersType
<1>2. v.sessions[s].consumer = "none"
  BY <1>1 DEF Links, Points
<1>3. Relinked(v, r, s, c, "none", c, s) /\ Moves(v, r)
  BY <1>1, <1>2, RelinkFacts
<1>4. Links(r)
  <2>1. /\ Live(r) = Live(v) /\ r.sessions[s].consumer = c /\ r.sessions[s].detach_key = "none"
        /\ \A y \in Live(v) : y # s => r.sessions[y] = v.sessions[y]
        /\ DOMAIN r.consumers = DOMAIN v.consumers /\ r.consumers[c].tsid = s
        /\ \A d \in DOMAIN v.consumers : d # c => r.consumers[d] = v.consumers[d]
    BY <1>3 DEF Relinked
  <2>2. ASSUME NEW d \in DOMAIN r.consumers, r.consumers[d].tsid # 0
        PROVE  r.consumers[d].tsid \in Live(r) /\ r.sessions[r.consumers[d].tsid].consumer = d
    <3>1. CASE d = c
      BY <1>1, <2>1, <3>1
    <3>2. CASE d # c
      <4>1. d \in DOMAIN v.consumers /\ r.consumers[d] = v.consumers[d]
        BY <2>1, <3>2
      <4>2. v.consumers[d].tsid \in Live(v) /\ v.sessions[v.consumers[d].tsid].consumer = d
        BY <1>1, <2>2, <4>1 DEF Links
      <4>3. d # "none"
        BY <4>1, ConsumerFacts
      <4> QED BY <1>2, <2>1, <4>1, <4>2, <4>3
    <3> QED BY <3>1, <3>2
  <2>3. ASSUME NEW y \in Live(r) PROVE Points(r, y)
    <3>1. CASE y = s
      BY <1>1, <2>1, <3>1 DEF Points
    <3>2. CASE y # s
      <4>1. Points(v, y) /\ r.sessions[y] = v.sessions[y]
        BY <1>1, <2>1, <3>2 DEF Links
      <4>2. y # 0
        BY <2>1 DEF Good, ServiceType, Numbers
      <4>3. v.sessions[y].consumer # c
        BY <1>1, <4>1, <4>2 DEF Points
      <4> QED BY <2>1, <4>1, <4>3 DEF Points
    <3> QED BY <3>1, <3>2
  <2>4. ASSUME NEW y \in Live(r), NEW z \in Live(r),
               r.sessions[y].detach_key = r.sessions[z].detach_key
        PROVE  y = z \/ r.sessions[y].detach_key = "none"
    <3>1. CASE y = s
      BY <2>1, <3>1
    <3>2. CASE z = s
      BY <2>1, <2>4, <3>2
    <3>3. CASE y # s /\ z # s
      <4>1. r.sessions[y] = v.sessions[y] /\ r.sessions[z] = v.sessions[z]
        BY <2>1, <3>3
      <4>2. /\ y \in Live(v) /\ z \in Live(v)
            /\ v.sessions[y].detach_key = v.sessions[z].detach_key
        BY <2>1, <2>4, <4>1
      <4> QED BY <1>1, <4>1, <4>2 DEF Links
    <3> QED BY <3>1, <3>2, <3>3
  <2> QED BY <2>2, <2>3, <2>4 DEF Links
<1> QED BY <1>3, <1>4 DEF Good, Relinked

(***************************************************************************)
(* EnableTracing()                                                         *)
(***************************************************************************)
Opens(v, w, s, c, t) ==
  w = [v EXCEPT !.lastSession = s, !.consumers[c].tsid = s, !.sessions = With(@, s, t)]
Opened(v, w, s, c, t) ==
  /\ DOMAIN w = ServiceFields /\ w.lastSession = s
  /\ w.producer = v.producer /\ w.owed = v.owed /\ w.posted = v.posted
  /\ w.lastInstance = v.lastInstance /\ w.lastFlush = v.lastFlush
  /\ w.told = v.told /\ w.saved = v.saved
  /\ Live(w) = Live(v) \cup {s} /\ w.sessions[s] = t
  /\ \A x \in Live(v) : w.sessions[x] = v.sessions[x]
  /\ DOMAIN w.consumers = DOMAIN v.consumers /\ ConsumersType(w.consumers)
  /\ w.consumers[c].tsid = s
  /\ \A d \in DOMAIN v.consumers : d # c => w.consumers[d] = v.consumers[d]

IsNew(t, c) ==
  /\ SessionType(t) /\ t.st = "CONFIGURED" /\ t.consumer = c /\ t.detach_key = "none"
  /\ DOMAIN t.inst = {} /\ t.flushes = {} /\ t.bugreport = FALSE

LEMMA NewRecord ==
  ASSUME NEW c \in Consumers, NEW cfg \in Config, NEW filter, NEW t, t = NewSession(c, cfg, filter)
  PROVE  IsNew(t, c)
<1>1. /\ DOMAIN t = SessionFields /\ t.st = "CONFIGURED" /\ t.cfg = cfg /\ t.consumer = c
      /\ t.detach_key = "none" /\ t.inst = <<>> /\ t.flushes = {} /\ t.timers = {}
      /\ t.bugreport = FALSE
  BY DEF NewSession, SessionFields
<1>2. DOMAIN t.inst = {}
  BY <1>1
<1> QED BY <1>1, <1>2 DEF IsNew, SessionType, SessionState

LEMMA OpenFacts ==
  ASSUME NEW v, Good(v), NEW c \in DOMAIN v.consumers, NEW s, s = v.lastSession + 1, NEW t,
         NEW w, Opens(v, w, s, c, t)
  PROVE  Opened(v, w, s, c, t) /\ s \notin Live(v) /\ s \in Nat /\ s > 0 /\ s > v.lastSession
<1>0. /\ DOMAIN v = ServiceFields /\ ConsumersType(v.consumers) /\ v.lastSession \in Nat
      /\ Live(v) \subseteq 1 .. v.lastSession
  BY ConsumerFacts DEF Good, ServiceType, Numbers
<1>1. s \notin Live(v) /\ s \in Nat /\ s > 0 /\ s > v.lastSession
  BY <1>0
<1>2. PICK S, C, e : /\ S = With(v.sessions, s, t) /\ e = [v.consumers[c] EXCEPT !.tsid = s]
                     /\ C = [v.consumers EXCEPT ![c] = e]
  OBVIOUS
<1>3. w = [v EXCEPT !.lastSession = s, !.consumers = C, !.sessions = S]
  <2>1. PICK u : u = [v EXCEPT !.lastSession = s, !.consumers = C]
    OBVIOUS
  <2>2. u = [v EXCEPT !.lastSession = s, !.consumers[c].tsid = s]
    BY <1>0, <1>2, <2>1 DEF ServiceFields
  <2>3. u.sessions = v.sessions
    BY <1>0, <2>1 DEF ServiceFields
  <2>4. w = [u EXCEPT !.sessions = With(@, s, t)]
    BY <2>2 DEF Opens
  <2>5. w = [u EXCEPT !.sessions = S]
    BY <1>2, <2>3, <2>4
  <2> QED BY <1>0, <2>1, <2>5 DEF ServiceFields
<1>4. /\ DOMAIN w = ServiceFields /\ w.lastSession = s /\ w.sessions = S /\ w.consumers = C
      /\ w.producer = v.producer /\ w.owed = v.owed /\ w.posted = v.posted
      /\ w.lastInstance = v.lastInstance /\ w.lastFlush = v.lastFlush
      /\ w.told = v.told /\ w.saved = v.saved
  BY <1>0, <1>3 DEF ServiceFields
<1>5. /\ DOMAIN S = DOMAIN v.sessions \cup {s} /\ S[s] = t
      /\ \A x \in Live(v) : S[x] = v.sessions[x]
  BY <1>1, <1>2 DEF With, Live
<1>6. e \in ConsumerRecord /\ e.tsid = s
  BY <1>0, <1>1, <1>2 DEF ConsumersType, ConsumerRecord
<1>7. /\ ConsumersType(C) /\ DOMAIN C = DOMAIN v.consumers /\ C[c].tsid = s
      /\ \A d \in DOMAIN v.consumers : d # c => C[d] = v.consumers[d]
  BY <1>0, <1>2, <1>6 DEF ConsumersType
<1> QED BY <1>1, <1>4, <1>5, <1>7 DEF Opened, Live

LEMMA OpenGood ==
  ASSUME NEW v, Good(v), NEW c \in DOMAIN v.consumers, v.consumers[c].tsid = 0,
         v.lastSession < MaxSessions, NEW cfg \in Config, NEW filter,
         NEW s, s = v.lastSession + 1, NEW t, t = NewSession(c, cfg, filter),
         NEW w, Opens(v, w, s, c, t)
  PROVE  Good(w)
<1>0. /\ Opened(v, w, s, c, t) /\ s \notin Live(v) /\ s \in Nat /\ s > 0 /\ s > v.lastSession
  BY OpenFacts
<1>1. /\ SessionType(t) /\ t.st = "CONFIGURED" /\ t.consumer = c /\ t.detach_key = "none"
      /\ DOMAIN t.inst = {} /\ t.flushes = {} /\ t.bugreport = FALSE /\ c # "none"
  <2>1. c \in Consumers /\ c # "none"
    BY ConsumerFacts DEF ConsumersType
  <2>2. IsNew(t, c)
    BY <2>1, NewRecord
  <2> QED BY <2>1, <2>2 DEF IsNew
<1>2. /\ ServiceType(v) /\ Matching(v, Registered(v)) /\ Links(v) /\ Earned(v)
  BY DEF Good
<1>3. /\ w.producer = v.producer /\ w.owed = v.owed /\ w.posted = v.posted /\ w.lastSession = s
      /\ w.lastInstance = v.lastInstance /\ w.lastFlush = v.lastFlush /\ DOMAIN w = ServiceFields
      /\ w.told = v.told /\ w.saved = v.saved
      /\ Live(w) = Live(v) \cup {s} /\ w.sessions[s] = t
      /\ \A x \in Live(v) : w.sessions[x] = v.sessions[x]
  BY <1>0 DEF Opened
<1>4. /\ DOMAIN w.consumers = DOMAIN v.consumers /\ ConsumersType(w.consumers)
      /\ w.consumers[c].tsid = s
      /\ \A d \in DOMAIN v.consumers : d # c => w.consumers[d] = v.consumers[d]
  BY <1>0 DEF Opened
<1>5. Numbers(w)
  BY <1>0, <1>2, <1>3, ServiceConstants DEF ServiceType, Numbers
<1>6. History(w) /\ OwedType(w)
  BY <1>2, <1>3 DEF ServiceType, History, OwedType
<1>7. Clients(w) /\ Registered(w) = Registered(v)
  BY <1>2, <1>3, <1>4 DEF ServiceType, Clients, ConsumersType, ConsumerRecord, Registered
<1>8. ASSUME NEW x \in Live(w)
      PROVE  /\ SessionType(w.sessions[x]) /\ InstancesType(w.sessions[x], w.lastInstance)
             /\ FlushesType(w.sessions[x], w.lastFlush) /\ Match(w.sessions[x], Registered(w))
             /\ \A fl \in w.sessions[x].flushes : EarnedFlush(fl)
  <2>1. CASE x = s
    BY <1>1, <1>3, <2>1 DEF InstancesType, FlushesType, Match
  <2>2. CASE x # s
    <3>1. x \in Live(v) /\ w.sessions[x] = v.sessions[x]
      BY <1>3, <2>2
    <3> QED BY <1>2, <1>3, <1>7, <3>1 DEF ServiceType, Matching, Earned
  <2> QED BY <2>1, <2>2
<1>9. ServiceType(w) /\ Matching(w, Registered(w)) /\ Earned(w)
  <2>1. ServiceType(w)
    BY <1>3, <1>5, <1>6, <1>7, <1>8 DEF ServiceType
  <2> QED BY <1>2, <1>3, <1>8, <2>1 DEF Matching, Earned
<1>10. ASSUME NEW d \in DOMAIN w.consumers, w.consumers[d].tsid # 0
       PROVE  w.consumers[d].tsid \in Live(w) /\ w.sessions[w.consumers[d].tsid].consumer = d
  <2>1. CASE d = c
    BY <1>1, <1>3, <1>4, <2>1
  <2>2. CASE d # c
    <3>1. d \in DOMAIN v.consumers /\ w.consumers[d] = v.consumers[d]
      BY <1>4, <2>2
    <3>2. v.consumers[d].tsid \in Live(v) /\ v.sessions[v.consumers[d].tsid].consumer = d
      BY <1>2, <1>10, <3>1 DEF Links
    <3> QED BY <1>3, <3>1, <3>2
  <2> QED BY <2>1, <2>2
<1>11. ASSUME NEW x \in Live(w) PROVE Points(w, x)
  <2>1. CASE x = s
    BY <1>1, <1>3, <1>4, <2>1 DEF Points
  <2>2. CASE x # s
    <3>1. x \in Live(v) /\ w.sessions[x] = v.sessions[x] /\ x # 0
      BY <1>2, <1>3, <2>2 DEF ServiceType, Numbers
    <3>2. Points(v, x)
      BY <1>2, <3>1 DEF Links
    <3>3. v.sessions[x].consumer # c
      BY <1>1, <3>1, <3>2 DEF Points
    <3> QED BY <1>4, <3>1, <3>2, <3>3 DEF Points
  <2> QED BY <2>1, <2>2
<1>12. ASSUME NEW y \in Live(w), NEW z \in Live(w),
              w.sessions[y].detach_key = w.sessions[z].detach_key
       PROVE  y = z \/ w.sessions[y].detach_key = "none"
  <2>1. CASE y = s
    BY <1>1, <1>3, <2>1
  <2>2. CASE z = s
    BY <1>1, <1>3, <1>12, <2>2
  <2>3. CASE y # s /\ z # s
    <3>1. /\ y \in Live(v) /\ z \in Live(v)
          /\ w.sessions[y] = v.sessions[y] /\ w.sessions[z] = v.sessions[z]
      BY <1>3, <2>3
    <3>2. v.sessions[y].detach_key = v.sessions[z].detach_key
      BY <1>12, <3>1
    <3> QED BY <1>2, <3>1, <3>2 DEF Links
  <2> QED BY <2>1, <2>2, <2>3
<1>13. Links(w)
  BY <1>10, <1>11, <1>12 DEF Links
<1> QED BY <1>9, <1>13 DEF Good

(* The lives of the sessions when one is opened: the new one has none yet. *)
SameButFor(v, w, s) == \A x \in SessionIDs : x # s => LifeOf(w, x) = LifeOf(v, x)

LEMMA OpenLives ==
  ASSUME NEW v, Good(v), NEW c \in DOMAIN v.consumers, NEW s, s = v.lastSession + 1, NEW t,
         NEW w, Opens(v, w, s, c, t)
  PROVE  /\ SameButFor(v, w, s)
         /\ LifeOf(v, s) = [phase |-> "none", attached |-> FALSE, seized |-> FALSE,
                            told |-> v.told[s], saved |-> v.saved[s]]
<1>0. /\ Opened(v, w, s, c, t) /\ s \notin Live(v) /\ s \in Nat /\ s > v.lastSession
      /\ v.lastSession \in Nat
  BY OpenFacts DEF Good, ServiceType, Numbers
<1>1. ASSUME NEW x \in SessionIDs, x # s PROVE LifeOf(w, x) = LifeOf(v, x)
  <2>1. /\ w.told = v.told /\ w.saved = v.saved /\ w.lastSession = s
        /\ (x \in Live(w)) = (x \in Live(v))
        /\ x \in Live(v) => w.sessions[x] = v.sessions[x]
    BY <1>0, <1>1 DEF Opened
  <2>2. (x > w.lastSession) = (x > v.lastSession)
    BY <1>0, <1>1, <2>1 DEF SessionIDs
  <2>3. PhaseOf(w, x) = PhaseOf(v, x)
    BY <2>1, <2>2 DEF PhaseOf, St
  <2> QED BY <2>1, <2>3 DEF LifeOf
<1>2. PhaseOf(v, s) = "none"
  BY <1>0 DEF PhaseOf
<1> QED BY <1>0, <1>1, <1>2 DEF LifeOf, SameButFor

LEMMA Begins ==
  ASSUME NEW ph \in {"CONFIGURED", "STARTED"}, NEW td, NEW sv, NEW yes, yes = TRUE, NEW no, no = FALSE,
         NEW a, a = [phase |-> "none", attached |-> no, seized |-> no, told |-> td, saved |-> sv],
         NEW b, b = [phase |-> ph, attached |-> yes, seized |-> no, told |-> td, saved |-> sv]
  PROVE  Abstract!SessionStep(a, b)
<1>1. a.phase = "none" /\ b.phase = ph
  OBVIOUS
<1>2. b = [a EXCEPT !.phase = b.phase, !.attached = yes]
  <2>1. PICK e : e = [a EXCEPT !.phase = ph, !.attached = yes]
    OBVIOUS
  <2>2. e = [phase |-> ph, attached |-> yes, seized |-> no, told |-> td, saved |-> sv]
    BY <2>1
  <2> QED BY <1>1, <2>1, <2>2
<1>3. b = [a EXCEPT !.phase = b.phase, !.attached = TRUE]
  BY <1>2
<1>4. b.phase \in Abstract!Follow["none"]
  BY <1>1 DEF Abstract!Follow
<1>5. Abstract!Begin(a, b)
  BY <1>1, <1>3, <1>4, Zenon DEF Abstract!Begin
<1> QED BY <1>5 DEF Abstract!SessionStep

LEMMA EnableGood ==
  ASSUME NEW v, Good(v), NEW c \in DOMAIN v.consumers, v.consumers[c].tsid = 0,
         v.lastSession < MaxSessions, NEW cfg \in Config, NEW filter,
         NEW r, r = EnableTracing(v, c, cfg, filter)
  PROVE  Good(r) /\ Moves(v, r)
<1> DEFINE s0 == v.lastSession + 1
           t0 == NewSession(c, cfg, filter)
           w0 == [v EXCEPT !.lastSession = s0, !.consumers[c].tsid = s0,
                           !.sessions = With(@, s0, t0)]
           u0 == SetupEach(w0, s0, Registered(v) \cap filter)
<1>0. r = IF ~cfg.deferred /\ cfg.trigger # "START" THEN StartTracing(u0, s0) ELSE u0
  BY Zenon DEF EnableTracing, SetupEach
<1>1. PICK s, t : s = v.lastSession + 1 /\ t = NewSession(c, cfg, filter)
  OBVIOUS
<1>2. PICK w, u : w = w0 /\ u = u0
  OBVIOUS
<1>3. PICK S : S = Registered(v) \cap filter
  OBVIOUS
<1>4. u = SetupEach(w, s, S)
  BY <1>1, <1>2, <1>3, Zenon
<1>5. r = IF ~cfg.deferred /\ cfg.trigger # "START" THEN StartTracing(u, s) ELSE u
  BY <1>0, <1>1, <1>2, Zenon
<1>6. Opens(v, w, s, c, t)
  BY <1>1, <1>2 DEF Opens
<1> HIDE DEF s0, t0, w0, u0
<1>7. /\ Good(w) /\ Opened(v, w, s, c, t) /\ s \in Live(w) /\ w.sessions[s] = t
      /\ Registered(w) = Registered(v) /\ w.told = v.told /\ w.saved = v.saved
  <2>1. Good(w)
    BY <1>1, <1>6, OpenGood
  <2>2. Opened(v, w, s, c, t)
    BY <1>1, <1>6, OpenFacts
  <2> QED BY <2>1, <2>2 DEF Opened, Registered
<1>8. /\ t.st = "CONFIGURED" /\ t.consumer = c /\ DOMAIN t.inst = {} /\ t.bugreport = FALSE
      /\ c # "none"
  <2>1. c \in Consumers /\ c # "none"
    BY ConsumerFacts DEF ConsumersType
  <2>2. IsNew(t, c)
    BY <1>1, <2>1, NewRecord
  <2> QED BY <2>1, <2>2 DEF IsNew
<1>9. ServiceType(w) /\ S \in SUBSET Producers /\ S \subseteq Registered(w)
  BY <1>3, <1>7 DEF Good, Registered
<1>10. SomeSetUp(s, w, 0, S, u)
  BY <1>4, <1>7, <1>8, <1>9, SetupAll
<1>11. /\ Local(w, u, s) /\ Stays(w, u, s) /\ DOMAIN u.sessions[s].inst = S
       /\ \A p \in S : u.sessions[s].inst[p].st = "CONFIGURED"
       /\ u.sessions[s].st = "CONFIGURED" /\ u.sessions[s].bugreport = FALSE
  BY <1>7, <1>8, <1>10 DEF SomeSetUp, Stays
<1>12. Match(u.sessions[s], Registered(w))
  BY <1>9, <1>11 DEF Match
<1>13. ServiceType(u) /\ s \in Live(u) /\ Handled(w, u, s, Registered(w))
  BY <1>7, <1>9, <1>11, <1>12, StaysHandled, LocalLive
<1>14. /\ Handled(w, r, s, Registered(w))
       /\ r.sessions[s].st \in {"CONFIGURED", "STARTED"} /\ r.sessions[s].bugreport = FALSE
       /\ r.told[s] = v.told[s] /\ r.saved[s] = v.saved[s]
  <2>1. CASE r = u
    BY <1>7, <1>11, <1>13, <2>1 DEF Stays
  <2>2. CASE r = StartTracing(u, s)
    <3>1. /\ Handled(u, r, s, Registered(w))
          /\ \/ r = u
             \/ u.sessions[s].st = "CONFIGURED" /\ Onwards(u, r, s)
      BY <1>12, <1>13, <2>2, StartHandled
    <3>2. Handled(w, r, s, Registered(w))
      BY <1>7, <1>9, <1>11, <3>1, HandledAfter
    <3>3. CASE r = u
      BY <2>1, <3>3
    <3>4. CASE Onwards(u, r, s)
      BY <1>7, <1>11, <3>2, <3>4 DEF Onwards, Stays
    <3> QED BY <3>1, <3>3, <3>4
  <2> QED BY <1>5, <2>1, <2>2
<1>15. Good(r)
  BY <1>7, <1>14, HandledGood
<1>16. Local(w, r, s)
  BY <1>14 DEF Handled
<1>17. r.sessions[s].consumer = c /\ ServiceType(r) /\ s \in Live(r)
  BY <1>7, <1>8, <1>16, LocalLive DEF Local, Kept
<1>18. Abstract!SessionStep(LifeOf(v, s), LifeOf(r, s))
  <2>1. PICK a, b, ph, td, sv, yes, no :
            /\ a = LifeOf(v, s) /\ b = LifeOf(r, s) /\ ph = r.sessions[s].st
            /\ td = v.told[s] /\ sv = v.saved[s] /\ yes = (r.sessions[s].consumer # "none")
            /\ no = r.sessions[s].bugreport
    OBVIOUS
  <2>2. yes = TRUE /\ no = FALSE /\ ph \in {"CONFIGURED", "STARTED"}
    BY <1>8, <1>14, <1>17, <2>1
  <2>3. b = [phase |-> ph, attached |-> yes, seized |-> no, told |-> td, saved |-> sv]
    BY <1>14, <1>17, <2>1, LifeOfLive
  <2>4. a = [phase |-> "none", attached |-> no, seized |-> no, told |-> td, saved |-> sv]
    BY <1>1, <1>6, <2>1, <2>2, OpenLives
  <2>5. Abstract!SessionStep(a, b)
    BY <2>2, <2>3, <2>4, Begins
  <2> QED BY <2>1, <2>5
<1>19. ASSUME NEW x \in SessionIDs, x # s PROVE LifeOf(r, x) = LifeOf(v, x)
  <2>1. LifeOf(r, x) = LifeOf(w, x)
    BY <1>16, <1>19, OthersStayPut
  <2>2. LifeOf(w, x) = LifeOf(v, x)
    <3>1. SameButFor(v, w, s)
      BY <1>1, <1>6, OpenLives
    <3> QED BY <1>19, <3>1 DEF SameButFor
  <2> QED BY <2>1, <2>2
<1> QED BY <1>15, <1>18, <1>19 DEF Moves, Moved

(***************************************************************************)
(* SaveTraceForBugreport()                                                 *)
(***************************************************************************)
Best(v, b) ==
  LET Score(s) == v.sessions[s].cfg.score
      top == Max({Score(s) : s \in Eligible(v)})
  IN b = Min({s \in Eligible(v) : Score(s) = top})

LEMMA BestIsEligible ==
  ASSUME NEW v, ServiceType(v), Eligible(v) # {}, NEW b, Best(v, b)
  PROVE  b \in Eligible(v)
<1>1. Eligible(v) \subseteq Live(v) /\ Live(v) \subseteq Nat
  BY LiveIDs DEF Eligible, SessionIDs
<1>2. \A s \in Eligible(v) : v.sessions[s].cfg.score \in Nat
  BY <1>1, TypeFacts DEF SessionType, Config
<1>3. PICK g : g = [s \in Eligible(v) |-> v.sessions[s].cfg.score]
  OBVIOUS
<1>4. PICK E : E = Eligible(v)
  OBVIOUS
<1>5. IsFiniteSet(E) /\ \A s \in E : g[s] = v.sessions[s].cfg.score /\ g[s] \in Nat
  BY <1>1, <1>2, <1>3, <1>4, LiveIDs, FS_Subset
<1>6. PICK x \in E : \A y \in E : g[y] <= g[x]
  <2>1. StartLoop!IsFiniteSet(E)
    BY <1>5 DEF IsFiniteSet, StartLoop!IsFiniteSet
  <2> QED BY <1>4, <1>5, <2>1, StartLoop!GreatestOf
<1>7. PICK T : T = {v.sessions[s].cfg.score : s \in Eligible(v)}
  OBVIOUS
<1>8. T = {g[s] : s \in E}
  BY <1>4, <1>5, <1>7
<1>9. PICK top : top = Max(T)
  OBVIOUS
<1>10. top \in T
  <2>1. g[x] \in T /\ \A y \in T : g[x] >= y
    BY <1>5, <1>6, <1>8
  <2> QED BY <1>9, <2>1 DEF Max
<1>11. PICK M : M = {s \in E : v.sessions[s].cfg.score = top}
  OBVIOUS
<1>12. M # {} /\ M \subseteq Nat /\ M \subseteq E
  BY <1>1, <1>4, <1>5, <1>8, <1>10, <1>11
<1>13. PICK n \in M : \A m \in M : n <= m
  BY <1>12, StartLoop!LeastOf
<1>14. b = Min(M)
  BY <1>4, <1>7, <1>9, <1>11 DEF Best
<1>15. b \in M
  BY <1>13, <1>14 DEF Min
<1> QED BY <1>4, <1>12, <1>15

LEMMA Seizes ==
  ASSUME NEW td, NEW sv, NEW at, NEW yes, yes = TRUE, NEW no, no = FALSE,
         NEW a, a = [phase |-> "STARTED", attached |-> at, seized |-> no, told |-> td, saved |-> sv],
         NEW b, b = [phase |-> "STARTED", attached |-> at, seized |-> yes, told |-> td, saved |-> sv]
  PROVE  Abstract!SessionStep(a, b)
<1>1. a.phase = "STARTED" /\ a.seized = no
  OBVIOUS
<1>2. b = [a EXCEPT !.seized = yes]
  <2>1. PICK e : e = [a EXCEPT !.seized = yes]
    OBVIOUS
  <2>2. e = [phase |-> "STARTED", attached |-> at, seized |-> yes, told |-> td, saved |-> sv]
    BY <2>1
  <2> QED BY <2>1, <2>2
<1>3. b = [a EXCEPT !.seized = TRUE]
  BY <1>2
<1>4. ~a.seized
  BY <1>1
<1>5. Abstract!Seize(a, b)
  BY <1>1, <1>3, <1>4, Zenon DEF Abstract!Seize
<1> QED BY <1>5 DEF Abstract!SessionStep

LEMMA SaveGood ==
  ASSUME NEW v, Good(v), NEW r, r = MaybeSaveTraceForBugreport(v)
  PROVE  Good(r) /\ Moves(v, r)
<1>1. CASE Eligible(v) = {} \/ \E s \in Eligible(v) : v.sessions[s].bugreport
  <2>1. r = v
    BY <1>1 DEF MaybeSaveTraceForBugreport
  <2> QED BY <2>1, SMTT(40) DEF Moves, Moved
<1>2. CASE ~(Eligible(v) = {} \/ \E s \in Eligible(v) : v.sessions[s].bugreport)
  <2>1. PICK b : Best(v, b)
    BY DEF Best
  <2>2. r = [v EXCEPT !.sessions[b].file = TRUE, !.sessions[b].bugreport = TRUE,
                      !.sessions[b].seized = TRUE, !.sessions[b].timers = @ \cup {"seize"}]
    BY <1>2, <2>1 DEF Best, MaybeSaveTraceForBugreport
  <2>3. /\ b \in Eligible(v) /\ b \in Live(v) /\ v.sessions[b].st = "STARTED"
        /\ ~v.sessions[b].bugreport /\ ServiceType(v)
    BY <1>2, <2>1, BestIsEligible DEF Good, Eligible, St
  <2>4. PICK t, q : /\ t = v.sessions[b]
                    /\ q = [t EXCEPT !.file = TRUE, !.bugreport = TRUE, !.seized = TRUE,
                                     !.timers = @ \cup {"seize"}]
    OBVIOUS
  <2>5. DOMAIN v = ServiceFields /\ DOMAIN t = SessionFields /\ SessionType(t)
    BY <2>3, <2>4, TypeFacts
  <2>6. /\ SameType(t, q) /\ q.inst = t.inst /\ q.st = t.st /\ q.bugreport = TRUE
        /\ q.timers = t.timers \cup {"seize"}
    BY <2>4, <2>5 DEF SameType, SessionFields
  <2>7. Alike(t, q)
    BY <2>5, <2>6 DEF Alike, SessionType
  <2>8. r = PutRecord(v, b, q)
    <3>1. PICK e, w : e = [t EXCEPT !.file = TRUE, !.bugreport = TRUE] /\ w = PutRecord(v, b, e)
      OBVIOUS
    <3>2. w = [v EXCEPT !.sessions[b].file = TRUE, !.sessions[b].bugreport = TRUE]
      BY <2>4, <2>5, <3>1 DEF PutRecord, ServiceFields
    <3>3. PICK tm : tm = t.timers \cup {"seize"}
      OBVIOUS
    <3>4. r = [w EXCEPT !.sessions[b].seized = TRUE, !.sessions[b].timers = tm]
      <4>1. r = [v EXCEPT !.sessions[b].file = TRUE, !.sessions[b].bugreport = TRUE,
                          !.sessions[b].seized = TRUE, !.sessions[b].timers = tm]
        BY <2>2, <2>4, <3>3
      <4> QED BY <3>2, <4>1
    <3>5. q = [e EXCEPT !.seized = TRUE, !.timers = tm]
      BY <2>4, <2>5, <3>1, <3>3 DEF SessionFields
    <3>6. DOMAIN w = ServiceFields /\ w.sessions[b] = e /\ b \in DOMAIN w.sessions
      BY <2>3, <2>5, <3>1 DEF PutRecord, ServiceFields, Live
    <3>7. r = PutRecord(w, b, q)
      BY <3>4, <3>5, <3>6 DEF PutRecord, ServiceFields
    <3> QED BY <2>5, <3>1, <3>7, PutTwice
  <2>9. /\ Local(v, r, b) /\ r.sessions[b] = q
        /\ r.told[b] = v.told[b] /\ r.saved[b] = v.saved[b]
    BY <2>3, <2>4, <2>7, <2>8, PutAlike
  <2>10. Match(r.sessions[b], Registered(v))
    <3>1. Match(t, Registered(v)) /\ t.st = "STARTED"
      BY <2>3, <2>4 DEF Good, Matching
    <3> QED BY <2>6, <2>9, <3>1 DEF Match
  <2>11. Moved(v, r, b)
    <3>1. PICK a, e, at, td, sv, yes, no :
              /\ a = LifeOf(v, b) /\ e = LifeOf(r, b) /\ at = (v.sessions[b].consumer # "none")
              /\ td = v.told[b] /\ sv = v.saved[b] /\ yes = q.bugreport /\ no = t.bugreport
      OBVIOUS
    <3>2. yes = TRUE /\ no = FALSE
      BY <2>3, <2>4, <2>5, <2>6, <3>1 DEF SessionType
    <3>3. a = [phase |-> "STARTED", attached |-> at, seized |-> no, told |-> td, saved |-> sv]
      BY <2>3, <2>4, <3>1, LifeOfLive
    <3>4. ServiceType(r) /\ b \in Live(r)
      BY <2>3, <2>9, LocalLive
    <3>5. /\ r.sessions[b].st = "STARTED" /\ r.sessions[b].consumer = v.sessions[b].consumer
          /\ r.sessions[b].bugreport = yes
      BY <2>3, <2>4, <2>6, <2>9, <3>1 DEF SameType
    <3>6. e = [phase |-> "STARTED", attached |-> at, seized |-> yes, told |-> td, saved |-> sv]
      BY <2>9, <3>1, <3>4, <3>5, LifeOfLive
    <3>7. Abstract!SessionStep(a, e)
      BY <3>2, <3>3, <3>6, Seizes
    <3> QED BY <3>1, <3>7 DEF Moved
  <2>12. Handled(v, r, b, Registered(v))
    BY <2>9, <2>10, <2>11 DEF Handled
  <2> QED BY <2>3, <2>12, HandledGood
<1> QED BY <1>1, <1>2

(***************************************************************************)
(* Data sources and producers that come and go                             *)
(***************************************************************************)
LEMMA MatchWider ==
  ASSUME NEW v, NEW R, NEW Q, R \subseteq Q, Matching(v, R)
  PROVE  Matching(v, Q)
BY DEF Matching, Match

LEMMA RegisterGood ==
  ASSUME NEW v, Good(v), NEW p \in Producers, NEW r, r = RegisterDataSource(v, p)
  PROVE  Good(r) /\ Moves(v, r)
<1>0. ServiceType(v) /\ Matching(v, Registered(v)) /\ Links(v) /\ Earned(v)
  BY DEF Good
<1>1. PICK w : w = [v EXCEPT !.producer[p] = "ds"]
  OBVIOUS
<1>2. /\ ServiceType(w) /\ Live(w) = Live(v) /\ SameLives(v, w) /\ w.sessions = v.sessions
      /\ Matching(w, Registered(v)) /\ Links(w) /\ Earned(w)
      /\ Registered(w) = Registered(v) \cup {p}
  BY <1>0, <1>1, SetProducer
<1>3. Matching(w, Registered(w))
  <2>1. Registered(v) \subseteq Registered(w)
    BY <1>2
  <2> QED BY <1>2, <2>1, MatchWider
<1>4. PICK S : S = {s \in Live(v) : Running(v, s) /\ p \in v.sessions[s].filter}
  OBVIOUS
<1>5. r = RegisterEach(w, p, S)
  BY <1>1, <1>4, Zenon DEF RegisterDataSource, RegisterEach
<1>6. S \in SUBSET Live(w) /\ p \in Registered(w) /\ \A s \in S : Running(w, s)
  BY <1>2, <1>4 DEF Running, St
<1>7. Swept(p, w, Registered(w), S, r)
  BY <1>2, <1>3, <1>5, <1>6, RegisterAll
<1>8. Sweep(w, Registered(w), S, r)
  BY <1>7 DEF Swept
<1>9. /\ ServiceType(r) /\ Matching(r, Registered(w)) /\ Links(r) /\ Earned(r) /\ Moves(w, r)
      /\ Registered(r) = Registered(w)
  BY <1>2, <1>6, <1>8, SweepGood
<1> QED BY <1>2, <1>9, LivesCompose DEF Good

LEMMA UnregisterGood ==
  ASSUME NEW v, Good(v), NEW p \in Producers, NEW r, r = UnregisterDataSource(v, p)
  PROVE  Good(r) /\ Moves(v, r) /\ p \notin Registered(r)
<1>0. ServiceType(v) /\ Matching(v, Registered(v)) /\ Links(v) /\ Earned(v)
  BY DEF Good
<1>1. PICK w : w = [v EXCEPT !.producer[p] = "idle"]
  OBVIOUS
<1>2. /\ ServiceType(w) /\ Live(w) = Live(v) /\ SameLives(v, w) /\ w.sessions = v.sessions
      /\ Matching(w, Registered(v)) /\ Links(w) /\ Earned(w)
      /\ Registered(w) = Registered(v) \ {p}
  BY <1>0, <1>1, SetProducer
<1>4. PICK S : S = {s \in Live(v) : p \in DOMAIN v.sessions[s].inst}
  OBVIOUS
<1>5. r = RemoveEach(w, p, S)
  BY <1>1, <1>4, Zenon DEF UnregisterDataSource, RemoveEach
<1>6. S \in SUBSET Live(w) /\ \A s \in S : p \in DOMAIN w.sessions[s].inst
  BY <1>2, <1>4
<1>7. Removed(p, w, Registered(v), S, r)
  BY <1>2, <1>5, <1>6, RemoveAll
<1>8. Sweep(w, Registered(v), S, r) /\ \A s \in S : p \notin DOMAIN r.sessions[s].inst
  BY <1>7 DEF Removed
<1>9. /\ ServiceType(r) /\ Matching(r, Registered(v)) /\ Links(r) /\ Earned(r) /\ Moves(w, r)
      /\ Registered(r) = Registered(w) /\ Live(r) = Live(w)
  BY <1>2, <1>6, <1>8, SweepGood
<1>10. ASSUME NEW x \in Live(r) PROVE Match(r.sessions[x], Registered(r))
  <2>1. Match(r.sessions[x], Registered(v))
    BY <1>9 DEF Matching
  <2>2. p \notin DOMAIN r.sessions[x].inst
    <3>1. CASE x \in S
      BY <1>8, <3>1
    <3>2. CASE x \notin S
      <4>1. x \in SessionIDs \ S /\ x \in Live(w)
        BY <1>2, <1>9, <3>2, LiveIDs
      <4>2. r.sessions[x] = w.sessions[x]
        BY <1>8, <4>1 DEF Sweep, Untouched
      <4> QED BY <1>2, <1>4, <1>9, <3>2, <4>2
    <3> QED BY <3>1, <3>2
  <2>3. DOMAIN r.sessions[x].inst \subseteq Registered(r)
    BY <1>2, <1>9, <2>1, <2>2 DEF Match
  <2> QED BY <2>1, <2>3 DEF Match
<1>11. Matching(r, Registered(r))
  BY <1>10 DEF Matching
<1> QED BY <1>2, <1>9, <1>11, LivesCompose DEF Good

LEMMA LeaveGood ==
  ASSUME NEW v, Good(v), NEW p \in Producers, p \notin Registered(v),
         NEW x \in {"idle", "gone"}, NEW r, r = [v EXCEPT !.producer[p] = x]
  PROVE  Good(r) /\ SameLives(v, r) /\ r.owed = v.owed
<1>0. ServiceType(v) /\ Matching(v, Registered(v)) /\ Links(v) /\ Earned(v)
  BY DEF Good
<1>1. /\ ServiceType(r) /\ SameLives(v, r)
      /\ Matching(r, Registered(v)) /\ Links(r) /\ Earned(r)
      /\ Registered(r) = Registered(v) \ {p}
  BY <1>0, SetProducer
<1>2. Registered(r) = Registered(v)
  BY <1>1
<1>3. r.owed = v.owed
  BY <1>0 DEF ServiceType, ServiceFields
<1> QED BY <1>1, <1>2, <1>3 DEF Good

LEMMA DisconnectGood ==
  ASSUME NEW v, Good(v), NEW p \in Producers,
         NEW u, u = IF v.producer[p] = "ds" THEN UnregisterDataSource(v, p) ELSE v,
         NEW r, r = [u EXCEPT !.producer[p] = "gone", !.owed = {a \in @ : a.p # p}]
  PROVE  Good(r) /\ Moves(v, r)
<1>1. Good(u) /\ Moves(v, u) /\ p \notin Registered(u)
  <2>1. CASE v.producer[p] = "ds"
    BY <2>1, UnregisterGood
  <2>2. CASE v.producer[p] # "ds"
    BY <2>2 DEF Moves, Moved, Registered
  <2> QED BY <2>1, <2>2
<1>2. PICK o : o = {a \in u.owed : a.p # p}
  OBVIOUS
<1>3. PICK w : w = [u EXCEPT !.producer[p] = "gone"]
  OBVIOUS
<1>4. r = [w EXCEPT !.owed = o]
  BY <1>2, <1>3
<1>5. Good(w) /\ SameLives(u, w) /\ w.owed = u.owed
  BY <1>1, <1>3, LeaveGood
<1>6. o \in SUBSET w.owed
  BY <1>2, <1>5
<1>7. Good(r) /\ SameLives(w, r)
  BY <1>4, <1>5, <1>6, Forgets
<1> QED BY <1>1, <1>5, <1>7, LivesCompose

(***************************************************************************)
(* Steps                                                                   *)
(***************************************************************************)
(* What is true in every reachable state, and of every step.               *)
ServiceInv == Good(svc) /\ scenario \in Scenarios
Continues == Good(svc') /\ Moves(svc, svc')

LEMMA ScenarioFacts ==
  ASSUME scenario \in Scenarios
  PROVE  /\ UNION scenario.filters \subseteq Producers /\ scenario.consumers \subseteq Consumers
         /\ scenario.configs \subseteq Config
         /\ scenario.sessions \in Nat /\ scenario.sessions <= MaxSessions
BY ServiceConstants DEF Scenario

LEMMA StepContinues ==
  ASSUME NEW v, Good(v), Moves(svc, v), Step(v)
  PROVE  Continues
<1>1. PICK o, n : o = {a \in v.owed : Matters(v, a)} /\ n = svc'
  OBVIOUS
<1>2. n = [v EXCEPT !.owed = o] /\ o \in SUBSET v.owed
  BY <1>1 DEF Step
<1>3. Good(n) /\ SameLives(v, n)
  BY <1>2, Forgets
<1>4. Moves(svc, n)
  BY <1>3, LivesCompose
<1> QED BY <1>1, <1>3, <1>4 DEF Continues

LEMMA HandledContinues ==
  ASSUME ServiceInv, NEW s \in Live(svc), NEW r, Handled(svc, r, s, Registered(svc)), Step(r)
  PROVE  Continues
<1>1. Good(r) /\ Moves(svc, r)
  BY HandledGood DEF ServiceInv
<1> QED BY <1>1, StepContinues

LEMMA InvFacts ==
  ASSUME ServiceInv, NEW s \in Live(svc)
  PROVE  /\ ServiceType(svc) /\ Match(svc.sessions[s], Registered(svc))
         /\ DOMAIN svc.sessions[s].inst \subseteq Registered(svc)
BY DEF ServiceInv, Good, Matching, Match

LEMMA CompletePostedContinues ==
  ASSUME ServiceInv, NEW t \in svc.posted, CompletePosted(t)
  PROVE  Continues
<1>1. PICK o, w : o = svc.posted \ {t} /\ w = [svc EXCEPT !.posted = o]
  OBVIOUS
<1>2. Good(w) /\ SameLives(svc, w)
  <2>1. o \in SUBSET svc.posted
    BY <1>1
  <2> QED BY <1>1, <2>1, Unposts DEF ServiceInv
<1>3. PICK r : r = FlushCallback(w, t.s, t.flush.by)
  OBVIOUS
<1>4. Step(r)
  BY <1>1, <1>3 DEF CompletePosted, CompleteFlush
<1>5. Good(r) /\ Moves(w, r)
  BY <1>2, <1>3, CallbackGood
<1>6. Moves(svc, r)
  BY <1>2, <1>5, LivesCompose
<1> QED BY <1>4, <1>5, <1>6, StepContinues

LEMMA OnFlushTimeoutContinues ==
  ASSUME ServiceInv, NEW s \in Live(svc), NEW fl, OnFlushTimeout(s, fl)
  PROVE  Continues
<1>1. PICK w : w = [svc EXCEPT !.sessions[s].flushes = @ \ {fl}]
  OBVIOUS
<1>2. Good(w) /\ SameLives(svc, w)
  BY <1>1, DropFlush DEF ServiceInv
<1>3. PICK r : r = FlushCallback(w, s, fl.by)
  OBVIOUS
<1>4. Step(r)
  BY <1>1, <1>3 DEF OnFlushTimeout, CompleteFlush
<1>5. Good(r) /\ Moves(w, r)
  BY <1>2, <1>3, CallbackGood
<1>6. Moves(svc, r)
  BY <1>2, <1>5, LivesCompose
<1> QED BY <1>4, <1>5, <1>6, StepContinues

LEMMA OnDisableTracingTimeoutContinues ==
  ASSUME ServiceInv, NEW s \in Live(svc), OnDisableTracingTimeout(s)
  PROVE  Continues
<1>1. PICK r : r = DisableTracingNotifyConsumerAndFlushFile(svc, s)
  OBVIOUS
<1>2. Step(r) /\ svc.sessions[s].st # "DISABLED"
  BY <1>1 DEF OnDisableTracingTimeout, St
<1>3. Handled(svc, r, s, Registered(svc))
  BY <1>1, <1>2, InvFacts, EndHandled
<1> QED BY <1>2, <1>3, HandledContinues

LEMMA DisableContinues ==
  ASSUME ServiceInv, NEW s \in Live(svc), Step(DisableTracing(svc, s, FALSE))
  PROVE  Continues
<1>1. PICK r : r = DisableTracing(svc, s, FALSE)
  OBVIOUS
<1>2. Handled(svc, r, s, Registered(svc))
  BY <1>1, InvFacts, DisableHandled
<1>3. Step(r)
  BY <1>1
<1> QED BY <1>2, <1>3, HandledContinues

(* A timer has run, and what it does is done.                              *)
Unset(v, w, s, timer) == w = [v EXCEPT !.sessions[s].timers = @ \ {timer}]

LEMMA TimerGood ==
  ASSUME NEW v, Good(v), NEW s \in Live(v), NEW timer, NEW w, Unset(v, w, s, timer)
  PROVE  Good(w) /\ SameLives(v, w) /\ s \in Live(w)
<1>0. ServiceType(v) /\ Match(v.sessions[s], Registered(v))
  BY DEF Good, Matching
<1>1. PICK t, q : t = v.sessions[s] /\ q = [t EXCEPT !.timers = @ \ {timer}]
  OBVIOUS
<1>2. DOMAIN t = SessionFields
  BY <1>0, <1>1, TypeFacts
<1>3. Minor(t, q)
  BY <1>1, <1>2 DEF Minor, SameType, SessionFields
<1>4. w = PutRecord(v, s, q)
  BY <1>1 DEF PutRecord, Unset
<1>5. Local(v, w, s) /\ Stays(v, w, s) /\ Match(w.sessions[s], Registered(v))
  BY <1>0, <1>1, <1>3, <1>4, PutMinor
<1>6. Handled(v, w, s, Registered(v))
  BY <1>0, <1>5, StaysHandled
<1>7. Good(w) /\ Live(w) = Live(v)
  BY <1>6, HandledGood
<1>8. SameLives(v, w)
  <2>1. LifeOf(w, s) = LifeOf(v, s)
    BY <1>0, <1>5, StaysPut
  <2>2. \A x \in SessionIDs : x # s => LifeOf(w, x) = LifeOf(v, x)
    BY <1>5, OthersStayPut
  <2> QED BY <2>1, <2>2 DEF SameLives
<1> QED BY <1>7, <1>8

LEMMA TimerContinues ==
  ASSUME ServiceInv, NEW s \in Live(svc), NEW timer, NEW w, w = TimerRan(s, timer), NEW r,
         r = w \/ r = FlushAndDisableTracing(w, s), Step(r)
  PROVE  Continues
<1>1. Good(w) /\ SameLives(svc, w) /\ s \in Live(w)
  <2>1. Unset(svc, w, s, timer)
    BY DEF TimerRan, Unset
  <2> QED BY <2>1, TimerGood DEF ServiceInv
<1>2. CASE r = w
  BY <1>1, <1>2, LivesCompose, StepContinues
<1>3. CASE r = FlushAndDisableTracing(w, s)
  <2>1. r = Flush(w, s, "final")
    BY <1>3 DEF FlushAndDisableTracing
  <2>2. Good(r) /\ Moves(w, r)
    BY <1>1, <2>1, FlushGood
  <2>3. Moves(svc, r)
    BY <1>1, <2>2, LivesCompose
  <2> QED BY <2>2, <2>3, StepContinues
<1> QED BY <1>2, <1>3

LEMMA OnDurationContinues ==
  ASSUME ServiceInv, NEW s \in Live(svc), OnDuration(s)
  PROVE  Continues
<1>1. PICK w, r : /\ w = TimerRan(s, "duration")
                  /\ r = IF svc.sessions[s].cfg.trigger = "STOP" /\ svc.sessions[s].triggered
                         THEN w ELSE FlushAndDisableTracing(w, s)
  OBVIOUS
<1>2. Step(r)
  BY <1>1 DEF OnDuration
<1> QED BY <1>1, <1>2, TimerContinues

LEMMA OnStopTimerContinues ==
  ASSUME ServiceInv, NEW s \in Live(svc), NEW timer, OnStopTimer(s, timer)
  PROVE  Continues
<1>1. PICK w, r : w = TimerRan(s, timer) /\ r = FlushAndDisableTracing(w, s)
  OBVIOUS
<1>2. Step(r)
  BY <1>1 DEF OnStopTimer
<1> QED BY <1>1, <1>2, TimerContinues

LEMMA OnWritePeriodContinues ==
  ASSUME ServiceInv, NEW s \in Live(svc), NEW full, OnWritePeriod(s, full)
  PROVE  Continues
<1>1. PICK r : r = ReadBuffersIntoFile(svc, s, full)
  OBVIOUS
<1>2. Step(r)
  BY <1>1 DEF OnWritePeriod
<1>3. Handled(svc, r, s, Registered(svc))
  BY <1>1, InvFacts, WriteHandled
<1> QED BY <1>2, <1>3, HandledContinues

LEMMA FlushContinues ==
  ASSUME ServiceInv, NEW s \in Live(svc), NEW by \in {"consumer", "periodic", "final"},
         Step(Flush(svc, s, by))
  PROVE  Continues
<1>1. PICK r : r = Flush(svc, s, by)
  OBVIOUS
<1>2. Good(r) /\ Moves(svc, r)
  BY <1>1, FlushGood DEF ServiceInv
<1>3. Step(r)
  BY <1>1
<1> QED BY <1>2, <1>3, StepContinues

(* Producers.                                                              *)
LEMMA ConnectProducerContinues ==
  ASSUME ServiceInv, NEW p \in Producers, ConnectProducer(p)
  PROVE  Continues
<1>1. PICK r : r = [svc EXCEPT !.producer[p] = "idle"]
  OBVIOUS
<1>2. Step(r) /\ p \notin Registered(svc)
  BY <1>1 DEF ConnectProducer, Registered
<1>3. Good(r) /\ SameLives(svc, r)
  BY <1>1, <1>2, LeaveGood DEF ServiceInv
<1>4. Moves(svc, r)
  BY <1>3, LivesCompose
<1> QED BY <1>2, <1>3, <1>4, StepContinues

LEMMA RegisterContinues ==
  ASSUME ServiceInv, NEW p \in Producers, Register(p)
  PROVE  Continues
<1>1. PICK r : r = RegisterDataSource(svc, p)
  OBVIOUS
<1>2. Step(r)
  BY <1>1 DEF Register
<1>3. Good(r) /\ Moves(svc, r)
  BY <1>1, RegisterGood DEF ServiceInv
<1> QED BY <1>2, <1>3, StepContinues

LEMMA UnregisterContinues ==
  ASSUME ServiceInv, NEW p \in Producers, Unregister(p)
  PROVE  Continues
<1>1. PICK r : r = UnregisterDataSource(svc, p)
  OBVIOUS
<1>2. Step(r)
  BY <1>1 DEF Unregister
<1>3. Good(r) /\ Moves(svc, r)
  BY <1>1, UnregisterGood DEF ServiceInv
<1> QED BY <1>2, <1>3, StepContinues

LEMMA DisconnectProducerContinues ==
  ASSUME ServiceInv, NEW p \in Producers, DisconnectProducer(p)
  PROVE  Continues
<1>1. PICK u : u = IF svc.producer[p] = "ds" THEN UnregisterDataSource(svc, p) ELSE svc
  OBVIOUS
<1>2. PICK r : r = [u EXCEPT !.producer[p] = "gone", !.owed = {a \in @ : a.p # p}]
  OBVIOUS
<1>3. Step(r)
  BY <1>1, <1>2 DEF DisconnectProducer
<1>4. Good(r) /\ Moves(svc, r)
  BY <1>1, <1>2, DisconnectGood DEF ServiceInv
<1> QED BY <1>3, <1>4, StepContinues

LEMMA SweptContinues ==
  ASSUME ServiceInv, NEW p, NEW v, Good(v), SameLives(svc, v), NEW S \in SUBSET Live(v), NEW r,
         Swept(p, v, Registered(v), S, r), Step(r)
  PROVE  Continues
<1>1. ServiceType(v) /\ Links(v) /\ Earned(v)
  BY DEF Good
<1>2. Sweep(v, Registered(v), S, r)
  BY DEF Swept
<1>3. /\ ServiceType(r) /\ Matching(r, Registered(v)) /\ Links(r) /\ Earned(r) /\ Moves(v, r)
      /\ Registered(r) = Registered(v)
  BY <1>1, <1>2, SweepGood
<1>4. Good(r)
  BY <1>3 DEF Good
<1>5. Moves(svc, r)
  BY <1>3, LivesCompose
<1> QED BY <1>4, <1>5, StepContinues

LEMMA ActivateTriggersContinues ==
  ASSUME ServiceInv, NEW p, NEW S \in SUBSET Live(svc), ActivateTriggers(p, S)
  PROVE  Continues
<1>1. PICK r : r = TriggerEach(svc, p, S)
  OBVIOUS
<1>2. Step(r)
  BY <1>1, Zenon DEF ActivateTriggers, TriggerEach
<1>3. ServiceType(svc) /\ Matching(svc, Registered(svc)) /\ Good(svc) /\ SameLives(svc, svc)
  BY DEF ServiceInv, Good, SameLives
<1>4. Swept(p, svc, Registered(svc), S, r)
  BY <1>1, <1>3, TriggerAll
<1> QED BY <1>2, <1>3, <1>4, SweptContinues

Arrived(v, a, S) ==
  CASE a.k = "flush" -> NotifyFlushDoneForProducer(RecordAck(v, a.p, a.id), a.p, a.id)
    [] a.k = "started" -> StartedEach(v, a.p, S)
    [] a.k = "stopped" -> StoppedEach(v, a.p, S)

LEMMA AckArrivesContinues ==
  ASSUME ServiceInv, NEW a \in svc.owed, AckArrives(a)
  PROVE  Continues
<1> DEFINE v0 == [svc EXCEPT !.owed = @ \ {a}]
           S0 == {s \in Live(v0) : /\ a.p \in DOMAIN v0.sessions[s].inst
                                   /\ v0.sessions[s].inst[a.p].id = a.id}
<1>1. Step(Arrived(v0, a, S0))
  BY Zenon DEF AckArrives, Arrived, StartedEach, StoppedEach
<1>2. PICK v, S, r : v = v0 /\ S = S0 /\ r = Arrived(v, a, S)
  OBVIOUS
<1>3. Step(r)
  BY <1>1, <1>2, Zenon
<1>4. Good(v) /\ SameLives(svc, v)
  <2>1. PICK o : o = svc.owed \ {a}
    OBVIOUS
  <2>2. v = [svc EXCEPT !.owed = o] /\ o \in SUBSET svc.owed
    BY <1>2, <2>1
  <2> QED BY <2>2, Forgets DEF ServiceInv
<1>5. S \in SUBSET Live(v) /\ \A s \in S : a.p \in DOMAIN v.sessions[s].inst
  BY <1>2
<1> HIDE DEF v0, S0
<1>6. a.k \in {"started", "stopped", "flush"} /\ a.p \in Producers
  BY DEF ServiceInv, Good, ServiceType, OwedType
<1>7. ServiceType(v) /\ Matching(v, Registered(v))
  BY <1>4 DEF Good
<1>8. CASE a.k = "flush"
  <2>1. PICK w : w = RecordAck(v, a.p, a.id)
    OBVIOUS
  <2>2. r = NotifyFlushDoneForProducer(w, a.p, a.id)
    BY <1>2, <1>8, <2>1 DEF Arrived
  <2>3. /\ Good(w) /\ SameLives(v, w)
        /\ \A x \in Live(w) : \A fl \in w.sessions[x].flushes : fl.id <= a.id => a.p \in fl.acked
    BY <1>4, <1>6, <2>1, RecordAckGood
  <2>4. Good(r) /\ SameLives(w, r)
    BY <1>6, <2>2, <2>3, AckFlushGood
  <2>5. Moves(svc, r)
    BY <1>4, <2>3, <2>4, LivesCompose
  <2> QED BY <1>3, <2>4, <2>5, StepContinues
<1>9. CASE a.k = "started"
  <2>1. r = StartedEach(v, a.p, S)
    BY <1>2, <1>9 DEF Arrived
  <2>2. Swept(a.p, v, Registered(v), S, r)
    BY <1>5, <1>7, <2>1, StartedAll
  <2> QED BY <1>3, <1>4, <1>5, <2>2, SweptContinues
<1>10. CASE a.k = "stopped"
  <2>1. r = StoppedEach(v, a.p, S)
    BY <1>2, <1>10 DEF Arrived
  <2>2. Swept(a.p, v, Registered(v), S, r)
    BY <1>5, <1>7, <2>1, StoppedAll
  <2> QED BY <1>3, <1>4, <1>5, <2>2, SweptContinues
<1> QED BY <1>6, <1>8, <1>9, <1>10

(* Consumers.                                                              *)
LEMMA CallerFacts ==
  ASSUME ServiceInv, NEW c, NEW s, HasSession(c, s)
  PROVE  c \in DOMAIN svc.consumers /\ svc.consumers[c].tsid = s /\ ConsumersType(svc.consumers)
BY ConsumerFacts DEF HasSession, ServiceInv

LEMMA ConnectConsumerContinues ==
  ASSUME ServiceInv, NEW c \in Consumers, ConnectConsumer(c)
  PROVE  Continues
<1>1. PICK e, C : e = [tsid |-> 0, watching |-> FALSE] /\ C = With(svc.consumers, c, e)
  OBVIOUS
<1>2. PICK r : r = WithConsumers(svc, C)
  OBVIOUS
<1>3. Step(r) /\ c \notin DOMAIN svc.consumers
  BY <1>1, <1>2 DEF ConnectConsumer, WithConsumers
<1>4. ConsumersType(C) /\ SameTsids(svc, C)
  <2>1. ConsumersType(svc.consumers) /\ e \in ConsumerRecord /\ e.tsid = 0
    BY <1>1, ConsumerFacts DEF ServiceInv, ConsumerRecord
  <2>2. /\ DOMAIN C = DOMAIN svc.consumers \cup {c} /\ C[c] = e
        /\ \A d \in DOMAIN svc.consumers : C[d] = svc.consumers[d]
    BY <1>1, <1>3 DEF With
  <2> QED BY <1>3, <2>1, <2>2 DEF ConsumersType, SameTsids
<1>5. Good(r) /\ SameLives(svc, r)
  BY <1>2, <1>4, ConsumersGood DEF ServiceInv
<1>6. Moves(svc, r)
  BY <1>5, LivesCompose
<1> QED BY <1>3, <1>5, <1>6, StepContinues

LEMMA DisconnectConsumerContinues ==
  ASSUME ServiceInv, NEW c, DisconnectConsumer(c)
  PROVE  Continues
<1>1. PICK s, C : /\ s = svc.consumers[c].tsid
                  /\ C = [d \in DOMAIN svc.consumers \ {c} |-> svc.consumers[d]]
  OBVIOUS
<1>2. PICK w : w = FreeBuffers(svc, s)
  OBVIOUS
<1>3. w.consumers = svc.consumers
  <2>1. CASE s \in Live(svc)
    BY <1>2, <2>1, FreeFacts DEF ServiceInv
  <2>2. CASE s \notin Live(svc)
    BY <1>2, <2>2 DEF FreeBuffers
  <2> QED BY <2>1, <2>2
<1>4. PICK r : r = WithConsumers(w, C)
  OBVIOUS
<1>5. Step(r) /\ c \in DOMAIN svc.consumers
  <2>1. r = [w EXCEPT !.consumers = [d \in DOMAIN @ \ {c} |-> @[d]]]
    BY <1>1, <1>3, <1>4 DEF WithConsumers
  <2> QED BY <1>1, <1>2, <2>1 DEF DisconnectConsumer
<1>6. ConsumersType(C) /\ LetsGo(svc, C, c)
  <2>1. ConsumersType(svc.consumers)
    BY ConsumerFacts DEF ServiceInv
  <2> QED BY <1>1, <2>1 DEF ConsumersType, LetsGo
<1>7. Good(r) /\ Moves(svc, r)
  <2>1. CASE s \in Live(svc)
    BY <1>1, <1>2, <1>4, <1>5, <1>6, <2>1, FreeCallGood DEF ServiceInv
  <2>2. CASE s \notin Live(svc)
    <3>1. w = svc
      BY <1>2, <2>2 DEF FreeBuffers
    <3>2. SameTsids(svc, C)
      BY <1>1, <1>5, <2>2 DEF SameTsids
    <3>3. Good(r) /\ SameLives(svc, r)
      BY <1>4, <1>6, <3>1, <3>2, ConsumersGood DEF ServiceInv
    <3> QED BY <3>3, LivesCompose
  <2> QED BY <2>1, <2>2
<1> QED BY <1>5, <1>7, StepContinues

LEMMA EnableContinues ==
  ASSUME ServiceInv, NEW c, NEW cfg \in Config, NEW filter, Enable(c, cfg, filter)
  PROVE  Continues
<1>1. PICK r : r = EnableTracing(svc, c, cfg, filter)
  OBVIOUS
<1>2. Step(r) /\ HasSession(c, 0) /\ svc.lastSession < scenario.sessions
  BY <1>1 DEF Enable
<1>3. svc.lastSession < MaxSessions
  <2>1. scenario.sessions \in Nat /\ scenario.sessions <= MaxSessions
    BY ScenarioFacts DEF ServiceInv
  <2> QED BY <1>2, <2>1, ServiceConstants DEF ServiceInv, Good, ServiceType, Numbers
<1>4. c \in DOMAIN svc.consumers /\ svc.consumers[c].tsid = 0
  BY <1>2, CallerFacts
<1>5. Good(r) /\ Moves(svc, r)
  BY <1>1, <1>3, <1>4, EnableGood DEF ServiceInv
<1> QED BY <1>2, <1>5, StepContinues

LEMMA ChangeContinues ==
  ASSUME ServiceInv, NEW c, NEW s \in Live(svc), NEW filter, Change(c, s, filter)
  PROVE  Continues
<1>1. PICK r : r = ChangeTraceConfig(svc, s, filter)
  OBVIOUS
<1>2. Step(r)
  BY <1>1 DEF Change
<1>3. Handled(svc, r, s, Registered(svc))
  BY <1>1, InvFacts, ChangeHandled
<1> QED BY <1>2, <1>3, HandledContinues

LEMMA StartContinues ==
  ASSUME ServiceInv, NEW c, NEW s \in Live(svc), Start(c, s)
  PROVE  Continues
<1>1. PICK r : r = StartTracing(svc, s)
  OBVIOUS
<1>2. Step(r)
  BY <1>1 DEF Start
<1>3. Handled(svc, r, s, Registered(svc))
  BY <1>1, InvFacts, StartHandled
<1> QED BY <1>2, <1>3, HandledContinues

LEMMA FreeContinues ==
  ASSUME ServiceInv, NEW c, NEW s \in Live(svc), Free(c, s)
  PROVE  Continues
<1>0. c \in DOMAIN svc.consumers /\ svc.consumers[c].tsid = s /\ ConsumersType(svc.consumers)
  BY CallerFacts DEF Free
<1>1. PICK e, C : /\ e = [svc.consumers[c] EXCEPT !.tsid = 0]
                  /\ C = [svc.consumers EXCEPT ![c] = e]
  OBVIOUS
<1>2. PICK w, r : w = FreeBuffers(svc, s) /\ r = WithConsumers(w, C)
  OBVIOUS
<1>3. w.consumers = svc.consumers
  BY <1>2, FreeFacts DEF ServiceInv
<1>4. Step(r)
  <2>1. r = [w EXCEPT !.consumers[c].tsid = 0]
    BY <1>1, <1>2, <1>3 DEF WithConsumers
  <2> QED BY <1>2, <2>1 DEF Free
<1>5. e \in ConsumerRecord /\ e.tsid = 0
  BY <1>0, <1>1 DEF ConsumersType, ConsumerRecord
<1>6. ConsumersType(C) /\ LetsGo(svc, C, c)
  BY <1>0, <1>1, <1>5 DEF ConsumersType, LetsGo
<1>7. Good(r) /\ Moves(svc, r)
  BY <1>0, <1>2, <1>6, FreeCallGood DEF ServiceInv
<1> QED BY <1>4, <1>7, StepContinues

LEMMA DetachContinues ==
  ASSUME ServiceInv, NEW c, NEW s \in Live(svc), NEW k \in Keys, Detach(c, s, k)
  PROVE  Continues
<1>1. PICK r : r = [svc EXCEPT !.sessions[s].consumer = "none", !.sessions[s].detach_key = k,
                               !.consumers[c].tsid = 0]
  OBVIOUS
<1>2. Step(r) /\ HasSession(c, s) /\ Detached(svc, k) = {}
  BY <1>1 DEF Detach
<1>3. Relinks(svc, r, s, "none", k, c, 0)
  BY <1>1 DEF Relinks
<1>4. c \in DOMAIN svc.consumers /\ svc.consumers[c].tsid = s
  BY <1>2, CallerFacts
<1>5. Good(r) /\ Moves(svc, r)
  BY <1>2, <1>3, <1>4, DetachGood DEF ServiceInv
<1> QED BY <1>2, <1>5, StepContinues

LEMMA AttachContinues ==
  ASSUME ServiceInv, NEW c, NEW s \in Live(svc), NEW k \in Keys, Attach(c, s, k)
  PROVE  Continues
<1>1. PICK r : r = [svc EXCEPT !.sessions[s].consumer = c, !.sessions[s].detach_key = "none",
                               !.consumers[c].tsid = s]
  OBVIOUS
<1>2. Step(r) /\ HasSession(c, 0) /\ s \in Detached(svc, k)
  BY <1>1 DEF Attach
<1>3. Relinks(svc, r, s, c, "none", c, s)
  BY <1>1 DEF Relinks
<1>4. c \in DOMAIN svc.consumers /\ svc.consumers[c].tsid = 0
  BY <1>2, CallerFacts
<1>5. Good(r) /\ Moves(svc, r)
  BY <1>2, <1>3, <1>4, AttachGood DEF ServiceInv
<1> QED BY <1>2, <1>5, StepContinues

LEMMA ObserveEventsContinues ==
  ASSUME ServiceInv, NEW c, NEW watching \in BOOLEAN, ObserveEvents(c, watching)
  PROVE  Continues
<1>0. c \in DOMAIN svc.consumers /\ ConsumersType(svc.consumers)
  BY ConsumerFacts DEF ObserveEvents, ServiceInv
<1>1. PICK e, C : /\ e = [svc.consumers[c] EXCEPT !.watching = watching]
                  /\ C = [svc.consumers EXCEPT ![c] = e]
  OBVIOUS
<1>2. PICK s, v : s = svc.consumers[c].tsid /\ v = WithConsumers(svc, C)
  OBVIOUS
<1>3. e \in ConsumerRecord /\ e.tsid = s
  BY <1>0, <1>1, <1>2 DEF ConsumersType, ConsumerRecord
<1>4. ConsumersType(C) /\ SameTsids(svc, C)
  BY <1>0, <1>1, <1>2, <1>3 DEF ConsumersType, SameTsids
<1>5. /\ Good(v) /\ SameLives(svc, v) /\ Live(v) = Live(svc) /\ v.consumers = C
  BY <1>2, <1>4, ConsumersGood DEF ServiceInv
<1>6. PICK r : r = IF s # 0 /\ watching THEN MaybeNotifyAllDataSourcesStarted(v, s) ELSE v
  OBVIOUS
<1>7. Step(r)
  <2>1. v = [svc EXCEPT !.consumers[c].watching = watching]
    BY <1>1, <1>2 DEF WithConsumers
  <2> QED BY <1>2, <1>6, <2>1 DEF ObserveEvents
<1>8. CASE r = v
  BY <1>5, <1>7, <1>8, LivesCompose, StepContinues
<1>9. CASE s # 0 /\ r = MaybeNotifyAllDataSourcesStarted(v, s)
  <2>1. s \in Live(v) /\ ServiceType(v) /\ Match(v.sessions[s], Registered(v))
    <3>1. s \in Live(svc)
      BY <1>0, <1>2, <1>9 DEF ServiceInv, Good, Links
    <3> QED BY <1>5, <3>1 DEF Good, Matching
  <2>2. /\ Local(v, r, s) /\ Stays(v, r, s)
        /\ r.sessions[s].inst = v.sessions[s].inst
    BY <1>9, <2>1, NotifyAllStartedLocal
  <2>3. Match(r.sessions[s], Registered(v))
    BY <2>1, <2>2 DEF Match, Stays
  <2>4. Handled(v, r, s, Registered(v))
    BY <2>1, <2>2, <2>3, StaysHandled
  <2>5. Good(r) /\ Moves(v, r)
    BY <1>5, <2>1, <2>4, HandledGood
  <2>6. Moves(svc, r)
    BY <1>5, <2>5, LivesCompose
  <2> QED BY <1>7, <2>5, <2>6, StepContinues
<1> QED BY <1>6, <1>8, <1>9

LEMMA SaveContinues ==
  ASSUME ServiceInv, NEW c, SaveTraceForBugreport(c)
  PROVE  Continues
<1>1. PICK r : r = MaybeSaveTraceForBugreport(svc)
  OBVIOUS
<1>2. Step(r)
  BY <1>1 DEF SaveTraceForBugreport
<1>3. Good(r) /\ Moves(svc, r)
  BY <1>1, SaveGood DEF ServiceInv
<1> QED BY <1>2, <1>3, StepContinues

LEMMA NextContinues ==
  ASSUME ServiceInv, Next
  PROVE  Continues /\ scenario' = scenario
<1>0. /\ UNION scenario.filters \subseteq Producers /\ scenario.consumers \subseteq Consumers
      /\ scenario.configs \subseteq Config
  BY ScenarioFacts DEF ServiceInv
<1>1. CASE ServiceTask
  <2>1. CASE \E t \in svc.posted : CompletePosted(t)
    <3>1. PICK t \in svc.posted : CompletePosted(t)
      BY <2>1
    <3> QED BY <3>1, CompletePostedContinues DEF CompletePosted, Step
  <2>2. CASE \E s \in Live(svc) :
               \/ \E fl \in svc.sessions[s].flushes : OnFlushTimeout(s, fl)
               \/ OnDisableTracingTimeout(s)
               \/ OnStartTriggersTimeout(s)
               \/ OnDuration(s)
               \/ \E timer \in {"stop", "seize"} : OnStopTimer(s, timer)
    <3>0. PICK s \in Live(svc) :
               \/ \E fl \in svc.sessions[s].flushes : OnFlushTimeout(s, fl)
               \/ OnDisableTracingTimeout(s)
               \/ OnStartTriggersTimeout(s)
               \/ OnDuration(s)
               \/ \E timer \in {"stop", "seize"} : OnStopTimer(s, timer)
      BY <2>2
    <3>1. CASE \E fl \in svc.sessions[s].flushes : OnFlushTimeout(s, fl)
      <4>1. PICK fl : OnFlushTimeout(s, fl)
        BY <3>1
      <4> QED BY <4>1, OnFlushTimeoutContinues DEF OnFlushTimeout, Step
    <3>2. CASE OnDisableTracingTimeout(s)
      BY <3>2, OnDisableTracingTimeoutContinues DEF OnDisableTracingTimeout, Step
    <3>3. CASE OnStartTriggersTimeout(s)
      <4>1. Step(DisableTracing(svc, s, FALSE))
        BY <3>3 DEF OnStartTriggersTimeout
      <4> QED BY <4>1, DisableContinues DEF Step
    <3>4. CASE OnDuration(s)
      BY <3>4, OnDurationContinues DEF OnDuration, Step
    <3>5. CASE \E timer \in {"stop", "seize"} : OnStopTimer(s, timer)
      <4>1. PICK timer : OnStopTimer(s, timer)
        BY <3>5
      <4> QED BY <4>1, OnStopTimerContinues DEF OnStopTimer, Step
    <3> QED BY <3>0, <3>1, <3>2, <3>3, <3>4, <3>5
  <2> QED BY <1>1, <2>1, <2>2 DEF ServiceTask
<1>2. ASSUME NEW s \in Live(svc), NEW full, OnWritePeriod(s, full)
      PROVE  Continues /\ scenario' = scenario
  BY <1>2, OnWritePeriodContinues DEF OnWritePeriod, Step
<1>3. ASSUME NEW s \in Live(svc), PeriodicFlushTask(s)
      PROVE  Continues /\ scenario' = scenario
  <2>1. Step(Flush(svc, s, "periodic"))
    BY <1>3 DEF PeriodicFlushTask
  <2> QED BY <2>1, FlushContinues DEF Step
<1>4. ASSUME NEW p \in UNION scenario.filters,
             \/ ConnectProducer(p) \/ Register(p) \/ Unregister(p) \/ DisconnectProducer(p)
             \/ \E S \in SUBSET Live(svc) : ActivateTriggers(p, S)
      PROVE  Continues /\ scenario' = scenario
  <2>0. p \in Producers
    BY <1>0, SMTT(40)
  <2>1. CASE ConnectProducer(p)
    BY <2>0, <2>1, ConnectProducerContinues DEF ConnectProducer, Step
  <2>2. CASE Register(p)
    BY <2>0, <2>2, RegisterContinues DEF Register, Step
  <2>3. CASE Unregister(p)
    BY <2>0, <2>3, UnregisterContinues, SMTT(40) DEF Unregister, Step
  <2>4. CASE DisconnectProducer(p)
    BY <2>0, <2>4, DisconnectProducerContinues DEF DisconnectProducer, Step
  <2>5. CASE \E S \in SUBSET Live(svc) : ActivateTriggers(p, S)
    <3>1. PICK S \in SUBSET Live(svc) : ActivateTriggers(p, S)
      BY <2>5
    <3>2. Continues
      BY <3>1, ActivateTriggersContinues
    <3>3. scenario' = scenario
      BY <3>1, Zenon DEF ActivateTriggers, Step
    <3> QED BY <3>2, <3>3
  <2> QED BY <1>4, <2>1, <2>2, <2>3, <2>4, <2>5
<1>5. ASSUME NEW a \in svc.owed, AckArrives(a)
      PROVE  Continues /\ scenario' = scenario
  <2>1. Continues
    BY <1>5, AckArrivesContinues
  <2>2. scenario' = scenario
    BY <1>5, Zenon DEF AckArrives, Step
  <2> QED BY <2>1, <2>2
<1>6. ASSUME NEW c \in scenario.consumers,
             \/ ConnectConsumer(c) \/ DisconnectConsumer(c)
             \/ \E cfg \in scenario.configs, filter \in scenario.filters : Enable(c, cfg, filter)
             \/ \E watching \in BOOLEAN : ObserveEvents(c, watching)
             \/ SaveTraceForBugreport(c)
      PROVE  Continues /\ scenario' = scenario
  <2>0. c \in Consumers
    BY <1>0
  <2>1. CASE ConnectConsumer(c)
    BY <2>0, <2>1, ConnectConsumerContinues, ZenonT(40) DEF ConnectConsumer, Step
  <2>2. CASE DisconnectConsumer(c)
    BY <2>2, DisconnectConsumerContinues DEF DisconnectConsumer, Step
  <2>3. CASE \E cfg \in scenario.configs, filter \in scenario.filters : Enable(c, cfg, filter)
    <3>1. PICK cfg \in scenario.configs, filter \in scenario.filters : Enable(c, cfg, filter)
      BY <2>3
    <3>2. cfg \in Config
      BY <1>0
    <3> QED BY <3>1, <3>2, EnableContinues DEF Enable, Step
  <2>4. CASE \E watching \in BOOLEAN : ObserveEvents(c, watching)
    <3>1. PICK watching \in BOOLEAN : ObserveEvents(c, watching)
      BY <2>4
    <3> QED BY <3>1, ObserveEventsContinues DEF ObserveEvents, Step
  <2>5. CASE SaveTraceForBugreport(c)
    BY <2>5, SaveContinues DEF SaveTraceForBugreport, Step
  <2> QED BY <1>6, <2>1, <2>2, <2>3, <2>4, <2>5
<1>7. ASSUME NEW c \in scenario.consumers, NEW s \in Live(svc),
             \/ \E filter \in scenario.filters : Change(c, s, filter)
             \/ Start(c, s) \/ Disable(c, s) \/ Free(c, s) \/ FlushSession(c, s)
             \/ \E k \in Keys : Detach(c, s, k) \/ Attach(c, s, k)
      PROVE  Continues /\ scenario' = scenario
  <2>1. CASE \E filter \in scenario.filters : Change(c, s, filter)
    <3>1. PICK filter : Change(c, s, filter)
      BY <2>1
    <3> QED BY <3>1, ChangeContinues DEF Change, Step
  <2>2. CASE Start(c, s)
    BY <2>2, StartContinues DEF Start, Step
  <2>3. CASE Disable(c, s)
    <3>1. Step(DisableTracing(svc, s, FALSE))
      BY <2>3 DEF Disable
    <3> QED BY <3>1, DisableContinues DEF Step
  <2>4. CASE Free(c, s)
    BY <2>4, FreeContinues DEF Free, Step
  <2>5. CASE FlushSession(c, s)
    <3>1. Step(Flush(svc, s, "consumer"))
      BY <2>5 DEF FlushSession
    <3> QED BY <3>1, FlushContinues DEF Step
  <2>6. CASE \E k \in Keys : Detach(c, s, k) \/ Attach(c, s, k)
    <3>0. PICK k \in Keys : Detach(c, s, k) \/ Attach(c, s, k)
      BY <2>6
    <3>1. CASE Detach(c, s, k)
      BY <3>1, DetachContinues, ZenonT(40) DEF Detach, Step
    <3>2. CASE Attach(c, s, k)
      BY <3>2, AttachContinues DEF Attach, Step
    <3> QED BY <3>0, <3>1, <3>2
  <2> QED BY <1>7, <2>1, <2>2, <2>3, <2>4, <2>5, <2>6
<1>8. \A S : S \in SUBSET {s \in Live(svc) : svc.sessions[s].cfg.trigger # "none"}
               => S \in SUBSET Live(svc)
  OBVIOUS
<1> QED BY <1>1, <1>2, <1>3, <1>4, <1>5, <1>6, <1>7, <1>8 DEF Next

LEMMA InitGood ==
  ASSUME Init
  PROVE  ServiceInv
<1>1. /\ DOMAIN svc = ServiceFields /\ DOMAIN svc.sessions = {} /\ DOMAIN svc.consumers = {}
      /\ svc.producer = [p \in Producers |-> "new"] /\ svc.owed = {} /\ svc.posted = {}
      /\ svc.lastSession = 0 /\ svc.lastInstance = 0 /\ svc.lastFlush = 0
      /\ svc.told = [s \in SessionIDs |-> 0] /\ svc.saved = [s \in SessionIDs |-> 0]
      /\ scenario \in Scenarios
  BY DEF Init, ServiceFields
<1>2. Live(svc) = {}
  BY <1>1 DEF Live
<1>3. Numbers(svc) /\ Clients(svc) /\ History(svc) /\ OwedType(svc)
  BY <1>1, <1>2, ServiceConstants DEF Numbers, Clients, History, OwedType
<1>4. ServiceType(svc)
  BY <1>1, <1>2, <1>3 DEF ServiceType
<1> QED BY <1>1, <1>2, <1>4 DEF ServiceInv, Good, Matching, Links, Earned

(* The inductive invariant of the service: what every handler relies on    *)
(* and leaves behind.                                                      *)
THEOREM ServiceInvariant == Spec => []ServiceInv
<1>1. Init => ServiceInv
  BY InitGood
<1>2. ServiceInv /\ [Next]_vars => ServiceInv'
  <2>1. SUFFICES ASSUME ServiceInv, [Next]_vars PROVE ServiceInv'
    OBVIOUS
  <2>2. CASE Next
    <3>1. Good(svc') /\ scenario' = scenario
      BY <2>1, <2>2, NextContinues DEF Continues
    <3>2. scenario' \in Scenarios
      BY <2>1, <3>1 DEF ServiceInv
    <3> QED BY <3>1, <3>2 DEF ServiceInv
  <2>3. CASE UNCHANGED vars
    <3>1. svc' = svc /\ scenario' = scenario
      BY <2>3 DEF vars
    <3> QED BY <2>1, <3>1 DEF ServiceInv
  <2> QED BY <2>1, <2>2, <2>3
<1> QED BY <1>1, <1>2, PTL DEF Spec

(* Type correctness: ids stay below the last one handed out, and what is   *)
(* pending or owed names producers and flushes that exist.                 *)
THEOREM TypeCorrect == Spec => []TypeOK
<1>1. ServiceInv => TypeOK
  <2>1. SUFFICES ASSUME ServiceInv PROVE TypeOK
    OBVIOUS
  <2>2. ServiceType(svc)
    BY <2>1 DEF ServiceInv, Good
  <2>3. /\ Live(svc) \subseteq 1 .. svc.lastSession
        /\ svc.producer \in [Producers -> {"new", "idle", "ds", "gone"}]
        /\ DOMAIN svc.consumers \subseteq Consumers
        /\ \A a \in svc.owed :
             /\ a.k \in {"started", "stopped", "flush"} /\ a.p \in Producers
             /\ a.id \in 1 .. (IF a.k = "flush" THEN svc.lastFlush ELSE svc.lastInstance)
    BY <2>2 DEF ServiceType, Numbers, Clients, OwedType
  <2>4. ASSUME NEW s \in Live(svc)
        PROVE  /\ svc.sessions[s].st \in SessionState
               /\ svc.sessions[s].consumer \in Consumers \cup {"none"}
               /\ svc.sessions[s].detach_key \in Keys \cup {"none"}
               /\ svc.sessions[s].timers \subseteq {"duration", "write", "stop", "seize"}
    BY <2>2, TypeFacts DEF SessionType
  <2>5. ASSUME NEW s \in Live(svc)
        PROVE  /\ DOMAIN svc.sessions[s].inst \subseteq Producers
               /\ \A p \in DOMAIN svc.sessions[s].inst :
                    /\ svc.sessions[s].inst[p].st \in InstanceState
                    /\ svc.sessions[s].inst[p].id \in 1 .. svc.lastInstance
    BY <2>2, TypeFacts DEF InstancesType, Instance
  <2>6. ASSUME NEW s \in Live(svc), NEW fl \in svc.sessions[s].flushes
        PROVE  /\ fl.id \in 1 .. svc.lastFlush /\ fl.waiting \subseteq fl.asked
               /\ fl.asked \subseteq Producers
    BY <2>2 DEF ServiceType, FlushesType, PendingFlush
  <2> QED BY <2>3, <2>4, <2>5, <2>6 DEF TypeOK
<1> QED BY <1>1, ServiceInvariant, PTL

(* The states of a session and of its instances agree whatever acks,       *)
(* timeouts and producers that leave do, as the DCHECKs of                 *)
(* StartDataSourceInstance(), DisableTracing(), OnDisableTracingTimeout()  *)
(* and FreeBuffers() require, and every instance is of a data source that  *)
(* is still registered.                                                    *)
THEOREM InstancesMatch == Spec => []InstancesMatchSession
<1>1. ServiceInv => InstancesMatchSession
  <2>1. SUFFICES ASSUME ServiceInv PROVE InstancesMatchSession
    OBVIOUS
  <2>2. \A s \in Live(svc) : Match(svc.sessions[s], Registered(svc))
    BY <2>1 DEF ServiceInv, Good, Matching
  <2> QED BY <2>2 DEF InstancesMatchSession, Match
<1> QED BY <1>1, ServiceInvariant, PTL

(* A consumer and its session point at each other across detach, attach,   *)
(* disconnect and a session that the service frees by itself, and under a  *)
(* key one session at most is detached (tracing_session_id_,               *)
(* consumer_maybe_null).                                                   *)
THEOREM ConsumersLinked == Spec => []ConsumerLinks
<1>1. ServiceInv => ConsumerLinks
  <2>1. SUFFICES ASSUME ServiceInv PROVE ConsumerLinks
    OBVIOUS
  <2>2. Links(svc)
    BY <2>1 DEF ServiceInv, Good
  <2>3. ASSUME NEW k \in Keys PROVE Cardinality(Detached(svc, k)) <= 1
    <3>1. \A s, x \in Detached(svc, k) : s = x
      <4>1. k # "none"
        BY ServiceConstants
      <4> QED BY <2>2, <4>1 DEF Links, Detached
    <3>2. CASE Detached(svc, k) = {}
      BY <3>2, FS_EmptySet
    <3>3. CASE Detached(svc, k) # {}
      <4>1. PICK s : Detached(svc, k) = {s}
        BY <3>1, <3>3
      <4>2. Cardinality({s}) = 1
        BY FS_Singleton
      <4>3. Cardinality(Detached(svc, k)) = 1
        BY <4>1, <4>2
      <4> QED BY <4>3
    <3> QED BY <3>2, <3>3
  <2>4. \A c \in DOMAIN svc.consumers :
          svc.consumers[c].tsid # 0 =>
            /\ svc.consumers[c].tsid \in Live(svc)
            /\ svc.sessions[svc.consumers[c].tsid].consumer = c
    BY <2>2 DEF Links
  <2>5. ASSUME NEW s \in Live(svc)
        PROVE  /\ svc.sessions[s].consumer # "none" => HasSession(svc.sessions[s].consumer, s)
               /\ svc.sessions[s].consumer = "none" <=> svc.sessions[s].detach_key # "none"
    BY <2>2 DEF Links, Points, HasSession
  <2> QED BY <2>3, <2>4, <2>5 DEF ConsumerLinks
<1> QED BY <1>1, ServiceInvariant, PTL

(* A flush is reported as a success only when every producer it asked has  *)
(* acked it or a later one, in whatever order acks and the timeout come    *)
(* (NotifyFlushDoneForProducer(), OnFlushTimeout(), CompleteFlush()).      *)
THEOREM SuccessEarned == Spec => []SuccessIsEarned
<1>1. ServiceInv => SuccessIsEarned
  BY DEF ServiceInv, Good, Earned, EarnedFlush, SuccessIsEarned
<1> QED BY <1>1, ServiceInvariant, PTL

LEMMA LifeIs ==
  /\ Life = [s \in SessionIDs |-> LifeOf(svc, s)]
  /\ Life' = [s \in SessionIDs |-> LifeOf(svc', s)]
<1>1. Life = [s \in SessionIDs |-> LifeOf(svc, s)]
  BY Zenon DEF Life, Phase, LifeOf, PhaseOf, Live, St
<1>2. Life' = [s \in SessionIDs |-> LifeOf(svc', s)]
  BY Zenon DEF Life, Phase, LifeOf, PhaseOf, Live, St
<1> QED BY <1>1, <1>2

(* The sessions of the service live as SessionLifecycle promises: they     *)
(* only move forward (EnableTracing() to FreeBuffers()), the attached      *)
(* consumer is told of the end once, and a trace seized for a bugreport is *)
(* handed over once.                                                       *)
THEOREM ServiceImplementsLifecycle == Spec => Lifecycle
<1>1. Init => Abstract!Init
  <2>1. SUFFICES ASSUME Init PROVE Abstract!Init
    OBVIOUS
  <2>2. ASSUME NEW s \in SessionIDs
        PROVE  LifeOf(svc, s) = [phase |-> "none", attached |-> FALSE, seized |-> FALSE,
                                 told |-> 0, saved |-> 0]
    <3>1. /\ DOMAIN svc.sessions = {} /\ svc.lastSession = 0
          /\ svc.told = [x \in SessionIDs |-> 0] /\ svc.saved = [x \in SessionIDs |-> 0]
      BY <2>1 DEF Init
    <3>2. PhaseOf(svc, s) = "none"
      <4>1. s > svc.lastSession
        BY <3>1, ServiceConstants DEF SessionIDs
      <4>2. s \notin Live(svc)
        BY <3>1 DEF Live
      <4> QED BY <4>1, <4>2 DEF PhaseOf
    <3>3. svc.told[s] = 0 /\ svc.saved[s] = 0 /\ s \notin Live(svc)
      BY <3>1 DEF Live
    <3> QED BY <3>2, <3>3 DEF LifeOf
  <2> QED BY <2>2, LifeIs, Zenon DEF Abstract!Init
<1>2. ServiceInv /\ [Next]_vars => [Abstract!Next]_Life
  <2>1. SUFFICES ASSUME ServiceInv, [Next]_vars PROVE Abstract!Next \/ Life' = Life
    OBVIOUS
  <2>2. CASE Next
    <3>1. Moves(svc, svc')
      BY <2>1, <2>2, NextContinues DEF Continues
    <3>2. ASSUME NEW s \in SessionIDs
          PROVE  Life'[s] = Life[s] \/ Abstract!SessionStep(Life[s], Life'[s])
      <4>1. Moved(svc, svc', s)
        BY <3>1 DEF Moves
      <4>2. Life[s] = LifeOf(svc, s) /\ Life'[s] = LifeOf(svc', s)
        BY LifeIs
      <4> QED BY <4>1, <4>2 DEF Moved
    <3>3. DOMAIN Life' = SessionIDs
      BY LifeIs
    <3> QED BY <3>2, <3>3 DEF Abstract!Next
  <2>3. CASE UNCHANGED vars
    <3>1. svc' = svc
      BY <2>3 DEF vars
    <3> QED BY <3>1, LifeIs
  <2> QED BY <2>1, <2>2, <2>3
<1> QED BY <1>1, <1>2, ServiceInvariant, PTL DEF Spec, Lifecycle, Abstract!Spec
=============================================================================
