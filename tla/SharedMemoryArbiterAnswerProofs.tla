------------------- MODULE SharedMemoryArbiterAnswerProofs -------------------
(***************************************************************************)
(* Proof that the answers to flushes follow the data: THEOREM              *)
(* AnswersFollowDataHolds, for any number of threads, reservations,        *)
(* buffers, writers, chunks and flushes.  The lemmas on counting patches   *)
(* at its end serve module SharedMemoryArbiterPatchProofs.                 *)
(***************************************************************************)
EXTENDS SharedMemoryArbiterProofs, FiniteSetTheorems, WellFoundedInduction

(***************************************************************************)
(* What has to arrive before an answer                                     *)
(***************************************************************************)
(* The first n chunks of w have landed when the message i has been handled.*)
ArrivesBy(landed, wire, w, n, i) ==
  \A m \in 1 .. n : \/ Has(landed, w, m)
                    \/ \E j \in SentIn(wire) : j <= i /\ Has(wire[j].req.move, w, m)

(* A callback for chunks that the arbiter has got, or the service.         *)
Covered(cb) == cb.w \in DOMAIN writers /\ cb.n \in 0 .. writers[cb.w].returned
Arrived(cb) == \A n \in 1 .. cb.n : Landed(cb.w, n)
BackedTask(x) ==
  /\ x.do = "flush" => \A cb \in x.cbs : Covered(cb)
  /\ x.do = "callback" => \A cb \in x.cbs : Arrived(cb)
Backed(x) == BackedTask(x) /\ (x.do = "post" => BackedTask(x.task))

(* The flush of a writer waits for the chunk that its thread returns first.*)
Awaits(t, x) ==
  /\ todo[t] # <<>> /\ Now(t).do = "return" /\ x.do = "flush"
  /\ \A cb \in x.cbs : cb.w = Now(t).w /\ cb.n = Now(t).n

(* The callbacks with the arbiter, its tasks and threads; those with the   *)
(* messages; those answered.                                               *)
Waiting ==
  /\ \A cb \in arb.callbacks : Covered(cb)
  /\ \A x \in Elems(tasks) : Backed(x)
  /\ \A t \in Threads : \A x \in Elems(todo[t]) : Backed(x) \/ Awaits(t, x)
Carried ==
  \A i \in Sent : \A cb \in Wire[i].cbs : ArrivesBy(service.landed, Wire, cb.w, cb.n, i)
Given == \A i \in DOMAIN answered : \A cb \in answered[i] : Arrived(cb)

(* A reply stands for the requests up to its number, and for the chunks    *)
(* that were returned when each was handled.                               *)
Asked(k) == env.asked[k]
Replies ==
  /\ \A k \in 1 .. Len(env.asked) : \A w \in DOMAIN Asked(k) :
       w \in DOMAIN writers /\ Asked(k)[w] \in 0 .. writers[w].returned
  /\ arb.req.flush \in 0 .. Len(env.asked)
  /\ service.flushed \in 0 .. Len(env.asked)
  /\ \A i \in Sent :
       /\ Wire[i].req.flush \in 0 .. Len(env.asked)
       /\ \A k \in 1 .. Wire[i].req.flush : \A w \in DOMAIN Asked(k) :
            ArrivesBy(service.landed, Wire, w, Asked(k)[w], i)
  /\ \A k \in 1 .. service.flushed : \A w \in DOMAIN Asked(k) :
       \A n \in 1 .. Asked(k)[w] : Landed(w, n)

(* A callback is in one place: with a thread, a task, a message, pending   *)
(* or answered.  Of the places of threads only "todo" is one per thread.   *)
Kinds == {"todo", "tasks", "inbox", "pending", "answered"}
Held(k, t) ==
  IF k = "todo" THEN HeldIn(todo[t])
  ELSE IF t # IPC THEN {}
  ELSE IF k = "tasks" THEN HeldIn(tasks)
  ELSE IF k = "inbox" THEN HeldIn(service.inbox)
  ELSE IF k = "pending" THEN arb.callbacks
  ELSE UNION Elems(answered)
OnePlace ==
  \A k, l \in Kinds : \A t, u \in Threads :
    k # l \/ t # u => Held(k, t) \cap Held(l, u) = {}
Numbered ==
  \A k \in Kinds : \A t \in Threads : \A cb \in Held(k, t) : cb.k \in 1 .. env.flushes
AllApart ==
  /\ Apart(tasks) /\ Apart(service.inbox) /\ \A t \in Threads : Apart(todo[t])
  /\ \A i, j \in DOMAIN answered : i # j => answered[i] \cap answered[j] = {}
Once == OnePlace /\ Numbered /\ AllApart

(* The inductive invariant.                                                *)
AnswerInv == StreamInv /\ Waiting /\ Carried /\ Given /\ Replies /\ Once

(***************************************************************************)
(* Arriving, when messages are sent and handled                            *)
(***************************************************************************)
LEMMA ArrivesAdd ==
  ASSUME NEW landed, NEW wire, NEW w, NEW n, NEW i, ArrivesBy(landed, wire, w, n, i),
         NEW more, NEW x, Adds(more, wire, x)
  PROVE  ArrivesBy(landed, more, w, n, i)
<1>1. SUFFICES ASSUME NEW m \in 1 .. n, ~Has(landed, w, m)
               PROVE  \E j \in SentIn(more) : j <= i /\ Has(more[j].req.move, w, m)
  BY DEF ArrivesBy
<1>2. PICK j \in SentIn(wire) : j <= i /\ Has(wire[j].req.move, w, m)
  BY <1>1 DEF ArrivesBy
<1>3. j \in SentIn(more) /\ more[j] = wire[j]
  BY DEF Adds
<1> QED BY <1>2, <1>3

(* What has been returned arrives with the next commit at the latest.      *)
LEMMA ArrivesSend ==
  ASSUME NEW ws, NEW landed, NEW wire, NEW move, Flow(ws, landed, wire, move),
         NEW w \in DOMAIN ws, ws[w].returned \in Nat, NEW n \in 0 .. ws[w].returned,
         NEW x, x.do = "commit", Alike(move, x.req.move), NEW more, Adds(more, wire, x)
  PROVE  ArrivesBy(landed, more, w, n, Len(wire) + 1)
<1>1. SUFFICES ASSUME NEW m \in 1 .. n, ~Has(landed, w, m)
               PROVE  \E j \in SentIn(more) : j <= Len(wire) + 1 /\ Has(more[j].req.move, w, m)
  BY DEF ArrivesBy
<1>2. m \in 1 .. ws[w].returned
  BY <1>1
<1>3. Somewhere(landed, wire, move, w, m)
  BY <1>2 DEF Flow, Everything
<1>4. CASE Has(move, w, m)
  <2>1. Has(x.req.move, w, m)
    BY <1>4, AlikeLists
  <2>2. Len(wire) + 1 \in SentIn(more) /\ more[Len(wire) + 1] = x /\ Len(wire) \in Nat
    BY DEF Adds
  <2> QED BY <2>1, <2>2
<1>5. CASE \E j \in SentIn(wire) : Has(wire[j].req.move, w, m)
  <2>1. PICK j \in SentIn(wire) : Has(wire[j].req.move, w, m)
    BY <1>5
  <2>2. j \in SentIn(more) /\ more[j] = wire[j] /\ j \in 1 .. Len(wire) /\ Len(wire) \in Nat
    BY DEF Adds
  <2> QED BY <2>1, <2>2
<1> QED BY <1>1, <1>3, <1>4, <1>5 DEF Somewhere

(* The service handles a commit; the one after it becomes the first.       *)
LEMMA ArrivesFirst ==
  ASSUME NEW landed, NEW wire, IsSeq(wire), NEW less, NEW x, Takes(less, wire, x),
         NEW now, \A w, n : Has(landed, w, n) \/ Has(x.req.move, w, n) => Has(now, w, n),
         NEW w, NEW n, ArrivesBy(landed, wire, w, n, 1), NEW m \in 1 .. n
  PROVE  Has(now, w, m)
<1>1. CASE Has(landed, w, m)
  BY <1>1
<1>2. CASE ~Has(landed, w, m)
  <2>1. PICK j \in SentIn(wire) : j <= 1 /\ Has(wire[j].req.move, w, m)
    BY <1>2 DEF ArrivesBy
  <2>2. j \in Nat \ {0}
    BY DEF SentIn, IsSeq
  <2>3. j = 1
    BY <2>1, <2>2
  <2> QED BY <2>1, <2>3 DEF Takes
<1> QED BY <1>1, <1>2

LEMMA ArrivesLand ==
  ASSUME NEW landed, NEW wire, IsSeq(wire), NEW less, NEW x, Takes(less, wire, x),
         NEW now, \A w, n : Has(landed, w, n) \/ Has(x.req.move, w, n) => Has(now, w, n),
         NEW w, NEW n, NEW i \in SentIn(less), ArrivesBy(landed, wire, w, n, i + 1)
  PROVE  ArrivesBy(now, less, w, n, i)
<1>1. SUFFICES ASSUME NEW m \in 1 .. n, ~Has(now, w, m)
               PROVE  \E j \in SentIn(less) : j <= i /\ Has(less[j].req.move, w, m)
  BY DEF ArrivesBy
<1>2. ~Has(landed, w, m) /\ ~Has(x.req.move, w, m)
  BY <1>1
<1>3. PICK j \in SentIn(wire) : j <= i + 1 /\ Has(wire[j].req.move, w, m)
  BY <1>2 DEF ArrivesBy
<1>4. j \in Nat \ {0}
  BY DEF SentIn, IsSeq
<1>5. j # 1 /\ i \in Nat
  BY <1>2, <1>3 DEF Takes
<1>6. j - 1 \in SentIn(less) /\ wire[j] = less[j - 1]
  BY <1>5 DEF Takes
<1> QED BY <1>3, <1>4, <1>5, <1>6

(* ... or another message.                                                 *)
LEMMA ArrivesTail ==
  ASSUME NEW landed, NEW wire, IsSeq(wire), NEW less, NEW x, Takes(less, wire, x),
         x.do # "commit", NEW w, NEW n, NEW i \in SentIn(less),
         ArrivesBy(landed, wire, w, n, i + 1)
  PROVE  ArrivesBy(landed, less, w, n, i)
<1>1. SUFFICES ASSUME NEW m \in 1 .. n, ~Has(landed, w, m)
               PROVE  \E j \in SentIn(less) : j <= i /\ Has(less[j].req.move, w, m)
  BY DEF ArrivesBy
<1>2. PICK j \in SentIn(wire) : j <= i + 1 /\ Has(wire[j].req.move, w, m)
  BY <1>1 DEF ArrivesBy
<1>3. j \in Nat \ {0}
  BY DEF SentIn, IsSeq
<1>4. j # 1 /\ i \in Nat
  BY DEF Takes
<1>5. j - 1 \in SentIn(less) /\ wire[j] = less[j - 1]
  BY <1>4 DEF Takes
<1> QED BY <1>2, <1>3, <1>4, <1>5

(***************************************************************************)
(* Callbacks, when a thread goes on                                        *)
(***************************************************************************)
(* Writers have returned as much as before or more, and so has the service *)
(* got.                                                                    *)
Grows ==
  /\ DOMAIN writers \subseteq DOMAIN writers'
  /\ \A w \in DOMAIN writers : writers'[w].returned >= writers[w].returned
  /\ \A w, n : Landed(w, n) => Landed(w, n)'

LEMMA GrowsBacked ==
  ASSUME WriterShapes, WriterShapes', Grows
  PROVE  /\ \A cb : Covered(cb) => Covered(cb)'
         /\ \A cb : Arrived(cb) => Arrived(cb)'
         /\ \A x : BackedTask(x) => BackedTask(x)'
         /\ \A x : Backed(x) => Backed(x)'
<1>1. ASSUME NEW cb, Covered(cb) PROVE Covered(cb)'
  <2>1. /\ cb.w \in DOMAIN writers' /\ writers'[cb.w].returned >= writers[cb.w].returned
        /\ writers[cb.w].returned \in Nat /\ writers'[cb.w].returned \in Nat
        /\ cb.n \in 0 .. writers[cb.w].returned
    BY <1>1 DEF Covered, WriterShapes, Grows
  <2> QED BY <2>1 DEF Covered
<1>2. ASSUME NEW cb, Arrived(cb) PROVE Arrived(cb)'
  BY <1>2 DEF Arrived, Grows
<1>3. \A x : BackedTask(x) => BackedTask(x)'
  BY <1>1, <1>2 DEF BackedTask
<1> QED BY <1>1, <1>2, <1>3 DEF Backed

(* What waits after a step of t.                                           *)
LEMMA WaitingStep ==
  ASSUME Shapes, WriterShapes, WriterShapes', Grows, Waiting,
         NEW t \in Threads, NEW first, Goes(t, first),
         \A x \in Elems(first) : Backed(x)' \/ Awaits(t, x)',
         todo[t] # <<>> /\ Now(t).do = "return"
           => Now(t).w \in DOMAIN writers' /\ Now(t).n \in 0 .. writers'[Now(t).w].returned,
         \A x \in Elems(tasks') : x \in Elems(tasks) \/ Backed(x)',
         \A cb \in arb'.callbacks : cb \in arb.callbacks \/ Covered(cb)'
  PROVE  Waiting'
<1>1. \A cb \in arb'.callbacks : Covered(cb)'
  BY GrowsBacked DEF Waiting
<1>2. \A x \in Elems(tasks') : Backed(x)'
  BY GrowsBacked DEF Waiting
<1>3. ASSUME NEW u \in Threads, NEW x \in Elems(todo'[u])
      PROVE  Backed(x)' \/ Awaits(u, x)'
  <2>1. CASE u # t
    <3>1. todo'[u] = todo[u]
      BY <2>1, GoesFacts
    <3>2. Backed(x) \/ Awaits(u, x)
      BY <3>1, <1>3 DEF Waiting
    <3>3. Awaits(u, x) => Awaits(u, x)'
      BY <3>1 DEF Awaits, Now
    <3> QED BY <3>2, <3>3, GrowsBacked
  <2>2. CASE u = t
    <3>1. x \in Elems(first) \/ x \in Elems(Rest(t))
      BY <2>2, <1>3, GoesFacts
    <3>2. CASE x \in Elems(Rest(t))
      <4>1. x \in Elems(todo[t])
        BY <3>2, GoesFacts
      <4>2. Backed(x) \/ Awaits(t, x)
        BY <4>1 DEF Waiting
      <4>3. ASSUME Awaits(t, x) PROVE Backed(x)'
        <5>1. /\ x.do = "flush" /\ \A cb \in x.cbs : cb.w = Now(t).w /\ cb.n = Now(t).n
              /\ Now(t).w \in DOMAIN writers' /\ Now(t).n \in 0 .. writers'[Now(t).w].returned
          BY <4>3 DEF Awaits
        <5>2. \A cb \in x.cbs : Covered(cb)'
          BY <5>1 DEF Covered
        <5> QED BY <5>1, <5>2 DEF Backed, BackedTask
      <4> QED BY <4>2, <4>3, GrowsBacked
    <3> QED BY <3>1, <3>2, <2>2
  <2> QED BY <2>1, <2>2
<1> QED BY <1>1, <1>2, <1>3 DEF Waiting

(* A step that sends and handles no message.                               *)
LEMMA StillCarried ==
  ASSUME WriterShapes, WriterShapes', Grows, Carried, Given, Replies, Wire' = Wire,
         service' = service, answered' = answered, env'.asked = env.asked,
         arb'.req.flush \in 0 .. Len(env.asked)
  PROVE  Carried' /\ Given' /\ Replies'
<1>1. Carried'
  BY DEF Carried, Sent
<1>2. Given'
  BY DEF Given, Arrived, Landed
<1>3. \A k \in 1 .. Len(env.asked) : \A w \in DOMAIN Asked(k) :
        w \in DOMAIN writers' /\ Asked(k)[w] \in 0 .. writers'[w].returned
  <2>1. SUFFICES ASSUME NEW k \in 1 .. Len(env.asked), NEW w \in DOMAIN Asked(k)
                 PROVE  w \in DOMAIN writers' /\ Asked(k)[w] \in 0 .. writers'[w].returned
    OBVIOUS
  <2>2. /\ w \in DOMAIN writers /\ Asked(k)[w] \in 0 .. writers[w].returned
        /\ w \in DOMAIN writers' /\ writers'[w].returned >= writers[w].returned
        /\ writers[w].returned \in Nat /\ writers'[w].returned \in Nat
    BY DEF Replies, Grows, WriterShapes
  <2> QED BY <2>2
<1>4. \A k : Asked(k)' = Asked(k)
  BY DEF Asked
<1>5. Replies'
  BY <1>3, <1>4 DEF Replies, Sent, Landed
<1> QED BY <1>1, <1>2, <1>5

(***************************************************************************)
(* A callback is in one place                                              *)
(***************************************************************************)
LEMMA HeldFacts ==
  /\ \A t : Held("todo", t) = HeldIn(todo[t])
  /\ \A k, t : k # "todo" /\ t # IPC => Held(k, t) = {}
  /\ Held("tasks", IPC) = HeldIn(tasks) /\ Held("inbox", IPC) = HeldIn(service.inbox)
  /\ Held("pending", IPC) = arb.callbacks /\ Held("answered", IPC) = UNION Elems(answered)
BY DEF Held

LEMMA HeldFactsNext ==
  /\ \A t : Held("todo", t)' = HeldIn(todo'[t])
  /\ \A k, t : k # "todo" /\ t # IPC => Held(k, t)' = {}
  /\ Held("tasks", IPC)' = HeldIn(tasks') /\ Held("inbox", IPC)' = HeldIn(service'.inbox)
  /\ Held("pending", IPC)' = arb'.callbacks /\ Held("answered", IPC)' = UNION Elems(answered')
BY DEF Held, HeldIn, CbsOf, Elems

(* Callbacks move between two places, and new ones come there.             *)
Elsewhere(k1, t1, k2, t2) ==
  \A k \in Kinds : \A t \in Threads : (k # k1 \/ t # t1) /\ (k # k2 \/ t # t2)
    => Held(k, t)' \subseteq Held(k, t)
LEMMA Transfer ==
  ASSUME OnePlace, Numbered, env.flushes \in Nat, env'.flushes \in Nat,
         env'.flushes >= env.flushes, NEW new,
         \A cb \in new : cb.k = env.flushes + 1 /\ env'.flushes = env.flushes + 1,
         NEW k1 \in Kinds, NEW t1 \in Threads, NEW k2 \in Kinds, NEW t2 \in Threads,
         k1 # k2 \/ t1 # t2, Elsewhere(k1, t1, k2, t2),
         Held(k1, t1)' \cup Held(k2, t2)' \subseteq Held(k1, t1) \cup Held(k2, t2) \cup new,
         Held(k1, t1)' \cap Held(k2, t2)' = {}
  PROVE  OnePlace' /\ Numbered'
<1>1. ASSUME NEW k \in Kinds, NEW t \in Threads
      PROVE  /\ \A cb \in Held(k, t) : cb.k \in 1 .. env'.flushes
             /\ Held(k, t) \cap new = {}
  BY DEF Numbered
<1>2. \A cb \in new : cb.k \in 1 .. env'.flushes
  OBVIOUS
<1>3. Numbered'
  <2>1. SUFFICES ASSUME NEW k \in Kinds, NEW t \in Threads, NEW cb \in Held(k, t)'
                 PROVE  cb.k \in 1 .. env'.flushes
    BY DEF Numbered
  <2>2. CASE (k # k1 \/ t # t1) /\ (k # k2 \/ t # t2)
    BY <2>2, <1>1 DEF Elsewhere
  <2>3. CASE ~((k # k1 \/ t # t1) /\ (k # k2 \/ t # t2))
    <3>1. cb \in Held(k1, t1) \/ cb \in Held(k2, t2) \/ cb \in new
      BY <2>3
    <3> QED BY <3>1, <1>1, <1>2
  <2> QED BY <2>2, <2>3
<1>4. ASSUME NEW k \in Kinds, NEW t \in Threads, (k # k1 \/ t # t1) /\ (k # k2 \/ t # t2)
      PROVE  Held(k, t)' \cap (Held(k1, t1)' \cup Held(k2, t2)') = {}
  <2>1. /\ Held(k, t)' \subseteq Held(k, t)
        /\ Held(k, t) \cap Held(k1, t1) = {} /\ Held(k, t) \cap Held(k2, t2) = {}
        /\ Held(k, t) \cap new = {}
    BY <1>1, <1>4 DEF OnePlace, Elsewhere
  <2> QED BY <2>1
<1>5. OnePlace'
  <2>1. SUFFICES ASSUME NEW k \in Kinds, NEW l \in Kinds, NEW t \in Threads, NEW u \in Threads,
                        k # l \/ t # u
                 PROVE  Held(k, t)' \cap Held(l, u)' = {}
    BY DEF OnePlace
  <2>2. CASE (k # k1 \/ t # t1) /\ (k # k2 \/ t # t2) /\ (l # k1 \/ u # t1) /\ (l # k2 \/ u # t2)
    <3>1. Held(k, t)' \subseteq Held(k, t) /\ Held(l, u)' \subseteq Held(l, u)
      BY <2>2 DEF Elsewhere
    <3>2. Held(k, t) \cap Held(l, u) = {}
      BY <2>1 DEF OnePlace
    <3> QED BY <3>1, <3>2
  <2>3. CASE (k # k1 \/ t # t1) /\ (k # k2 \/ t # t2) /\ ~((l # k1 \/ u # t1) /\ (l # k2 \/ u # t2))
    BY <2>3, <1>4
  <2>4. CASE ~((k # k1 \/ t # t1) /\ (k # k2 \/ t # t2)) /\ (l # k1 \/ u # t1) /\ (l # k2 \/ u # t2)
    BY <2>4, <1>4
  <2>5. CASE ~((k # k1 \/ t # t1) /\ (k # k2 \/ t # t2)) /\ ~((l # k1 \/ u # t1) /\ (l # k2 \/ u # t2))
    BY <2>5, <2>1
  <2> QED BY <2>2, <2>3, <2>4, <2>5
<1> QED BY <1>3, <1>5

(* ... between a thread and another place k.                               *)
LEMMA ThreadTransfer ==
  ASSUME Shapes, OnePlace, Numbered, env.flushes \in Nat, env'.flushes \in Nat,
         env'.flushes >= env.flushes, NEW new,
         \A cb \in new : cb.k = env.flushes + 1 /\ env'.flushes = env.flushes + 1,
         NEW t \in Threads, NEW first, Goes(t, first),
         NEW k \in Kinds \ {"todo"},
         \A l \in Kinds \ {"todo", k} : Held(l, IPC)' \subseteq Held(l, IPC),
         HeldIn(todo'[t]) \cup Held(k, IPC)' \subseteq HeldIn(todo[t]) \cup Held(k, IPC) \cup new,
         HeldIn(todo'[t]) \cap Held(k, IPC)' = {}
  PROVE  OnePlace' /\ Numbered'
<1>1. IPC \in Threads /\ "todo" \in Kinds /\ k \in Kinds
  BY ArbiterConstants DEF Kinds
<1>2. ASSUME NEW l \in Kinds, NEW u \in Threads, (l # "todo" \/ u # t) /\ (l # k \/ u # IPC)
      PROVE  Held(l, u)' \subseteq Held(l, u)
  <2>1. CASE l = "todo"
    <3>1. todo'[u] = todo[u]
      BY <1>2, <2>1, GoesFacts
    <3> QED BY <2>1, <3>1, HeldFacts, HeldFactsNext
  <2>2. CASE l # "todo" /\ u # IPC
    BY <2>2, HeldFactsNext
  <2>3. CASE l # "todo" /\ u = IPC
    BY <1>2, <2>3
  <2> QED BY <2>1, <2>2, <2>3
<1>3. Held("todo", t) = HeldIn(todo[t]) /\ Held("todo", t)' = HeldIn(todo'[t])
  BY HeldFacts, HeldFactsNext
<1>4. Elsewhere("todo", t, k, IPC)
  BY <1>2 DEF Elsewhere
<1>5. "todo" # k \/ t # IPC
  OBVIOUS
<1>6. /\ Held("todo", t)' \cup Held(k, IPC)' \subseteq Held("todo", t) \cup Held(k, IPC) \cup new
      /\ Held("todo", t)' \cap Held(k, IPC)' = {}
  BY <1>3
<1> QED BY <1>1, <1>4, <1>5, <1>6, Transfer

(* What a thread holds when it goes on.                                    *)
LEMMA HeldGoes ==
  ASSUME Shapes, NEW t \in Threads, NEW first, Goes(t, first), Apart(todo[t])
  PROVE  /\ HeldIn(todo'[t]) = HeldIn(first) \cup HeldIn(Rest(t))
         /\ todo[t] = <<>> => HeldIn(Rest(t)) = {} /\ HeldIn(todo[t]) = {}
         /\ todo[t] # <<>> => /\ HeldIn(todo[t]) = CbsOf(Now(t)) \cup HeldIn(Rest(t))
                              /\ CbsOf(Now(t)) \cap HeldIn(Rest(t)) = {}
         /\ HeldIn(Rest(t)) \subseteq HeldIn(todo[t])
         /\ Apart(first) /\ HeldIn(first) \cap HeldIn(Rest(t)) = {} => Apart(todo'[t])
         /\ \A u \in Threads \ {t} : todo'[u] = todo[u]
         /\ Elems(first) = {} => HeldIn(first) = {} /\ Apart(first)
<1>1. /\ IsSeq(first) /\ IsSeq(Rest(t)) /\ todo'[t] = first \o Rest(t)
      /\ \A u \in Threads \ {t} : todo'[u] = todo[u]
  BY GoesFacts
<1>2. /\ todo[t] = <<>> => HeldIn(Rest(t)) = {} /\ HeldIn(todo[t]) = {} /\ Apart(Rest(t))
  BY GoesFacts, HeldShort
<1>3. IsSeq(todo[t])
  BY DEF Shapes
<1>4. ASSUME todo[t] # <<>>
      PROVE  /\ HeldIn(todo[t]) = CbsOf(Now(t)) \cup HeldIn(Rest(t))
             /\ CbsOf(Now(t)) \cap HeldIn(Rest(t)) = {} /\ Apart(Rest(t))
  <2>1. Rest(t) = Tail(todo[t]) /\ Now(t) = Head(todo[t])
    BY <1>4 DEF Rest, Now
  <2> QED BY <1>3, <1>4, <2>1, HeldTail
<1>5. Elems(first) = {} => HeldIn(first) = {} /\ Apart(first)
  BY DEF HeldIn, Apart, Elems
<1> QED BY <1>1, <1>2, <1>4, <1>5, HeldConcat

(* A thread goes on with at most the callbacks of the step it has done.    *)
LEMMA OnceThread ==
  ASSUME Shapes, WriterShapes, Once, NEW t \in Threads, NEW first, Goes(t, first),
         Apart(first),
         HeldIn(first) = {} \/ (todo[t] # <<>> /\ HeldIn(first) \subseteq CbsOf(Now(t))),
         tasks' = tasks, service'.inbox = service.inbox, answered' = answered,
         arb'.callbacks = arb.callbacks, env'.flushes = env.flushes
  PROVE  Once'
<1>0. PICK none : none = {}
  OBVIOUS
<1>1. OnePlace /\ Numbered /\ AllApart /\ Apart(todo[t]) /\ env.flushes \in Nat
  BY DEF Once, AllApart, WriterShapes
<1>2. /\ HeldIn(todo'[t]) \subseteq HeldIn(todo[t])
      /\ HeldIn(first) \cap HeldIn(Rest(t)) = {}
  BY <1>1, HeldGoes
<1>3. Apart(todo'[t]) /\ \A u \in Threads \ {t} : todo'[u] = todo[u]
  BY <1>1, <1>2, HeldGoes
<1>4. AllApart'
  BY <1>1, <1>3 DEF AllApart, Apart
<1>5. \A l \in Kinds : Held(l, IPC)' \subseteq Held(l, IPC) \/ l = "todo"
  BY HeldFacts, HeldFactsNext DEF Kinds
<1>6. /\ Held("pending", IPC)' = Held("pending", IPC)
      /\ HeldIn(todo[t]) \cap Held("pending", IPC) = {}
  <2>1. "pending" \in Kinds /\ "todo" \in Kinds /\ IPC \in Threads
    BY ArbiterConstants DEF Kinds
  <2>2. Held("todo", t) \cap Held("pending", IPC) = {}
    BY <1>1, <2>1 DEF OnePlace
  <2> QED BY <2>2, HeldFacts, HeldFactsNext
<1>7. "pending" \in Kinds \ {"todo"}
  BY DEF Kinds
<1>8. /\ HeldIn(todo'[t]) \cup Held("pending", IPC)'
            \subseteq HeldIn(todo[t]) \cup Held("pending", IPC) \cup none
      /\ HeldIn(todo'[t]) \cap Held("pending", IPC)' = {}
      /\ \A cb \in none : cb.k = env.flushes + 1 /\ env'.flushes = env.flushes + 1
  BY <1>0, <1>2, <1>6
<1>9. /\ \A l \in Kinds \ {"todo", "pending"} : Held(l, IPC)' \subseteq Held(l, IPC)
      /\ env'.flushes \in Nat /\ env'.flushes >= env.flushes
  BY <1>1, <1>5
<1>10. OnePlace' /\ Numbered'
  BY <1>1, <1>7, <1>8, <1>9, ThreadTransfer
<1> QED BY <1>4, <1>10 DEF Once

(***************************************************************************)
(* The steps                                                               *)
(***************************************************************************)
Answers == Waiting /\ Carried /\ Given /\ Replies /\ Once

LEMMA AnswerFacts ==
  ASSUME AnswerInv, StreamInv'
  PROVE  /\ ThreadInv /\ Stream /\ TargetsKept /\ Binding
         /\ Shapes /\ WriterShapes /\ Division /\ Returns /\ WriterShapes' /\ Shapes'
         /\ Waiting /\ Carried /\ Given /\ Replies /\ Once /\ env.flushes \in Nat
BY DEF AnswerInv, StreamInv, ThreadInv, WakeInv, Order, WriterShapes

LEMMA KeptGrows ==
  ASSUME WriterShapes, WritersKept, service'.landed = service.landed
  PROVE  Grows
BY DEF WriterShapes, WritersKept, Grows, Landed

LEMMA EditedKept ==
  ASSUME Edited
  PROVE  WritersKept
BY DEF Edited, WritersKept

(* Steps that hold no callback.                                            *)
LEMMA IdleSteps ==
  ASSUME NEW x, x.do \notin {"commit", "callback"}, CbsOf(x) = {},
         x.do = "post" => x.task.do \in PostKinds
  PROVE  Backed(x)'
<1>1. x.do = "flush" => x.cbs = {}
  BY DEF CbsOf
<1>2. x.do = "post" => x.task.do # "flush" \/ x.task.cbs = {}
  BY DEF CbsOf
<1> QED BY <1>1, <1>2 DEF Backed, BackedTask, PostKinds

LEMMA NeutralAnswers ==
  ASSUME AnswerInv, StreamInv', NeutralStep
  PROVE  Answers'
<1>1. PICK t \in Threads : \E first : Neutral(t, first)
  BY DEF NeutralStep
<1>2. PICK first : Neutral(t, first)
  BY <1>1
<1>3. /\ Goes(t, first) /\ (todo[t] # <<>> => Now(t).do \notin {"commit", "return"})
      /\ \A x \in Elems(first) : x.do \notin {"commit", "callback"} /\ CbsOf(x) = {}
      /\ WritersKept /\ arb'.req = arb.req /\ arb'.callbacks = arb.callbacks
      /\ tasks' = tasks /\ service' = service /\ answered' = answered
      /\ env'.flushes = env.flushes /\ env'.asked = env.asked
  BY <1>2 DEF Neutral
<1>4. Grows
  BY <1>3, AnswerFacts, KeptGrows
<1>5. Wire' = Wire
  BY <1>3, AnswerFacts, WireKept
<1>6. arb'.req.flush \in 0 .. Len(env.asked)
  BY <1>3, AnswerFacts DEF Replies
<1>7. Carried' /\ Given' /\ Replies'
  BY <1>3, <1>4, <1>5, <1>6, AnswerFacts, StillCarried
<1>8. \A x \in Elems(first) : Backed(x)'
  <2>1. SUFFICES ASSUME NEW x \in Elems(first) PROVE Backed(x)'
    OBVIOUS
  <2>2. x \in Elems(todo'[t])
    BY <1>3, AnswerFacts, GoesFacts
  <2>3. x.do = "post" => x.task.do \in PostKinds
    BY <2>2 DEF StreamInv, ThreadInv, Order, Division, Elems
  <2> QED BY <1>3, <2>3, IdleSteps
<1>9. Waiting'
  BY <1>3, <1>4, <1>8, AnswerFacts, WaitingStep
<1>10. Apart(first) /\ HeldIn(first) = {}
  BY <1>3 DEF Apart, HeldIn, Elems
<1>11. Once'
  BY <1>3, <1>10, AnswerFacts, OnceThread
<1> QED BY <1>7, <1>9, <1>11 DEF Answers

(* A thread goes on and callbacks move between its step and the place k.   *)
NowHeld(t) == IF todo[t] = <<>> THEN {} ELSE CbsOf(Now(t))
AnsweredApart == \A i, j \in DOMAIN answered : i # j => answered[i] \cap answered[j] = {}

LEMMA OnceMove ==
  ASSUME Shapes, WriterShapes, Once, NEW t \in Threads, NEW first, Goes(t, first),
         Apart(first), env'.flushes \in Nat, env'.flushes >= env.flushes, NEW new,
         \A cb \in new : cb.k = env.flushes + 1 /\ env'.flushes = env.flushes + 1,
         NEW k \in Kinds \ {"todo"},
         \A l \in Kinds \ {"todo", k} : Held(l, IPC)' \subseteq Held(l, IPC),
         HeldIn(first) \cup Held(k, IPC)' \subseteq NowHeld(t) \cup Held(k, IPC) \cup new,
         HeldIn(first) \cap Held(k, IPC)' = {},
         Apart(tasks'), Apart(service'.inbox), AnsweredApart'
  PROVE  Once'
<1>1. OnePlace /\ Numbered /\ AllApart /\ Apart(todo[t]) /\ env.flushes \in Nat
  BY DEF Once, AllApart, WriterShapes
<1>2. /\ HeldIn(todo[t]) = NowHeld(t) \cup HeldIn(Rest(t))
      /\ NowHeld(t) \cap HeldIn(Rest(t)) = {}
      /\ HeldIn(todo'[t]) = HeldIn(first) \cup HeldIn(Rest(t))
  BY <1>1, HeldGoes DEF NowHeld
<1>3. k \in Kinds /\ "todo" \in Kinds /\ IPC \in Threads
  BY ArbiterConstants DEF Kinds
<1>4. HeldIn(todo[t]) \cap Held(k, IPC) = {}
  <2>1. Held("todo", t) \cap Held(k, IPC) = {}
    BY <1>1, <1>3 DEF OnePlace
  <2> QED BY <2>1, HeldFacts
<1>5. HeldIn(todo[t]) \cap new = {}
  <2>1. \A cb \in HeldIn(todo[t]) : cb.k \in 1 .. env.flushes
    BY <1>1, <1>3, HeldFacts DEF Numbered
  <2> QED BY <1>1, <2>1
<1>6. /\ HeldIn(first) \cap HeldIn(Rest(t)) = {}
      /\ HeldIn(todo'[t]) \cup Held(k, IPC)' \subseteq HeldIn(todo[t]) \cup Held(k, IPC) \cup new
      /\ HeldIn(todo'[t]) \cap Held(k, IPC)' = {}
  BY <1>2, <1>4, <1>5
<1>7. Apart(todo'[t]) /\ \A u \in Threads \ {t} : todo'[u] = todo[u]
  BY <1>1, <1>6, HeldGoes
<1>8. \A u \in Threads : Apart(todo'[u])
  <2>1. SUFFICES ASSUME NEW u \in Threads PROVE Apart(todo'[u])
    OBVIOUS
  <2>2. CASE u # t
    <3>1. todo'[u] = todo[u] /\ Apart(todo[u])
      BY <2>2, <1>1, <1>7 DEF AllApart
    <3> QED BY <3>1
  <2> QED BY <1>7, <2>2
<1>9. Apart(tasks)' /\ Apart(service.inbox)' /\ \A u \in Threads : Apart(todo[u])'
  BY <1>8 DEF Apart, CbsOf
<1>10. AllApart'
  BY <1>9 DEF AllApart, AnsweredApart
<1>11. OnePlace' /\ Numbered'
  BY <1>1, <1>6, ThreadTransfer
<1> QED BY <1>10, <1>11 DEF Once

LEMMA OnceSame ==
  ASSUME Once
  PROVE  /\ tasks' = tasks => Apart(tasks') /\ Held("tasks", IPC)' = Held("tasks", IPC)
         /\ service'.inbox = service.inbox
              => Apart(service'.inbox) /\ Held("inbox", IPC)' = Held("inbox", IPC)
         /\ answered' = answered
              => AnsweredApart' /\ Held("answered", IPC)' = Held("answered", IPC)
         /\ arb'.callbacks = arb.callbacks => Held("pending", IPC)' = Held("pending", IPC)
<1>1. Apart(tasks) /\ Apart(service.inbox) /\ AnsweredApart
  BY DEF Once, AllApart, AnsweredApart
<1>2. answered' = answered => AnsweredApart'
  BY <1>1 DEF AnsweredApart
<1> QED BY <1>1, <1>2, HeldFacts, HeldFactsNext

LEMMA BindAnswers ==
  ASSUME AnswerInv, StreamInv', BindStep
  PROVE  Answers'
<1>1. PICK t \in Threads : \E first : Binds(t, first)
  BY DEF BindStep
<1>2. PICK first : Binds(t, first)
  BY <1>1
<1>3. /\ Goes(t, first) /\ (todo[t] # <<>> => Now(t).do = "abort")
      /\ \A x \in Elems(first) : x.do \in {"register", "flush"}
      /\ Apart(first) /\ HeldIn(first) \cap arb'.callbacks = {}
      /\ HeldIn(first) \cup arb'.callbacks \subseteq arb.callbacks
      /\ arb'.req = arb.req /\ writers' = writers
      /\ tasks' = tasks /\ service' = service /\ answered' = answered
      /\ env'.flushes = env.flushes /\ env'.asked = env.asked
  BY <1>2 DEF Binds
<1>4. Grows
  BY <1>3, AnswerFacts DEF Grows, Landed, WriterShapes
<1>5. Wire' = Wire
  BY <1>3, AnswerFacts, WireKept
<1>6. arb'.req.flush \in 0 .. Len(env.asked)
  BY <1>3, AnswerFacts DEF Replies
<1>7. Carried' /\ Given' /\ Replies'
  BY <1>3, <1>4, <1>5, <1>6, AnswerFacts, StillCarried
<1>8. \A x \in Elems(first) : Backed(x)'
  <2>1. SUFFICES ASSUME NEW x \in Elems(first) PROVE Backed(x)'
    OBVIOUS
  <2>2. CbsOf(x) \subseteq HeldIn(first)
    BY HeldByElems
  <2>3. x.do = "flush" => x.cbs \subseteq arb.callbacks
    BY <1>3, <2>2 DEF CbsOf
  <2>4. \A cb \in arb.callbacks : Covered(cb)'
    BY <1>4, AnswerFacts, GrowsBacked DEF Waiting
  <2> QED BY <1>3, <2>3, <2>4 DEF Backed, BackedTask
<1>9. Waiting'
  BY <1>3, <1>4, <1>8, AnswerFacts, WaitingStep
<1>10. PICK none : none = {}
  OBVIOUS
<1>11. NowHeld(t) = {}
  BY <1>3 DEF NowHeld, CbsOf
<1>12. /\ Apart(tasks') /\ Apart(service'.inbox) /\ AnsweredApart'
       /\ \A l \in Kinds \ {"todo", "pending"} : Held(l, IPC)' \subseteq Held(l, IPC)
  BY <1>3, AnswerFacts, OnceSame DEF Kinds
<1>13. /\ HeldIn(first) \cup Held("pending", IPC)'
             \subseteq NowHeld(t) \cup Held("pending", IPC) \cup none
       /\ HeldIn(first) \cap Held("pending", IPC)' = {}
       /\ "pending" \in Kinds \ {"todo"}
       /\ \A cb \in none : cb.k = env.flushes + 1 /\ env'.flushes = env.flushes + 1
       /\ env'.flushes \in Nat /\ env'.flushes >= env.flushes
  BY <1>3, <1>10, AnswerFacts, HeldFacts, HeldFactsNext DEF Kinds
<1>14. Shapes /\ WriterShapes /\ Once /\ Goes(t, first) /\ Apart(first)
  BY <1>3, AnswerFacts
<1>15. Once'
  BY <1>12, <1>13, <1>14, OnceMove
<1> QED BY <1>7, <1>9, <1>15 DEF Answers

(* The request after an update, in full.                                   *)
Grown(req, chunk) ==
  /\ DOMAIN req = {"open", "move", "patch", "flush"} /\ req.open = TRUE
  /\ req.move = arb.req.move \o chunk
  /\ req.patch = arb.req.patch /\ req.flush = arb.req.flush
Updated(req, w, list) ==
  /\ DOMAIN arb'.req = {"open", "move", "patch", "flush"} /\ arb'.req.open = TRUE
  /\ arb'.req.move = IF arb.direct THEN DirectlyPatched(req, w, list) ELSE req.move
  /\ arb'.req.patch = req.patch \o SentPatches(req, w, list)
  /\ arb'.req.flush = req.flush

LEMMA UpdateRequest ==
  ASSUME Shapes, ~arb.req.open => arb.req = NoRequest, NEW t, NEW w, NEW chunk, NEW rest,
         UpdateCommitDataRequest(t, w, chunk, rest)
  PROVE  \E req : Grown(req, chunk) /\ Updated(req, w, writers[w].patches)
<1>1. PICK old : old = IF arb.req.open THEN arb.req ELSE EmptyRequest
  OBVIOUS
<1>2. /\ old.move = arb.req.move /\ old.open = TRUE
      /\ old.patch = arb.req.patch /\ old.flush = arb.req.flush
      /\ DOMAIN old = {"open", "move", "patch", "flush"}
  <2>1. CASE arb.req.open
    <3>1. old = arb.req
      BY <1>1, <2>1
    <3> QED BY <2>1, <3>1 DEF Shapes
  <2>2. CASE ~arb.req.open
    <3>1. old = EmptyRequest /\ arb.req = NoRequest
      BY <1>1, <2>2
    <3> QED BY <3>1 DEF NoRequest, EmptyRequest
  <2> QED BY <2>1, <2>2
<1>3. PICK req : req = [old EXCEPT !.move = @ \o chunk]
  OBVIOUS
<1>4. Grown(req, chunk)
  BY <1>2, <1>3 DEF Grown
<1>5. PICK now, patch, batch :
        /\ now = (IF arb.direct THEN DirectlyPatched(req, w, writers[w].patches) ELSE req.move)
        /\ patch = (req.patch \o SentPatches(req, w, writers[w].patches))
        /\ batch = (~arb.req.open /\ arb.fully_bound /\ ~arb.scheduled)
  OBVIOUS
<1>5a. arb' = [arb EXCEPT !.req = [req EXCEPT !.move = now, !.patch = patch],
                         !.scheduled = @ \/ batch]
  BY <1>1, <1>3, <1>5, ZenonT(60) DEF UpdateCommitDataRequest
<1>6. arb'.req = [req EXCEPT !.move = now, !.patch = patch]
  BY <1>5a DEF Shapes
<1>7. /\ arb'.req.move = now /\ arb'.req.patch = patch /\ arb'.req.open = TRUE
      /\ arb'.req.flush = req.flush /\ DOMAIN arb'.req = {"open", "move", "patch", "flush"}
  BY <1>4, <1>6 DEF Grown
<1>8. Updated(req, w, writers[w].patches)
  BY <1>5, <1>7, Zenon DEF Updated
<1> QED BY <1>4, <1>8

LEMMA UpdateAnswers ==
  ASSUME AnswerInv, StreamInv', NEW t \in Threads, NEW w \in DOMAIN writers,
         NEW count \in Nat, Updates(t, w, count), NEW chunk, NEW rest,
         UpdateCommitDataRequest(t, w, chunk, rest),
         todo[t] # <<>> => /\ Now(t).do = "return" /\ Now(t).w = w
                           /\ Now(t).n \in 0 .. writers[w].returned + count
  PROVE  Answers'
<1>1. PICK first : Goes(t, first) /\ \A x \in Elems(first) : x = Delay
  BY DEF Updates
<1>2. /\ Wire' = Wire /\ service' = service /\ DOMAIN writers' = DOMAIN writers
      /\ \A v \in DOMAIN writers : v # w => writers'[v].returned = writers[v].returned
      /\ writers'[w].returned = writers[w].returned + count
  BY AnswerFacts, UpdateWire
<1>3. tasks' = tasks /\ answered' = answered /\ env' = env /\ arb'.callbacks = arb.callbacks
  BY DEF Updates
<1>4. Grows
  <2>1. \A v \in DOMAIN writers : writers[v].returned \in Nat
    BY AnswerFacts DEF WriterShapes
  <2>2. \A v \in DOMAIN writers : writers'[v].returned >= writers[v].returned
    BY <1>2, <2>1
  <2> QED BY <1>2, <2>2 DEF Grows, Landed
<1>5. arb'.req.flush = arb.req.flush
  <2>1. ~arb.req.open => arb.req = NoRequest
    BY AnswerFacts DEF Stream
  <2>2. PICK req : Grown(req, chunk) /\ Updated(req, w, writers[w].patches)
    BY <2>1, AnswerFacts, UpdateRequest
  <2> QED BY <2>2 DEF Grown, Updated
<1>6. Carried' /\ Given' /\ Replies'
  <2>1. arb'.req.flush \in 0 .. Len(env.asked)
    BY <1>5, AnswerFacts DEF Replies
  <2> QED BY <1>2, <1>3, <1>4, <2>1, AnswerFacts, StillCarried
<1>7. \A x \in Elems(first) : Backed(x)' /\ CbsOf(x) = {}
  BY <1>1 DEF Delay, Backed, BackedTask, CbsOf
<1>8. Waiting'
  <2>1. todo[t] # <<>> => Now(t).w \in DOMAIN writers' /\ Now(t).n \in 0 .. writers'[Now(t).w].returned
    BY <1>2
  <2> QED BY <1>1, <1>3, <1>4, <1>7, <2>1, AnswerFacts, WaitingStep
<1>9. Apart(first) /\ HeldIn(first) = {}
  BY <1>7 DEF Apart, HeldIn, Elems
<1>10. Once'
  BY <1>1, <1>2, <1>3, <1>9, AnswerFacts, OnceThread
<1> QED BY <1>6, <1>8, <1>10 DEF Answers

LEMMA ReturnAnswers ==
  ASSUME AnswerInv, StreamInv', NEW t \in Threads, ReturnCompletedChunk(t)
  PROVE  Answers'
<1>1. PICK w : w = Now(t).w
  OBVIOUS
<1>2. /\ Updates(t, w, 1) /\ todo[t] # <<>> /\ Now(t).do = "return"
      /\ w \in DOMAIN writers /\ Now(t).n = writers[w].returned + 1
  BY <1>1, AnswerFacts, ReturnCompletedChunkSteps
<1>3. writers[w].returned \in Nat
  BY <1>2, AnswerFacts DEF WriterShapes
<1>4. PICK chunk, rest : UpdateCommitDataRequest(t, w, chunk, rest)
  BY <1>1, Zenon DEF ReturnCompletedChunk
<1>5. Now(t).n \in 0 .. writers[w].returned + 1
  BY <1>2, <1>3
<1> QED BY <1>1, <1>2, <1>4, <1>5, UpdateAnswers

LEMMA SendPatchesAnswers ==
  ASSUME AnswerInv, StreamInv', NEW t \in Threads, SendPatches(t)
  PROVE  Answers'
<1>1. todo[t] = <<>>
  BY AnswerFacts, SendPatchesSteps
<1>2. PICK w \in DOMAIN writers : /\ Updates(t, w, 0)
                                  /\ UpdateCommitDataRequest(t, w, <<>>, <<>>)
  BY AnswerFacts, SendPatchesSteps
<1>3. PICK chunk, rest : UpdateCommitDataRequest(t, w, chunk, rest)
  BY <1>2
<1> QED BY <1>1, <1>2, <1>3, UpdateAnswers

(* Steps that leave the writers and what has landed alone.                 *)
LEMMA SameGrows ==
  ASSUME WriterShapes, writers' = writers, service'.landed = service.landed
  PROVE  Grows
BY DEF WriterShapes, Grows, Landed

(* The request becomes a commit, which carries what was returned.          *)
LEMMA SendCarries ==
  ASSUME AnswerInv, StreamInv', writers' = writers, service' = service, answered' = answered,
         env' = env, NEW x, x.do = "commit", Alike(arb.req.move, x.req.move),
         NEW more, more = Wire', Adds(more, Wire, x),
         x.req.flush = arb.req.flush, arb'.req.flush = 0,
         \A cb \in x.cbs : Covered(cb)
  PROVE  Carried' /\ Given' /\ Replies'
<1>1. /\ Flow(writers, service.landed, Wire, arb.req.move) /\ WriterShapes
      /\ Carried /\ Given /\ Replies
  BY AnswerFacts DEF Stream
<1>2. ASSUME NEW w \in DOMAIN writers, NEW n \in 0 .. writers[w].returned
      PROVE  ArrivesBy(service.landed, more, w, n, Len(Wire) + 1)
  <2>1. writers[w].returned \in Nat
    BY <1>1 DEF WriterShapes
  <2> QED BY <1>1, <1>2, <2>1, ArrivesSend
<1>3. ASSUME NEW i \in SentIn(more)
      PROVE  \/ i \in Sent /\ more[i] = Wire[i]
             \/ i = Len(Wire) + 1 /\ more[i] = x
  BY <1>3 DEF Adds, Sent
<1>4. ASSUME NEW i \in SentIn(more), NEW cb \in more[i].cbs
      PROVE  ArrivesBy(service.landed, more, cb.w, cb.n, i)
  <2>1. CASE i \in Sent /\ more[i] = Wire[i]
    <3>1. ArrivesBy(service.landed, Wire, cb.w, cb.n, i)
      BY <1>1, <1>4, <2>1 DEF Carried
    <3> QED BY <3>1, ArrivesAdd
  <2>2. CASE i = Len(Wire) + 1 /\ more[i] = x
    <3>1. cb.w \in DOMAIN writers /\ cb.n \in 0 .. writers[cb.w].returned
      BY <1>4, <2>2 DEF Covered
    <3> QED BY <1>2, <2>2, <3>1
  <2> QED BY <1>3, <2>1, <2>2
<1>5. Carried'
  BY <1>4 DEF Carried, Sent
<1>6. Given'
  BY <1>1 DEF Given, Arrived, Landed
<1>7. ASSUME NEW i \in SentIn(more)
      PROVE  /\ more[i].req.flush \in 0 .. Len(env.asked)
             /\ \A k \in 1 .. more[i].req.flush : \A w \in DOMAIN Asked(k) :
                  ArrivesBy(service.landed, more, w, Asked(k)[w], i)
  <2>1. CASE i \in Sent /\ more[i] = Wire[i]
    <3>1. /\ more[i].req.flush \in 0 .. Len(env.asked)
          /\ \A k \in 1 .. more[i].req.flush : \A w \in DOMAIN Asked(k) :
               ArrivesBy(service.landed, Wire, w, Asked(k)[w], i)
      BY <1>1, <2>1 DEF Replies
    <3> QED BY <3>1, ArrivesAdd
  <2>2. CASE i = Len(Wire) + 1 /\ more[i] = x
    <3>1. more[i].req.flush \in 0 .. Len(env.asked) /\ Len(env.asked) \in Nat
      BY <1>1, <2>2, AppendSeq DEF Replies, WriterShapes
    <3>2. ASSUME NEW k \in 1 .. more[i].req.flush, NEW w \in DOMAIN Asked(k)
          PROVE  ArrivesBy(service.landed, more, w, Asked(k)[w], i)
      <4>1. k \in 1 .. Len(env.asked)
        BY <3>1, <3>2
      <4>2. w \in DOMAIN writers /\ Asked(k)[w] \in 0 .. writers[w].returned
        BY <1>1, <3>2, <4>1 DEF Replies
      <4> QED BY <1>2, <2>2, <4>2
    <3> QED BY <3>1, <3>2
  <2> QED BY <1>3, <1>7, <2>1, <2>2
<1>8. \A k : Asked(k)' = Asked(k)
  BY DEF Asked
<1>9. Len(env.asked) \in Nat
  BY <1>1, AppendSeq DEF WriterShapes
<1>10. Replies'
  BY <1>1, <1>7, <1>8, <1>9 DEF Replies, Sent, Landed
<1> QED BY <1>5, <1>6, <1>10

LEMMA ToSendFlush ==
  ASSUME Shapes
  PROVE  ToSend.flush = arb.req.flush
<1>1. PICK mid, pat :
        ReplaceCommitPlaceholderBufferIds(arb.req) = [arb.req EXCEPT !.move = mid, !.patch = pat]
  BY DEF ReplaceCommitPlaceholderBufferIds
<1>2. PICK req : req = ReplaceCommitPlaceholderBufferIds(arb.req)
  OBVIOUS
<1>3. req.flush = arb.req.flush /\ DOMAIN req = DOMAIN arb.req
  BY <1>1, <1>2 DEF Shapes
<1>4. PICK now : ToSend = [req EXCEPT !.move = now]
  BY <1>2, Zenon DEF ToSend, ReleaseAllAsComplete
<1>5. ToSend.flush = req.flush
  BY <1>3, <1>4 DEF Shapes
<1> QED BY <1>3, <1>5

LEMMA FlushPendingAnswers ==
  ASSUME AnswerInv, StreamInv', NEW t \in Threads, FlushPendingCommitDataRequests(t)
  PROVE  Answers'
<1>1. PICK cbs : cbs = Now(t).cbs
  OBVIOUS
<1>2. /\ todo[t] # <<>> /\ Now(t).do = "flush" /\ writers' = writers /\ tasks' = tasks
      /\ service' = service /\ answered' = answered /\ env' = env
      /\ \E first : /\ Goes(t, first)
                    /\ \/ Leaves(t, first, cbs) \/ PassesOn(t, first, cbs)
                       \/ Sends(t, first, cbs)
  BY <1>1, AnswerFacts, FlushPendingSteps
<1>3. PICK first : /\ Goes(t, first)
                   /\ \/ Leaves(t, first, cbs) \/ PassesOn(t, first, cbs)
                      \/ Sends(t, first, cbs)
  BY <1>2
<1>4. Grows
  BY <1>2, AnswerFacts, SameGrows
<1>5. \A cb \in cbs : Covered(cb)
  <2>1. Now(t) \in Elems(todo[t])
    BY <1>2, <1>3, AnswerFacts, GoesFacts
  <2>2. Backed(Now(t))
    BY <1>2, <2>1, AnswerFacts DEF Waiting, Awaits
  <2> QED BY <1>1, <1>2, <2>2 DEF Backed, BackedTask
<1>6. \A cb \in cbs : Covered(cb)'
  BY <1>4, <1>5, AnswerFacts, GrowsBacked
<1>7. NowHeld(t) = cbs /\ CbsOf(Now(t)) = cbs
  BY <1>1, <1>2 DEF NowHeld, CbsOf
<1>8. CASE Leaves(t, first, cbs)
  <2>1. arb' = [arb EXCEPT !.callbacks = @ \cup cbs] /\ Elems(first) = {}
    BY <1>8 DEF Leaves
  <2>2. arb'.req = arb.req /\ arb'.callbacks = arb.callbacks \cup cbs
    BY <2>1, AnswerFacts DEF Shapes
  <2>3. Wire' = Wire
    BY <1>2, <1>3, <2>1, AnswerFacts, WireKept
  <2>4. arb'.req.flush \in 0 .. Len(env.asked)
    BY <2>2, AnswerFacts DEF Replies
  <2>5. Carried' /\ Given' /\ Replies'
    BY <1>2, <1>4, <2>3, <2>4, AnswerFacts, StillCarried
  <2>6. Waiting'
    BY <1>2, <1>3, <1>4, <1>6, <2>1, <2>2, AnswerFacts, WaitingStep
  <2>7. PICK none : none = {}
    OBVIOUS
  <2>8. /\ Apart(tasks') /\ Apart(service'.inbox) /\ AnsweredApart'
        /\ \A l \in Kinds \ {"todo", "pending"} : Held(l, IPC)' \subseteq Held(l, IPC)
    BY <1>2, AnswerFacts, OnceSame DEF Kinds
  <2>9. HeldIn(first) = {} /\ Apart(first)
    BY <2>1 DEF HeldIn, Apart, Elems
  <2>10. /\ HeldIn(first) \cup Held("pending", IPC)'
              \subseteq NowHeld(t) \cup Held("pending", IPC) \cup none
         /\ HeldIn(first) \cap Held("pending", IPC)' = {}
         /\ "pending" \in Kinds \ {"todo"}
         /\ \A cb \in none : cb.k = env.flushes + 1 /\ env'.flushes = env.flushes + 1
         /\ env'.flushes \in Nat /\ env'.flushes >= env.flushes
    BY <1>2, <1>7, <2>2, <2>7, <2>9, AnswerFacts, HeldFacts, HeldFactsNext DEF Kinds
  <2>11. Once'
    BY <1>3, <2>8, <2>9, <2>10, AnswerFacts, OnceMove
  <2> QED BY <2>5, <2>6, <2>11 DEF Answers
<1>9. CASE PassesOn(t, first, cbs)
  <2>1. PICK x : x = Post(Flush(cbs)) /\ first = <<x>> /\ arb' = arb
    BY <1>9 DEF PassesOn
  <2>2. x.do = "post" /\ x.task.do = "flush" /\ x.task.cbs = cbs
    BY <2>1, PostKind, FlushKind
  <2>3. Elems(first) = {x} /\ Apart(first) /\ HeldIn(first) = CbsOf(x) /\ CbsOf(x) = cbs
    BY <2>1, <2>2, ShortSeqs, HeldShort DEF CbsOf
  <2>4. Backed(x)'
    BY <1>6, <2>2 DEF Backed, BackedTask
  <2>5. Wire' = Wire
    BY <1>2, <1>3, <2>2, <2>3, AnswerFacts, WireKept
  <2>6. arb'.req.flush \in 0 .. Len(env.asked)
    BY <2>1, AnswerFacts DEF Replies
  <2>7. Carried' /\ Given' /\ Replies'
    BY <1>2, <1>4, <2>5, <2>6, AnswerFacts, StillCarried
  <2>8. Waiting'
    BY <1>2, <1>3, <1>4, <2>1, <2>3, <2>4, AnswerFacts, WaitingStep
  <2>9. Once'
    BY <1>2, <1>3, <1>7, <2>1, <2>3, AnswerFacts, OnceThread
  <2> QED BY <2>7, <2>8, <2>9 DEF Answers
<1>10. CASE Sends(t, first, cbs)
  <2>0. t = IPC /\ arb.fully_bound /\ arb' = [arb EXCEPT !.req = NoRequest]
    BY <1>10 DEF Sends
  <2>1. arb'.req = NoRequest /\ arb'.callbacks = arb.callbacks /\ arb'.req.flush = 0
    BY <2>0, AnswerFacts DEF Shapes, NoRequest
  <2>2. CASE first = <<>> /\ ~arb.req.open
    <3>1. Elems(first) = {} /\ Apart(first) /\ HeldIn(first) = {}
      BY <2>2, ShortSeqs, HeldShort
    <3>2. Wire' = Wire
      BY <1>2, <1>3, <3>1, AnswerFacts, WireKept
    <3>3. 0 \in 0 .. Len(env.asked)
      BY AnswerFacts, AppendSeq DEF WriterShapes
    <3>4. Carried' /\ Given' /\ Replies'
      BY <1>2, <1>4, <2>1, <3>2, <3>3, AnswerFacts, StillCarried
    <3>5. Waiting'
      BY <1>2, <1>3, <1>4, <2>1, <3>1, AnswerFacts, WaitingStep
    <3>6. Once'
      BY <1>2, <1>3, <2>1, <3>1, AnswerFacts, OnceThread
    <3> QED BY <3>4, <3>5, <3>6 DEF Answers
  <2>3. CASE first = <<Commit(ToSend, cbs)>>
    <3>1. PICK x : x = Commit(ToSend, cbs) /\ x.do = "commit" /\ x.req = ToSend /\ x.cbs = cbs
      BY CommitKind
    <3>2. first # <<>> /\ Head(first) = x
      BY <2>3, <3>1
    <3>3. todo'[IPC] # <<>> /\ Head(todo'[IPC]) = x
      BY <1>3, <2>0, <3>2, AnswerFacts, GoesHead
    <3>4. Wire' = Append(service.inbox, x) /\ Wire = service.inbox
      BY <1>2, <2>0, <3>1, <3>3 DEF Wire, Now
    <3>5. PICK more : more = Wire' /\ Adds(more, Wire, x)
      BY <3>4, AnswerFacts, SentAppend DEF Shapes
    <3>6. Alike(arb.req.move, x.req.move)
      BY <2>0, <3>1, AnswerFacts, ToSendMoves
    <3>7. x.req.flush = arb.req.flush
      BY <3>1, AnswerFacts, ToSendFlush
    <3>8. Carried' /\ Given' /\ Replies'
      BY <1>2, <1>5, <2>1, <3>1, <3>5, <3>6, <3>7, SendCarries
    <3>9. Elems(first) = {x} /\ Apart(first) /\ HeldIn(first) = CbsOf(x) /\ CbsOf(x) = cbs
      BY <2>3, <3>1, ShortSeqs, HeldShort DEF CbsOf
    <3>10. Backed(x)'
      BY <3>1 DEF Backed, BackedTask
    <3>11. Waiting'
      BY <1>2, <1>3, <1>4, <2>1, <3>9, <3>10, AnswerFacts, WaitingStep
    <3>12. Once'
      BY <1>2, <1>3, <1>7, <2>1, <3>9, AnswerFacts, OnceThread
    <3> QED BY <3>8, <3>11, <3>12 DEF Answers
  <2> QED BY <1>10, <2>2, <2>3 DEF Sends
<1> QED BY <1>3, <1>8, <1>9, <1>10

(* A request for a reply: its number is the last one.                      *)
LEMMA NotifyFlushNumber ==
  ASSUME Shapes, ~arb.req.open => arb.req = NoRequest, NEW t, NotifyFlushComplete(t),
         NEW last \in Nat, last = Len(env.asked), arb.req.flush \in 0 .. last
  PROVE  arb'.req.flush \in 0 .. last + 1
<1>1. PICK old : old = IF arb.req.open THEN arb.req ELSE EmptyRequest
  OBVIOUS
<1>2. old.flush = arb.req.flush /\ DOMAIN old = {"open", "move", "patch", "flush"}
  <2>1. CASE arb.req.open
    BY <1>1, <2>1 DEF Shapes
  <2>2. CASE ~arb.req.open
    <3>1. old = EmptyRequest /\ arb.req = NoRequest
      BY <1>1, <2>2
    <3> QED BY <3>1 DEF NoRequest, EmptyRequest
  <2> QED BY <2>1, <2>2
<1>3. PICK number : number = IF last + 1 > old.flush THEN last + 1 ELSE old.flush
  OBVIOUS
<1>4. arb' = [arb EXCEPT !.req = [old EXCEPT !.flush = number]]
  BY <1>1, <1>3, Zenon DEF NotifyFlushComplete
<1>5. arb'.req.flush = number
  BY <1>2, <1>4 DEF Shapes
<1> QED BY <1>2, <1>3, <1>5

LEMMA NotifyFlushAnswers ==
  ASSUME AnswerInv, StreamInv', NEW t \in Threads, NotifyFlushComplete(t)
  PROVE  Answers'
<1>1. /\ todo[t] = <<>> /\ writers' = writers /\ tasks' = tasks /\ service' = service
      /\ answered' = answered /\ arb'.callbacks = arb.callbacks
      /\ env' = [env EXCEPT !.asked =
                   Append(@, [w \in DOMAIN writers |-> writers[w].returned])]
      /\ \E first : Goes(t, first) /\ \A x \in Elems(first) : x = Post(Flush({}))
  BY AnswerFacts, NotifyFlushCompleteSteps
<1>2. PICK first : Goes(t, first) /\ \A x \in Elems(first) : x = Post(Flush({}))
  BY <1>1
<1>3. PICK counts : counts = [w \in DOMAIN writers |-> writers[w].returned]
  OBVIOUS
<1>4. env'.asked = Append(env.asked, counts) /\ env'.flushes = env.flushes
  BY <1>1, <1>3, AnswerFacts DEF WriterShapes
<1>5. PICK last \in Nat : /\ last = Len(env.asked) /\ Len(env'.asked) = last + 1
                          /\ Asked(last + 1)' = counts
                          /\ \A k \in 1 .. last : Asked(k)' = Asked(k)
  BY <1>4, AnswerFacts, AppendSeq DEF WriterShapes, Asked
<1>6. \A x \in Elems(first) : /\ x.do = "post" /\ CbsOf(x) = {} /\ Backed(x)'
  <2>1. SUFFICES ASSUME NEW x, x = Post(Flush({}))
                 PROVE  x.do = "post" /\ CbsOf(x) = {} /\ Backed(x)'
    BY <1>2
  <2>2. x.do = "post" /\ x.task.do = "flush" /\ x.task.cbs = {}
    BY <2>1, PostKind, FlushKind
  <2> QED BY <2>2 DEF CbsOf, Backed, BackedTask
<1>7. Grows
  BY <1>1, AnswerFacts, SameGrows
<1>8. Waiting'
  BY <1>1, <1>2, <1>6, <1>7, AnswerFacts, WaitingStep
<1>9. HeldIn(first) = {} /\ Apart(first)
  BY <1>6 DEF HeldIn, Apart, Elems
<1>10. Once'
  BY <1>1, <1>2, <1>4, <1>9, AnswerFacts, OnceThread
<1>11. Wire' = Wire
  BY <1>1, <1>2, <1>6, AnswerFacts, WireKept
<1>12. Carried' /\ Given'
  BY <1>1, <1>11, AnswerFacts DEF Carried, Sent, Given, Arrived, Landed
<1>13. Replies'
  <2>1. arb'.req.flush \in 0 .. last + 1
    BY <1>5, AnswerFacts, NotifyFlushNumber DEF Replies, Stream
  <2>2. ASSUME NEW k \in 1 .. last + 1, NEW w \in DOMAIN Asked(k)'
        PROVE  w \in DOMAIN writers /\ Asked(k)'[w] \in 0 .. writers[w].returned
    <3>1. CASE k \in 1 .. last
      BY <1>5, <2>2, <3>1, AnswerFacts DEF Replies
    <3>2. CASE k = last + 1
      <4>1. w \in DOMAIN writers /\ Asked(k)'[w] = writers[w].returned
        BY <1>3, <1>5, <2>2, <3>2
      <4>2. writers[w].returned \in Nat
        BY <4>1, AnswerFacts DEF WriterShapes
      <4> QED BY <4>1, <4>2
    <3> QED BY <2>2, <3>1, <3>2
  <2>3. ASSUME NEW i \in Sent
        PROVE  /\ Wire[i].req.flush \in 0 .. last + 1
               /\ \A k \in 1 .. Wire[i].req.flush : \A w \in DOMAIN Asked(k)' :
                    ArrivesBy(service.landed, Wire, w, Asked(k)'[w], i)
    <3>1. /\ Wire[i].req.flush \in 0 .. last
          /\ \A k \in 1 .. Wire[i].req.flush : \A w \in DOMAIN Asked(k) :
               ArrivesBy(service.landed, Wire, w, Asked(k)[w], i)
      BY <1>5, AnswerFacts DEF Replies
    <3>2. \A k \in 1 .. Wire[i].req.flush : Asked(k)' = Asked(k)
      BY <1>5, <3>1
    <3> QED BY <1>5, <3>1, <3>2
  <2>4. /\ service.flushed \in 0 .. last + 1
        /\ \A k \in 1 .. service.flushed : \A w \in DOMAIN Asked(k)' :
             \A n \in 1 .. Asked(k)'[w] : Landed(w, n)
    <3>1. /\ service.flushed \in 0 .. last
          /\ \A k \in 1 .. service.flushed : \A w \in DOMAIN Asked(k) :
               \A n \in 1 .. Asked(k)[w] : Landed(w, n)
      BY <1>5, AnswerFacts DEF Replies
    <3>2. \A k \in 1 .. service.flushed : Asked(k)' = Asked(k)
      BY <1>5, <3>1
    <3> QED BY <1>5, <3>1, <3>2
  <2>5. \A w, n : Landed(w, n)' = Landed(w, n)
    BY <1>1 DEF Landed
  <2> QED BY <1>1, <1>5, <1>11, <2>1, <2>2, <2>3, <2>4, <2>5 DEF Replies, Sent
<1> QED BY <1>8, <1>10, <1>12, <1>13 DEF Answers

(* The flush of a writer brings a new callback.                            *)
LEMMA FlushWriterAnswers ==
  ASSUME AnswerInv, StreamInv', NEW t \in Threads, FlushWriter(t)
  PROVE  Answers'
<1>1. /\ todo[t] = <<>> /\ arb' = arb /\ tasks' = tasks /\ service' = service
      /\ answered' = answered /\ env' = [env EXCEPT !.flushes = @ + 1] /\ Edited
      /\ \E w \in DOMAIN writers : \E first, cb : FlushedFor(t, w, first, cb)
  BY AnswerFacts, FlushWriterSteps
<1>2. PICK w \in DOMAIN writers : \E first, cb : FlushedFor(t, w, first, cb)
  BY <1>1
<1>3. PICK first, cb : FlushedFor(t, w, first, cb)
  BY <1>2
<1>4. /\ Goes(t, first) /\ cb.k = env.flushes + 1 /\ cb.w = w /\ cb.n = writers[w].n
      /\ first = ReturnCurrent(w) \o <<Flush({cb})>>
      /\ Elems(first) = Elems(ReturnCurrent(w)) \cup {Flush({cb})}
      /\ writers[w].n = writers[w].returned + Current(w)
  BY <1>3 DEF FlushedFor
<1>5. env'.flushes = env.flushes + 1 /\ env'.asked = env.asked /\ env.flushes \in Nat
  BY <1>1, AnswerFacts DEF WriterShapes
<1>6. PICK x : x = Flush({cb}) /\ x.do = "flush" /\ x.cbs = {cb} /\ CbsOf(x) = {cb}
  BY FlushKind
<1>7. /\ \A y \in Elems(ReturnCurrent(w)) : y.do = "return" /\ CbsOf(y) = {}
      /\ IsSeq(ReturnCurrent(w)) /\ HeldIn(ReturnCurrent(w)) = {} /\ Apart(ReturnCurrent(w))
  <2>1. \A y \in Elems(ReturnCurrent(w)) : y.do = "return" /\ CbsOf(y) = {}
    BY ReturnCurrentFacts, ReturnKind
  <2> QED BY <2>1, ReturnCurrentFacts DEF HeldIn, Apart, Elems
<1>8. IsSeq(<<x>>) /\ HeldIn(<<x>>) = {cb} /\ Apart(<<x>>)
  BY <1>6, ShortSeqs, HeldShort
<1>9. HeldIn(first) = {cb} /\ Apart(first)
  <2>1. first = ReturnCurrent(w) \o <<x>>
    BY <1>4, <1>6
  <2> QED BY <1>7, <1>8, <2>1, HeldConcat
<1>10. Grows
  BY <1>1, AnswerFacts, EditedKept, KeptGrows
<1>11. Wire' = Wire
  BY <1>1, <1>4, <1>6, <1>7, AnswerFacts, WireKept
<1>12. Carried' /\ Given' /\ Replies'
  <2>1. arb'.req.flush \in 0 .. Len(env.asked)
    BY <1>1, AnswerFacts DEF Replies
  <2> QED BY <1>1, <1>5, <1>10, <1>11, <2>1, AnswerFacts, StillCarried
<1>13. Backed(x)' \/ Awaits(t, x)'
  <2>1. w \in DOMAIN writers' /\ writers'[w].returned = writers[w].returned
    BY <1>1 DEF Edited
  <2>2. CASE writers[w].cur
    <3>1. PICK y : /\ y = Return(w, writers[w].n, 0)
                   /\ ReturnCurrent(w) = <<y>>
                   /\ y.do = "return" /\ y.w = w /\ y.n = writers[w].n
      BY <2>2, ReturnCurrentFacts, ReturnKind
    <3>2. first = <<y>> \o <<x>> /\ IsSeq(<<y>>)
      BY <1>4, <1>6, <3>1, ShortSeqs
    <3>3. first # <<>> /\ Head(first) = y
      BY <3>2
    <3>4. todo'[t] # <<>> /\ Head(todo'[t]) = y
      BY <1>4, <3>3, AnswerFacts, GoesHead
    <3> QED BY <1>4, <1>6, <3>1, <3>4 DEF Awaits, Now
  <2>3. CASE ~writers[w].cur
    <3>1. writers[w].n = writers[w].returned /\ writers[w].returned \in Nat
      BY <1>4, <2>3, AnswerFacts DEF Current, WriterShapes
    <3>2. Covered(cb)'
      BY <1>4, <2>1, <3>1 DEF Covered
    <3> QED BY <1>6, <3>2 DEF Backed, BackedTask
  <2> QED BY <2>2, <2>3
<1>14. \A y \in Elems(first) : Backed(y)' \/ Awaits(t, y)'
  <2>1. \A y \in Elems(ReturnCurrent(w)) : Backed(y)'
    BY <1>7 DEF Backed, BackedTask
  <2> QED BY <1>4, <1>6, <1>13, <2>1
<1>15. Waiting'
  BY <1>1, <1>4, <1>10, <1>14, AnswerFacts, WaitingStep
<1>16. PICK new : new = {cb}
  OBVIOUS
<1>17. /\ Apart(tasks') /\ Apart(service'.inbox) /\ AnsweredApart'
       /\ \A l \in Kinds \ {"todo", "pending"} : Held(l, IPC)' \subseteq Held(l, IPC)
       /\ Held("pending", IPC)' = Held("pending", IPC)
  BY <1>1, AnswerFacts, OnceSame DEF Kinds
<1>18. Held("pending", IPC) \cap {cb} = {} /\ "pending" \in Kinds \ {"todo"}
  <2>1. "pending" \in Kinds /\ IPC \in Threads
    BY ArbiterConstants DEF Kinds
  <2>2. \A c \in Held("pending", IPC) : c.k \in 1 .. env.flushes
    BY <2>1, AnswerFacts DEF Once, Numbered
  <2> QED BY <1>4, <1>5, <2>1, <2>2
<1>19. /\ HeldIn(first) \cup Held("pending", IPC)'
             \subseteq NowHeld(t) \cup Held("pending", IPC) \cup new
       /\ HeldIn(first) \cap Held("pending", IPC)' = {}
  BY <1>9, <1>16, <1>17, <1>18
<1>20. \A c \in new : c.k = env.flushes + 1 /\ env'.flushes = env.flushes + 1
  BY <1>4, <1>5, <1>16
<1>21. env'.flushes \in Nat /\ env'.flushes >= env.flushes
  BY <1>5
<1>22. Once'
  <2>1. Shapes /\ WriterShapes /\ Once
    BY AnswerFacts
  <2>2. Goes(t, first) /\ Apart(first)
    BY <1>4, <1>9
  <2> QED BY <1>17, <1>18, <1>19, <1>20, <1>21, <2>1, <2>2, OnceMove
<1> QED BY <1>12, <1>15, <1>22 DEF Answers

(* The callbacks of the step that a thread does are nowhere else.          *)
LEMMA NowApart ==
  ASSUME Shapes, Once, NEW t \in Threads, todo[t] # <<>>, NEW k \in Kinds \ {"todo"}
  PROVE  CbsOf(Now(t)) \cap Held(k, IPC) = {}
<1>1. k \in Kinds /\ "todo" \in Kinds /\ IPC \in Threads
  BY ArbiterConstants DEF Kinds
<1>2. Held("todo", t) \cap Held(k, IPC) = {}
  BY <1>1 DEF Once, OnePlace
<1>3. CbsOf(Now(t)) \subseteq HeldIn(todo[t])
  BY HeldTail DEF Shapes, Now
<1> QED BY <1>2, <1>3, HeldFacts

(* What a thread is about to do is backed, unless it waits.                *)
LEMMA NowBacked ==
  ASSUME Shapes, Waiting, NEW t \in Threads, todo[t] # <<>>, Now(t).do # "return"
  PROVE  Backed(Now(t))
<1>1. Now(t) \in Elems(todo[t])
  BY TailSeq DEF Shapes, Now
<1> QED BY <1>1 DEF Waiting, Awaits

LEMMA PostTaskAnswers ==
  ASSUME AnswerInv, StreamInv', NEW t \in Threads, PostTask(t)
  PROVE  Answers'
<1>1. /\ todo[t] # <<>> /\ Now(t).do = "post" /\ tasks' = Append(tasks, Now(t).task)
      /\ arb' = arb /\ writers' = writers /\ service' = service
      /\ answered' = answered /\ env' = env
      /\ \E e : Goes(t, e) /\ Elems(e) = {}
  BY AnswerFacts, PostTaskSteps
<1>2. PICK e : Goes(t, e) /\ Elems(e) = {}
  BY <1>1
<1>3. PICK x : x = Now(t).task
  OBVIOUS
<1>4. x.do \in PostKinds
  <2>1. Now(t) \in Elems(todo[t])
    BY <1>1, AnswerFacts, TailSeq DEF Shapes, Now
  <2> QED BY <1>1, <1>3, <2>1, AnswerFacts DEF Division
<1>5. CbsOf(x) = CbsOf(Now(t))
  BY <1>1, <1>3, <1>4 DEF CbsOf, PostKinds
<1>6. Grows
  BY <1>1, AnswerFacts, SameGrows
<1>7. Backed(x)'
  <2>1. BackedTask(x)
    BY <1>1, <1>3, AnswerFacts, NowBacked DEF Backed
  <2>2. BackedTask(x)'
    BY <1>6, <2>1, AnswerFacts, GrowsBacked
  <2> QED BY <1>4, <2>2 DEF Backed, PostKinds
<1>8. Elems(tasks') = Elems(tasks) \cup {x}
  BY <1>1, <1>3, AnswerFacts, AppendSeq DEF Shapes
<1>9. Waiting'
  BY <1>1, <1>2, <1>6, <1>7, <1>8, AnswerFacts, WaitingStep
<1>10. Carried' /\ Given' /\ Replies'
  <2>1. Wire' = Wire
    BY <1>1, <1>2, AnswerFacts, WireKept
  <2>2. arb'.req.flush \in 0 .. Len(env.asked)
    BY <1>1, AnswerFacts DEF Replies
  <2> QED BY <1>1, <1>6, <2>1, <2>2, AnswerFacts, StillCarried
<1>11. Held("tasks", IPC)' = Held("tasks", IPC) \cup CbsOf(x) /\ Apart(tasks')
  <2>1. CbsOf(x) \cap HeldIn(tasks) = {}
    BY <1>1, <1>5, AnswerFacts, NowApart, HeldFacts DEF Kinds
  <2>2. IsSeq(tasks) /\ Apart(tasks) /\ tasks' = Append(tasks, x)
    BY <1>1, <1>3, AnswerFacts DEF Shapes, Once, AllApart
  <2> QED BY <2>1, <2>2, HeldAppend, HeldFacts, HeldFactsNext
<1>12. HeldIn(e) = {} /\ Apart(e)
  BY <1>2 DEF HeldIn, Apart, Elems
<1>13. PICK none : none = {}
  OBVIOUS
<1>14. /\ Apart(service'.inbox) /\ AnsweredApart'
       /\ \A l \in Kinds \ {"todo", "tasks"} : Held(l, IPC)' \subseteq Held(l, IPC)
  BY <1>1, AnswerFacts, OnceSame DEF Kinds
<1>15. /\ HeldIn(e) \cup Held("tasks", IPC)'
             \subseteq NowHeld(t) \cup Held("tasks", IPC) \cup none
       /\ HeldIn(e) \cap Held("tasks", IPC)' = {}
       /\ "tasks" \in Kinds \ {"todo"}
  BY <1>1, <1>5, <1>11, <1>12, <1>13 DEF Kinds, NowHeld
<1>16. /\ \A cb \in none : cb.k = env.flushes + 1 /\ env'.flushes = env.flushes + 1
       /\ env'.flushes \in Nat /\ env'.flushes >= env.flushes
  BY <1>1, <1>13, AnswerFacts
<1>17. Once'
  BY <1>2, <1>11, <1>12, <1>14, <1>15, <1>16, AnswerFacts, OnceMove
<1> QED BY <1>9, <1>10, <1>17 DEF Answers

LEMMA RunTaskAnswers ==
  ASSUME AnswerInv, StreamInv', RunTask
  PROVE  Answers'
<1>0. IPC \in Threads
  BY ArbiterConstants
<1>1. /\ todo[IPC] = <<>> /\ tasks # <<>> /\ tasks' = Tail(tasks)
      /\ Goes(IPC, <<Head(tasks)>>) /\ Head(tasks) \in Elems(tasks)
      /\ arb' = arb /\ writers' = writers /\ service' = service
      /\ answered' = answered /\ env' = env
  BY AnswerFacts, RunTaskSteps
<1>2. PICK x : x = Head(tasks) /\ x \in Elems(tasks) /\ x.do \in TaskKinds
  BY <1>1, AnswerFacts DEF Division
<1>3. PICK first : /\ Goes(IPC, first) /\ Elems(first) = {x}
                   /\ Apart(first) /\ HeldIn(first) = CbsOf(x)
  BY <1>1, <1>2, ShortSeqs, HeldShort
<1>4. Grows
  BY <1>1, AnswerFacts, SameGrows
<1>5. Backed(x)'
  BY <1>2, <1>4, AnswerFacts, GrowsBacked DEF Waiting
<1>6. /\ Elems(tasks') \subseteq Elems(tasks) /\ HeldIn(tasks) = CbsOf(x) \cup HeldIn(tasks')
      /\ Apart(tasks') /\ CbsOf(x) \cap HeldIn(tasks') = {}
  <2>1. IsSeq(tasks) /\ Apart(tasks)
    BY AnswerFacts DEF Shapes, Once, AllApart
  <2> QED BY <1>1, <1>2, <2>1, TailSeq, HeldTail
<1>7. Waiting'
  BY <1>0, <1>1, <1>3, <1>4, <1>5, <1>6, AnswerFacts, WaitingStep
<1>8. Carried' /\ Given' /\ Replies'
  <2>1. Wire' = Wire
    BY <1>0, <1>1, <1>2, <1>3, AnswerFacts, WireKept DEF TaskKinds, PostKinds
  <2>2. arb'.req.flush \in 0 .. Len(env.asked)
    BY <1>1, AnswerFacts DEF Replies
  <2> QED BY <1>1, <1>4, <2>1, <2>2, AnswerFacts, StillCarried
<1>9. PICK none : none = {}
  OBVIOUS
<1>10. /\ Apart(service'.inbox) /\ AnsweredApart'
       /\ \A l \in Kinds \ {"todo", "tasks"} : Held(l, IPC)' \subseteq Held(l, IPC)
  BY <1>1, AnswerFacts, OnceSame DEF Kinds
<1>11. /\ HeldIn(first) \cup Held("tasks", IPC)'
             \subseteq NowHeld(IPC) \cup Held("tasks", IPC) \cup none
       /\ HeldIn(first) \cap Held("tasks", IPC)' = {}
       /\ "tasks" \in Kinds \ {"todo"}
  BY <1>3, <1>6, <1>9, HeldFacts, HeldFactsNext DEF Kinds
<1>12. /\ \A cb \in none : cb.k = env.flushes + 1 /\ env'.flushes = env.flushes + 1
       /\ env'.flushes \in Nat /\ env'.flushes >= env.flushes
  BY <1>1, <1>9, AnswerFacts
<1>13. Once'
  BY <1>0, <1>3, <1>6, <1>10, <1>11, <1>12, AnswerFacts, OnceMove
<1> QED BY <1>7, <1>8, <1>13 DEF Answers

LEMMA RunCallbackAnswers ==
  ASSUME AnswerInv, StreamInv', RunCallback
  PROVE  Answers'
<1>0. IPC \in Threads
  BY ArbiterConstants
<1>1. /\ todo[IPC] # <<>> /\ Now(IPC).do = "callback"
      /\ answered' = Append(answered, Now(IPC).cbs)
      /\ arb' = arb /\ writers' = writers /\ tasks' = tasks
      /\ service' = service /\ env' = env
      /\ \E e : Goes(IPC, e) /\ Elems(e) = {}
  BY AnswerFacts, RunCallbackSteps
<1>2. PICK e : Goes(IPC, e) /\ Elems(e) = {}
  BY <1>1
<1>3. PICK cbs : cbs = Now(IPC).cbs /\ CbsOf(Now(IPC)) = cbs
  BY <1>1 DEF CbsOf
<1>4. Grows
  BY <1>1, AnswerFacts, SameGrows
<1>5. \A cb \in cbs : Arrived(cb)
  BY <1>0, <1>1, <1>3, AnswerFacts, NowBacked DEF Backed, BackedTask
<1>6. Waiting'
  BY <1>0, <1>1, <1>2, <1>4, AnswerFacts, WaitingStep
<1>7. Wire' = Wire
  BY <1>0, <1>1, <1>2, AnswerFacts, WireKept
<1>8. Carried' /\ Replies'
  BY <1>1, <1>7, AnswerFacts DEF Carried, Sent, Replies, Asked, Landed
<1>9. PICK last \in Nat : /\ DOMAIN answered = 1 .. last /\ DOMAIN answered' = 1 .. last + 1
                          /\ answered'[last + 1] = cbs
                          /\ \A i \in 1 .. last : answered'[i] = answered[i]
                          /\ Elems(answered') = Elems(answered) \cup {cbs}
  BY <1>1, <1>3, AnswerFacts, AppendSeq DEF WriterShapes
<1>10. Given'
  <2>1. ASSUME NEW i \in 1 .. last + 1, NEW cb \in answered'[i]
        PROVE  Arrived(cb)
    <3>1. CASE i = last + 1
      BY <1>5, <1>9, <2>1, <3>1
    <3>2. CASE i \in 1 .. last
      BY <1>9, <2>1, <3>2, AnswerFacts DEF Given
    <3> QED BY <2>1, <3>1, <3>2
  <2> QED BY <1>1, <1>9, <2>1 DEF Given, Arrived, Landed
<1>11. cbs \cap Held("answered", IPC) = {}
  BY <1>0, <1>1, <1>3, AnswerFacts, NowApart DEF Kinds
<1>12. Held("answered", IPC)' = Held("answered", IPC) \cup cbs
  BY <1>9, HeldFacts, HeldFactsNext
<1>13. AnsweredApart'
  <2>1. \A i \in 1 .. last : answered[i] \subseteq Held("answered", IPC)
    BY <1>9, HeldFacts DEF Elems
  <2>2. \A i, j \in 1 .. last : i # j => answered[i] \cap answered[j] = {}
    BY <1>9, AnswerFacts DEF Once, AllApart
  <2>3. ASSUME NEW i \in 1 .. last + 1, NEW j \in 1 .. last + 1, i # j
        PROVE  answered'[i] \cap answered'[j] = {}
    <3>1. CASE i \in 1 .. last /\ j \in 1 .. last
      BY <1>9, <2>2, <2>3, <3>1
    <3>2. CASE i = last + 1 /\ j \in 1 .. last
      BY <1>9, <1>11, <2>1, <3>2
    <3>3. CASE i \in 1 .. last /\ j = last + 1
      BY <1>9, <1>11, <2>1, <3>3
    <3> QED BY <2>3, <3>1, <3>2, <3>3
  <2> QED BY <1>9, <2>3 DEF AnsweredApart
<1>14. HeldIn(e) = {} /\ Apart(e)
  BY <1>2 DEF HeldIn, Apart, Elems
<1>15. PICK none : none = {}
  OBVIOUS
<1>16. /\ Apart(tasks') /\ Apart(service'.inbox)
       /\ \A l \in Kinds \ {"todo", "answered"} : Held(l, IPC)' \subseteq Held(l, IPC)
  BY <1>1, AnswerFacts, OnceSame DEF Kinds
<1>17. /\ HeldIn(e) \cup Held("answered", IPC)'
             \subseteq NowHeld(IPC) \cup Held("answered", IPC) \cup none
       /\ HeldIn(e) \cap Held("answered", IPC)' = {}
       /\ "answered" \in Kinds \ {"todo"}
  BY <1>1, <1>3, <1>12, <1>14, <1>15 DEF Kinds, NowHeld
<1>18. /\ \A cb \in none : cb.k = env.flushes + 1 /\ env'.flushes = env.flushes + 1
       /\ env'.flushes \in Nat /\ env'.flushes >= env.flushes
  BY <1>1, <1>15, AnswerFacts
<1>19. Once'
  BY <1>0, <1>2, <1>13, <1>14, <1>16, <1>17, <1>18, AnswerFacts, OnceMove
<1> QED BY <1>6, <1>8, <1>10, <1>19 DEF Answers

(* The IPC thread calls the endpoint: a commit was counted as sent before. *)
LEMMA CallEndpointAnswers ==
  ASSUME AnswerInv, StreamInv', NEW t \in Threads, CallEndpoint(t)
  PROVE  Answers'
<1>1. /\ t = IPC /\ todo[t] # <<>> /\ Now(t).do \in Endpoint
      /\ service' = [service EXCEPT !.inbox = Append(@, Now(t))]
      /\ service'.inbox = Append(service.inbox, Now(t))
      /\ arb' = arb /\ writers' = writers /\ tasks' = tasks
      /\ answered' = answered /\ env' = env
      /\ \E e : Goes(t, e) /\ Elems(e) = {}
  BY AnswerFacts, CallEndpointSteps
<1>2. PICK e : Goes(t, e) /\ Elems(e) = {}
  BY <1>1
<1>3. PICK x : x = Now(t)
  OBVIOUS
<1>4. service'.landed = service.landed /\ service'.flushed = service.flushed
  BY <1>1, AnswerFacts DEF Shapes
<1>5. Grows
  BY <1>1, <1>4, AnswerFacts, SameGrows
<1>6. Waiting'
  BY <1>1, <1>2, <1>5, AnswerFacts, WaitingStep DEF Endpoint
<1>7. PICK more : more = Wire'
  OBVIOUS
<1>8. more = Append(service.inbox, x)
  BY <1>1, <1>2, <1>3, <1>7, AnswerFacts, WireAfter
<1>9. /\ SentIn(more) = Sent /\ \A i \in Sent : more[i] = Wire[i]
      /\ \A w, n, i : ArrivesBy(service.landed, Wire, w, n, i)
           => ArrivesBy(service.landed, more, w, n, i)
  <2>1. CASE x.do = "commit"
    <3>1. more = Wire
      BY <1>1, <1>3, <1>8, <2>1, WireNow
    <3> QED BY <3>1 DEF Sent
  <2>2. CASE x.do # "commit"
    <3>1. Wire = service.inbox
      BY <1>1, <1>3, <2>2, WireNow
    <3>2. Adds(more, Wire, x)
      BY <1>8, <3>1, AnswerFacts, SentAppend DEF Shapes
    <3>3. SentIn(more) = SentIn(Wire) /\ \A i \in SentIn(Wire) : more[i] = Wire[i]
      BY <2>2, <3>2 DEF Adds
    <3> QED BY <3>2, <3>3, ArrivesAdd DEF Sent
  <2> QED BY <2>1, <2>2
<1>10. Carried'
  <2>1. \A i \in SentIn(more) : \A cb \in more[i].cbs :
          ArrivesBy(service.landed, more, cb.w, cb.n, i)
    BY <1>9, AnswerFacts DEF Carried
  <2> QED BY <1>4, <1>7, <2>1 DEF Carried, Sent
<1>11. Given'
  BY <1>1, <1>4, AnswerFacts DEF Given, Arrived, Landed
<1>12. Replies'
  <2>1. \A i \in SentIn(more) :
          /\ more[i].req.flush \in 0 .. Len(env.asked)
          /\ \A k \in 1 .. more[i].req.flush : \A w \in DOMAIN Asked(k) :
               ArrivesBy(service.landed, more, w, Asked(k)[w], i)
    BY <1>9, AnswerFacts DEF Replies
  <2>2. \A k : Asked(k)' = Asked(k)
    BY <1>1 DEF Asked
  <2>3. \A w, n : Landed(w, n)' = Landed(w, n)
    BY <1>4 DEF Landed
  <2> QED BY <1>1, <1>4, <1>7, <2>1, <2>2, <2>3, AnswerFacts DEF Replies, Sent
<1>13. Held("inbox", IPC)' = Held("inbox", IPC) \cup CbsOf(x) /\ Apart(service'.inbox)
  <2>1. CbsOf(x) \cap HeldIn(service.inbox) = {}
    BY <1>1, <1>3, AnswerFacts, NowApart, HeldFacts DEF Kinds
  <2>2. IsSeq(service.inbox) /\ Apart(service.inbox) /\ service'.inbox = Append(service.inbox, x)
    BY <1>1, <1>3, AnswerFacts DEF Shapes, Once, AllApart
  <2> QED BY <2>1, <2>2, HeldAppend, HeldFacts, HeldFactsNext
<1>14. HeldIn(e) = {} /\ Apart(e)
  BY <1>2 DEF HeldIn, Apart, Elems
<1>15. PICK none : none = {}
  OBVIOUS
<1>16. /\ Apart(tasks') /\ AnsweredApart'
       /\ \A l \in Kinds \ {"todo", "inbox"} : Held(l, IPC)' \subseteq Held(l, IPC)
  BY <1>1, AnswerFacts, OnceSame DEF Kinds
<1>17. /\ HeldIn(e) \cup Held("inbox", IPC)'
             \subseteq NowHeld(t) \cup Held("inbox", IPC) \cup none
       /\ HeldIn(e) \cap Held("inbox", IPC)' = {}
       /\ "inbox" \in Kinds \ {"todo"}
  BY <1>1, <1>3, <1>13, <1>14, <1>15 DEF Kinds, NowHeld
<1>18. /\ \A cb \in none : cb.k = env.flushes + 1 /\ env'.flushes = env.flushes + 1
       /\ env'.flushes \in Nat /\ env'.flushes >= env.flushes
  BY <1>1, <1>15, AnswerFacts
<1>19. Once'
  BY <1>2, <1>13, <1>14, <1>16, <1>17, <1>18, AnswerFacts, OnceMove
<1> QED BY <1>6, <1>10, <1>11, <1>12, <1>19 DEF Answers

(***************************************************************************)
(* The service's end                                                       *)
(***************************************************************************)
(* What has landed, the note of the reply and the tasks after a commit.    *)
Lands(m, got, flushed) ==
  /\ \A w, n : Has(service.landed, w, n) \/ Has(m.req.move, w, n) => Has(got, w, n)
  /\ service'.landed = got /\ service'.flushed = flushed
  /\ flushed = IF m.req.flush > service.flushed THEN m.req.flush ELSE service.flushed

LEMMA ServiceLands ==
  ASSUME AnswerInv, ServiceStep, NEW m, m = Head(service.inbox), m.do = "commit"
  PROVE  /\ \E got, flushed : Lands(m, got, flushed)
         /\ tasks' = IF m.cbs = {} THEN tasks ELSE Append(tasks, Callback(m.cbs))
<1>1. Shapes /\ ServiceCommit(m) /\ Takes(Wire', Wire, m)
      /\ Flow(writers, service.landed, Wire, arb.req.move)
  BY ServiceSteps, WireTakes DEF AnswerInv, StreamInv, ThreadInv, WakeInv, Stream
<1>2. PICK move : move = m.req.move
  OBVIOUS
<1>3. Entries(writers, service.landed) /\ Entries(writers, move)
  BY <1>1, <1>2 DEF Flow, Lists, Takes
<1>4. PICK got : got = service.landed \o move
  OBVIOUS
<1>5. Joins(got, service.landed, move)
  BY <1>3, <1>4, JoinedLists DEF Entries
<1>6. /\ IsSeq(got) /\ \A i \in DOMAIN got : DOMAIN got[i] = EntryFields
      /\ \A w, n : Has(service.landed, w, n) \/ Has(move, w, n) => Has(got, w, n)
  <2>1. Entries(writers, got)
    BY <1>3, <1>5, JoinedEntries
  <2>2. \A w, n : Has(got, w, n) <=> Has(service.landed, w, n) \/ Has(move, w, n)
    BY <1>3, <1>5, JoinedEntries
  <2> QED BY <2>1, <2>2 DEF Entries, Entry
<1>7. PICK left : left = [i \in DOMAIN got |->
        got[i].left - Cardinality(PatchesFor(m.req.patch, got[i]))]
  OBVIOUS
<1>8. PICK now : now = [i \in DOMAIN got |-> [got[i] EXCEPT !.left = left[i]]]
  OBVIOUS
<1>9. now = [i \in DOMAIN got |-> [got[i] EXCEPT !.left =
              @ - Cardinality(PatchesFor(m.req.patch, got[i]))]]
  BY <1>7, <1>8, Zenon
<1>10. PICK flushed :
         flushed = IF m.req.flush > service.flushed THEN m.req.flush ELSE service.flushed
  OBVIOUS
<1>11. service' = [service EXCEPT !.inbox = Tail(@), !.landed = now, !.flushed = flushed]
  BY <1>1, <1>2, <1>4, <1>9, <1>10, Zenon DEF ServiceCommit
<1>12. service'.landed = now /\ service'.flushed = flushed
  BY <1>1, <1>11 DEF Shapes
<1>13. AlikeIn(got, now)
  BY <1>6, <1>8, LandedAlike
<1>14. \A w, n : Has(got, w, n) => Has(now, w, n)
  BY <1>13, AlikeLists DEF AlikeIn
<1>15. Lands(m, now, flushed)
  BY <1>2, <1>6, <1>10, <1>12, <1>14 DEF Lands
<1>16. tasks' = IF m.cbs = {} THEN tasks ELSE Append(tasks, Callback(m.cbs))
  BY <1>1, Zenon DEF ServiceCommit
<1> QED BY <1>15, <1>16

(* Of the other messages nothing depends.                                  *)
LEMMA ServiceOther ==
  ASSUME AnswerInv, StreamInv', ServiceStep, NEW m, m = Head(service.inbox), m.do # "commit"
  PROVE  Waiting' /\ Carried' /\ Given' /\ Replies'
<1>1. /\ arb' = arb /\ writers' = writers /\ todo' = todo /\ tasks' = tasks
      /\ answered' = answered /\ env' = env
      /\ service'.landed = service.landed /\ service'.flushed = service.flushed
  BY AnswerFacts, ServiceSteps
<1>2. PICK less : less = Wire' /\ Takes(less, Wire, m)
  BY AnswerFacts, WireTakes
<1>3. IsSeq(Wire)
  BY AnswerFacts, WireIsSeq
<1>4. \A i \in SentIn(less) : i + 1 \in Sent /\ less[i] = Wire[i + 1]
  BY <1>2 DEF Takes, Sent
<1>5. ASSUME NEW i \in SentIn(less), NEW w, NEW n,
             ArrivesBy(service.landed, Wire, w, n, i + 1)
      PROVE  ArrivesBy(service.landed, less, w, n, i)
  BY <1>2, <1>3, <1>5, ArrivesTail
<1>6. Carried'
  <2>1. ASSUME NEW i \in SentIn(less), NEW cb \in less[i].cbs
        PROVE  ArrivesBy(service.landed, less, cb.w, cb.n, i)
    <3>1. ArrivesBy(service.landed, Wire, cb.w, cb.n, i + 1)
      BY <1>4, <2>1, AnswerFacts DEF Carried
    <3> QED BY <1>5, <2>1, <3>1
  <2> QED BY <1>1, <1>2, <2>1 DEF Carried, Sent
<1>7. Given'
  BY <1>1, AnswerFacts DEF Given, Arrived, Landed
<1>8. \A w, n : Landed(w, n)' = Landed(w, n)
  BY <1>1 DEF Landed
<1>9. Replies'
  <2>1. ASSUME NEW i \in SentIn(less)
        PROVE  /\ less[i].req.flush \in 0 .. Len(env.asked)
               /\ \A k \in 1 .. less[i].req.flush : \A w \in DOMAIN Asked(k) :
                    ArrivesBy(service.landed, less, w, Asked(k)[w], i)
    <3>1. /\ less[i].req.flush \in 0 .. Len(env.asked)
          /\ \A k \in 1 .. less[i].req.flush : \A w \in DOMAIN Asked(k) :
               ArrivesBy(service.landed, Wire, w, Asked(k)[w], i + 1)
      BY <1>4, <2>1, AnswerFacts DEF Replies
    <3> QED BY <1>5, <2>1, <3>1
  <2>2. \A k : Asked(k)' = Asked(k)
    BY <1>1 DEF Asked
  <2> QED BY <1>1, <1>2, <1>8, <2>1, <2>2, AnswerFacts DEF Replies, Sent
<1>10. Waiting'
  <2>1. /\ \A cb : Covered(cb)' = Covered(cb) /\ \A x : BackedTask(x)' = BackedTask(x)
    BY <1>1, <1>8 DEF Covered, BackedTask, Arrived
  <2>2. \A x : Backed(x) => Backed(x)'
    BY <2>1 DEF Backed
  <2>3. \A t, x : Awaits(t, x) => Awaits(t, x)'
    BY <1>1 DEF Awaits, Now
  <2> QED BY <1>1, <2>1, <2>2, <2>3, AnswerFacts DEF Waiting
<1> QED BY <1>6, <1>7, <1>9, <1>10

(* The service has handled a commit: what it carried has landed.           *)
LEMMA ServiceCarried ==
  ASSUME AnswerInv, StreamInv', ServiceStep, NEW m, m = Head(service.inbox), m.do = "commit"
  PROVE  /\ Carried' /\ Given' /\ Replies' /\ Grows
         /\ \A cb \in m.cbs : Arrived(cb)'
<1>1. /\ arb' = arb /\ writers' = writers /\ todo' = todo
      /\ answered' = answered /\ env' = env
  BY AnswerFacts, ServiceSteps
<1>2. PICK less : less = Wire' /\ Takes(less, Wire, m)
  BY AnswerFacts, WireTakes
<1>3. IsSeq(Wire)
  BY AnswerFacts, WireIsSeq
<1>4. PICK got, flushed : Lands(m, got, flushed)
  BY ServiceLands
<1>5. /\ \A w, n : Has(service.landed, w, n) \/ Has(m.req.move, w, n) => Has(got, w, n)
      /\ service'.landed = got /\ service'.flushed = flushed
      /\ flushed = IF m.req.flush > service.flushed THEN m.req.flush ELSE service.flushed
  BY <1>4 DEF Lands
<1>6. (\A w, n : Landed(w, n) <=> Has(service.landed, w, n))
      /\ (\A w, n : Landed(w, n)' <=> Has(got, w, n))
  BY <1>5 DEF Landed, Has
<1>7. Grows
  <2>1. \A w \in DOMAIN writers : writers[w].returned \in Nat
    BY AnswerFacts DEF WriterShapes
  <2> QED BY <1>1, <1>5, <1>6, <2>1 DEF Grows
<1>8. 1 \in Sent /\ Wire[1] = m /\ \A i \in SentIn(less) : i + 1 \in Sent /\ less[i] = Wire[i + 1]
  BY <1>2 DEF Takes, Sent
<1>9. ASSUME NEW i \in SentIn(less), NEW w, NEW n,
             ArrivesBy(service.landed, Wire, w, n, i + 1)
      PROVE  ArrivesBy(got, less, w, n, i)
  BY <1>2, <1>3, <1>5, <1>9, ArrivesLand
<1>10. ASSUME NEW w, NEW n, ArrivesBy(service.landed, Wire, w, n, 1)
       PROVE  \A l \in 1 .. n : Landed(w, l)'
  <2>1. \A l \in 1 .. n : Has(got, w, l)
    BY <1>2, <1>3, <1>5, <1>10, ArrivesFirst
  <2> QED BY <1>6, <2>1
<1>11. Carried'
  <2>1. ASSUME NEW i \in SentIn(less), NEW cb \in less[i].cbs
        PROVE  ArrivesBy(got, less, cb.w, cb.n, i)
    <3>1. ArrivesBy(service.landed, Wire, cb.w, cb.n, i + 1)
      BY <1>8, <2>1, AnswerFacts DEF Carried
    <3> QED BY <1>9, <2>1, <3>1
  <2> QED BY <1>2, <1>5, <2>1 DEF Carried, Sent
<1>12. \A cb \in m.cbs : Arrived(cb)'
  <2>1. ASSUME NEW cb \in m.cbs PROVE Arrived(cb)'
    <3>1. ArrivesBy(service.landed, Wire, cb.w, cb.n, 1)
      BY <1>8, <2>1, AnswerFacts DEF Carried
    <3> QED BY <1>10, <3>1 DEF Arrived
  <2> QED BY <2>1
<1>13. Given'
  <2>1. \A cb : Arrived(cb) => Arrived(cb)'
    BY <1>7, AnswerFacts, GrowsBacked
  <2> QED BY <1>1, <2>1, AnswerFacts DEF Given
<1>14. Replies'
  <2>1. ASSUME NEW i \in SentIn(less)
        PROVE  /\ less[i].req.flush \in 0 .. Len(env.asked)
               /\ \A k \in 1 .. less[i].req.flush : \A w \in DOMAIN Asked(k) :
                    ArrivesBy(got, less, w, Asked(k)[w], i)
    <3>1. /\ less[i].req.flush \in 0 .. Len(env.asked)
          /\ \A k \in 1 .. less[i].req.flush : \A w \in DOMAIN Asked(k) :
               ArrivesBy(service.landed, Wire, w, Asked(k)[w], i + 1)
      BY <1>8, <2>1, AnswerFacts DEF Replies
    <3> QED BY <1>9, <2>1, <3>1
  <2>2. /\ m.req.flush \in 0 .. Len(env.asked)
        /\ \A k \in 1 .. m.req.flush : \A w \in DOMAIN Asked(k) :
             ArrivesBy(service.landed, Wire, w, Asked(k)[w], 1)
    BY <1>8, AnswerFacts DEF Replies
  <2>3. /\ flushed \in 0 .. Len(env.asked)
        /\ \A k \in 1 .. flushed : \A w \in DOMAIN Asked(k) :
             \A n \in 1 .. Asked(k)[w] : Landed(w, n)'
    <3>1. CASE m.req.flush > service.flushed
      <4>1. flushed = m.req.flush
        BY <1>5, <3>1
      <4> QED BY <1>10, <2>2, <4>1
    <3>2. CASE ~(m.req.flush > service.flushed)
      <4>1. flushed = service.flushed
        BY <1>5, <3>2
      <4> QED BY <1>7, <4>1, AnswerFacts DEF Replies, Grows
    <3> QED BY <3>1, <3>2
  <2>4. \A k : Asked(k)' = Asked(k)
    BY <1>1 DEF Asked
  <2> QED BY <1>1, <1>2, <1>5, <2>1, <2>3, <2>4, AnswerFacts DEF Replies, Sent
<1> QED BY <1>7, <1>11, <1>12, <1>13, <1>14

(* A callback of the message becomes one of a task.                        *)
LEMMA ServiceOnce ==
  ASSUME AnswerInv, StreamInv', ServiceStep, NEW m, m = Head(service.inbox)
  PROVE  Once'
<1>1. /\ service.inbox # <<>> /\ service'.inbox = Tail(service.inbox)
      /\ arb' = arb /\ todo' = todo /\ answered' = answered /\ env' = env
      /\ m.do # "commit" => tasks' = tasks
  BY AnswerFacts, ServiceSteps
<1>2. OnePlace /\ Numbered /\ AllApart /\ Apart(tasks) /\ Apart(service.inbox)
      /\ IsSeq(tasks) /\ IsSeq(service.inbox) /\ env.flushes \in Nat
  BY AnswerFacts DEF Once, AllApart, Shapes
<1>3. /\ HeldIn(service.inbox) = CbsOf(m) \cup HeldIn(service'.inbox)
      /\ Apart(service'.inbox) /\ CbsOf(m) \cap HeldIn(service'.inbox) = {}
  BY <1>1, <1>2, HeldTail
<1>4. "inbox" \in Kinds /\ "tasks" \in Kinds /\ IPC \in Threads /\ "inbox" # "tasks"
  BY ArbiterConstants DEF Kinds
<1>5. HeldIn(service.inbox) \cap HeldIn(tasks) = {}
  <2>1. Held("inbox", IPC) \cap Held("tasks", IPC) = {}
    BY <1>2, <1>4 DEF OnePlace
  <2> QED BY <2>1, HeldFacts
<1>6. HeldIn(tasks') \subseteq HeldIn(tasks) \cup CbsOf(m) /\ Apart(tasks')
  <2>1. CASE tasks' = tasks
    BY <1>2, <2>1
  <2>2. CASE tasks' # tasks
    <3>1. m.do = "commit" /\ tasks' = Append(tasks, Callback(m.cbs))
      BY <1>1, <2>2, ServiceLands
    <3>2. PICK x : x = Callback(m.cbs) /\ CbsOf(x) = CbsOf(m)
      BY <3>1 DEF Callback, CbsOf
    <3>3. HeldIn(tasks) \cap CbsOf(x) = {} /\ tasks' = Append(tasks, x)
      BY <1>3, <1>5, <3>1, <3>2
    <3> QED BY <1>2, <3>2, <3>3, HeldAppend
  <2> QED BY <2>1, <2>2
<1>7. AllApart'
  BY <1>1, <1>2, <1>3, <1>6 DEF AllApart, Apart
<1>8. ASSUME NEW l \in Kinds, NEW u \in Threads, l \notin {"inbox", "tasks"} \/ u # IPC
      PROVE  Held(l, u)' \subseteq Held(l, u)
  <2>1. CASE l = "todo"
    BY <1>1, <2>1, HeldFacts, HeldFactsNext
  <2>2. CASE l # "todo" /\ u # IPC
    BY <2>2, HeldFactsNext
  <2>3. CASE l \in {"pending", "answered"} /\ u = IPC
    BY <1>1, <2>3, HeldFacts, HeldFactsNext
  <2> QED BY <1>8, <2>1, <2>2, <2>3 DEF Kinds
<1>9. Elsewhere("inbox", IPC, "tasks", IPC)
  BY <1>8 DEF Elsewhere
<1>10. PICK none : none = {}
  OBVIOUS
<1>11. /\ Held("inbox", IPC)' \cup Held("tasks", IPC)'
             \subseteq Held("inbox", IPC) \cup Held("tasks", IPC) \cup none
       /\ Held("inbox", IPC)' \cap Held("tasks", IPC)' = {}
  BY <1>3, <1>5, <1>6, HeldFacts, HeldFactsNext
<1>12. /\ \A cb \in none : cb.k = env.flushes + 1 /\ env'.flushes = env.flushes + 1
       /\ env'.flushes \in Nat /\ env'.flushes >= env.flushes
  BY <1>1, <1>2, <1>10
<1>13. OnePlace' /\ Numbered'
  BY <1>2, <1>4, <1>9, <1>11, <1>12, Transfer
<1> QED BY <1>7, <1>13 DEF Once

LEMMA ServiceAnswers ==
  ASSUME AnswerInv, StreamInv', ServiceStep
  PROVE  Answers'
<1>1. PICK m : m = Head(service.inbox)
  OBVIOUS
<1>2. Once'
  BY <1>1, ServiceOnce
<1>3. CASE m.do # "commit"
  BY <1>1, <1>2, <1>3, ServiceOther DEF Answers
<1>4. CASE m.do = "commit"
  <2>1. /\ arb' = arb /\ todo' = todo
    BY <1>1, AnswerFacts, ServiceSteps
  <2>2. Carried' /\ Given' /\ Replies' /\ Grows /\ \A cb \in m.cbs : Arrived(cb)'
    BY <1>1, <1>4, ServiceCarried
  <2>3. \A x \in Elems(tasks') : x \in Elems(tasks) \/ x = Callback(m.cbs)
    <3>1. tasks' = IF m.cbs = {} THEN tasks ELSE Append(tasks, Callback(m.cbs))
      BY <1>1, <1>4, ServiceLands
    <3> QED BY <3>1, AnswerFacts, AppendSeq DEF Shapes
  <2>4. Backed(Callback(m.cbs))'
    <3>0. Callback(m.cbs).do = "callback" /\ Callback(m.cbs).cbs = m.cbs
      BY DEF Callback
    <3>1. PICK x : x = Callback(m.cbs) /\ x.do = "callback" /\ x.cbs = m.cbs
      BY <3>0
    <3>2. Backed(x)'
      BY <2>2, <3>1 DEF Backed, BackedTask
    <3> QED BY <3>1, <3>2
  <2>5. /\ \A cb : Covered(cb) => Covered(cb)'
        /\ \A x : Backed(x) => Backed(x)'
    BY <2>2, AnswerFacts, GrowsBacked
  <2>6. \A t, x : Awaits(t, x) => Awaits(t, x)'
    BY <2>1 DEF Awaits, Now
  <2>7. Waiting'
    <3>1. \A cb \in arb'.callbacks : Covered(cb)'
      BY <2>1, <2>5, AnswerFacts DEF Waiting
    <3>2. \A x \in Elems(tasks') : Backed(x)'
      BY <2>3, <2>4, <2>5, AnswerFacts DEF Waiting
    <3>3. \A t \in Threads : \A x \in Elems(todo'[t]) : Backed(x)' \/ Awaits(t, x)'
      BY <2>1, <2>5, <2>6, AnswerFacts DEF Waiting
    <3> QED BY <3>1, <3>2, <3>3 DEF Waiting
  <2> QED BY <1>2, <2>2, <2>7 DEF Answers
<1> QED BY <1>3, <1>4

(***************************************************************************)
(* The theorem                                                             *)
(***************************************************************************)
LEMMA InitAnswers ==
  ASSUME Init
  PROVE  Answers
<1>1. /\ todo = [t \in Threads |-> <<>>] /\ tasks = <<>> /\ answered = <<>>
      /\ service = [inbox |-> <<>>, landed |-> <<>>, registered |-> {}, flushed |-> 0]
  BY Zenon DEF Init
<1>2. /\ arb.callbacks = {} /\ arb.req.flush = 0 /\ env.flushes = 0 /\ env.asked = <<>>
  <2>1. PICK c \in Scenarios :
          /\ env = [c |-> c, claimed |-> {}, flushes |-> 0, asked |-> <<>>, overtaken |-> {}]
          /\ arb = [bound |-> c.bound, fully_bound |-> c.bound,
                    was_always_bound |-> c.bound,
                    req |-> NoRequest, scheduled |-> FALSE, callbacks |-> {},
                    pending |-> {}, reservations |-> [r \in Reservations |-> Absent],
                    ids |-> {}, last_id |-> 0, did_shutdown |-> FALSE, direct |-> FALSE]
    BY Zenon DEF Init
  <2> QED BY <2>1 DEF NoRequest
<1>3. PICK e : /\ e = <<>> /\ Elems(e) = {} /\ DOMAIN e = {} /\ HeldIn(e) = {} /\ Apart(e)
               /\ Len(e) = 0
  <2>1. DOMAIN <<>> = {}
    OBVIOUS
  <2> QED BY <2>1, ShortSeqs, HeldShort
<1>4. /\ tasks = e /\ answered = e /\ service.inbox = e /\ service.landed = e
      /\ service.flushed = 0 /\ \A t \in Threads : todo[t] = e
  BY <1>1, <1>3
<1>5. Wire = e
  BY <1>3, <1>4, ArbiterConstants DEF Wire
<1>6. Sent = {}
  BY <1>3, <1>5 DEF Sent, SentIn
<1>7. Waiting /\ Carried /\ Given
  BY <1>2, <1>3, <1>4, <1>6 DEF Waiting, Carried, Given
<1>8. Replies
  BY <1>2, <1>3, <1>4, <1>6 DEF Replies
<1>9. \A k, t : t \in Threads => Held(k, t) = {}
  BY <1>2, <1>3, <1>4 DEF Held
<1>10. Once
  BY <1>3, <1>4, <1>9 DEF Once, OnePlace, Numbered, AllApart
<1> QED BY <1>7, <1>8, <1>10 DEF Answers

LEMMA QuietAnswers ==
  ASSUME AnswerInv, StreamInv', QuietStep
  PROVE  Answers'
<1>1. NeutralStep
  BY DEF QuietStep, NeutralStep
<1> QED BY <1>1, NeutralAnswers

LEMMA NextAnswers ==
  ASSUME AnswerInv, StreamInv', [Next]_vars
  PROVE  Answers'
<1>0. ThreadInv
  BY AnswerFacts
<1>1. ASSUME NEW t \in Threads, Call(t) PROVE Answers'
  <2>1. ASSUME NEW r \in Reservations, AbortStartupTracingForReservation(t, r)
        PROVE  Answers'
    BY <1>0, <2>1, AbortPostNeutral, AbortBindSteps, NeutralAnswers, BindAnswers
  <2>2. ASSUME NEW b \in Buffers \cup Reservations, CreateTraceWriter(t, b)
        PROVE  Answers'
    BY <1>0, <2>2, CreateTraceWriterNeutral, NeutralAnswers
  <2> QED BY <1>0, <1>1, <2>1, <2>2, DestroyTraceWriterNeutral, GetNewChunkNeutral,
     GetNewChunkExhaustedNeutral, FinalizeNestedNeutral, QuietAnswers, SendPatchesAnswers,
     FlushWriterAnswers, NotifyFlushAnswers DEF Call
<1>2. ASSUME NEW t \in Threads, Step(t) PROVE Answers'
  BY <1>0, <1>2, ReleaseWriterIDNeutral, RetryGetNewChunkNeutral, PostDelayedTaskNeutral,
     QuietAnswers, PostTaskAnswers, ReturnAnswers, FlushPendingAnswers, CallEndpointAnswers
     DEF Step
<1>3. ASSUME Bind PROVE Answers'
  BY <1>0, <1>3, BindToProducerEndpointSteps, BindStartupTargetBufferSteps, BindAnswers,
     QuietNeutral, QuietAnswers DEF Bind
<1>4. ASSUME TaskRunner PROVE Answers'
  BY <1>0, <1>4, RunDelayedTaskNeutral, ClearDelayedNeutral, QuietAnswers, RunTaskAnswers,
     RunCallbackAnswers, RunAbortSteps, BindAnswers DEF TaskRunner
<1>5. ASSUME UNCHANGED vars PROVE Answers'
  <2>1. Waiting'
    BY <1>5, AnswerFacts DEF vars, Waiting, Landed, Covered, Backed, BackedTask, Arrived,
       Awaits, Now
  <2>3. Carried' /\ Given' /\ Replies'
    <3>1. Wire' = Wire
      BY <1>5 DEF vars, Wire
    <3>2. Carried'
      BY <1>5, <3>1, AnswerFacts DEF vars, Carried, Sent
    <3>3. Given'
      BY <1>5, AnswerFacts DEF vars, Given, Arrived, Landed
    <3>4. Replies'
      BY <1>5, <3>1, AnswerFacts DEF vars, Replies, Sent, Asked, Landed
    <3> QED BY <3>2, <3>3, <3>4
  <2>2. Once'
    BY <1>5, AnswerFacts, SMTT(40) DEF vars, Once, OnePlace, Numbered, AllApart, Held
  <2> QED BY <2>1, <2>2, <2>3 DEF Answers
<1> QED BY <1>1, <1>2, <1>3, <1>4, <1>5, ServiceAnswers DEF Next

(* The invariant from which the theorem follows.                           *)
THEOREM AnswerInvHolds == Spec => []AnswerInv
<1>1. Init => Answers
  BY InitAnswers
<1>2. ASSUME StreamInv, StreamInv', Answers, [Next]_vars PROVE Answers'
  <2>1. AnswerInv
    BY <1>2 DEF Answers, AnswerInv
  <2> QED BY <1>2, <2>1, NextAnswers
<1>3. StreamInv /\ Answers => AnswerInv
  BY DEF Answers, AnswerInv
<1> QED BY <1>1, <1>2, <1>3, StreamInvHolds, PTL DEF Spec

(* A flush callback runs once, after the service has got every chunk that  *)
(* its writer returned, and a flush reply arrives after every chunk        *)
(* returned before it, also when one reply stands for several requests     *)
(* (FlushPendingCommitDataRequests, NotifyFlushComplete,                   *)
(* TraceWriterImpl::Flush).                                                *)
THEOREM AnswersFollowDataHolds == Spec => []AnswersFollowData
<1>1. ASSUME AnswerInv PROVE AnswersFollowData
  <2>1. Given /\ Replies /\ AllApart
    BY <1>1 DEF AnswerInv, Once
  <2> QED BY <2>1 DEF AnswersFollowData, Given, Arrived, Replies, Asked, AllApart
<1> QED BY <1>1, AnswerInvHolds, PTL

(***************************************************************************)
(* Counting                                                                *)
(***************************************************************************)
LEMMA SameNumber ==
  ASSUME NEW S, NEW T, IsFiniteSet(S), NEW f \in [S -> T],
         \A a, b \in S : f[a] = f[b] => a = b, \A c \in T : \E a \in S : f[a] = c
  PROVE  IsFiniteSet(T) /\ Cardinality(T) = Cardinality(S)
<1>1. f \in Bijection(S, T)
  BY DEF Bijection, Injection, Surjection, IsInjective
<1>2. ExistsBijection(S, T)
  BY <1>1 DEF ExistsBijection
<1> QED BY <1>2, FS_Bijection

LEMMA DisjointNumber ==
  ASSUME NEW S, NEW T, IsFiniteSet(S), IsFiniteSet(T), S \cap T = {}
  PROVE  /\ IsFiniteSet(S \cup T) /\ Cardinality(S \cup T) = Cardinality(S) + Cardinality(T)
         /\ Cardinality(S) \in Nat /\ Cardinality(T) \in Nat
<1>1. Cardinality(S) \in Nat /\ Cardinality(T) \in Nat
  BY FS_CardinalityType
<1>2. Cardinality(S \cap T) = 0
  BY FS_EmptySet
<1>3. /\ IsFiniteSet(S \cup T)
      /\ Cardinality(S \cup T) = Cardinality(S) + Cardinality(T) - Cardinality(S \cap T)
  BY FS_Union
<1> QED BY <1>1, <1>2, <1>3

LEMMA PlacesFinite ==
  ASSUME NEW s, IsSeq(s), NEW S, S \subseteq DOMAIN s
  PROVE  IsFiniteSet(S) /\ Cardinality(S) \in Nat
<1>1. Len(s) \in Nat /\ DOMAIN s = 1 .. Len(s)
  BY DEF IsSeq
<1>2. IsFiniteSet(DOMAIN s)
  BY <1>1, FS_Interval
<1>3. S \in SUBSET DOMAIN s
  OBVIOUS
<1> QED BY <1>2, <1>3, FS_Subset, FS_CardinalityType

(* The members of a set of positions in their order.                       *)
Enumerates(S, c) ==
  /\ IsFiniteSet(S) /\ c \in Nat
  /\ \A k \in 1 .. c : Nth(S, k) \in S
  /\ \A k, l \in 1 .. c : Nth(S, k) = Nth(S, l) => k = l
  /\ \A i \in S : \E k \in 1 .. c : Nth(S, k) = i
LEMMA NthMember ==
  ASSUME NEW m \in Nat, NEW S, S \subseteq 1 .. m
  PROVE  Enumerates(S, Cardinality(S))
<1> DEFINE c == Cardinality(S)
<1> DEFINE Upto(i) == {j \in S : j <= i}
           f == [i \in S |-> Cardinality(Upto(i))]
<1>1. IsFiniteSet(1 .. m)
  BY FS_Interval
<1>2. S \in SUBSET (1 .. m)
  OBVIOUS
<1>3. IsFiniteSet(S) /\ c \in Nat
  BY <1>1, <1>2, FS_Subset, FS_CardinalityType
<1>4. \A i \in S : IsFiniteSet(Upto(i)) /\ Cardinality(Upto(i)) \in 1 .. c
  <2>1. SUFFICES ASSUME NEW i \in S PROVE IsFiniteSet(Upto(i)) /\ Cardinality(Upto(i)) \in 1 .. c
    OBVIOUS
  <2>2. Upto(i) \in SUBSET S /\ i \in Upto(i)
    OBVIOUS
  <2>3. IsFiniteSet(Upto(i)) /\ Cardinality(Upto(i)) <= c /\ Cardinality(Upto(i)) \in Nat
    BY <1>3, <2>2, FS_Subset, FS_CardinalityType
  <2>4. Cardinality(Upto(i)) # 0
    BY <2>2, <2>3, FS_EmptySet
  <2> QED BY <1>3, <2>3, <2>4
<1>5. \A i, j \in S : i < j => Cardinality(Upto(i)) < Cardinality(Upto(j))
  <2>1. SUFFICES ASSUME NEW i \in S, NEW j \in S, i < j
                 PROVE  Cardinality(Upto(i)) < Cardinality(Upto(j))
    OBVIOUS
  <2>2. Upto(i) \in SUBSET Upto(j) /\ Upto(i) # Upto(j)
    <3>1. j \in Upto(j) /\ j \notin Upto(i)
      BY <2>1
    <3>2. \A k \in S : k <= i => k <= j
      BY <2>1
    <3>3. Upto(i) \subseteq Upto(j)
      BY <3>2
    <3> QED BY <3>1, <3>3
  <2>3. /\ Cardinality(Upto(i)) <= Cardinality(Upto(j))
        /\ Cardinality(Upto(j)) # Cardinality(Upto(i))
    BY <1>4, <2>2, FS_Subset
  <2> QED BY <1>4, <2>3
<1>6. \A i, j \in S : Cardinality(Upto(i)) = Cardinality(Upto(j)) => i = j
  <2>1. SUFFICES ASSUME NEW i \in S, NEW j \in S, Cardinality(Upto(i)) = Cardinality(Upto(j))
                 PROVE  i = j
    OBVIOUS
  <2>2. Cardinality(Upto(i)) \in Nat /\ Cardinality(Upto(j)) \in Nat
    BY <1>4, <1>3
  <2>3. i \in Int /\ j \in Int
    OBVIOUS
  <2>4. ~(i < j) /\ ~(j < i)
    BY <1>5, <2>1, <2>2
  <2> QED BY <2>3, <2>4
<1>7. f \in Injection(S, 1 .. c)
  <2>1. f \in [S -> 1 .. c]
    BY <1>4
  <2>2. IsInjective(f)
    BY <1>6 DEF IsInjective
  <2> QED BY <2>1, <2>2 DEF Injection
<1>8. f \in Surjection(S, 1 .. c)
  <2>1. IsFiniteSet(1 .. c) /\ Cardinality(1 .. c) = c
    BY <1>3, FS_Interval
  <2> QED BY <1>7, <2>1, FS_Injection
<1>9. \A k \in 1 .. c : \E i \in S : Cardinality(Upto(i)) = k
  BY <1>8 DEF Surjection
<1>10. \A k \in 1 .. c : Nth(S, k) \in S /\ Cardinality(Upto(Nth(S, k))) = k
  BY <1>9 DEF Nth
<1>11. \A i \in S : \E k \in 1 .. c : Nth(S, k) = i
  BY <1>4, <1>6, <1>10
<1> QED BY <1>3, <1>10, <1>11 DEF Enumerates

(***************************************************************************)
(* The patches of a writer                                                 *)
(***************************************************************************)
LEMMA SmallestNumber ==
  ASSUME NEW T, T \subseteq Nat, T # {}
  PROVE  \E x \in T : \A y \in T : x <= y
<1>1. \E x \in T : \A y \in T : ~(<<y, x>> \in OpToRel(<, Nat))
  BY NatLessThanWellFounded, WFMin, Zenon
<1>2. PICK x \in T : \A y \in T : ~(<<y, x>> \in OpToRel(<, Nat))
  BY <1>1
<1>3. \A y \in T : x <= y
  <2>1. SUFFICES ASSUME NEW y \in T, y < x PROVE FALSE
    OBVIOUS
  <2>2. <<y, x>> \in OpToRel(<, Nat)
    BY <2>1 DEF OpToRel
  <2> QED BY <1>2, <2>2
<1> QED BY <1>3

LEMMA NumPatchedRange ==
  ASSUME NEW list, IsSeq(list)
  PROVE  Len(list) \in Nat /\ DOMAIN list = 1 .. Len(list) /\ NumPatched(list) \in 0 .. Len(list)
<1> DEFINE len == Len(list)
           open == {i \in 1 .. len : ~list[i].done}
           Ends(m) == /\ \A i \in 1 .. m : list[i].done
                      /\ m < len => ~list[m + 1].done
<1>1. len \in Nat /\ DOMAIN list = 1 .. len
  BY DEF IsSeq
<1>2. \E m \in 0 .. len : Ends(m)
  <2>1. CASE open = {}
    BY <1>1, <2>1
  <2>2. CASE open # {}
    <3>1. open \subseteq Nat
      BY <1>1
    <3>2. PICK x \in open : \A y \in open : x <= y
      <4> HIDE DEF open
      <4> QED BY <2>2, <3>1, SmallestNumber
    <3>3. x - 1 \in 0 .. len /\ Ends(x - 1)
      BY <1>1, <3>2
    <3> QED BY <3>3
  <2> QED BY <2>1, <2>2
<1>3. NumPatched(list) = CHOOSE m \in 0 .. len : Ends(m)
  BY DEF NumPatched
<1> QED BY <1>1, <1>2, <1>3

(* The patches of a list for one chunk, counted in its two parts.          *)
LEMMA CountSplit ==
  ASSUME NEW list, IsSeq(list), NEW n
  PROVE  /\ IsSeq(Unpatched(list))
         /\ \A i \in DOMAIN Unpatched(list) : Unpatched(list)[i] \in Elems(list)
         /\ CountFor(list, n) \in Nat /\ CountFor(Patched(list), n) \in Nat
         /\ CountFor(Unpatched(list), n) \in Nat
         /\ CountFor(list, n) = CountFor(Patched(list), n) + CountFor(Unpatched(list), n)
         /\ CountFor(Patched(list), n)
              = Cardinality({i \in 1 .. NumPatched(list) : list[i].n = n})
<1>1. PICK len \in Nat, m \in Nat :
        len = Len(list) /\ m = NumPatched(list) /\ m <= len /\ DOMAIN list = 1 .. len
  BY NumPatchedRange
<1>2. PICK a, b : a = Patched(list) /\ b = Unpatched(list)
  OBVIOUS
<1>3. a = SubSeq(list, 1, m) /\ b = SubSeq(list, m + 1, len)
  BY <1>1, <1>2 DEF Patched, Unpatched
<1>4. PICK S : S = Elems(list)
  OBVIOUS
<1>5. \A i \in 1 .. len : list[i] \in S
  BY <1>1, <1>4 DEF Elems
<1>6. /\ a \in Seq(S) /\ Len(a) = m /\ \A i \in 1 .. m : a[i] = list[i]
  <2>1. \A i \in 1 .. m : list[i] \in S
    BY <1>1, <1>5
  <2>2. /\ SubSeq(list, 1, m) \in Seq(S)
        /\ Len(SubSeq(list, 1, m)) = IF 1 <= m THEN m - 1 + 1 ELSE 0
        /\ \A i \in 1 .. m - 1 + 1 : SubSeq(list, 1, m)[i] = list[1 + i - 1]
    BY <1>1, <2>1, SubSeqProperties
  <2> QED BY <1>1, <1>3, <2>2
<1>7. /\ b \in Seq(S) /\ Len(b) = len - m /\ \A i \in 1 .. len - m : b[i] = list[m + i]
  <2>1. \A i \in m + 1 .. len : list[i] \in S
    BY <1>1, <1>5
  <2>2. /\ SubSeq(list, m + 1, len) \in Seq(S)
        /\ Len(SubSeq(list, m + 1, len)) = IF m + 1 <= len THEN len - (m + 1) + 1 ELSE 0
        /\ \A i \in 1 .. len - (m + 1) + 1 : SubSeq(list, m + 1, len)[i] = list[m + 1 + i - 1]
    BY <1>1, <2>1, SubSeqProperties
  <2>3. Len(b) = len - m
    BY <1>1, <1>3, <2>2
  <2>4. \A i \in 1 .. len - m : b[i] = list[m + i]
    <3>1. SUFFICES ASSUME NEW i \in 1 .. len - m PROVE b[i] = list[m + i]
      OBVIOUS
    <3>2. i \in 1 .. len - (m + 1) + 1 /\ m + 1 + i - 1 = m + i
      BY <1>1
    <3> QED BY <1>3, <2>2, <3>2
  <2> QED BY <1>3, <2>2, <2>3, <2>4
<1> DEFINE First == {i \in 1 .. m : list[i].n = n}
           Last == {i \in m + 1 .. len : list[i].n = n}
           Mine == {i \in 1 .. len - m : b[i].n = n}
<1>8. IsSeq(b) /\ \A i \in DOMAIN b : b[i] \in S
  BY <1>7, TypedIsSeq
<1>9. /\ CountFor(list, n) = Cardinality({i \in 1 .. len : list[i].n = n})
      /\ CountFor(a, n) = Cardinality(First) /\ CountFor(b, n) = Cardinality(Mine)
  <2>1. DOMAIN a = 1 .. m /\ DOMAIN b = 1 .. len - m
    BY <1>1, <1>6, <1>7
  <2>2. {i \in 1 .. m : a[i].n = n} = First
    BY <1>6
  <2> QED BY <1>1, <2>1, <2>2 DEF CountFor
<1>10. IsFiniteSet(First) /\ IsFiniteSet(Last) /\ IsFiniteSet(Mine)
  <2>1. \A i, j \in Int : IsFiniteSet(i .. j)
    BY FS_Interval
  <2>3. m \in Int /\ m + 1 \in Int /\ len \in Int /\ len - m \in Int /\ 1 \in Int
    OBVIOUS
  <2>4. IsFiniteSet(1 .. m) /\ IsFiniteSet(m + 1 .. len) /\ IsFiniteSet(1 .. len - m)
    BY <2>1, <2>3
  <2>2. First \in SUBSET (1 .. m) /\ Last \in SUBSET (m + 1 .. len) /\ Mine \in SUBSET (1 .. len - m)
    OBVIOUS
  <2> QED BY <2>2, <2>4, FS_Subset
<1>11. Cardinality(Last) = Cardinality(Mine)
  <2> DEFINE f == [i \in Mine |-> m + i]
  <2>1. f \in [Mine -> Last]
    BY <1>1, <1>7
  <2>2. \A i, j \in Mine : f[i] = f[j] => i = j
    BY <1>1
  <2>3. \A c \in Last : \E i \in Mine : f[i] = c
    <3>1. SUFFICES ASSUME NEW c \in Last PROVE \E i \in Mine : f[i] = c
      OBVIOUS
    <3>2. c - m \in 1 .. len - m /\ m + (c - m) = c
      BY <1>1
    <3>3. c - m \in Mine
      BY <1>7, <3>2
    <3> QED BY <3>2, <3>3
  <2> HIDE DEF f, Mine, Last
  <2> QED BY <1>10, <2>1, <2>2, <2>3, SameNumber
<1>12. {i \in 1 .. len : list[i].n = n} = First \cup Last /\ First \cap Last = {}
  BY <1>1
<1>13. /\ Cardinality(First \cup Last) = Cardinality(First) + Cardinality(Last)
       /\ Cardinality(First) \in Nat /\ Cardinality(Last) \in Nat
  BY <1>10, <1>12, DisjointNumber
<1>14. /\ CountFor(list, n) = CountFor(a, n) + CountFor(b, n)
       /\ CountFor(a, n) \in Nat /\ CountFor(b, n) \in Nat
  BY <1>9, <1>11, <1>12, <1>13
<1> QED BY <1>1, <1>2, <1>4, <1>8, <1>9, <1>14

(* Positions in a sequence and in the one that follows it.                 *)
Shifted(S, d) == {d + j : j \in S}
LEMMA JoinNumber ==
  ASSUME NEW a, NEW b, IsSeq(a), IsSeq(b), NEW A, A \subseteq DOMAIN a, NEW B, B \subseteq DOMAIN b,
         NEW C, C = A \cup Shifted(B, Len(a))
  PROVE  /\ Cardinality(C) = Cardinality(A) + Cardinality(B)
         /\ Cardinality(A) \in Nat /\ Cardinality(B) \in Nat
<1> DEFINE Moved == {Len(a) + j : j \in B}
           f == [j \in B |-> Len(a) + j]
<1>1. /\ Len(a) \in Nat /\ DOMAIN a = 1 .. Len(a)
      /\ Len(b) \in Nat /\ DOMAIN b = 1 .. Len(b)
  BY DEF IsSeq
<1>2. IsFiniteSet(A) /\ IsFiniteSet(B)
  BY PlacesFinite
<1>3. f \in [B -> Moved] /\ \A c \in Moved : \E j \in B : f[j] = c
  OBVIOUS
<1>4. \A i, j \in B : f[i] = f[j] => i = j
  BY <1>1
<1>5. IsFiniteSet(Moved) /\ Cardinality(Moved) = Cardinality(B)
  <2> HIDE DEF f, Moved
  <2> QED BY <1>2, <1>3, <1>4, SameNumber
<1>6. A \cap Moved = {}
  BY <1>1
<1> HIDE DEF Moved
<1>7. C = A \cup Moved
  BY DEF Moved, Shifted
<1> QED BY <1>2, <1>5, <1>6, <1>7, DisjointNumber

LEMMA CountConcat ==
  ASSUME NEW a, NEW b, IsSeq(a), IsSeq(b), NEW n
  PROVE  CountFor(a \o b, n) = CountFor(a, n) + CountFor(b, n)
<1> DEFINE A == {i \in DOMAIN a : a[i].n = n}
           B == {i \in DOMAIN b : b[i].n = n}
           C == {i \in DOMAIN (a \o b) : (a \o b)[i].n = n}
<1>1. Joins(a \o b, a, b)
  BY JoinedLists
<1>2. PICK c : c = a \o b
  OBVIOUS
<1>3. {i \in DOMAIN c : c[i].n = n} = A \cup Shifted(B, Len(a))
  BY <1>1, <1>2 DEF Joins, Shifted
<1>4. C = A \cup Shifted(B, Len(a))
  BY <1>2, <1>3
<1>5. A \subseteq DOMAIN a /\ B \subseteq DOMAIN b
  OBVIOUS
<1>6. Cardinality(C) = Cardinality(A) + Cardinality(B)
  <2> HIDE DEF A, B, C
  <2> QED BY <1>4, <1>5, JoinNumber
<1> QED BY <1>6 DEF CountFor

LEMMA PatchesConcat ==
  ASSUME NEW a, NEW b, IsSeq(a), IsSeq(b), NEW w, NEW n
  PROVE  /\ Cardinality(PatchesIn(a \o b, w, n))
              = Cardinality(PatchesIn(a, w, n)) + Cardinality(PatchesIn(b, w, n))
         /\ Cardinality(PatchesIn(a, w, n)) \in Nat /\ Cardinality(PatchesIn(b, w, n)) \in Nat
<1>1. Joins(a \o b, a, b)
  BY JoinedLists
<1>2. PICK c : c = a \o b
  OBVIOUS
<1>3. PatchesIn(c, w, n) = PatchesIn(a, w, n) \cup Shifted(PatchesIn(b, w, n), Len(a))
  BY <1>1, <1>2 DEF Joins, PatchesIn, Shifted
<1>4. PatchesIn(a, w, n) \subseteq DOMAIN a /\ PatchesIn(b, w, n) \subseteq DOMAIN b
  BY DEF PatchesIn
<1> QED BY <1>2, <1>3, <1>4, JoinNumber

(* The patches that are sent, of those that are ready.                     *)
ToService(req, w, n) == ~arb.direct \/ FindChunk(req, w, n) = {}
LEMMA SentCount ==
  ASSUME NEW req, NEW w, NEW list, IsSeq(list), NEW sent, sent = SentPatches(req, w, list)
  PROVE  /\ IsSeq(sent)
         /\ \A k \in DOMAIN sent : \E i \in DOMAIN list : sent[k] = PatchEntry(w, list, i)
         /\ \A n : ToService(req, w, n)
              => Cardinality(PatchesIn(sent, w, n)) = CountFor(Patched(list), n)
         /\ \A n : ~ToService(req, w, n) => PatchesIn(sent, w, n) = {}
         /\ \A v, n : v # w => PatchesIn(sent, v, n) = {}
<1> DEFINE m == NumPatched(list)
           places == {i \in 1 .. m : ToService(req, w, list[i].n)}
           c == Cardinality(places)
<1>1. Len(list) \in Nat /\ DOMAIN list = 1 .. Len(list) /\ m \in 0 .. Len(list)
  BY NumPatchedRange
<1>2. /\ IsFiniteSet(places) /\ c \in Nat
      /\ \A k \in 1 .. c : Nth(places, k) \in places
      /\ \A k, l \in 1 .. c : Nth(places, k) = Nth(places, l) => k = l
      /\ \A i \in places : \E k \in 1 .. c : Nth(places, k) = i
  <2>1. m \in Nat /\ places \subseteq 1 .. m
    BY <1>1
  <2>2. Enumerates(places, c)
    <3> HIDE DEF places, m
    <3> QED BY <2>1, NthMember
  <2> HIDE DEF places, m, c
  <2> QED BY <2>2 DEF Enumerates
<1>3. sent = [k \in 1 .. c |-> PatchEntry(w, list, Nth(places, k))]
  BY DEF SentPatches, ToService
<1>4. \A i \in places : i \in DOMAIN list
  BY <1>1
<1> HIDE DEF c
<1>5. IsSeq(sent)
  <2> HIDE DEF places, m
  <2>1. DOMAIN sent = 1 .. c /\ sent = [k \in 1 .. c |-> sent[k]]
    BY <1>3
  <2>2. \A k \in 1 .. c : sent[k] \in Elems(sent)
    BY <2>1 DEF Elems
  <2> QED BY <1>2, <2>1, <2>2 DEF IsSeq
<1>6. \A k \in 1 .. c : sent[k].w = w /\ sent[k].n = list[Nth(places, k)].n
  <2> HIDE DEF places
  <2>1. \A i : PatchEntry(w, list, i).w = w /\ PatchEntry(w, list, i).n = list[i].n
    BY DEF PatchEntry
  <2>2. \A k \in 1 .. c : sent[k] = PatchEntry(w, list, Nth(places, k))
    BY <1>3
  <2> QED BY <2>1, <2>2
<1>7. DOMAIN sent = 1 .. c
  BY <1>3
<1>8. \A v, n : v # w => PatchesIn(sent, v, n) = {}
  <2> HIDE DEF places
  <2> QED BY <1>6, <1>7 DEF PatchesIn
<1>9. ASSUME NEW n, ~ToService(req, w, n)
      PROVE  PatchesIn(sent, w, n) = {}
  <2>1. SUFFICES ASSUME NEW k \in PatchesIn(sent, w, n) PROVE FALSE
    OBVIOUS
  <2>2. k \in 1 .. c /\ sent[k].n = n
    BY <1>7 DEF PatchesIn
  <2>3. Nth(places, k) \in places /\ list[Nth(places, k)].n = n
    BY <1>2, <1>6, <2>2
  <2>4. PICK i : i = Nth(places, k)
    OBVIOUS
  <2>5. i \in places /\ list[i].n = n
    BY <2>3, <2>4
  <2> QED BY <1>9, <2>5
<1>10. ASSUME NEW n, ToService(req, w, n)
       PROVE  Cardinality(PatchesIn(sent, w, n)) = CountFor(Patched(list), n)
  <2> DEFINE T == {i \in 1 .. m : list[i].n = n}
             S == PatchesIn(sent, w, n)
             f == [k \in S |-> Nth(places, k)]
  <2>1. CountFor(Patched(list), n) = Cardinality(T)
    BY CountSplit
  <2>2. \A k : k \in S <=> k \in 1 .. c /\ list[Nth(places, k)].n = n
    <3> HIDE DEF places
    <3> QED BY <1>6, <1>7 DEF PatchesIn
  <2>3. \A i : i \in T <=> i \in places /\ list[i].n = n
    BY <1>10
  <2>4. f \in [S -> T]
    <3> HIDE DEF places, T, S
    <3>1. \A k \in S : Nth(places, k) \in T
      BY <1>2, <2>2, <2>3
    <3> QED BY <3>1
  <2>5. \A i, j \in S : f[i] = f[j] => i = j
    <3> HIDE DEF places, T, S
    <3> QED BY <1>2, <2>2
  <2>6. \A i \in T : \E k \in S : f[k] = i
    <3> HIDE DEF places, T, S
    <3>1. SUFFICES ASSUME NEW i \in T PROVE \E k \in S : f[k] = i
      OBVIOUS
    <3>2. PICK k \in 1 .. c : Nth(places, k) = i
      BY <1>2, <2>3
    <3>3. k \in S
      BY <2>2, <2>3, <3>2
    <3> QED BY <3>2, <3>3
  <2>7. IsFiniteSet(S)
    <3>1. S \subseteq DOMAIN sent
      BY DEF PatchesIn
    <3> HIDE DEF S
    <3> QED BY <1>5, <3>1, PlacesFinite
  <2>8. Cardinality(T) = Cardinality(S)
    <3> HIDE DEF places, T, S, f
    <3> QED BY <2>4, <2>5, <2>6, <2>7, SameNumber
  <2> QED BY <2>1, <2>8
<1>11. \A k \in DOMAIN sent : \E i \in DOMAIN list : sent[k] = PatchEntry(w, list, i)
  <2>1. SUFFICES ASSUME NEW k \in 1 .. c
                 PROVE  \E i \in DOMAIN list : sent[k] = PatchEntry(w, list, i)
    BY <1>7
  <2>2. Nth(places, k) \in DOMAIN list
    <3> HIDE DEF places
    <3> QED BY <1>2, <1>4
  <2>3. sent[k] = PatchEntry(w, list, Nth(places, k))
    <3> HIDE DEF places
    <3> QED BY <1>3
  <2> HIDE DEF places
  <2> QED BY <2>2, <2>3
<1> HIDE DEF places, m
<1> QED BY <1>5, <1>8, <1>9, <1>10, <1>11
=============================================================================
