---------------------- MODULE SharedMemoryArbiterProofs ----------------------
(***************************************************************************)
(* Proofs for any number of threads, reservations, buffers, writers and    *)
(* chunks.  Part one: the arbiter loses no wake-up, THEOREM                *)
(* NoLostWakeUpHolds.  Part two: the chunks which writers return to the    *)
(* arbiter reach the service, each once, in order and for its buffer,      *)
(* THEOREM ChunksReachTheirBufferHolds.                                    *)
(***************************************************************************)
EXTENDS SharedMemoryArbiter, SequenceTheorems, TLAPS

(* The elements of a sequence, and being a sequence of whatever elements.  *)
Elems(s) == {s[i] : i \in DOMAIN s}
IsSeq(s) == s \in Seq(Elems(s))

(* The members of the records, and which variables hold sequences.         *)
Shapes ==
  /\ DOMAIN arb = {"bound", "fully_bound", "was_always_bound", "req", "scheduled",
                   "callbacks", "pending", "reservations", "ids", "last_id",
                   "did_shutdown", "direct"}
  /\ DOMAIN arb.req = {"open", "move", "patch", "flush"}
  /\ arb.bound \in BOOLEAN /\ arb.fully_bound \in BOOLEAN
  /\ arb.scheduled \in BOOLEAN /\ arb.req.open \in BOOLEAN
  /\ DOMAIN todo = Threads /\ \A t \in Threads : IsSeq(todo[t])
  /\ IsSeq(tasks) /\ delayed \in Nat
  /\ DOMAIN service = {"inbox", "landed", "registered", "flushed"}
  /\ IsSeq(service.inbox)

(* An arbiter is fully bound only when it is bound.                        *)
BoundFirst == arb.fully_bound => arb.bound

(* delayed_flush_scheduled_ is set only while a delayed flush is about to  *)
(* be posted, is posted, or has begun and not cleared the flag yet.        *)
Booked ==
  arb.scheduled => \/ delayed > 0
                   \/ Coming("delay") # {}
                   \/ todo[IPC] = <<Clear, Flush({})>>

(* The inductive invariant.                                                *)
WakeInv == Shapes /\ BoundFirst /\ Booked /\ NoLostWakeUp

(***************************************************************************)
(* Sequences of whatever elements                                          *)
(***************************************************************************)
(* What a typed sequence is.                                               *)
LEMMA TypedIsSeq ==
  ASSUME NEW S, NEW s \in Seq(S)
  PROVE  IsSeq(s) /\ Elems(s) \subseteq S
BY DEF IsSeq, Elems

(* Sequences of no and of one element.                                     *)
LEMMA ShortSeqs ==
  ASSUME NEW x
  PROVE  /\ IsSeq(<<>>) /\ Elems(<<>>) = {}
         /\ IsSeq(<<x>>) /\ Elems(<<x>>) = {x}
         /\ Len(<<x>>) = 1 /\ <<x>>[1] = x /\ Len(<<>>) = 0
<1>1. <<>> \in Seq({}) /\ <<x>> \in Seq({x})
  OBVIOUS
<1>2. IsSeq(<<>>) /\ IsSeq(<<x>>)
  BY <1>1, TypedIsSeq
<1>3. Elems(<<>>) = {} /\ Elems(<<x>>) = {x}
  BY DEF Elems
<1> QED BY <1>2, <1>3

(* Concatenation.                                                          *)
LEMMA ConcatSeq ==
  ASSUME NEW s, NEW r, IsSeq(s), IsSeq(r)
  PROVE  /\ IsSeq(s \o r) /\ Elems(s \o r) = Elems(s) \cup Elems(r)
         /\ Len(s) \in Nat /\ Len(r) \in Nat /\ Len(s \o r) = Len(s) + Len(r)
         /\ DOMAIN s = 1 .. Len(s) /\ DOMAIN r = 1 .. Len(r)
         /\ DOMAIN (s \o r) = 1 .. Len(s) + Len(r)
         /\ \A i \in DOMAIN s : (s \o r)[i] = s[i]
         /\ \A i \in DOMAIN r : (s \o r)[Len(s) + i] = r[i]
<1> DEFINE S == Elems(s) \cup Elems(r)
<1>1. s \in Seq(S) /\ r \in Seq(S)
  BY DEF IsSeq
<1> HIDE DEF S
<1>2. s \o r \in Seq(S) /\ Len(s \o r) = Len(s) + Len(r) /\ Len(s) \in Nat /\ Len(r) \in Nat
      /\ DOMAIN s = 1 .. Len(s) /\ DOMAIN r = 1 .. Len(r)
      /\ DOMAIN (s \o r) = 1 .. Len(s) + Len(r)
  BY <1>1
<1>3. \A i \in 1 .. Len(s) : (s \o r)[i] = s[i]
  BY <1>1
<1>4. \A i \in 1 .. Len(r) : (s \o r)[Len(s) + i] = r[i]
  BY <1>1
<1>5. Elems(s \o r) = Elems(s) \cup Elems(r)
  <2>1. \A i \in 1 .. Len(s) + Len(r) : i \in 1 .. Len(s) \/ \E j \in 1 .. Len(r) : i = Len(s) + j
    <3>1. SUFFICES ASSUME NEW i \in 1 .. Len(s) + Len(r), i \notin 1 .. Len(s)
                   PROVE  i - Len(s) \in 1 .. Len(r) /\ i = Len(s) + (i - Len(s))
      BY <1>2
    <3> QED BY <3>1, <1>2
  <2>2. \A i \in 1 .. Len(s) : i \in 1 .. Len(s) + Len(r)
    BY <1>2
  <2>3. \A j \in 1 .. Len(r) : Len(s) + j \in 1 .. Len(s) + Len(r)
    BY <1>2
  <2>4. ASSUME NEW x \in Elems(s \o r) PROVE x \in Elems(s) \cup Elems(r)
    <3>1. PICK i \in 1 .. Len(s) + Len(r) : x = (s \o r)[i]
      BY <2>4, <1>2 DEF Elems
    <3>2. CASE i \in 1 .. Len(s)
      BY <3>1, <3>2, <1>2, <1>3 DEF Elems
    <3>3. CASE \E j \in 1 .. Len(r) : i = Len(s) + j
      BY <3>1, <3>3, <1>2, <1>4 DEF Elems
    <3> QED BY <3>2, <3>3, <2>1
  <2>5. ASSUME NEW x \in Elems(s) PROVE x \in Elems(s \o r)
    BY <2>2, <2>5, <1>2, <1>3 DEF Elems
  <2>6. ASSUME NEW x \in Elems(r) PROVE x \in Elems(s \o r)
    BY <2>3, <2>6, <1>2, <1>4 DEF Elems
  <2> QED BY <2>4, <2>5, <2>6
<1>6. IsSeq(s \o r)
  BY <1>2, TypedIsSeq
<1> QED BY <1>2, <1>3, <1>4, <1>5, <1>6

(* Head and tail.                                                          *)
LEMMA TailSeq ==
  ASSUME NEW s, IsSeq(s), s # <<>>
  PROVE  /\ IsSeq(Tail(s)) /\ Elems(s) = {Head(s)} \cup Elems(Tail(s))
         /\ Len(s) \in Nat \ {0} /\ Len(Tail(s)) = Len(s) - 1
         /\ DOMAIN s = 1 .. Len(s) /\ DOMAIN Tail(s) = 1 .. Len(s) - 1
         /\ Head(s) = s[1]
         /\ \A i \in DOMAIN Tail(s) : i + 1 \in DOMAIN s /\ Tail(s)[i] = s[i + 1]
         /\ \A i \in DOMAIN s : i # 1 => i - 1 \in DOMAIN Tail(s) /\ s[i] = Tail(s)[i - 1]
<1> DEFINE S == Elems(s)
<1>1. s \in Seq(S)
  BY DEF IsSeq
<1> HIDE DEF S
<1>2. /\ Tail(s) \in Seq(S) /\ Len(s) \in Nat \ {0} /\ Len(Tail(s)) = Len(s) - 1
      /\ DOMAIN s = 1 .. Len(s) /\ DOMAIN Tail(s) = 1 .. Len(s) - 1
      /\ Head(s) = s[1]
  BY <1>1
<1>3. \A i \in 1 .. Len(s) - 1 : i + 1 \in 1 .. Len(s) /\ Tail(s)[i] = s[i + 1]
  BY <1>1, <1>2
<1>4. \A i \in 1 .. Len(s) : i # 1 => i - 1 \in 1 .. Len(s) - 1 /\ s[i] = Tail(s)[i - 1]
  BY <1>2, <1>3
<1>5. 1 \in 1 .. Len(s)
  BY <1>2
<1>6. Elems(s) = {Head(s)} \cup Elems(Tail(s))
  <2>1. Head(s) \in Elems(s)
    BY <1>2, <1>5 DEF Elems
  <2>2. Elems(Tail(s)) \subseteq Elems(s)
    BY <1>2, <1>3 DEF Elems
  <2>3. ASSUME NEW x \in Elems(s) PROVE x = Head(s) \/ x \in Elems(Tail(s))
    BY ZenonT(40), <2>3, <1>2, <1>4 DEF Elems
  <2> QED BY <2>1, <2>2, <2>3
<1>7. IsSeq(Tail(s))
  BY <1>2, TypedIsSeq
<1> QED BY <1>2, <1>3, <1>4, <1>6, <1>7

(* Appending.                                                              *)
LEMMA AppendSeq ==
  ASSUME NEW s, NEW x, IsSeq(s)
  PROVE  /\ IsSeq(Append(s, x)) /\ Elems(Append(s, x)) = Elems(s) \cup {x}
         /\ Len(s) \in Nat /\ Len(Append(s, x)) = Len(s) + 1
         /\ DOMAIN s = 1 .. Len(s) /\ DOMAIN Append(s, x) = 1 .. Len(s) + 1
         /\ \A i \in DOMAIN s : Append(s, x)[i] = s[i]
         /\ Append(s, x)[Len(s) + 1] = x
<1> DEFINE S == Elems(s) \cup {x}
<1>1. s \in Seq(S) /\ x \in S
  BY DEF IsSeq
<1> HIDE DEF S
<1>2. /\ Append(s, x) \in Seq(S) /\ Len(s) \in Nat /\ Len(Append(s, x)) = Len(s) + 1
      /\ DOMAIN s = 1 .. Len(s) /\ DOMAIN Append(s, x) = 1 .. Len(s) + 1
      /\ \A i \in 1 .. Len(s) : Append(s, x)[i] = s[i]
      /\ Append(s, x)[Len(s) + 1] = x
  BY <1>1
<1>3. \A i \in 1 .. Len(s) + 1 : i \in 1 .. Len(s) \/ i = Len(s) + 1
  BY <1>2
<1>4. Len(s) + 1 \in 1 .. Len(s) + 1 /\ \A i \in 1 .. Len(s) : i \in 1 .. Len(s) + 1
  BY <1>2
<1>5. Elems(Append(s, x)) = Elems(s) \cup {x}
  BY <1>2, <1>3, <1>4 DEF Elems
<1>6. IsSeq(Append(s, x))
  BY <1>2, TypedIsSeq
<1> QED BY <1>2, <1>5, <1>6

(***************************************************************************)
(* What is ahead                                                           *)
(***************************************************************************)
(* A thread that replaces what it has to do, but keeps the rest of it,     *)
(* takes away from what is ahead only the step it has done.                *)
LEMMA AheadStep ==
  ASSUME Shapes, NEW t \in Threads, NEW new, IsSeq(new),
         todo' = [todo EXCEPT ![t] = new],
         todo[t] = <<>> \/ Elems(Tail(todo[t])) \subseteq Elems(new),
         Elems(tasks) \subseteq Elems(tasks') \cup Elems(new),
         Elems(service.inbox) \subseteq Elems(service'.inbox)
  PROVE  /\ DOMAIN todo' = Threads /\ \A u \in Threads : IsSeq(todo'[u])
         /\ todo'[t] = new /\ \A u \in Threads \ {t} : todo'[u] = todo[u]
         /\ Elems(new) \subseteq Ahead'
         /\ \A x \in Elems(new) : x.do = "post" => x.task \in Ahead'
         /\ \A s \in Ahead : \/ s \in Ahead'
                             \/ /\ todo[t] # <<>>
                                /\ s = Now(t) \/ (Now(t).do = "post" /\ s = Now(t).task)
<1>1. DOMAIN todo' = Threads /\ todo'[t] = new /\ \A u \in Threads \ {t} : todo'[u] = todo[u]
  BY DEF Shapes
<1>2. \A u \in Threads : IsSeq(todo'[u])
  BY <1>1 DEF Shapes
<1>3. \A u \in Threads : Steps(u) = Elems(todo[u]) /\ Steps(u)' = Elems(todo'[u])
  BY DEF Steps, Elems
<1>4. \A u \in Threads : Elems(todo'[u]) \subseteq Ahead'
  BY <1>3 DEF Ahead
<1>5. \A u \in Threads : \A x \in Elems(todo'[u]) : x.do = "post" => x.task \in Ahead'
  <2>1. SUFFICES ASSUME NEW u \in Threads, NEW x \in Elems(todo'[u]), x.do = "post"
                 PROVE  x.task \in Ahead'
    OBVIOUS
  <2>2. x \in Posting'
    BY <2>1, <1>3 DEF Posting
  <2> QED BY <2>2 DEF Ahead
<1>6. \A u \in Threads : \A x \in Elems(todo[u]) :
        \/ x \in Elems(todo'[u])
        \/ u = t /\ todo[t] # <<>> /\ x = Now(t)
  <2>1. SUFFICES ASSUME NEW x \in Elems(todo[t]), x \notin Elems(new)
                 PROVE  todo[t] # <<>> /\ x = Now(t)
    BY <1>1
  <2>2. todo[t] # <<>>
    BY <2>1, ShortSeqs
  <2>3. Elems(todo[t]) = {Head(todo[t])} \cup Elems(Tail(todo[t]))
    BY <2>2, TailSeq DEF Shapes
  <2> QED BY <2>1, <2>2, <2>3 DEF Now
<1>7. Elems(tasks') \subseteq Ahead' /\ Elems(service'.inbox) \subseteq Ahead'
  BY DEF Ahead, Elems
<1>8. ASSUME NEW s \in Ahead
      PROVE  \/ s \in Ahead'
             \/ /\ todo[t] # <<>>
                /\ s = Now(t) \/ (Now(t).do = "post" /\ s = Now(t).task)
  <2>1. CASE \E u \in Threads : s \in Elems(todo[u])
    BY <2>1, <1>4, <1>6
  <2>2. CASE s \in {x.task : x \in Posting}
    <3>1. PICK x \in Posting : s = x.task
      BY <2>2
    <3>2. PICK u \in Threads : x \in Elems(todo[u])
      BY <1>3 DEF Posting
    <3>3. x.do = "post"
      BY DEF Posting
    <3> QED BY <3>1, <3>2, <3>3, <1>5, <1>6
  <2>3. CASE s \in Elems(tasks) \cup Elems(service.inbox)
    BY <2>3, <1>1, <1>4, <1>7
  <2> QED BY <2>1, <2>2, <2>3, <1>3 DEF Ahead, Elems
<1> QED BY <1>1, <1>2, <1>4, <1>5, <1>8

(* Steps that take no flush, no posting of a delayed flush and no clearing *)
(* of the flag away, and do not book, bind or open.                        *)
LEMMA WakeFrame ==
  ASSUME WakeInv,
         \A s \in Ahead : s.do = "delay" => s \in Ahead',
         arb'.fully_bound /\ arb'.req.open
           => \A s \in Ahead : s.do = "flush" => s \in Ahead',
         delayed' = delayed,
         todo[IPC] = <<Clear, Flush({})>> => todo'[IPC] = todo[IPC],
         arb'.fully_bound => arb.fully_bound, arb'.bound = arb.bound,
         arb'.scheduled => arb.scheduled, arb'.req.open => arb.req.open,
         arb'.fully_bound => arb'.callbacks = arb.callbacks
  PROVE  BoundFirst' /\ Booked' /\ NoLostWakeUp'
<1>1. BoundFirst'
  BY DEF WakeInv, BoundFirst
<1>2. Coming("delay") \subseteq Coming("delay")'
  BY DEF Coming
<1>3. Booked'
  BY <1>2 DEF WakeInv, Booked, Clear, Flush
<1>4. arb'.fully_bound /\ arb'.req.open => Coming("flush") \subseteq Coming("flush")'
  BY DEF Coming
<1>5. NoLostWakeUp'
  BY <1>2, <1>4 DEF WakeInv, NoLostWakeUp, FlushComing
<1> QED BY <1>1, <1>3, <1>5

(* Booked when a thread posts or starts a flush.                           *)
LEMMA FlushIsComing ==
  ASSUME NEW s \in Ahead', s.do \in {"flush", "delay"}
  PROVE  FlushComing'
BY DEF FlushComing, Coming

(* The two ways to change what a thread has to do.                         *)
LEMMA ThenStep ==
  ASSUME Shapes, NEW t \in Threads, todo[t] # <<>>, NEW steps, IsSeq(steps),
         todo' = [todo EXCEPT ![t] = steps \o Tail(todo[t])],
         Elems(tasks) \subseteq Elems(tasks'),
         Elems(service.inbox) \subseteq Elems(service'.inbox)
  PROVE  /\ DOMAIN todo' = Threads /\ \A u \in Threads : IsSeq(todo'[u])
         /\ todo'[t] = steps \o Tail(todo[t])
         /\ \A u \in Threads \ {t} : todo'[u] = todo[u]
         /\ Elems(steps) \subseteq Ahead'
         /\ \A x \in Elems(steps) : x.do = "post" => x.task \in Ahead'
         /\ \A s \in Ahead : \/ s \in Ahead' \/ s = Now(t)
                             \/ Now(t).do = "post" /\ s = Now(t).task
<1> DEFINE new == steps \o Tail(todo[t])
<1>1. IsSeq(Tail(todo[t]))
  BY TailSeq DEF Shapes
<1>2. IsSeq(new) /\ Elems(new) = Elems(steps) \cup Elems(Tail(todo[t]))
  BY <1>1, ConcatSeq
<1> HIDE DEF new
<1>3. todo' = [todo EXCEPT ![t] = new]
  BY DEF new
<1> QED BY <1>2, <1>3, AheadStep DEF new

LEMMA StartStep ==
  ASSUME Shapes, NEW t \in Threads, todo[t] = <<>>, NEW steps, IsSeq(steps),
         todo' = [todo EXCEPT ![t] = steps],
         Elems(tasks) \subseteq Elems(tasks') \cup Elems(steps),
         Elems(service.inbox) \subseteq Elems(service'.inbox)
  PROVE  /\ DOMAIN todo' = Threads /\ \A u \in Threads : IsSeq(todo'[u])
         /\ todo'[t] = steps /\ \A u \in Threads \ {t} : todo'[u] = todo[u]
         /\ Elems(steps) \subseteq Ahead'
         /\ \A x \in Elems(steps) : x.do = "post" => x.task \in Ahead'
         /\ \A s \in Ahead : s \in Ahead'
BY AheadStep

(* A thread starts something without touching the arbiter, the task runner *)
(* or the endpoint.                                                        *)
LEMMA StartIsCalm ==
  ASSUME WakeInv, NEW t \in Threads, todo[t] = <<>>, NEW steps, IsSeq(steps),
         todo' = [todo EXCEPT ![t] = steps],
         tasks' = tasks, delayed' = delayed, service' = service, Shapes => Shapes',
         arb'.fully_bound => arb.fully_bound, arb'.bound = arb.bound,
         arb'.scheduled => arb.scheduled, arb'.req.open => arb.req.open,
         arb'.callbacks = arb.callbacks
  PROVE  WakeInv'
<1>1. Shapes /\ Shapes'
  BY DEF WakeInv
<1>2. \A s \in Ahead : s \in Ahead'
  BY <1>1, StartStep
<1>3. todo[IPC] = <<Clear, Flush({})>> => todo'[IPC] = todo[IPC]
  <2>1. CASE t = IPC
    BY <2>1 DEF Clear, Flush
  <2>2. CASE t # IPC
    BY <2>2, <1>1 DEF Shapes
  <2> QED BY <2>1, <2>2
<1>4. BoundFirst' /\ Booked' /\ NoLostWakeUp'
  BY <1>2, <1>3, WakeFrame
<1> QED BY <1>1, <1>4 DEF WakeInv

(* A thread has done a step other than a flush, a posting or the clearing  *)
(* of the flag.                                                            *)
LEMMA ThenIsCalm ==
  ASSUME WakeInv, NEW t \in Threads, todo[t] # <<>>, NEW steps, IsSeq(steps),
         Now(t).do \notin {"flush", "delay", "post", "clear"},
         todo' = [todo EXCEPT ![t] = steps \o Tail(todo[t])],
         tasks' = tasks, delayed' = delayed, Shapes => Shapes',
         Elems(service.inbox) \subseteq Elems(service'.inbox),
         arb'.fully_bound => arb.fully_bound, arb'.bound = arb.bound,
         arb'.scheduled => arb.scheduled, arb'.req.open => arb.req.open,
         arb'.callbacks = arb.callbacks
  PROVE  WakeInv'
<1>1. Shapes /\ Shapes'
  BY DEF WakeInv
<1>2. \A s \in Ahead : s \in Ahead' \/ s = Now(t)
  BY <1>1, ThenStep
<1>3. todo[IPC] = <<Clear, Flush({})>> => todo'[IPC] = todo[IPC]
  <2>1. CASE t = IPC
    BY <2>1 DEF Clear, Flush, Now
  <2>2. CASE t # IPC
    BY <2>2, <1>1 DEF Shapes
  <2> QED BY <2>1, <2>2
<1>4. BoundFirst' /\ Booked' /\ NoLostWakeUp'
  BY <1>2, <1>3, WakeFrame
<1> QED BY <1>1, <1>4 DEF WakeInv

(* The shapes after a step that gives a thread a sequence of steps.        *)
LEMMA ShapesStep ==
  ASSUME Shapes, NEW t \in Threads, NEW new, IsSeq(new),
         todo' = [todo EXCEPT ![t] = new],
         IsSeq(tasks'), delayed' \in Nat,
         DOMAIN service' = DOMAIN service, IsSeq(service'.inbox),
         DOMAIN arb' = DOMAIN arb, DOMAIN arb'.req = DOMAIN arb.req,
         arb'.bound \in BOOLEAN, arb'.fully_bound \in BOOLEAN,
         arb'.scheduled \in BOOLEAN, arb'.req.open \in BOOLEAN
  PROVE  Shapes'
<1>1. DOMAIN todo' = Threads /\ \A u \in Threads : IsSeq(todo'[u])
  BY DEF Shapes
<1> QED BY <1>1 DEF Shapes

(***************************************************************************)
(* Calls that start something                                              *)
(***************************************************************************)
(* Conditional steps are sequences.                                        *)
LEMMA IfSeq ==
  ASSUME NEW c \in BOOLEAN, NEW x
  PROVE  IsSeq(IF c THEN <<x>> ELSE <<>>) /\ IsSeq(IF c THEN <<>> ELSE <<x>>)
BY ShortSeqs

LEMMA ReturnCurrentSeq ==
  ASSUME NEW w
  PROVE  IsSeq(ReturnCurrent(w))
BY ShortSeqs DEF ReturnCurrent

LEMMA CreateTraceWriterWakes ==
  ASSUME WakeInv, NEW t \in Threads, NEW b, CreateTraceWriter(t, b)
  PROVE  WakeInv'
<1>1. PICK steps : IsSeq(steps) /\ todo' = [todo EXCEPT ![t] = steps]
  BY ShortSeqs DEF CreateTraceWriter, Start
<1>2. /\ todo[t] = <<>> /\ tasks' = tasks /\ delayed' = delayed /\ service' = service
  BY DEF CreateTraceWriter, Idle
<1>3. Shapes
  BY DEF WakeInv
<1> DEFINE startup == IsReservation(TargetFor(b))
<1>4. PICK ids, last, pending, reservations :
        arb' = [arb EXCEPT !.ids = ids, !.last_id = last, !.pending = pending,
                           !.reservations = reservations,
                           !.fully_bound = @ /\ ~startup,
                           !.was_always_bound = @ /\ ~startup]
  BY Zenon DEF CreateTraceWriter
<1>5. /\ DOMAIN arb' = DOMAIN arb /\ arb'.req = arb.req /\ arb'.bound = arb.bound
      /\ arb'.scheduled = arb.scheduled /\ arb'.callbacks = arb.callbacks
      /\ arb'.fully_bound = (arb.fully_bound /\ ~startup)
  BY <1>3, <1>4 DEF Shapes
<1>6. Shapes'
  BY <1>1, <1>2, <1>3, <1>5, ShapesStep DEF Shapes
<1> QED BY <1>1, <1>2, <1>5, <1>6, StartIsCalm

(* Calls that only give the thread something to do.                        *)
LEMMA StartWakes ==
  ASSUME WakeInv, NEW t \in Threads, todo[t] = <<>>, NEW steps, IsSeq(steps),
         todo' = [todo EXCEPT ![t] = steps],
         arb' = arb, tasks' = tasks, delayed' = delayed, service' = service
  PROVE  WakeInv'
<1>1. Shapes'
  BY ShapesStep DEF WakeInv, Shapes
<1> QED BY <1>1, StartIsCalm

LEMMA DestroyTraceWriterWakes ==
  ASSUME WakeInv, NEW t \in Threads, DestroyTraceWriter(t)
  PROVE  WakeInv'
<1>1. PICK w \in Owner(t) :
        todo' = [todo EXCEPT ![t] = ReturnCurrent(w)
                   \o (IF writers[w].cur THEN <<Flush({})>> ELSE <<>>) \o <<Release(w)>>]
  BY DEF DestroyTraceWriter, Start
<1> DEFINE steps == ReturnCurrent(w)
                   \o (IF writers[w].cur THEN <<Flush({})>> ELSE <<>>) \o <<Release(w)>>
<1>2. IsSeq(IF writers[w].cur THEN <<Flush({})>> ELSE <<>>) /\ IsSeq(<<Release(w)>>)
  BY ShortSeqs
<1>3. IsSeq(steps)
  BY <1>2, ConcatSeq, ReturnCurrentSeq
<1> HIDE DEF steps
<1>4. todo' = [todo EXCEPT ![t] = steps]
  BY <1>1 DEF steps
<1> QED BY <1>3, <1>4, StartWakes DEF DestroyTraceWriter, Idle

(* TakeChunk() gives the thread a sequence to do before the rest.          *)
LEMMA TakeChunkSteps ==
  ASSUME NEW t, NEW w, NEW k, NEW steps, TakeChunk(t, w, k, steps)
  PROVE  \E first : IsSeq(first) /\ todo' = [todo EXCEPT ![t] = first \o steps]
<1> DEFINE sync == t = IPC /\ env.c.policy = "kStall" /\ arb.req.open /\ HalfFull(arb.req)
           first == (IF sync THEN <<Flush({})>> ELSE <<>>)
             \o (IF writers[w].cur THEN <<Return(w, writers[w].n, k)>> ELSE <<>>)
<1>1. todo' = [todo EXCEPT ![t] = first \o steps]
  BY DEF TakeChunk
<1> HIDE DEF sync
<1>2. /\ IsSeq(IF sync THEN <<Flush({})>> ELSE <<>>)
      /\ IsSeq(IF writers[w].cur THEN <<Return(w, writers[w].n, k)>> ELSE <<>>)
  BY ShortSeqs
<1>3. IsSeq(first)
  BY <1>2, ConcatSeq
<1> QED BY <1>1, <1>3

LEMMA GetNewChunkWakes ==
  ASSUME WakeInv, NEW t \in Threads, GetNewChunk(t)
  PROVE  WakeInv'
<1>1. PICK w, k : TakeChunk(t, w, k, <<>>)
  BY DEF GetNewChunk
<1>2. PICK first : IsSeq(first) /\ todo' = [todo EXCEPT ![t] = first \o <<>>]
  BY <1>1, TakeChunkSteps
<1>3. PICK steps : steps = first \o <<>>
  OBVIOUS
<1>4. IsSeq(steps) /\ todo' = [todo EXCEPT ![t] = steps]
  BY <1>2, <1>3, ShortSeqs, ConcatSeq
<1> QED BY <1>4, StartWakes DEF GetNewChunk, Idle

LEMMA GetNewChunkExhaustedWakes ==
  ASSUME WakeInv, NEW t \in Threads, GetNewChunkExhausted(t)
  PROVE  WakeInv'
<1>1. PICK steps : IsSeq(steps) /\ todo' = [todo EXCEPT ![t] = steps]
  BY ShortSeqs, ReturnCurrentSeq DEF GetNewChunkExhausted, Start
<1> QED BY <1>1, StartWakes DEF GetNewChunkExhausted, Idle

LEMMA FlushWriterWakes ==
  ASSUME WakeInv, NEW t \in Threads, FlushWriter(t)
  PROVE  WakeInv'
<1>1. PICK w, cb : todo' = [todo EXCEPT ![t] = ReturnCurrent(w) \o <<Flush({cb})>>]
  BY DEF FlushWriter, Start
<1>2. PICK steps : steps = ReturnCurrent(w) \o <<Flush({cb})>>
  OBVIOUS
<1>3. IsSeq(steps) /\ todo' = [todo EXCEPT ![t] = steps]
  BY <1>1, <1>2, ShortSeqs, ReturnCurrentSeq, ConcatSeq
<1> QED BY <1>3, StartWakes DEF FlushWriter, Idle

(* Calls that give nothing to do.                                          *)
LEMMA QuietWakes ==
  ASSUME WakeInv, todo' = todo, tasks' = tasks, delayed' = delayed, service' = service,
         \/ arb' = arb
         \/ \E d : arb' = [arb EXCEPT !.direct = d]
         \/ \E d : arb' = [arb EXCEPT !.did_shutdown = d]
  PROVE  WakeInv'
<1>1. /\ DOMAIN arb' = DOMAIN arb /\ arb'.req = arb.req /\ arb'.bound = arb.bound
      /\ arb'.scheduled = arb.scheduled /\ arb'.callbacks = arb.callbacks
      /\ arb'.fully_bound = arb.fully_bound
  BY DEF WakeInv, Shapes
<1>2. Shapes'
  BY <1>1 DEF WakeInv, Shapes
<1>3. Ahead' = Ahead
  BY DEF Ahead, Posting, Steps
<1>4. BoundFirst' /\ Booked' /\ NoLostWakeUp'
  BY <1>1, <1>3, WakeFrame
<1> QED BY <1>2, <1>4 DEF WakeInv

(***************************************************************************)
(* Binding                                                                 *)
(***************************************************************************)
(* What UpdateFullyBoundLocked() and TakePendingFlushCallbacksLocked() do  *)
(* to the members that a wake-up depends on.                               *)
LEMMA BindingUpdate ==
  ASSUME Shapes, NEW a0, DOMAIN a0 = DOMAIN arb, a0.req = arb.req,
         a0.scheduled = arb.scheduled, a0.fully_bound = arb.fully_bound,
         a0.bound \in BOOLEAN, NEW a, a = UpdateFullyBoundLocked(a0),
         arb' = TakePendingFlushCallbacks(a)
  PROVE  /\ DOMAIN arb' = DOMAIN arb /\ arb'.req = arb.req
         /\ arb'.bound = a0.bound /\ arb'.scheduled = arb.scheduled
         /\ arb'.fully_bound \in BOOLEAN
         /\ ~a0.bound => arb'.fully_bound = arb.fully_bound
         /\ a0.bound /\ arb'.fully_bound
              => FlushIfBound(a) = <<Flush(a.callbacks)>> /\ arb'.callbacks = {}
         /\ IsSeq(FlushIfBound(a))
<1>1. a0.bound => /\ DOMAIN a = DOMAIN a0 /\ a.req = a0.req /\ a.bound = a0.bound
                  /\ a.scheduled = a0.scheduled /\ a.fully_bound = Resolved(a0)
  BY DEF UpdateFullyBoundLocked, Shapes
<1>2. ~a0.bound => a = a0
  BY DEF UpdateFullyBoundLocked
<1>3. Resolved(a0) \in BOOLEAN
  BY DEF Resolved
<1>4. a.fully_bound \in BOOLEAN /\ a.bound = a0.bound
  BY <1>1, <1>2, <1>3 DEF Shapes
<1>5. DOMAIN a = DOMAIN arb /\ a.req = arb.req /\ a.scheduled = arb.scheduled
  BY <1>1, <1>2
<1>6. /\ DOMAIN arb' = DOMAIN a /\ arb'.req = a.req /\ arb'.bound = a.bound
      /\ arb'.scheduled = a.scheduled /\ arb'.fully_bound = a.fully_bound
      /\ a.bound /\ a.fully_bound => arb'.callbacks = {}
  BY <1>5 DEF TakePendingFlushCallbacks, Shapes
<1>7. IsSeq(FlushIfBound(a))
  BY ShortSeqs DEF FlushIfBound
<1>8. a.bound /\ a.fully_bound => FlushIfBound(a) = <<Flush(a.callbacks)>>
  BY DEF FlushIfBound
<1> QED BY <1>2, <1>4, <1>5, <1>6, <1>7, <1>8

(* After an update, the thread flushes if the arbiter is fully bound now.  *)
LEMMA BindingWakes ==
  ASSUME WakeInv, NEW t \in Threads, NEW a0, DOMAIN a0 = DOMAIN arb, a0.req = arb.req,
         a0.scheduled = arb.scheduled, a0.fully_bound = arb.fully_bound,
         a0.bound \in BOOLEAN, arb.bound => a0.bound,
         NEW a, a = UpdateFullyBoundLocked(a0),
         arb' = TakePendingFlushCallbacks(a),
         NEW first, IsSeq(first), NEW rest, IsSeq(rest),
         todo' = [todo EXCEPT ![t] = first \o FlushIfBound(a) \o rest],
         \/ todo[t] = <<>>
         \/ todo[t] # <<>> /\ rest = Tail(todo[t]) /\ Now(t).do = "abort",
         tasks' = tasks, delayed' = delayed, service' = service
  PROVE  WakeInv'
<1> DEFINE new == first \o FlushIfBound(a) \o rest
<1>0. Shapes
  BY DEF WakeInv
<1>1. /\ DOMAIN arb' = DOMAIN arb /\ arb'.req = arb.req
      /\ arb'.bound = a0.bound /\ arb'.scheduled = arb.scheduled
      /\ arb'.fully_bound \in BOOLEAN
      /\ ~a0.bound => arb'.fully_bound = arb.fully_bound
      /\ a0.bound /\ arb'.fully_bound
           => FlushIfBound(a) = <<Flush(a.callbacks)>> /\ arb'.callbacks = {}
      /\ IsSeq(FlushIfBound(a))
  BY <1>0, BindingUpdate
<1>2. /\ IsSeq(new)
      /\ Elems(new) = Elems(first) \cup Elems(FlushIfBound(a)) \cup Elems(rest)
  BY <1>1, ConcatSeq
<1>3. todo' = [todo EXCEPT ![t] = new]
  OBVIOUS
<1> HIDE DEF new
<1>4. Shapes'
  BY <1>0, <1>1, <1>2, <1>3, ShapesStep DEF Shapes
<1>5. /\ Elems(new) \subseteq Ahead'
      /\ todo'[t] = new /\ \A u \in Threads \ {t} : todo'[u] = todo[u]
      /\ \A s \in Ahead : \/ s \in Ahead'
                          \/ todo[t] # <<>> /\ s = Now(t)
  BY <1>0, <1>2, <1>3, AheadStep
<1>6. \A s \in Ahead : s.do \in {"delay", "flush"} => s \in Ahead'
  BY <1>5
<1>7. BoundFirst'
  BY <1>1 DEF WakeInv, BoundFirst
<1>8. todo[IPC] = <<Clear, Flush({})>> => todo'[IPC] = todo[IPC]
  <2>1. CASE t = IPC
    BY <2>1 DEF Clear, Flush, Now
  <2>2. CASE t # IPC
    BY <2>2, <1>5, ArbiterConstants
  <2> QED BY <2>1, <2>2
<1>9. Booked'
  <2>1. Coming("delay") \subseteq Coming("delay")'
    BY <1>6 DEF Coming
  <2> QED BY <2>1, <1>1, <1>8 DEF WakeInv, Booked, Clear, Flush
<1>10. NoLostWakeUp'
  <2>1. SUFFICES ASSUME arb'.fully_bound PROVE FlushComing' /\ arb'.callbacks = {}
    BY DEF NoLostWakeUp
  <2>2. a0.bound
    BY <2>1, <1>1 DEF WakeInv, BoundFirst
  <2>3. FlushIfBound(a) = <<Flush(a.callbacks)>> /\ arb'.callbacks = {}
    BY <2>1, <2>2, <1>1
  <2>4. Flush(a.callbacks) \in Ahead'
    BY <2>3, <1>2, <1>5, ShortSeqs
  <2>5. Flush(a.callbacks).do = "flush"
    BY DEF Flush
  <2> QED BY <2>3, <2>4, <2>5, FlushIsComing
<1> QED BY <1>4, <1>7, <1>9, <1>10 DEF WakeInv

LEMMA BindToProducerEndpointWakes ==
  ASSUME WakeInv, BindToProducerEndpoint
  PROVE  WakeInv'
<1> DEFINE a0 == [arb EXCEPT !.bound = TRUE]
           a == UpdateFullyBoundLocked(a0)
<1>1. /\ arb' = TakePendingFlushCallbacks(a) /\ todo[IPC] = <<>>
      /\ todo' = [todo EXCEPT ![IPC] = FlushIfBound(a)]
      /\ tasks' = tasks /\ delayed' = delayed /\ service' = service
  BY DEF BindToProducerEndpoint, Start, Idle
<1>2. /\ DOMAIN a0 = DOMAIN arb /\ a0.req = arb.req /\ a0.scheduled = arb.scheduled
      /\ a0.fully_bound = arb.fully_bound /\ a0.bound \in BOOLEAN
      /\ arb.bound => a0.bound
  BY DEF WakeInv, Shapes
<1> HIDE DEF a0
<1>3. IsSeq(FlushIfBound(a)) /\ IsSeq(<<>>)
  BY ShortSeqs DEF FlushIfBound
<1>4. <<>> \o FlushIfBound(a) \o <<>> = FlushIfBound(a)
  <2>1. PICK f : f = FlushIfBound(a)
    OBVIOUS
  <2>2. <<>> \o f \o <<>> = f
    BY <1>3, <2>1 DEF IsSeq
  <2> QED BY <2>1, <2>2
<1>5. PICK e : /\ IsSeq(e) /\ IPC \in Threads
               /\ todo' = [todo EXCEPT ![IPC] = e \o FlushIfBound(a) \o e]
  BY <1>1, <1>3, <1>4, ArbiterConstants
<1> QED BY ZenonT(40), <1>1, <1>2, <1>5, BindingWakes

LEMMA BindImplWakes ==
  ASSUME WakeInv, NEW t \in Threads, NEW r, NEW b, NEW steps, IsSeq(steps),
         BindStartupTargetBufferImpl(t, r, b, steps),
         \/ todo[t] = <<>>
         \/ todo[t] # <<>> /\ steps = Tail(todo[t]) /\ Now(t).do = "abort"
  PROVE  WakeInv'
<1> DEFINE bound == {p \in arb.pending : p.target = r}
           a0 == [arb EXCEPT !.reservations[r] = b, !.pending = @ \ bound]
           a == UpdateFullyBoundLocked(a0)
           reg == IF b = kInvalidBufferId \/ bound = {} THEN <<>>
                  ELSE <<Register({[id |-> p.id, target |-> b] : p \in bound})>>
<1>1. /\ arb' = TakePendingFlushCallbacks(a)
      /\ todo' = [todo EXCEPT ![t] = reg \o FlushIfBound(a) \o steps]
      /\ tasks' = tasks /\ delayed' = delayed /\ service' = service
  BY DEF BindStartupTargetBufferImpl
<1>2. /\ DOMAIN a0 = DOMAIN arb /\ a0.req = arb.req /\ a0.scheduled = arb.scheduled
      /\ a0.fully_bound = arb.fully_bound /\ a0.bound = arb.bound /\ a0.bound \in BOOLEAN
  BY DEF WakeInv, Shapes
<1>3. IsSeq(reg)
  BY ShortSeqs
<1> HIDE DEF bound, a0, reg
<1> QED BY <1>1, <1>2, <1>3, BindingWakes

LEMMA BindStartupTargetBufferWakes ==
  ASSUME WakeInv, NEW r, NEW b, BindStartupTargetBuffer(r, b)
  PROVE  WakeInv'
<1>1. todo[IPC] = <<>> /\ BindStartupTargetBufferImpl(IPC, r, b, <<>>) /\ IPC \in Threads
  BY ArbiterConstants DEF BindStartupTargetBuffer, Idle
<1>2. IsSeq(<<>>)
  BY ShortSeqs
<1> QED BY <1>1, <1>2, BindImplWakes

LEMMA AbortStartupTracingWakes ==
  ASSUME WakeInv, NEW t \in Threads, NEW r, AbortStartupTracingForReservation(t, r)
  PROVE  WakeInv'
<1>1. todo[t] = <<>>
  BY DEF AbortStartupTracingForReservation, Idle
<1>2. CASE MustPostAbort(t)
  <2>1. IsSeq(<<Post(Abort(r))>>)
    BY ShortSeqs
  <2>2. /\ todo' = [todo EXCEPT ![t] = <<Post(Abort(r))>>] /\ arb' = arb /\ tasks' = tasks
        /\ delayed' = delayed /\ service' = service
    BY <1>2 DEF AbortStartupTracingForReservation, Start
  <2> QED BY <1>1, <2>1, <2>2, StartWakes
<1>3. CASE ~MustPostAbort(t)
  <2>1. BindStartupTargetBufferImpl(t, r, kInvalidBufferId, <<>>)
    BY <1>3 DEF AbortStartupTracingForReservation
  <2>2. IsSeq(<<>>)
    BY ShortSeqs
  <2> QED BY <1>1, <2>1, <2>2, BindImplWakes
<1> QED BY <1>2, <1>3

LEMMA RunAbortWakes ==
  ASSUME WakeInv, RunAbort
  PROVE  WakeInv'
<1>1. /\ todo[IPC] # <<>> /\ Now(IPC).do = "abort" /\ IPC \in Threads
      /\ BindStartupTargetBufferImpl(IPC, Now(IPC).r, kInvalidBufferId, Tail(todo[IPC]))
  BY ArbiterConstants DEF RunAbort, AtStep, Now
<1>2. IsSeq(Tail(todo[IPC]))
  BY <1>1, TailSeq DEF WakeInv, Shapes
<1> QED BY <1>1, <1>2, BindImplWakes

(***************************************************************************)
(* Commit requests and flushes                                             *)
(***************************************************************************)
(* A request that is opened, or was left open, will be flushed: either a   *)
(* delayed flush is booked now, or one was booked before.                  *)
LEMMA UpdateCommitDataRequestWakes ==
  ASSUME WakeInv, NEW t \in Threads, NEW w, NEW chunk, NEW steps, IsSeq(steps),
         UpdateCommitDataRequest(t, w, chunk, steps),
         \/ todo[t] = <<>>
         \/ todo[t] # <<>> /\ steps = Tail(todo[t]) /\ Now(t).do = "return"
  PROVE  WakeInv'
<1> DEFINE list == writers[w].patches
           old == IF arb.req.open THEN arb.req ELSE EmptyRequest
           batch == ~arb.req.open /\ arb.fully_bound /\ ~arb.scheduled
           req == [old EXCEPT !.move = @ \o chunk]
           sent == SentPatches(req, w, list)
           flush == arb.fully_bound /\ (sent # <<>> \/ HalfFull(req))
           first == IF batch \/ flush THEN <<Delay>> ELSE <<>>
<1>0. Shapes
  BY DEF WakeInv
<1>1. PICK move, patch :
        arb' = [arb EXCEPT !.req = [req EXCEPT !.move = move, !.patch = patch],
                           !.scheduled = @ \/ batch]
  BY Zenon DEF UpdateCommitDataRequest
<1>2. /\ todo' = [todo EXCEPT ![t] = first \o steps]
      /\ tasks' = tasks /\ delayed' = delayed /\ service' = service
  BY DEF UpdateCommitDataRequest, Start
<1>3. DOMAIN req = DOMAIN arb.req /\ req.open = TRUE
  BY <1>0 DEF Shapes, EmptyRequest, NoRequest
<1> HIDE DEF req, flush
<1>4. batch \in BOOLEAN
  OBVIOUS
<1>5. /\ DOMAIN arb' = DOMAIN arb /\ DOMAIN arb'.req = DOMAIN arb.req
      /\ arb'.req.open = TRUE /\ arb'.scheduled = (arb.scheduled \/ batch)
      /\ arb'.bound = arb.bound /\ arb'.fully_bound = arb.fully_bound
      /\ arb'.callbacks = arb.callbacks
  BY <1>0, <1>1, <1>3 DEF Shapes
<1>6. IsSeq(first) /\ (batch => Elems(first) = {Delay})
  BY ShortSeqs
<1> DEFINE new == first \o steps
<1>7. IsSeq(new) /\ Elems(new) = Elems(first) \cup Elems(steps)
  BY <1>6, ConcatSeq
<1>8. todo' = [todo EXCEPT ![t] = new]
  BY <1>2
<1> HIDE DEF new, first
<1>9. Shapes'
  BY <1>0, <1>2, <1>4, <1>5, <1>7, <1>8, ShapesStep DEF Shapes
<1>10. /\ Elems(new) \subseteq Ahead'
       /\ todo'[t] = new /\ \A u \in Threads \ {t} : todo'[u] = todo[u]
       /\ \A s \in Ahead : s \in Ahead' \/ (todo[t] # <<>> /\ s = Now(t))
  BY <1>0, <1>2, <1>7, <1>8, AheadStep
<1>11. \A s \in Ahead : s.do \in {"delay", "flush"} => s \in Ahead'
  BY <1>10
<1>12. batch => Coming("delay")' # {}
  <2>1. batch => Delay \in Ahead'
    BY <1>6, <1>7, <1>10
  <2>2. Delay.do = "delay"
    BY DEF Delay
  <2> QED BY <2>1, <2>2 DEF Coming
<1>13. Coming("delay") \subseteq Coming("delay")' /\ Coming("flush") \subseteq Coming("flush")'
  BY <1>11 DEF Coming
<1>14. todo[IPC] = <<Clear, Flush({})>> => todo'[IPC] = todo[IPC]
  <2>1. CASE t = IPC
    BY <2>1 DEF Clear, Flush, Now
  <2>2. CASE t # IPC
    BY <2>2, <1>10, ArbiterConstants
  <2> QED BY <2>1, <2>2
<1>15. Booked'
  <2>1. CASE batch
    BY <2>1, <1>12 DEF Booked
  <2>2. CASE ~batch
    BY <2>2, <1>2, <1>5, <1>13, <1>14 DEF WakeInv, Booked, Clear, Flush
  <2> QED BY <2>1, <2>2
<1>16. arb.fully_bound => FlushComing'
  <2>1. CASE batch
    BY <2>1, <1>12 DEF FlushComing
  <2>2. CASE arb.req.open
    BY <2>2, <1>2, <1>13 DEF WakeInv, NoLostWakeUp, FlushComing
  <2>3. CASE arb.scheduled
    <3>1. CASE delayed > 0 \/ Coming("delay") # {}
      BY <3>1, <1>2, <1>13 DEF FlushComing
    <3>2. CASE todo[IPC] = <<Clear, Flush({})>>
      <4>1. Flush({}) \in Steps(IPC) /\ Flush({}).do = "flush"
        <5>1. 2 \in DOMAIN todo[IPC] /\ todo[IPC][2] = Flush({})
          BY <3>2
        <5> QED BY <5>1 DEF Steps, Flush
      <4>2. Flush({}) \in Ahead
        BY <4>1, ArbiterConstants DEF Ahead
      <4> QED BY <4>1, <4>2, <1>11, FlushIsComing
    <3> QED BY <2>3, <3>1, <3>2 DEF WakeInv, Booked
  <2> QED BY <2>1, <2>2, <2>3
<1>17. NoLostWakeUp' /\ BoundFirst'
  BY <1>5, <1>16 DEF WakeInv, NoLostWakeUp, BoundFirst
<1> QED BY <1>9, <1>15, <1>17 DEF WakeInv

LEMMA ReturnCompletedChunkWakes ==
  ASSUME WakeInv, NEW t \in Threads, ReturnCompletedChunk(t)
  PROVE  WakeInv'
<1>1. todo[t] # <<>> /\ Now(t).do = "return"
  BY DEF ReturnCompletedChunk, AtStep, Now
<1>2. PICK w, chunk : UpdateCommitDataRequest(t, w, chunk, Tail(todo[t]))
  BY DEF ReturnCompletedChunk
<1>3. IsSeq(Tail(todo[t]))
  BY <1>1, TailSeq DEF WakeInv, Shapes
<1> QED BY <1>1, <1>2, <1>3, UpdateCommitDataRequestWakes

LEMMA SendPatchesWakes ==
  ASSUME WakeInv, NEW t \in Threads, SendPatches(t)
  PROVE  WakeInv'
<1>1. todo[t] = <<>>
  BY DEF SendPatches, Idle
<1>2. PICK w : UpdateCommitDataRequest(t, w, <<>>, <<>>)
  BY DEF SendPatches
<1>3. IsSeq(<<>>)
  BY ShortSeqs
<1> QED BY <1>1, <1>2, <1>3, UpdateCommitDataRequestWakes

(* A flush either leaves its callbacks to a later bind, or passes itself   *)
(* on to the IPC thread, or closes the request.                            *)
LEMMA FlushPendingWakes ==
  ASSUME WakeInv, NEW t \in Threads, FlushPendingCommitDataRequests(t)
  PROVE  WakeInv'
<1>0. Shapes /\ todo[t] # <<>> /\ Now(t).do = "flush"
  BY DEF WakeInv, FlushPendingCommitDataRequests, AtStep, Now
<1>1. PICK req, cbs :
        IF ~arb.fully_bound
        THEN /\ arb' = [arb EXCEPT !.callbacks = @ \cup cbs]
             /\ Then(t, <<>>)
        ELSE IF t # IPC
        THEN Then(t, <<Post(Flush(cbs))>>) /\ UNCHANGED arb
        ELSE /\ arb' = [arb EXCEPT !.req = NoRequest]
             /\ Then(t, IF arb.req.open \/ cbs # {} THEN <<Commit(req, cbs)>> ELSE <<>>)
  BY DEF FlushPendingCommitDataRequests
<1>2. tasks' = tasks /\ delayed' = delayed /\ service' = service
  BY DEF FlushPendingCommitDataRequests
<1>3. PICK steps : /\ IsSeq(steps)
                   /\ todo' = [todo EXCEPT ![t] = steps \o Tail(todo[t])]
                   /\ arb.fully_bound /\ t # IPC => steps = <<Post(Flush(cbs))>>
  BY <1>1, ShortSeqs DEF Then
<1>4. /\ DOMAIN arb' = DOMAIN arb /\ DOMAIN arb'.req = DOMAIN arb.req
      /\ arb'.scheduled = arb.scheduled /\ arb'.req.open \in BOOLEAN
      /\ arb'.bound = arb.bound /\ arb'.fully_bound = arb.fully_bound
      /\ arb.fully_bound => arb'.callbacks = arb.callbacks
      /\ arb'.req.open => arb.req.open
      /\ arb.fully_bound /\ t = IPC => ~arb'.req.open
  <2>1. CASE ~arb.fully_bound
    <3>1. arb' = [arb EXCEPT !.callbacks = @ \cup cbs]
      BY <2>1, <1>1
    <3> QED BY <2>1, <3>1, <1>0 DEF Shapes
  <2>2. CASE arb.fully_bound /\ t # IPC
    <3>1. arb' = arb
      BY <2>2, <1>1
    <3> QED BY <2>2, <3>1, <1>0 DEF Shapes
  <2>3. CASE arb.fully_bound /\ t = IPC
    <3>1. arb' = [arb EXCEPT !.req = NoRequest]
      BY <2>3, <1>1
    <3>2. NoRequest.open = FALSE /\ DOMAIN NoRequest = DOMAIN arb.req
      BY <1>0 DEF NoRequest, Shapes
    <3> QED BY <2>3, <3>1, <3>2, <1>0 DEF Shapes
  <2> QED BY <2>1, <2>2, <2>3
<1>5. IsSeq(steps \o Tail(todo[t]))
  BY <1>0, <1>3, TailSeq, ConcatSeq DEF Shapes
<1>6. Shapes'
  BY <1>0, <1>2, <1>3, <1>4, <1>5, ShapesStep DEF Shapes
<1>7. /\ \A u \in Threads \ {t} : todo'[u] = todo[u]
      /\ \A x \in Elems(steps) : x.do = "post" => x.task \in Ahead'
      /\ \A s \in Ahead : s \in Ahead' \/ s = Now(t)
  BY <1>0, <1>2, <1>3, ThenStep
<1>8. \A s \in Ahead : s.do = "delay" => s \in Ahead'
  BY <1>0, <1>7
<1>9. todo[IPC] = <<Clear, Flush({})>> => todo'[IPC] = todo[IPC]
  <2>1. CASE t = IPC
    BY <2>1, <1>0 DEF Clear, Flush, Now
  <2>2. CASE t # IPC
    BY <2>2, <1>7, ArbiterConstants
  <2> QED BY <2>1, <2>2
<1>10. Booked'
  <2>1. Coming("delay") \subseteq Coming("delay")'
    BY <1>8 DEF Coming
  <2> QED BY <2>1, <1>2, <1>4, <1>9 DEF WakeInv, Booked, Clear, Flush
<1>11. NoLostWakeUp'
  <2>1. CASE arb.fully_bound /\ t # IPC
    <3>1. Post(Flush(cbs)) \in Elems(steps)
      BY <2>1, <1>3, ShortSeqs
    <3>2. Flush(cbs) \in Ahead' /\ Flush(cbs).do = "flush"
      BY <3>1, <1>7 DEF Post, Flush
    <3>3. FlushComing'
      BY <3>2, FlushIsComing
    <3> QED BY <2>1, <3>3, <1>4 DEF WakeInv, NoLostWakeUp
  <2>2. CASE ~arb.fully_bound
    BY <2>2, <1>4 DEF NoLostWakeUp
  <2>3. CASE arb.fully_bound /\ t = IPC
    BY <2>3, <1>4 DEF WakeInv, NoLostWakeUp
  <2> QED BY <2>1, <2>2, <2>3
<1>12. BoundFirst'
  BY <1>4 DEF WakeInv, BoundFirst
<1> QED BY <1>6, <1>10, <1>11, <1>12 DEF WakeInv

(* A reply that opens the request posts a flush; otherwise somebody has.   *)
LEMMA NotifyFlushCompleteWakes ==
  ASSUME WakeInv, NEW t \in Threads, NotifyFlushComplete(t)
  PROVE  WakeInv'
<1> DEFINE old == IF arb.req.open THEN arb.req ELSE EmptyRequest
<1>0. Shapes
  BY DEF WakeInv
<1>1. PICK f : arb' = [arb EXCEPT !.req = [old EXCEPT !.flush = f]]
  BY Zenon DEF NotifyFlushComplete
<1>2. /\ todo[t] = <<>> /\ tasks' = tasks /\ delayed' = delayed /\ service' = service
  BY DEF NotifyFlushComplete, Idle
<1>3. PICK steps : /\ IsSeq(steps) /\ todo' = [todo EXCEPT ![t] = steps]
                   /\ ~arb.req.open /\ arb.fully_bound => steps = <<Post(Flush({}))>>
  BY ShortSeqs DEF NotifyFlushComplete, Start
<1>4. DOMAIN old = DOMAIN arb.req /\ old.open = TRUE
  BY <1>0 DEF Shapes, EmptyRequest, NoRequest
<1> HIDE DEF old
<1>5. /\ DOMAIN arb' = DOMAIN arb /\ DOMAIN arb'.req = DOMAIN arb.req
      /\ arb'.req.open = TRUE /\ arb'.scheduled = arb.scheduled
      /\ arb'.bound = arb.bound /\ arb'.fully_bound = arb.fully_bound
      /\ arb'.callbacks = arb.callbacks
  BY <1>0, <1>1, <1>4 DEF Shapes
<1>6. Shapes'
  BY <1>0, <1>2, <1>3, <1>5, ShapesStep DEF Shapes
<1>7. /\ todo'[t] = steps /\ \A u \in Threads \ {t} : todo'[u] = todo[u]
      /\ \A x \in Elems(steps) : x.do = "post" => x.task \in Ahead'
      /\ \A s \in Ahead : s \in Ahead'
  BY <1>0, <1>2, <1>3, StartStep
<1>8. Coming("delay") \subseteq Coming("delay")' /\ Coming("flush") \subseteq Coming("flush")'
  BY <1>7 DEF Coming
<1>9. todo[IPC] = <<Clear, Flush({})>> => todo'[IPC] = todo[IPC]
  <2>1. CASE t = IPC
    BY <2>1, <1>2 DEF Clear, Flush
  <2>2. CASE t # IPC
    BY <2>2, <1>7, ArbiterConstants
  <2> QED BY <2>1, <2>2
<1>10. Booked' /\ BoundFirst'
  BY <1>2, <1>5, <1>8, <1>9 DEF WakeInv, Booked, BoundFirst, Clear, Flush
<1>11. NoLostWakeUp'
  <2>1. CASE arb.req.open
    BY <2>1, <1>2, <1>5, <1>8 DEF WakeInv, NoLostWakeUp, FlushComing
  <2>2. CASE ~arb.req.open /\ arb.fully_bound
    <3>1. Post(Flush({})) \in Elems(steps)
      BY <2>2, <1>3, ShortSeqs
    <3>2. Flush({}) \in Ahead' /\ Flush({}).do = "flush"
      BY <3>1, <1>7 DEF Post, Flush
    <3>3. FlushComing'
      BY <3>2, FlushIsComing
    <3> QED BY <2>2, <3>3, <1>5 DEF WakeInv, NoLostWakeUp
  <2>3. CASE ~arb.fully_bound
    BY <2>3, <1>5 DEF NoLostWakeUp
  <2> QED BY <2>1, <2>2, <2>3
<1> QED BY <1>6, <1>10, <1>11 DEF WakeInv

(***************************************************************************)
(* The task runner, the endpoint and the service                           *)
(***************************************************************************)
LEMMA ReleaseWriterIDWakes ==
  ASSUME WakeInv, NEW t \in Threads, ReleaseWriterID(t)
  PROVE  WakeInv'
<1>0. Shapes /\ todo[t] # <<>> /\ Now(t).do = "release"
  BY DEF WakeInv, ReleaseWriterID, AtStep, Now
<1>1. PICK ids, pending : arb' = [arb EXCEPT !.ids = ids, !.pending = pending]
  BY Zenon DEF ReleaseWriterID
<1>2. PICK steps : IsSeq(steps) /\ todo' = [todo EXCEPT ![t] = steps \o Tail(todo[t])]
  BY ShortSeqs DEF ReleaseWriterID, Then
<1>3. tasks' = tasks /\ delayed' = delayed /\ service' = service
  BY DEF ReleaseWriterID
<1>4. /\ DOMAIN arb' = DOMAIN arb /\ arb'.req = arb.req /\ arb'.bound = arb.bound
      /\ arb'.scheduled = arb.scheduled /\ arb'.callbacks = arb.callbacks
      /\ arb'.fully_bound = arb.fully_bound
  BY <1>0, <1>1 DEF Shapes
<1>5. IsSeq(steps \o Tail(todo[t]))
  BY <1>0, <1>2, TailSeq, ConcatSeq DEF Shapes
<1>6. Shapes'
  BY <1>0, <1>2, <1>3, <1>4, <1>5, ShapesStep DEF Shapes
<1> QED BY <1>0, <1>2, <1>3, <1>4, <1>6, ThenIsCalm

(* A step that only calls the endpoint, a callback, or tries again.        *)
LEMMA ThenWakes ==
  ASSUME WakeInv, NEW t \in Threads, todo[t] # <<>>, NEW steps, IsSeq(steps),
         Now(t).do \notin {"flush", "delay", "post", "clear"},
         todo' = [todo EXCEPT ![t] = steps \o Tail(todo[t])],
         arb' = arb, tasks' = tasks, delayed' = delayed,
         DOMAIN service' = DOMAIN service, IsSeq(service'.inbox),
         Elems(service.inbox) \subseteq Elems(service'.inbox)
  PROVE  WakeInv'
<1>1. IsSeq(steps \o Tail(todo[t]))
  BY TailSeq, ConcatSeq DEF WakeInv, Shapes
<1>2. Shapes'
  BY <1>1, ShapesStep DEF WakeInv, Shapes
<1> QED BY <1>2, ThenIsCalm

LEMMA RetryGetNewChunkWakes ==
  ASSUME WakeInv, NEW t \in Threads, RetryGetNewChunk(t)
  PROVE  WakeInv'
<1>0. /\ Shapes /\ todo[t] # <<>> /\ Now(t).do = "stall"
      /\ arb' = arb /\ tasks' = tasks /\ delayed' = delayed /\ service' = service
  BY DEF WakeInv, RetryGetNewChunk, AtStep, Now
<1>1. PICK steps : IsSeq(steps) /\ todo' = [todo EXCEPT ![t] = steps \o Tail(todo[t])]
  <2>1. CASE free > 0
    <3>1. PICK k : TakeChunk(t, Now(t).w, k, Tail(todo[t]))
      BY <2>1 DEF RetryGetNewChunk
    <3> QED BY <3>1, TakeChunkSteps
  <2>2. CASE ~(free > 0)
    <3>1. PICK c, x : todo' = [todo EXCEPT ![t] =
            ((IF t = IPC /\ c THEN <<Flush({})>> ELSE <<>>) \o <<x>>) \o Tail(todo[t])]
      BY <2>2 DEF RetryGetNewChunk, Then
    <3>2. IsSeq(IF t = IPC /\ c THEN <<Flush({})>> ELSE <<>>) /\ IsSeq(<<x>>)
      BY ShortSeqs
    <3>3. IsSeq((IF t = IPC /\ c THEN <<Flush({})>> ELSE <<>>) \o <<x>>)
      BY <3>2, ConcatSeq
    <3> QED BY <3>1, <3>3
  <2> QED BY <2>1, <2>2
<1> QED BY <1>0, <1>1, ThenWakes DEF Shapes

LEMMA CallEndpointWakes ==
  ASSUME WakeInv, NEW t \in Threads, CallEndpoint(t)
  PROVE  WakeInv'
<1>0. /\ Shapes /\ todo[t] # <<>> /\ Now(t).do \in {"commit", "register", "unregister"}
      /\ arb' = arb /\ tasks' = tasks /\ delayed' = delayed
      /\ service' = [service EXCEPT !.inbox = Append(@, Now(t))]
      /\ todo' = [todo EXCEPT ![t] = <<>> \o Tail(todo[t])]
  BY DEF WakeInv, CallEndpoint, AtStep, Now, Then
<1>1. service'.inbox = Append(service.inbox, Now(t)) /\ DOMAIN service' = DOMAIN service
  BY <1>0 DEF Shapes
<1>2. IsSeq(service'.inbox) /\ Elems(service.inbox) \subseteq Elems(service'.inbox)
  BY <1>0, <1>1, AppendSeq DEF Shapes
<1>3. PICK e : IsSeq(e) /\ todo' = [todo EXCEPT ![t] = e \o Tail(todo[t])]
  BY <1>0, ShortSeqs
<1> QED BY <1>0, <1>1, <1>2, <1>3, ThenWakes

LEMMA RunCallbackWakes ==
  ASSUME WakeInv, RunCallback
  PROVE  WakeInv'
<1>0. /\ Shapes /\ todo[IPC] # <<>> /\ Now(IPC).do = "callback" /\ IPC \in Threads
      /\ arb' = arb /\ tasks' = tasks /\ delayed' = delayed /\ service' = service
      /\ todo' = [todo EXCEPT ![IPC] = <<>> \o Tail(todo[IPC])]
  BY ArbiterConstants DEF WakeInv, RunCallback, AtStep, Now, Then
<1>1. PICK e : IsSeq(e) /\ todo' = [todo EXCEPT ![IPC] = e \o Tail(todo[IPC])]
  BY <1>0, ShortSeqs
<1> QED BY <1>0, <1>1, ThenWakes DEF Shapes

LEMMA PostTaskWakes ==
  ASSUME WakeInv, NEW t \in Threads, PostTask(t)
  PROVE  WakeInv'
<1>0. /\ Shapes /\ todo[t] # <<>> /\ Now(t).do = "post"
      /\ arb' = arb /\ tasks' = Append(tasks, Now(t).task) /\ delayed' = delayed
      /\ service' = service
      /\ todo' = [todo EXCEPT ![t] = <<>> \o Tail(todo[t])]
  BY DEF WakeInv, PostTask, AtStep, Now, Then
<1>1. PICK e : IsSeq(e) /\ todo' = [todo EXCEPT ![t] = e \o Tail(todo[t])]
  BY <1>0, ShortSeqs
<1>2. IsSeq(tasks') /\ Elems(tasks') = Elems(tasks) \cup {Now(t).task}
  BY <1>0, AppendSeq DEF Shapes
<1>3. IsSeq(e \o Tail(todo[t]))
  BY <1>0, <1>1, TailSeq, ConcatSeq DEF Shapes
<1>4. Shapes'
  BY <1>0, <1>1, <1>2, <1>3, ShapesStep DEF Shapes
<1>5. /\ \A u \in Threads \ {t} : todo'[u] = todo[u]
      /\ \A s \in Ahead : s \in Ahead' \/ s = Now(t) \/ s = Now(t).task
  BY <1>0, <1>1, <1>2, ThenStep
<1>6. Now(t).task \in Ahead'
  BY <1>2 DEF Ahead, Elems
<1>7. \A s \in Ahead : s.do \in {"delay", "flush"} => s \in Ahead'
  BY <1>0, <1>5, <1>6
<1>8. todo[IPC] = <<Clear, Flush({})>> => todo'[IPC] = todo[IPC]
  <2>1. CASE t = IPC
    BY <2>1, <1>0 DEF Clear, Flush, Now
  <2>2. CASE t # IPC
    BY <2>2, <1>5, ArbiterConstants
  <2> QED BY <2>1, <2>2
<1>9. BoundFirst' /\ Booked' /\ NoLostWakeUp'
  BY <1>0, <1>7, <1>8, WakeFrame
<1> QED BY <1>4, <1>9 DEF WakeInv

LEMMA PostDelayedTaskWakes ==
  ASSUME WakeInv, NEW t \in Threads, PostDelayedTask(t)
  PROVE  WakeInv'
<1>0. /\ Shapes /\ todo[t] # <<>>
      /\ arb' = arb /\ tasks' = tasks /\ delayed' = delayed + 1 /\ service' = service
      /\ todo' = [todo EXCEPT ![t] = <<>> \o Tail(todo[t])]
  BY DEF WakeInv, PostDelayedTask, AtStep, Now, Then
<1>1. PICK e : IsSeq(e) /\ todo' = [todo EXCEPT ![t] = e \o Tail(todo[t])]
  BY <1>0, ShortSeqs
<1>2. IsSeq(e \o Tail(todo[t]))
  BY <1>0, <1>1, TailSeq, ConcatSeq DEF Shapes
<1>3. delayed' \in Nat /\ delayed' > 0
  BY <1>0 DEF Shapes
<1>4. Shapes'
  BY <1>0, <1>1, <1>2, <1>3, ShapesStep DEF Shapes
<1>5. Booked' /\ FlushComing'
  BY <1>3 DEF Booked, FlushComing
<1> QED BY <1>0, <1>4, <1>5 DEF WakeInv, NoLostWakeUp, BoundFirst

LEMMA RunTaskWakes ==
  ASSUME WakeInv, RunTask
  PROVE  WakeInv'
<1>0. /\ Shapes /\ todo[IPC] = <<>> /\ tasks # <<>> /\ IPC \in Threads
      /\ arb' = arb /\ tasks' = Tail(tasks) /\ delayed' = delayed /\ service' = service
      /\ todo' = [todo EXCEPT ![IPC] = <<Head(tasks)>>]
  BY ArbiterConstants DEF WakeInv, RunTask, Idle, Start
<1>1. IsSeq(tasks') /\ Elems(tasks) = {Head(tasks)} \cup Elems(tasks')
  BY <1>0, TailSeq DEF Shapes
<1>2. PICK new : /\ IsSeq(new) /\ Elems(new) = {Head(tasks)}
                 /\ todo' = [todo EXCEPT ![IPC] = new]
  BY <1>0, ShortSeqs
<1>3. Shapes'
  BY <1>0, <1>1, <1>2, ShapesStep DEF Shapes
<1>4. \A s \in Ahead : s \in Ahead'
  BY <1>0, <1>1, <1>2, StartStep
<1>5. ~(todo[IPC] = <<Clear, Flush({})>>)
  BY <1>0
<1>6. BoundFirst' /\ Booked' /\ NoLostWakeUp'
  BY <1>0, <1>4, <1>5, WakeFrame
<1> QED BY <1>3, <1>6 DEF WakeInv

LEMMA RunDelayedTaskWakes ==
  ASSUME WakeInv, RunDelayedTask
  PROVE  WakeInv'
<1>0. /\ Shapes /\ todo[IPC] = <<>> /\ IPC \in Threads
      /\ arb' = arb /\ tasks' = tasks /\ service' = service
      /\ delayed > 0 /\ delayed' = delayed - 1
      /\ todo' = [todo EXCEPT ![IPC] = <<Clear, Flush({})>>]
  BY ArbiterConstants DEF WakeInv, RunDelayedTask, Idle, Start
<1>1. /\ IsSeq(<<Clear, Flush({})>>)
  <2>1. PICK c, f : c = Clear /\ f = Flush({})
    OBVIOUS
  <2>2. <<c, f>> \in Seq({c, f})
    OBVIOUS
  <2> QED BY <2>1, <2>2, TypedIsSeq
<1>2. PICK new : new = <<Clear, Flush({})>>
  OBVIOUS
<1>3. delayed' \in Nat
  BY <1>0 DEF Shapes
<1>4. Shapes'
  BY <1>0, <1>1, <1>2, <1>3, ShapesStep DEF Shapes
<1>5. todo'[IPC] = new /\ Elems(new) \subseteq Ahead'
  BY <1>0, <1>1, <1>2, StartStep
<1>6. Flush({}) \in Ahead' /\ Flush({}).do = "flush"
  <2>1. 2 \in DOMAIN new /\ new[2] = Flush({})
    BY <1>2
  <2> QED BY <2>1, <1>5 DEF Elems, Flush
<1>7. Booked' /\ FlushComing'
  <2>1. FlushComing'
    BY <1>6, FlushIsComing
  <2>2. Booked'
    BY <1>2, <1>5 DEF Booked, Clear, Flush
  <2> QED BY <2>1, <2>2
<1> QED BY <1>0, <1>4, <1>7 DEF WakeInv, NoLostWakeUp, BoundFirst

LEMMA ClearDelayedFlushScheduledWakes ==
  ASSUME WakeInv, ClearDelayedFlushScheduled
  PROVE  WakeInv'
<1>0. /\ Shapes /\ todo[IPC] # <<>> /\ Now(IPC).do = "clear" /\ IPC \in Threads
      /\ arb' = [arb EXCEPT !.scheduled = FALSE]
      /\ tasks' = tasks /\ delayed' = delayed /\ service' = service
      /\ todo' = [todo EXCEPT ![IPC] = <<>> \o Tail(todo[IPC])]
  BY ArbiterConstants DEF WakeInv, ClearDelayedFlushScheduled, AtStep, Now, Then
<1>1. PICK e : IsSeq(e) /\ todo' = [todo EXCEPT ![IPC] = e \o Tail(todo[IPC])]
  BY <1>0, ShortSeqs
<1>2. /\ DOMAIN arb' = DOMAIN arb /\ arb'.req = arb.req /\ arb'.bound = arb.bound
      /\ arb'.scheduled = FALSE /\ arb'.callbacks = arb.callbacks
      /\ arb'.fully_bound = arb.fully_bound
  BY <1>0 DEF Shapes
<1>3. IsSeq(e \o Tail(todo[IPC]))
  BY <1>0, <1>1, TailSeq, ConcatSeq DEF Shapes
<1>4. Shapes'
  BY <1>0, <1>1, <1>2, <1>3, ShapesStep DEF Shapes
<1>5. \A s \in Ahead : s \in Ahead' \/ s = Now(IPC)
  BY <1>0, <1>1, ThenStep
<1>6. Coming("delay") \subseteq Coming("delay")' /\ Coming("flush") \subseteq Coming("flush")'
  BY <1>0, <1>5 DEF Coming
<1>7. Booked' /\ BoundFirst'
  BY <1>2 DEF WakeInv, Booked, BoundFirst
<1>8. NoLostWakeUp'
  BY <1>0, <1>2, <1>6 DEF WakeInv, NoLostWakeUp, FlushComing
<1> QED BY <1>4, <1>7, <1>8 DEF WakeInv

LEMMA ServiceStepWakes ==
  ASSUME WakeInv, ServiceStep
  PROVE  WakeInv'
<1>0. /\ Shapes /\ service.inbox # <<>> /\ arb' = arb /\ todo' = todo /\ delayed' = delayed
      /\ Head(service.inbox).do \in {"commit", "register", "unregister"}
  BY DEF WakeInv, ServiceStep
<1>1. /\ service'.inbox = Tail(service.inbox) /\ DOMAIN service' = DOMAIN service
      /\ tasks' = tasks \/ \E x : tasks' = Append(tasks, x)
  <2>1. CASE Head(service.inbox).do = "commit"
    <3>1. ServiceCommit(Head(service.inbox))
      BY <2>1 DEF ServiceStep
    <3>2. PICK landed, flushed :
            service' = [service EXCEPT !.inbox = Tail(@), !.landed = landed,
                                       !.flushed = flushed]
      BY <3>1, Zenon DEF ServiceCommit
    <3>3. tasks' = tasks \/ \E x : tasks' = Append(tasks, x)
      BY <3>1 DEF ServiceCommit
    <3> QED BY <3>2, <3>3, <1>0 DEF Shapes
  <2>2. CASE Head(service.inbox).do # "commit"
    <3>1. PICK known : service' = [service EXCEPT !.inbox = Tail(@), !.registered = known]
      BY <2>2, Zenon DEF ServiceStep
    <3>2. tasks' = tasks
      BY <2>2 DEF ServiceStep
    <3> QED BY <3>1, <3>2, <1>0 DEF Shapes
  <2> QED BY <2>1, <2>2
<1>2. /\ IsSeq(service'.inbox)
      /\ Elems(service.inbox) = {Head(service.inbox)} \cup Elems(service'.inbox)
  BY <1>0, <1>1, TailSeq DEF Shapes
<1>3. IsSeq(tasks') /\ Elems(tasks) \subseteq Elems(tasks')
  <2>1. IsSeq(tasks)
    BY <1>0 DEF Shapes
  <2>2. CASE tasks' = tasks
    BY <2>1, <2>2
  <2>3. CASE \E x : tasks' = Append(tasks, x)
    BY <2>1, <2>3, AppendSeq
  <2> QED BY <2>2, <2>3, <1>1
<1>4. Shapes'
  BY <1>0, <1>1, <1>2, <1>3 DEF Shapes
<1>5. \A s \in Ahead : s \in Ahead' \/ s = Head(service.inbox)
  <2>1. \A t \in Threads : Steps(t)' = Steps(t)
    BY <1>0 DEF Steps
  <2>2. Posting' = Posting
    BY <2>1 DEF Posting
  <2> QED BY <2>1, <2>2, <1>2, <1>3 DEF Ahead, Elems
<1>6. \A s \in Ahead : s.do \in {"delay", "flush"} => s \in Ahead'
  BY <1>0, <1>5
<1>7. BoundFirst' /\ Booked' /\ NoLostWakeUp'
  BY <1>0, <1>6, WakeFrame
<1> QED BY <1>4, <1>7 DEF WakeInv

(***************************************************************************)
(* The theorem                                                             *)
(***************************************************************************)
LEMMA InitWakes ==
  ASSUME Init
  PROVE  WakeInv
<1>1. IsSeq(<<>>)
  BY ShortSeqs
<1>2. PICK c \in Scenarios :
        arb = [bound |-> c.bound, fully_bound |-> c.bound,
               was_always_bound |-> c.bound,
               req |-> NoRequest, scheduled |-> FALSE, callbacks |-> {},
               pending |-> {}, reservations |-> [r \in Reservations |-> Absent],
               ids |-> {}, last_id |-> 0, did_shutdown |-> FALSE, direct |-> FALSE]
  BY DEF Init
<1>3. c.bound \in BOOLEAN
  BY ArbiterConstants DEF Scenario
<1>4. /\ arb.bound = c.bound /\ arb.fully_bound = c.bound /\ arb.req = NoRequest
      /\ arb.scheduled = FALSE /\ arb.callbacks = {}
      /\ DOMAIN arb = {"bound", "fully_bound", "was_always_bound", "req", "scheduled",
                       "callbacks", "pending", "reservations", "ids", "last_id",
                       "did_shutdown", "direct"}
  BY <1>2
<1>5. NoRequest.open = FALSE /\ DOMAIN NoRequest = {"open", "move", "patch", "flush"}
  BY DEF NoRequest
<1>6. /\ todo = [t \in Threads |-> <<>>] /\ tasks = <<>> /\ delayed = 0
      /\ service = [inbox |-> <<>>, landed |-> <<>>, registered |-> {}, flushed |-> 0]
  BY DEF Init
<1>7. Shapes
  BY <1>1, <1>3, <1>4, <1>5, <1>6 DEF Shapes
<1> QED BY <1>4, <1>5, <1>7 DEF WakeInv, BoundFirst, Booked, NoLostWakeUp

LEMMA NextWakes ==
  ASSUME WakeInv, [Next]_vars
  PROVE  WakeInv'
<1>1. ASSUME NEW t \in Threads, Call(t) PROVE WakeInv'
  BY <1>1, CreateTraceWriterWakes, AbortStartupTracingWakes, DestroyTraceWriterWakes,
     GetNewChunkWakes, GetNewChunkExhaustedWakes, QuietWakes, SendPatchesWakes,
     FlushWriterWakes, NotifyFlushCompleteWakes DEF Call, FinalizeNested
<1>2. ASSUME NEW t \in Threads, Step(t) PROVE WakeInv'
  BY <1>2, ReleaseWriterIDWakes, RetryGetNewChunkWakes, ReturnCompletedChunkWakes,
     FlushPendingWakes, PostTaskWakes, PostDelayedTaskWakes, CallEndpointWakes DEF Step
<1>3. ASSUME Bind PROVE WakeInv'
  BY <1>3, BindToProducerEndpointWakes, BindStartupTargetBufferWakes, QuietWakes
     DEF Bind, EnableDirectSMBPatching, TryShutdown
<1>4. ASSUME TaskRunner PROVE WakeInv'
  BY <1>4, RunTaskWakes, RunDelayedTaskWakes, ClearDelayedFlushScheduledWakes,
     RunCallbackWakes, RunAbortWakes DEF TaskRunner
<1>5. ASSUME UNCHANGED vars PROVE WakeInv'
  BY <1>5, QuietWakes DEF vars
<1> QED BY <1>1, <1>2, <1>3, <1>4, <1>5, ServiceStepWakes DEF Next

(* The inductive invariant holds in every behaviour.                       *)
THEOREM WakeInvHolds == Spec => []WakeInv
<1>1. Init => WakeInv
  BY InitWakes
<1>2. WakeInv /\ [Next]_vars => WakeInv'
  BY NextWakes
<1> QED BY <1>1, <1>2, PTL DEF Spec

(* For any number of threads, reservations, buffers, writers and chunks:   *)
(* while the arbiter is fully bound, a commit request that is open is      *)
(* about to be flushed and no flush callback waits for a bind, whatever    *)
(* the threads do between leaving the lock and posting                     *)
(* (UpdateCommitDataRequest, FlushPendingCommitDataRequests,               *)
(* NotifyFlushComplete, BindStartupTargetBufferImpl).                      *)
THEOREM NoLostWakeUpHolds == Spec => []NoLostWakeUp
<1>1. WakeInv => NoLostWakeUp
  BY DEF WakeInv
<1> QED BY <1>1, WakeInvHolds, PTL

(***************************************************************************)
(* Part two: the stream of chunks                                          *)
(***************************************************************************)
Ids == Buffers \cup {kInvalidBufferId}

(* The writers, the chunks each has acquired and returned, and the rest of *)
(* the state as far as it is not in Shapes.                                *)
WriterShapes ==
  /\ IsSeq(writers)
  /\ \A w \in DOMAIN writers :
       /\ DOMAIN writers[w] = {"thread", "id", "target", "live", "cur", "n",
                               "returned", "patches"}
       /\ writers[w].thread \in Threads /\ writers[w].target \in Ids \cup Reservations
       /\ writers[w].cur \in BOOLEAN
       /\ writers[w].n \in Nat /\ writers[w].returned \in Nat
  /\ arb.reservations \in [Reservations -> Ids \cup {Absent, Unresolved}]
  /\ DOMAIN env = {"c", "claimed", "flushes", "asked", "overtaken"}
  /\ env.flushes \in Nat /\ IsSeq(env.asked) /\ IsSeq(answered)

(* What is posted is a task, and only the IPC thread calls the endpoint,   *)
(* with a commit as the first thing it does.                               *)
PostKinds == {"flush", "register", "unregister", "abort"}
TaskKinds == PostKinds \cup {"callback"}
Endpoint == {"commit", "register", "unregister"}
Division ==
  /\ todo = [t \in Threads |-> todo[t]]
  /\ \A x \in Elems(tasks) : x.do \in TaskKinds
  /\ \A x \in Elems(service.inbox) : x.do \in Endpoint
  /\ \A t \in Threads : \A x \in Elems(todo[t]) :
       /\ x.do = "post" => x.task.do \in PostKinds
       /\ x.do \in Endpoint => t = IPC
  /\ \A t \in Threads : todo[t] # <<>> => \A x \in Elems(Tail(todo[t])) : x.do # "commit"

(* A thread has at most one chunk in hand, to return or to wait for.       *)
InHand == {"return", "stall"}
NoneInHand(s) == \A i \in DOMAIN s : s[i].do \notin InHand
OneInHand(s) == \A i, j \in DOMAIN s : s[i].do \in InHand /\ s[j].do \in InHand => i = j

(* A writer has returned the chunks before its current one, but for one    *)
(* that its thread is about to return.                                     *)
Current(w) == IF writers[w].cur THEN 1 ELSE 0
Returning(w) ==
  \E t \in Threads : \E x \in Elems(todo[t]) : x.do = "return" /\ x.w = w
Returns ==
  /\ \A t \in Threads : OneInHand(todo[t])
  /\ \A t \in Threads : \A x \in Elems(todo[t]) :
       x.do \in InHand => x.w \in DOMAIN writers /\ writers[x.w].thread = t
  /\ \A t \in Threads : \A x \in Elems(todo[t]) :
       x.do = "return" => /\ x.n = writers[x.w].returned + 1
                          /\ writers[x.w].n = writers[x.w].returned + 1 + Current(x.w)
  /\ \A w \in DOMAIN writers : ~Returning(w)
       => writers[w].n = writers[w].returned + Current(w)

(* What the threads do, and the writers they do it for.                    *)
Order == WriterShapes /\ Division /\ Returns
ThreadInv == WakeInv /\ Order

(* A task that aborts the reservation r is on its way.                     *)
Aborts(x, r) == x.do = "abort" /\ x.r = r
Aborting(r) ==
  \/ \E x \in Elems(tasks) : Aborts(x, r)
  \/ \E t \in Threads : \E x \in Elems(todo[t]) :
       Aborts(x, r) \/ (x.do = "post" /\ Aborts(x.task, r))

(* A reservation is known once it has a writer, and settled once resolved: *)
(* it is bound or aborted once.                                            *)
Binding ==
  /\ arb.fully_bound => Resolved(arb)
  /\ \A w \in DOMAIN writers : writers[w].target \in Reservations
       => arb.reservations[writers[w].target] # Absent
  /\ \A r \in Reservations : arb.reservations[r] \in Ids => r \in env.claimed
  /\ \A r \in Reservations : Aborting(r)
       => r \in env.claimed /\ arb.reservations[r] \notin Buffers

(***************************************************************************)
(* The stream of chunks                                                    *)
(***************************************************************************)
(* What has been sent or is about to be: the messages in the inbox and the *)
(* commit that the IPC thread has made of the request.                     *)
Wire ==
  IF todo[IPC] # <<>> /\ Head(todo[IPC]).do = "commit"
  THEN Append(service.inbox, Head(todo[IPC])) ELSE service.inbox

(* The positions of the commits among messages, and their chunks.          *)
SentIn(wire) == {i \in DOMAIN wire : wire[i].do = "commit"}
Sent == SentIn(Wire)
Moves(i) == Wire[i].req.move

(* A list of chunks of the writers ws, which have returned them.           *)
EntryFields == {"w", "n", "target", "left", "writing"}
Entry(ws, e) ==
  /\ DOMAIN e = EntryFields /\ e.w \in DOMAIN ws /\ e.n \in 1 .. ws[e.w].returned
Entries(ws, move) == IsSeq(move) /\ \A i \in DOMAIN move : Entry(ws, move[i])
Increasing(move) ==
  \A i, j \in DOMAIN move : i < j /\ move[i].w = move[j].w => move[i].n < move[j].n
Before(m1, m2) ==
  \A i \in DOMAIN m1 : \A j \in DOMAIN m2 : m1[i].w = m2[j].w => m1[i].n < m2[j].n
Has(move, w, n) == \E i \in DOMAIN move : move[i].w = w /\ move[i].n = n

(* The chunks landed, those of the commits on the wire and those of the    *)
(* request, in this order, are each writer's chunks in the order of their  *)
(* numbers, and all that it has returned.                                  *)
Lists(ws, landed, wire, move) ==
  /\ Entries(ws, landed) /\ Increasing(landed)
  /\ Entries(ws, move) /\ Increasing(move)
  /\ \A i \in SentIn(wire) : Entries(ws, wire[i].req.move) /\ Increasing(wire[i].req.move)
InTurn(landed, wire, move) ==
  /\ Before(landed, move)
  /\ \A i \in SentIn(wire) : /\ Before(landed, wire[i].req.move)
                             /\ Before(wire[i].req.move, move)
  /\ \A i, j \in SentIn(wire) : i < j => Before(wire[i].req.move, wire[j].req.move)
Somewhere(landed, wire, move, w, n) ==
  \/ Has(landed, w, n) \/ Has(move, w, n)
  \/ \E i \in SentIn(wire) : Has(wire[i].req.move, w, n)
Everything(ws, landed, wire, move) ==
  \A w \in DOMAIN ws : \A n \in 1 .. ws[w].returned : Somewhere(landed, wire, move, w, n)
Flow(ws, landed, wire, move) ==
  /\ Lists(ws, landed, wire, move) /\ InTurn(landed, wire, move)
  /\ Everything(ws, landed, wire, move)
Stream ==
  /\ ~arb.req.open => arb.req = NoRequest
  /\ Flow(writers, service.landed, Wire, arb.req.move)

(* The chunks of the request still name the target of their writer, those  *)
(* sent the buffer that it stands for.                                     *)
StandsFor(res, b) == IF IsReservation(b) THEN res[b] ELSE b
Settled(ws, res, move) == \A i \in DOMAIN move :
  move[i].target = StandsFor(res, ws[move[i].w].target) /\ move[i].target \in Ids
Named(ws, move) == \A i \in DOMAIN move : move[i].target = ws[move[i].w].target
Targets(ws, res, landed, wire, move) ==
  /\ Settled(ws, res, landed) /\ Named(ws, move)
  /\ \A i \in SentIn(wire) : Settled(ws, res, wire[i].req.move)
TargetsKept == Targets(writers, arb.reservations, service.landed, Wire, arb.req.move)

(* The inductive invariant.                                                *)
StreamInv == ThreadInv /\ Binding /\ Stream /\ TargetsKept

(***************************************************************************)
(* The callbacks that steps hold                                           *)
(***************************************************************************)
CbsOf(s) ==
  IF s.do \in {"flush", "commit", "callback"} THEN s.cbs
  ELSE IF s.do = "post" THEN IF s.task.do = "flush" THEN s.task.cbs ELSE {}
  ELSE {}
HeldIn(seq) == UNION {CbsOf(seq[i]) : i \in DOMAIN seq}
Apart(seq) == \A i, j \in DOMAIN seq : i # j => CbsOf(seq[i]) \cap CbsOf(seq[j]) = {}

(***************************************************************************)
(* Steps of a thread                                                       *)
(***************************************************************************)
(* Thread t replaces the step it has done, if any, by the steps "first".   *)
Rest(t) == IF todo[t] = <<>> THEN <<>> ELSE Tail(todo[t])
Goes(t, first) == IsSeq(first) /\ todo' = [todo EXCEPT ![t] = first \o Rest(t)]

LEMMA GoesFacts ==
  ASSUME Shapes, NEW t \in Threads, NEW first, Goes(t, first)
  PROVE  /\ IsSeq(first) /\ IsSeq(Rest(t))
         /\ todo'[t] = first \o Rest(t) /\ \A u \in Threads \ {t} : todo'[u] = todo[u]
         /\ Elems(todo'[t]) = Elems(first) \cup Elems(Rest(t))
         /\ todo[t] = <<>> => Elems(todo[t]) = {} /\ Rest(t) = <<>> /\ Elems(Rest(t)) = {}
         /\ todo[t] # <<>> => /\ Rest(t) = Tail(todo[t]) /\ Now(t) \in Elems(todo[t])
                              /\ Elems(todo[t]) = {Now(t)} \cup Elems(Rest(t))
         /\ Elems(Rest(t)) \subseteq Elems(todo[t])
<1>1. IsSeq(todo[t]) /\ DOMAIN todo = Threads /\ IsSeq(<<>>) /\ Elems(<<>>) = {}
  BY ShortSeqs DEF Shapes
<1>2. todo[t] # <<>> => /\ IsSeq(Tail(todo[t]))
                        /\ Elems(todo[t]) = {Now(t)} \cup Elems(Tail(todo[t]))
  BY <1>1, TailSeq DEF Now
<1>3. /\ todo[t] = <<>> => Rest(t) = <<>>
      /\ todo[t] # <<>> => Rest(t) = Tail(todo[t])
  BY DEF Rest
<1>4. IsSeq(Rest(t)) /\ IsSeq(first)
  BY <1>1, <1>2, <1>3 DEF Goes
<1>5. todo'[t] = first \o Rest(t) /\ \A u \in Threads \ {t} : todo'[u] = todo[u]
  BY <1>1 DEF Goes
<1>6. Elems(first \o Rest(t)) = Elems(first) \cup Elems(Rest(t))
  BY <1>4, ConcatSeq
<1>7. CASE todo[t] = <<>>
  BY <1>7, <1>1, <1>3, <1>4, <1>5, <1>6
<1>8. CASE todo[t] # <<>>
  BY <1>8, <1>2, <1>3, <1>4, <1>5, <1>6
<1> QED BY <1>7, <1>8

(* Head and tail after such a step.                                        *)
LEMMA GoesHead ==
  ASSUME Shapes, NEW t \in Threads, NEW first, Goes(t, first)
  PROVE  /\ first = <<>> => todo'[t] = Rest(t)
         /\ first # <<>> => /\ todo'[t] # <<>> /\ Head(todo'[t]) = Head(first)
                            /\ Head(first) \in Elems(first)
                            /\ Elems(Tail(todo'[t])) = Elems(Tail(first)) \cup Elems(Rest(t))
<1> DEFINE S == Elems(first) \cup Elems(Rest(t))
<1>1. first \in Seq(S) /\ Rest(t) \in Seq(S) /\ todo'[t] = first \o Rest(t)
  BY GoesFacts DEF IsSeq
<1>2. IsSeq(first) /\ IsSeq(Rest(t))
  BY GoesFacts
<1> HIDE DEF S
<1>3. PICK rest \in Seq(S) : rest = Rest(t)
  BY <1>1
<1>4. first = <<>> => todo'[t] = Rest(t)
  BY <1>1, <1>3
<1>5. ASSUME first # <<>>
      PROVE  /\ todo'[t] # <<>> /\ Head(todo'[t]) = Head(first) /\ Head(first) \in Elems(first)
             /\ Elems(Tail(todo'[t])) = Elems(Tail(first)) \cup Elems(Rest(t))
  <2>1. first \o rest # <<>> /\ Head(first \o rest) = Head(first)
    BY <1>1, <1>5
  <2>2. Tail(first \o rest) = Tail(first) \o rest
    BY <1>1, <1>5
  <2>3. IsSeq(Tail(first)) /\ Head(first) \in Elems(first)
    BY <1>2, <1>5, TailSeq
  <2>4. Elems(Tail(first) \o rest) = Elems(Tail(first)) \cup Elems(rest)
    BY <2>3, <1>2, <1>3, ConcatSeq
  <2> QED BY <2>1, <2>2, <2>3, <2>4, <1>1, <1>3
<1> QED BY <1>4, <1>5

(* Starting from an idle thread, and going on from a step.                 *)
LEMMA StartGoes ==
  ASSUME Shapes, NEW t \in Threads, todo[t] = <<>>, NEW steps, IsSeq(steps),
         todo' = [todo EXCEPT ![t] = steps]
  PROVE  Goes(t, steps)
<1>1. steps \o <<>> = steps
  BY DEF IsSeq
<1>2. Rest(t) = <<>>
  BY DEF Rest
<1> QED BY <1>1, <1>2 DEF Goes

LEMMA ThenGoes ==
  ASSUME Shapes, NEW t \in Threads, todo[t] # <<>>, NEW steps, IsSeq(steps),
         todo' = [todo EXCEPT ![t] = steps \o Tail(todo[t])]
  PROVE  Goes(t, steps)
BY DEF Goes, Rest

(* Division after a step.                                                  *)
LEMMA DivisionStep ==
  ASSUME Shapes, Division, NEW t \in Threads, NEW first, Goes(t, first),
         \A x \in Elems(first) : /\ x.do = "post" => x.task.do \in PostKinds
                                 /\ x.do \in Endpoint => t = IPC,
         first # <<>> => \A x \in Elems(Tail(first)) : x.do # "commit",
         \A x \in Elems(tasks') : x \in Elems(tasks) \/ x.do \in TaskKinds,
         \A x \in Elems(service'.inbox) : x \in Elems(service.inbox) \/ x.do \in Endpoint
  PROVE  Division'
<1>1. /\ todo'[t] = first \o Rest(t) /\ \A u \in Threads \ {t} : todo'[u] = todo[u]
      /\ Elems(todo'[t]) = Elems(first) \cup Elems(Rest(t))
      /\ Elems(Rest(t)) \subseteq Elems(todo[t])
      /\ todo[t] = <<>> => Elems(Rest(t)) = {}
      /\ todo[t] # <<>> => Rest(t) = Tail(todo[t])
      /\ IsSeq(Rest(t))
  BY GoesFacts
<1>2. \A x \in Elems(Rest(t)) : x.do # "commit"
  BY <1>1 DEF Division
<1>3. \A u \in Threads : \A x \in Elems(todo'[u]) :
        /\ x.do = "post" => x.task.do \in PostKinds
        /\ x.do \in Endpoint => u = IPC
  BY <1>1 DEF Division
<1>4. ASSUME NEW u \in Threads, todo'[u] # <<>>, NEW x \in Elems(Tail(todo'[u]))
      PROVE  x.do # "commit"
  <2>1. CASE u # t
    BY <2>1, <1>1, <1>4 DEF Division
  <2>2. CASE u = t /\ first = <<>>
    <3>1. todo'[u] = Rest(t)
      BY <2>2, GoesHead
    <3>2. Elems(Tail(Rest(t))) \subseteq Elems(Rest(t))
      BY <3>1, <1>1, <1>4, TailSeq
    <3> QED BY <3>1, <3>2, <1>2, <1>4
  <2>3. CASE u = t /\ first # <<>>
    <3>1. Elems(Tail(todo'[u])) = Elems(Tail(first)) \cup Elems(Rest(t))
      BY <2>3, GoesHead
    <3> QED BY <2>3, <3>1, <1>2, <1>4
  <2> QED BY <2>1, <2>2, <2>3
<1>5. todo' = [u \in Threads |-> todo'[u]]
  BY DEF Goes, Shapes
<1> QED BY <1>3, <1>4, <1>5 DEF Division

(* What is in hand after a step.                                           *)
LEMMA InHandStep ==
  ASSUME NEW s, NEW r, IsSeq(s), IsSeq(r), OneInHand(s), OneInHand(r),
         NoneInHand(s) \/ NoneInHand(r)
  PROVE  OneInHand(s \o r)
<1>1. /\ Len(s) \in Nat /\ Len(r) \in Nat
      /\ DOMAIN s = 1 .. Len(s) /\ DOMAIN r = 1 .. Len(r)
      /\ DOMAIN (s \o r) = 1 .. Len(s) + Len(r)
      /\ \A i \in DOMAIN s : (s \o r)[i] = s[i]
      /\ \A i \in DOMAIN r : (s \o r)[Len(s) + i] = r[i]
  BY ConcatSeq
<1>2. ASSUME NEW i \in DOMAIN (s \o r), NEW j \in DOMAIN (s \o r),
             (s \o r)[i].do \in InHand, (s \o r)[j].do \in InHand
      PROVE  i = j
  <2>1. \A k \in DOMAIN (s \o r) :
          \/ k \in DOMAIN s /\ (s \o r)[k] = s[k]
          \/ k - Len(s) \in DOMAIN r /\ (s \o r)[k] = r[k - Len(s)] /\ k \in Int
    <3>1. SUFFICES ASSUME NEW k \in 1 .. Len(s) + Len(r), k \notin 1 .. Len(s)
                   PROVE  k - Len(s) \in 1 .. Len(r) /\ k = Len(s) + (k - Len(s))
      BY <1>1
    <3> QED BY <3>1, <1>1
  <2>2. CASE i \in DOMAIN s /\ (s \o r)[i] = s[i] /\ j \in DOMAIN s /\ (s \o r)[j] = s[j]
    BY <2>2, <1>2 DEF OneInHand
  <2>3. CASE /\ i - Len(s) \in DOMAIN r /\ (s \o r)[i] = r[i - Len(s)] /\ i \in Int
             /\ j - Len(s) \in DOMAIN r /\ (s \o r)[j] = r[j - Len(s)] /\ j \in Int
    <3>1. i - Len(s) = j - Len(s)
      BY <2>3, <1>2 DEF OneInHand
    <3> QED BY <3>1, <2>3, <1>1
  <2>4. CASE \/ /\ i \in DOMAIN s /\ (s \o r)[i] = s[i]
                /\ j - Len(s) \in DOMAIN r /\ (s \o r)[j] = r[j - Len(s)]
             \/ /\ j \in DOMAIN s /\ (s \o r)[j] = s[j]
                /\ i - Len(s) \in DOMAIN r /\ (s \o r)[i] = r[i - Len(s)]
    BY <2>4, <1>2 DEF NoneInHand
  <2> QED BY <2>1, <2>2, <2>3, <2>4
<1> QED BY <1>2 DEF OneInHand

LEMMA InHandRest ==
  ASSUME Shapes, NEW t \in Threads, OneInHand(todo[t])
  PROVE  /\ OneInHand(Rest(t))
         /\ todo[t] = <<>> => NoneInHand(Rest(t))
         /\ todo[t] # <<>> /\ Now(t).do \in InHand => NoneInHand(Rest(t))
<1>1. CASE todo[t] = <<>>
  <2>1. Rest(t) = <<>>
    BY <1>1 DEF Rest
  <2> QED BY <1>1, <2>1 DEF OneInHand, NoneInHand
<1>2. CASE todo[t] # <<>>
  <2>1. PICK s, r : s = todo[t] /\ r = Rest(t) /\ r = Tail(s) /\ s # <<>> /\ IsSeq(s)
    BY <1>2 DEF Rest, Shapes
  <2>2. /\ Len(s) \in Nat \ {0} /\ DOMAIN s = 1 .. Len(s) /\ DOMAIN r = 1 .. Len(s) - 1
        /\ Head(s) = s[1]
        /\ \A i \in DOMAIN r : i + 1 \in DOMAIN s /\ r[i] = s[i + 1]
    BY <2>1, TailSeq
  <2>3. OneInHand(r)
    <3>1. SUFFICES ASSUME NEW i \in DOMAIN r, NEW j \in DOMAIN r,
                          r[i].do \in InHand, r[j].do \in InHand
                   PROVE  i = j
      BY DEF OneInHand
    <3>2. i + 1 = j + 1
      BY <3>1, <2>1, <2>2 DEF OneInHand
    <3> QED BY <3>2, <2>2
  <2>4. Now(t).do \in InHand => NoneInHand(r)
    <3>1. SUFFICES ASSUME s[1].do \in InHand, NEW i \in DOMAIN r, r[i].do \in InHand
                   PROVE  FALSE
      BY <2>1, <2>2 DEF NoneInHand, Now
    <3>2. 1 \in DOMAIN s /\ i \in Nat /\ i >= 1
      BY <2>2
    <3>3. i + 1 = 1
      BY <3>1, <3>2, <2>1, <2>2 DEF OneInHand
    <3> QED BY <3>2, <3>3
  <2> QED BY <1>2, <2>1, <2>3, <2>4
<1> QED BY <1>1, <1>2

(* The sequence is in hand as its elements say.                            *)
LEMMA NoneByElems ==
  ASSUME NEW s
  PROVE  NoneInHand(s) <=> \A x \in Elems(s) : x.do \notin InHand
BY DEF NoneInHand, Elems

(* A step that takes nothing in hand and leaves the writers' chunks alone. *)
LEMMA ReturnsKept ==
  ASSUME Shapes, WriterShapes, Returns, NEW t \in Threads, NEW first, Goes(t, first),
         \A x \in Elems(first) : x.do \notin InHand,
         todo[t] # <<>> => Now(t).do # "return",
         DOMAIN writers \subseteq DOMAIN writers',
         \A w \in DOMAIN writers :
           /\ writers'[w].thread = writers[w].thread /\ writers'[w].n = writers[w].n
           /\ writers'[w].returned = writers[w].returned
           /\ writers'[w].cur = writers[w].cur,
         \A w \in DOMAIN writers' \ DOMAIN writers :
           /\ writers'[w].n = 0 /\ writers'[w].returned = 0 /\ writers'[w].cur = FALSE
  PROVE  Returns'
<1>1. /\ IsSeq(first) /\ IsSeq(Rest(t))
      /\ todo'[t] = first \o Rest(t) /\ \A u \in Threads \ {t} : todo'[u] = todo[u]
      /\ Elems(todo'[t]) = Elems(first) \cup Elems(Rest(t))
      /\ todo[t] = <<>> => Elems(todo[t]) = {}
      /\ todo[t] # <<>> => Elems(todo[t]) = {Now(t)} \cup Elems(Rest(t))
      /\ Elems(Rest(t)) \subseteq Elems(todo[t])
  BY GoesFacts
<1>2. \A u \in Threads : OneInHand(todo'[u])
  <2>1. OneInHand(first \o Rest(t))
    <3>1. NoneInHand(first)
      BY NoneByElems
    <3>2. OneInHand(first)
      BY <3>1 DEF NoneInHand, OneInHand
    <3>3. OneInHand(Rest(t))
      BY InHandRest DEF Returns
    <3> QED BY <3>1, <3>2, <3>3, <1>1, InHandStep
  <2> QED BY <2>1, <1>1 DEF Returns
<1>3. \A u \in Threads : \A x \in Elems(todo'[u]) : x.do \in InHand => x \in Elems(todo[u])
  BY <1>1
<1>4. \A w \in DOMAIN writers : Current(w)' = Current(w)
  BY DEF Current
<1>5. \A u \in Threads : \A x \in Elems(todo'[u]) :
        x.do \in InHand => x.w \in DOMAIN writers' /\ writers'[x.w].thread = u
  BY <1>3 DEF Returns
<1>6. \A u \in Threads : \A x \in Elems(todo'[u]) :
        x.do = "return" => /\ x.n = writers'[x.w].returned + 1
                           /\ writers'[x.w].n = writers'[x.w].returned + 1 + Current(x.w)'
  BY <1>3, <1>4 DEF Returns, InHand
<1>7. ASSUME NEW w \in DOMAIN writers', ~Returning(w)'
      PROVE  writers'[w].n = writers'[w].returned + Current(w)'
  <2>1. CASE w \in DOMAIN writers
    <3>1. \A u \in Threads : \A x \in Elems(todo[u]) : x.do = "return" => x \in Elems(todo'[u])
      BY <1>1
    <3>2. ~Returning(w)
      BY <3>1, <1>7 DEF Returning
    <3> QED BY <3>2, <2>1, <1>4 DEF Returns
  <2>2. CASE w \notin DOMAIN writers
    BY <2>2, <1>7 DEF Current
  <2> QED BY <2>1, <2>2
<1> QED BY <1>2, <1>5, <1>6, <1>7 DEF Returns

(* A step of a thread for its writer w.                                    *)
LEMMA ReturnsStep ==
  ASSUME Shapes, WriterShapes, Returns, NEW t \in Threads, NEW first, Goes(t, first),
         NEW w \in DOMAIN writers, writers[w].thread = t,
         todo[t] # <<>> => Now(t).do \in InHand /\ Now(t).w = w,
         DOMAIN writers' = DOMAIN writers, writers'[w].thread = t,
         \A v \in DOMAIN writers \ {w} : writers'[v] = writers[v],
         OneInHand(first),
         \A x \in Elems(first) : x.do \in InHand => x.w = w,
         \A x \in Elems(first) : x.do = "return"
           => /\ x.n = writers'[w].returned + 1
              /\ writers'[w].n = writers'[w].returned + 1 + Current(w)',
         (\A x \in Elems(first) : x.do # "return")
           => writers'[w].n = writers'[w].returned + Current(w)'
  PROVE  Returns'
<1>1. /\ IsSeq(first) /\ IsSeq(Rest(t))
      /\ todo'[t] = first \o Rest(t) /\ \A u \in Threads \ {t} : todo'[u] = todo[u]
      /\ Elems(todo'[t]) = Elems(first) \cup Elems(Rest(t))
      /\ todo[t] # <<>> => Now(t) \in Elems(todo[t])
  BY GoesFacts
<1>2. OneInHand(Rest(t)) /\ NoneInHand(Rest(t))
  BY InHandRest DEF Returns
<1>3. \A x \in Elems(Rest(t)) : x.do \notin InHand
  BY <1>2, NoneByElems
<1>4. \A u \in Threads : OneInHand(todo'[u])
  <2>1. OneInHand(first \o Rest(t))
    BY <1>1, <1>2, InHandStep
  <2> QED BY <2>1, <1>1 DEF Returns
<1>5. \A u \in Threads : \A x \in Elems(todo[u]) : u # t /\ x.do \in InHand => x.w # w
  BY DEF Returns
<1>6. \A v \in DOMAIN writers \ {w} : Current(v)' = Current(v)
  BY DEF Current
<1>7. \A u \in Threads : \A x \in Elems(todo'[u]) :
        x.do \in InHand => x.w \in DOMAIN writers' /\ writers'[x.w].thread = u
  <2>1. SUFFICES ASSUME NEW u \in Threads, NEW x \in Elems(todo'[u]), x.do \in InHand
                 PROVE  x.w \in DOMAIN writers' /\ writers'[x.w].thread = u
    OBVIOUS
  <2>2. CASE u = t
    BY <2>1, <2>2, <1>1, <1>3
  <2>3. CASE u # t
    <3>1. x \in Elems(todo[u]) /\ x.w \in DOMAIN writers \ {w} /\ writers[x.w].thread = u
      BY <2>1, <2>3, <1>1, <1>5 DEF Returns
    <3> QED BY <3>1
  <2> QED BY <2>2, <2>3
<1>8. \A u \in Threads : \A x \in Elems(todo'[u]) :
        x.do = "return" => /\ x.n = writers'[x.w].returned + 1
                           /\ writers'[x.w].n = writers'[x.w].returned + 1 + Current(x.w)'
  <2>1. SUFFICES ASSUME NEW u \in Threads, NEW x \in Elems(todo'[u]), x.do = "return"
                 PROVE  /\ x.n = writers'[x.w].returned + 1
                        /\ writers'[x.w].n = writers'[x.w].returned + 1 + Current(x.w)'
    OBVIOUS
  <2>2. CASE u = t
    <3>1. x \in Elems(first) /\ x.w = w
      BY <2>1, <2>2, <1>1, <1>3 DEF InHand
    <3> QED BY <2>1, <3>1
  <2>3. CASE u # t
    <3>1. x \in Elems(todo[u]) /\ x.w \in DOMAIN writers \ {w}
      BY <2>1, <2>3, <1>1, <1>5 DEF Returns, InHand
    <3> QED BY <2>1, <3>1, <1>6 DEF Returns
  <2> QED BY <2>2, <2>3
<1>9. ASSUME NEW v \in DOMAIN writers', ~Returning(v)'
      PROVE  writers'[v].n = writers'[v].returned + Current(v)'
  <2>1. CASE v = w
    <3>1. \A x \in Elems(first) : x.do # "return"
      BY <2>1, <1>1, <1>9 DEF Returning, InHand
    <3> QED BY <2>1, <3>1
  <2>2. CASE v # w
    <3>1. ASSUME NEW u \in Threads, NEW x \in Elems(todo[u]), x.do = "return", x.w = v
          PROVE  x \in Elems(todo'[u])
      <4>1. CASE u # t
        BY <4>1, <1>1, <3>1
      <4>2. CASE u = t
        <5>1. todo[t] # <<>> /\ Elems(todo[t]) = {Now(t)} \cup Elems(Rest(t))
          BY <3>1, <4>2, GoesFacts
        <5>2. x # Now(t)
          BY <3>1, <2>2, <5>1 DEF InHand
        <5> QED BY <3>1, <4>2, <5>1, <5>2, <1>1
      <4> QED BY <4>1, <4>2
    <3>2. ~Returning(v)
      BY <3>1, <1>9 DEF Returning
    <3> QED BY <3>2, <2>2, <1>9, <1>6 DEF Returns
  <2> QED BY <2>1, <2>2
<1> QED BY <1>4, <1>7, <1>8, <1>9 DEF Returns

(***************************************************************************)
(* Steps that carry no chunk and no callback                               *)
(***************************************************************************)
WritersKept ==
  /\ DOMAIN writers \subseteq DOMAIN writers'
  /\ \A w \in DOMAIN writers : /\ writers'[w].thread = writers[w].thread
                               /\ writers'[w].target = writers[w].target
                               /\ writers'[w].returned = writers[w].returned
  /\ \A w \in DOMAIN writers' \ DOMAIN writers : writers'[w].returned = 0

(* Thread t does such a step and has the steps "first" to do then.         *)
Neutral(t, first) ==
  /\ Goes(t, first) /\ (todo[t] # <<>> => Now(t).do \notin {"commit", "return"})
  /\ \A x \in Elems(first) : x.do \notin {"commit", "callback"} /\ CbsOf(x) = {}
  /\ WritersKept /\ arb'.req = arb.req /\ arb'.callbacks = arb.callbacks
  /\ tasks' = tasks /\ service' = service /\ answered' = answered
  /\ env'.flushes = env.flushes /\ env'.asked = env.asked
NeutralStep == \E t \in Threads : \E first : Neutral(t, first)

(* ... and the step has nothing to do with reservations.                   *)
Undisturbed(first) ==
  /\ arb'.reservations = arb.reservations /\ arb'.fully_bound = arb.fully_bound
  /\ env'.claimed = env.claimed /\ DOMAIN writers' = DOMAIN writers
  /\ \A x \in Elems(first) : x.do # "abort" /\ (x.do = "post" => x.task.do # "abort")
QuietStep == \E t \in Threads : \E first : Neutral(t, first) /\ Undisturbed(first)

(* Writers are changed, but not their number, threads, targets and chunks  *)
(* returned.                                                               *)
Edited ==
  /\ writers' = [v \in DOMAIN writers |-> writers'[v]]
  /\ \A v \in DOMAIN writers :
       /\ DOMAIN writers'[v] = DOMAIN writers[v]
       /\ writers'[v].thread = writers[v].thread /\ writers'[v].target = writers[v].target
       /\ writers'[v].returned = writers[v].returned
       /\ writers'[v].cur \in BOOLEAN /\ writers'[v].n \in Nat

LEMMA SameLength ==
  ASSUME NEW s, IsSeq(s), NEW r, r = [i \in DOMAIN s |-> r[i]]
  PROVE  IsSeq(r)
<1>1. PICK n \in Nat : DOMAIN s = 1 .. n
  BY DEF IsSeq
<1>2. DOMAIN r = 1 .. n /\ \A i \in DOMAIN r : r[i] \in Elems(r)
  BY <1>1 DEF Elems
<1>3. r \in [1 .. n -> Elems(r)]
  BY <1>1, <1>2
<1> QED BY <1>3 DEF IsSeq

(* The writers after a change to some of them.                             *)
LEMMA WritersEdited ==
  ASSUME WriterShapes, writers' = [v \in DOMAIN writers |-> writers'[v]],
         \A v \in DOMAIN writers :
           /\ DOMAIN writers'[v] = DOMAIN writers[v]
           /\ writers'[v].thread = writers[v].thread /\ writers'[v].target = writers[v].target
           /\ writers'[v].cur \in BOOLEAN
           /\ writers'[v].n \in Nat /\ writers'[v].returned \in Nat,
         arb'.reservations = arb.reservations,
         DOMAIN env' = DOMAIN env, env'.flushes \in Nat, IsSeq(env'.asked), IsSeq(answered')
  PROVE  WriterShapes'
<1>1. IsSeq(writers') /\ DOMAIN writers' = DOMAIN writers
  BY SameLength DEF WriterShapes
<1> QED BY <1>1 DEF WriterShapes

LEMMA WritersSame ==
  ASSUME WriterShapes, writers' = writers, arb'.reservations = arb.reservations,
         env' = env, IsSeq(answered')
  PROVE  WriterShapes'
BY DEF WriterShapes

(* A writer whose thread does not return a chunk.                          *)
LEMMA NothingReturning ==
  ASSUME WriterShapes, Returns, NEW t \in Threads, NEW w \in DOMAIN writers,
         writers[w].thread = t, \A x \in Elems(todo[t]) : x.do # "return"
  PROVE  writers[w].n = writers[w].returned + Current(w)
<1>1. ~Returning(w)
  BY DEF Returning, Returns, InHand
<1> QED BY <1>1 DEF Returns

LEMMA ShortHands ==
  ASSUME NEW x
  PROVE  /\ OneInHand(<<x>>) /\ OneInHand(<<>>) /\ NoneInHand(<<>>)
         /\ x.do \notin InHand => NoneInHand(<<x>>)
<1>1. DOMAIN <<x>> = {1} /\ <<x>>[1] = x /\ DOMAIN <<>> = {}
  OBVIOUS
<1> QED BY <1>1 DEF OneInHand, NoneInHand

(* The kinds of steps.                                                     *)
LEMMA PostKind ==
  ASSUME NEW x
  PROVE  /\ Post(x).do = "post" /\ Post(x).task = x
         /\ x.do # "flush" => CbsOf(Post(x)) = {}
         /\ x.do = "flush" => CbsOf(Post(x)) = x.cbs
BY DEF Post, CbsOf

LEMMA FlushKind ==
  ASSUME NEW cbs
  PROVE  Flush(cbs).do = "flush" /\ Flush(cbs).cbs = cbs /\ CbsOf(Flush(cbs)) = cbs
BY DEF Flush, CbsOf

LEMMA CommitKind ==
  ASSUME NEW req, NEW cbs
  PROVE  /\ Commit(req, cbs).do = "commit" /\ Commit(req, cbs).cbs = cbs
         /\ Commit(req, cbs).req = req /\ CbsOf(Commit(req, cbs)) = cbs
BY DEF Commit, CbsOf

LEMMA PlainKind ==
  ASSUME NEW x, x.do \notin {"flush", "commit", "callback", "post"}
  PROVE  CbsOf(x) = {}
BY DEF CbsOf

LEMMA CreateTraceWriterNeutral ==
  ASSUME ThreadInv, NEW t \in Threads, NEW b \in Buffers \cup Reservations,
         CreateTraceWriter(t, b)
  PROVE  Order' /\ NeutralStep
<1> DEFINE id == Allocate
           target == TargetFor(b)
           startup == IsReservation(target)
           steps == IF startup \/ target = kInvalidBufferId THEN <<>>
                    ELSE <<Post(Register({[id |-> id, target |-> target]}))>>
<1>0. /\ Shapes /\ WriterShapes /\ Division /\ Returns /\ todo[t] = <<>>
      /\ tasks' = tasks /\ service' = service /\ answered' = answered
  BY DEF ThreadInv, WakeInv, Order, CreateTraceWriter, Idle
<1>1. PICK new : /\ writers' = Append(writers, new)
                 /\ DOMAIN new = {"thread", "id", "target", "live", "cur", "n",
                                  "returned", "patches"}
                 /\ new.thread = t /\ new.target = target /\ new.cur = FALSE
                 /\ new.n = 0 /\ new.returned = 0
  BY DEF CreateTraceWriter
<1>2. PICK ids, last, pending :
        arb' = [arb EXCEPT !.ids = ids, !.last_id = last, !.pending = pending,
                           !.reservations =
                             IF startup THEN [@ EXCEPT ![target] = Unresolved] ELSE @,
                           !.fully_bound = @ /\ ~startup,
                           !.was_always_bound = @ /\ ~startup]
  BY Zenon DEF CreateTraceWriter
<1>3. PICK overtaken : env' = [env EXCEPT !.overtaken = overtaken]
  BY Zenon DEF CreateTraceWriter
<1>4. todo' = [todo EXCEPT ![t] = steps]
  BY DEF CreateTraceWriter, Start
<1>5. target \in Ids \cup Reservations
  BY <1>0 DEF TargetFor, WriterShapes, Ids, IsReservation
<1>6. IsSeq(steps) /\ \A x \in Elems(steps) : /\ x.do = "post" /\ x.task.do = "register"
                                               /\ CbsOf(x) = {}
  <2>1. CASE startup \/ target = kInvalidBufferId
    BY <2>1, ShortSeqs
  <2>2. CASE ~(startup \/ target = kInvalidBufferId)
    <3>1. PICK ws : steps = <<Post(Register(ws))>>
      BY <2>2
    <3>2. Register(ws).do = "register"
      BY DEF Register
    <3> QED BY <3>1, <3>2, ShortSeqs, PostKind
  <2> QED BY <2>1, <2>2
<1> HIDE DEF id, target, startup, steps
<1>7. /\ arb'.req = arb.req /\ arb'.callbacks = arb.callbacks
      /\ arb'.reservations = IF startup THEN [arb.reservations EXCEPT ![target] = Unresolved]
                             ELSE arb.reservations
  BY <1>0, <1>2 DEF Shapes
<1>8. /\ IsSeq(writers') /\ Len(writers) \in Nat
      /\ DOMAIN writers = 1 .. Len(writers) /\ DOMAIN writers' = 1 .. Len(writers) + 1
      /\ \A v \in DOMAIN writers : writers'[v] = writers[v]
      /\ writers'[Len(writers) + 1] = new
  BY <1>0, <1>1, AppendSeq DEF WriterShapes
<1>9. \A v \in DOMAIN writers' : v \in DOMAIN writers \/ writers'[v] = new
  BY <1>8
<1>10. WriterShapes'
  <2>1. arb'.reservations \in [Reservations -> Ids \cup {Absent, Unresolved}]
    BY <1>0, <1>7 DEF WriterShapes
  <2>2. DOMAIN env' = DOMAIN env /\ env'.flushes = env.flushes /\ env'.asked = env.asked
    BY <1>0, <1>3 DEF WriterShapes
  <2>3. \A v \in DOMAIN writers' :
       /\ DOMAIN writers'[v] = {"thread", "id", "target", "live", "cur", "n",
                               "returned", "patches"}
       /\ writers'[v].thread \in Threads /\ writers'[v].target \in Ids \cup Reservations
       /\ writers'[v].cur \in BOOLEAN
       /\ writers'[v].n \in Nat /\ writers'[v].returned \in Nat
    <3>1. SUFFICES ASSUME NEW v \in DOMAIN writers'
                   PROVE  /\ DOMAIN writers'[v] = {"thread", "id", "target", "live", "cur",
                                                   "n", "returned", "patches"}
                          /\ writers'[v].thread \in Threads
                          /\ writers'[v].target \in Ids \cup Reservations
                          /\ writers'[v].cur \in BOOLEAN
                          /\ writers'[v].n \in Nat /\ writers'[v].returned \in Nat
      OBVIOUS
    <3>2. CASE v \in DOMAIN writers
      <4>1. writers'[v] = writers[v]
        BY <3>2, <1>8
      <4>2. /\ DOMAIN writers[v] = {"thread", "id", "target", "live", "cur",
                                    "n", "returned", "patches"}
            /\ writers[v].thread \in Threads
            /\ writers[v].target \in Ids \cup Reservations
            /\ writers[v].cur \in BOOLEAN
            /\ writers[v].n \in Nat /\ writers[v].returned \in Nat
        BY <3>2, <1>0, Zenon DEF WriterShapes
      <4> QED BY <4>1, <4>2, Zenon
    <3>3. CASE writers'[v] = new
      <4>1. new.n \in Nat /\ new.returned \in Nat
        BY <1>1
      <4>2. new.cur \in BOOLEAN
        BY <1>1, Zenon
      <4> QED BY <3>3, <4>1, <4>2, <1>1, <1>5, Zenon
    <3> QED BY <3>2, <3>3, <1>9
  <2> QED BY <2>1, <2>2, <2>3, <1>0, <1>8 DEF WriterShapes
<1>11. Goes(t, steps)
  BY <1>0, <1>4, <1>6, StartGoes
<1>12. Division'
  <2>1. \A x \in Elems(steps) : x.do \notin Endpoint /\ x.task.do \in PostKinds
    BY <1>6 DEF Endpoint, TaskKinds, PostKinds
  <2>2. steps # <<>> => Elems(Tail(steps)) \subseteq Elems(steps)
    BY <1>6, TailSeq
  <2> QED BY <1>0, <1>6, <1>11, <2>1, <2>2, DivisionStep
<1>13. Returns'
  <2>1. DOMAIN writers \subseteq DOMAIN writers'
    BY <1>8
  <2>2. \A x \in Elems(steps) : x.do \notin InHand
    BY <1>6 DEF InHand
  <2> QED BY <1>0, <1>1, <1>8, <1>9, <1>11, <2>1, <2>2, ReturnsKept
<1>14. WritersKept
  BY <1>1, <1>8, <1>9 DEF WritersKept
<1>15. env'.flushes = env.flushes /\ env'.asked = env.asked
  BY <1>0, <1>3 DEF WriterShapes
<1> QED BY <1>0, <1>6, <1>7, <1>10, <1>11, <1>12, <1>13, <1>14, <1>15 DEF Order, NeutralStep, Neutral

(* What is left to show of the other steps.                                *)
LEMMA NeutralCall ==
  ASSUME ThreadInv, NEW t \in Threads, NEW first, Goes(t, first),
         todo[t] # <<>> => Now(t).do \notin {"commit", "return"},
         \A x \in Elems(first) : /\ x.do \notin {"commit", "callback"} /\ CbsOf(x) = {}
                                 /\ x.do = "post" => x.task.do \in PostKinds \ {"abort"}
                                 /\ x.do # "abort"
                                 /\ x.do \in Endpoint => t = IPC,
         arb'.req = arb.req, arb'.callbacks = arb.callbacks,
         arb'.reservations = arb.reservations, arb'.fully_bound = arb.fully_bound,
         tasks' = tasks, service' = service, answered' = answered, env' = env,
         Edited, Returns'
  PROVE  Order' /\ QuietStep
<1>0. Shapes /\ WriterShapes /\ Division
  BY DEF ThreadInv, WakeInv, Order
<1>1. WriterShapes'
  <2>1. \A v \in DOMAIN writers : writers'[v].returned \in Nat
    BY <1>0 DEF WriterShapes, Edited
  <2>2. env.flushes \in Nat /\ IsSeq(env.asked) /\ IsSeq(answered)
    BY <1>0 DEF WriterShapes
  <2> QED BY <2>1, <2>2, <1>0, WritersEdited DEF Edited
<1>2. IsSeq(first)
  BY DEF Goes
<1>3. first # <<>> => Elems(Tail(first)) \subseteq Elems(first)
  BY <1>2, TailSeq
<1>4. Division'
  BY <1>0, <1>3, DivisionStep
<1>5. WritersKept /\ DOMAIN writers' = DOMAIN writers
  BY DEF WritersKept, Edited
<1>6. Neutral(t, first)
  BY <1>5 DEF Neutral
<1>7. Undisturbed(first)
  BY <1>5 DEF Undisturbed
<1> QED BY <1>1, <1>4, <1>6, <1>7 DEF Order, QuietStep

(* ... of those that take nothing in hand.                                 *)
LEMMA NeutralKept ==
  ASSUME ThreadInv, NEW t \in Threads, NEW first, Goes(t, first),
         todo[t] # <<>> => Now(t).do \notin {"commit", "return"},
         \A x \in Elems(first) : /\ x.do \notin {"commit", "callback"} /\ CbsOf(x) = {}
                                 /\ x.do = "post" => x.task.do \in PostKinds \ {"abort"}
                                 /\ x.do # "abort"
                                 /\ x.do \in Endpoint => t = IPC
                                 /\ x.do \notin InHand,
         arb'.req = arb.req, arb'.callbacks = arb.callbacks,
         arb'.reservations = arb.reservations, arb'.fully_bound = arb.fully_bound,
         tasks' = tasks, service' = service, answered' = answered, env' = env,
         writers' = [v \in DOMAIN writers |-> writers'[v]],
         \A v \in DOMAIN writers :
           /\ DOMAIN writers'[v] = DOMAIN writers[v]
           /\ writers'[v].thread = writers[v].thread /\ writers'[v].target = writers[v].target
           /\ writers'[v].returned = writers[v].returned
           /\ writers'[v].cur = writers[v].cur /\ writers'[v].n = writers[v].n
  PROVE  Order' /\ QuietStep
<1>0. Shapes /\ WriterShapes /\ Division /\ Returns
  BY DEF ThreadInv, WakeInv, Order
<1>1. DOMAIN writers' = DOMAIN writers
  OBVIOUS
<1>2. Returns'
  BY <1>0, <1>1, ReturnsKept
<1>3. \A v \in DOMAIN writers : writers[v].cur \in BOOLEAN /\ writers[v].n \in Nat
  BY <1>0 DEF WriterShapes
<1>4. Edited
  BY <1>3 DEF Edited
<1> QED BY <1>2, <1>4, NeutralCall

(* ... and of those that leave the writers alone.                          *)
LEMMA NeutralSame ==
  ASSUME ThreadInv, NEW t \in Threads, NEW first, Goes(t, first),
         todo[t] # <<>> => Now(t).do \notin {"commit", "return"},
         \A x \in Elems(first) : /\ x.do \notin {"commit", "callback"} /\ CbsOf(x) = {}
                                 /\ x.do = "post" => x.task.do \in PostKinds \ {"abort"}
                                 /\ x.do # "abort"
                                 /\ x.do \in Endpoint => t = IPC
                                 /\ x.do \notin InHand,
         arb'.req = arb.req, arb'.callbacks = arb.callbacks,
         arb'.reservations = arb.reservations, arb'.fully_bound = arb.fully_bound, writers' = writers,
         tasks' = tasks, service' = service, answered' = answered, env' = env
  PROVE  Order' /\ QuietStep
<1>1. writers = [v \in DOMAIN writers |-> writers[v]]
  BY DEF ThreadInv, Order, WriterShapes, IsSeq
<1> QED BY <1>1, NeutralKept

LEMMA AbortPostNeutral ==
  ASSUME ThreadInv, NEW t \in Threads, NEW r, AbortStartupTracingForReservation(t, r),
         MustPostAbort(t)
  PROVE  /\ Goes(t, <<Post(Abort(r))>>) /\ env' = [env EXCEPT !.claimed = @ \cup {r}]
         /\ Order' /\ NeutralStep
<1>0. /\ Shapes /\ WriterShapes /\ Division /\ Returns /\ todo[t] = <<>>
      /\ todo' = [todo EXCEPT ![t] = <<Post(Abort(r))>>] /\ arb' = arb /\ tasks' = tasks
      /\ service' = service /\ answered' = answered /\ writers' = writers
      /\ env' = [env EXCEPT !.claimed = @ \cup {r}]
  BY DEF ThreadInv, WakeInv, Order, AbortStartupTracingForReservation, Start, Idle, Claim
<1>1. PICK first : first = <<Post(Abort(r))>>
  OBVIOUS
<1>2. IsSeq(first) /\ Elems(first) = {Post(Abort(r))}
  BY <1>1, ShortSeqs
<1>3. Abort(r).do = "abort"
  BY DEF Abort
<1>4. \A x \in Elems(first) : x.do = "post" /\ x.task.do = "abort" /\ CbsOf(x) = {}
  BY <1>2, <1>3, PostKind
<1>5. Goes(t, first)
  BY <1>0, <1>1, <1>2, StartGoes
<1>6. DOMAIN env' = DOMAIN env /\ env'.flushes = env.flushes /\ env'.asked = env.asked
  BY <1>0 DEF WriterShapes
<1>7. WriterShapes'
  BY <1>0, <1>6 DEF WriterShapes
<1>8. Division'
  <2>1. first # <<>> => Elems(Tail(first)) \subseteq Elems(first)
    BY <1>2, TailSeq
  <2>2. "abort" \in PostKinds /\ "post" \notin Endpoint
    BY DEF TaskKinds, PostKinds, Endpoint
  <2> QED BY <1>0, <1>4, <1>5, <2>1, <2>2, DivisionStep
<1>9. Returns'
  BY <1>0, <1>4, <1>5, ReturnsKept DEF InHand
<1>10. WritersKept
  BY <1>0 DEF WritersKept
<1> QED BY <1>0, <1>1, <1>4, <1>5, <1>6, <1>7, <1>8, <1>9, <1>10 DEF Order, NeutralStep, Neutral

(* The steps that give the current chunk back.                             *)
LEMMA ReturnCurrentFacts ==
  ASSUME NEW w
  PROVE  /\ IsSeq(ReturnCurrent(w)) /\ OneInHand(ReturnCurrent(w))
         /\ writers[w].cur => /\ Elems(ReturnCurrent(w)) = {Return(w, writers[w].n, 0)}
                              /\ ReturnCurrent(w) = <<Return(w, writers[w].n, 0)>>
         /\ ~writers[w].cur => /\ Elems(ReturnCurrent(w)) = {}
                               /\ ReturnCurrent(w) = <<>>
<1>1. CASE writers[w].cur
  <2>1. PICK x : x = Return(w, writers[w].n, 0) /\ ReturnCurrent(w) = <<x>>
    BY <1>1 DEF ReturnCurrent
  <2> QED BY <1>1, <2>1, ShortSeqs, ShortHands
<1>2. CASE ~writers[w].cur
  <2>1. ReturnCurrent(w) = <<>>
    BY <1>2 DEF ReturnCurrent
  <2> QED BY <1>2, <2>1, ShortSeqs, ShortHands
<1> QED BY <1>1, <1>2

LEMMA ReturnKind ==
  ASSUME NEW w, NEW n, NEW k
  PROVE  /\ Return(w, n, k).do = "return" /\ Return(w, n, k).w = w /\ Return(w, n, k).n = n
         /\ CbsOf(Return(w, n, k)) = {}
BY DEF Return, CbsOf

LEMMA StallKind ==
  ASSUME NEW w, NEW i
  PROVE  Stall(w, i).do = "stall" /\ Stall(w, i).w = w /\ CbsOf(Stall(w, i)) = {}
BY DEF Stall, CbsOf

(* Writers after a change to one of them, w, which keeps its target.       *)
LEMMA OneWriter ==
  ASSUME WriterShapes, NEW w \in DOMAIN writers, NEW rec,
         writers' = [writers EXCEPT ![w] = rec],
         DOMAIN rec = DOMAIN writers[w], rec.thread = writers[w].thread,
         rec.target = writers[w].target, rec.returned = writers[w].returned,
         rec.cur \in BOOLEAN, rec.n \in Nat
  PROVE  /\ Edited /\ DOMAIN writers' = DOMAIN writers
         /\ writers'[w] = rec /\ \A v \in DOMAIN writers \ {w} : writers'[v] = writers[v]
<1>1. /\ writers' = [v \in DOMAIN writers |-> writers'[v]]
      /\ DOMAIN writers' = DOMAIN writers
      /\ writers'[w] = rec /\ \A v \in DOMAIN writers \ {w} : writers'[v] = writers[v]
  OBVIOUS
<1>2. ASSUME NEW v \in DOMAIN writers
      PROVE  /\ DOMAIN writers'[v] = DOMAIN writers[v]
             /\ writers'[v].thread = writers[v].thread
             /\ writers'[v].target = writers[v].target
             /\ writers'[v].returned = writers[v].returned
             /\ writers'[v].cur \in BOOLEAN /\ writers'[v].n \in Nat
  <2>1. CASE v = w
    BY <2>1, <1>1, Zenon
  <2>2. CASE v # w
    <3>1. writers'[v] = writers[v]
      BY <2>2, <1>1
    <3>2. writers[v].cur \in BOOLEAN /\ writers[v].n \in Nat
      BY Zenon DEF WriterShapes
    <3> QED BY <3>1, <3>2, Zenon
  <2> QED BY <2>1, <2>2
<1> QED BY <1>1, <1>2 DEF Edited

(* The writer w of an idle thread gives its chunk back and goes on.        *)
Dropped(w) == [writers EXCEPT ![w].cur = FALSE]
LEMMA GivesBackSteps ==
  ASSUME NEW w, NEW rest, IsSeq(rest), NoneInHand(rest),
         NEW first, first = ReturnCurrent(w) \o rest
  PROVE  /\ IsSeq(first) /\ OneInHand(first)
         /\ Elems(first) = Elems(ReturnCurrent(w)) \cup Elems(rest)
         /\ \A x \in Elems(first) : x.do \in InHand => x \in Elems(ReturnCurrent(w))
<1>1. OneInHand(rest)
  BY DEF NoneInHand, OneInHand
<1>2. \A x \in Elems(rest) : x.do \notin InHand
  BY NoneByElems
<1> QED BY <1>1, <1>2, ReturnCurrentFacts, ConcatSeq, InHandStep

LEMMA GivesBack ==
  ASSUME ThreadInv, NEW t \in Threads, todo[t] = <<>>, NEW w \in Owner(t),
         NEW first, IsSeq(first), OneInHand(first),
         \A x \in Elems(first) : x.do \in InHand => x \in Elems(ReturnCurrent(w)),
         Elems(ReturnCurrent(w)) \subseteq Elems(first),
         todo' = [todo EXCEPT ![t] = first], writers' = Dropped(w)
  PROVE  /\ w \in DOMAIN writers /\ writers[w].thread = t
         /\ writers[w].n = writers[w].returned + Current(w)
         /\ Goes(t, first) /\ Edited /\ Returns'
<1>0. Shapes /\ WriterShapes /\ Division /\ Returns
  BY DEF ThreadInv, WakeInv, Order
<1>1. w \in DOMAIN writers /\ writers[w].thread = t
  BY DEF Owner
<1>2. writers[w].n = writers[w].returned + Current(w)
  <2>1. \A x \in Elems(todo[t]) : x.do # "return"
    BY ShortSeqs
  <2> QED BY <1>0, <1>1, <2>1, NothingReturning
<1>3. PICK rec : /\ writers' = [writers EXCEPT ![w] = rec]
                 /\ rec = [writers[w] EXCEPT !.cur = FALSE]
  BY <1>1 DEF Dropped
<1>4. /\ DOMAIN rec = DOMAIN writers[w] /\ rec.thread = writers[w].thread
      /\ rec.target = writers[w].target /\ rec.returned = writers[w].returned
      /\ rec.n = writers[w].n /\ rec.n \in Nat
  BY <1>0, <1>1, <1>3 DEF WriterShapes
<1>5. rec.cur = FALSE
  BY <1>0, <1>1, <1>3 DEF WriterShapes
<1>6. rec.cur \in BOOLEAN
  BY <1>5, Zenon
<1>7. /\ Edited /\ DOMAIN writers' = DOMAIN writers
      /\ writers'[w] = rec /\ \A v \in DOMAIN writers \ {w} : writers'[v] = writers[v]
  BY <1>0, <1>1, <1>3, <1>4, <1>6, OneWriter
<1>10. Goes(t, first)
  BY <1>0, StartGoes
<1>11. Current(w)' = 0 /\ writers'[w].n = writers[w].n
       /\ writers'[w].returned = writers[w].returned
  BY <1>4, <1>5, <1>7 DEF Current
<1>12. Returns'
  <2>1. CASE writers[w].cur
    <3>1. /\ Elems(ReturnCurrent(w)) = {Return(w, writers[w].n, 0)}
          /\ writers[w].n = writers[w].returned + 1
      BY <2>1, <1>2, ReturnCurrentFacts DEF Current
    <3>2. \A x \in Elems(first) : x.do \in InHand => x = Return(w, writers[w].n, 0)
      BY <3>1
    <3>3. \A x \in Elems(first) : x.do \in InHand => x.w = w /\ x.n = writers[w].n
      BY <3>2, ReturnKind
    <3>4. \A x \in Elems(first) : x.do = "return"
           => /\ x.n = writers'[w].returned + 1
              /\ writers'[w].n = writers'[w].returned + 1 + Current(w)'
      BY <3>1, <3>3, <1>0, <1>1, <1>11 DEF InHand, WriterShapes
    <3>5. \E x \in Elems(first) : x.do = "return"
      BY <3>1, ReturnKind
    <3>6. writers'[w].thread = t
      BY <1>1, <1>4, <1>7
    <3>7. (\A x \in Elems(first) : x.do # "return")
            => writers'[w].n = writers'[w].returned + Current(w)'
      BY <3>5
    <3> QED BY <1>0, <1>1, <1>7, <1>10, <3>3, <3>4, <3>6, <3>7, ReturnsStep
  <2>2. CASE ~writers[w].cur
    <3>1. Elems(ReturnCurrent(w)) = {} /\ writers[w].n = writers[w].returned
      BY <2>2, <1>0, <1>1, <1>2, ReturnCurrentFacts DEF Current, WriterShapes
    <3>2. \A x \in Elems(first) : x.do \notin InHand /\ x.do # "return"
      BY <3>1 DEF InHand
    <3>3. writers'[w].n = writers'[w].returned + Current(w)'
      BY <3>1, <1>0, <1>1, <1>11 DEF WriterShapes
    <3> QED BY <1>0, <1>1, <1>4, <1>7, <1>10, <3>2, <3>3, ReturnsStep
  <2> QED BY <2>1, <2>2
<1> QED BY <1>1, <1>2, <1>7, <1>10, <1>12

LEMMA ConcatAssoc ==
  ASSUME NEW a, NEW b, NEW c, IsSeq(a), IsSeq(b), IsSeq(c)
  PROVE  (a \o b) \o c = a \o (b \o c)
<1> DEFINE S == Elems(a) \cup Elems(b) \cup Elems(c)
<1>1. a \in Seq(S) /\ b \in Seq(S) /\ c \in Seq(S)
  BY DEF IsSeq
<1> HIDE DEF S
<1> QED BY <1>1, ConcatAssociative

LEMMA DestroyTraceWriterNeutral ==
  ASSUME ThreadInv, NEW t \in Threads, DestroyTraceWriter(t)
  PROVE  Order' /\ QuietStep
<1>0. /\ todo[t] = <<>> /\ arb' = arb /\ tasks' = tasks /\ service' = service
      /\ answered' = answered /\ env' = env
  BY DEF DestroyTraceWriter, Idle
<1>1. PICK w \in Owner(t) :
        /\ todo' = [todo EXCEPT ![t] = ReturnCurrent(w)
                   \o (IF writers[w].cur THEN <<Flush({})>> ELSE <<>>) \o <<Release(w)>>]
        /\ writers' = Dropped(w)
  BY DEF DestroyTraceWriter, Start, Dropped
<1>2. PICK flush : /\ flush = IF writers[w].cur THEN <<Flush({})>> ELSE <<>>
                   /\ IsSeq(flush) /\ Elems(flush) \subseteq {Flush({})}
  BY ShortSeqs
<1>3. PICK release : /\ release = <<Release(w)>>
                     /\ IsSeq(release) /\ Elems(release) = {Release(w)}
  BY ShortSeqs
<1>12. /\ IsSeq(flush) /\ Elems(flush) \subseteq {Flush({})}
      /\ IsSeq(release) /\ Elems(release) = {Release(w)} /\ IsSeq(ReturnCurrent(w))
  BY <1>2, <1>3, ReturnCurrentFacts
<1>13. /\ IsSeq(flush \o release)
      /\ Elems(flush \o release) \subseteq {Flush({}), Release(w)}
  BY <1>12, ConcatSeq
<1>4. PICK rest : /\ rest = flush \o release /\ IsSeq(rest)
                  /\ Elems(rest) \subseteq {Flush({}), Release(w)}
  BY <1>13
<1>5. (ReturnCurrent(w) \o flush) \o release = ReturnCurrent(w) \o rest
  BY <1>12, <1>4, ConcatAssoc
<1>6. PICK first : first = ReturnCurrent(w) \o rest /\ todo' = [todo EXCEPT ![t] = first]
  BY <1>1, <1>2, <1>3, <1>5
<1>7. \A x \in Elems(rest) : x.do \in {"flush", "release"} /\ CbsOf(x) = {}
  BY <1>4, FlushKind DEF Release, CbsOf
<1>8. NoneInHand(rest)
  BY <1>7 DEF NoneInHand, InHand, Elems
<1>14. /\ IsSeq(first) /\ OneInHand(first)
       /\ Elems(first) = Elems(ReturnCurrent(w)) \cup Elems(rest)
       /\ \A x \in Elems(first) : x.do \in InHand => x \in Elems(ReturnCurrent(w))
  BY <1>4, <1>6, <1>8, GivesBackSteps
<1>15. todo' = [todo EXCEPT ![t] = first] /\ writers' = Dropped(w)
  BY <1>1, <1>6
<1>9. Goes(t, first) /\ Edited /\ Returns'
  BY <1>0, <1>14, <1>15, GivesBack
<1>10. \A x \in Elems(ReturnCurrent(w)) : x.do = "return" /\ CbsOf(x) = {}
  BY ReturnCurrentFacts, ReturnKind
<1>11. \A x \in Elems(first) : x.do \in {"return", "flush", "release"} /\ CbsOf(x) = {}
  BY <1>7, <1>14, <1>10
<1> QED BY <1>0, <1>9, <1>11, NeutralCall DEF Endpoint

LEMMA GetNewChunkExhaustedNeutral ==
  ASSUME ThreadInv, NEW t \in Threads, GetNewChunkExhausted(t)
  PROVE  Order' /\ QuietStep
<1>0. /\ todo[t] = <<>> /\ arb' = arb /\ tasks' = tasks /\ service' = service
      /\ answered' = answered /\ env' = env
      /\ Shapes /\ WriterShapes /\ Division /\ Returns
  BY DEF GetNewChunkExhausted, Idle, ThreadInv, WakeInv, Order
<1>1. PICK w \in Owner(t) :
        \/ todo' = [todo EXCEPT ![t] = <<Stall(w, 1)>>] /\ writers' = writers
        \/ todo' = [todo EXCEPT ![t] = ReturnCurrent(w)] /\ writers' = Dropped(w)
  BY DEF GetNewChunkExhausted, Start, Dropped
<1>2. CASE todo' = [todo EXCEPT ![t] = <<Stall(w, 1)>>] /\ writers' = writers
  <2>1. PICK x : x = Stall(w, 1) /\ x.do = "stall" /\ x.w = w /\ CbsOf(x) = {}
    BY StallKind
  <2>2. PICK first : /\ first = <<x>> /\ IsSeq(first) /\ Elems(first) = {x}
                     /\ OneInHand(first)
    BY ShortSeqs, ShortHands
  <2>3. Goes(t, first)
    BY <1>0, <1>2, <2>1, <2>2, StartGoes
  <2>4. /\ w \in DOMAIN writers /\ writers[w].thread = t
        /\ writers[w].n = writers[w].returned + Current(w)
    <3>1. w \in DOMAIN writers /\ writers[w].thread = t
      BY DEF Owner
    <3>2. \A y \in Elems(todo[t]) : y.do # "return"
      BY <1>0, ShortSeqs
    <3> QED BY <3>1, <3>2, <1>0, NothingReturning
  <2>5. Current(w)' = Current(w)
    BY <1>2 DEF Current
  <2>6. Returns'
    BY <1>0, <1>2, <2>1, <2>2, <2>3, <2>4, <2>5, ReturnsStep
  <2>7. \A y \in Elems(first) : y.do = "stall" /\ CbsOf(y) = {}
    BY <2>1, <2>2
  <2>8. writers = [v \in DOMAIN writers |-> writers[v]]
    BY <1>0 DEF WriterShapes, IsSeq
  <2>9. Edited
    BY <1>0, <1>2, <2>8 DEF WriterShapes, Edited
  <2> QED BY <1>0, <1>2, <2>3, <2>6, <2>7, <2>8, <2>9, NeutralCall DEF Endpoint
<1>3. CASE todo' = [todo EXCEPT ![t] = ReturnCurrent(w)] /\ writers' = Dropped(w)
  <2>1. PICK rest : /\ rest = <<>> /\ IsSeq(rest) /\ Elems(rest) = {} /\ NoneInHand(rest)
    BY ShortSeqs, ShortHands
  <2>2. ReturnCurrent(w) \o rest = ReturnCurrent(w)
    <3>1. PICK rc : rc = ReturnCurrent(w) /\ IsSeq(rc)
      BY ReturnCurrentFacts
    <3>2. rc \o rest = rc
      BY <3>1, <2>1 DEF IsSeq
    <3> QED BY <3>1, <3>2
  <2>3. PICK first : first = ReturnCurrent(w) \o rest /\ todo' = [todo EXCEPT ![t] = first]
    BY <1>3, <2>2
  <2>4. /\ IsSeq(first) /\ OneInHand(first)
        /\ Elems(first) = Elems(ReturnCurrent(w)) \cup Elems(rest)
        /\ \A x \in Elems(first) : x.do \in InHand => x \in Elems(ReturnCurrent(w))
    BY <2>1, <2>3, GivesBackSteps
  <2>7. todo' = [todo EXCEPT ![t] = first] /\ writers' = Dropped(w)
    BY <1>3, <2>3
  <2>5. Goes(t, first) /\ Edited /\ Returns'
    BY <1>0, <2>4, <2>7, GivesBack
  <2>6. \A x \in Elems(first) : x.do = "return" /\ CbsOf(x) = {}
    BY <2>1, <2>4, ReturnCurrentFacts, ReturnKind
  <2> QED BY <1>0, <2>5, <2>6, NeutralCall DEF Endpoint
<1> QED BY <1>1, <1>2, <1>3

(* A writer takes a chunk: the thread was idle or waited for it.           *)
LEMMA TakeChunkNeutral ==
  ASSUME ThreadInv, NEW t \in Threads, NEW w \in DOMAIN writers, writers[w].thread = t,
         NEW k, NEW rest, IsSeq(rest), rest = Rest(t), TakeChunk(t, w, k, rest),
         todo[t] # <<>> => Now(t).do = "stall" /\ Now(t).w = w,
         arb' = arb, tasks' = tasks, service' = service, answered' = answered, env' = env
  PROVE  Order' /\ QuietStep
<1>0. Shapes /\ WriterShapes /\ Division /\ Returns
  BY DEF ThreadInv, WakeInv, Order
<1>1. PICK sync \in BOOLEAN :
        /\ todo' = [todo EXCEPT ![t] = (IF sync THEN <<Flush({})>> ELSE <<>>)
             \o (IF writers[w].cur THEN <<Return(w, writers[w].n, k)>> ELSE <<>>) \o rest]
        /\ writers' = [writers EXCEPT ![w].cur = TRUE, ![w].n = @ + 1,
             ![w].patches = @ \o [i \in 1 .. k |-> [n |-> writers[w].n, done |-> FALSE]]]
  BY DEF TakeChunk
<1>2. PICK flush, back : /\ flush = IF sync THEN <<Flush({})>> ELSE <<>>
                         /\ back = IF writers[w].cur THEN <<Return(w, writers[w].n, k)>>
                                   ELSE <<>>
  OBVIOUS
<1>3. IsSeq(flush) /\ NoneInHand(flush) /\ Elems(flush) \subseteq {Flush({})}
  <2>1. Flush({}).do \notin InHand
    BY FlushKind DEF InHand
  <2> QED BY <1>2, <2>1, ShortSeqs, ShortHands
<1>4. /\ IsSeq(back) /\ OneInHand(back)
      /\ writers[w].cur => Elems(back) = {Return(w, writers[w].n, k)}
      /\ ~writers[w].cur => Elems(back) = {}
  <2>1. CASE writers[w].cur
    <3>1. PICK x : x = Return(w, writers[w].n, k) /\ back = <<x>>
      BY <2>1, <1>2
    <3> QED BY <2>1, <3>1, ShortSeqs, ShortHands
  <2>2. CASE ~writers[w].cur
    <3>1. back = <<>>
      BY <2>2, <1>2
    <3> QED BY <2>2, <3>1, ShortSeqs, ShortHands
  <2> QED BY <2>1, <2>2
<1>5. PICK first : first = flush \o back
  OBVIOUS
<1>6. /\ IsSeq(first) /\ OneInHand(first) /\ Elems(first) = Elems(flush) \cup Elems(back)
  <2>1. OneInHand(flush)
    BY <1>3 DEF NoneInHand, OneInHand
  <2> QED BY <2>1, <1>3, <1>4, <1>5, ConcatSeq, InHandStep
<1>7. todo' = [todo EXCEPT ![t] = first \o rest]
  BY <1>1, <1>2, <1>5
<1>8. Goes(t, first)
  BY <1>6, <1>7 DEF Goes
<1>9. PICK rec, patches :
        /\ writers' = [writers EXCEPT ![w] = rec]
        /\ rec = [writers[w] EXCEPT !.cur = TRUE, !.n = @ + 1, !.patches = patches]
  <2>1. PICK patches : writers' = [writers EXCEPT ![w].cur = TRUE, ![w].n = @ + 1,
                                                  ![w].patches = patches]
    BY <1>1, Zenon
  <2>2. writers' = [writers EXCEPT ![w] =
                      [writers[w] EXCEPT !.cur = TRUE, !.n = @ + 1, !.patches = patches]]
    BY <2>1
  <2> QED BY <2>2, Zenon
<1>10. /\ DOMAIN rec = DOMAIN writers[w] /\ rec.thread = writers[w].thread
       /\ rec.target = writers[w].target /\ rec.returned = writers[w].returned
       /\ rec.n = writers[w].n + 1 /\ rec.n \in Nat
  BY <1>0, <1>9 DEF WriterShapes
<1>11. rec.cur = TRUE
  BY <1>0, <1>9 DEF WriterShapes
<1>12. rec.cur \in BOOLEAN
  BY <1>11, Zenon
<1>13. /\ Edited /\ DOMAIN writers' = DOMAIN writers
       /\ writers'[w] = rec /\ \A v \in DOMAIN writers \ {w} : writers'[v] = writers[v]
  BY <1>0, <1>9, <1>10, <1>12, OneWriter
<1>14. writers[w].n = writers[w].returned + Current(w)
  <2>1. \A x \in Elems(todo[t]) : x.do # "return"
    <3>1. CASE todo[t] = <<>>
      BY <3>1, ShortSeqs
    <3>2. CASE todo[t] # <<>>
      <4>1. \A x \in Elems(Rest(t)) : x.do \notin InHand
        BY <3>2, <1>0, InHandRest, NoneByElems DEF Returns, InHand
      <4>2. Elems(todo[t]) = {Now(t)} \cup Elems(Rest(t))
        BY <3>2, <1>0, <1>8, GoesFacts
      <4> QED BY <3>2, <4>1, <4>2 DEF InHand
    <3> QED BY <3>1, <3>2
  <2> QED BY <1>0, <2>1, NothingReturning
<1>15. Current(w)' = 1 /\ writers'[w].n = writers[w].n + 1
       /\ writers'[w].returned = writers[w].returned /\ writers'[w].thread = t
  BY <1>10, <1>11, <1>13 DEF Current
<1>16. \A x \in Elems(flush) : x.do = "flush" /\ CbsOf(x) = {}
  BY <1>3, FlushKind
<1>17. \A x \in Elems(back) : x.do = "return" /\ x.w = w /\ x.n = writers[w].n /\ CbsOf(x) = {}
  BY <1>4, ReturnKind
<1>18. Returns'
  <2>1. \A x \in Elems(first) : x.do \in InHand => x \in Elems(back) /\ x.w = w
    BY <1>6, <1>16, <1>17 DEF InHand
  <2>2. todo[t] # <<>> => Now(t).do \in InHand /\ Now(t).w = w
    BY DEF InHand
  <2>3. CASE writers[w].cur
    <3>1. writers[w].n = writers[w].returned + 1
      BY <2>3, <1>14 DEF Current
    <3>2. \A x \in Elems(first) : x.do = "return"
           => /\ x.n = writers'[w].returned + 1
              /\ writers'[w].n = writers'[w].returned + 1 + Current(w)'
      BY <3>1, <2>1, <1>0, <1>15, <1>17 DEF InHand, WriterShapes
    <3>3. \E x \in Elems(first) : x.do = "return"
      BY <2>3, <1>4, <1>6, ReturnKind
    <3>4. (\A x \in Elems(first) : x.do # "return")
            => writers'[w].n = writers'[w].returned + Current(w)'
      BY <3>3
    <3> QED BY <1>0, <1>6, <1>8, <1>13, <1>15, <2>1, <2>2, <3>2, <3>4, ReturnsStep
  <2>4. CASE ~writers[w].cur
    <3>1. writers[w].n = writers[w].returned
      BY <2>4, <1>0, <1>14 DEF Current, WriterShapes
    <3>2. \A x \in Elems(first) : x.do # "return"
      BY <2>4, <1>4, <1>6, <1>16
    <3>3. writers'[w].n = writers'[w].returned + Current(w)'
      BY <3>1, <1>15
    <3> QED BY <1>0, <1>6, <1>8, <1>13, <1>15, <2>1, <2>2, <3>2, <3>3, ReturnsStep
  <2> QED BY <2>3, <2>4
<1>19. \A x \in Elems(first) : x.do \in {"flush", "return"} /\ CbsOf(x) = {}
  BY <1>6, <1>16, <1>17
<1> QED BY <1>8, <1>13, <1>18, <1>19, NeutralCall DEF Endpoint

LEMMA GetNewChunkNeutral ==
  ASSUME ThreadInv, NEW t \in Threads, GetNewChunk(t)
  PROVE  Order' /\ QuietStep
<1>0. /\ todo[t] = <<>> /\ arb' = arb /\ tasks' = tasks /\ service' = service
      /\ answered' = answered /\ env' = env
  BY DEF GetNewChunk, Idle
<1>1. PICK w, k : TakeChunk(t, w, k, <<>>) /\ w \in Owner(t)
  BY DEF GetNewChunk
<1>2. w \in DOMAIN writers /\ writers[w].thread = t
  BY <1>1 DEF Owner
<1>3. PICK rest : IsSeq(rest) /\ rest = Rest(t) /\ TakeChunk(t, w, k, rest)
  BY <1>0, <1>1, ShortSeqs DEF Rest
<1> QED BY <1>0, <1>2, <1>3, TakeChunkNeutral

LEMMA RetryGetNewChunkNeutral ==
  ASSUME ThreadInv, NEW t \in Threads, RetryGetNewChunk(t)
  PROVE  Order' /\ QuietStep
<1>0. /\ todo[t] # <<>> /\ Now(t).do = "stall" /\ arb' = arb /\ tasks' = tasks
      /\ service' = service /\ answered' = answered /\ env' = env
      /\ Shapes /\ WriterShapes /\ Division /\ Returns
  BY DEF RetryGetNewChunk, AtStep, Now, ThreadInv, WakeInv, Order
<1>1. PICK w : w = Now(t).w
  OBVIOUS
<1>2. w \in DOMAIN writers /\ writers[w].thread = t
  <2>1. Now(t) \in Elems(todo[t])
    BY <1>0, TailSeq DEF Shapes, Now
  <2> QED BY <2>1, <1>0, <1>1 DEF Returns, InHand
<1>3. CASE free > 0
  <2>1. PICK rest, k : rest = Rest(t) /\ TakeChunk(t, w, k, rest)
    BY <1>0, <1>1, <1>3 DEF RetryGetNewChunk, Rest
  <2>2. IsSeq(rest)
    BY <1>0, <2>1, TailSeq DEF Rest, Shapes
  <2> QED BY <1>0, <1>1, <1>2, <2>1, <2>2, TakeChunkNeutral
<1>4. CASE ~(free > 0)
  <2>1. PICK c, i : /\ todo' = [todo EXCEPT ![t] =
                         ((IF t = IPC /\ c THEN <<Flush({})>> ELSE <<>>)
                            \o <<Stall(w, i)>>) \o Tail(todo[t])]
                    /\ writers' = writers
    BY <1>1, <1>4 DEF RetryGetNewChunk, Then
  <2>2. PICK flush, stall : /\ flush = IF t = IPC /\ c THEN <<Flush({})>> ELSE <<>>
                            /\ stall = <<Stall(w, i)>>
    OBVIOUS
  <2>3. IsSeq(flush) /\ NoneInHand(flush) /\ Elems(flush) \subseteq {Flush({})}
    <3>1. Flush({}).do \notin InHand
      BY FlushKind DEF InHand
    <3> QED BY <2>2, <3>1, ShortSeqs, ShortHands
  <2>4. IsSeq(stall) /\ OneInHand(stall) /\ Elems(stall) = {Stall(w, i)}
    BY <2>2, ShortSeqs, ShortHands
  <2>5. PICK first : first = flush \o stall
    OBVIOUS
  <2>6. /\ IsSeq(first) /\ OneInHand(first) /\ Elems(first) = Elems(flush) \cup Elems(stall)
    <3>1. OneInHand(flush)
      BY <2>3 DEF NoneInHand, OneInHand
    <3> QED BY <3>1, <2>3, <2>4, <2>5, ConcatSeq, InHandStep
  <2>7. todo' = [todo EXCEPT ![t] = first \o Tail(todo[t])]
    BY <2>1, <2>2, <2>5
  <2>8. Goes(t, first)
    BY <1>0, <2>6, <2>7, ThenGoes
  <2>9. \A x \in Elems(flush) : x.do = "flush" /\ CbsOf(x) = {}
    BY <2>3, FlushKind
  <2>10. \A x \in Elems(stall) : x.do = "stall" /\ x.w = w /\ CbsOf(x) = {}
    BY <2>4, StallKind
  <2>11. \A x \in Elems(first) : /\ x.do \in {"flush", "stall"} /\ CbsOf(x) = {}
                                 /\ x.do \in InHand => x.w = w
    BY <2>6, <2>9, <2>10 DEF InHand
  <2>12. writers[w].n = writers[w].returned + Current(w)
    <3>1. \A x \in Elems(Rest(t)) : x.do \notin InHand
      BY <1>0, InHandRest, NoneByElems DEF Returns, InHand
    <3>2. Elems(todo[t]) = {Now(t)} \cup Elems(Rest(t))
      BY <1>0, <2>8, GoesFacts
    <3>3. \A x \in Elems(todo[t]) : x.do # "return"
      BY <1>0, <3>1, <3>2 DEF InHand
    <3> QED BY <1>0, <1>2, <3>3, NothingReturning
  <2>13. Current(w)' = Current(w) /\ writers' = writers
    BY <2>1 DEF Current
  <2>14. Returns'
    <3>1. Now(t).do \in InHand /\ Now(t).w = w
      BY <1>0, <1>1 DEF InHand
    <3>2. \A x \in Elems(first) : x.do # "return"
      BY <2>11
    <3> QED BY <1>0, <1>2, <2>6, <2>8, <2>11, <2>12, <2>13, <3>1, <3>2, ReturnsStep
  <2>15. writers = [v \in DOMAIN writers |-> writers[v]]
    BY <1>0 DEF WriterShapes, IsSeq
  <2>16. Edited
    BY <1>0, <2>13, <2>15 DEF WriterShapes, Edited
  <2> QED BY <1>0, <2>8, <2>11, <2>14, <2>16, NeutralCall DEF Endpoint
<1> QED BY <1>3, <1>4

(* A thread that is idle stays so.                                         *)
LEMMA StaysIdle ==
  ASSUME ThreadInv, NEW t \in Threads, todo[t] = <<>>, todo' = todo
  PROVE  \E first : Goes(t, first) /\ Elems(first) = {}
<1>0. Shapes /\ Division
  BY DEF ThreadInv, WakeInv, Order
<1>1. todo' = [todo EXCEPT ![t] = <<>>]
  BY <1>0 DEF Division
<1>2. PICK e : IsSeq(e) /\ Elems(e) = {} /\ todo' = [todo EXCEPT ![t] = e]
  BY <1>1, ShortSeqs
<1> QED BY <1>0, <1>2, StartGoes

LEMMA FinalizeNestedNeutral ==
  ASSUME ThreadInv, NEW t \in Threads, FinalizeNested(t)
  PROVE  Order' /\ QuietStep
<1>0. /\ todo[t] = <<>> /\ arb' = arb /\ tasks' = tasks /\ service' = service
      /\ answered' = answered /\ env' = env /\ todo' = todo /\ WriterShapes
  BY DEF FinalizeNested, Idle, ThreadInv, Order
<1>1. PICK w, i : writers' = [writers EXCEPT ![w].patches[i].done = TRUE]
  <2> DEFINE open(w) == {i \in DOMAIN writers[w].patches : ~writers[w].patches[i].done}
             last(w) == CHOOSE i \in open(w) : \A j \in open(w) : j <= i
  <2>1. \E w \in Owner(t) : writers' = [writers EXCEPT ![w].patches[last(w)].done = TRUE]
    BY Zenon DEF FinalizeNested
  <2> HIDE DEF last
  <2> QED BY <2>1, Zenon
<1>2. /\ writers' = [v \in DOMAIN writers |-> writers'[v]]
      /\ \A v \in DOMAIN writers :
           /\ DOMAIN writers'[v] = DOMAIN writers[v]
           /\ writers'[v].thread = writers[v].thread /\ writers'[v].target = writers[v].target
           /\ writers'[v].returned = writers[v].returned
           /\ writers'[v].cur = writers[v].cur /\ writers'[v].n = writers[v].n
  <2>1. PICK rec : /\ writers' = [writers EXCEPT ![w] = rec]
                   /\ \E p : rec = [writers[w] EXCEPT !.patches = p]
    BY <1>1
  <2>2. w \in DOMAIN writers
          => /\ DOMAIN rec = DOMAIN writers[w]
             /\ rec.thread = writers[w].thread /\ rec.target = writers[w].target
             /\ rec.returned = writers[w].returned
             /\ rec.cur = writers[w].cur /\ rec.n = writers[w].n
    BY <1>0, <2>1 DEF WriterShapes
  <2> QED BY <2>1, <2>2
<1>3. PICK first : Goes(t, first) /\ Elems(first) = {}
  BY <1>0, StaysIdle
<1> QED BY <1>0, <1>2, <1>3, NeutralKept

LEMMA QuietNeutral ==
  ASSUME ThreadInv, EnableDirectSMBPatching \/ TryShutdown
  PROVE  Order' /\ QuietStep
<1>0. /\ IPC \in Threads /\ todo[IPC] = <<>> /\ tasks' = tasks /\ service' = service
      /\ answered' = answered /\ env' = env /\ todo' = todo /\ writers' = writers /\ Shapes
  BY ArbiterConstants DEF EnableDirectSMBPatching, TryShutdown, Idle, ThreadInv, WakeInv
<1>1. /\ arb'.req = arb.req /\ arb'.callbacks = arb.callbacks
      /\ arb'.reservations = arb.reservations /\ arb'.fully_bound = arb.fully_bound
  BY <1>0 DEF EnableDirectSMBPatching, TryShutdown, Shapes
<1>2. PICK first : Goes(IPC, first) /\ Elems(first) = {}
  BY <1>0, StaysIdle
<1> QED BY <1>0, <1>1, <1>2, NeutralSame

LEMMA ReleaseWriterIDNeutral ==
  ASSUME ThreadInv, NEW t \in Threads, ReleaseWriterID(t)
  PROVE  Order' /\ QuietStep
<1>0. /\ todo[t] # <<>> /\ Now(t).do = "release" /\ tasks' = tasks /\ service' = service
      /\ answered' = answered /\ env' = env /\ Shapes /\ WriterShapes
  BY DEF ReleaseWriterID, AtStep, Now, ThreadInv, WakeInv, Order
<1>1. PICK ids, pending : arb' = [arb EXCEPT !.ids = ids, !.pending = pending]
  BY Zenon DEF ReleaseWriterID
<1>2. PICK c, id : todo' = [todo EXCEPT ![t] =
                     (IF c THEN <<>> ELSE <<Post(Unregister(id))>>) \o Tail(todo[t])]
  BY DEF ReleaseWriterID, Then
<1>3. PICK w : writers' = [writers EXCEPT ![w].live = FALSE]
  BY DEF ReleaseWriterID
<1>4. PICK first : first = IF c THEN <<>> ELSE <<Post(Unregister(id))>>
  OBVIOUS
<1>5. IsSeq(first) /\ Elems(first) \subseteq {Post(Unregister(id))}
  BY <1>4, ShortSeqs
<1>6. Goes(t, first)
  <2>1. todo' = [todo EXCEPT ![t] = first \o Tail(todo[t])]
    BY <1>2, <1>4
  <2> QED BY <1>0, <1>5, <2>1, ThenGoes
<1>7. \A x \in Elems(first) : x.do = "post" /\ x.task.do = "unregister" /\ CbsOf(x) = {}
  <2>1. Unregister(id).do = "unregister"
    BY DEF Unregister
  <2> QED BY <1>5, <2>1, PostKind
<1>8. /\ arb'.req = arb.req /\ arb'.callbacks = arb.callbacks
      /\ arb'.reservations = arb.reservations /\ arb'.fully_bound = arb.fully_bound
  BY <1>0, <1>1 DEF Shapes
<1>9. /\ writers' = [v \in DOMAIN writers |-> writers'[v]]
      /\ \A v \in DOMAIN writers :
           /\ DOMAIN writers'[v] = DOMAIN writers[v]
           /\ writers'[v].thread = writers[v].thread /\ writers'[v].target = writers[v].target
           /\ writers'[v].returned = writers[v].returned
           /\ writers'[v].cur = writers[v].cur /\ writers'[v].n = writers[v].n
  <2>1. PICK rec : /\ writers' = [writers EXCEPT ![w] = rec]
                   /\ rec = [writers[w] EXCEPT !.live = FALSE]
    BY <1>3
  <2>2. w \in DOMAIN writers
          => /\ DOMAIN rec = DOMAIN writers[w]
             /\ rec.thread = writers[w].thread /\ rec.target = writers[w].target
             /\ rec.returned = writers[w].returned
             /\ rec.cur = writers[w].cur /\ rec.n = writers[w].n
    BY <1>0, <2>1 DEF WriterShapes
  <2> QED BY <2>1, <2>2
<1> QED BY <1>0, <1>6, <1>7, <1>8, <1>9, NeutralKept DEF TaskKinds, PostKinds, Endpoint, InHand

LEMMA PostDelayedTaskNeutral ==
  ASSUME ThreadInv, NEW t \in Threads, PostDelayedTask(t)
  PROVE  Order' /\ QuietStep
<1>0. /\ todo[t] # <<>> /\ Now(t).do = "delay" /\ tasks' = tasks /\ service' = service
      /\ answered' = answered /\ env' = env /\ Shapes /\ arb' = arb /\ writers' = writers
      /\ todo' = [todo EXCEPT ![t] = <<>> \o Tail(todo[t])]
  BY DEF PostDelayedTask, AtStep, Now, ThreadInv, WakeInv, Then
<1>1. PICK e : /\ IsSeq(e) /\ Elems(e) = {}
               /\ todo' = [todo EXCEPT ![t] = e \o Tail(todo[t])]
  BY <1>0, ShortSeqs
<1>2. Goes(t, e)
  BY <1>0, <1>1, ThenGoes
<1> QED BY <1>0, <1>1, <1>2, NeutralSame

LEMMA ClearDelayedNeutral ==
  ASSUME ThreadInv, ClearDelayedFlushScheduled
  PROVE  Order' /\ QuietStep
<1>0. /\ IPC \in Threads /\ todo[IPC] # <<>> /\ Now(IPC).do = "clear" /\ tasks' = tasks
      /\ service' = service /\ answered' = answered /\ env' = env /\ Shapes
      /\ writers' = writers /\ arb' = [arb EXCEPT !.scheduled = FALSE]
      /\ todo' = [todo EXCEPT ![IPC] = <<>> \o Tail(todo[IPC])]
  BY ArbiterConstants DEF ClearDelayedFlushScheduled, AtStep, Now, ThreadInv, WakeInv, Then
<1>1. PICK e : /\ IsSeq(e) /\ Elems(e) = {}
               /\ todo' = [todo EXCEPT ![IPC] = e \o Tail(todo[IPC])]
  BY <1>0, ShortSeqs
<1>2. Goes(IPC, e)
  BY <1>0, <1>1, ThenGoes
<1>3. /\ arb'.req = arb.req /\ arb'.callbacks = arb.callbacks
      /\ arb'.reservations = arb.reservations /\ arb'.fully_bound = arb.fully_bound
  BY <1>0 DEF Shapes
<1>4. /\ tasks' = tasks /\ service' = service /\ answered' = answered /\ env' = env
      /\ writers' = writers /\ Now(IPC).do \notin {"commit", "return"} /\ IPC \in Threads
  BY <1>0
<1> QED BY <1>1, <1>2, <1>3, <1>4, NeutralSame

LEMMA RunDelayedTaskNeutral ==
  ASSUME ThreadInv, RunDelayedTask
  PROVE  Order' /\ QuietStep
<1>0. /\ IPC \in Threads /\ todo[IPC] = <<>> /\ tasks' = tasks
      /\ service' = service /\ answered' = answered /\ env' = env /\ Shapes
      /\ writers' = writers /\ arb' = arb
      /\ todo' = [todo EXCEPT ![IPC] = <<Clear, Flush({})>>]
  BY ArbiterConstants DEF RunDelayedTask, Idle, ThreadInv, WakeInv, Start
<1>1. IsSeq(<<Clear, Flush({})>>) /\ Elems(<<Clear, Flush({})>>) \subseteq {Clear, Flush({})}
  <2>1. PICK c, f : c = Clear /\ f = Flush({})
    OBVIOUS
  <2>2. <<c, f>> \in Seq({c, f})
    OBVIOUS
  <2> QED BY <2>1, <2>2, TypedIsSeq
<1>2. PICK first : /\ IsSeq(first) /\ Elems(first) \subseteq {Clear, Flush({})}
                   /\ todo' = [todo EXCEPT ![IPC] = first]
  BY <1>0, <1>1
<1>3. Goes(IPC, first)
  BY <1>0, <1>2, StartGoes
<1>4. \A x \in Elems(first) : x.do \in {"clear", "flush"} /\ CbsOf(x) = {}
  BY <1>2, FlushKind DEF Clear, CbsOf
<1>5. /\ tasks' = tasks /\ service' = service /\ answered' = answered /\ env' = env
      /\ writers' = writers /\ arb' = arb /\ IPC \in Threads /\ todo[IPC] = <<>>
  BY <1>0
<1> QED BY <1>3, <1>4, <1>5, NeutralSame DEF TaskKinds, PostKinds, Endpoint, InHand

(***************************************************************************)
(* Steps that bind                                                         *)
(***************************************************************************)
(* Thread t has bound something and has the steps "first" to do then: it   *)
(* tells the service of writers, and may flush with the pending callbacks. *)
Binds(t, first) ==
  /\ Goes(t, first) /\ (todo[t] # <<>> => Now(t).do = "abort")
  /\ \A x \in Elems(first) : x.do \in {"register", "flush"}
  /\ Apart(first) /\ HeldIn(first) \cap arb'.callbacks = {}
  /\ HeldIn(first) \cup arb'.callbacks \subseteq arb.callbacks
  /\ arb'.req = arb.req /\ writers' = writers
  /\ tasks' = tasks /\ service' = service /\ answered' = answered
  /\ env'.flushes = env.flushes /\ env'.asked = env.asked
BindStep == \E t \in Threads : \E first : Binds(t, first)

(* What sequences hold.                                                    *)
LEMMA HeldShort ==
  ASSUME NEW x
  PROVE  /\ Apart(<<>>) /\ HeldIn(<<>>) = {}
         /\ Apart(<<x>>) /\ HeldIn(<<x>>) = CbsOf(x)
<1>1. DOMAIN <<x>> = {1} /\ <<x>>[1] = x /\ DOMAIN <<>> = {}
  OBVIOUS
<1> QED BY <1>1 DEF Apart, HeldIn

LEMMA HeldByElems ==
  ASSUME NEW s
  PROVE  HeldIn(s) = UNION {CbsOf(x) : x \in Elems(s)}
BY DEF HeldIn, Elems

LEMMA HeldConcat ==
  ASSUME NEW s, NEW r, IsSeq(s), IsSeq(r)
  PROVE  /\ HeldIn(s \o r) = HeldIn(s) \cup HeldIn(r)
         /\ Apart(s) /\ Apart(r) /\ HeldIn(s) \cap HeldIn(r) = {} => Apart(s \o r)
<1>1. Elems(s \o r) = Elems(s) \cup Elems(r)
  BY ConcatSeq
<1>2. HeldIn(s \o r) = HeldIn(s) \cup HeldIn(r)
  <2>1. PICK q : q = s \o r /\ Elems(q) = Elems(s) \cup Elems(r)
    BY <1>1
  <2>2. HeldIn(q) = HeldIn(s) \cup HeldIn(r)
    BY <2>1, HeldByElems
  <2> QED BY <2>1, <2>2
<1>3. ASSUME Apart(s), Apart(r), HeldIn(s) \cap HeldIn(r) = {} PROVE Apart(s \o r)
  <2>1. /\ Len(s) \in Nat /\ Len(r) \in Nat
        /\ DOMAIN s = 1 .. Len(s) /\ DOMAIN r = 1 .. Len(r)
        /\ DOMAIN (s \o r) = 1 .. Len(s) + Len(r)
        /\ \A i \in DOMAIN s : (s \o r)[i] = s[i]
        /\ \A i \in DOMAIN r : (s \o r)[Len(s) + i] = r[i]
    BY ConcatSeq
  <2>2. PICK q : q = s \o r
    OBVIOUS
  <2>3. \A k \in DOMAIN q :
          \/ k \in DOMAIN s /\ q[k] = s[k]
          \/ k - Len(s) \in DOMAIN r /\ q[k] = r[k - Len(s)] /\ k \in Int
    <3>1. SUFFICES ASSUME NEW k \in 1 .. Len(s) + Len(r), k \notin 1 .. Len(s)
                   PROVE  k - Len(s) \in 1 .. Len(r) /\ k = Len(s) + (k - Len(s))
      BY <2>1, <2>2
    <3> QED BY <3>1, <2>1
  <2>4. /\ \A i \in DOMAIN s : CbsOf(s[i]) \subseteq HeldIn(s)
        /\ \A i \in DOMAIN r : CbsOf(r[i]) \subseteq HeldIn(r)
    BY DEF HeldIn
  <2>5. ASSUME NEW i \in DOMAIN q, NEW j \in DOMAIN q, i # j
        PROVE  CbsOf(q[i]) \cap CbsOf(q[j]) = {}
    <3>1. CASE i \in DOMAIN s /\ q[i] = s[i] /\ j \in DOMAIN s /\ q[j] = s[j]
      BY <3>1, <2>5, <1>3 DEF Apart
    <3>2. CASE /\ i - Len(s) \in DOMAIN r /\ q[i] = r[i - Len(s)] /\ i \in Int
               /\ j - Len(s) \in DOMAIN r /\ q[j] = r[j - Len(s)] /\ j \in Int
      <4>1. i - Len(s) # j - Len(s)
        BY <2>1, <2>5, <3>2
      <4>2. PICK i2 \in DOMAIN r : i2 = i - Len(s) /\ q[i] = r[i2]
        BY <3>2
      <4>3. PICK j2 \in DOMAIN r : j2 = j - Len(s) /\ q[j] = r[j2]
        BY <3>2
      <4>4. i2 # j2
        BY <4>1, <4>2, <4>3
      <4> QED BY <4>2, <4>3, <4>4, <1>3 DEF Apart
    <3>3. CASE /\ i \in DOMAIN s /\ q[i] = s[i]
               /\ j - Len(s) \in DOMAIN r /\ q[j] = r[j - Len(s)]
      BY <3>3, <1>3, <2>4
    <3>4. CASE /\ j \in DOMAIN s /\ q[j] = s[j]
               /\ i - Len(s) \in DOMAIN r /\ q[i] = r[i - Len(s)]
      BY <3>4, <1>3, <2>4
    <3> QED BY <3>1, <3>2, <3>3, <3>4, <2>3
  <2> QED BY <2>2, <2>5 DEF Apart
<1> QED BY <1>2, <1>3

LEMMA HeldTail ==
  ASSUME NEW s, IsSeq(s), s # <<>>
  PROVE  /\ HeldIn(s) = CbsOf(Head(s)) \cup HeldIn(Tail(s))
         /\ Apart(s) => Apart(Tail(s)) /\ CbsOf(Head(s)) \cap HeldIn(Tail(s)) = {}
<1>1. PICK h, r : h = Head(s) /\ r = Tail(s)
  OBVIOUS
<1>2. /\ Elems(s) = {h} \cup Elems(r)
      /\ Len(s) \in Nat \ {0} /\ DOMAIN s = 1 .. Len(s) /\ DOMAIN r = 1 .. Len(s) - 1
      /\ h = s[1] /\ \A i \in DOMAIN r : i + 1 \in DOMAIN s /\ r[i] = s[i + 1]
  BY <1>1, TailSeq
<1>3. HeldIn(s) = CbsOf(h) \cup HeldIn(r)
  BY <1>2, HeldByElems
<1>4. ASSUME Apart(s) PROVE Apart(r) /\ CbsOf(h) \cap HeldIn(r) = {}
  <2>1. ASSUME NEW i \in DOMAIN r, NEW j \in DOMAIN r, i # j
        PROVE  CbsOf(r[i]) \cap CbsOf(r[j]) = {}
    <3>1. i + 1 # j + 1 /\ i + 1 \in DOMAIN s /\ j + 1 \in DOMAIN s
      BY <1>2, <2>1
    <3> QED BY <3>1, <1>2, <1>4 DEF Apart
  <2>2. ASSUME NEW i \in DOMAIN r PROVE CbsOf(h) \cap CbsOf(r[i]) = {}
    <3>1. 1 # i + 1 /\ i + 1 \in DOMAIN s /\ 1 \in DOMAIN s
      BY <1>2
    <3> QED BY <3>1, <1>2, <1>4 DEF Apart
  <2> QED BY <2>1, <2>2 DEF Apart, HeldIn
<1> QED BY <1>1, <1>3, <1>4

LEMMA HeldAppend ==
  ASSUME NEW s, NEW x, IsSeq(s)
  PROVE  /\ HeldIn(Append(s, x)) = HeldIn(s) \cup CbsOf(x)
         /\ Apart(s) /\ HeldIn(s) \cap CbsOf(x) = {} => Apart(Append(s, x))
<1>1. PICK q : q = Append(s, x)
  OBVIOUS
<1>2. /\ Elems(q) = Elems(s) \cup {x} /\ Len(s) \in Nat
      /\ DOMAIN s = 1 .. Len(s) /\ DOMAIN q = 1 .. Len(s) + 1
      /\ \A i \in DOMAIN s : q[i] = s[i]
      /\ q[Len(s) + 1] = x
  BY <1>1, AppendSeq
<1>3. HeldIn(q) = HeldIn(s) \cup CbsOf(x)
  BY <1>2, HeldByElems
<1>4. ASSUME Apart(s), HeldIn(s) \cap CbsOf(x) = {} PROVE Apart(q)
  <2>1. \A i \in DOMAIN q : \/ i \in DOMAIN s /\ q[i] = s[i]
                            \/ i = Len(s) + 1 /\ q[i] = x
    BY <1>2
  <2>2. \A i \in DOMAIN s : CbsOf(s[i]) \subseteq HeldIn(s)
    BY DEF HeldIn
  <2>3. SUFFICES ASSUME NEW i \in DOMAIN q, NEW j \in DOMAIN q, i # j
                 PROVE  CbsOf(q[i]) \cap CbsOf(q[j]) = {}
    BY DEF Apart
  <2>4. CASE i \in DOMAIN s /\ q[i] = s[i] /\ j \in DOMAIN s /\ q[j] = s[j]
    BY <2>3, <2>4, <1>4 DEF Apart
  <2>5. CASE i \in DOMAIN s /\ q[i] = s[i] /\ q[j] = x
    BY <2>2, <2>5, <1>4
  <2>6. CASE j \in DOMAIN s /\ q[j] = s[j] /\ q[i] = x
    BY <2>2, <2>6, <1>4
  <2> QED BY <2>1, <2>3, <2>4, <2>5, <2>6
<1> QED BY <1>1, <1>3, <1>4

(* What the update of a bind does to the callbacks and reservations.       *)
LEMMA BindUpdateMore ==
  ASSUME Shapes, NEW a0, DOMAIN a0 = DOMAIN arb, a0.bound \in BOOLEAN,
         a0.callbacks = arb.callbacks,
         NEW a, a = UpdateFullyBoundLocked(a0), arb' = TakePendingFlushCallbacks(a)
  PROVE  /\ arb'.reservations = a0.reservations
         /\ \/ FlushIfBound(a) = <<>> /\ arb'.callbacks = arb.callbacks
            \/ FlushIfBound(a) = <<Flush(arb.callbacks)>> /\ arb'.callbacks = {}
         /\ a0.bound => (arb'.fully_bound <=> Resolved(a0))
         /\ ~a0.bound => arb'.fully_bound = a0.fully_bound
<1>1. a0.bound => /\ DOMAIN a = DOMAIN a0 /\ a.reservations = a0.reservations
                  /\ a.callbacks = a0.callbacks /\ a.fully_bound = Resolved(a0)
  BY DEF UpdateFullyBoundLocked, Shapes
<1>2. ~a0.bound => a = a0
  BY DEF UpdateFullyBoundLocked
<1>3. /\ DOMAIN a = DOMAIN arb /\ a.reservations = a0.reservations
      /\ a.callbacks = arb.callbacks
  BY <1>1, <1>2
<1>4. /\ arb'.reservations = a.reservations /\ arb'.fully_bound = a.fully_bound
      /\ a.bound /\ a.fully_bound => arb'.callbacks = {}
      /\ ~(a.bound /\ a.fully_bound) => arb'.callbacks = a.callbacks
  BY <1>3 DEF TakePendingFlushCallbacks, Shapes
<1>5. /\ a.bound /\ a.fully_bound => FlushIfBound(a) = <<Flush(a.callbacks)>>
      /\ ~(a.bound /\ a.fully_bound) => FlushIfBound(a) = <<>>
  BY DEF FlushIfBound
<1> QED BY <1>1, <1>2, <1>3, <1>4, <1>5

LEMMA BindingSteps ==
  ASSUME ThreadInv, NEW t \in Threads, NEW a0, DOMAIN a0 = DOMAIN arb, a0.req = arb.req,
         a0.scheduled = arb.scheduled, a0.fully_bound = arb.fully_bound,
         a0.bound \in BOOLEAN, a0.callbacks = arb.callbacks,
         a0.reservations \in [Reservations -> Ids \cup {Absent, Unresolved}],
         NEW a, a = UpdateFullyBoundLocked(a0), arb' = TakePendingFlushCallbacks(a),
         NEW reg, IsSeq(reg), \A x \in Elems(reg) : x.do = "register" /\ t = IPC,
         NEW rest, IsSeq(rest), rest = Rest(t),
         todo' = [todo EXCEPT ![t] = reg \o FlushIfBound(a) \o rest],
         todo[t] # <<>> => Now(t).do = "abort",
         writers' = writers, tasks' = tasks, service' = service, answered' = answered,
         DOMAIN env' = DOMAIN env, env'.flushes = env.flushes, env'.asked = env.asked
  PROVE  Order' /\ BindStep
<1>0. Shapes /\ WriterShapes /\ Division /\ Returns
  BY DEF ThreadInv, WakeInv, Order
<1>1. arb'.req = arb.req
  BY <1>0, BindingUpdate
<1>2. /\ arb'.reservations = a0.reservations
      /\ \/ FlushIfBound(a) = <<>> /\ arb'.callbacks = arb.callbacks
         \/ FlushIfBound(a) = <<Flush(arb.callbacks)>> /\ arb'.callbacks = {}
  BY <1>0, BindUpdateMore
<1>3. PICK flush : flush = FlushIfBound(a)
  OBVIOUS
<1>4. /\ IsSeq(flush) /\ Apart(flush) /\ HeldIn(flush) \cap arb'.callbacks = {}
      /\ HeldIn(flush) \cup arb'.callbacks \subseteq arb.callbacks
      /\ \A x \in Elems(flush) : x.do = "flush"
  <2>1. CASE FlushIfBound(a) = <<>> /\ arb'.callbacks = arb.callbacks
    BY <2>1, <1>3, ShortSeqs, HeldShort
  <2>2. CASE FlushIfBound(a) = <<Flush(arb.callbacks)>> /\ arb'.callbacks = {}
    <3>1. PICK x : x = Flush(arb.callbacks) /\ flush = <<x>>
      BY <2>2, <1>3
    <3>2. x.do = "flush" /\ CbsOf(x) = arb.callbacks
      BY <3>1, FlushKind
    <3> QED BY <2>2, <3>1, <3>2, ShortSeqs, HeldShort
  <2> QED BY <2>1, <2>2, <1>2
<1>5. Apart(reg) /\ HeldIn(reg) = {}
  <2>1. \A x \in Elems(reg) : CbsOf(x) = {}
    BY PlainKind
  <2>2. HeldIn(reg) = {}
    BY <2>1, HeldByElems
  <2> QED BY <2>2 DEF Apart, HeldIn
<1>6. PICK first : first = reg \o flush
  OBVIOUS
<1>7. /\ IsSeq(first) /\ Elems(first) = Elems(reg) \cup Elems(flush)
      /\ Apart(first) /\ HeldIn(first) = HeldIn(flush)
  <2>1. HeldIn(reg) \cap HeldIn(flush) = {}
    BY <1>5
  <2>2. /\ IsSeq(reg \o flush) /\ Elems(reg \o flush) = Elems(reg) \cup Elems(flush)
        /\ HeldIn(reg \o flush) = HeldIn(reg) \cup HeldIn(flush) /\ Apart(reg \o flush)
    BY ZenonT(40), <2>1, <1>4, <1>5, ConcatSeq, HeldConcat
  <2> QED BY <2>2, <1>5, <1>6
<1>8. Goes(t, first)
  BY <1>3, <1>6, <1>7 DEF Goes
<1>9. \A x \in Elems(first) : x.do \in {"register", "flush"}
  BY <1>4, <1>7
<1>10. BindStep
  BY <1>1, <1>4, <1>7, <1>8, <1>9 DEF BindStep, Binds
<1>11. WriterShapes'
  BY <1>0, <1>2 DEF WriterShapes
<1>12. Division'
  <2>1. first # <<>> => Elems(Tail(first)) \subseteq Elems(first)
    BY <1>7, TailSeq
  <2>2. \A x \in Elems(first) : x.do \in Endpoint => t = IPC
    BY <1>4, <1>7 DEF Endpoint
  <2> QED BY <1>0, <1>8, <1>9, <2>1, <2>2, DivisionStep
<1>13. Returns'
  BY <1>0, <1>8, <1>9, ReturnsKept DEF InHand
<1> QED BY <1>10, <1>11, <1>12, <1>13 DEF Order

(* Binding a reservation r to b.                                           *)
LEMMA BindImplSteps ==
  ASSUME ThreadInv, NEW t \in Threads, NEW r, NEW b \in Ids, NEW rest, IsSeq(rest),
         rest = Rest(t), BindStartupTargetBufferImpl(t, r, b, rest),
         b # kInvalidBufferId => t = IPC,
         todo[t] # <<>> => Now(t).do = "abort",
         DOMAIN env' = DOMAIN env, env'.flushes = env.flushes, env'.asked = env.asked
  PROVE  /\ Order' /\ BindStep
         /\ arb'.reservations = [arb.reservations EXCEPT ![r] = b]
         /\ arb'.fully_bound => Resolved(arb') \/ (~arb.bound /\ arb.fully_bound)
<1> DEFINE bound == {p \in arb.pending : p.target = r}
           a0 == [arb EXCEPT !.reservations[r] = b, !.pending = @ \ bound]
           a == UpdateFullyBoundLocked(a0)
           reg == IF b = kInvalidBufferId \/ bound = {} THEN <<>>
                  ELSE <<Register({[id |-> p.id, target |-> b] : p \in bound})>>
<1>0. Shapes /\ WriterShapes
  BY DEF ThreadInv, WakeInv, Order
<1>1. /\ arb' = TakePendingFlushCallbacks(a)
      /\ todo' = [todo EXCEPT ![t] = reg \o FlushIfBound(a) \o rest]
      /\ writers' = writers /\ tasks' = tasks /\ service' = service /\ answered' = answered
  BY DEF BindStartupTargetBufferImpl
<1>2. /\ DOMAIN a0 = DOMAIN arb /\ a0.req = arb.req /\ a0.scheduled = arb.scheduled
      /\ a0.fully_bound = arb.fully_bound /\ a0.bound = arb.bound /\ a0.bound \in BOOLEAN
      /\ a0.callbacks = arb.callbacks
      /\ a0.reservations = [arb.reservations EXCEPT ![r] = b]
  <2>1. PICK res, pend : /\ a0 = [arb EXCEPT !.reservations = res, !.pending = pend]
                         /\ res = [arb.reservations EXCEPT ![r] = b]
    <3>1. a0 = [arb EXCEPT !.reservations = [arb.reservations EXCEPT ![r] = b],
                           !.pending = @ \ bound]
      BY Zenon
    <3> QED BY <3>1, Zenon
  <2> HIDE DEF a0
  <2> QED BY <2>1, <1>0 DEF Shapes
<1>3. a0.reservations \in [Reservations -> Ids \cup {Absent, Unresolved}]
  <2>1. [arb.reservations EXCEPT ![r] = b] \in [Reservations -> Ids \cup {Absent, Unresolved}]
    BY <1>0 DEF WriterShapes
  <2> HIDE DEF a0
  <2> QED BY <2>1, <1>2
<1>4. IsSeq(reg) /\ \A x \in Elems(reg) : x.do = "register" /\ t = IPC
  <2>1. CASE b = kInvalidBufferId \/ bound = {}
    BY <2>1, ShortSeqs
  <2>2. CASE ~(b = kInvalidBufferId \/ bound = {})
    <3>1. PICK ws : reg = <<Register(ws)>> /\ t = IPC
      BY <2>2
    <3>2. Register(ws).do = "register"
      BY DEF Register
    <3>3. PICK x : x = Register(ws) /\ x.do = "register"
      BY <3>2
    <3>4. IsSeq(<<x>>) /\ Elems(<<x>>) = {x}
      BY ShortSeqs
    <3> QED BY <3>1, <3>3, <3>4
  <2> QED BY <2>1, <2>2
<1> HIDE DEF bound, a0, reg
<1>5. Order' /\ BindStep
  BY <1>1, <1>2, <1>3, <1>4, BindingSteps
<1>6. /\ arb'.reservations = a0.reservations
      /\ a0.bound => (arb'.fully_bound <=> Resolved(a0))
      /\ ~a0.bound => arb'.fully_bound = a0.fully_bound
  BY <1>0, <1>1, <1>2, BindUpdateMore
<1>7. Resolved(a0) => Resolved(arb')
  BY <1>6 DEF Resolved
<1> QED BY <1>2, <1>5, <1>6, <1>7

LEMMA BindToProducerEndpointSteps ==
  ASSUME ThreadInv, BindToProducerEndpoint
  PROVE  /\ Order' /\ BindStep
         /\ arb'.reservations = arb.reservations /\ env' = env
         /\ arb'.fully_bound => Resolved(arb')
<1> DEFINE a0 == [arb EXCEPT !.bound = TRUE]
           a == UpdateFullyBoundLocked(a0)
<1>0. Shapes /\ WriterShapes
  BY DEF ThreadInv, WakeInv, Order
<1>1. /\ arb' = TakePendingFlushCallbacks(a) /\ todo[IPC] = <<>>
      /\ todo' = [todo EXCEPT ![IPC] = FlushIfBound(a)]
      /\ writers' = writers /\ tasks' = tasks /\ service' = service /\ answered' = answered
      /\ env' = env
  BY DEF BindToProducerEndpoint, Start, Idle
<1>2. /\ DOMAIN a0 = DOMAIN arb /\ a0.req = arb.req /\ a0.scheduled = arb.scheduled
      /\ a0.fully_bound = arb.fully_bound /\ a0.bound \in BOOLEAN /\ a0.bound
      /\ a0.callbacks = arb.callbacks /\ a0.reservations = arb.reservations
  BY <1>0 DEF Shapes
<1> HIDE DEF a0
<1>3. IsSeq(FlushIfBound(a)) /\ IsSeq(<<>>)
  BY ShortSeqs DEF FlushIfBound
<1>4. <<>> \o FlushIfBound(a) \o <<>> = FlushIfBound(a)
  <2>1. PICK f : f = FlushIfBound(a)
    OBVIOUS
  <2>2. <<>> \o f \o <<>> = f
    BY <1>3, <2>1 DEF IsSeq
  <2> QED BY <2>1, <2>2
<1>5. PICK e : /\ IsSeq(e) /\ IPC \in Threads /\ Elems(e) = {} /\ e = Rest(IPC)
               /\ todo' = [todo EXCEPT ![IPC] = e \o FlushIfBound(a) \o e]
  BY <1>1, <1>3, <1>4, ArbiterConstants, ShortSeqs DEF Rest
<1>6. a0.reservations \in [Reservations -> Ids \cup {Absent, Unresolved}]
  BY <1>0, <1>2 DEF WriterShapes
<1>7. /\ writers' = writers /\ tasks' = tasks /\ service' = service /\ answered' = answered
      /\ env' = env /\ arb' = TakePendingFlushCallbacks(a) /\ todo[IPC] = <<>>
  BY <1>1
<1>8. Order' /\ BindStep
  BY <1>2, <1>5, <1>6, <1>7, BindingSteps
<1>9. /\ arb'.reservations = a0.reservations
      /\ a0.bound => (arb'.fully_bound <=> Resolved(a0))
  BY <1>0, <1>2, <1>7, BindUpdateMore
<1>10. Resolved(a0) => Resolved(arb')
  BY <1>9 DEF Resolved
<1> QED BY <1>2, <1>7, <1>8, <1>9, <1>10

(* A reservation that the call claims.                                     *)
LEMMA ClaimKeeps ==
  ASSUME WriterShapes, NEW r, Claim(r)
  PROVE  /\ DOMAIN env' = DOMAIN env /\ env'.flushes = env.flushes
         /\ env'.asked = env.asked /\ env'.claimed = env.claimed \cup {r}
BY DEF Claim, WriterShapes

LEMMA BindStartupTargetBufferSteps ==
  ASSUME ThreadInv, NEW r \in Reservations, NEW b \in Buffers, BindStartupTargetBuffer(r, b)
  PROVE  /\ Order' /\ BindStep /\ Claim(r) /\ r \notin env.claimed
         /\ todo[IPC] = <<>> /\ tasks' = tasks
         /\ arb'.reservations = [arb.reservations EXCEPT ![r] = b]
         /\ arb'.fully_bound => Resolved(arb')
<1>0. Shapes /\ WriterShapes /\ BoundFirst
  BY DEF ThreadInv, WakeInv, Order
<1>1. /\ todo[IPC] = <<>> /\ BindStartupTargetBufferImpl(IPC, r, b, <<>>) /\ IPC \in Threads
      /\ Claim(r) /\ r \notin env.claimed /\ b \in Ids
  BY ArbiterConstants DEF BindStartupTargetBuffer, Idle, Ids
<1>2. PICK e : IsSeq(e) /\ e = Rest(IPC) /\ BindStartupTargetBufferImpl(IPC, r, b, e)
  BY <1>1, ShortSeqs DEF Rest
<1>3. DOMAIN env' = DOMAIN env /\ env'.flushes = env.flushes /\ env'.asked = env.asked
  BY <1>0, <1>1, ClaimKeeps
<1>4. /\ Order' /\ BindStep
      /\ arb'.reservations = [arb.reservations EXCEPT ![r] = b]
      /\ arb'.fully_bound => Resolved(arb') \/ (~arb.bound /\ arb.fully_bound)
  BY <1>1, <1>2, <1>3, BindImplSteps
<1>5. tasks' = tasks
  BY <1>1 DEF BindStartupTargetBufferImpl
<1> QED BY <1>0, <1>1, <1>4, <1>5 DEF BoundFirst

LEMMA AbortBindSteps ==
  ASSUME ThreadInv, NEW t \in Threads, NEW r \in Reservations,
         AbortStartupTracingForReservation(t, r), ~MustPostAbort(t)
  PROVE  /\ Order' /\ BindStep /\ Claim(r) /\ r \notin env.claimed
         /\ arb'.reservations = [arb.reservations EXCEPT ![r] = kInvalidBufferId]
         /\ arb'.fully_bound => Resolved(arb')
<1>0. Shapes /\ WriterShapes /\ BoundFirst
  BY DEF ThreadInv, WakeInv, Order
<1>1. /\ todo[t] = <<>> /\ BindStartupTargetBufferImpl(t, r, kInvalidBufferId, <<>>)
      /\ Claim(r) /\ r \notin env.claimed /\ kInvalidBufferId \in Ids
  BY DEF AbortStartupTracingForReservation, Idle, Ids
<1>2. PICK e : IsSeq(e) /\ e = Rest(t) /\ BindStartupTargetBufferImpl(t, r, kInvalidBufferId, e)
  BY <1>1, ShortSeqs DEF Rest
<1>3. DOMAIN env' = DOMAIN env /\ env'.flushes = env.flushes /\ env'.asked = env.asked
  BY <1>0, <1>1, ClaimKeeps
<1>4. /\ Order' /\ BindStep
      /\ arb'.reservations = [arb.reservations EXCEPT ![r] = kInvalidBufferId]
      /\ arb'.fully_bound => Resolved(arb') \/ (~arb.bound /\ arb.fully_bound)
  BY <1>1, <1>2, <1>3, BindImplSteps
<1> QED BY <1>0, <1>1, <1>4 DEF BoundFirst

LEMMA RunAbortSteps ==
  ASSUME ThreadInv, RunAbort
  PROVE  /\ Order' /\ BindStep /\ env' = env
         /\ todo[IPC] # <<>> /\ Now(IPC).do = "abort"
         /\ arb'.reservations = [arb.reservations EXCEPT ![Now(IPC).r] = kInvalidBufferId]
         /\ arb'.fully_bound => Resolved(arb')
<1>0. Shapes /\ WriterShapes /\ BoundFirst
  BY DEF ThreadInv, WakeInv, Order
<1>1. /\ todo[IPC] # <<>> /\ Now(IPC).do = "abort" /\ IPC \in Threads /\ env' = env
      /\ BindStartupTargetBufferImpl(IPC, Now(IPC).r, kInvalidBufferId, Tail(todo[IPC]))
      /\ kInvalidBufferId \in Ids
  BY ArbiterConstants DEF RunAbort, AtStep, Now, Ids
<1>2. PICK r, rest : /\ IsSeq(rest) /\ rest = Rest(IPC) /\ r = Now(IPC).r
                     /\ BindStartupTargetBufferImpl(IPC, r, kInvalidBufferId, rest)
  BY <1>0, <1>1, TailSeq DEF Rest, Shapes
<1>3. /\ Order' /\ BindStep
      /\ arb'.reservations = [arb.reservations EXCEPT ![r] = kInvalidBufferId]
      /\ arb'.fully_bound => Resolved(arb') \/ (~arb.bound /\ arb.fully_bound)
  BY <1>1, <1>2, BindImplSteps
<1> QED BY <1>0, <1>1, <1>2, <1>3 DEF BoundFirst

(***************************************************************************)
(* Steps that return chunks                                                *)
(***************************************************************************)
(* The request is updated for the writer w, which returns count chunks.    *)
Updates(t, w, count) ==
  /\ \E first : Goes(t, first) /\ \A x \in Elems(first) : x = Delay
  /\ writers' = [v \in DOMAIN writers |-> writers'[v]]
  /\ \A v \in DOMAIN writers :
       /\ DOMAIN writers'[v] = DOMAIN writers[v]
       /\ writers'[v].thread = writers[v].thread /\ writers'[v].target = writers[v].target
       /\ writers'[v].cur = writers[v].cur /\ writers'[v].n = writers[v].n
       /\ v # w => writers'[v] = writers[v]
  /\ writers'[w].returned = writers[w].returned + count
  /\ arb'.callbacks = arb.callbacks /\ arb'.reservations = arb.reservations
  /\ arb'.fully_bound = arb.fully_bound
  /\ tasks' = tasks /\ service' = service /\ answered' = answered /\ env' = env

LEMMA UpdateSteps ==
  ASSUME ThreadInv, NEW t \in Threads, NEW w \in DOMAIN writers, NEW chunk, NEW rest,
         rest = Rest(t), UpdateCommitDataRequest(t, w, chunk, rest),
         NEW count, count = Len(chunk)
  PROVE  Updates(t, w, count)
<1>0. Shapes /\ WriterShapes
  BY DEF ThreadInv, WakeInv, Order
<1>1. PICK req, batch : arb' = [arb EXCEPT !.req = req, !.scheduled = @ \/ batch]
  BY Zenon DEF UpdateCommitDataRequest
<1>2. PICK c \in BOOLEAN : todo' = [todo EXCEPT ![t] = (IF c THEN <<Delay>> ELSE <<>>) \o rest]
  BY DEF UpdateCommitDataRequest, Start
<1>3. PICK first : first = IF c THEN <<Delay>> ELSE <<>>
  OBVIOUS
<1>4. IsSeq(first) /\ \A x \in Elems(first) : x = Delay
  BY <1>3, ShortSeqs
<1>5. todo' = [todo EXCEPT ![t] = first \o rest]
  BY <1>2, <1>3
<1>6. \E f : Goes(t, f) /\ \A x \in Elems(f) : x = Delay
  BY <1>4, <1>5 DEF Goes
<1>7. PICK rec, patches :
        /\ writers' = [writers EXCEPT ![w] = rec]
        /\ rec = [writers[w] EXCEPT !.patches = patches, !.returned = @ + count]
  <2>1. PICK patches : writers' = [writers EXCEPT ![w].patches = patches,
                                                  ![w].returned = @ + Len(chunk)]
    BY Zenon DEF UpdateCommitDataRequest
  <2>2. writers' = [writers EXCEPT ![w].patches = patches, ![w].returned = @ + count]
    BY <2>1
  <2>3. writers' = [writers EXCEPT ![w] =
                      [writers[w] EXCEPT !.patches = patches, !.returned = @ + count]]
    BY <2>2
  <2> QED BY <2>3, Zenon
<1>8. /\ DOMAIN rec = DOMAIN writers[w] /\ rec.thread = writers[w].thread
      /\ rec.target = writers[w].target /\ rec.returned = writers[w].returned + count
      /\ rec.n = writers[w].n /\ rec.cur = writers[w].cur
  BY <1>0, <1>7 DEF WriterShapes
<1>9. /\ writers' = [v \in DOMAIN writers |-> writers'[v]] /\ writers'[w] = rec
      /\ \A v \in DOMAIN writers : v # w => writers'[v] = writers[v]
  BY <1>7
<1>10. \A v \in DOMAIN writers :
       /\ DOMAIN writers'[v] = DOMAIN writers[v]
       /\ writers'[v].thread = writers[v].thread /\ writers'[v].target = writers[v].target
       /\ writers'[v].cur = writers[v].cur /\ writers'[v].n = writers[v].n
  BY <1>8, <1>9
<1>11. /\ arb'.callbacks = arb.callbacks /\ arb'.reservations = arb.reservations
       /\ arb'.fully_bound = arb.fully_bound
  BY <1>0, <1>1 DEF Shapes
<1>12. tasks' = tasks /\ service' = service /\ answered' = answered /\ env' = env
  BY DEF UpdateCommitDataRequest
<1> QED BY <1>6, <1>8, <1>9, <1>10, <1>11, <1>12 DEF Updates

(* What is left to show of an update.                                      *)
LEMMA UpdateOrder ==
  ASSUME ThreadInv, NEW t \in Threads, NEW w \in DOMAIN writers, NEW count \in Nat,
         Updates(t, w, count), Returns'
  PROVE  Order'
<1>0. Shapes /\ WriterShapes /\ Division
  BY DEF ThreadInv, WakeInv, Order
<1>1. PICK first : Goes(t, first) /\ \A x \in Elems(first) : x = Delay
  BY DEF Updates
<1>2. \A x \in Elems(first) : x.do = "delay"
  BY <1>1 DEF Delay
<1>3. IsSeq(first)
  BY <1>1 DEF Goes
<1>4. first # <<>> => Elems(Tail(first)) \subseteq Elems(first)
  BY <1>3, TailSeq
<1>5. tasks' = tasks /\ service' = service
  BY DEF Updates
<1>6. Division'
  BY <1>0, <1>1, <1>2, <1>4, <1>5, DivisionStep DEF Endpoint
<1>7. \A v \in DOMAIN writers : writers'[v].returned \in Nat
  BY <1>0 DEF WriterShapes, Updates
<1>8. /\ writers' = [v \in DOMAIN writers |-> writers'[v]]
      /\ arb'.reservations = arb.reservations /\ env' = env /\ answered' = answered
      /\ \A v \in DOMAIN writers :
           /\ DOMAIN writers'[v] = DOMAIN writers[v]
           /\ writers'[v].thread = writers[v].thread /\ writers'[v].target = writers[v].target
           /\ writers'[v].cur = writers[v].cur /\ writers'[v].n = writers[v].n
  BY DEF Updates
<1>9. \A v \in DOMAIN writers : writers[v].cur \in BOOLEAN /\ writers[v].n \in Nat
  BY <1>0 DEF WriterShapes
<1>10. env.flushes \in Nat /\ IsSeq(env.asked) /\ IsSeq(answered)
  BY <1>0 DEF WriterShapes
<1>11. WriterShapes'
  BY <1>0, <1>7, <1>8, <1>9, <1>10, WritersEdited
<1> QED BY <1>6, <1>11 DEF Order

(* A chunk that is returned is the next one of its writer.                 *)
LEMMA ReturnCompletedChunkSteps ==
  ASSUME ThreadInv, NEW t \in Threads, ReturnCompletedChunk(t), NEW w, w = Now(t).w
  PROVE  /\ Order' /\ Updates(t, w, 1) /\ todo[t] # <<>> /\ Now(t).do = "return"
         /\ w \in DOMAIN writers /\ Now(t).n = writers[w].returned + 1
<1>0. Shapes /\ WriterShapes /\ Returns /\ todo[t] # <<>> /\ Now(t).do = "return"
  BY DEF ThreadInv, WakeInv, Order, ReturnCompletedChunk, AtStep, Now
<1>1. Now(t) \in Elems(todo[t])
  BY <1>0, TailSeq DEF Shapes, Now
<1>2. /\ w \in DOMAIN writers /\ writers[w].thread = t /\ Now(t).n = writers[w].returned + 1
      /\ writers[w].n = writers[w].returned + 1 + Current(w)
  BY <1>0, <1>1 DEF Returns, InHand
<1>3. PICK chunk, rest : /\ UpdateCommitDataRequest(t, w, chunk, rest) /\ 1 = Len(chunk)
                         /\ rest = Rest(t)
  BY <1>0, ShortSeqs DEF ReturnCompletedChunk, Rest
<1>4. Updates(t, w, 1)
  BY <1>2, <1>3, UpdateSteps
<1>5. PICK first : Goes(t, first) /\ \A x \in Elems(first) : x = Delay
  BY <1>4 DEF Updates
<1>6. \A x \in Elems(first) : x.do # "return" /\ x.do \notin InHand
  BY <1>5 DEF Delay, InHand
<1>7. /\ DOMAIN writers' = DOMAIN writers /\ writers'[w].thread = t
      /\ \A v \in DOMAIN writers \ {w} : writers'[v] = writers[v]
      /\ writers'[w].n = writers[w].n /\ writers'[w].returned = writers[w].returned + 1
      /\ writers'[w].cur = writers[w].cur
  BY <1>2, <1>4 DEF Updates
<1>8. Current(w)' = Current(w)
  BY <1>7 DEF Current
<1>9. writers'[w].n = writers'[w].returned + Current(w)'
  BY <1>2, <1>7, <1>8
<1>10. OneInHand(first)
  BY <1>6 DEF OneInHand, Elems
<1>11. Now(t).do \in InHand /\ Now(t).w = w
  BY <1>0 DEF InHand
<1>12. Returns'
  BY <1>0, <1>2, <1>5, <1>6, <1>7, <1>9, <1>10, <1>11, ReturnsStep
<1>13. Order'
  BY <1>2, <1>4, <1>12, UpdateOrder
<1> QED BY <1>0, <1>2, <1>4, <1>13

LEMMA SendPatchesSteps ==
  ASSUME ThreadInv, NEW t \in Threads, SendPatches(t)
  PROVE  /\ Order' /\ todo[t] = <<>>
         /\ \E w \in DOMAIN writers : /\ Updates(t, w, 0)
                                      /\ UpdateCommitDataRequest(t, w, <<>>, <<>>)
<1>0. Shapes /\ WriterShapes /\ Returns /\ todo[t] = <<>>
  BY DEF ThreadInv, WakeInv, Order, SendPatches, Idle
<1>1. PICK w \in DOMAIN writers : UpdateCommitDataRequest(t, w, <<>>, <<>>)
  BY DEF SendPatches, Owner
<1>2. PICK e : e = <<>> /\ UpdateCommitDataRequest(t, w, e, e) /\ 0 = Len(e) /\ e = Rest(t)
  BY <1>0, <1>1, ShortSeqs DEF Rest
<1>3. Updates(t, w, 0)
  BY <1>2, UpdateSteps
<1>4. PICK first : Goes(t, first) /\ \A x \in Elems(first) : x = Delay
  BY <1>3 DEF Updates
<1>5. \A x \in Elems(first) : x.do \notin InHand
  BY <1>4 DEF Delay, InHand
<1>6. /\ DOMAIN writers' = DOMAIN writers
      /\ \A v \in DOMAIN writers :
           /\ writers'[v].thread = writers[v].thread /\ writers'[v].n = writers[v].n
           /\ writers'[v].returned = writers[v].returned
           /\ writers'[v].cur = writers[v].cur
  BY <1>0, <1>3 DEF Updates, WriterShapes
<1>7. Returns'
  BY <1>0, <1>4, <1>5, <1>6, ReturnsKept
<1>8. Order'
  BY <1>3, <1>7, UpdateOrder
<1> QED BY <1>0, <1>1, <1>3, <1>8

(***************************************************************************)
(* Flushes, tasks and messages                                             *)
(***************************************************************************)
(* A step that leaves the writers and what is in hand alone.               *)
LEMMA PlainOrder ==
  ASSUME ThreadInv, NEW t \in Threads, NEW first, Goes(t, first),
         todo[t] # <<>> => Now(t).do # "return",
         \A x \in Elems(first) : /\ x.do = "post" => x.task.do \in PostKinds
                                 /\ x.do \in Endpoint => t = IPC
                                 /\ x.do \notin InHand,
         first # <<>> => \A x \in Elems(Tail(first)) : x.do # "commit",
         \A x \in Elems(tasks') : x \in Elems(tasks) \/ x.do \in TaskKinds,
         \A x \in Elems(service'.inbox) : x \in Elems(service.inbox) \/ x.do \in Endpoint,
         writers' = writers, arb'.reservations = arb.reservations,
         DOMAIN env' = DOMAIN env, env'.flushes \in Nat, IsSeq(env'.asked), IsSeq(answered')
  PROVE  Order'
<1>0. Shapes /\ WriterShapes /\ Division /\ Returns
  BY DEF ThreadInv, WakeInv, Order
<1>1. WriterShapes'
  BY <1>0 DEF WriterShapes
<1>2. Division'
  BY <1>0, DivisionStep
<1>3. Returns'
  BY <1>0, ReturnsKept
<1> QED BY <1>1, <1>2, <1>3 DEF Order

(* ... that has at most one step to do then, and sends no message.         *)
LEMMA PlainStep ==
  ASSUME ThreadInv, NEW t \in Threads, NEW first, Goes(t, first),
         todo[t] # <<>> => Now(t).do # "return",
         Elems(first) = {} \/ \E x : /\ first = <<x>>
                                     /\ x.do = "post" => x.task.do \in PostKinds
                                     /\ x.do \in Endpoint => t = IPC
                                     /\ x.do \notin InHand,
         \A x \in Elems(tasks') : x \in Elems(tasks) \/ x.do \in TaskKinds,
         service' = service, writers' = writers, arb'.reservations = arb.reservations,
         env' = env, IsSeq(answered')
  PROVE  Order'
<1>1. DOMAIN env' = DOMAIN env /\ env'.flushes \in Nat /\ IsSeq(env'.asked)
  BY DEF ThreadInv, Order, WriterShapes
<1>2. IsSeq(first)
  BY DEF Goes
<1>3. CASE Elems(first) = {}
  <2>1. first # <<>> => Elems(Tail(first)) \subseteq Elems(first)
    BY <1>2, TailSeq
  <2> QED BY <1>1, <1>3, <2>1, PlainOrder
<1>4. CASE \E x : /\ first = <<x>>
                  /\ x.do = "post" => x.task.do \in PostKinds
                  /\ x.do \in Endpoint => t = IPC
                  /\ x.do \notin InHand
  <2>1. PICK x : /\ first = <<x>>
                 /\ x.do = "post" => x.task.do \in PostKinds
                 /\ x.do \in Endpoint => t = IPC
                 /\ x.do \notin InHand
    BY <1>4
  <2>2. Elems(first) = {x} /\ Tail(first) = <<>> /\ Elems(<<>>) = {}
    BY <2>1, ShortSeqs
  <2>3. /\ \A y \in Elems(first) : /\ y.do = "post" => y.task.do \in PostKinds
                                   /\ y.do \in Endpoint => t = IPC
                                   /\ y.do \notin InHand
        /\ \A y \in Elems(Tail(first)) : y.do # "commit"
    BY <2>1, <2>2
  <2> QED BY <1>1, <2>3, PlainOrder
<1> QED BY <1>3, <1>4

(* The three outcomes of a flush with the callbacks cbs: it leaves them to *)
(* a later bind, passes itself on, or sends the request.                   *)
Leaves(t, first, cbs) ==
  /\ Elems(first) = {} /\ ~arb.fully_bound /\ arb' = [arb EXCEPT !.callbacks = @ \cup cbs]
PassesOn(t, first, cbs) == first = <<Post(Flush(cbs))>> /\ arb' = arb
ToSend == ReleaseAllAsComplete(ReplaceCommitPlaceholderBufferIds(arb.req))
Sends(t, first, cbs) ==
  /\ t = IPC /\ arb.fully_bound /\ arb' = [arb EXCEPT !.req = NoRequest]
  /\ \/ first = <<>> /\ ~arb.req.open /\ cbs = {}
     \/ first = <<Commit(ToSend, cbs)>>

LEMMA FlushPendingSteps ==
  ASSUME ThreadInv, NEW t \in Threads, FlushPendingCommitDataRequests(t),
         NEW cbs, cbs = Now(t).cbs
  PROVE  /\ Order' /\ todo[t] # <<>> /\ Now(t).do = "flush"
         /\ writers' = writers /\ tasks' = tasks /\ service' = service
         /\ answered' = answered /\ env' = env
         /\ \E first : /\ Goes(t, first)
                       /\ \/ Leaves(t, first, cbs) \/ PassesOn(t, first, cbs)
                          \/ Sends(t, first, cbs)
<1>0. /\ Shapes /\ WriterShapes /\ todo[t] # <<>> /\ Now(t).do = "flush"
      /\ writers' = writers /\ tasks' = tasks /\ service' = service
      /\ answered' = answered /\ env' = env /\ IsSeq(answered)
  BY DEF ThreadInv, WakeInv, Order, WriterShapes, FlushPendingCommitDataRequests, AtStep, Now
<1>1. IF ~arb.fully_bound
      THEN /\ arb' = [arb EXCEPT !.callbacks = @ \cup cbs]
           /\ Then(t, <<>>)
      ELSE IF t # IPC
      THEN Then(t, <<Post(Flush(cbs))>>) /\ UNCHANGED arb
      ELSE /\ arb' = [arb EXCEPT !.req = NoRequest]
           /\ Then(t, IF arb.req.open \/ cbs # {} THEN <<Commit(ToSend, cbs)>> ELSE <<>>)
  BY DEF FlushPendingCommitDataRequests, ToSend
<1>2. CASE ~arb.fully_bound
  <2>1. PICK e : /\ todo' = [todo EXCEPT ![t] = e \o Tail(todo[t])] /\ IsSeq(e)
                 /\ Elems(e) = {}
    BY <1>1, <1>2, ShortSeqs DEF Then
  <2>2. Goes(t, e)
    BY <1>0, <2>1, ThenGoes
  <2>3. arb' = [arb EXCEPT !.callbacks = @ \cup cbs]
    BY <1>1, <1>2
  <2>4. arb'.reservations = arb.reservations
    BY <1>0, <2>3 DEF Shapes
  <2>5. Order'
    BY <1>0, <2>1, <2>2, <2>4, PlainStep
  <2> QED BY <1>0, <1>2, <2>1, <2>2, <2>3, <2>5 DEF Leaves
<1>3. CASE arb.fully_bound /\ t # IPC
  <2>1. PICK x : x = Post(Flush(cbs)) /\ x.do = "post" /\ x.task.do = "flush"
    BY PostKind, FlushKind
  <2>2. PICK e : /\ todo' = [todo EXCEPT ![t] = e \o Tail(todo[t])] /\ IsSeq(e)
                 /\ e = <<x>>
    BY <1>1, <1>3, <2>1, ShortSeqs DEF Then
  <2>3. Goes(t, e)
    BY <1>0, <2>2, ThenGoes
  <2>4. arb' = arb
    BY <1>1, <1>3
  <2>5. Order'
    BY <1>0, <2>1, <2>2, <2>3, <2>4, PlainStep DEF TaskKinds, PostKinds, Endpoint, InHand
  <2> QED BY <1>0, <1>3, <2>1, <2>2, <2>3, <2>4, <2>5 DEF PassesOn
<1>4. CASE arb.fully_bound /\ t = IPC
  <2>1. PICK x : x = Commit(ToSend, cbs) /\ x.do = "commit"
    BY CommitKind
  <2>2. PICK e : /\ todo' = [todo EXCEPT ![t] = e \o Tail(todo[t])] /\ IsSeq(e)
                 /\ (e = <<>> /\ ~arb.req.open /\ cbs = {}) \/ e = <<x>>
    BY <1>1, <1>4, <2>1, ShortSeqs DEF Then
  <2>3. Goes(t, e)
    BY <1>0, <2>2, ThenGoes
  <2>4. arb' = [arb EXCEPT !.req = NoRequest]
    BY <1>1, <1>4
  <2>5. arb'.reservations = arb.reservations
    BY <1>0, <2>4 DEF Shapes
  <2>6. Elems(<<>>) = {}
    BY ShortSeqs
  <2>7. Order'
    <3>1. Elems(e) = {} \/ \E y : /\ e = <<y>>
                                  /\ y.do = "post" => y.task.do \in PostKinds
                                  /\ y.do \in Endpoint => t = IPC
                                  /\ y.do \notin InHand
      BY <1>4, <2>1, <2>2, <2>6 DEF InHand
    <3> QED BY <1>0, <2>3, <2>5, <3>1, PlainStep
  <2> QED BY <1>0, <1>4, <2>1, <2>2, <2>3, <2>4, <2>7 DEF Sends
<1> QED BY <1>2, <1>3, <1>4

LEMMA NotifyFlushCompleteSteps ==
  ASSUME ThreadInv, NEW t \in Threads, NotifyFlushComplete(t)
  PROVE  /\ Order' /\ todo[t] = <<>>
         /\ \E first : Goes(t, first) /\ \A x \in Elems(first) : x = Post(Flush({}))
         /\ writers' = writers /\ tasks' = tasks /\ service' = service
         /\ answered' = answered
         /\ env' = [env EXCEPT !.asked =
                      Append(@, [w \in DOMAIN writers |-> writers[w].returned])]
         /\ arb'.callbacks = arb.callbacks /\ arb'.reservations = arb.reservations
         /\ arb'.fully_bound = arb.fully_bound /\ arb'.req.open = TRUE
         /\ arb'.req.move = IF arb.req.open THEN arb.req.move ELSE <<>>
<1> DEFINE old == IF arb.req.open THEN arb.req ELSE EmptyRequest
<1>0. /\ Shapes /\ WriterShapes /\ todo[t] = <<>>
      /\ writers' = writers /\ tasks' = tasks /\ service' = service /\ answered' = answered
      /\ env' = [env EXCEPT !.asked =
                      Append(@, [w \in DOMAIN writers |-> writers[w].returned])]
  BY DEF ThreadInv, WakeInv, Order, NotifyFlushComplete, Idle
<1>1. PICK f : arb' = [arb EXCEPT !.req = [old EXCEPT !.flush = f]]
  BY Zenon DEF NotifyFlushComplete
<1>2. /\ DOMAIN old = DOMAIN arb.req /\ old.open = TRUE
      /\ old.move = IF arb.req.open THEN arb.req.move ELSE <<>>
  BY <1>0 DEF Shapes, EmptyRequest, NoRequest
<1> HIDE DEF old
<1>3. /\ arb'.callbacks = arb.callbacks /\ arb'.reservations = arb.reservations
      /\ arb'.fully_bound = arb.fully_bound
      /\ arb'.req.open = TRUE /\ arb'.req.move = old.move
  BY <1>0, <1>1, <1>2 DEF Shapes
<1>4. PICK c \in BOOLEAN, x \in {Post(Flush({}))} :
        todo' = [todo EXCEPT ![t] = IF c THEN <<x>> ELSE <<>>]
  BY DEF NotifyFlushComplete, Start
<1>5. PICK first : first = IF c THEN <<x>> ELSE <<>>
  OBVIOUS
<1>6. IsSeq(first) /\ \A y \in Elems(first) : y = x
  BY <1>5, ShortSeqs
<1>7. Goes(t, first)
  BY <1>0, <1>4, <1>5, <1>6, StartGoes
<1>8. x.do = "post" /\ x.task.do = "flush"
  BY <1>4, PostKind, FlushKind
<1>9. \A y \in Elems(first) : y.do = "post" /\ y.task.do = "flush"
  BY <1>6, <1>8
<1>10. first # <<>> => Elems(Tail(first)) \subseteq Elems(first)
  BY <1>6, TailSeq
<1>11. DOMAIN env' = DOMAIN env /\ env'.flushes \in Nat /\ IsSeq(env'.asked)
  <2>1. PICK f2 : env' = [env EXCEPT !.asked = Append(env.asked, f2)]
    BY <1>0
  <2>2. IsSeq(Append(env.asked, f2))
    BY <1>0, AppendSeq DEF WriterShapes
  <2> QED BY <1>0, <2>1, <2>2 DEF WriterShapes
<1>12. \A y \in Elems(first) : /\ y.do = "post" => y.task.do \in PostKinds
                               /\ y.do \in Endpoint => t = IPC
                               /\ y.do \notin InHand
  BY <1>9 DEF TaskKinds, PostKinds, Endpoint, InHand
<1>13. first # <<>> => \A y \in Elems(Tail(first)) : y.do # "commit"
  BY <1>9, <1>10
<1>14. Order'
  <2>1. IsSeq(answered') /\ tasks' = tasks /\ service' = service /\ writers' = writers
    BY <1>0 DEF WriterShapes
  <2> QED BY <1>0, <1>3, <1>7, <1>11, <1>12, <1>13, <2>1, PlainOrder
<1> QED BY <1>0, <1>2, <1>3, <1>4, <1>6, <1>7, <1>14

(* The callback that a flush passes on counts the chunks that its writer   *)
(* has returned once its thread has returned the current one.              *)
FlushedFor(t, w, first, cb) ==
  /\ Goes(t, first)
  /\ cb = [k |-> env.flushes + 1, w |-> w, n |-> writers[w].n]
  /\ first = ReturnCurrent(w) \o <<Flush({cb})>>
  /\ Elems(first) = Elems(ReturnCurrent(w)) \cup {Flush({cb})}
  /\ writers[w].n = writers[w].returned + Current(w)

LEMMA FlushWriterSteps ==
  ASSUME ThreadInv, NEW t \in Threads, FlushWriter(t)
  PROVE  /\ Order' /\ todo[t] = <<>> /\ arb' = arb /\ tasks' = tasks /\ service' = service
         /\ answered' = answered /\ env' = [env EXCEPT !.flushes = @ + 1]
         /\ Edited
         /\ \E w \in DOMAIN writers : \E first, cb : FlushedFor(t, w, first, cb)
<1>0. /\ Shapes /\ WriterShapes /\ Division /\ Returns /\ todo[t] = <<>> /\ arb' = arb
      /\ tasks' = tasks /\ service' = service /\ answered' = answered
  BY DEF ThreadInv, WakeInv, Order, FlushWriter, Idle
<1>1. PICK w \in Owner(t) :
        /\ todo' = [todo EXCEPT ![t] = ReturnCurrent(w)
              \o <<Flush({[k |-> env.flushes + 1, w |-> w, n |-> writers[w].n]})>>]
        /\ writers' = Dropped(w) /\ env' = [env EXCEPT !.flushes = @ + 1]
  BY DEF FlushWriter, Start, Dropped
<1>2. PICK cb : cb = [k |-> env.flushes + 1, w |-> w, n |-> writers[w].n]
  OBVIOUS
<1>3. PICK x : x = Flush({cb}) /\ x.do = "flush"
  BY FlushKind
<1>4. PICK rest : /\ rest = <<x>> /\ IsSeq(rest) /\ Elems(rest) = {x} /\ NoneInHand(rest)
  BY <1>3, ShortSeqs, ShortHands DEF InHand
<1>5. PICK first : first = ReturnCurrent(w) \o rest
  OBVIOUS
<1>6. /\ IsSeq(first) /\ OneInHand(first)
      /\ Elems(first) = Elems(ReturnCurrent(w)) \cup Elems(rest)
      /\ \A y \in Elems(first) : y.do \in InHand => y \in Elems(ReturnCurrent(w))
  BY <1>4, <1>5, GivesBackSteps
<1>7. todo' = [todo EXCEPT ![t] = first] /\ writers' = Dropped(w)
  BY <1>1, <1>2, <1>3, <1>4, <1>5
<1>8. /\ w \in DOMAIN writers /\ writers[w].n = writers[w].returned + Current(w)
      /\ Goes(t, first) /\ Edited /\ Returns'
  BY <1>0, <1>6, <1>7, GivesBack
<1>9. env' = [env EXCEPT !.flushes = @ + 1]
  BY <1>1
<1>10. /\ DOMAIN env' = DOMAIN env /\ env'.flushes \in Nat /\ IsSeq(env'.asked)
       /\ IsSeq(answered')
  BY <1>0, <1>9 DEF WriterShapes
<1>11. WriterShapes'
  <2>1. \A v \in DOMAIN writers : writers'[v].returned \in Nat
    BY <1>0, <1>8 DEF WriterShapes, Edited
  <2> QED BY <2>1, <1>0, <1>8, <1>10, WritersEdited DEF Edited
<1>12. \A y \in Elems(first) : y.do \in {"return", "flush"}
  <2>1. \A y \in Elems(ReturnCurrent(w)) : y.do = "return"
    BY ReturnCurrentFacts, ReturnKind
  <2> QED BY <2>1, <1>3, <1>4, <1>6
<1>13. Division'
  <2>1. first # <<>> => Elems(Tail(first)) \subseteq Elems(first)
    BY <1>6, TailSeq
  <2>2. first # <<>> => \A y \in Elems(Tail(first)) : y.do # "commit"
    BY <1>12, <2>1
  <2>3. \A y \in Elems(first) : /\ y.do = "post" => y.task.do \in PostKinds
                                /\ y.do \in Endpoint => t = IPC
    BY <1>12 DEF Endpoint
  <2> QED BY <1>0, <1>8, <2>2, <2>3, DivisionStep
<1>14. Order'
  BY <1>8, <1>11, <1>13 DEF Order
<1>15. FlushedFor(t, w, first, cb)
  BY <1>2, <1>3, <1>4, <1>5, <1>6, <1>8 DEF FlushedFor
<1> QED BY <1>0, <1>8, <1>9, <1>14, <1>15

LEMMA PostTaskSteps ==
  ASSUME ThreadInv, NEW t \in Threads, PostTask(t)
  PROVE  /\ Order' /\ todo[t] # <<>> /\ Now(t).do = "post"
         /\ \E e : Goes(t, e) /\ Elems(e) = {}
         /\ tasks' = Append(tasks, Now(t).task)
         /\ arb' = arb /\ writers' = writers /\ service' = service
         /\ answered' = answered /\ env' = env
<1>0. /\ Shapes /\ Division /\ todo[t] # <<>> /\ Now(t).do = "post"
      /\ tasks' = Append(tasks, Now(t).task) /\ arb' = arb /\ writers' = writers
      /\ service' = service /\ answered' = answered /\ env' = env
      /\ todo' = [todo EXCEPT ![t] = <<>> \o Tail(todo[t])] /\ IsSeq(answered)
  BY DEF ThreadInv, WakeInv, Order, WriterShapes, PostTask, AtStep, Now, Then
<1>1. PICK e : /\ IsSeq(e) /\ Elems(e) = {}
               /\ todo' = [todo EXCEPT ![t] = e \o Tail(todo[t])]
  BY <1>0, ShortSeqs
<1>2. Goes(t, e)
  BY <1>0, <1>1, ThenGoes
<1>3. Now(t) \in Elems(todo[t])
  BY <1>0, TailSeq DEF Shapes, Now
<1>4. Now(t).task.do \in TaskKinds
  BY <1>0, <1>3 DEF Division, TaskKinds
<1>5. Elems(tasks') = Elems(tasks) \cup {Now(t).task}
  BY <1>0, AppendSeq DEF Shapes
<1>6. Order'
  BY <1>0, <1>1, <1>2, <1>4, <1>5, PlainStep
<1> QED BY <1>0, <1>1, <1>2, <1>6

LEMMA RunTaskSteps ==
  ASSUME ThreadInv, RunTask
  PROVE  /\ Order' /\ todo[IPC] = <<>> /\ tasks # <<>> /\ tasks' = Tail(tasks)
         /\ Goes(IPC, <<Head(tasks)>>) /\ Head(tasks) \in Elems(tasks)
         /\ arb' = arb /\ writers' = writers /\ service' = service
         /\ answered' = answered /\ env' = env
<1>0. /\ Shapes /\ Division /\ todo[IPC] = <<>> /\ tasks # <<>> /\ IPC \in Threads
      /\ tasks' = Tail(tasks) /\ arb' = arb /\ writers' = writers
      /\ service' = service /\ answered' = answered /\ env' = env
      /\ todo' = [todo EXCEPT ![IPC] = <<Head(tasks)>>] /\ IsSeq(answered)
  BY ArbiterConstants DEF ThreadInv, WakeInv, Order, WriterShapes, RunTask, Idle, Start
<1>1. Elems(tasks) = {Head(tasks)} \cup Elems(tasks')
  BY <1>0, TailSeq DEF Shapes
<1>2. PICK x : x = Head(tasks) /\ x.do \in TaskKinds
  BY <1>0, <1>1 DEF Division
<1>3. PICK first : first = <<x>> /\ IsSeq(first) /\ todo' = [todo EXCEPT ![IPC] = first]
  BY <1>0, <1>2, ShortSeqs
<1>4. Goes(IPC, first)
  BY <1>0, <1>3, StartGoes
<1>5. x.do # "post" /\ x.do \notin InHand
  BY <1>2 DEF TaskKinds, PostKinds, InHand
<1>6. /\ service' = service /\ writers' = writers /\ arb' = arb /\ env' = env
      /\ IsSeq(answered') /\ IPC \in Threads /\ todo[IPC] = <<>>
  BY <1>0
<1>7. Order'
  BY <1>1, <1>3, <1>4, <1>5, <1>6, PlainStep
<1> QED BY <1>0, <1>1, <1>2, <1>3, <1>4, <1>7

LEMMA CallEndpointSteps ==
  ASSUME ThreadInv, NEW t \in Threads, CallEndpoint(t)
  PROVE  /\ Order' /\ t = IPC /\ todo[t] # <<>> /\ Now(t).do \in Endpoint
         /\ \E e : Goes(t, e) /\ Elems(e) = {}
         /\ service' = [service EXCEPT !.inbox = Append(@, Now(t))]
         /\ service'.inbox = Append(service.inbox, Now(t))
         /\ arb' = arb /\ writers' = writers /\ tasks' = tasks
         /\ answered' = answered /\ env' = env
<1>0. /\ Shapes /\ Division /\ todo[t] # <<>> /\ Now(t).do \in Endpoint
      /\ service' = [service EXCEPT !.inbox = Append(@, Now(t))]
      /\ arb' = arb /\ writers' = writers
      /\ tasks' = tasks /\ answered' = answered /\ env' = env
      /\ todo' = [todo EXCEPT ![t] = <<>> \o Tail(todo[t])]
      /\ WriterShapes
  BY DEF ThreadInv, WakeInv, Order, WriterShapes, CallEndpoint, AtStep, Now, Then, Endpoint
<1>1. PICK e : /\ IsSeq(e) /\ Elems(e) = {}
               /\ todo' = [todo EXCEPT ![t] = e \o Tail(todo[t])]
  BY <1>0, ShortSeqs
<1>2. Goes(t, e)
  BY <1>0, <1>1, ThenGoes
<1>3. Now(t) \in Elems(todo[t])
  BY <1>0, TailSeq DEF Shapes, Now
<1>4. t = IPC
  BY <1>0, <1>3 DEF Division
<1>5. service'.inbox = Append(service.inbox, Now(t))
  BY <1>0 DEF Shapes
<1>6. Elems(service'.inbox) = Elems(service.inbox) \cup {Now(t)}
  BY <1>0, <1>5, AppendSeq DEF Shapes
<1>7. e # <<>> => Elems(Tail(e)) \subseteq Elems(e)
  BY <1>1, TailSeq
<1>8. /\ DOMAIN env' = DOMAIN env /\ env'.flushes \in Nat /\ IsSeq(env'.asked)
      /\ IsSeq(answered')
  BY <1>0 DEF WriterShapes
<1>9. Order'
  BY <1>0, <1>1, <1>2, <1>6, <1>7, <1>8, PlainOrder DEF Endpoint
<1> QED BY <1>0, <1>1, <1>2, <1>4, <1>5, <1>9

LEMMA RunCallbackSteps ==
  ASSUME ThreadInv, RunCallback
  PROVE  /\ Order' /\ todo[IPC] # <<>> /\ Now(IPC).do = "callback"
         /\ \E e : Goes(IPC, e) /\ Elems(e) = {}
         /\ answered' = Append(answered, Now(IPC).cbs)
         /\ arb' = arb /\ writers' = writers /\ tasks' = tasks
         /\ service' = service /\ env' = env
<1>0. /\ Shapes /\ todo[IPC] # <<>> /\ Now(IPC).do = "callback" /\ IPC \in Threads
      /\ arb' = arb /\ writers' = writers /\ tasks' = tasks
      /\ service' = service /\ env' = env /\ answered' = Append(answered, Now(IPC).cbs)
      /\ todo' = [todo EXCEPT ![IPC] = <<>> \o Tail(todo[IPC])] /\ IsSeq(answered)
  BY ArbiterConstants
  DEF ThreadInv, WakeInv, Order, WriterShapes, RunCallback, AtStep, Now, Then
<1>1. PICK e : /\ IsSeq(e) /\ Elems(e) = {}
               /\ todo' = [todo EXCEPT ![IPC] = e \o Tail(todo[IPC])]
  BY <1>0, ShortSeqs
<1>2. Goes(IPC, e)
  BY <1>0, <1>1, ThenGoes
<1>3. /\ arb' = arb /\ writers' = writers /\ tasks' = tasks /\ service' = service
      /\ env' = env /\ IPC \in Threads /\ Now(IPC).do # "return"
  BY <1>0
<1>4. IsSeq(answered')
  BY <1>0, AppendSeq
<1>5. Order'
  BY <1>1, <1>2, <1>3, <1>4, PlainStep
<1> QED BY <1>0, <1>1, <1>2, <1>5

(* The service's end takes a message.                                      *)
LEMMA ServiceSteps ==
  ASSUME ThreadInv, ServiceStep, NEW m, m = Head(service.inbox)
  PROVE  /\ Order' /\ service.inbox # <<>> /\ service'.inbox = Tail(service.inbox)
         /\ arb' = arb /\ writers' = writers /\ todo' = todo
         /\ answered' = answered /\ env' = env
         /\ m.do # "commit" => /\ service'.landed = service.landed /\ tasks' = tasks
                               /\ service'.flushed = service.flushed
         /\ m.do = "commit" => ServiceCommit(m)
<1>0. /\ Shapes /\ Division /\ Returns /\ WriterShapes /\ service.inbox # <<>> /\ arb' = arb
      /\ writers' = writers /\ todo' = todo /\ answered' = answered /\ env' = env
      /\ m.do = "commit" => ServiceCommit(m)
  BY DEF ThreadInv, WakeInv, Order, ServiceStep
<1>1. m.do # "commit" => /\ tasks' = tasks /\ service'.landed = service.landed
                         /\ service'.flushed = service.flushed
                         /\ service'.inbox = Tail(service.inbox)
  <2>1. SUFFICES ASSUME m.do # "commit"
                 PROVE  /\ tasks' = tasks /\ service'.landed = service.landed
                        /\ service'.flushed = service.flushed
                        /\ service'.inbox = Tail(service.inbox)
    OBVIOUS
  <2>4. Head(service.inbox).do # "commit"
    BY <2>1
  <2>2. PICK known : service' = [service EXCEPT !.inbox = Tail(@), !.registered = known]
    BY <2>4, Zenon DEF ServiceStep
  <2>3. tasks' = tasks
    BY <2>1 DEF ServiceStep
  <2> QED BY <2>2, <2>3, <1>0 DEF Shapes
<1>2. m.do = "commit" =>
        /\ service'.inbox = Tail(service.inbox)
        /\ tasks' = tasks \/ tasks' = Append(tasks, Callback(m.cbs))
  <2>1. SUFFICES ASSUME ServiceCommit(m)
                 PROVE  /\ service'.inbox = Tail(service.inbox)
                        /\ tasks' = tasks \/ tasks' = Append(tasks, Callback(m.cbs))
    BY <1>0
  <2>2. PICK landed, flushed :
          service' = [service EXCEPT !.inbox = Tail(@), !.landed = landed,
                                     !.flushed = flushed]
    BY <2>1, Zenon DEF ServiceCommit
  <2>3. tasks' = tasks \/ tasks' = Append(tasks, Callback(m.cbs))
    BY <2>1 DEF ServiceCommit
  <2> QED BY <2>2, <2>3, <1>0 DEF Shapes
<1>3. service'.inbox = Tail(service.inbox)
  BY <1>1, <1>2
<1>4. Elems(service'.inbox) \subseteq Elems(service.inbox)
  BY <1>0, <1>3, TailSeq DEF Shapes
<1>5. \A x \in Elems(tasks') : x.do \in TaskKinds
  <2>1. \A x \in Elems(tasks) : x.do \in TaskKinds
    BY <1>0 DEF Division
  <2>2. CASE tasks' = tasks
    BY <2>1, <2>2
  <2>3. CASE tasks' = Append(tasks, Callback(m.cbs))
    <3>1. Elems(tasks') = Elems(tasks) \cup {Callback(m.cbs)}
      BY <2>3, <1>0, AppendSeq DEF Shapes
    <3>2. Callback(m.cbs).do = "callback" /\ "callback" \in TaskKinds
      BY DEF Callback, TaskKinds, PostKinds
    <3> QED BY <2>1, <3>1, <3>2
  <2> QED BY <2>2, <2>3, <1>1, <1>2
<1>6. Division'
  BY <1>0, <1>4, <1>5 DEF Division
<1>7. Returns' /\ WriterShapes'
  BY <1>0 DEF Returns, WriterShapes, Returning, Current
<1> QED BY <1>0, <1>1, <1>3, <1>6, <1>7 DEF Order

(***************************************************************************)
(* The threads keep their order                                            *)
(***************************************************************************)
LEMMA InitOrder ==
  ASSUME Init
  PROVE  ThreadInv
<1>0. PICK c \in Scenarios :
        /\ env = [c |-> c, claimed |-> {}, flushes |-> 0, asked |-> <<>>, overtaken |-> {}]
        /\ arb = [bound |-> c.bound, fully_bound |-> c.bound,
                  was_always_bound |-> c.bound,
                  req |-> NoRequest, scheduled |-> FALSE, callbacks |-> {},
                  pending |-> {}, reservations |-> [r \in Reservations |-> Absent],
                  ids |-> {}, last_id |-> 0, did_shutdown |-> FALSE, direct |-> FALSE]
  BY Zenon DEF Init
<1>1. /\ writers = <<>> /\ todo = [t \in Threads |-> <<>>] /\ tasks = <<>>
      /\ answered = <<>> /\ service.inbox = <<>>
  <2>1. /\ writers = <<>> /\ todo = [t \in Threads |-> <<>>] /\ tasks = <<>>
        /\ answered = <<>>
        /\ service = [inbox |-> <<>>, landed |-> <<>>, registered |-> {}, flushed |-> 0]
    BY Zenon DEF Init
  <2> QED BY <2>1
<1>2. /\ env = [c |-> c, claimed |-> {}, flushes |-> 0, asked |-> <<>>, overtaken |-> {}]
      /\ arb.reservations = [r \in Reservations |-> Absent]
  BY <1>0
<1>3. IsSeq(<<>>) /\ Elems(<<>>) = {} /\ OneInHand(<<>>) /\ DOMAIN <<>> = {}
  <2>1. IsSeq(<<>>) /\ Elems(<<>>) = {}
    BY ShortSeqs
  <2>2. OneInHand(<<>>)
    BY ShortHands
  <2> QED BY <2>1, <2>2
<1>4. WriterShapes
  BY <1>1, <1>2, <1>3 DEF WriterShapes
<1>5. Division
  BY <1>1, <1>3 DEF Division
<1>6. Returns
  BY <1>1, <1>3 DEF Returns
<1> QED BY <1>4, <1>5, <1>6, InitWakes DEF ThreadInv, Order

LEMMA NextOrder ==
  ASSUME ThreadInv, [Next]_vars
  PROVE  ThreadInv'
<1>1. ASSUME NEW t \in Threads, Call(t) PROVE Order'
  <2>1. ASSUME NEW r \in Reservations, AbortStartupTracingForReservation(t, r) PROVE Order'
    BY <2>1, AbortPostNeutral, AbortBindSteps
  <2> QED BY <1>1, <2>1, CreateTraceWriterNeutral, DestroyTraceWriterNeutral,
     GetNewChunkNeutral, GetNewChunkExhaustedNeutral, FinalizeNestedNeutral,
     SendPatchesSteps, FlushWriterSteps, NotifyFlushCompleteSteps DEF Call
<1>2. ASSUME NEW t \in Threads, Step(t) PROVE Order'
  BY <1>2, ReleaseWriterIDNeutral, RetryGetNewChunkNeutral, ReturnCompletedChunkSteps,
     FlushPendingSteps, PostTaskSteps, PostDelayedTaskNeutral, CallEndpointSteps DEF Step
<1>3. ASSUME Bind PROVE Order'
  BY <1>3, BindToProducerEndpointSteps, BindStartupTargetBufferSteps, QuietNeutral DEF Bind
<1>4. ASSUME TaskRunner PROVE Order'
  BY <1>4, RunTaskSteps, RunDelayedTaskNeutral, ClearDelayedNeutral, RunCallbackSteps,
     RunAbortSteps DEF TaskRunner
<1>5. ASSUME UNCHANGED vars PROVE Order'
  BY <1>5 DEF vars, ThreadInv, Order, WriterShapes, Division, Returns, Returning, Current
<1>6. ASSUME ServiceStep PROVE Order'
  BY <1>6, ServiceSteps
<1>7. WakeInv'
  BY NextWakes DEF ThreadInv
<1>8. Order'
  BY <1>1, <1>2, <1>3, <1>4, <1>5, <1>6 DEF Next
<1> QED BY <1>7, <1>8 DEF ThreadInv

(***************************************************************************)
(* Reservations                                                            *)
(***************************************************************************)
SettledKept == \A r \in Reservations :
  arb.reservations[r] \in Ids => arb'.reservations[r] = arb.reservations[r]

(* A step that does not start an abort, though it may post or run one.     *)
LEMMA AbortingStep ==
  ASSUME Shapes, NEW t \in Threads, NEW first, Goes(t, first),
         \A x \in Elems(first) : /\ x.do = "abort" => x \in Elems(tasks)
                                 /\ x.do = "post" => x.task.do # "abort",
         \A x \in Elems(tasks') : x.do = "abort"
           => \/ x \in Elems(tasks)
              \/ todo[t] # <<>> /\ Now(t).do = "post" /\ x = Now(t).task,
         NEW r, Aborting(r)'
  PROVE  Aborting(r)
<1>1. /\ \A u \in Threads \ {t} : todo'[u] = todo[u]
      /\ Elems(todo'[t]) = Elems(first) \cup Elems(Rest(t))
      /\ todo[t] # <<>> => Now(t) \in Elems(todo[t])
      /\ Elems(Rest(t)) \subseteq Elems(todo[t])
  BY GoesFacts
<1>2. CASE \E x \in Elems(tasks') : Aborts(x, r)
  BY <1>1, <1>2 DEF Aborting, Aborts
<1>3. ASSUME NEW u \in Threads, NEW x \in Elems(todo'[u]),
             Aborts(x, r) \/ (x.do = "post" /\ Aborts(x.task, r))
      PROVE  Aborting(r)
  <2>1. CASE x \in Elems(todo[u])
    BY <1>3, <2>1 DEF Aborting
  <2>2. CASE u = t /\ x \in Elems(first)
    BY <1>3, <2>2 DEF Aborting, Aborts
  <2> QED BY <1>1, <1>3, <2>1, <2>2
<1> QED BY <1>2, <1>3 DEF Aborting

(* Reservations are left alone.                                            *)
LEMMA BindingFrame ==
  ASSUME Binding, arb'.reservations = arb.reservations,
         arb'.fully_bound = arb.fully_bound, env'.claimed = env.claimed,
         DOMAIN writers' = DOMAIN writers,
         \A w \in DOMAIN writers : writers'[w].target = writers[w].target,
         \A r \in Reservations : Aborting(r)' => Aborting(r)
  PROVE  Binding' /\ SettledKept
<1>1. Resolved(arb') = Resolved(arb)
  BY DEF Resolved
<1> QED BY <1>1 DEF Binding, SettledKept

LEMMA QuietBinding ==
  ASSUME ThreadInv, Binding, QuietStep
  PROVE  Binding' /\ SettledKept
<1>0. Shapes
  BY DEF ThreadInv, WakeInv
<1>1. PICK t \in Threads : \E first : Neutral(t, first) /\ Undisturbed(first)
  BY DEF QuietStep
<1>2. PICK first : Neutral(t, first) /\ Undisturbed(first)
  BY <1>1
<1>3. Goes(t, first) /\ tasks' = tasks
  BY <1>2 DEF Neutral
<1>4. \A x \in Elems(first) : x.do # "abort" /\ (x.do = "post" => x.task.do # "abort")
  BY <1>2 DEF Undisturbed
<1>5. \A r \in Reservations : Aborting(r)' => Aborting(r)
  BY <1>0, <1>3, <1>4, AbortingStep
<1>6. \A w \in DOMAIN writers : writers'[w].target = writers[w].target
  BY <1>2 DEF Neutral, WritersKept
<1> QED BY <1>2, <1>5, <1>6, BindingFrame DEF Undisturbed

(* ... by the steps with a chunk, a flush, a task or a message.            *)
LEMMA PlainBinding ==
  ASSUME ThreadInv, Binding, NEW t \in Threads, NEW first, Goes(t, first),
         \A x \in Elems(first) : /\ x.do = "abort" => x \in Elems(tasks)
                                 /\ x.do = "post" => x.task.do # "abort",
         \A x \in Elems(tasks') : x.do = "abort"
           => \/ x \in Elems(tasks)
              \/ todo[t] # <<>> /\ Now(t).do = "post" /\ x = Now(t).task,
         arb'.reservations = arb.reservations,
         arb'.fully_bound = arb.fully_bound, env'.claimed = env.claimed,
         DOMAIN writers' = DOMAIN writers,
         \A w \in DOMAIN writers : writers'[w].target = writers[w].target
  PROVE  Binding' /\ SettledKept
<1>0. Shapes
  BY DEF ThreadInv, WakeInv
<1>1. \A r \in Reservations : Aborting(r)' => Aborting(r)
  BY <1>0, AbortingStep
<1> QED BY <1>1, BindingFrame

LEMMA UpdatesBinding ==
  ASSUME ThreadInv, Binding, NEW t \in Threads, NEW w, NEW count, Updates(t, w, count)
  PROVE  Binding' /\ SettledKept
<1>1. PICK first : Goes(t, first) /\ \A x \in Elems(first) : x = Delay
  BY DEF Updates
<1>2. \A x \in Elems(first) : x.do = "delay"
  BY <1>1 DEF Delay
<1>3. /\ tasks' = tasks /\ arb'.reservations = arb.reservations
      /\ arb'.fully_bound = arb.fully_bound /\ env' = env
      /\ DOMAIN writers' = DOMAIN writers
      /\ \A v \in DOMAIN writers : writers'[v].target = writers[v].target
  BY DEF Updates
<1> QED BY <1>1, <1>2, <1>3, PlainBinding

LEMMA FlushPendingBinding ==
  ASSUME ThreadInv, Binding, NEW t \in Threads, FlushPendingCommitDataRequests(t)
  PROVE  Binding' /\ SettledKept
<1>0. Shapes
  BY DEF ThreadInv, WakeInv
<1>1. PICK cbs : cbs = Now(t).cbs
  OBVIOUS
<1>2. PICK first : /\ Goes(t, first)
                   /\ \/ Leaves(t, first, cbs) \/ PassesOn(t, first, cbs)
                      \/ Sends(t, first, cbs)
  BY <1>1, FlushPendingSteps
<1>3. tasks' = tasks /\ env' = env /\ writers' = writers
  BY <1>1, FlushPendingSteps
<1>4. arb'.reservations = arb.reservations /\ arb'.fully_bound = arb.fully_bound
  <2>1. CASE Leaves(t, first, cbs)
    BY <2>1, <1>0 DEF Leaves, Shapes
  <2>2. CASE PassesOn(t, first, cbs)
    BY <2>2 DEF PassesOn
  <2>3. CASE Sends(t, first, cbs)
    BY <2>3, <1>0 DEF Sends, Shapes
  <2> QED BY <1>2, <2>1, <2>2, <2>3
<1>5. \A x \in Elems(first) : x.do # "abort" /\ (x.do = "post" => x.task.do # "abort")
  <2>1. CASE Leaves(t, first, cbs)
    BY <2>1 DEF Leaves
  <2>2. CASE PassesOn(t, first, cbs)
    <3>1. PICK x : x = Post(Flush(cbs)) /\ first = <<x>> /\ x.do = "post" /\ x.task.do = "flush"
      BY <2>2, PostKind, FlushKind DEF PassesOn
    <3>2. Elems(first) = {x}
      BY <3>1, ShortSeqs
    <3> QED BY <3>1, <3>2
  <2>3. CASE Sends(t, first, cbs)
    <3>1. CASE first = <<>>
      BY <3>1, ShortSeqs
    <3>2. CASE first # <<>>
      <4>1. PICK x : x = Commit(ToSend, cbs) /\ first = <<x>> /\ x.do = "commit"
        BY <2>3, <3>2, CommitKind DEF Sends
      <4>2. Elems(first) = {x}
        BY <4>1, ShortSeqs
      <4> QED BY <4>1, <4>2
    <3> QED BY <3>1, <3>2
  <2> QED BY <1>2, <2>1, <2>2, <2>3
<1> QED BY <1>2, <1>3, <1>4, <1>5, PlainBinding

LEMMA OtherBinding ==
  ASSUME ThreadInv, Binding, NEW t \in Threads,
         \/ NotifyFlushComplete(t) \/ FlushWriter(t) \/ PostTask(t) \/ CallEndpoint(t)
  PROVE  Binding' /\ SettledKept
<1>0. Shapes /\ WriterShapes
  BY DEF ThreadInv, WakeInv, Order
<1>1. CASE NotifyFlushComplete(t)
  <2>1. PICK first : Goes(t, first) /\ \A x \in Elems(first) : x = Post(Flush({}))
    BY <1>1, NotifyFlushCompleteSteps
  <2>2. \A x \in Elems(first) : x.do = "post" /\ x.task.do = "flush"
    BY <2>1, PostKind, FlushKind
  <2>3. /\ tasks' = tasks /\ arb'.reservations = arb.reservations
        /\ arb'.fully_bound = arb.fully_bound /\ writers' = writers
    BY <1>1, NotifyFlushCompleteSteps
  <2>4. PICK a : env' = [env EXCEPT !.asked = a]
    BY <1>1, Zenon DEF NotifyFlushComplete
  <2>5. env'.claimed = env.claimed
    BY <1>0, <2>4 DEF WriterShapes
  <2> QED BY <2>1, <2>2, <2>3, <2>5, PlainBinding
<1>2. CASE FlushWriter(t)
  <2>1. PICK w \in DOMAIN writers : \E first, cb : FlushedFor(t, w, first, cb)
    BY <1>2, FlushWriterSteps
  <2>2. PICK first, cb : /\ Goes(t, first)
                         /\ Elems(first) = Elems(ReturnCurrent(w)) \cup {Flush({cb})}
    BY <2>1 DEF FlushedFor
  <2>3. \A x \in Elems(ReturnCurrent(w)) : x.do = "return"
    BY ReturnCurrentFacts, ReturnKind
  <2>4. \A x \in Elems(first) : x.do \in {"return", "flush"}
    BY <2>2, <2>3, FlushKind
  <2>5. arb' = arb /\ tasks' = tasks /\ env' = [env EXCEPT !.flushes = @ + 1] /\ Edited
    BY <1>2, FlushWriterSteps
  <2>6. /\ env'.claimed = env.claimed /\ DOMAIN writers' = DOMAIN writers
        /\ \A v \in DOMAIN writers : writers'[v].target = writers[v].target
    BY <1>0, <2>5 DEF WriterShapes, Edited
  <2> QED BY <2>2, <2>4, <2>5, <2>6, PlainBinding
<1>3. CASE PostTask(t)
  <2>1. PICK e : Goes(t, e) /\ Elems(e) = {}
    BY <1>3, PostTaskSteps
  <2>2. /\ todo[t] # <<>> /\ Now(t).do = "post" /\ tasks' = Append(tasks, Now(t).task)
        /\ arb' = arb /\ writers' = writers /\ env' = env
    BY <1>3, PostTaskSteps
  <2>3. Elems(tasks') = Elems(tasks) \cup {Now(t).task}
    BY <1>0, <2>2, AppendSeq DEF Shapes
  <2> QED BY <2>1, <2>2, <2>3, PlainBinding
<1>4. CASE CallEndpoint(t)
  <2>1. PICK e : Goes(t, e) /\ Elems(e) = {}
    BY <1>4, CallEndpointSteps
  <2>2. arb' = arb /\ writers' = writers /\ env' = env /\ tasks' = tasks
    BY <1>4, CallEndpointSteps
  <2> QED BY <2>1, <2>2, PlainBinding
<1> QED BY <1>1, <1>2, <1>3, <1>4

LEMMA TaskBinding ==
  ASSUME ThreadInv, Binding, RunTask \/ RunCallback \/ ServiceStep
  PROVE  Binding' /\ SettledKept
<1>0. Shapes /\ IPC \in Threads
  BY ArbiterConstants DEF ThreadInv, WakeInv
<1>1. CASE RunTask
  <2>1. /\ tasks # <<>> /\ tasks' = Tail(tasks) /\ Goes(IPC, <<Head(tasks)>>)
        /\ Head(tasks) \in Elems(tasks) /\ arb' = arb /\ writers' = writers /\ env' = env
    BY <1>1, RunTaskSteps
  <2>2. PICK x : x = Head(tasks)
    OBVIOUS
  <2>3. PICK first : first = <<x>> /\ Goes(IPC, first) /\ Elems(first) = {x}
    BY <2>1, <2>2, ShortSeqs
  <2>4. Elems(tasks') \subseteq Elems(tasks) /\ x \in Elems(tasks)
    BY <1>0, <2>1, <2>2, TailSeq DEF Shapes
  <2>5. x.do # "post"
    BY <2>4 DEF ThreadInv, Order, Division, TaskKinds, PostKinds
  <2>6. arb' = arb /\ writers' = writers /\ env' = env
    BY <2>1
  <2>7. \A y \in Elems(first) : /\ y.do = "abort" => y \in Elems(tasks)
                                /\ y.do = "post" => y.task.do # "abort"
    BY <2>3, <2>4, <2>5
  <2>8. Goes(IPC, first)
    BY <2>3
  <2> QED BY <1>0, <2>4, <2>6, <2>7, <2>8, PlainBinding
<1>2. CASE RunCallback
  <2>1. PICK e : Goes(IPC, e) /\ Elems(e) = {}
    BY <1>2, RunCallbackSteps
  <2>2. arb' = arb /\ writers' = writers /\ env' = env /\ tasks' = tasks
    BY <1>2, RunCallbackSteps
  <2> QED BY <1>0, <2>1, <2>2, PlainBinding
<1>3. CASE ServiceStep
  <2>1. PICK m : m = Head(service.inbox)
    OBVIOUS
  <2>2. arb' = arb /\ writers' = writers /\ env' = env /\ todo' = todo
    BY <1>3, <2>1, ServiceSteps
  <2>3. tasks' = tasks \/ tasks' = Append(tasks, Callback(m.cbs))
    <3>1. (m.do # "commit" => tasks' = tasks) /\ (m.do = "commit" => ServiceCommit(m))
      BY <1>3, <2>1, ServiceSteps
    <3>2. ServiceCommit(m) => tasks' = tasks \/ tasks' = Append(tasks, Callback(m.cbs))
      BY DEF ServiceCommit
    <3> QED BY <3>1, <3>2
  <2>4. \A x \in Elems(tasks') : x.do = "abort" => x \in Elems(tasks)
    <3>1. CASE tasks' = tasks
      BY <3>1
    <3>2. CASE tasks' = Append(tasks, Callback(m.cbs))
      <4>1. Elems(tasks') = Elems(tasks) \cup {Callback(m.cbs)}
        BY <3>2, <1>0, AppendSeq DEF Shapes
      <4>2. Callback(m.cbs).do = "callback"
        BY DEF Callback
      <4> QED BY <4>1, <4>2
    <3> QED BY <2>3, <3>1, <3>2
  <2>5. \A r \in Reservations : Aborting(r)' => Aborting(r)
    BY <2>2, <2>4 DEF Aborting, Aborts
  <2> QED BY <2>2, <2>5, BindingFrame
<1> QED BY <1>1, <1>2, <1>3

(* A new writer makes a reservation known that was not settled.            *)
LEMMA CreateBinding ==
  ASSUME ThreadInv, Binding, NEW t \in Threads, NEW b \in Buffers \cup Reservations,
         CreateTraceWriter(t, b)
  PROVE  Binding' /\ SettledKept
<1> DEFINE id == Allocate
           target == TargetFor(b)
           startup == IsReservation(target)
           steps == IF startup \/ target = kInvalidBufferId THEN <<>>
                    ELSE <<Post(Register({[id |-> id, target |-> target]}))>>
<1>0. Shapes /\ WriterShapes /\ todo[t] = <<>> /\ tasks' = tasks
  BY DEF ThreadInv, WakeInv, Order, CreateTraceWriter, Idle
<1>1. PICK new : writers' = Append(writers, new) /\ new.target = target
  BY DEF CreateTraceWriter
<1>2. PICK ids, last, pending :
        arb' = [arb EXCEPT !.ids = ids, !.last_id = last, !.pending = pending,
                           !.reservations =
                             IF startup THEN [@ EXCEPT ![target] = Unresolved] ELSE @,
                           !.fully_bound = @ /\ ~startup,
                           !.was_always_bound = @ /\ ~startup]
  BY Zenon DEF CreateTraceWriter
<1>3. PICK overtaken : env' = [env EXCEPT !.overtaken = overtaken]
  BY Zenon DEF CreateTraceWriter
<1>4. todo' = [todo EXCEPT ![t] = steps]
  BY DEF CreateTraceWriter, Start
<1>5. startup => target \in Reservations /\ arb.reservations[target] \notin Ids
  <2>1. Ids \cap Reservations = {}
    BY ArbiterConstants DEF Ids
  <2>2. Absent \notin Ids /\ Unresolved \notin Ids
    BY ArbiterConstants DEF Ids, Absent, Unresolved, kInvalidBufferId
  <2>3. arb.reservations \in [Reservations -> Ids \cup {Absent, Unresolved}]
    BY <1>0 DEF WriterShapes
  <2>4. CASE b \in Reservations /\ arb.reservations[b] \notin {Absent, Unresolved}
    BY <2>1, <2>3, <2>4 DEF TargetFor, IsReservation
  <2>5. CASE ~(b \in Reservations /\ arb.reservations[b] \notin {Absent, Unresolved})
    <3>1. target = b
      BY <2>5 DEF TargetFor, IsReservation
    <3> QED BY <2>2, <2>5, <3>1 DEF IsReservation
  <2> QED BY <2>4, <2>5
<1>6. IsSeq(steps) /\ \A x \in Elems(steps) : x.do = "post" /\ x.task.do = "register"
  <2>1. CASE startup \/ target = kInvalidBufferId
    BY <2>1, ShortSeqs
  <2>2. CASE ~(startup \/ target = kInvalidBufferId)
    <3>1. PICK ws : steps = <<Post(Register(ws))>>
      BY <2>2
    <3>2. Register(ws).do = "register"
      BY DEF Register
    <3> QED BY <3>1, <3>2, ShortSeqs, PostKind
  <2> QED BY <2>1, <2>2
<1>7. target \in Reservations <=> startup
  BY DEF IsReservation
<1> HIDE DEF id, target, startup, steps
<1>8. /\ arb'.reservations = IF startup THEN [arb.reservations EXCEPT ![target] = Unresolved]
                             ELSE arb.reservations
      /\ arb'.fully_bound => arb.fully_bound /\ ~startup
  BY <1>0, <1>2 DEF Shapes
<1>9. env'.claimed = env.claimed
  BY <1>0, <1>3 DEF WriterShapes
<1>10. Goes(t, steps)
  BY <1>0, <1>4, <1>6, StartGoes
<1>11. \A r \in Reservations : Aborting(r)' => Aborting(r)
  BY <1>0, <1>6, <1>10, AbortingStep
<1>12. \A r \in Reservations :
         \/ arb'.reservations[r] = arb.reservations[r]
         \/ /\ startup /\ r = target /\ arb.reservations[r] \notin Ids
            /\ arb'.reservations[r] = Unresolved
  BY <1>0, <1>5, <1>8 DEF WriterShapes
<1>13. Unresolved \notin Ids /\ Unresolved # Absent /\ Unresolved \notin Buffers
  BY ArbiterConstants DEF Ids, Absent, Unresolved, kInvalidBufferId
<1>14. \A w \in DOMAIN writers' : \/ w \in DOMAIN writers /\ writers'[w] = writers[w]
                                  \/ writers'[w].target = target
  <2>1. /\ Len(writers) \in Nat
        /\ DOMAIN writers = 1 .. Len(writers) /\ DOMAIN writers' = 1 .. Len(writers) + 1
        /\ \A v \in DOMAIN writers : writers'[v] = writers[v]
        /\ writers'[Len(writers) + 1] = new
    BY <1>0, <1>1, AppendSeq DEF WriterShapes
  <2> QED BY <2>1, <1>1
<1>15. arb'.fully_bound => Resolved(arb')
  BY <1>8 DEF Binding, Resolved
<1>16. \A w \in DOMAIN writers' : writers'[w].target \in Reservations
         => arb'.reservations[writers'[w].target] # Absent
  <2>1. startup => arb'.reservations[target] = Unresolved
    BY <1>0, <1>5, <1>8 DEF WriterShapes
  <2> QED BY <2>1, <1>7, <1>12, <1>13, <1>14 DEF Binding
<1>17. \A r \in Reservations : arb'.reservations[r] \in Ids => r \in env'.claimed
  BY <1>9, <1>12, <1>13 DEF Binding
<1>18. \A r \in Reservations : Aborting(r)'
         => r \in env'.claimed /\ arb'.reservations[r] \notin Buffers
  BY <1>9, <1>11, <1>12, <1>13 DEF Binding
<1>19. SettledKept
  BY <1>12 DEF SettledKept
<1> QED BY <1>15, <1>16, <1>17, <1>18, <1>19 DEF Binding

(* A reservation r that was not settled gets the value b.                  *)
LEMMA SettleBinding ==
  ASSUME ThreadInv, Binding, NEW r, NEW b \in Ids, BindStep,
         arb'.reservations = [arb.reservations EXCEPT ![r] = b],
         arb'.fully_bound => Resolved(arb'),
         r \in Reservations => r \in env'.claimed,
         env.claimed \subseteq env'.claimed,
         r \in Reservations => \/ r \notin env.claimed
                               \/ b = kInvalidBufferId /\ Aborting(r)
  PROVE  Binding' /\ SettledKept
<1>0. Shapes /\ WriterShapes
  BY DEF ThreadInv, WakeInv, Order
<1>1. PICK t \in Threads : \E first : Binds(t, first)
  BY DEF BindStep
<1>2. PICK first : Binds(t, first)
  BY <1>1
<1>3. Goes(t, first) /\ tasks' = tasks /\ writers' = writers
  BY <1>2 DEF Binds
<1>4. \A x \in Elems(first) : x.do # "abort" /\ x.do # "post"
  BY <1>2 DEF Binds
<1>5. \A q \in Reservations : Aborting(q)' => Aborting(q)
  BY <1>0, <1>3, <1>4, AbortingStep
<1>6. \A q \in Reservations : \/ q # r /\ arb'.reservations[q] = arb.reservations[q]
                              \/ q = r /\ arb'.reservations[q] = b
  BY <1>0 DEF WriterShapes
<1>7. Absent \notin Ids /\ kInvalidBufferId \notin Buffers
  BY ArbiterConstants DEF Ids, Absent, kInvalidBufferId
<1>8. \A w \in DOMAIN writers' : writers'[w].target \in Reservations
         => arb'.reservations[writers'[w].target] # Absent
  BY <1>3, <1>6, <1>7 DEF Binding
<1>9. \A q \in Reservations : arb'.reservations[q] \in Ids => q \in env'.claimed
  BY <1>6 DEF Binding
<1>10. \A q \in Reservations : Aborting(q)'
         => q \in env'.claimed /\ arb'.reservations[q] \notin Buffers
  BY <1>5, <1>6, <1>7 DEF Binding
<1>11. SettledKept
  <2>1. SUFFICES ASSUME NEW q \in Reservations, arb.reservations[q] \in Ids
                 PROVE  arb'.reservations[q] = arb.reservations[q]
    BY DEF SettledKept
  <2>2. CASE q # r
    BY <2>2, <1>6
  <2>3. CASE q = r
    <3>1. b = kInvalidBufferId /\ Aborting(r)
      BY <2>1, <2>3 DEF Binding
    <3>2. arb.reservations[q] \notin Buffers
      BY <2>3, <3>1 DEF Binding
    <3> QED BY <2>1, <2>3, <3>1, <3>2, <1>6 DEF Ids
  <2> QED BY <2>2, <2>3
<1> QED BY <1>8, <1>9, <1>10, <1>11 DEF Binding

LEMMA AbortPostBinding ==
  ASSUME ThreadInv, Binding, NEW t \in Threads, NEW r \in Reservations,
         AbortStartupTracingForReservation(t, r), MustPostAbort(t)
  PROVE  Binding' /\ SettledKept
<1>0. /\ Shapes /\ WriterShapes /\ arb' = arb /\ tasks' = tasks /\ writers' = writers
      /\ r \notin env.claimed
  BY DEF ThreadInv, WakeInv, Order, AbortStartupTracingForReservation
<1>1. Goes(t, <<Post(Abort(r))>>) /\ env' = [env EXCEPT !.claimed = @ \cup {r}]
  BY AbortPostNeutral
<1>2. PICK x : x = Post(Abort(r)) /\ x.do = "post" /\ x.task.do = "abort" /\ x.task.r = r
  <2>1. Abort(r).do = "abort" /\ Abort(r).r = r
    BY DEF Abort
  <2> QED BY <2>1, PostKind
<1>3. PICK first : Goes(t, first) /\ Elems(first) = {x}
  BY <1>1, <1>2, ShortSeqs
<1>4. env'.claimed = env.claimed \cup {r}
  BY <1>0, <1>1 DEF WriterShapes
<1>5. ASSUME NEW q \in Reservations, Aborting(q)' PROVE Aborting(q) \/ q = r
  <2>1. /\ \A u \in Threads \ {t} : todo'[u] = todo[u]
        /\ Elems(todo'[t]) = Elems(first) \cup Elems(Rest(t))
        /\ Elems(Rest(t)) \subseteq Elems(todo[t])
    BY <1>0, <1>3, GoesFacts
  <2>2. CASE \E y \in Elems(tasks') : Aborts(y, q)
    BY <2>2, <1>0 DEF Aborting
  <2>3. ASSUME NEW u \in Threads, NEW y \in Elems(todo'[u]),
               Aborts(y, q) \/ (y.do = "post" /\ Aborts(y.task, q))
        PROVE  Aborting(q) \/ q = r
    <3>1. CASE y \in Elems(todo[u])
      BY <2>3, <3>1 DEF Aborting
    <3>2. CASE y = x
      BY <2>3, <3>2, <1>2 DEF Aborts
    <3> QED BY <2>1, <2>3, <3>1, <3>2, <1>3
  <2> QED BY <1>5, <2>2, <2>3 DEF Aborting
<1>6. arb.reservations[r] \notin Buffers
  BY <1>0 DEF Binding, Ids
<1> QED BY <1>0, <1>4, <1>5, <1>6 DEF Binding, SettledKept

LEMMA NextBinding ==
  ASSUME ThreadInv, Binding, [Next]_vars
  PROVE  Binding' /\ SettledKept
<1>0. Shapes /\ WriterShapes /\ kInvalidBufferId \in Ids /\ Buffers \subseteq Ids
  BY DEF ThreadInv, WakeInv, Order, Ids
<1>1. ASSUME NEW t \in Threads, NEW r \in Reservations, AbortStartupTracingForReservation(t, r)
      PROVE  Binding' /\ SettledKept
  <2>1. CASE MustPostAbort(t)
    BY <1>1, <2>1, AbortPostBinding
  <2>2. CASE ~MustPostAbort(t)
    <3>1. /\ BindStep /\ Claim(r) /\ r \notin env.claimed
          /\ arb'.reservations = [arb.reservations EXCEPT ![r] = kInvalidBufferId]
          /\ arb'.fully_bound => Resolved(arb')
      BY <1>1, <2>2, AbortBindSteps
    <3>2. env'.claimed = env.claimed \cup {r}
      BY <1>0, <3>1, ClaimKeeps
    <3> QED BY <1>0, <3>1, <3>2, SettleBinding
  <2> QED BY <2>1, <2>2
<1>2. ASSUME NEW r \in Reservations, NEW b \in Buffers, BindStartupTargetBuffer(r, b)
      PROVE  Binding' /\ SettledKept
  <2>1. /\ BindStep /\ Claim(r) /\ r \notin env.claimed
        /\ arb'.reservations = [arb.reservations EXCEPT ![r] = b]
        /\ arb'.fully_bound => Resolved(arb')
    BY <1>2, BindStartupTargetBufferSteps
  <2>2. env'.claimed = env.claimed \cup {r} /\ b \in Ids
    BY <1>0, <2>1, ClaimKeeps
  <2> QED BY <2>1, <2>2, SettleBinding
<1>3. ASSUME RunAbort PROVE Binding' /\ SettledKept
  <2>1. /\ BindStep /\ env' = env /\ todo[IPC] # <<>> /\ Now(IPC).do = "abort"
        /\ arb'.reservations = [arb.reservations EXCEPT ![Now(IPC).r] = kInvalidBufferId]
        /\ arb'.fully_bound => Resolved(arb')
    BY <1>3, RunAbortSteps
  <2>2. PICK r : r = Now(IPC).r
    OBVIOUS
  <2>3. Now(IPC) \in Elems(todo[IPC]) /\ IPC \in Threads
    BY <1>0, <2>1, ArbiterConstants, TailSeq DEF Shapes, Now
  <2>4. Aborting(r)
    BY <2>1, <2>2, <2>3 DEF Aborting, Aborts
  <2>5. r \in Reservations => r \in env.claimed
    BY <2>4 DEF Binding
  <2>6. /\ BindStep /\ env' = env /\ (arb'.fully_bound => Resolved(arb'))
        /\ arb'.reservations = [arb.reservations EXCEPT ![r] = kInvalidBufferId]
    BY <2>1, <2>2
  <2> QED BY <1>0, <2>4, <2>5, <2>6, SettleBinding
<1>4. ASSUME BindToProducerEndpoint PROVE Binding' /\ SettledKept
  <2>1. /\ BindStep /\ arb'.reservations = arb.reservations /\ env' = env
        /\ arb'.fully_bound => Resolved(arb')
    BY <1>4, BindToProducerEndpointSteps
  <2>2. PICK t \in Threads : \E first : Binds(t, first)
    BY <2>1 DEF BindStep
  <2>3. PICK first : Binds(t, first)
    BY <2>2
  <2>4. Goes(t, first) /\ tasks' = tasks /\ writers' = writers
    BY <2>3 DEF Binds
  <2>5. \A x \in Elems(first) : x.do # "abort" /\ x.do # "post"
    BY <2>3 DEF Binds
  <2>6. \A q \in Reservations : Aborting(q)' => Aborting(q)
    BY <1>0, <2>4, <2>5, AbortingStep
  <2> QED BY <2>1, <2>4, <2>6 DEF Binding, SettledKept
<1>5. ASSUME NEW t \in Threads, ReturnCompletedChunk(t) PROVE Binding' /\ SettledKept
  <2>1. PICK w : w = Now(t).w
    OBVIOUS
  <2>2. Updates(t, w, 1)
    BY <1>5, <2>1, ReturnCompletedChunkSteps
  <2> QED BY <2>2, UpdatesBinding
<1>6. ASSUME NEW t \in Threads, SendPatches(t) PROVE Binding' /\ SettledKept
  <2>1. PICK w \in DOMAIN writers : Updates(t, w, 0)
    BY <1>6, SendPatchesSteps
  <2> QED BY <2>1, UpdatesBinding
<1>7. ASSUME UNCHANGED vars PROVE Binding' /\ SettledKept
  BY <1>7 DEF vars, Binding, SettledKept, Resolved, Aborting
<1>8. ASSUME NEW t \in Threads, Call(t) PROVE Binding' /\ SettledKept
  BY <1>1, <1>6, <1>8, CreateBinding, DestroyTraceWriterNeutral, GetNewChunkNeutral,
     GetNewChunkExhaustedNeutral, FinalizeNestedNeutral, QuietBinding, OtherBinding DEF Call
<1>9. ASSUME NEW t \in Threads, Step(t) PROVE Binding' /\ SettledKept
  BY <1>5, <1>9, ReleaseWriterIDNeutral, RetryGetNewChunkNeutral, PostDelayedTaskNeutral,
     FlushPendingBinding, QuietBinding, OtherBinding DEF Step
<1>10. ASSUME Bind PROVE Binding' /\ SettledKept
  BY <1>2, <1>4, <1>10, QuietNeutral, QuietBinding DEF Bind
<1>11. ASSUME TaskRunner PROVE Binding' /\ SettledKept
  BY <1>3, <1>11, RunDelayedTaskNeutral, ClearDelayedNeutral, QuietBinding, TaskBinding
  DEF TaskRunner
<1> QED BY <1>7, <1>8, <1>9, <1>10, <1>11, TaskBinding DEF Next

(***************************************************************************)
(* Lists of chunks                                                         *)
(***************************************************************************)
(* Two lists of the same chunks, whatever is known of each.                *)
Alike(a, b) ==
  /\ IsSeq(a) /\ IsSeq(b) /\ DOMAIN a = DOMAIN b
  /\ \A i \in DOMAIN a : /\ DOMAIN a[i] = DOMAIN b[i]
                         /\ a[i].w = b[i].w /\ a[i].n = b[i].n
AlikeIn(a, b) == Alike(a, b) /\ \A i \in DOMAIN a : a[i].target = b[i].target

LEMMA AlikeLists ==
  ASSUME NEW a, NEW b, Alike(a, b)
  PROVE  /\ Alike(b, a)
         /\ \A ws : Entries(ws, a) => Entries(ws, b)
         /\ Increasing(a) => Increasing(b)
         /\ \A m : Before(a, m) => Before(b, m)
         /\ \A m : Before(m, a) => Before(m, b)
         /\ \A w, n : Has(a, w, n) => Has(b, w, n)
<1>1. \A ws : Entries(ws, a) => Entries(ws, b)
  BY DEF Alike, Entries, Entry
<1>2. Increasing(a) => Increasing(b)
  BY DEF Alike, Increasing
<1>3. \A m : (Before(a, m) => Before(b, m)) /\ (Before(m, a) => Before(m, b))
  BY DEF Alike, Before
<1>4. \A w, n : Has(a, w, n) => Has(b, w, n)
  BY DEF Alike, Has
<1> QED BY <1>1, <1>2, <1>3, <1>4 DEF Alike

(* One list after another.                                                 *)
Joins(c, a, b) ==
  /\ IsSeq(c) /\ Len(a) \in Nat
  /\ \A i \in DOMAIN c : (i \in DOMAIN a /\ c[i] = a[i])
       \/ \E j \in DOMAIN b : i = Len(a) + j /\ c[i] = b[j]
  /\ \A i \in DOMAIN a : i \in DOMAIN c /\ c[i] = a[i]
  /\ \A j \in DOMAIN b : Len(a) + j \in DOMAIN c /\ c[Len(a) + j] = b[j]
  /\ \A i \in DOMAIN a : i \in 1 .. Len(a)
  /\ \A j \in DOMAIN b : j \in Nat \ {0}

LEMMA JoinedLists ==
  ASSUME NEW a, NEW b, IsSeq(a), IsSeq(b)
  PROVE  Joins(a \o b, a, b)
<1>0. PICK c : c = a \o b
  OBVIOUS
<1>1. /\ IsSeq(c) /\ Len(a) \in Nat /\ Len(b) \in Nat
      /\ DOMAIN a = 1 .. Len(a) /\ DOMAIN b = 1 .. Len(b)
      /\ DOMAIN c = 1 .. Len(a) + Len(b)
      /\ \A i \in DOMAIN a : c[i] = a[i]
      /\ \A i \in DOMAIN b : c[Len(a) + i] = b[i]
  BY <1>0, ConcatSeq
<1>2. ASSUME NEW i \in DOMAIN c
      PROVE  (i \in DOMAIN a /\ c[i] = a[i])
              \/ \E j \in DOMAIN b : i = Len(a) + j /\ c[i] = b[j]
  <2>1. CASE i \in 1 .. Len(a)
    BY <1>1, <2>1
  <2>2. CASE i \notin 1 .. Len(a)
    <3>1. PICK j : j = i - Len(a)
      OBVIOUS
    <3>2. j \in 1 .. Len(b) /\ i = Len(a) + j
      BY <1>1, <1>2, <2>2, <3>1
    <3> QED BY <1>1, <3>2
  <2> QED BY <2>1, <2>2
<1>3. \A i \in DOMAIN a : i \in DOMAIN c
  BY <1>1
<1>4. \A j \in DOMAIN b : Len(a) + j \in DOMAIN c /\ j \in Nat \ {0}
  BY <1>1
<1>5. \A i \in DOMAIN a : i \in 1 .. Len(a)
  BY <1>1
<1>6. Joins(c, a, b)
  BY <1>1, <1>2, <1>3, <1>4, <1>5 DEF Joins
<1> QED BY <1>0, <1>6

LEMMA JoinedEntries ==
  ASSUME NEW ws, NEW a, NEW b, Entries(ws, a), Entries(ws, b), NEW c, Joins(c, a, b)
  PROVE  /\ Entries(ws, c)
         /\ Increasing(a) /\ Increasing(b) /\ Before(a, b) => Increasing(c)
         /\ \A m : Before(a, m) /\ Before(b, m) => Before(c, m)
         /\ \A m : Before(m, a) /\ Before(m, b) => Before(m, c)
         /\ \A w, n : Has(c, w, n) <=> Has(a, w, n) \/ Has(b, w, n)
<1>1. /\ IsSeq(c)
      /\ \A i \in DOMAIN c : (i \in DOMAIN a /\ c[i] = a[i])
           \/ \E j \in DOMAIN b : i = Len(a) + j /\ c[i] = b[j]
      /\ \A i \in DOMAIN a : i \in DOMAIN c /\ c[i] = a[i]
      /\ \A j \in DOMAIN b : Len(a) + j \in DOMAIN c /\ c[Len(a) + j] = b[j]
      /\ \A i \in DOMAIN a : i \in 1 .. Len(a)
      /\ \A j \in DOMAIN b : j \in Nat \ {0}
      /\ Len(a) \in Nat
  BY DEF Joins
<1>2. Entries(ws, c)
  BY <1>1 DEF Entries
<1>3. ASSUME Increasing(a), Increasing(b), Before(a, b) PROVE Increasing(c)
  <2>1. SUFFICES ASSUME NEW i \in DOMAIN c, NEW j \in DOMAIN c, i < j, c[i].w = c[j].w
                 PROVE  c[i].n < c[j].n
    BY DEF Increasing
  <2>2. CASE i \in DOMAIN a /\ c[i] = a[i] /\ j \in DOMAIN a /\ c[j] = a[j]
    BY <2>1, <2>2, <1>3 DEF Increasing
  <2>3. CASE i \in DOMAIN a /\ c[i] = a[i] /\ \E k \in DOMAIN b : c[j] = b[k]
    BY <2>1, <2>3, <1>3 DEF Before
  <2>4. ASSUME NEW k \in DOMAIN b, i = Len(a) + k, c[i] = b[k] PROVE c[i].n < c[j].n
    <3>1. j \notin DOMAIN a
      BY <1>1, <2>1, <2>4
    <3>2. PICK l \in DOMAIN b : j = Len(a) + l /\ c[j] = b[l]
      BY <1>1, <3>1
    <3>3. k < l
      BY <1>1, <2>1, <2>4, <3>2
    <3> QED BY <2>1, <2>4, <3>2, <3>3, <1>3 DEF Increasing
  <2> QED BY <1>1, <2>2, <2>3, <2>4
<1>4. ASSUME NEW m, Before(a, m), Before(b, m) PROVE Before(c, m)
  <2>1. SUFFICES ASSUME NEW i \in DOMAIN c, NEW j \in DOMAIN m, c[i].w = m[j].w
                 PROVE  c[i].n < m[j].n
    BY DEF Before
  <2>2. CASE i \in DOMAIN a /\ c[i] = a[i]
    BY <1>4, <2>1, <2>2 DEF Before
  <2>3. CASE \E k \in DOMAIN b : c[i] = b[k]
    BY <1>4, <2>1, <2>3 DEF Before
  <2> QED BY <1>1, <2>2, <2>3
<1>5. \A m : Before(m, a) /\ Before(m, b) => Before(m, c)
  BY <1>1 DEF Before
<1>6. ASSUME NEW w, NEW n PROVE Has(c, w, n) <=> Has(a, w, n) \/ Has(b, w, n)
  <2>1. Has(a, w, n) \/ Has(b, w, n) => Has(c, w, n)
    BY <1>1 DEF Has
  <2>2. ASSUME NEW i \in DOMAIN c, c[i].w = w /\ c[i].n = n
        PROVE  Has(a, w, n) \/ Has(b, w, n)
    <3>1. CASE i \in DOMAIN a /\ c[i] = a[i]
      BY <2>2, <3>1 DEF Has
    <3>2. CASE \E k \in DOMAIN b : c[i] = b[k]
      BY <2>2, <3>2 DEF Has
    <3> QED BY <1>1, <3>1, <3>2
  <2> QED BY <2>1, <2>2 DEF Has
<1> QED BY <1>2, <1>3, <1>4, <1>5, <1>6

(* The commits among the messages when one is added or taken.              *)
Adds(more, wire, x) ==
  /\ IsSeq(more) /\ Len(wire) \in Nat
  /\ \A i \in SentIn(wire) : i \in SentIn(more) /\ more[i] = wire[i]
  /\ \A i \in SentIn(more) : \/ i \in SentIn(wire) /\ more[i] = wire[i]
                             \/ x.do = "commit" /\ i = Len(wire) + 1 /\ more[i] = x
  /\ x.do = "commit" => Len(wire) + 1 \in SentIn(more) /\ more[Len(wire) + 1] = x
  /\ \A i \in SentIn(wire) : i \in 1 .. Len(wire)
Takes(less, wire, x) ==
  /\ IsSeq(less) /\ x = wire[1] /\ (1 \in SentIn(wire) <=> x.do = "commit")
  /\ \A i \in SentIn(less) : i + 1 \in SentIn(wire) /\ less[i] = wire[i + 1]
  /\ \A i \in SentIn(wire) : i = 1 \/ (i - 1 \in SentIn(less) /\ wire[i] = less[i - 1])
  /\ \A i \in SentIn(less) : i \in Nat \ {0}

LEMMA SentAppend ==
  ASSUME NEW wire, IsSeq(wire), NEW x
  PROVE  Adds(Append(wire, x), wire, x)
<1>0. PICK more : more = Append(wire, x)
  OBVIOUS
<1>1. /\ IsSeq(more) /\ Len(wire) \in Nat /\ DOMAIN wire = 1 .. Len(wire)
      /\ DOMAIN more = 1 .. Len(wire) + 1
      /\ \A i \in DOMAIN wire : more[i] = wire[i]
      /\ more[Len(wire) + 1] = x
  BY <1>0, AppendSeq
<1>2. \A i \in DOMAIN more : i \in DOMAIN wire \/ i = Len(wire) + 1
  BY <1>1
<1>3. Len(wire) + 1 \in DOMAIN more /\ \A i \in DOMAIN wire : i \in DOMAIN more
  BY <1>1
<1>4. Adds(more, wire, x)
  BY <1>1, <1>2, <1>3 DEF SentIn, Adds
<1> QED BY <1>0, <1>4

LEMMA SentTail ==
  ASSUME NEW wire, IsSeq(wire), wire # <<>>
  PROVE  Takes(Tail(wire), wire, Head(wire))
<1>0. PICK less, x : less = Tail(wire) /\ x = Head(wire)
  OBVIOUS
<1>1. /\ IsSeq(less) /\ Len(wire) \in Nat \ {0}
      /\ DOMAIN wire = 1 .. Len(wire) /\ DOMAIN less = 1 .. Len(wire) - 1
      /\ x = wire[1]
      /\ \A i \in DOMAIN less : i + 1 \in DOMAIN wire /\ less[i] = wire[i + 1]
      /\ \A i \in DOMAIN wire : i # 1 => i - 1 \in DOMAIN less /\ wire[i] = less[i - 1]
  BY <1>0, TailSeq
<1>2. 1 \in DOMAIN wire /\ \A i \in DOMAIN less : i \in Nat \ {0}
  BY <1>1
<1>3. Takes(less, wire, x)
  BY <1>1, <1>2 DEF SentIn, Takes
<1> QED BY <1>0, <1>3

(* The flow when the request is known differently.                         *)
LEMMA FlowAlike ==
  ASSUME NEW ws, NEW landed, NEW wire, NEW a, Flow(ws, landed, wire, a), NEW b, Alike(a, b)
  PROVE  Flow(ws, landed, wire, b)
<1>1. /\ Entries(ws, b) /\ Increasing(b)
      /\ \A m : Before(m, a) => Before(m, b)
      /\ \A w, n : Has(a, w, n) => Has(b, w, n)
  BY AlikeLists DEF Flow, Lists
<1>2. Lists(ws, landed, wire, b)
  BY <1>1 DEF Flow, Lists
<1>3. InTurn(landed, wire, b)
  BY <1>1 DEF Flow, InTurn
<1>4. Everything(ws, landed, wire, b)
  BY <1>1 DEF Flow, Everything, Somewhere
<1> QED BY <1>2, <1>3, <1>4 DEF Flow

(* ... when there are new writers, which have returned nothing.            *)
LEMMA FlowWriters ==
  ASSUME NEW ws, NEW landed, NEW wire, NEW move, Flow(ws, landed, wire, move), NEW more,
         DOMAIN ws \subseteq DOMAIN more,
         \A w \in DOMAIN ws : more[w].returned = ws[w].returned,
         \A w \in DOMAIN more \ DOMAIN ws : more[w].returned = 0
  PROVE  Flow(more, landed, wire, move)
<1>1. \A list : Entries(ws, list) => Entries(more, list)
  BY DEF Entries, Entry
<1>2. Lists(more, landed, wire, move)
  BY <1>1 DEF Flow, Lists
<1>3. ASSUME NEW w \in DOMAIN more, NEW n \in 1 .. more[w].returned
      PROVE  Somewhere(landed, wire, move, w, n)
  <2>1. w \in DOMAIN ws
    BY <1>3
  <2> QED BY <1>3, <2>1 DEF Flow, Everything
<1>4. Everything(more, landed, wire, move)
  BY <1>3 DEF Everything
<1> QED BY <1>2, <1>4 DEF Flow

(* ... when a writer returns its next chunk.                               *)
LEMMA FlowAdd ==
  ASSUME NEW ws, NEW landed, NEW wire, NEW move, Flow(ws, landed, wire, move), NEW more,
         NEW w \in DOMAIN ws, ws[w].returned \in Nat, DOMAIN more = DOMAIN ws,
         \A v \in DOMAIN ws : v # w => more[v].returned = ws[v].returned,
         more[w].returned = ws[w].returned + 1,
         NEW chunk, IsSeq(chunk), DOMAIN chunk = {1}, DOMAIN chunk[1] = EntryFields,
         chunk[1].w = w, chunk[1].n = more[w].returned, NEW new, Joins(new, move, chunk)
  PROVE  Flow(more, landed, wire, new)
<1>1. \A list : Entries(ws, list) => Entries(more, list)
  <2>1. ASSUME NEW v \in DOMAIN ws, NEW n \in 1 .. ws[v].returned
        PROVE  n \in 1 .. more[v].returned
    BY <2>1
  <2> QED BY <2>1 DEF Entries, Entry
<1>2. Entries(more, chunk) /\ Increasing(chunk)
  <2>1. more[w].returned \in 1 .. more[w].returned
    OBVIOUS
  <2> QED BY <2>1 DEF Entries, Entry, Increasing
<1>3. \A list : Entries(ws, list) => Before(list, chunk)
  <2>1. ASSUME NEW list, Entries(ws, list), NEW i \in DOMAIN list, list[i].w = w
        PROVE  list[i].n < chunk[1].n
    BY <2>1 DEF Entries, Entry
  <2> QED BY <2>1 DEF Before
<1>4. /\ Entries(ws, landed) /\ Entries(ws, move) /\ Increasing(move)
      /\ \A i \in SentIn(wire) : Entries(ws, wire[i].req.move)
  BY DEF Flow, Lists
<1>5. /\ Entries(more, new) /\ Increasing(new)
      /\ \A m : Before(m, move) /\ Before(m, chunk) => Before(m, new)
      /\ \A v, n : Has(new, v, n) <=> Has(move, v, n) \/ Has(chunk, v, n)
  BY <1>1, <1>2, <1>3, <1>4, JoinedEntries
<1>6. Lists(more, landed, wire, new)
  BY <1>1, <1>5 DEF Flow, Lists
<1>7. InTurn(landed, wire, new)
  BY <1>3, <1>4, <1>5 DEF Flow, InTurn
<1>8. ASSUME NEW v \in DOMAIN more, NEW n \in 1 .. more[v].returned
      PROVE  Somewhere(landed, wire, new, v, n)
  <2>1. CASE v = w /\ n = more[w].returned
    <3>1. Has(chunk, v, n)
      BY <2>1 DEF Has
    <3> QED BY <1>5, <3>1 DEF Somewhere
  <2>2. CASE ~(v = w /\ n = more[w].returned)
    <3>1. n \in 1 .. ws[v].returned /\ v \in DOMAIN ws
      BY <1>8, <2>2
    <3>2. Somewhere(landed, wire, move, v, n)
      BY <3>1 DEF Flow, Everything
    <3> QED BY <1>5, <3>2 DEF Somewhere
  <2> QED BY <2>1, <2>2
<1>9. Everything(more, landed, wire, new)
  BY <1>8 DEF Everything
<1> QED BY <1>6, <1>7, <1>9 DEF Flow

(* ... when the request becomes a commit.                                  *)
LEMMA FlowSend ==
  ASSUME NEW ws, NEW landed, NEW wire, NEW move, Flow(ws, landed, wire, move),
         NEW x, x.do = "commit", Alike(move, x.req.move), NEW more, Adds(more, wire, x),
         NEW none, IsSeq(none), DOMAIN none = {}
  PROVE  Flow(ws, landed, more, none)
<1>0. PICK sent : sent = x.req.move
  OBVIOUS
<1>1. /\ Entries(ws, sent) /\ Increasing(sent)
      /\ \A m : Before(m, move) => Before(m, sent)
      /\ \A w, n : Has(move, w, n) => Has(sent, w, n)
  BY <1>0, AlikeLists DEF Flow, Lists
<1>2. /\ \A i \in SentIn(wire) : i \in SentIn(more) /\ more[i] = wire[i]
      /\ \A i \in SentIn(more) : \/ i \in SentIn(wire) /\ more[i] = wire[i]
                                 \/ i = Len(wire) + 1 /\ more[i] = x
      /\ Len(wire) + 1 \in SentIn(more) /\ more[Len(wire) + 1] = x
      /\ \A i \in SentIn(wire) : i \in 1 .. Len(wire)
      /\ Len(wire) \in Nat
  BY DEF Adds
<1>3. /\ Entries(ws, none) /\ Increasing(none) /\ \A m : Before(m, none)
      /\ \A w, n : ~Has(none, w, n)
  BY DEF Entries, Increasing, Before, Has
<1>4. Lists(ws, landed, more, none)
  BY <1>0, <1>1, <1>2, <1>3 DEF Flow, Lists
<1>5. InTurn(landed, more, none)
  <2>1. /\ Before(landed, sent)
        /\ \A i \in SentIn(wire) : /\ Before(landed, wire[i].req.move)
                                   /\ Before(wire[i].req.move, sent)
        /\ \A i, j \in SentIn(wire) : i < j => Before(wire[i].req.move, wire[j].req.move)
    BY <1>1 DEF Flow, InTurn
  <2>2. \A i \in SentIn(more) : Before(landed, more[i].req.move)
    BY <1>0, <1>2, <2>1
  <2>3. ASSUME NEW i \in SentIn(more), NEW j \in SentIn(more), i < j
        PROVE  Before(more[i].req.move, more[j].req.move)
    <3>1. i \in SentIn(wire) /\ more[i] = wire[i]
      BY <1>2, <2>3
    <3> QED BY <1>0, <1>2, <2>1, <2>3, <3>1
  <2> QED BY <1>3, <2>2, <2>3 DEF InTurn
<1>6. ASSUME NEW w \in DOMAIN ws, NEW n \in 1 .. ws[w].returned
      PROVE  Somewhere(landed, more, none, w, n)
  <2>1. Somewhere(landed, wire, move, w, n)
    BY DEF Flow, Everything
  <2>2. CASE Has(landed, w, n)
    BY <2>2 DEF Somewhere
  <2>3. CASE Has(move, w, n)
    BY <1>0, <1>1, <1>2, <2>3 DEF Somewhere
  <2>4. CASE \E i \in SentIn(wire) : Has(wire[i].req.move, w, n)
    BY <1>2, <2>4 DEF Somewhere
  <2> QED BY <2>1, <2>2, <2>3, <2>4 DEF Somewhere
<1>7. Everything(ws, landed, more, none)
  BY <1>6 DEF Everything
<1> QED BY <1>4, <1>5, <1>7 DEF Flow

(* ... when another message is sent.                                       *)
LEMMA FlowMessage ==
  ASSUME NEW ws, NEW landed, NEW wire, NEW move, Flow(ws, landed, wire, move),
         NEW x, x.do # "commit", NEW more, Adds(more, wire, x)
  PROVE  Flow(ws, landed, more, move)
<1>1. /\ \A i \in SentIn(wire) : i \in SentIn(more) /\ more[i] = wire[i]
      /\ \A i \in SentIn(more) : i \in SentIn(wire) /\ more[i] = wire[i]
  BY DEF Adds
<1>2. Lists(ws, landed, more, move)
  BY <1>1 DEF Flow, Lists
<1>3. InTurn(landed, more, move)
  BY <1>1 DEF Flow, InTurn
<1>4. Everything(ws, landed, more, move)
  BY <1>1 DEF Flow, Everything, Somewhere
<1> QED BY <1>2, <1>3, <1>4 DEF Flow

(* ... when the service has handled a commit.                              *)
LEMMA FlowLand ==
  ASSUME NEW ws, NEW landed, NEW wire, NEW move, Flow(ws, landed, wire, move),
         NEW less, NEW x, Takes(less, wire, x), x.do = "commit",
         NEW got, Joins(got, landed, x.req.move), NEW now, Alike(got, now)
  PROVE  Flow(ws, now, less, move)
<1>0. PICK list : list = x.req.move
  OBVIOUS
<1>1. /\ x = wire[1] /\ 1 \in SentIn(wire)
      /\ \A i \in SentIn(less) : i + 1 \in SentIn(wire) /\ less[i] = wire[i + 1]
      /\ \A i \in SentIn(wire) : i = 1 \/ (i - 1 \in SentIn(less) /\ wire[i] = less[i - 1])
      /\ \A i \in SentIn(less) : i \in Nat \ {0}
  BY DEF Takes
<1>2. /\ Entries(ws, landed) /\ Increasing(landed) /\ Entries(ws, list) /\ Increasing(list)
      /\ Before(landed, list) /\ Before(landed, move) /\ Before(list, move)
  BY <1>0, <1>1 DEF Flow, Lists, InTurn
<1>3. /\ Entries(ws, got) /\ Increasing(got)
      /\ \A m : Before(landed, m) /\ Before(list, m) => Before(got, m)
      /\ \A w, n : Has(got, w, n) <=> Has(landed, w, n) \/ Has(list, w, n)
  BY <1>0, <1>2, JoinedEntries
<1>4. /\ Entries(ws, now) /\ Increasing(now)
      /\ \A m : Before(landed, m) /\ Before(list, m) => Before(now, m)
      /\ \A w, n : Has(landed, w, n) \/ Has(list, w, n) => Has(now, w, n)
  BY <1>3, AlikeLists
<1>5. Lists(ws, now, less, move)
  BY <1>1, <1>4 DEF Flow, Lists
<1>6. InTurn(now, less, move)
  <2>1. \A i, j \in SentIn(wire) : i < j => Before(wire[i].req.move, wire[j].req.move)
    BY DEF Flow, InTurn
  <2>2. ASSUME NEW i \in SentIn(less) PROVE Before(now, less[i].req.move)
    <3>1. i \in Nat \ {0} /\ i + 1 \in SentIn(wire) /\ less[i] = wire[i + 1]
      BY <1>1
    <3>4. 1 < i + 1
      BY <3>1
    <3>2. Before(list, less[i].req.move)
      BY <1>0, <1>1, <2>1, <3>1, <3>4
    <3>3. Before(landed, less[i].req.move)
      BY <3>1 DEF Flow, InTurn
    <3> QED BY <1>4, <3>2, <3>3
  <2>3. ASSUME NEW i \in SentIn(less), NEW j \in SentIn(less), i < j
        PROVE  Before(less[i].req.move, less[j].req.move)
    <3>1. i + 1 < j + 1
      BY <1>1, <2>3
    <3> QED BY <1>1, <2>1, <3>1
  <2>4. \A i \in SentIn(less) : Before(less[i].req.move, move)
    BY <1>1 DEF Flow, InTurn
  <2> QED BY <1>2, <1>4, <2>2, <2>3, <2>4 DEF InTurn
<1>7. ASSUME NEW w \in DOMAIN ws, NEW n \in 1 .. ws[w].returned
      PROVE  Somewhere(now, less, move, w, n)
  <2>1. Somewhere(landed, wire, move, w, n)
    BY DEF Flow, Everything
  <2>2. CASE Has(landed, w, n)
    BY <1>4, <2>2 DEF Somewhere
  <2>3. CASE Has(move, w, n)
    BY <2>3 DEF Somewhere
  <2>4. ASSUME NEW i \in SentIn(wire), Has(wire[i].req.move, w, n)
        PROVE  Somewhere(now, less, move, w, n)
    <3>1. CASE i = 1
      BY <1>0, <1>1, <1>4, <2>4, <3>1 DEF Somewhere
    <3>2. CASE i # 1
      BY <1>1, <2>4, <3>2 DEF Somewhere
    <3> QED BY <3>1, <3>2
  <2> QED BY <2>1, <2>2, <2>3, <2>4 DEF Somewhere
<1>8. Everything(ws, now, less, move)
  BY <1>7 DEF Everything
<1> QED BY <1>5, <1>6, <1>8 DEF Flow

(* ... or another message.                                                 *)
LEMMA FlowTail ==
  ASSUME NEW ws, NEW landed, NEW wire, NEW move, Flow(ws, landed, wire, move),
         NEW less, NEW x, Takes(less, wire, x), x.do # "commit"
  PROVE  Flow(ws, landed, less, move)
<1>1. /\ \A i \in SentIn(less) : i + 1 \in SentIn(wire) /\ less[i] = wire[i + 1]
      /\ \A i \in SentIn(wire) : i - 1 \in SentIn(less) /\ wire[i] = less[i - 1]
      /\ \A i \in SentIn(less) : i \in Nat \ {0}
  BY DEF Takes
<1>2. Lists(ws, landed, less, move)
  BY <1>1 DEF Flow, Lists
<1>3. InTurn(landed, less, move)
  <2>1. ASSUME NEW i \in SentIn(less), NEW j \in SentIn(less), i < j
        PROVE  Before(less[i].req.move, less[j].req.move)
    <3>1. i + 1 < j + 1
      BY <1>1, <2>1
    <3> QED BY <1>1, <3>1 DEF Flow, InTurn
  <2> QED BY <1>1, <2>1 DEF Flow, InTurn
<1>4. ASSUME NEW w \in DOMAIN ws, NEW n \in 1 .. ws[w].returned
      PROVE  Somewhere(landed, less, move, w, n)
  <2>1. Somewhere(landed, wire, move, w, n)
    BY DEF Flow, Everything
  <2> QED BY <1>1, <2>1 DEF Somewhere
<1>5. Everything(ws, landed, less, move)
  BY <1>4 DEF Everything
<1> QED BY <1>2, <1>3, <1>5 DEF Flow

(***************************************************************************)
(* Their targets                                                           *)
(***************************************************************************)
LEMMA TargetsWriters ==
  ASSUME NEW ws, NEW res, NEW landed, NEW wire, NEW move, Lists(ws, landed, wire, move),
         Targets(ws, res, landed, wire, move), NEW more, NEW now,
         \A w \in DOMAIN ws : more[w].target = ws[w].target,
         \A r \in Reservations : res[r] \in Ids => now[r] = res[r]
  PROVE  Targets(more, now, landed, wire, move)
<1>1. ASSUME NEW list, Entries(ws, list), Settled(ws, res, list)
      PROVE  Settled(more, now, list)
  <2>1. SUFFICES ASSUME NEW i \in DOMAIN list
                 PROVE  list[i].target = StandsFor(now, more[list[i].w].target)
    BY <1>1 DEF Settled
  <2>2. /\ list[i].w \in DOMAIN ws /\ list[i].target \in Ids
        /\ list[i].target = StandsFor(res, ws[list[i].w].target)
    BY <1>1 DEF Settled, Entries, Entry
  <2> QED BY <2>2 DEF StandsFor, IsReservation
<1>2. Named(more, move)
  BY DEF Lists, Targets, Named, Entries, Entry
<1> QED BY <1>1, <1>2 DEF Targets, Lists

LEMMA TargetsSend ==
  ASSUME NEW ws, NEW res, NEW landed, NEW wire, NEW move,
         Targets(ws, res, landed, wire, move), NEW more, NEW x, Adds(more, wire, x),
         x.do = "commit" => Settled(ws, res, x.req.move), NEW rest, Named(ws, rest)
  PROVE  Targets(ws, res, landed, more, rest)
BY DEF Targets, Adds

LEMMA TargetsLand ==
  ASSUME NEW ws, NEW res, NEW landed, NEW wire, NEW move,
         Targets(ws, res, landed, wire, move), NEW less, NEW x, Takes(less, wire, x),
         x.do = "commit", NEW got, Joins(got, landed, x.req.move), NEW now, AlikeIn(got, now)
  PROVE  Targets(ws, res, now, less, move)
<1>0. PICK list : list = x.req.move
  OBVIOUS
<1>1. Settled(ws, res, landed) /\ Settled(ws, res, list)
  BY <1>0 DEF Targets, Takes
<1>2. ASSUME NEW i \in DOMAIN got
      PROVE  /\ got[i].target = StandsFor(res, ws[got[i].w].target)
             /\ got[i].target \in Ids
  <2>1. CASE i \in DOMAIN landed /\ got[i] = landed[i]
    BY <1>1, <2>1 DEF Settled
  <2>2. CASE \E j \in DOMAIN list : got[i] = list[j]
    BY <1>1, <2>2 DEF Settled
  <2> QED BY <1>0, <1>2, <2>1, <2>2 DEF Joins
<1>3. Settled(ws, res, now)
  <2>1. SUFFICES ASSUME NEW i \in DOMAIN now
                 PROVE  /\ now[i].target = StandsFor(res, ws[now[i].w].target)
                        /\ now[i].target \in Ids
    BY DEF Settled
  <2>2. i \in DOMAIN got /\ now[i].w = got[i].w /\ now[i].target = got[i].target
    BY DEF AlikeIn, Alike
  <2> QED BY <1>2, <2>2
<1>4. \A i \in SentIn(less) : Settled(ws, res, less[i].req.move)
  BY DEF Targets, Takes
<1> QED BY <1>3, <1>4 DEF Targets

LEMMA TargetsTail ==
  ASSUME NEW ws, NEW res, NEW landed, NEW wire, NEW move,
         Targets(ws, res, landed, wire, move), NEW less, NEW x, Takes(less, wire, x)
  PROVE  Targets(ws, res, landed, less, move)
BY DEF Targets, Takes

(* A request that has grown by chunks that name the target of their        *)
(* writer.                                                                 *)
LEMMA NamedAlike ==
  ASSUME NEW ws, NEW move, Named(ws, move), NEW chunk, Named(ws, chunk),
         NEW new, Joins(new, move, chunk), NEW now, AlikeIn(new, now)
  PROVE  Named(ws, now)
<1>1. ASSUME NEW i \in DOMAIN new PROVE new[i].target = ws[new[i].w].target
  <2>1. CASE i \in DOMAIN move /\ new[i] = move[i]
    BY <2>1 DEF Named
  <2>2. CASE \E j \in DOMAIN chunk : new[i] = chunk[j]
    BY <2>2 DEF Named
  <2> QED BY <1>1, <2>1, <2>2 DEF Joins
<1> QED BY <1>1 DEF Named, AlikeIn, Alike

(***************************************************************************)
(* The messages on their way                                               *)
(***************************************************************************)
LEMMA WireNow ==
  /\ todo[IPC] # <<>> /\ Now(IPC).do = "commit" => Wire = Append(service.inbox, Now(IPC))
  /\ ~(todo[IPC] # <<>> /\ Now(IPC).do = "commit") => Wire = service.inbox
BY DEF Wire, Now

LEMMA WireIsSeq ==
  ASSUME Shapes
  PROVE  IsSeq(Wire)
<1>1. IsSeq(service.inbox) /\ \A x : IsSeq(Append(service.inbox, x))
  BY AppendSeq DEF Shapes
<1> QED BY <1>1, WireNow

(* The IPC thread has no commit to send then.                              *)
LEMMA WireAfter ==
  ASSUME Shapes, Division, NEW first, Goes(IPC, first),
         \A x \in Elems(first) : x.do # "commit"
  PROVE  Wire' = service'.inbox
<1>0. IPC \in Threads
  BY ArbiterConstants
<1>1. CASE first # <<>>
  <2>1. Head(todo'[IPC]) \in Elems(first)
    BY <1>0, <1>1, GoesHead
  <2> QED BY <2>1 DEF Wire
<1>2. CASE first = <<>> /\ Rest(IPC) = <<>>
  BY <1>0, <1>2, GoesHead DEF Wire
<1>3. CASE first = <<>> /\ Rest(IPC) # <<>>
  <2>1. todo'[IPC] = Rest(IPC) /\ todo[IPC] # <<>> /\ Rest(IPC) = Tail(todo[IPC])
    BY <1>0, <1>3, GoesHead DEF Rest
  <2>2. IsSeq(Rest(IPC))
    BY <1>0, GoesFacts
  <2>3. Head(Rest(IPC)) \in Elems(Rest(IPC))
    BY <1>3, <2>2, TailSeq
  <2>4. Head(Rest(IPC)).do # "commit"
    BY <1>0, <2>1, <2>3 DEF Division
  <2> QED BY <2>1, <2>4 DEF Wire
<1> QED BY <1>1, <1>2, <1>3

LEMMA WireKept ==
  ASSUME Shapes, Division, NEW t \in Threads, NEW first, Goes(t, first),
         \A x \in Elems(first) : x.do # "commit",
         todo[t] # <<>> => Now(t).do # "commit", service'.inbox = service.inbox
  PROVE  Wire' = Wire
<1>1. CASE t = IPC
  BY <1>1, WireAfter, WireNow
<1>2. CASE t # IPC
  <2>1. todo'[IPC] = todo[IPC]
    BY <1>2, ArbiterConstants, GoesFacts
  <2> QED BY <2>1 DEF Wire
<1> QED BY <1>1, <1>2

(***************************************************************************)
(* Steps that leave the stream alone                                       *)
(***************************************************************************)
LEMMA CalmStream ==
  ASSUME Stream, TargetsKept, SettledKept, WritersKept, Wire' = Wire,
         service'.landed = service.landed, arb'.req.move = arb.req.move,
         ~arb'.req.open => arb'.req = NoRequest
  PROVE  Stream' /\ TargetsKept'
<1>1. Flow(writers, service.landed, Wire, arb.req.move)
  BY DEF Stream
<1>2. Targets(writers, arb.reservations, service.landed, Wire, arb.req.move)
  BY DEF TargetsKept
<1>3. /\ DOMAIN writers \subseteq DOMAIN writers'
      /\ \A w \in DOMAIN writers : /\ writers'[w].target = writers[w].target
                                   /\ writers'[w].returned = writers[w].returned
      /\ \A w \in DOMAIN writers' \ DOMAIN writers : writers'[w].returned = 0
  BY DEF WritersKept
<1>4. Flow(writers', service.landed, Wire, arb.req.move)
  BY <1>1, <1>3, FlowWriters
<1>5. \A r \in Reservations :
        arb.reservations[r] \in Ids => arb'.reservations[r] = arb.reservations[r]
  BY DEF SettledKept
<1>6. Lists(writers, service.landed, Wire, arb.req.move)
  BY <1>1 DEF Flow
<1>7. Targets(writers', arb'.reservations, service.landed, Wire, arb.req.move)
  BY <1>2, <1>3, <1>5, <1>6, TargetsWriters
<1> QED BY <1>4, <1>7 DEF Stream, TargetsKept

LEMMA NeutralStream ==
  ASSUME ThreadInv, Stream, TargetsKept, SettledKept, NeutralStep
  PROVE  Stream' /\ TargetsKept'
<1>0. Shapes /\ Division
  BY DEF ThreadInv, WakeInv, Order
<1>1. PICK t \in Threads : \E first : Neutral(t, first)
  BY DEF NeutralStep
<1>2. PICK first : Neutral(t, first)
  BY <1>1
<1>3. /\ Goes(t, first) /\ (todo[t] # <<>> => Now(t).do # "commit")
      /\ \A x \in Elems(first) : x.do # "commit"
      /\ WritersKept /\ arb'.req = arb.req /\ service' = service
  BY <1>2 DEF Neutral
<1>4. Wire' = Wire
  BY <1>0, <1>3, WireKept
<1> QED BY <1>3, <1>4, CalmStream DEF Stream

LEMMA BindStream ==
  ASSUME ThreadInv, Stream, TargetsKept, SettledKept, BindStep
  PROVE  Stream' /\ TargetsKept'
<1>0. Shapes /\ Division
  BY DEF ThreadInv, WakeInv, Order
<1>1. PICK t \in Threads : \E first : Binds(t, first)
  BY DEF BindStep
<1>2. PICK first : Binds(t, first)
  BY <1>1
<1>3. /\ Goes(t, first) /\ (todo[t] # <<>> => Now(t).do # "commit")
      /\ \A x \in Elems(first) : x.do # "commit"
      /\ writers' = writers /\ arb'.req = arb.req /\ service' = service
  BY <1>2 DEF Binds
<1>4. Wire' = Wire
  BY <1>0, <1>3, WireKept
<1>5. WritersKept
  BY <1>3 DEF WritersKept
<1> QED BY <1>3, <1>4, <1>5, CalmStream DEF Stream

(* A thread goes on, and neither writers nor request nor service change.   *)
LEMMA PlainStream ==
  ASSUME ThreadInv, Stream, TargetsKept, SettledKept, NEW t \in Threads, NEW first,
         Goes(t, first), todo[t] # <<>> => Now(t).do # "commit",
         \A x \in Elems(first) : x.do # "commit",
         writers' = writers \/ Edited, service' = service, arb'.req.move = arb.req.move,
         ~arb'.req.open => arb'.req = NoRequest
  PROVE  Stream' /\ TargetsKept'
<1>0. Shapes /\ Division
  BY DEF ThreadInv, WakeInv, Order
<1>1. Wire' = Wire
  BY <1>0, WireKept
<1>2. WritersKept
  <2>1. CASE writers' = writers
    BY <2>1 DEF WritersKept
  <2>2. CASE Edited
    <3>1. DOMAIN writers' = DOMAIN writers
      BY <2>2 DEF Edited
    <3> QED BY <2>2, <3>1 DEF Edited, WritersKept
  <2> QED BY <2>1, <2>2
<1> QED BY <1>1, <1>2, CalmStream

(***************************************************************************)
(* Steps that add chunks to the request                                    *)
(***************************************************************************)
(* Patching in place does not touch what a chunk is.                       *)
PatchOf(e, x) ==
  x = e \/ \E left, writing : x = [e EXCEPT !.left = left, !.writing = writing]

LEMMA PatchOfChunk ==
  ASSUME NEW e, DOMAIN e = EntryFields, NEW x, PatchOf(e, x)
  PROVE  DOMAIN e = DOMAIN x /\ e.w = x.w /\ e.n = x.n /\ e.target = x.target
<1>1. CASE x = e
  BY <1>1
<1>2. ASSUME NEW left, NEW writing, x = [e EXCEPT !.left = left, !.writing = writing]
      PROVE  DOMAIN e = DOMAIN x /\ e.w = x.w /\ e.n = x.n /\ e.target = x.target
  BY <1>2 DEF EntryFields
<1> QED BY <1>1, <1>2 DEF PatchOf

LEMMA DirectlyPatchedAlike ==
  ASSUME NEW req, NEW move, move = req.move, IsSeq(move), NEW w, NEW list,
         \A i \in DOMAIN move : DOMAIN move[i] = EntryFields,
         NEW now, now = DirectlyPatched(req, w, list)
  PROVE  AlikeIn(move, now)
<1>1. now = [i \in DOMAIN move |->
           LET e == move[i]
               m == CountFor(Patched(list), e.n)
           IN IF i \notin FindChunk(req, w, e.n) \/ m = 0 THEN e
              ELSE [e EXCEPT !.left = @ - m, !.writing = CountFor(Unpatched(list), e.n) > 0]]
  BY Zenon DEF DirectlyPatched
<1>2. now = [i \in DOMAIN move |-> now[i]]
  BY <1>1, Zenon
<1>3. ASSUME NEW i \in DOMAIN move PROVE PatchOf(move[i], now[i])
  <2>1. PICK e, m, c : /\ e = move[i] /\ m = CountFor(Patched(list), e.n)
                       /\ c = (i \notin FindChunk(req, w, e.n) \/ m = 0)
    OBVIOUS
  <2>2. PICK left, writing : /\ left = e.left - m
                             /\ writing = (CountFor(Unpatched(list), e.n) > 0)
    BY Zenon
  <2>3. now[i] = IF c THEN e ELSE [e EXCEPT !.left = left, !.writing = writing]
    BY <1>1, <2>1, <2>2, Zenon
  <2>4. CASE c
    BY <2>1, <2>3, <2>4, Zenon DEF PatchOf
  <2>5. CASE ~c
    BY <2>1, <2>3, <2>5, Zenon DEF PatchOf
  <2> QED BY <2>4, <2>5
<1>4. ASSUME NEW i \in DOMAIN move
      PROVE  /\ DOMAIN move[i] = DOMAIN now[i] /\ move[i].w = now[i].w
             /\ move[i].n = now[i].n /\ move[i].target = now[i].target
  <2>1. PICK e, x : e = move[i] /\ x = now[i]
    OBVIOUS
  <2>2. DOMAIN e = EntryFields /\ PatchOf(e, x)
    BY <1>3, <2>1
  <2>3. DOMAIN e = DOMAIN x /\ e.w = x.w /\ e.n = x.n /\ e.target = x.target
    BY <2>2, PatchOfChunk
  <2> QED BY <2>1, <2>3
<1>5. IsSeq(now) /\ DOMAIN now = DOMAIN move
  BY <1>2, SameLength
<1> QED BY <1>4, <1>5 DEF AlikeIn, Alike

LEMMA AlikeSame ==
  ASSUME NEW move, IsSeq(move)
  PROVE  AlikeIn(move, move)
BY DEF AlikeIn, Alike

(* The request after an update.                                            *)
LEMMA UpdateMoves ==
  ASSUME ThreadInv, Stream, NEW t, NEW w, NEW chunk, IsSeq(chunk), NEW rest,
         \A i \in DOMAIN chunk : DOMAIN chunk[i] = EntryFields,
         UpdateCommitDataRequest(t, w, chunk, rest)
  PROVE  /\ arb'.req.open = TRUE
         /\ \E new : Joins(new, arb.req.move, chunk) /\ AlikeIn(new, arb'.req.move)
<1>0. /\ Shapes /\ (~arb.req.open => arb.req = NoRequest)
      /\ Entries(writers, arb.req.move)
  BY DEF ThreadInv, WakeInv, Stream, Flow, Lists
<1>1. PICK old : old = IF arb.req.open THEN arb.req ELSE EmptyRequest
  OBVIOUS
<1>2. /\ old.move = arb.req.move /\ old.open = TRUE
      /\ DOMAIN old = {"open", "move", "patch", "flush"}
  BY <1>0, <1>1, Zenon DEF Shapes, NoRequest, EmptyRequest
<1>3. PICK new : new = arb.req.move \o chunk
  OBVIOUS
<1>4. Joins(new, arb.req.move, chunk)
  BY <1>0, <1>3, JoinedLists DEF Entries
<1>5. IsSeq(new) /\ \A i \in DOMAIN new : DOMAIN new[i] = EntryFields
  <2>1. \A i \in DOMAIN arb.req.move : DOMAIN arb.req.move[i] = EntryFields
    BY <1>0 DEF Entries, Entry
  <2> QED BY <1>4, <2>1 DEF Joins
<1>6. PICK req : req = [old EXCEPT !.move = @ \o chunk]
  OBVIOUS
<1>7. /\ req.move = new /\ req.open = TRUE
      /\ DOMAIN req = {"open", "move", "patch", "flush"}
  BY <1>2, <1>3, <1>6
<1>8. PICK now, patch, batch :
        /\ arb' = [arb EXCEPT !.req = [req EXCEPT !.move = now, !.patch = patch],
                              !.scheduled = @ \/ batch]
        /\ now = IF arb.direct THEN DirectlyPatched(req, w, writers[w].patches) ELSE new
  BY <1>1, <1>6, <1>7, ZenonT(40) DEF UpdateCommitDataRequest
<1>9. arb'.req = [req EXCEPT !.move = now, !.patch = patch]
  BY <1>0, <1>8 DEF Shapes
<1>10. arb'.req.move = now /\ arb'.req.open = TRUE
  BY <1>7, <1>9
<1>11. AlikeIn(new, now)
  <2>1. CASE arb.direct
    <3>1. now = DirectlyPatched(req, w, writers[w].patches)
      BY <2>1, <1>8
    <3>2. PICK list : now = DirectlyPatched(req, w, list)
      BY <3>1
    <3>3. new = req.move
      BY <1>7
    <3> QED BY <1>5, <3>2, <3>3, DirectlyPatchedAlike
  <2>2. CASE ~arb.direct
    BY <2>2, <1>5, <1>8, AlikeSame
  <2> QED BY <2>1, <2>2
<1> QED BY <1>4, <1>10, <1>11

(* What an update leaves alone.                                            *)
LEMMA UpdateWire ==
  ASSUME ThreadInv, NEW t \in Threads, todo[t] # <<>> => Now(t).do # "commit",
         NEW w, NEW count, Updates(t, w, count)
  PROVE  /\ Wire' = Wire /\ service' = service /\ arb'.reservations = arb.reservations
         /\ DOMAIN writers' = DOMAIN writers
         /\ \A v \in DOMAIN writers : writers'[v].target = writers[v].target
         /\ \A v \in DOMAIN writers : v # w => writers'[v].returned = writers[v].returned
         /\ writers'[w].returned = writers[w].returned + count
<1>0. Shapes /\ Division
  BY DEF ThreadInv, WakeInv, Order
<1>1. PICK first : Goes(t, first) /\ \A x \in Elems(first) : x = Delay
  BY DEF Updates
<1>2. \A x \in Elems(first) : x.do # "commit"
  BY <1>1 DEF Delay
<1>3. /\ service' = service /\ arb'.reservations = arb.reservations
      /\ writers' = [v \in DOMAIN writers |-> writers'[v]]
      /\ \A v \in DOMAIN writers : writers'[v].target = writers[v].target
      /\ \A v \in DOMAIN writers : v # w => writers'[v] = writers[v]
      /\ writers'[w].returned = writers[w].returned + count
  BY DEF Updates
<1>4. Wire' = Wire
  BY <1>0, <1>1, <1>2, <1>3, WireKept
<1>5. DOMAIN writers' = DOMAIN writers
  BY <1>3
<1> QED BY <1>3, <1>4, <1>5

LEMMA ReturnStream ==
  ASSUME ThreadInv, Stream, TargetsKept, NEW t \in Threads, ReturnCompletedChunk(t)
  PROVE  Stream' /\ TargetsKept'
<1>0. PICK w : w = Now(t).w
  OBVIOUS
<1>1. /\ Updates(t, w, 1) /\ todo[t] # <<>> /\ Now(t).do = "return"
      /\ w \in DOMAIN writers /\ Now(t).n = writers[w].returned + 1
  BY <1>0, ReturnCompletedChunkSteps
<1>2. /\ Wire' = Wire /\ service' = service /\ arb'.reservations = arb.reservations
      /\ DOMAIN writers' = DOMAIN writers
      /\ \A v \in DOMAIN writers : writers'[v].target = writers[v].target
      /\ \A v \in DOMAIN writers : v # w => writers'[v].returned = writers[v].returned
      /\ writers'[w].returned = writers[w].returned + 1
  BY <1>1, UpdateWire
<1>3. PICK chunk, rest :
        /\ UpdateCommitDataRequest(t, w, chunk, rest) /\ IsSeq(chunk) /\ DOMAIN chunk = {1}
        /\ DOMAIN chunk[1] = EntryFields /\ chunk[1].w = w /\ chunk[1].n = writers'[w].returned
        /\ chunk[1].target = writers[w].target
  <2>1. PICK e : e = [w |-> w, n |-> Now(t).n, target |-> writers[w].target,
                      left |-> Now(t).k, writing |-> arb.direct /\ Now(t).k > 0]
    OBVIOUS
  <2>2. /\ DOMAIN e = EntryFields /\ e.w = w /\ e.n = writers'[w].returned
        /\ e.target = writers[w].target
    BY <1>1, <1>2, <2>1 DEF EntryFields
  <2>3. PICK chunk : chunk = <<e>>
    OBVIOUS
  <2>4. IsSeq(chunk) /\ DOMAIN chunk = {1} /\ chunk[1] = e
    BY <2>3, ShortSeqs
  <2>5. UpdateCommitDataRequest(t, w, <<e>>, Tail(todo[t]))
    BY <1>0, <2>1, Zenon DEF ReturnCompletedChunk
  <2>6. UpdateCommitDataRequest(t, w, chunk, Tail(todo[t]))
    BY <2>3, <2>5, Zenon
  <2> QED BY <2>2, <2>4, <2>6
<1>4. /\ arb'.req.open = TRUE
      /\ \E new : Joins(new, arb.req.move, chunk) /\ AlikeIn(new, arb'.req.move)
  BY <1>3, UpdateMoves
<1>5. PICK new : Joins(new, arb.req.move, chunk) /\ AlikeIn(new, arb'.req.move)
  BY <1>4
<1>6. Flow(writers, service.landed, Wire, arb.req.move) /\ writers[w].returned \in Nat
  BY <1>1 DEF Stream, ThreadInv, Order, WriterShapes
<1>7. Flow(writers', service.landed, Wire, new)
  BY <1>1, <1>2, <1>3, <1>5, <1>6, FlowAdd
<1>8. Flow(writers', service.landed, Wire, arb'.req.move)
  BY <1>5, <1>7, FlowAlike DEF AlikeIn
<1>9. Targets(writers, arb.reservations, service.landed, Wire, arb.req.move)
  BY DEF TargetsKept
<1>10. Targets(writers', arb.reservations, service.landed, Wire, arb.req.move)
  BY <1>2, <1>6, <1>9, TargetsWriters DEF Flow
<1>11. Named(writers', arb.req.move) /\ Named(writers', chunk)
  BY <1>1, <1>2, <1>3, <1>10 DEF Targets, Named
<1>12. Named(writers', arb'.req.move)
  BY <1>5, <1>11, NamedAlike
<1>13. Targets(writers', arb.reservations, service.landed, Wire, arb'.req.move)
  BY <1>10, <1>12 DEF Targets
<1> QED BY <1>2, <1>4, <1>8, <1>13 DEF Stream, TargetsKept

LEMMA SendPatchesStream ==
  ASSUME ThreadInv, Stream, TargetsKept, NEW t \in Threads, SendPatches(t)
  PROVE  Stream' /\ TargetsKept'
<1>1. PICK w \in DOMAIN writers : Updates(t, w, 0) /\ UpdateCommitDataRequest(t, w, <<>>, <<>>)
  BY SendPatchesSteps
<1>2. todo[t] = <<>>
  BY SendPatchesSteps
<1>3. /\ Wire' = Wire /\ service' = service /\ arb'.reservations = arb.reservations
      /\ DOMAIN writers' = DOMAIN writers
      /\ \A v \in DOMAIN writers : writers'[v].target = writers[v].target
      /\ \A v \in DOMAIN writers : v # w => writers'[v].returned = writers[v].returned
      /\ writers'[w].returned = writers[w].returned + 0
  BY <1>1, <1>2, UpdateWire
<1>4. writers'[w].returned = writers[w].returned
  BY <1>1, <1>3 DEF ThreadInv, Order, WriterShapes
<1>5. PICK none : UpdateCommitDataRequest(t, w, none, none) /\ IsSeq(none) /\ DOMAIN none = {}
  <2>1. PICK none : none = <<>> /\ UpdateCommitDataRequest(t, w, none, none)
    BY <1>1, Zenon
  <2>2. IsSeq(<<>>)
    BY ShortSeqs
  <2>3. DOMAIN <<>> = {}
    OBVIOUS
  <2> QED BY <2>1, <2>2, <2>3, Zenon
<1>6. /\ arb'.req.open = TRUE
      /\ \E new : Joins(new, arb.req.move, none) /\ AlikeIn(new, arb'.req.move)
  BY <1>5, UpdateMoves
<1>7. PICK new : Joins(new, arb.req.move, none) /\ AlikeIn(new, arb'.req.move)
  BY <1>6
<1>8. /\ Flow(writers, service.landed, Wire, arb.req.move)
      /\ Targets(writers, arb.reservations, service.landed, Wire, arb.req.move)
  BY DEF Stream, TargetsKept
<1>9. Alike(arb.req.move, new)
  <2>1. IsSeq(arb.req.move)
    BY <1>8 DEF Flow, Lists, Entries
  <2>2. DOMAIN new = DOMAIN arb.req.move
    BY <1>5, <1>7 DEF Joins
  <2> QED BY <1>7, <2>1, <2>2 DEF Alike, Joins
<1>10. Flow(writers, service.landed, Wire, new)
  BY <1>8, <1>9, FlowAlike
<1>11. Flow(writers, service.landed, Wire, arb'.req.move)
  BY <1>7, <1>10, FlowAlike DEF AlikeIn
<1>12. Flow(writers', service.landed, Wire, arb'.req.move)
  BY <1>3, <1>4, <1>11, FlowWriters
<1>13. Named(writers, arb.req.move) /\ Named(writers, none)
  BY <1>5, <1>8 DEF Targets, Named
<1>14. Named(writers, arb'.req.move)
  BY <1>7, <1>13, NamedAlike
<1>15. Targets(writers, arb.reservations, service.landed, Wire, arb'.req.move)
  BY <1>8, <1>14 DEF Targets
<1>16. Targets(writers', arb.reservations, service.landed, Wire, arb'.req.move)
  BY <1>3, <1>11, <1>15, TargetsWriters DEF Flow
<1> QED BY <1>3, <1>6, <1>12, <1>16 DEF Stream, TargetsKept

(***************************************************************************)
(* Steps that send the request                                             *)
(***************************************************************************)
(* A fully bound arbiter knows the buffer of every writer.                 *)
LEMMA TargetsKnown ==
  ASSUME ThreadInv, Binding, arb.fully_bound, NEW w \in DOMAIN writers
  PROVE  /\ BufferOf(writers[w].target) \in Ids
         /\ BufferOf(writers[w].target) = StandsFor(arb.reservations, writers[w].target)
         /\ BufferOf(writers[w].target) # Unresolved
<1>1. PICK b : b = writers[w].target
  OBVIOUS
<1>2. /\ b \in Ids \cup Reservations
      /\ arb.reservations \in [Reservations -> Ids \cup {Absent, Unresolved}]
  BY <1>1 DEF ThreadInv, Order, WriterShapes
<1>3. b \in Reservations => arb.reservations[b] \notin {Absent, Unresolved}
  BY <1>1 DEF Binding, Resolved
<1>4. Unresolved \notin Ids
  BY ArbiterConstants DEF Unresolved, Ids, kInvalidBufferId
<1>5. BufferOf(b) = StandsFor(arb.reservations, b) /\ BufferOf(b) \in Ids
  BY <1>2, <1>3 DEF BufferOf, StandsFor, IsReservation
<1> QED BY <1>1, <1>4, <1>5

LEMMA ToSendMoves ==
  ASSUME ThreadInv, Binding, Stream, TargetsKept, arb.fully_bound
  PROVE  /\ Alike(arb.req.move, ToSend.move)
         /\ Settled(writers, arb.reservations, ToSend.move)
<1>0. /\ DOMAIN arb.req = {"open", "move", "patch", "flush"}
      /\ Entries(writers, arb.req.move) /\ Named(writers, arb.req.move)
  BY DEF ThreadInv, WakeInv, Shapes, Stream, Flow, Lists, TargetsKept, Targets
<1>1. PICK move : move = arb.req.move
  OBVIOUS
<1>2. PICK mid : mid = [i \in DOMAIN move |->
        IF BufferOf(move[i].target) = Unresolved THEN move[i]
        ELSE [move[i] EXCEPT !.target = BufferOf(@)]]
  OBVIOUS
<1>3. PICK req : req = ReplaceCommitPlaceholderBufferIds(arb.req)
  OBVIOUS
<1>4. DOMAIN req = {"open", "move", "patch", "flush"} /\ req.move = mid
  <2>1. PICK pat : pat = [i \in DOMAIN arb.req.patch |-> Replaced(arb.req.patch[i])]
    OBVIOUS
  <2>2. mid = [i \in DOMAIN move |-> Replaced(move[i])]
    BY <1>2 DEF Replaced
  <2>3. req = [arb.req EXCEPT !.move = mid, !.patch = pat]
    BY <1>1, <1>3, <2>1, <2>2 DEF ReplaceCommitPlaceholderBufferIds
  <2> QED BY <1>0, <2>3
<1>5. PICK sent : sent = [i \in DOMAIN mid |-> [mid[i] EXCEPT !.writing = FALSE]]
  OBVIOUS
<1>6. ToSend.move = sent
  <2>1. ToSend = [req EXCEPT !.move = sent]
    BY <1>3, <1>4, <1>5, Zenon DEF ToSend, ReleaseAllAsComplete
  <2> QED BY <1>4, <2>1
<1>7. ASSUME NEW i \in DOMAIN move
      PROVE  /\ DOMAIN move[i] = DOMAIN sent[i] /\ move[i].w = sent[i].w
             /\ move[i].n = sent[i].n /\ sent[i].target \in Ids
             /\ sent[i].target = StandsFor(arb.reservations, writers[sent[i].w].target)
  <2>1. PICK e : e = move[i]
    OBVIOUS
  <2>2. e.w \in DOMAIN writers /\ e.target = writers[e.w].target /\ DOMAIN e = EntryFields
    BY <1>0, <1>1, <1>7, <2>1 DEF Entries, Entry, Named
  <2>3. PICK b : b = BufferOf(e.target)
    OBVIOUS
  <2>4. b \in Ids /\ b = StandsFor(arb.reservations, writers[e.w].target) /\ b # Unresolved
    BY <2>2, <2>3, TargetsKnown
  <2>5. mid[i] = [e EXCEPT !.target = b] /\ i \in DOMAIN mid
    BY <1>2, <1>7, <2>1, <2>3, <2>4
  <2>6. PICK x : x = mid[i]
    OBVIOUS
  <2>7. /\ DOMAIN x = EntryFields /\ x.w = e.w /\ x.n = e.n /\ x.target = b
    BY <2>2, <2>5, <2>6 DEF EntryFields
  <2>8. PICK y : y = sent[i]
    OBVIOUS
  <2>9. y = [x EXCEPT !.writing = FALSE]
    BY <1>5, <2>5, <2>6, <2>8
  <2>10. DOMAIN y = EntryFields /\ y.w = x.w /\ y.n = x.n /\ y.target = x.target
    BY <2>7, <2>9 DEF EntryFields
  <2> QED BY <2>1, <2>2, <2>4, <2>7, <2>8, <2>10
<1>8. DOMAIN sent = DOMAIN move /\ IsSeq(move) /\ sent = [i \in DOMAIN move |-> sent[i]]
  BY <1>0, <1>1, <1>2, <1>5 DEF Entries
<1>9. IsSeq(sent)
  BY <1>8, SameLength
<1>10. Alike(move, sent)
  BY <1>7, <1>8, <1>9 DEF Alike
<1>11. Settled(writers, arb.reservations, sent)
  BY <1>7, <1>8 DEF Settled
<1> QED BY <1>1, <1>6, <1>10, <1>11

LEMMA FlushPendingStream ==
  ASSUME ThreadInv, Binding, Stream, TargetsKept, SettledKept, NEW t \in Threads,
         FlushPendingCommitDataRequests(t)
  PROVE  Stream' /\ TargetsKept'
<1>0. Shapes /\ Division /\ (~arb.req.open => arb.req = NoRequest)
  BY DEF ThreadInv, WakeInv, Order, Stream
<1>1. PICK cbs : cbs = Now(t).cbs
  OBVIOUS
<1>2. /\ todo[t] # <<>> /\ Now(t).do = "flush" /\ writers' = writers /\ service' = service
      /\ \E first : /\ Goes(t, first)
                    /\ \/ Leaves(t, first, cbs) \/ PassesOn(t, first, cbs)
                       \/ Sends(t, first, cbs)
  BY <1>1, FlushPendingSteps
<1>3. PICK first : /\ Goes(t, first)
                   /\ \/ Leaves(t, first, cbs) \/ PassesOn(t, first, cbs)
                      \/ Sends(t, first, cbs)
  BY <1>2
<1>4. CASE Leaves(t, first, cbs)
  <2>1. arb' = [arb EXCEPT !.callbacks = @ \cup cbs] /\ Elems(first) = {}
    BY <1>4 DEF Leaves
  <2>2. arb'.req = arb.req
    BY <1>0, <2>1 DEF Shapes
  <2> QED BY <1>0, <1>2, <1>3, <2>1, <2>2, PlainStream
<1>5. CASE PassesOn(t, first, cbs)
  <2>1. arb' = arb /\ \A x \in Elems(first) : x.do # "commit"
    BY <1>5, ShortSeqs, PostKind DEF PassesOn
  <2> QED BY <1>0, <1>2, <1>3, <2>1, PlainStream
<1>6. CASE Sends(t, first, cbs)
  <2>0. t = IPC /\ arb.fully_bound /\ arb' = [arb EXCEPT !.req = NoRequest]
    BY <1>6 DEF Sends
  <2>1. arb'.req = NoRequest /\ arb'.reservations = arb.reservations
    BY <1>0, <2>0 DEF Shapes
  <2>2. CASE first = <<>> /\ ~arb.req.open
    <3>1. Elems(first) = {} /\ arb'.req = arb.req
      BY <1>0, <2>1, <2>2, ShortSeqs
    <3> QED BY <1>0, <1>2, <1>3, <3>1, PlainStream
  <2>3. CASE first = <<Commit(ToSend, cbs)>>
    <3>1. PICK x : x = Commit(ToSend, cbs) /\ x.do = "commit" /\ x.req = ToSend
      BY CommitKind
    <3>2. first # <<>> /\ Head(first) = x
      BY <2>3, <3>1
    <3>3. todo'[IPC] # <<>> /\ Head(todo'[IPC]) = x
      BY <1>0, <1>3, <2>0, <3>2, GoesHead
    <3>4. Wire' = Append(service.inbox, x) /\ Wire = service.inbox
      BY <1>2, <2>0, <3>1, <3>3 DEF Wire, Now
    <3>5. Adds(Wire', Wire, x)
      BY <1>0, <3>4, SentAppend DEF Shapes
    <3>6. Alike(arb.req.move, x.req.move) /\ Settled(writers, arb.reservations, x.req.move)
      BY <2>0, <3>1, ToSendMoves
    <3>7. PICK none : none = arb'.req.move /\ none = <<>>
      BY <2>1 DEF NoRequest
    <3>8. IsSeq(none) /\ DOMAIN none = {}
      <4>1. IsSeq(<<>>)
        BY ShortSeqs
      <4>2. DOMAIN <<>> = {}
        OBVIOUS
      <4> QED BY <4>1, <4>2, <3>7, Zenon
    <3>9. /\ Flow(writers, service.landed, Wire, arb.req.move)
          /\ Targets(writers, arb.reservations, service.landed, Wire, arb.req.move)
      BY DEF Stream, TargetsKept
    <3>10. Flow(writers, service.landed, Wire', none)
      BY <3>1, <3>5, <3>6, <3>8, <3>9, FlowSend
    <3>11. Named(writers, none)
      BY <3>8 DEF Named
    <3>12. Targets(writers, arb.reservations, service.landed, Wire', none)
      BY <3>5, <3>6, <3>9, <3>11, TargetsSend
    <3> QED BY <1>2, <2>1, <3>7, <3>10, <3>12 DEF Stream, TargetsKept
  <2> QED BY <1>6, <2>2, <2>3 DEF Sends
<1> QED BY <1>3, <1>4, <1>5, <1>6

LEMMA CallEndpointStream ==
  ASSUME ThreadInv, Stream, TargetsKept, SettledKept, NEW t \in Threads, CallEndpoint(t)
  PROVE  Stream' /\ TargetsKept'
<1>0. Shapes /\ Division
  BY DEF ThreadInv, WakeInv, Order
<1>1. /\ t = IPC /\ todo[t] # <<>>
      /\ \E e : Goes(t, e) /\ Elems(e) = {}
      /\ service' = [service EXCEPT !.inbox = Append(@, Now(t))]
      /\ service'.inbox = Append(service.inbox, Now(t))
      /\ arb' = arb /\ writers' = writers
  BY CallEndpointSteps
<1>2. service'.landed = service.landed
  BY <1>0, <1>1 DEF Shapes
<1>3. PICK e : Goes(IPC, e) /\ Elems(e) = {}
  BY <1>1
<1>4. Wire' = Append(service.inbox, Now(IPC))
  BY <1>0, <1>1, <1>3, WireAfter
<1>5. /\ Flow(writers, service.landed, Wire, arb.req.move)
      /\ Targets(writers, arb.reservations, service.landed, Wire, arb.req.move)
  BY DEF Stream, TargetsKept
<1>6. CASE Now(IPC).do = "commit"
  <2>1. Wire' = Wire
    BY <1>1, <1>4, <1>6, WireNow
  <2> QED BY <1>1, <1>2, <1>5, <2>1 DEF Stream, TargetsKept
<1>7. CASE Now(IPC).do # "commit"
  <2>1. Wire = service.inbox
    BY <1>7, WireNow
  <2>2. PICK x : x = Now(IPC) /\ x.do # "commit"
    BY <1>7
  <2>3. Adds(Wire', Wire, x)
    BY <1>0, <1>4, <2>1, <2>2, SentAppend DEF Shapes
  <2>4. Flow(writers, service.landed, Wire', arb.req.move)
    BY <1>5, <2>2, <2>3, FlowMessage
  <2>5. Named(writers, arb.req.move)
    BY <1>5 DEF Targets
  <2>6. Targets(writers, arb.reservations, service.landed, Wire', arb.req.move)
    BY <1>5, <2>2, <2>3, <2>5, TargetsSend
  <2> QED BY <1>1, <1>2, <2>4, <2>6 DEF Stream, TargetsKept
<1> QED BY <1>6, <1>7

(***************************************************************************)
(* The service's end                                                       *)
(***************************************************************************)
(* The message that the service takes is the first on the wire.            *)
LEMMA WireTakes ==
  ASSUME ThreadInv, ServiceStep, NEW m, m = Head(service.inbox)
  PROVE  Takes(Wire', Wire, m)
<1>0. Shapes /\ service.inbox # <<>> /\ todo' = todo /\ service'.inbox = Tail(service.inbox)
  BY ServiceSteps DEF ThreadInv, WakeInv
<1>1. PICK S : service.inbox \in Seq(S)
  BY <1>0 DEF Shapes, IsSeq
<1>2. CASE todo[IPC] # <<>> /\ Now(IPC).do = "commit"
  <2>1. PICK x : x = Now(IPC)
    OBVIOUS
  <2>2. Wire = Append(service.inbox, x) /\ Wire' = Append(Tail(service.inbox), x)
    BY <1>0, <1>2, <2>1 DEF Wire, Now
  <2>3. PICK T : service.inbox \in Seq(T) /\ x \in T
    <3>1. service.inbox \in Seq(S \cup {x})
      BY <1>1
    <3> QED BY <3>1
  <2>4. PICK q : q = service.inbox /\ q \in Seq(T) /\ q # <<>>
    BY <1>0, <2>3
  <2>5. /\ Append(q, x) # <<>> /\ Head(Append(q, x)) = Head(q)
        /\ Tail(Append(q, x)) = Append(Tail(q), x)
    BY <2>3, <2>4
  <2>6. Wire # <<>> /\ Head(Wire) = m /\ Wire' = Tail(Wire)
    BY <2>2, <2>4, <2>5
  <2> QED BY <1>0, <2>6, WireIsSeq, SentTail
<1>3. CASE ~(todo[IPC] # <<>> /\ Now(IPC).do = "commit")
  <2>1. Wire = service.inbox /\ Wire' = Tail(service.inbox)
    BY <1>0, <1>3 DEF Wire, Now
  <2> QED BY <1>0, <2>1, WireIsSeq, SentTail
<1> QED BY <1>2, <1>3

(* Patching does not touch what a chunk is.                                *)
LEMMA LandedAlike ==
  ASSUME NEW got, IsSeq(got), \A i \in DOMAIN got : DOMAIN got[i] = EntryFields,
         NEW left, NEW now,
         now = [i \in DOMAIN got |-> [got[i] EXCEPT !.left = left[i]]]
  PROVE  AlikeIn(got, now)
<1>1. ASSUME NEW i \in DOMAIN got
      PROVE  /\ DOMAIN got[i] = DOMAIN now[i] /\ got[i].w = now[i].w
             /\ got[i].n = now[i].n /\ got[i].target = now[i].target
  <2>1. PICK e, x : e = got[i] /\ x = now[i]
    OBVIOUS
  <2>2. x = [e EXCEPT !.left = left[i]] /\ DOMAIN e = EntryFields
    BY <2>1
  <2>3. DOMAIN e = DOMAIN x /\ e.w = x.w /\ e.n = x.n /\ e.target = x.target
    BY <2>2 DEF EntryFields
  <2> QED BY <2>1, <2>3
<1>2. now = [i \in DOMAIN got |-> now[i]] /\ DOMAIN now = DOMAIN got
  OBVIOUS
<1>3. IsSeq(now)
  BY <1>2, SameLength
<1> QED BY <1>1, <1>2, <1>3 DEF AlikeIn, Alike

LEMMA ServiceStream ==
  ASSUME ThreadInv, Stream, TargetsKept, SettledKept, ServiceStep
  PROVE  Stream' /\ TargetsKept'
<1>1. PICK m : m = Head(service.inbox)
  OBVIOUS
<1>2. /\ Shapes /\ arb' = arb /\ writers' = writers
      /\ m.do # "commit" => service'.landed = service.landed
      /\ m.do = "commit" => ServiceCommit(m)
  BY <1>1, ServiceSteps DEF ThreadInv, WakeInv
<1>3. Takes(Wire', Wire, m)
  BY <1>1, WireTakes
<1>4. /\ Flow(writers, service.landed, Wire, arb.req.move)
      /\ Targets(writers, arb.reservations, service.landed, Wire, arb.req.move)
  BY DEF Stream, TargetsKept
<1>5. CASE m.do # "commit"
  <2>1. Flow(writers, service.landed, Wire', arb.req.move)
    BY <1>3, <1>4, <1>5, FlowTail
  <2>2. Targets(writers, arb.reservations, service.landed, Wire', arb.req.move)
    BY <1>3, <1>4, TargetsTail
  <2> QED BY <1>2, <1>5, <2>1, <2>2 DEF Stream, TargetsKept
<1>6. CASE m.do = "commit"
  <2>1. PICK move : move = m.req.move
    OBVIOUS
  <2>2. Entries(writers, service.landed) /\ Entries(writers, move)
    BY <1>3, <1>4, <1>6, <2>1 DEF Flow, Lists, Takes
  <2>3. PICK got : got = service.landed \o move
    OBVIOUS
  <2>4. Joins(got, service.landed, move)
    BY <2>2, <2>3, JoinedLists DEF Entries
  <2>5. IsSeq(got) /\ \A i \in DOMAIN got : DOMAIN got[i] = EntryFields
    <3>1. Entries(writers, got)
      BY <2>2, <2>4, JoinedEntries
    <3> QED BY <3>1 DEF Entries, Entry
  <2>6. PICK left : left = [i \in DOMAIN got |->
          got[i].left - Cardinality(PatchesFor(m.req.patch, got[i]))]
    OBVIOUS
  <2>7. PICK now : now = [i \in DOMAIN got |-> [got[i] EXCEPT !.left = left[i]]]
    OBVIOUS
  <2>8. now = [i \in DOMAIN got |-> [got[i] EXCEPT !.left =
                @ - Cardinality(PatchesFor(m.req.patch, got[i]))]]
    BY <2>6, <2>7, Zenon
  <2>9. PICK flushed :
          service' = [service EXCEPT !.inbox = Tail(@), !.landed = now, !.flushed = flushed]
    BY <1>2, <1>6, <2>1, <2>3, <2>8, Zenon DEF ServiceCommit
  <2>10. service'.landed = now
    BY <1>2, <2>9 DEF Shapes
  <2>11. AlikeIn(got, now)
    BY <2>5, <2>7, LandedAlike
  <2>12. Joins(got, service.landed, m.req.move)
    BY <2>1, <2>4
  <2>13. Flow(writers, now, Wire', arb.req.move)
    BY <1>3, <1>4, <1>6, <2>11, <2>12, FlowLand DEF AlikeIn
  <2>14. Targets(writers, arb.reservations, now, Wire', arb.req.move)
    BY <1>3, <1>4, <1>6, <2>11, <2>12, TargetsLand
  <2> QED BY <1>2, <2>10, <2>13, <2>14 DEF Stream, TargetsKept
<1> QED BY <1>5, <1>6

(***************************************************************************)
(* The theorem                                                             *)
(***************************************************************************)
LEMMA InitStream ==
  ASSUME Init
  PROVE  Binding /\ Stream /\ TargetsKept
<1>0. PICK c \in Scenarios :
        /\ env = [c |-> c, claimed |-> {}, flushes |-> 0, asked |-> <<>>, overtaken |-> {}]
        /\ arb = [bound |-> c.bound, fully_bound |-> c.bound,
                  was_always_bound |-> c.bound,
                  req |-> NoRequest, scheduled |-> FALSE, callbacks |-> {},
                  pending |-> {}, reservations |-> [r \in Reservations |-> Absent],
                  ids |-> {}, last_id |-> 0, did_shutdown |-> FALSE, direct |-> FALSE]
  BY Zenon DEF Init
<1>1. arb.reservations = [r \in Reservations |-> Absent] /\ arb.req = NoRequest
  BY <1>0
<1>2. /\ writers = <<>> /\ todo = [t \in Threads |-> <<>>] /\ tasks = <<>>
      /\ service.inbox = <<>> /\ service.landed = <<>> /\ arb.req.move = <<>>
  <2>1. /\ writers = <<>> /\ todo = [t \in Threads |-> <<>>] /\ tasks = <<>>
        /\ service = [inbox |-> <<>>, landed |-> <<>>, registered |-> {}, flushed |-> 0]
    BY Zenon DEF Init
  <2> QED BY <1>1, <2>1 DEF NoRequest
<1>3. IsSeq(<<>>) /\ Elems(<<>>) = {} /\ DOMAIN <<>> = {}
  <2>1. IsSeq(<<>>) /\ Elems(<<>>) = {}
    BY ShortSeqs
  <2> QED BY <2>1
<1>4. Wire = <<>>
  BY <1>2, ArbiterConstants DEF Wire
<1>5. PICK e : e = <<>> /\ IsSeq(e) /\ Elems(e) = {} /\ DOMAIN e = {}
  BY <1>3, Zenon
<1>6. /\ writers = e /\ service.landed = e /\ Wire = e /\ arb.req.move = e /\ tasks = e
      /\ \A t \in Threads : todo[t] = e
  BY <1>2, <1>4, <1>5
<1>7. SentIn(e) = {}
  BY <1>5 DEF SentIn
<1>8. Flow(e, e, e, e)
  BY <1>5, <1>7
  DEF Flow, Lists, InTurn, Everything, Entries, Increasing, Before
<1>9. Targets(e, arb.reservations, e, e, e)
  BY <1>5, <1>7 DEF Targets, Settled, Named
<1>10. Resolved(arb)
  BY <1>1 DEF Resolved, Absent, Unresolved
<1>11. \A r \in Reservations : arb.reservations[r] \notin Ids
  BY <1>1, ArbiterConstants DEF Absent, Ids, kInvalidBufferId
<1>12. Binding
  BY <1>5, <1>6, <1>10, <1>11 DEF Binding, Aborting
<1> QED BY <1>1, <1>6, <1>8, <1>9, <1>12 DEF Stream, TargetsKept

LEMMA OtherStream ==
  ASSUME ThreadInv, Stream, TargetsKept, SettledKept, NEW t \in Threads,
         \/ NotifyFlushComplete(t) \/ FlushWriter(t) \/ PostTask(t)
  PROVE  Stream' /\ TargetsKept'
<1>0. ~arb.req.open => arb.req = NoRequest
  BY DEF Stream
<1>1. CASE NotifyFlushComplete(t)
  <2>1. PICK first : Goes(t, first) /\ \A x \in Elems(first) : x = Post(Flush({}))
    BY <1>1, NotifyFlushCompleteSteps
  <2>2. \A x \in Elems(first) : x.do # "commit"
    BY <2>1, PostKind
  <2>3. /\ todo[t] = <<>> /\ service' = service /\ writers' = writers /\ arb'.req.open = TRUE
        /\ arb'.req.move = IF arb.req.open THEN arb.req.move ELSE <<>>
    BY <1>1, NotifyFlushCompleteSteps
  <2>4. arb'.req.move = arb.req.move
    BY <1>0, <2>3 DEF NoRequest
  <2> QED BY <2>1, <2>2, <2>3, <2>4, PlainStream
<1>2. CASE FlushWriter(t)
  <2>1. /\ todo[t] = <<>> /\ arb' = arb /\ service' = service /\ Edited
        /\ \E w \in DOMAIN writers : \E first, cb : FlushedFor(t, w, first, cb)
    BY <1>2, FlushWriterSteps
  <2>2. PICK w \in DOMAIN writers : \E first, cb : FlushedFor(t, w, first, cb)
    BY <2>1
  <2>3. PICK first, cb : FlushedFor(t, w, first, cb)
    BY <2>2
  <2>4. Goes(t, first) /\ Elems(first) = Elems(ReturnCurrent(w)) \cup {Flush({cb})}
    BY <2>3 DEF FlushedFor
  <2>5. \A x \in Elems(ReturnCurrent(w)) : x.do = "return"
    BY ShortSeqs DEF ReturnCurrent, Return
  <2>6. \A x \in Elems(first) : x.do # "commit"
    BY <2>4, <2>5, FlushKind
  <2> QED BY <1>0, <2>1, <2>4, <2>6, PlainStream
<1>3. CASE PostTask(t)
  <2>1. /\ Now(t).do = "post" /\ \E e : Goes(t, e) /\ Elems(e) = {}
        /\ arb' = arb /\ writers' = writers /\ service' = service
    BY <1>3, PostTaskSteps
  <2>2. PICK e : Goes(t, e) /\ Elems(e) = {}
    BY <2>1
  <2> QED BY <1>0, <2>1, <2>2, PlainStream
<1> QED BY <1>1, <1>2, <1>3

LEMMA TaskStream ==
  ASSUME ThreadInv, Stream, TargetsKept, SettledKept, RunTask \/ RunCallback
  PROVE  Stream' /\ TargetsKept'
<1>0. (~arb.req.open => arb.req = NoRequest) /\ IPC \in Threads /\ Division
  BY ArbiterConstants DEF Stream, ThreadInv, Order
<1>1. CASE RunTask
  <2>1. /\ todo[IPC] = <<>> /\ Goes(IPC, <<Head(tasks)>>) /\ Head(tasks) \in Elems(tasks)
        /\ arb' = arb /\ writers' = writers /\ service' = service
    BY <1>1, RunTaskSteps
  <2>2. PICK x : x = Head(tasks) /\ x.do \in TaskKinds
    BY <1>0, <2>1 DEF Division
  <2>3. PICK first : Goes(IPC, first) /\ Elems(first) = {x}
    BY <2>1, <2>2, ShortSeqs
  <2>4. \A y \in Elems(first) : y.do # "commit"
    BY <2>2, <2>3 DEF TaskKinds, PostKinds
  <2> QED BY <1>0, <2>1, <2>3, <2>4, PlainStream
<1>2. CASE RunCallback
  <2>1. /\ Now(IPC).do = "callback" /\ \E e : Goes(IPC, e) /\ Elems(e) = {}
        /\ arb' = arb /\ writers' = writers /\ service' = service
    BY <1>2, RunCallbackSteps
  <2>2. PICK e : Goes(IPC, e) /\ Elems(e) = {}
    BY <2>1
  <2> QED BY <1>0, <2>1, <2>2, PlainStream
<1> QED BY <1>1, <1>2

LEMMA QuietStream ==
  ASSUME ThreadInv, Stream, TargetsKept, SettledKept, QuietStep
  PROVE  Stream' /\ TargetsKept'
<1>1. NeutralStep
  BY DEF QuietStep, NeutralStep
<1> QED BY <1>1, NeutralStream

LEMMA NextStream ==
  ASSUME ThreadInv, Binding, Stream, TargetsKept, SettledKept, [Next]_vars
  PROVE  Stream' /\ TargetsKept'
<1>1. ASSUME NEW t \in Threads, Call(t) PROVE Stream' /\ TargetsKept'
  <2>1. ASSUME NEW r \in Reservations, AbortStartupTracingForReservation(t, r)
        PROVE  Stream' /\ TargetsKept'
    BY <2>1, AbortPostNeutral, AbortBindSteps, NeutralStream, BindStream
  <2>2. ASSUME NEW b \in Buffers \cup Reservations, CreateTraceWriter(t, b)
        PROVE  Stream' /\ TargetsKept'
    BY <2>2, CreateTraceWriterNeutral, NeutralStream
  <2> QED BY <1>1, <2>1, <2>2, DestroyTraceWriterNeutral, GetNewChunkNeutral,
     GetNewChunkExhaustedNeutral, FinalizeNestedNeutral, QuietStream, OtherStream,
     SendPatchesStream DEF Call
<1>2. ASSUME NEW t \in Threads, Step(t) PROVE Stream' /\ TargetsKept'
  BY <1>2, ReleaseWriterIDNeutral, RetryGetNewChunkNeutral, PostDelayedTaskNeutral,
     QuietStream, OtherStream, ReturnStream, FlushPendingStream, CallEndpointStream DEF Step
<1>3. ASSUME Bind PROVE Stream' /\ TargetsKept'
  BY <1>3, BindToProducerEndpointSteps, BindStartupTargetBufferSteps, BindStream,
     QuietNeutral, QuietStream DEF Bind
<1>4. ASSUME TaskRunner PROVE Stream' /\ TargetsKept'
  BY <1>4, RunDelayedTaskNeutral, ClearDelayedNeutral, QuietStream, TaskStream,
     RunAbortSteps, BindStream DEF TaskRunner
<1>5. ASSUME UNCHANGED vars PROVE Stream' /\ TargetsKept'
  BY <1>5 DEF vars, Stream, TargetsKept, Wire
<1> QED BY <1>1, <1>2, <1>3, <1>4, <1>5, ServiceStream DEF Next

(* The invariant from which the theorem follows.                           *)
THEOREM StreamInvHolds == Spec => []StreamInv
<1>1. Init => StreamInv
  BY InitOrder, InitStream DEF StreamInv
<1>2. ASSUME StreamInv, [Next]_vars PROVE StreamInv'
  <2>1. ThreadInv' /\ Binding' /\ SettledKept
    BY <1>2, NextOrder, NextBinding DEF StreamInv
  <2>2. Stream' /\ TargetsKept'
    BY <1>2, <2>1, NextStream DEF StreamInv
  <2> QED BY <2>1, <2>2 DEF StreamInv
<1> QED BY <1>1, <1>2, PTL DEF Spec

LEMMA StreamInOrder ==
  ASSUME StreamInv
  PROVE  ChunksReachTheirBuffer
<1>0. PICK landed : landed = service.landed
  OBVIOUS
<1>1. /\ Entries(writers, landed) /\ Increasing(landed)
      /\ Before(landed, arb.req.move)
      /\ \A i \in SentIn(Wire) : Before(landed, Wire[i].req.move)
      /\ Everything(writers, landed, Wire, arb.req.move)
      /\ Settled(writers, arb.reservations, landed)
  BY <1>0 DEF StreamInv, Stream, Flow, Lists, InTurn, TargetsKept, Targets
<1>2. ASSUME NEW i \in DOMAIN landed, NEW n \in 1 .. landed[i].n - 1
      PROVE  Has(landed, landed[i].w, n)
  <2>1. PICK w, last : w = landed[i].w /\ last = landed[i].n
    OBVIOUS
  <2>2. w \in DOMAIN writers /\ last \in 1 .. writers[w].returned
    BY <1>1, <2>1 DEF Entries, Entry
  <2>3. n \in 1 .. writers[w].returned /\ n < last
    <3>1. writers[w].returned \in Nat
      BY <2>2 DEF StreamInv, ThreadInv, Order, WriterShapes
    <3>2. n \in 1 .. last - 1
      BY <1>2, <2>1
    <3> QED BY <2>2, <3>1, <3>2
  <2>4. Somewhere(landed, Wire, arb.req.move, w, n)
    BY <1>1, <2>2, <2>3 DEF Everything
  <2>5. \A move : Before(landed, move) => ~Has(move, w, n)
    <3>1. SUFFICES ASSUME NEW move, Before(landed, move), NEW j \in DOMAIN move,
                          move[j].w = w, move[j].n = n
                   PROVE  FALSE
      BY DEF Has
    <3>2. last < n
      BY <2>1, <3>1 DEF Before
    <3> QED BY <2>2, <2>3, <3>2
  <2> QED BY <1>1, <2>1, <2>4, <2>5 DEF Somewhere
<1>3. \A i \in DOMAIN landed : i \in Nat \ {0} /\ \A j \in 1 .. i : j \in DOMAIN landed
  BY <1>1 DEF Entries, IsSeq
<1>4. ASSUME NEW i \in DOMAIN landed
      PROVE  {landed[j].n : j \in EarlierFrom(landed[i].w, i)} = 1 .. landed[i].n - 1
  <2>0. EarlierFrom(landed[i].w, i) = {j \in 1 .. i - 1 : landed[j].w = landed[i].w}
    BY <1>0 DEF EarlierFrom
  <2>1. landed[i].n \in Nat \ {0}
    BY <1>1, <1>4 DEF Entries, Entry, StreamInv, ThreadInv, Order, WriterShapes
  <2>2. ASSUME NEW j \in 1 .. i - 1, landed[j].w = landed[i].w
        PROVE  landed[j].n \in 1 .. landed[i].n - 1
    <3>1. j \in DOMAIN landed /\ j < i
      BY <1>3, <1>4
    <3>2. landed[j].n < landed[i].n
      BY <1>1, <1>4, <2>2, <3>1 DEF Increasing
    <3>3. landed[j].n \in Nat \ {0}
      BY <1>1, <3>1 DEF Entries, Entry, StreamInv, ThreadInv, Order, WriterShapes
    <3> QED BY <2>1, <3>2, <3>3
  <2>3. ASSUME NEW n \in 1 .. landed[i].n - 1
        PROVE  \E j \in 1 .. i - 1 : landed[j].w = landed[i].w /\ landed[j].n = n
    <3>1. PICK j \in DOMAIN landed : landed[j].w = landed[i].w /\ landed[j].n = n
      BY <1>2, <2>3 DEF Has
    <3>2. i # j /\ landed[j].n < landed[i].n
      BY <2>1, <2>3, <3>1
    <3>3. ~(i < j)
      BY <1>1, <2>1, <2>3, <3>1, <3>2 DEF Increasing
    <3>4. j \in 1 .. i - 1
      BY <1>3, <3>2, <3>3
    <3> QED BY <3>1, <3>4
  <2> QED BY <2>0, <2>2, <2>3
<1>5. ASSUME NEW i \in DOMAIN landed
      PROVE  /\ landed[i].target = BufferOf(writers[landed[i].w].target)
             /\ landed[i].target \in Buffers \cup {kInvalidBufferId}
  BY <1>1 DEF Settled, StandsFor, BufferOf, Ids
<1> QED BY <1>0, <1>4, <1>5 DEF ChunksReachTheirBuffer

(* A chunk reaches the service once and in the order in which its writer   *)
(* returned it, for the buffer that its writer's target stands for, never  *)
(* for a placeholder (ReturnCompletedChunk, UpdateCommitDataRequest,       *)
(* FlushPendingCommitDataRequests, ReplaceCommitPlaceholderBufferIds).     *)
THEOREM ChunksReachTheirBufferHolds == Spec => []ChunksReachTheirBuffer
<1>1. StreamInv => ChunksReachTheirBuffer
  BY StreamInOrder
<1> QED BY <1>1, StreamInvHolds, PTL
=============================================================================
