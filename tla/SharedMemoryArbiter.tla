------------------------- MODULE SharedMemoryArbiter -------------------------
(***************************************************************************)
(* The arbiter of a producer process (src/tracing/core/                    *)
(* shared_memory_arbiter_impl.cc): trace writers on any thread get chunks  *)
(* from it and return them; it gathers them in one commit request, which   *)
(* only the thread of its task runner sends to the service, and holds them *)
(* back while the endpoint or a startup buffer reservation is not bound.   *)
(*                                                                         *)
(* A part of a method that runs under lock_ is one step.  What a thread    *)
(* does after it has left the lock (post a task, call the endpoint, take   *)
(* the lock again) is in todo[t], a sequence of steps; a posted task is    *)
(* one such step, run by the thread IPC.  Delayed tasks are all alike, so  *)
(* they are counted; their delay is any time.                              *)
(*                                                                         *)
(* The shared memory is a number of free chunks, and a chunk is known by   *)
(* its writer and its number (module SharedMemoryABI has its states); the  *)
(* service end of the connection is modelled as far as the arbiter relies  *)
(* on it.  A thread has one writer at a time.                              *)
(***************************************************************************)
EXTENDS Integers, Sequences, FiniteSets

CONSTANTS
  Threads, IPC,     \* the writing threads; IPC is the task runner's
  Reservations,     \* the ids of startup target buffers
  Buffers,          \* the ids of target buffers
  kMaxWriterID,
  NumSlots,         \* the chunks of the shared memory
  MaxWriters,       \* bound on the writers ever created
  MaxChunks,        \* bound on the chunks of a writer
  Scenarios         \* what the producer does: see Scenario

(* A scenario: is the arbiter created bound; the policy, the targets and   *)
(* the number of chunks of its writers, the threads that have writers, the *)
(* patches a chunk may need, whether writers are destroyed and             *)
(* reservations aborted; the number of writer flushes with a callback and  *)
(* of flush requests of the service.                                       *)
Scenario ==
  [bound : BOOLEAN, policy : {"kDrop", "kStall"},
   targets : SUBSET (Buffers \cup Reservations), threads : SUBSET Threads,
   chunks : 0 .. MaxChunks, patches : Nat, writers : 0 .. MaxWriters,
   destroy : BOOLEAN, abort : BOOLEAN, flushes : Nat, requests : Nat]

kInvalidBufferId == 0

ASSUME ArbiterConstants ==
  /\ IPC \in Threads
  /\ Reservations \subseteq Nat /\ Buffers \subseteq Nat
  /\ kInvalidBufferId \notin Buffers \cup Reservations
  /\ Buffers \cap Reservations = {}
  /\ kMaxWriterID \in Nat \ {0} /\ NumSlots \in Nat \ {0}
  /\ MaxWriters \in Nat /\ MaxChunks \in Nat
  /\ Scenarios \subseteq Scenario
  /\ \A c \in Scenarios :
       c.policy = "kStall" => c.bound /\ c.targets \cap Reservations = {}

(* A reservation is absent from target_buffer_reservations_, or in it and  *)
(* unresolved, or resolved to a buffer id, which may be the invalid one.   *)
Absent == -2
Unresolved == -1

VARIABLES
  arb,       \* the members of the arbiter under lock_
  writers,   \* the trace writers in the order of their creation
  free,      \* the number of free chunks
  todo,      \* what each thread does next, before anything else
  tasks,     \* the posted tasks
  delayed,   \* the number of delayed flushes that have not run
  service,   \* the service's end: messages sent, chunks and writers it has
  answered,  \* the flush callbacks that have run, in order
  env        \* the scenario, what remains of it, and snapshots

vars == <<arb, writers, free, todo, tasks, delayed, service, answered, env>>

(* commit_data_req_: chunks to move, chunks to patch, flush_request_id.    *)
NoRequest == [open |-> FALSE, move |-> <<>>, patch |-> <<>>, flush |-> 0]
EmptyRequest == [NoRequest EXCEPT !.open = TRUE]

Init ==
  /\ \E c \in Scenarios :
       /\ env = [c |-> c,
                 claimed |-> {},       \* reservations bound or aborted
                 flushes |-> 0,        \* callbacks passed to Flush()
                 asked |-> <<>>,       \* chunks returned at each request
                 overtaken |-> {}]     \* see MayBeOvertaken
       /\ arb = [bound |-> c.bound, fully_bound |-> c.bound,
                 was_always_bound |-> c.bound,
                 req |-> NoRequest, scheduled |-> FALSE, callbacks |-> {},
                 pending |-> {},       \* [id, target] of unbound writers
                 reservations |-> [r \in Reservations |-> Absent],
                 ids |-> {}, last_id |-> 0,
                 did_shutdown |-> FALSE, direct |-> FALSE]
  /\ writers = <<>>
  /\ free = NumSlots
  /\ todo = [t \in Threads |-> <<>>]
  /\ tasks = <<>> /\ delayed = 0
  /\ service = [inbox |-> <<>>, landed |-> <<>>,
                registered |-> {}, flushed |-> 0]
  /\ answered = <<>>

(***************************************************************************)
(* Steps that a thread has ahead of it, and tasks                          *)
(***************************************************************************)
Flush(cbs)        == [do |-> "flush", cbs |-> cbs]
Clear             == [do |-> "clear"]
Delay             == [do |-> "delay"]
Post(task)        == [do |-> "post", task |-> task]
Commit(req, cbs)  == [do |-> "commit", req |-> req, cbs |-> cbs]
Register(ws)      == [do |-> "register", ws |-> ws]
Unregister(i)     == [do |-> "unregister", id |-> i]
Abort(r)          == [do |-> "abort", r |-> r]
Callback(cbs)     == [do |-> "callback", cbs |-> cbs]
Return(w, n, k)   == [do |-> "return", w |-> w, n |-> n, k |-> k]
Stall(w, i)       == [do |-> "stall", w |-> w, count |-> i]
Release(w)        == [do |-> "release", w |-> w]

Idle(t) == todo[t] = <<>>
AtStep(t, do) == todo[t] # <<>> /\ Head(todo[t]).do = do
Now(t) == Head(todo[t])
Then(t, steps) == todo' = [todo EXCEPT ![t] = steps \o Tail(@)]
Start(t, steps) == todo' = [todo EXCEPT ![t] = steps]

IsReservation(b) == b \in Reservations

(***************************************************************************)
(* Binding                                                                 *)
(***************************************************************************)
(* Whether the arbiter a is fully bound: the value that                    *)
(* UpdateFullyBoundLocked() stores.                                        *)
Resolved(a) == \A r \in Reservations : a.reservations[r] # Unresolved

UpdateFullyBoundLocked(a) ==
  IF ~a.bound THEN a
  ELSE [a EXCEPT !.fully_bound = Resolved(a),
                 !.was_always_bound = @ /\ Resolved(a)]

(* The steps that flush after an update of fully_bound_, with the pending  *)
(* callbacks, which TakePendingFlushCallbacksLocked() has taken.           *)
FlushIfBound(a) ==
  IF a.bound /\ a.fully_bound THEN <<Flush(a.callbacks)>> ELSE <<>>
TakePendingFlushCallbacks(a) ==
  IF a.bound /\ a.fully_bound THEN [a EXCEPT !.callbacks = {}] ELSE a

BindToProducerEndpoint ==
  /\ Idle(IPC) /\ ~arb.bound
  /\ LET a == UpdateFullyBoundLocked([arb EXCEPT !.bound = TRUE])
     IN /\ arb' = TakePendingFlushCallbacks(a)
        /\ Start(IPC, FlushIfBound(a))
  /\ UNCHANGED <<writers, free, tasks, delayed, service, answered, env>>

Mutant_BindKeepsPending(t, r, b, steps) ==
  LET bound == {p \in arb.pending : p.target = r}
      a == UpdateFullyBoundLocked([arb EXCEPT !.reservations[r] = b])
      register == IF b = kInvalidBufferId \/ bound = {} THEN <<>>
                  ELSE <<Register({[id |-> p.id, target |-> b] : p \in bound})>>
  IN /\ arb' = TakePendingFlushCallbacks(a)
     /\ todo' = [todo EXCEPT ![t] = register \o FlushIfBound(a) \o steps]
     /\ UNCHANGED <<writers, free, tasks, delayed, service, answered>>

(* In a step of thread t that has left steps to do after it.               *)
BindStartupTargetBufferImpl(t, r, b, steps) ==
  LET bound == {p \in arb.pending : p.target = r}
      a == UpdateFullyBoundLocked(
             [arb EXCEPT !.reservations[r] = b, !.pending = @ \ bound])
      register == IF b = kInvalidBufferId \/ bound = {} THEN <<>>
                  ELSE <<Register({[id |-> p.id, target |-> b] : p \in bound})>>
  IN /\ arb' = TakePendingFlushCallbacks(a)
     /\ todo' = [todo EXCEPT ![t] = register \o FlushIfBound(a) \o steps]
     /\ UNCHANGED <<writers, free, tasks, delayed, service, answered>>

(* A reservation is bound or aborted once.                                 *)
Claim(r) == env' = [env EXCEPT !.claimed = @ \cup {r}]

BindStartupTargetBuffer(r, b) ==
  /\ Idle(IPC) /\ arb.bound
  /\ r \in env.c.targets \ env.claimed /\ Claim(r)
  /\ BindStartupTargetBufferImpl(IPC, r, b, <<>>)

MustPostAbort(t) == arb.bound /\ t # IPC

AbortStartupTracingForReservation(t, r) ==
  /\ Idle(t) /\ t \in env.c.threads /\ env.c.abort
  /\ r \in env.c.targets \ env.claimed /\ Claim(r)
  /\ IF MustPostAbort(t)
     THEN /\ Start(t, <<Post(Abort(r))>>)
          /\ UNCHANGED <<arb, writers, free, tasks, delayed, service, answered>>
     ELSE BindStartupTargetBufferImpl(t, r, kInvalidBufferId, <<>>)

RunAbort ==
  /\ AtStep(IPC, "abort")
  /\ BindStartupTargetBufferImpl(IPC, Now(IPC).r, kInvalidBufferId, Tail(todo[IPC]))
  /\ UNCHANGED env

(***************************************************************************)
(* Writers                                                                 *)
(***************************************************************************)
Live(w) == writers[w].live
Owner(t) == {w \in DOMAIN writers : writers[w].live /\ writers[w].thread = t}

(* IdAllocator::Allocate(): the next id that is not in use after the last  *)
(* one handed out, or 0.                                                   *)
IdAfter(k) == ((arb.last_id + k - 1) % kMaxWriterID) + 1
FreeSteps == {k \in 1 .. kMaxWriterID : IdAfter(k) \notin arb.ids}
Allocate ==
  IF FreeSteps = {} THEN 0
  ELSE IdAfter(CHOOSE k \in FreeSteps : \A j \in FreeSteps : k <= j)

(* The target of a new writer: the buffer of a reservation that is         *)
(* resolved already.                                                       *)
TargetFor(b) ==
  IF IsReservation(b) /\ arb.reservations[b] \notin {Absent, Unresolved}
  THEN arb.reservations[b] ELSE b

(* Whether the service may forget a new writer with this id, because the   *)
(* task that unregisters the id's previous owner may come after its        *)
(* registration: the task is not posted yet, or it has not run yet and the *)
(* new writer is a startup writer, which no task registers but the bind.   *)
MayBeOvertaken(id, startup) ==
  \/ \E u \in Threads : \E i \in DOMAIN todo[u] : todo[u][i] = Post(Unregister(id))
  \/ startup /\ \E i \in DOMAIN tasks : tasks[i] = Unregister(id)

(* With did_shutdown_, or no id left, the writer is a NullTraceWriter and  *)
(* nothing changes.  A target that is a buffer is known only once bound.   *)
CreateTraceWriter(t, b) ==
  LET id == Allocate
      target == TargetFor(b)
      startup == IsReservation(target)
  IN /\ Idle(t) /\ Owner(t) = {} /\ t \in env.c.threads
     /\ Len(writers) < env.c.writers
     /\ b \in env.c.targets /\ (b \in Buffers => arb.bound)
     /\ ~arb.did_shutdown /\ id # 0
     /\ arb' = [arb EXCEPT
                  !.ids = @ \cup {id}, !.last_id = id,
                  !.pending = IF startup THEN @ \cup {[id |-> id, target |-> target]} ELSE @,
                  !.reservations =
                    IF startup THEN [@ EXCEPT ![target] = Unresolved] ELSE @,
                  !.fully_bound = @ /\ ~startup,
                  !.was_always_bound = @ /\ ~startup]
     /\ writers' = Append(writers,
                     [thread |-> t, id |-> id, target |-> target, live |-> TRUE,
                      cur |-> FALSE,    \* has a current chunk
                      n |-> 0,          \* chunks acquired
                      returned |-> 0,
                      patches |-> <<>>])
     /\ Start(t, IF startup \/ target = kInvalidBufferId THEN <<>>
                 ELSE <<Post(Register({[id |-> id, target |-> target]}))>>)
     /\ env' = [env EXCEPT !.overtaken =
                   IF MayBeOvertaken(id, startup) THEN @ \cup {id} ELSE @]
     /\ UNCHANGED <<free, tasks, delayed, service, answered>>

(* The destructor of a writer returns its chunk and flushes; a writer that *)
(* is destroyed has finished its packet.                                   *)
ReturnCurrent(w) ==
  IF writers[w].cur THEN <<Return(w, writers[w].n, 0)>> ELSE <<>>

DestroyTraceWriter(t) ==
  /\ Idle(t) /\ env.c.destroy
  /\ \E w \in Owner(t) :
       /\ writers[w].patches = <<>>
       /\ Start(t, ReturnCurrent(w)
                   \o (IF writers[w].cur THEN <<Flush({})>> ELSE <<>>)
                   \o <<Release(w)>>)
       /\ writers' = [writers EXCEPT ![w].cur = FALSE]
  /\ UNCHANGED <<arb, free, tasks, delayed, service, answered, env>>

Mutant_ReleaseKeepsPending(t) ==
  /\ AtStep(t, "release")
  /\ LET w == Now(t).w
         id == writers[w].id
         mine == {p \in arb.pending : p.id = id}
     IN /\ arb' = [arb EXCEPT !.ids = @ \ {id}]
        /\ Then(t, IF mine # {} \/ ~arb.bound THEN <<>> ELSE <<Post(Unregister(id))>>)
        /\ writers' = [writers EXCEPT ![w].live = FALSE]
  /\ UNCHANGED <<free, tasks, delayed, service, answered, env>>

(* The id may be handed out again before the posted task has told the      *)
(* service, and even before it is posted.                                  *)
ReleaseWriterID(t) ==
  /\ AtStep(t, "release")
  /\ LET w == Now(t).w
         id == writers[w].id
         mine == {p \in arb.pending : p.id = id}
     IN /\ arb' = [arb EXCEPT !.ids = @ \ {id}, !.pending = @ \ mine]
        /\ Then(t, IF mine # {} \/ ~arb.bound THEN <<>> ELSE <<Post(Unregister(id))>>)
        /\ writers' = [writers EXCEPT ![w].live = FALSE]
  /\ UNCHANGED <<free, tasks, delayed, service, answered, env>>

TryShutdown ==
  /\ Idle(IPC) /\ env.c.destroy /\ ~arb.did_shutdown
  /\ arb' = [arb EXCEPT !.did_shutdown = TRUE]
  /\ UNCHANGED <<writers, free, todo, tasks, delayed, service, answered, env>>

(***************************************************************************)
(* Chunks                                                                  *)
(***************************************************************************)
(* bytes_pending_commit_ is the size of the chunks of the request.         *)
HalfFull(req) == 2 * Len(req.move) >= NumSlots

Mutant_ForgetsOldChunk(t, w, k, steps) ==
  /\ free' = free - 1
  /\ todo' = [todo EXCEPT ![t] = steps]
  /\ writers' = [writers EXCEPT ![w].cur = TRUE, ![w].n = @ + 1]

(* A writer that gets a chunk returns the one it had, with the k patches   *)
(* that its unfinished packet needs in it.                                 *)
TakeChunk(t, w, k, steps) ==
  LET sync == t = IPC /\ env.c.policy = "kStall" /\ arb.req.open /\ HalfFull(arb.req)
  IN /\ free' = free - 1
     /\ todo' = [todo EXCEPT ![t] =
          (IF sync THEN <<Flush({})>> ELSE <<>>)
          \o (IF writers[w].cur THEN <<Return(w, writers[w].n, k)>> ELSE <<>>) \o steps]
     /\ writers' = [writers EXCEPT ![w].cur = TRUE, ![w].n = @ + 1,
          ![w].patches = @ \o [i \in 1 .. k |-> [n |-> writers[w].n, done |-> FALSE]]]

(* No message of the packet is open that began in an earlier chunk; a      *)
(* writer that has no chunk begins a packet, or flushes, only then.        *)
Finalized(w) == \A i \in DOMAIN writers[w].patches : writers[w].patches[i].done

PatchCounts(w) == IF writers[w].cur THEN 0 .. env.c.patches ELSE {0}

GetNewChunk(t) ==
  /\ Idle(t)
  /\ \E w \in Owner(t), k \in 0 .. env.c.patches :
       /\ writers[w].n < env.c.chunks /\ k \in PatchCounts(w)
       /\ writers[w].cur \/ Finalized(w)
       /\ free > 0 /\ TakeChunk(t, w, k, <<>>)
  /\ UNCHANGED <<arb, tasks, delayed, service, answered, env>>

(* No chunk is free.  A kDrop writer gives its chunk up and drops packets, *)
(* but sends the patches for the chunks before; a kStall writer waits.     *)
GetNewChunkExhausted(t) ==
  /\ Idle(t) /\ free = 0
  /\ \E w \in Owner(t) :
       /\ writers[w].n < env.c.chunks
       /\ IF env.c.policy = "kStall"
          THEN Start(t, <<Stall(w, 1)>>) /\ UNCHANGED writers
          ELSE /\ writers[w].cur
               /\ Start(t, ReturnCurrent(w))
               /\ writers' = [writers EXCEPT ![w].cur = FALSE]
  /\ UNCHANGED <<arb, free, tasks, delayed, service, answered, env>>

Mutant_StallWithoutFlush(t) ==
  /\ AtStep(t, "stall") /\ free > 0
  /\ \E k \in PatchCounts(Now(t).w) : TakeChunk(t, Now(t).w, k, Tail(todo[t]))
  /\ UNCHANGED <<arb, tasks, delayed, service, answered, env>>

(* Another iteration of a stalled GetNewChunk(): the IPC thread flushes    *)
(* after every second one, the others sleep.  The abort after 200 of them, *)
(* a matter of time, is left out.                                          *)
kFlushCommitsAfterEveryNStalls == 2
RetryGetNewChunk(t) ==
  LET count == (Now(t).count + 1) % kFlushCommitsAfterEveryNStalls
  IN /\ AtStep(t, "stall")
     /\ IF free > 0
        THEN \E k \in PatchCounts(Now(t).w) : TakeChunk(t, Now(t).w, k, Tail(todo[t]))
        ELSE /\ Then(t, (IF t = IPC /\ count = 0 THEN <<Flush({})>> ELSE <<>>)
                        \o <<Stall(Now(t).w, count)>>)
             /\ UNCHANGED <<free, writers>>
     /\ UNCHANGED <<arb, tasks, delayed, service, answered, env>>

(* The patches of a list that are sent: those before the first one whose   *)
(* value is not known yet.                                                 *)
NumPatched(list) ==
  CHOOSE m \in 0 .. Len(list) :
    /\ \A i \in 1 .. m : list[i].done
    /\ m < Len(list) => ~list[m + 1].done
Patched(list) == SubSeq(list, 1, NumPatched(list))
Unpatched(list) == SubSeq(list, NumPatched(list) + 1, Len(list))
CountFor(list, n) == Cardinality({i \in DOMAIN list : list[i].n = n})

(* TryDirectPatchLocked() finds the chunk among those of the request that  *)
(* are still being written; with its last patch it becomes complete.       *)
FindChunk(req, w, n) ==
  {i \in DOMAIN req.move : /\ req.move[i].writing
                           /\ writers[req.move[i].w].id = writers[w].id
                           /\ req.move[i].n = n}
DirectlyPatched(req, w, list) ==
  [i \in DOMAIN req.move |->
     LET e == req.move[i]
         m == CountFor(Patched(list), e.n)
     IN IF i \notin FindChunk(req, w, e.n) \/ m = 0 THEN e
        ELSE [e EXCEPT !.left = @ - m, !.writing = CountFor(Unpatched(list), e.n) > 0]]

(* The members of a finite set of numbers in their order.                  *)
Nth(S, k) == CHOOSE i \in S : Cardinality({j \in S : j <= i}) = k

(* The message for the patch i of a list; "more" tells the service that    *)
(* others follow for the chunk.                                            *)
PatchEntry(w, list, i) ==
  [w |-> w, n |-> list[i].n, target |-> writers[w].target,
   more |-> \E j \in i + 1 .. Len(list) : list[j].n = list[i].n]

Mutant_OnlyDirectPatches(req, w, list) ==
  LET sent == {i \in 1 .. NumPatched(list) : ~arb.direct}
  IN [k \in 1 .. Cardinality(sent) |-> PatchEntry(w, list, Nth(sent, k))]

(* The patches for chunks that the request does not hold any more.         *)
SentPatches(req, w, list) ==
  LET sent == {i \in 1 .. NumPatched(list) :
                 ~arb.direct \/ FindChunk(req, w, list[i].n) = {}}
  IN [k \in 1 .. Cardinality(sent) |-> PatchEntry(w, list, Nth(sent, k))]

(* In thread t, which has "steps" to do after it; chunk is the sequence of *)
(* the chunk to add to the request, if any.                                *)
UpdateCommitDataRequest(t, w, chunk, steps) ==
  LET list == writers[w].patches
      old == IF arb.req.open THEN arb.req ELSE EmptyRequest
      batch == ~arb.req.open /\ arb.fully_bound /\ ~arb.scheduled
      req == [old EXCEPT !.move = @ \o chunk]
      sent == SentPatches(req, w, list)
      flush == arb.fully_bound /\ (sent # <<>> \/ HalfFull(req))
  IN /\ arb' = [arb EXCEPT
                  !.req = [req EXCEPT
                             !.move = IF arb.direct THEN DirectlyPatched(req, w, list) ELSE @,
                             !.patch = @ \o sent],
                  !.scheduled = @ \/ batch]
     /\ writers' = [writers EXCEPT ![w].patches = Unpatched(list),
                                   ![w].returned = @ + Len(chunk)]
     /\ Start(t, (IF batch \/ flush THEN <<Delay>> ELSE <<>>) \o steps)
     /\ UNCHANGED <<free, tasks, delayed, service, answered, env>>

(* A chunk that needs patching is left kChunkBeingWritten if it may be     *)
(* patched in place.                                                       *)
ReturnCompletedChunk(t) ==
  /\ AtStep(t, "return")
  /\ UpdateCommitDataRequest(t, Now(t).w,
       <<[w |-> Now(t).w, n |-> Now(t).n, target |-> writers[Now(t).w].target,
          left |-> Now(t).k, writing |-> arb.direct /\ Now(t).k > 0]>>,
       Tail(todo[t]))

(* The innermost open message of the packet ends: its size is known.  When *)
(* the last one has ended the packet is finished and its patches are sent. *)
FinalizeNested(t) ==
  /\ Idle(t)
  /\ \E w \in Owner(t) :
       LET open == {i \in DOMAIN writers[w].patches : ~writers[w].patches[i].done}
       IN /\ open # {}
          /\ writers' = [writers EXCEPT ![w].patches[
               CHOOSE i \in open : \A j \in open : j <= i].done = TRUE]
  /\ UNCHANGED <<arb, free, todo, tasks, delayed, service, answered, env>>

SendPatches(t) ==
  /\ Idle(t)
  /\ \E w \in Owner(t) :
       /\ writers[w].patches # <<>> /\ Unpatched(writers[w].patches) = <<>>
       /\ UpdateCommitDataRequest(t, w, <<>>, <<>>)

EnableDirectSMBPatching ==
  /\ Idle(IPC) /\ env.c.patches > 0 /\ ~arb.direct
  /\ arb' = [arb EXCEPT !.direct = TRUE]
  /\ UNCHANGED <<writers, free, todo, tasks, delayed, service, answered, env>>

(***************************************************************************)
(* Flushes                                                                 *)
(***************************************************************************)
(* TraceWriterImpl::Flush() with a callback, which is known by its number, *)
(* and the chunks that the writer has returned by then.                    *)
FlushWriter(t) ==
  /\ Idle(t) /\ env.flushes < env.c.flushes
  /\ \E w \in Owner(t) :
       LET n == writers[w].n
           cb == [k |-> env.flushes + 1, w |-> w, n |-> n]
       IN /\ Finalized(w)
          /\ Start(t, ReturnCurrent(w) \o <<Flush({cb})>>)
          /\ writers' = [writers EXCEPT ![w].cur = FALSE]
          /\ env' = [env EXCEPT !.flushes = @ + 1]
  /\ UNCHANGED <<arb, free, tasks, delayed, service, answered>>

BufferOf(b) == IF IsReservation(b) THEN arb.reservations[b] ELSE b
Replaced(e) == IF BufferOf(e.target) = Unresolved THEN e
               ELSE [e EXCEPT !.target = BufferOf(@)]

Mutant_ChunkPlaceholdersKept(req) ==
  [req EXCEPT !.patch = [i \in DOMAIN @ |-> Replaced(@[i])]]
Mutant_PatchPlaceholdersKept(req) ==
  [req EXCEPT !.move = [i \in DOMAIN @ |-> Replaced(@[i])]]

(* In the chunks of the request, and in its patches.                       *)
ReplaceCommitPlaceholderBufferIds(req) ==
  [req EXCEPT !.move = [i \in DOMAIN @ |-> Replaced(@[i])],
              !.patch = [i \in DOMAIN @ |-> Replaced(@[i])]]
ReleaseAllAsComplete(req) ==
  [req EXCEPT !.move = [i \in DOMAIN @ |-> [@[i] EXCEPT !.writing = FALSE]]]

Mutant_AnswerWithoutCommit(t) ==
  /\ AtStep(t, "flush")
  /\ LET cbs == Now(t).cbs
         req == ReleaseAllAsComplete(ReplaceCommitPlaceholderBufferIds(arb.req))
     IN IF ~arb.fully_bound
        THEN /\ arb' = [arb EXCEPT !.callbacks = @ \cup cbs]
             /\ Then(t, <<>>)
        ELSE IF t # IPC
        THEN Then(t, <<Post(Flush(cbs))>>) /\ UNCHANGED arb
        ELSE /\ arb' = [arb EXCEPT !.req = NoRequest]
             /\ Then(t, IF arb.req.open THEN <<Commit(req, cbs)>> ELSE <<Callback(cbs)>>)
  /\ UNCHANGED <<writers, free, tasks, delayed, service, answered, env>>

Mutant_UnboundDropsCallback(t) ==
  /\ AtStep(t, "flush")
  /\ LET cbs == Now(t).cbs
         req == ReleaseAllAsComplete(ReplaceCommitPlaceholderBufferIds(arb.req))
     IN IF ~arb.fully_bound
        THEN Then(t, <<>>) /\ UNCHANGED arb
        ELSE IF t # IPC
        THEN Then(t, <<Post(Flush(cbs))>>) /\ UNCHANGED arb
        ELSE /\ arb' = [arb EXCEPT !.req = NoRequest]
             /\ Then(t, IF arb.req.open \/ cbs # {} THEN <<Commit(req, cbs)>> ELSE <<>>)
  /\ UNCHANGED <<writers, free, tasks, delayed, service, answered, env>>

FlushPendingCommitDataRequests(t) ==
  /\ AtStep(t, "flush")
  /\ LET cbs == Now(t).cbs
         req == ReleaseAllAsComplete(ReplaceCommitPlaceholderBufferIds(arb.req))
     IN IF ~arb.fully_bound
        THEN /\ arb' = [arb EXCEPT !.callbacks = @ \cup cbs]
             /\ Then(t, <<>>)
        ELSE IF t # IPC
        THEN Then(t, <<Post(Flush(cbs))>>) /\ UNCHANGED arb
        ELSE /\ arb' = [arb EXCEPT !.req = NoRequest]
             /\ Then(t, IF arb.req.open \/ cbs # {} THEN <<Commit(req, cbs)>> ELSE <<>>)
  /\ UNCHANGED <<writers, free, tasks, delayed, service, answered, env>>

(* The reply to a flush request of the service, from any thread; it goes   *)
(* out with the request that is open, if there is one.                     *)
NotifyFlushComplete(t) ==
  LET id == Len(env.asked) + 1
      old == IF arb.req.open THEN arb.req ELSE EmptyRequest
  IN /\ Idle(t) /\ t \in env.c.threads /\ arb.bound /\ id <= env.c.requests
     /\ arb' = [arb EXCEPT !.req =
                  [old EXCEPT !.flush = IF id > @ THEN id ELSE @]]
     /\ Start(t, IF ~arb.req.open /\ arb.fully_bound THEN <<Post(Flush({}))>> ELSE <<>>)
     /\ env' = [env EXCEPT !.asked =
                  Append(@, [w \in DOMAIN writers |-> writers[w].returned])]
     /\ UNCHANGED <<writers, free, tasks, delayed, service, answered>>

(***************************************************************************)
(* The task runner and the endpoint                                        *)
(***************************************************************************)
PostTask(t) ==
  /\ AtStep(t, "post")
  /\ tasks' = Append(tasks, Now(t).task)
  /\ Then(t, <<>>)
  /\ UNCHANGED <<arb, writers, free, delayed, service, answered, env>>

PostDelayedTask(t) ==
  /\ AtStep(t, "delay")
  /\ delayed' = delayed + 1
  /\ Then(t, <<>>)
  /\ UNCHANGED <<arb, writers, free, tasks, service, answered, env>>

RunTask ==
  /\ Idle(IPC) /\ tasks # <<>>
  /\ Start(IPC, <<Head(tasks)>>)
  /\ tasks' = Tail(tasks)
  /\ UNCHANGED <<arb, writers, free, delayed, service, answered, env>>

RunDelayedTask ==
  /\ Idle(IPC) /\ delayed > 0
  /\ Start(IPC, <<Clear, Flush({})>>)
  /\ delayed' = delayed - 1
  /\ UNCHANGED <<arb, writers, free, tasks, service, answered, env>>

Mutant_FlagKept ==
  /\ AtStep(IPC, "clear")
  /\ Then(IPC, <<>>)
  /\ UNCHANGED <<arb, writers, free, tasks, delayed, service, answered, env>>

ClearDelayedFlushScheduled ==
  /\ AtStep(IPC, "clear")
  /\ arb' = [arb EXCEPT !.scheduled = FALSE]
  /\ Then(IPC, <<>>)
  /\ UNCHANGED <<writers, free, tasks, delayed, service, answered, env>>

(* CommitData(), RegisterTraceWriter() and UnregisterTraceWriter() send a  *)
(* message to the service; messages arrive in order.                       *)
CallEndpoint(t) ==
  /\ \E do \in {"commit", "register", "unregister"} : AtStep(t, do)
  /\ service' = [service EXCEPT !.inbox = Append(@, Now(t))]
  /\ Then(t, <<>>)
  /\ UNCHANGED <<arb, writers, free, tasks, delayed, answered, env>>

RunCallback ==
  /\ AtStep(IPC, "callback")
  /\ answered' = Append(answered, Now(IPC).cbs)
  /\ Then(IPC, <<>>)
  /\ UNCHANGED <<arb, writers, free, tasks, delayed, service, env>>

(* The patches for a chunk in a list of them, and those that the service   *)
(* applies to a chunk: it looks the chunk up in the patch's own buffer.    *)
(* For no buffer (an aborted reservation) it drops the chunk and its       *)
(* patches alike.                                                          *)
PatchesIn(list, w, n) == {i \in DOMAIN list : list[i].w = w /\ list[i].n = n}
PatchesFor(list, e) == {i \in PatchesIn(list, e.w, e.n) : list[i].target = e.target}

Mutant_SkipsInvalidTarget(m) ==
  LET req == m.req
      valid == SelectSeq(req.move, LAMBDA e : e.target # kInvalidBufferId)
      got == service.landed \o valid
  IN /\ service' = [service EXCEPT
          !.inbox = Tail(@),
          !.landed = [i \in DOMAIN got |->
             [got[i] EXCEPT !.left =
                @ - Cardinality(PatchesFor(req.patch, got[i]))]],
          !.flushed = IF req.flush > @ THEN req.flush ELSE @]
     /\ free' = free + Len(valid)
     /\ tasks' = IF m.cbs = {} THEN tasks ELSE Append(tasks, Callback(m.cbs))

(* The service moves the chunks in the order of the request, which frees   *)
(* them, patches those it has, takes note of the flush reply and answers.  *)
ServiceCommit(m) ==
  LET req == m.req
      got == service.landed \o req.move
  IN /\ service' = [service EXCEPT
          !.inbox = Tail(@),
          !.landed = [i \in DOMAIN got |->
             [got[i] EXCEPT !.left =
                @ - Cardinality(PatchesFor(req.patch, got[i]))]],
          !.flushed = IF req.flush > @ THEN req.flush ELSE @]
     /\ free' = free + Len(req.move)
     /\ tasks' = IF m.cbs = {} THEN tasks ELSE Append(tasks, Callback(m.cbs))

ServiceStep ==
  /\ service.inbox # <<>>
  /\ LET m == Head(service.inbox)
     IN \/ m.do = "commit" /\ ServiceCommit(m)
        \/ /\ m.do = "register"
           /\ service' = [service EXCEPT !.inbox = Tail(@),
                !.registered = {r \in @ : \A x \in m.ws : x.id # r.id} \cup m.ws]
           /\ UNCHANGED <<free, tasks>>
        \/ /\ m.do = "unregister"
           /\ service' = [service EXCEPT !.inbox = Tail(@),
                !.registered = {r \in @ : r.id # m.id}]
           /\ UNCHANGED <<free, tasks>>
  /\ UNCHANGED <<arb, writers, todo, delayed, answered, env>>

(***************************************************************************)
Call(t) ==
  \/ \E b \in Buffers \cup Reservations : CreateTraceWriter(t, b)
  \/ \E r \in Reservations : AbortStartupTracingForReservation(t, r)
  \/ DestroyTraceWriter(t) \/ GetNewChunk(t) \/ GetNewChunkExhausted(t)
  \/ FinalizeNested(t) \/ SendPatches(t) \/ FlushWriter(t)
  \/ NotifyFlushComplete(t)

Bind ==
  \/ BindToProducerEndpoint
  \/ \E r \in Reservations, b \in Buffers : BindStartupTargetBuffer(r, b)
  \/ EnableDirectSMBPatching \/ TryShutdown

(* What a thread does without being called.                                *)
Step(t) ==
  \/ ReleaseWriterID(t) \/ RetryGetNewChunk(t) \/ ReturnCompletedChunk(t)
  \/ FlushPendingCommitDataRequests(t) \/ PostTask(t) \/ PostDelayedTask(t)
  \/ CallEndpoint(t)

TaskRunner ==
  \/ RunTask \/ RunDelayedTask \/ ClearDelayedFlushScheduled
  \/ RunCallback \/ RunAbort

Next ==
  \/ \E t \in Threads : Call(t) \/ Step(t)
  \/ Bind \/ TaskRunner \/ ServiceStep

Spec == Init /\ [][Next]_vars

(* Threads run, the task runner runs what was posted, delayed tasks run in *)
(* the end, and the service handles its messages.                          *)
FairSpec ==
  /\ Spec
  /\ \A t \in Threads : WF_vars(Step(t))
  /\ WF_vars(RunDelayedTask) /\ WF_vars(TaskRunner) /\ WF_vars(ServiceStep)

(***************************************************************************)
(* Properties                                                              *)
(***************************************************************************)
(* What is ahead, wherever it is: a step of a thread, a posted task, a     *)
(* message to the service.                                                 *)
Steps(t) == {todo[t][i] : i \in DOMAIN todo[t]}
Posting == {s \in UNION {Steps(t) : t \in Threads} : s.do = "post"}
Ahead == (UNION {Steps(t) : t \in Threads}) \cup {s.task : s \in Posting}
         \cup {tasks[i] : i \in DOMAIN tasks}
         \cup {service.inbox[i] : i \in DOMAIN service.inbox}
Coming(do) == {s \in Ahead : s.do = do}

Request == [open : BOOLEAN,
            move : Seq([w : 1 .. MaxWriters, n : 1 .. MaxChunks, left : Nat,
                        target : Buffers \cup Reservations \cup {kInvalidBufferId},
                        writing : BOOLEAN]),
            patch : Seq([w : 1 .. MaxWriters, n : 1 .. MaxChunks,
                         target : Buffers \cup Reservations \cup {kInvalidBufferId},
                         more : BOOLEAN]),
            flush : Nat]

(* The types of the members of the arbiter and of its surroundings.        *)
TypeOK ==
  /\ arb.bound \in BOOLEAN /\ arb.fully_bound \in BOOLEAN
  /\ arb.fully_bound => arb.bound
  /\ arb.was_always_bound => arb.fully_bound
  /\ env.c.policy = "kStall" => arb.was_always_bound
  /\ arb.req \in Request /\ (arb.req # NoRequest => arb.req.open)
  /\ arb.ids \subseteq 1 .. kMaxWriterID
  /\ \A p \in arb.pending : arb.reservations[p.target] = Unresolved
  /\ Len(writers) <= MaxWriters /\ delayed \in Nat
  /\ free \in 0 .. NumSlots

(* Every chunk of the shared memory is free, or a writer has it, is about  *)
(* to return it, or has returned it in the request or in a message that    *)
(* the service has not handled yet: none is lost, or freed twice, however  *)
(* GetNewChunk(), ReturnCompletedChunk() and commits interleave.           *)
ChunksHeld == {<<w, writers[w].n>> : w \in {v \in DOMAIN writers : writers[v].cur}}
ChunksReturning == {<<s.w, s.n>> : s \in Coming("return")}
ChunksOf(move) == {<<move[i].w, move[i].n>> : i \in DOMAIN move}
InUse == ChunksHeld \cup ChunksReturning \cup ChunksOf(arb.req.move)
         \cup UNION {ChunksOf(m.req.move) : m \in Coming("commit")}
ChunksAreConserved == free + Cardinality(InUse) = NumSlots

(* A chunk reaches the service once and in the order in which its writer   *)
(* returned it, for the buffer that its writer's target stands for, never  *)
(* for a placeholder ("we must guarantee that we don't accidentally make   *)
(* commits out of order", FlushPendingCommitDataRequests).                 *)
EarlierFrom(w, i) == {j \in 1 .. i - 1 : service.landed[j].w = w}
ChunksReachTheirBuffer ==
  \A i \in DOMAIN service.landed :
    LET e == service.landed[i]
    IN /\ {service.landed[j].n : j \in EarlierFrom(e.w, i)} = 1 .. e.n - 1
       /\ e.target = BufferOf(writers[e.w].target)
       /\ e.target \in Buffers \cup {kInvalidBufferId}

(* Every patch that a chunk still misses, in the request, on its way or at *)
(* the service, is still to come: none is lost or applied twice when the   *)
(* arbiter patches in place and a flush takes the chunk away (TryDirect-   *)
(* PatchLocked, UpdateCommitDataRequest).                                  *)
OnTheWay == service.inbox \o todo[IPC]
Commits == {i \in DOMAIN OnTheWay : OnTheWay[i].do = "commit"}
Outstanding(w, n) ==
  CountFor(writers[w].patches, n) + Cardinality(PatchesIn(arb.req.patch, w, n))
  + Cardinality(UNION {{i} \X PatchesIn(OnTheWay[i].req.patch, w, n) : i \in Commits})
PatchesAreNotLost ==
  LET Owes(move) == \A i \in DOMAIN move :
        move[i].left = Outstanding(move[i].w, move[i].n)
  IN /\ Owes(arb.req.move)
     /\ \A i \in Commits : Owes(OnTheWay[i].req.move)
     /\ Owes(service.landed)

(* The chunk n of writer w has reached the service.                        *)
Landed(w, n) == \E i \in DOMAIN service.landed :
  service.landed[i].w = w /\ service.landed[i].n = n

(* A flush callback runs once, after the service has got every chunk that  *)
(* its writer returned; a flush reply of the producer arrives after every  *)
(* chunk returned before it (FlushPendingCommitDataRequests,               *)
(* NotifyFlushComplete: one reply may stand for several requests).         *)
AnswersFollowData ==
  /\ \A i \in DOMAIN answered :
       /\ \A cb \in answered[i] : \A n \in 1 .. cb.n : Landed(cb.w, n)
       /\ \A j \in DOMAIN answered : i # j => answered[i] \cap answered[j] = {}
  /\ \A k \in 1 .. service.flushed : \A w \in DOMAIN env.asked[k] :
       \A n \in 1 .. env.asked[k][w] : Landed(w, n)

(* While the arbiter is fully bound, a request that is open is about to be *)
(* flushed, and no callback is left waiting for the arbiter to be bound    *)
(* ("If a commit_data_req_ exists it means that somebody else already      *)
(* posted a FlushPendingCommitDataRequests() task", NotifyFlushComplete).  *)
FlushComing ==
  delayed > 0 \/ Coming("delay") # {} \/ Coming("flush") # {}
NoLostWakeUp ==
  arb.fully_bound => /\ arb.req.open => FlushComing
                     /\ arb.callbacks = {}

(* Two live writers have different ids.  Once the messages about writers   *)
(* have arrived, the service knows exactly the live writers whose buffer   *)
(* is known, except those whose id MayBeOvertaken when they got it         *)
(* (CreateTraceWriterInternal, ReleaseWriterID).                           *)
RegistrationsFollowWriters ==
  LET bound == {w \in DOMAIN writers : Live(w) /\ BufferOf(writers[w].target) \in Buffers}
      entry(w) == [id |-> writers[w].id, target |-> BufferOf(writers[w].target)]
      known == {entry(w) : w \in bound}
  IN /\ \A v, w \in DOMAIN writers :
          Live(v) /\ Live(w) /\ v # w => writers[v].id # writers[w].id
     /\ Coming("register") \cup Coming("unregister") = {}
          => /\ service.registered \subseteq known
             /\ \A e \in known : e \in service.registered \/ e.id \in env.overtaken

(* Once the arbiter is bound and stays so, every chunk returned to it      *)
(* reaches the service: the service catches up with the writers.           *)
BoundForGood == <>[]arb.fully_bound
CaughtUp == \A w \in DOMAIN writers : \A n \in 1 .. writers[w].returned : Landed(w, n)
ChunksArrive == BoundForGood => []<>CaughtUp

(* ... and every flush, of a writer or of the service, is answered, also   *)
(* if it was asked for while the arbiter was not bound, or was taken up by *)
(* a bind that another startup writer undid (BindToProducerEndpoint).      *)
Answered ==
  /\ \A k \in 1 .. env.flushes :
       \E i \in DOMAIN answered : \E cb \in answered[i] : cb.k = k
  /\ service.flushed = Len(env.asked)
FlushesAreAnswered == BoundForGood => []<>Answered

(* A writer that stalls for want of a free chunk gets one, also when it    *)
(* stalls the thread that alone can send the commits (GetNewChunk).        *)
Stalled(t) == \E s \in Steps(t) : s.do = "stall"
StallsEnd == \A t \in Threads : []<>~Stalled(t)
==============================================================================
