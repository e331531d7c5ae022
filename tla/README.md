# TLA+ models of Perfetto

Perfetto records traces: producers write packets into memory that they share
with a service, the service moves them into central buffers, and a consumer
reads them out. This directory holds TLA+ models of that path, of the
sessions that consumers run on the service, and of the second shared memory
channel of the repository, the one from a profiled process to heapprofd; TLC
configurations that check them on small instances; and TLAPS proofs.
Paths below are relative to the repository's checkout; `core/` stands for
`src/tracing/core/`, `memory/` for `src/profiling/memory/`. `PROJECT.json` maps every definition to the lines it
models.

## 1. Inventory

| Component | State | Operations | Hard behaviour |
|---|---|---|---|
| **Shared memory ABI** `core/shared_memory_abi.{cc,h}` | one 32-bit layout word per page (partitioning and 2 bits per chunk), a header per chunk | partition a page, acquire a chunk for writing or reading, release it, count a packet | lock-free: several threads of the producer and the service change one word by compare-exchange, with a bounded number of retries; headers are initialised after the chunk is acquired |
| **Trace writer** `core/trace_writer_impl.{cc,h}`, `patch_list.h` | current chunk, next chunk id, open packet, patch list, drop mode | start and finish a packet, continue it in a new chunk, finalise a nested message, flush | a packet spans chunks, sizes of nested messages become known after their chunk has gone, chunks run out in the middle of a packet |
| **Shared memory arbiter** `core/shared_memory_arbiter_impl.{cc,h}` | pending commit request, writer ids, unbound startup writers, direct patching | get a chunk, return one, send patches, flush, bind to an endpoint or a target buffer | one lock shared by all writers, left and re-entered around posted tasks; stalls; binding races flushing |
| **Trace buffer** `core/trace_buffer.{cc,h}` | a ring of records, an index by {producer, writer, chunk id}, the newest chunk id per sequence, the read iterator | copy a chunk, patch it, begin to read, read the next packet | records of different sizes wrap and are padded, chunk ids wrap, chunks are copied again after they were scraped, packets are glued from several chunks |
| **Tracing service, data path** `core/tracing_service_impl.cc` | producers and their shared memory, buffers | `CommitData`, `ApplyChunkPatches`, `ScrapeSharedMemoryBuffers`, `ReadBuffers` | scraping reads chunks that are being written |
| **Tracing service, sessions** same file | sessions, data source instances, pending flushes, consumers | enable, start, flush, disable, free, detach, attach, triggers, bugreports; producers connect, register, acknowledge, leave | acknowledgements race timeouts and freed sessions; a consumer leaves in the middle; one handler runs inside another |
| **heapprofd channel** `memory/shared_ring_buffer.{cc,h}`, `client.cc`, `client_api.cc`, `unwinding.cc` | read and write positions, spinlock, pause and shutdown flags; the client's tries; the worker's batch and drain jobs | reserve, copy and publish a record; read a batch, pause, wake, drain, disconnect | writers complete out of order, the reader takes no lock, either process may end at any step |
| Client library and muxer `src/tracing/internal/` | backends, data source instances | connect, setup, start, stop | reconnection, re-entrant callbacks |
| IPC `src/ipc/`, `src/tracing/ipc/` | connections, outstanding requests | invoke, reply, disconnect | disconnection in the middle of a request |
| Task runners `src/base/` | queues of immediate and delayed tasks | post, run | tasks of several threads in one order, delayed ones in any |
| Trace processor, protozero, probes, `perfetto` command, UI | | | sequential parsing and I/O |

How they interact: a writer gets chunks from the arbiter, which acquires them
through the ABI; a full chunk goes back to the arbiter, which collects the
chunks to move and the patches to apply in a commit request and sends it from
the producer's task runner. The service, on one thread, acquires every chunk
of the request for reading, copies it into a trace buffer, frees it and then
applies the patches. At a flush, when a session ends or a producer
disconnects it also scrapes the chunks that nobody committed. The consumer's
`ReadBuffers` reads packets out of the buffer.

What makes each part correct:

* **ABI**: a chunk has one owner at a time, its state moves only along the
  diagram in the header, no other thread's change to the same word is lost,
  the `PERFETTO_CHECK`s of `ReleaseChunk` cannot fail, what the service
  copies carries the writer and chunk id of the writer that filled it, and
  no call goes on for ever.
* **Trace buffer**: the ring can always be walked from record to record and
  agrees with the index; nothing unread is evicted under `kDiscard`; reading
  terminates whatever the producer put into the chunks.
* **Pipeline**: the consumer gets whole packets, each one once and in the
  order of its writer; a gap is announced; well-behaved producers are not
  taken for misbehaving ones; the service does not abort; what has been
  flushed arrives.
* **Arbiter**: chunks and patches reach the service once, in order and for the
  right buffer; a flush is answered once, and after the data; nothing waits
  for a flush that nobody will run; the service's table of writers follows
  the writers; a stalled writer goes on.
* **Sessions**: a session, its consumer and its instances agree about each
  other; a session goes through its states once and tells its consumer once;
  a flush succeeds only if its producers acked it; flushes and sessions end in
  spite of producers that never answer.
* **heapprofd channel**: the ring is a FIFO of whole records; a reader at rest
  can be woken; what could be read when a client left is delivered; calls
  and disconnections end.

## 2. Modules

| Module | What it is |
|---|---|
| `SharedMemoryABI` | the ABI, one step per atomic access, and the two places of the service that use it |
| `ChunkLifecycle` | abstract specification: the life of a chunk, without pages, words and retries |
| `MCSharedMemoryABI` | TLC instance |
| `SharedMemoryABIProofs` | theorems about `SharedMemoryABI` |
| `TraceBuffer` | the ring, the index and the reader |
| `MCTraceBuffer` | TLC instances: the chunks that may be copied |
| `TraceBufferProofs` | theorems about `TraceBuffer` |
| `TraceWriter` | writers, the shared memory buffer at the grain of calls, the pending commit request |
| `TracePipeline` | `TraceWriter` composed with the commit queue, the service and an instance of `TraceBuffer` |
| `MCTracePipeline` | TLC instances: record sizes |
| `SharedMemoryArbiter`, `MCSharedMemoryArbiter` | the arbiter with its lock, tasks, writer ids and startup reservations, and the service's end as far as it relies on it |
| `SharedMemoryArbiterProofs`, `SharedMemoryArbiterAnswerProofs`, `SharedMemoryArbiterPatchProofs` | theorems about `SharedMemoryArbiter` |
| `TracingService`, `MCTracingService` | sessions, producers, consumers, flushes, timers |
| `SessionLifecycle` | abstract specification: what a consumer may expect of a session |
| `FoldInduction` | induction over a fold, for the loops of the service |
| `TracingServiceProofs` | lemmas about the handlers of the service, theorems about `TracingService` |
| `SharedRingBuffer` | heapprofd's ring buffer, one step per access to shared memory |
| `RecordQueue` | abstract specification: the queue that the ring buffer implements |
| `HeapprofdChannel`, `MCHeapprofdChannel` | client threads, ring, control socket and unwinding worker |
| `HeapprofdChannelProofs` | lemmas about the ring, theorems about the channel |

Definitions named `Mutant_...` stand before the definition they vary. They
are no part of a specification: each one is a plausible mistake in the code
behind that definition, and substituting it breaks the property that
`PROJECT.json` pairs it with.

### SharedMemoryABI

`layout` holds the layout words, `header` the chunk headers, `pc` and `call`
the position and the local variables of each thread inside `TryAcquireChunk`,
`ReleaseChunk` or the scraper (`scan`), `held` the `Chunk` objects that a
thread owns, and `stamp` (a history variable) the header with which a chunk
was acquired. A step is a load or a compare-exchange of a layout word, a
store to a header field, or a load by the scraper. The two relaxed stores of
`TryAcquireChunk` and of `ClearChunkHeader` may take effect in either order;
the packet count, stored with release, comes last.

The arbiter acquires and completes chunks under its lock. The model does not
rely on that: the writer threads interleave freely, so that the protocol is
shown to be safe by itself. A release that loses `kRetryAttempts`
compare-exchanges abandons the chunk, as the release build does after its
`PERFETTO_DFATAL`. The producer uses one partitioning, the arbiter's
`default_page_layout`.

`ChunkLifecycle` promises, for each chunk separately, that a chunk is taken
only when free or complete and unowned, is given on only by its owner, and
that its packet count moves only in the owner's hands and is zero when it
becomes free.

### TraceBuffer

`buf` is the memory: records by offset, `wptr_` and the index. Offsets and
sizes count the 16-byte units to which the code rounds records. A chunk's
payload is a sequence of fragments; a fragment has a label (what it is), the
number of its size fields still to be patched, and what its own size field
says. `CopyChunkUntrusted` and `TryPatchChunkContents` are one action each.
The reader's loops are unrolled into steps: `EndOfSequence`, `EnterChunk`,
`SkipFragment`, `ReadOnePacket`, `ReadAhead`, `ReadAheadFails` and
`LeaveChunk`, so that its termination is a question of liveness. The service
copies and reads on one thread: nothing is copied between two steps of a call
of `ReadNextTracePacket`, but anything may be between two reads.

Behind the last fragment of a payload lie rounding bytes or leftovers of
older data. A reader that gets there finds, nondeterministically, an empty
fragment or one that does not fit (`PastTheEnd`).

### TraceWriter and TracePipeline

`smb` are the chunks of the shared memory buffer, `writer` the state of each
`TraceWriterImpl`, `req` the arbiter's pending request, `ipc` the requests on
their way. A step of a writer is one call (`NewTracePacket`, the callback
`GetNewBuffer` when the chunk is full, `Finalize` of a nested message,
finishing a packet, `Flush`) with everything it does to the chunk and to the
request. Patches stay with the writer until they and all patches before them
are complete, and go out with the next returned chunk, with the next packet
that begins, or at once if the packet is ended by `FinishTracePacket` and not by
the destructor of its handle (`FinalizePacket`). `FragmentPacket`
gets the new chunk before it returns the old one, as `GetNewBuffer` does.
`NewTracePacketExhausted` and `FragmentExhausted` enter the drop mode: packets
go to a garbage chunk, a packet that has begun in real chunks is ended by a
`kPacketSizeDropPacket` fragment, and the first packet afterwards is marked
`previous_packet_dropped`.

On the service's side `CommitChunk`, `ApplyChunkPatch` and `EndCommit` are the
loop of `CommitData`; `ScrapeLayout`, `ScrapeChunk` and `NextPage` the loop of
`ScrapeSharedMemoryBuffers`, which works on a layout word loaded once per
page; `BeginRead` and `GoOnReading` the loop of `ReadBuffers`. `busy` keeps
them from interleaving with each other, as one thread runs them; the writers
may run in between. With `Concurrent = FALSE` they pause during a scan. That
is a restriction the code does not have: it separates what scraping does at
all from what its race with the writers adds (section 5).

### SharedMemoryArbiter

`arb` holds the members under `lock_`: the binding flags, the pending request
`commit_data_req_`, the flush callbacks, the writers waiting to be registered,
the reservations and the writer ids. `writers` are the trace writers, with
the chunks they returned and the patches they still keep; `todo[t]` is what
thread `t` does after leaving the lock, so that another thread may run between
any two critical sections; `tasks` and `delayed` are the task runner's queues;
`service` is the other end of the connection, where `landed` is the sequence of
the chunks that arrived. Actions carry the names of the
methods. `UpdateCommitDataRequest` is the critical section shared by
`ReturnCompletedChunk` and `SendPatches`, `DirectlyPatched` is
`TryDirectPatchLocked`, `ReplaceCommitPlaceholderBufferIds` runs inside
`FlushPendingCommitDataRequests`. A patch carries the target of its writer, as a
chunk does, and the service applies it only if it finds the chunk in the buffer
the patch names. A chunk is known by its writer and number;
how it is laid out and what it holds are the subject of `SharedMemoryABI` and
`TraceWriter`. `NumSlots` chunks are shared by all writers.

### TracingService and SessionLifecycle

The service has one thread, so a handler is one step. Handlers call each other
(a disconnecting producer unregisters data sources, which stops instances,
which may disable a session, which writes its file): each is an operator from
a service state to the next, composed as the calls are, and the actions at the
end of the module apply them to `svc`. Acknowledgements that a producer owes
are a set (`owed`), taken in any order or never. A delayed task that does
nothing unless its session or flush still waits for it (the flush, stop and
trigger timeouts, the periodic flush) may run whenever that is so; the others
are in the session's `timers`. `crashed` becomes true where the code
dereferences a session that is gone.

`SessionLifecycle` is what remains without producers, flushes, triggers and
timers: a session moves forward only, the consumer attached when it ends is
told once, a trace seized for a bugreport is handed over once.

### SharedRingBuffer, RecordQueue and HeapprofdChannel

`mem` is the buffer by units of 8 bytes, `read_pos` and `write_pos` grow
without bound. `BeginWrite` (under the lock: check the space, clear the size
word), `AdvanceWritePos` (publish the space), `CopyPayload` and `EndWrite`
(publish the size) are the writer's accesses; `BeginRead` (load the
positions), `LoadHeader`, `HandleBuffer` and `EndRead` the reader's. Accesses
are sequentially consistent: the code orders those to the positions, the
headers and the lock with acquire and release, except for the relaxed store of
`read_pos`, whose delay only makes the buffer look fuller. The flags
`shutting_down` and `reader_paused` are relaxed throughout
(`memory/shared_ring_buffer.h:165-179`); a delay of theirs is not modelled.

`HeapprofdChannel` adds what uses the ring: the loop of
`SendWireMessageWithRetriesIfBlocking` and the wake-up of the reader per
thread, `ShutdownLazy` and the reference count of the client, the control
socket, and the worker's `OnDataAvailable`, `BatchUnwindJob`, `DrainJob`,
`OnDisconnect`, `HandleDisconnectSocket` and `PostPurgeProcess`. The process
may die between any two steps, with the lock held or a record unfinished.

## 3. Runs

| Run | Configuration | Shows |
|---|---|---|
| `abi` | fair; 2 writers, 1 page of 2 chunks, 2 attempts, counts to 2 | `ChunkOwnership`, `NoCheckFailure`, `CopiesAreAttributed`, `ImplementsLifecycle` (refinement of `ChunkLifecycle`), `CallsReturn` |
| `buffer_ring` | a ring of 5 units, records of 1 to 3 and one too large, ids 0, 1 and the largest, both policies | `TypeOK`, `BufferIntact`, `DiscardKeepsUnread` |
| `buffer_reader` | fair; a ring of 3 units, all 3 ids, chunks with arbitrary flags and counts | `ReadsReturn` |
| `pipeline_ring` | 1 writer, 2 chunks of shared memory, 3 packets over at most 6 chunks, ids modulo 5, a ring of 2 records, `kDrop` | `TypeOK`, `WholePackets`, `InOrder` |
| `pipeline_scrape` | fair; 2 packets over at most 3 chunks, 2 scans, a ring of 3 records of one unit each, both policies | `WholePackets`, `NoABIViolation`, `InOrder`, `FlushedPacketsArrive` |
| `sessions` | fair; the scenarios of `MCTracingService` | `TypeOK`, `InstancesMatchSession`, `ConsumerLinks`, `SuccessIsEarned`, `Lifecycle` (refinement of `SessionLifecycle`), `SessionsEnd`, `FlushesAreAnswered` |
| `arbiter` | fair; the scenarios of `MCSharedMemoryArbiter` | `TypeOK`, `ChunksAreConserved`, `ChunksReachTheirBuffer`, `PatchesAreNotLost`, `AnswersFollowData`, `NoLostWakeUp`, `RegistrationsFollowWriters`, `ChunksArrive`, `FlushesAreAnswered`, `StallsEnd` |
| `heapprofd` | fair; the scenarios of `MCHeapprofdChannel` | `TypeOK`, `RingIntact`, `ReaderCanBeWoken`, `DrainsEverything`, `ImplementsQueue` (refinement of `RecordQueue`), `DisconnectsEnd`, `CallsReturn` |
| `scrape_at_end`, `scrape_race`, `null_session`, `heapprofd_lockup` | | counterexamples, section 5 |

The last three models are large in the variety of their inputs rather than in
numbers. A *scenario* restricts the environment: which calls are made, by whom,
and how often. `Init` chooses one, and within it everything interleaves
freely; a run explores all its scenarios.

* `MCTracingService`: `Departures` (producers and consumers come and go during
  a session), `Acks` (two producers, one of which acknowledges), `Kinds`
  (sessions with start and stop triggers and ones that write a file, saved for
  a bugreport or not), `PairFlushed`, `PairTriggered`, `PairSaved` (two
  sessions that share producers, flush ids, triggers and the choice of a
  bugreport), `Handover` (a session passes from one consumer to another),
  `Watch` (a consumer observes its data sources).
* `MCSharedMemoryArbiter`: `Startup`, `Unbound`, `Requests` (binding before,
  after and between commits, flushes and flush requests), `Recycle`,
  `Departing`, `Latecomer` (ids reused, writers destroyed before binding,
  reservations aborted), `Overtaking` (a startup writer gets an id that the
  service is still to forget), `Stalling`, `Dropping` (no free chunk), `Patching`
  (patches in place and by request), `LatePatching` (patches for a startup
  buffer that is bound or aborted while they wait), `StallPatching`,
  `DropPatching` (patches left when no chunk is free).
* `MCHeapprofdChannel`: `Full`, `Blocked`, `TooLarge` (no space, with and
  without retries, and never), `Dying`, `Replaced`, `Stopped`, `Purged`
  (every way a client ends). Record sizes make wraps, an exactly full buffer
  and a record across the end of the buffer happen in 8 units.

Why the bounds are enough for the questions asked:

* Every conflict of the ABI is between two chunks of one word, or between two
  threads and one chunk; two writers, the service and two chunks give all of
  these, and two attempts give a retry that succeeds and one that gives up.
  A packet count of 2 is the threshold that the scraper tests. The theorems
  of section 4 do not depend on the bounds.
* The ring of 5 units holds every arrangement of up to five records of three
  sizes, with every leftover that padding has to fill, and wraps. Ids 0, 1
  and the largest are neighbours across the wrap-around.
* In `buffer_reader` three ids make a full circle in which every chunk has a
  successor, the case in which an iterator without an end would turn for ever.
  With so few ids `last_chunk_id_written_` never moves (`kMaxChunkID / 2 = 1`),
  so that the end of the circle is always at id 0; the other runs use 5 or 8.
* In the pipeline a packet can have three or more fragments, chunks hold up to two
  fragments, the shared memory buffer runs out, a chunk is scraped twice, and
  (`pipeline_ring`) the ring overwrites unread chunks and ids wrap. The ring
  always holds fewer chunks than half of the ids, as in reality, where the ids
  are 2^32.
* Sessions meet each other only through producers, flush ids, triggers,
  detach keys and the choice of a bugreport, so that two sessions and two
  producers show every conflict. `MaxPendingFlushes` is 1, so that the limit
  is met; the limit on sessions only makes `EnableTracing` return at once and
  is not.
* The arbiter's races are between two threads at one critical section, or
  between a thread and the task runner; two writer threads and the task
  runner's give both. Two writer ids for three writers make ids come back.
* In the ring two threads suffice for completion out of order, and a batch of
  2 for a batch that ends with records left.

`CHECK_DEADLOCK FALSE` is set everywhere but in `abi`: the other systems come
to rest when their clients have nothing more to do, that is when the bounds
on packets, chunks, calls or scans are used up, or when the service has
aborted.

Fairness. `CallsReturn`: a thread inside a call keeps being scheduled;
nothing is assumed about threads that are idle. `ReadsReturn`: the service's
thread goes on while it is in `ReadNextTracePacket`. `FlushedPacketsArrive`:
a commit that was posted is sent (`WF` on the flush), scans and reads go on
once begun, and the service takes up commits and reads again and again (`SF`,
because one thread alternates between them and each is disabled while
another runs; a task queue serves both in order). The consumer is
assumed to keep asking. Nothing is assumed of the writers. The run has more
chunks than writers: a writer that continues a packet holds its full chunk
while it waits for the next, and with as many writers as chunks all of them
may wait, which the code ends by aborting after 200 stalls
(`core/shared_memory_arbiter_impl.cc:198`).
In `TracingService` only the tasks that the service has posted to itself are
fair (`ServiceTask`): completions, timeouts and timers. Nothing is assumed of
producers and consumers, which may never call again. In `SharedMemoryArbiter`
threads go on after they have left the lock, the task runner runs its tasks,
a delayed task runs some time, and the service handles its messages; nobody
has to call. `ChunksArrive` and `FlushesAreAnswered` are claimed of an arbiter
that is in the end bound for good, since a producer may never be connected. In
`HeapprofdChannel` the threads of a living process go on inside a call and the
worker serves its tasks and its socket; nobody has to allocate.

## 4. Proofs

`SharedMemoryABIProofs` proves for any number of writers, pages, chunks,
attempts, packet counts and chunk ids (assumption `ABIAssumption`: all of
them positive numbers):

* `TypeCorrect`: `Spec => []TypeOK`.
* `OwnershipHolds` and `ChecksHold`: `Spec => []ChunkOwnership` and
  `Spec => []NoCheckFailure`. Ownership alone is not inductive: when a
  compare-exchange succeeds, that the chunk was free or complete is known only
  from the word that was loaded earlier, and a release passes its CHECKs only
  because the caller holds the chunk. The inductive invariant `OwnerInv` adds
  that a thread inside `copy`, `header` or a release holds the chunk of its
  call, that the word seen before an acquisition shows the chunk in the state
  it expects on a partitioned page, and that an unpartitioned page is the zero
  word. `AcquireSwapStates` and `ReleaseSwapStates` state what a successful
  compare-exchange does to every chunk, the ones of the same word included.
* `AttributionHolds`: `Spec => []CopiesAreAttributed`. The invariant
  `HeaderInv` adds to `OwnerInv` what the comment at
  `core/tracing_service_impl.cc:1847` appeals to: a free chunk announces no
  packets (`FreeIsClear`); a chunk that is complete, or written and past its
  initialisation, carries its header (`StampedHeaders`); a writer that
  initialises a header has not stored the count yet (`HeaderProgress`); the
  service clears the count before it frees a chunk (`ServiceProgress`); and a
  layout word held by the scraper ages only from being written to complete
  (`ScanAges`, `ScanSafe`).
* `LifecycleHolds`: `Spec => ImplementsLifecycle`.
  Under `HeaderInv` every step of the ABI is a step of `ChunkLifecycle` for
  at most one chunk, or leaves all of them: `OwnerInv` gives the owner that a
  step of the abstract specification asks for, `FreeIsClear` that a chunk
  which becomes free has the count zero.

`HeapprofdChannelProofs` proves for any size of the ring, any threads,
retries, batches and sequences of calls (assumptions `RingConstants` and `ChannelConstants`: sizes
are positive, the record types have disjoint sets of sizes, and `MaxRecords`
is at least the number of calls of a scenario):

* `RingIntactHolds`, `TypeHolds`. The inductive part for the ring is
  `RingInv`: the records tile the space up to `write_pos` (`Tiling`), the
  reader has read a prefix of them (`InOrder`), the positions differ by at
  most the size (`Space`), so that two records which are not yet read never
  share a unit of memory although positions wrap around; the headers and
  payloads of unread records are what their writers stored (`Headers`,
  `Payloads`); the one thread that holds the lock is the one that reserves
  (`LockHolder`), and a writer behind its reservation is at the record it
  reserved (`WritersInPlace`). Nothing is assumed of the death of the process
  between two of these steps.
* `ReaderCanBeWokenHolds`, `DrainsEverythingHolds`. `ChannelInv` adds to
  `RingInv` how the calls of the client, the socket, the tasks and the worker
  go together: a thread that writes is in a call that sends
  (`CallsMatchWrites`); one token goes around, which is a posted or running
  job, the pause bit, a thread that took the bit, or the byte in the socket,
  and is never lost while the client is connected (`OneToken`); a record that
  was read is with the main thread or waits for its batch (`Accounted`); the
  records that are due lie within the bytes still to be drained, and a drain
  that finds no data has read them (`Draining`). `Budget` counts the
  records still to be written, which keeps the history within `MaxRecords`.
* `QueueHolds`: `Spec => ImplementsQueue`, the refinement of `RecordQueue`.
  `AdvanceWritePos` appends a record that is not written yet, `EndWrite`
  marks it written, and `HandleBuffer` takes the first one, which the
  invariant shows to be written and to hold its own payload.

`SharedMemoryArbiterProofs`, `SharedMemoryArbiterAnswerProofs` and
`SharedMemoryArbiterPatchProofs` prove for any threads, reservations, buffers, writer ids, chunks and scenarios
(assumption `ArbiterConstants`; stalling is for arbiters bound from the start
and writers without a reservation, as the code asserts):

* `NoLostWakeUpHolds`. `WakeInv` adds to the property that a delayed flush
  that `arb.scheduled` announces is in the queue, about to be posted, or being
  run (`Booked`), and that an arbiter is fully bound only when it is bound
  (`BoundFirst`). The step that needs it is the one that opens a request: it
  relies on the flag or posts a flush.
* `ChunksReachTheirBufferHolds`. The invariant `StreamInv` follows a chunk
  from the writer to the service. `ThreadInv`: a thread has at most one chunk
  in hand, the next one of its writer, and only the IPC thread sends, with the
  commit as the first thing it does after the lock (otherwise a later request
  could overtake it). `Stream`: the chunks that have landed, those of the
  messages on the wire in their order, and those of the request form one list,
  in which the chunks of each writer come in order and without gaps.
  `TargetsKept`: entries of the request carry the target of their writer,
  reservations included, entries behind it the buffer that the target stands
  for. `Binding`: a request leaves only when all its reservations are
  settled, and a settled reservation never changes, also not by an abort that
  was posted before it was bound.
* `AnswersFollowDataHolds`. A callback passes through many hands: the thread
  that flushes, the arbiter while it is not fully bound, a posted task, the
  message that carries the request, the reply of the service. `AnswerInv` adds
  to `StreamInv` what each of them may assume. `Waiting`: a callback that has
  not left with a message stands for chunks that are returned already, or for
  the one that its thread returns first. `Carried`: the message with a
  callback, and those before it, bring all the chunks the callback stands for;
  this holds because a request takes all that was returned before it, which
  is `Stream`. `Given`: a posted reply and a callback that has run stand for
  chunks that have landed. `Replies` is the same for the flush requests of the
  service, of which a reply covers all up to its number. `Once`: a callback is
  in one place at a time, so it runs once.
* `PatchesAreNotLostHolds`. `PatchInv` adds to `AnswerInv` the books that are
  kept about patches. `Debts`: what each chunk misses is the sum of what its
  writer holds, the request carries and the messages bring, and a patch in a
  message arrives with its chunk or after it, so the service never gets a
  patch for a chunk it does not have. `InRequest`: a chunk of the request that
  is still marked as being written may be patched in place and has patches to
  come; this is how `TryDirectPatchLocked` knows it. `Occupied`: a thread
  that is about to return a chunk announces as many patches as its writer
  holds for it, and a writer that is about to be released has none. The step
  that needs them all is `UpdateCommitDataRequest`, which may add a chunk, take
  patches from the writer, apply some in place and send the others. That a
  patch is found in the request by writer id and chunk, not by its writer,
  is sound because the ids of live writers differ (`Distinct`) and a writer
  with patches is live (`PatchLists`).
  A patch for another buffer than its chunk's would be dropped by the service:
  `PatchTargets` says that a patch of the request carries the target of its
  writer, and one in a message the buffer that this target stands for.
  `FinalLast` (part of `Occupied`): a thread that stalls or releases a writer
  has nothing else left to do.
* `ArbiterTypeHolds`. From the same invariant: `Numbers`, `AlwaysBound` (an
  arbiter whose writers stall was bound from the start) and `Slots`, which
  keeps the number of free chunks within the shared memory.
* `ChunksAreConservedHolds`. `Slots` keeps the books by
  number: the free chunks, and those that writers got and the service has not
  freed, add up to the shared memory. The property names the places where a
  chunk can be instead. `InUseAcquired` shows that the chunks in
  those places are exactly the ones got and not freed: by `Stream` the landed
  chunks, the messages and the request together hold each returned chunk of a
  writer once, and what is not returned is with the writer or with the thread
  that returns it (`Returns`).
* `RegistrationsFollowWritersHolds`. The property speaks of the moments when no
  message about a writer is under way; `Registry`, which `RegistryHolds` proves
  on top of `PatchInv`, says what holds in between. A registration or its
  withdrawal passes through four stages: a thread that is about to post it,
  the queue of tasks, the IPC thread that is about to send it, the inbox of the
  service. `Withdrawn`: an entry at the service or at a stage is about a live
  writer, or its withdrawal is behind it. `Reached`: a live writer with a known
  buffer is registered, or its registration is at some stage, and nothing
  about its id comes after; this is where an id that `MayBeOvertaken` has to be
  left out. `Awaited`: the writers of an unresolved reservation are
  pending, and nothing about their ids, with the same exception, is left to be
  posted or in the tasks, so that the bind, which registers them without a
  task, is not followed by an older withdrawal.
  `Letters`: a message is the first step of its thread, so none is
  overtaken inside a thread. `Known`: buffers are known only to a bound
  arbiter.

`TraceBufferProofs` proves for any size of the ring, any sequences, chunk ids
and chunks that producers may commit (assumptions `BufferAssumption`: sizes and
numbers are positive and there are two chunk ids at least;
`InputsAssumption`: the chunks copied are well-typed arguments):

* `BufferTypeHolds`, `BufferIntactHolds`. `RecordsTile` says that the records
  form a chain. That is what a walk through the ring needs, but an eviction
  starts in the middle of the chain, and where it stops is decided by a sum of
  sizes. The inductive invariant `BufferInv` says instead where each unit of the ring
  belongs (`Tiles`): the records cover the written part (`Covered`), do not
  overlap (`Separate`), and the write pointer is not within one (`Aligned`).
  Clearing `n` units leaves a gap that ends where the last record met ends
  (`LastMet`, `GapBehindRecord`), and the new record and the padding of the leftover
  fill it exactly (`GapFilled`); `TilesDescribe` derives the chain. Removing
  the keys of the records met, and those alone, keeps the index in step
  (`OverwriteMatches`); overriding, patching and reading change entries but
  never their place (`Edits`).
  `ReaderInPlace`, the rest of `BufferInv`, is that `read_iter_` is at a
  chunk of the index whenever it is valid, without which the reader's steps would
  have no entry to work on.
* `DiscardKeepsUnreadHolds`: `Spec => DiscardKeepsUnread`. The same step
  lemmas say which keys leave the index (`KeepsUnread`); a chunk that wraps
  around evicts twice, and each time only after `Refused` was asked about
  exactly the records that go.

`TracingServiceProofs` proves for any finite
set of producers, any consumers, number of sessions, configs and scenarios
(assumption `ServiceConstants`: `MaxSessions` is a number and the scenarios
have the type `Scenario`, with the combinations of duration, trigger and file
that `EnableTracing` lets pass):

* `ServiceInvariant`: `Spec => []ServiceInv`, from which `TypeCorrect`,
  `InstancesMatch`, `ConsumersLinked` and `SuccessEarned` follow. `ServiceInv`
  is `Good(svc)`, a predicate of the service's state as a value, because one
  action runs several handlers one after the other and the invariant must be
  known of the values in between. Its parts are `ServiceType`, `Matching` (instances
  fit their session and their producers are registered), `Links` (sessions
  and consumers point at each other) and `Earned`. `SuccessIsEarned` is not
  inductive: `Earned` says of every flush that whoever it asked has
  acknowledged it or is still waited for, since success is decided when
  nobody is waited for any more.
* `ServiceImplementsLifecycle`: `Spec => Lifecycle`, the refinement of
  `SessionLifecycle`. Each handler is shown to be local to one session
  (`Handled`), and the same lemmas say that it takes the session through a
  step of its life or leaves it (`Moves`). `LivesCompose` is about a handler that
  runs after another within one action.
* Loops. The service goes over the instances of a session and over all sessions
  (on a disconnection, a registration, a trigger, an acknowledgement), and the
  body may free a session. The model writes these as folds. `FoldInduction`
  has the body of the loop and the predicate as constant parameters, and proves
  `FoldInduces` from the finiteness of the set; an `INSTANCE` of it per loop
  gives the theorem for that loop.

The inductive invariants were checked with TLC on the instances of the runs
before they were proved.

Only model-checked:

* All liveness (`CallsReturn`, `ReadsReturn`, `FlushedPacketsArrive`,
  `SessionsEnd`, `FlushesAreAnswered`, `ChunksArrive`, `StallsEnd`,
  `DisconnectsEnd`): liveness under fairness and `ENABLED` are beyond the
  installed provers.
* The pipeline, whose safety depends on the bounds of its scenarios (a ring
  that does not overflow and writers held during scans where there is scraping).

## 5. What the runs found

* `scrape_at_end`. `WriteChunkRecord(wptr, ...)` (`core/trace_buffer.h:601`)
  checks the record's size against `size_to_end()`, which measures from the
  member `wptr_`, although a chunk that is copied again is written over its
  earlier record. If `wptr_` is close to the end of the buffer the service
  aborts on a commit of a chunk that it scraped before. This takes neither a
  race nor an overflow, only a record of more than one 16-byte unit, which every
  real chunk is; the records of `pipeline_scrape` have one unit, so that it can
  ask what scraping does to the packets beyond this abort.
* `scrape_race`. A scan that races a writer can copy chunk N+1 without N. The
  continuation at the start of N+1 is then skipped for good; once N is
  committed `ReadAhead` takes N+1 for the rest of the packet and returns a
  packet without its second half (release builds; a debug build stops on a
  `PERFETTO_DCHECK`). The same race makes the buffer count an ABI violation of
  a producer that follows the protocol.

  With writers held during scans and a ring that does not overflow this does
  not happen (`pipeline_scrape`).
* `null_session`. After the last acknowledgement of a flush the service posts
  `CompleteFlush`. If the consumer frees the session (or disconnects) before
  that task runs, `CompleteFlush` still calls the callback, and the callback
  of `FlushAndDisableTracing` (`core/tracing_service_impl.cc:1890`) uses the
  null pointer that `GetTracingSession` returns.
* `heapprofd_lockup`. A reader that found nothing pauses without a second look
  (`memory/unwinding.cc:325`), and frees wake it only when the buffer is more
  than half full. A paused reader can thus have records in front of it; a
  malloc of a blocking client that does not fit is retried, and only a write
  that succeeds wakes the reader. Without a timeout the client waits for ever,
  against `docs/design-docs/heapprofd-design.md:139`. The documentation of the
  profiler lists a lock-up of the target as a known issue of older releases.

Remarks from reading and exploring, without a run of their own:

* A chunk is recognised as copied before by its index entry
  (`core/trace_buffer.cc:142`). If the ring overwrote a chunk after it was
  scraped and read, its commit inserts it anew and its packets are returned
  twice, although `core/trace_buffer.h:248` promises FIFO order.
* `MaybeSaveTraceForBugreport` looks for a bugreport in progress only among
  the sessions it finds eligible (`core/tracing_service_impl.cc:3342-3366`),
  so that a second request may seize another session.
* `MaybeNotifyAllDataSourcesStarted` notes that it has notified the consumer
  (`core/tracing_service_impl.cc:1373`) also when the consumer does not observe
  the event yet and the notification is dropped. A later `ObserveEvents` then
  stays silent, although its comment (3624) says it notifies immediately.
* Writer ids are given out again before the old owner's unregistration is
  posted (`core/shared_memory_arbiter_impl.cc:855`): with a new writer on
  another thread the service may forget the new registration. The same happens
  after it was posted, if the new writer is a startup writer:
  `BindStartupTargetBufferImpl` registers it without a task (726), ahead of
  the unregistration in the queue. The second way was found by the proof: the
  property excepted only the first, and the step of the bind did not preserve
  its invariant. `MayBeOvertaken` states both, and
  `RegistrationsFollowWriters` what is left when they are excepted.
* The comment on `TryDirectPatchLocked` describes its result the wrong way
  round; `RecordHeapInfo` returns the -1 of a failure as `true`; a payload as
  large as the buffer passes the check of `WithBuffer` but, with its header,
  never fits.

## 6. Not modelled

* Byte layout, varints and address computations; statistics other than
  whether an ABI violation was counted; the chunk size limit
  `ChunkRecord::kMaxSize`; user and process ids.
* Producers that break the protocol, except for the chunks of
  `MCTraceBuffer`, whose flags, ids and counts are arbitrary.
* In the writer: `first_packet_on_sequence`. `IncreasePacketCountTo` has no
  caller.
* In the arbiter: the abort of `GetNewChunk` after 200 stalls
  (`core/shared_memory_arbiter_impl.cc:198-201`), which is a matter of how long
  the service takes; a stalled writer of the model waits on.
* In the sessions: configs that `EnableTracing` rejects (guardrails, lockdown,
  unique names, filters), `ClearIncrementalState`, the packets that the
  service adds by itself, `final_flush_outcome`, error notifications, reading
  by the consumer (which `TracePipeline` has for one buffer).
* In heapprofd: the handshake, sampling, unwinding, bookkeeping and dumps; a
  client that corrupts the shared memory; `OnSpinlockTimeout` when
  `g_client_lock` is not obtained (`memory/client_api.cc:182-186, 437-441,
  470-474, 507-511`) and the early returns of a forked process
  (`memory/client.cc:432-434, 461-463`).
* Several buffers per service and several producers: the buffer's sequences
  stand for pairs of producer and writer.
* The components that the inventory lists without a module, for the reasons
  given in `PROJECT.json`.

## 7. Plan

Done: the ABI, its life cycle and proofs; the buffer and its proofs; writers and pipeline; the
arbiter and its proofs; sessions, their life cycle and proofs; the
heapprofd channel, its queue and their proofs.

Left, models: the data source instances of the client library
(`src/tracing/internal/tracing_muxer_impl.cc`) against the session's
acknowledgements, and outstanding requests of the IPC layer across a
disconnection.
