--------------------------- MODULE HeapprofdChannel ---------------------------
(***************************************************************************)
(* The channel from a profiled process to heapprofd: the threads of the    *)
(* client that record allocations (src/profiling/memory/client.cc, the     *)
(* shutdown of client_api.cc), the ring buffer, the control socket that    *)
(* wakes the reader, and the unwinding worker that reads (unwinding.cc).   *)
(* One client and its ClientData.  The main thread of heapprofd appears    *)
(* as the tasks it posts to the worker; what it is told is `delivered'.    *)
(* Unwinding itself is not modelled, only that it may reparse the maps.    *)
(***************************************************************************)
EXTENDS SharedRingBuffer, FiniteSets

CONSTANTS RecordSizes,       \* by record type: the payloads it may have
          Scenarios,         \* configurations of the client, and what happens
          kUnwindBatchSize, kRecordBatchSize,
          kInfiniteTries     \* a max_tries that is never reached

RecordTypes == {"Malloc", "Free", "HeapName"}
Events == {"next_session", "dies", "stop", "purge"}

(* A scenario: the configuration of the client, the records that its       *)
(* threads make (whichever threads, whenever), and the events that may     *)
(* happen, once each.                                                      *)
Calls == UNION {[type : {kind}, size : RecordSizes[kind]] : kind \in RecordTypes}

ASSUME ChannelConstants ==
  /\ RecordSizes \in [RecordTypes -> SUBSET (Nat \ {0})]
  /\ \A a, b \in RecordTypes : a # b => RecordSizes[a] \cap RecordSizes[b] = {}
  /\ Scenarios \subseteq [block_client : BOOLEAN, max_tries : Nat \ {0},
                         calls : Seq(Calls), events : SUBSET Events]
  /\ \A sc \in Scenarios : Len(sc.calls) <= MaxRecords
  /\ kUnwindBatchSize \in Nat \ {0} /\ kRecordBatchSize \in Nat \ {0}

VARIABLES
  shutting_down, reader_paused, error_state,   \* of the MetadataPage
  scenario,  \* the scenario, as far as it has not happened yet
  client,    \* the process: whether its Client is set, whether it lives
  call,      \* the call each thread is in
  sock,      \* the control socket, both ends
  tasks,     \* what is posted to the worker
  worker,    \* the task the worker is in
  data,      \* ClientData of the worker
  delivered, \* history: the records that the main thread was given
  due        \* history: the readable records at the time of OnDisconnect

memory == <<read_pos, write_pos, locked, mem, log, got>>
meta == <<shutting_down, reader_paused, error_state>>
vars == <<ring, meta, scenario, client, call, sock, tasks, worker, data,
          delivered, due>>

NoCall == [at |-> "none", kind |-> "Malloc", tries |-> 0]
Resting == [at |-> "idle", i |-> 0, bytes_read |-> 0]

(* HandleHandoffSocket(): the worker has the client, and has paused.       *)
Init ==
  /\ RingInit
  /\ shutting_down = FALSE /\ reader_paused = TRUE /\ error_state = "kNoError"
  /\ scenario \in Scenarios
  /\ client = [ref |-> TRUE, alive |-> TRUE]
  /\ call = [t \in Threads |-> NoCall]
  /\ sock = [open |-> TRUE, state |-> "kConnected", byte |-> FALSE]
  /\ tasks = [batch |-> 0, drain |-> FALSE, disconnected |-> FALSE,
              stop |-> "none"]
  /\ worker = Resting
  /\ data = [present |-> TRUE, drain_bytes |-> 0, free_records |-> {}]
  /\ delivered = {} /\ due = {}

(* Type invariant.  A call has tries left, and fewer frees than a batch    *)
(* wait to be posted.                                                      *)
TypeOK ==
  /\ {shutting_down, reader_paused, locked} \subseteq BOOLEAN
  /\ error_state \in {"kNoError", "kHitTimeout"}
  /\ client \in [ref : BOOLEAN, alive : BOOLEAN]
  /\ call \in [Threads -> [at : {"none", "try", "write", "notify", "send"},
                           kind : RecordTypes, tries : Nat]]
  /\ \A t \in Threads : call[t].at # "none" =>
       call[t].tries < scenario.max_tries \/ scenario.max_tries = kInfiniteTries
  /\ sock \in [open : BOOLEAN, state : {"kConnected", "kDisconnected"},
               byte : BOOLEAN]
  /\ tasks \in [batch : 0 .. 2, drain : BOOLEAN, disconnected : BOOLEAN,
                stop : {"none", "disconnect", "stopping", "purge", "purged",
                        "stopped"}]
  /\ worker \in [at : {"idle", "batch", "drain"}, i : 0 .. kUnwindBatchSize - 1,
                 bytes_read : Nat]
  /\ data \in [present : BOOLEAN, drain_bytes : 0 .. Size,
               free_records : SUBSET (1 .. MaxRecords)]
  /\ Cardinality(data.free_records) < kRecordBatchSize
  /\ delivered \subseteq 1 .. MaxRecords /\ due \subseteq 1 .. MaxRecords

(***************************************************************************)
(* The client                                                              *)
(***************************************************************************)
Busy == {t \in Threads : call[t].at # "none"}

(* The Client, and with it the socket, goes with its last reference: the   *)
(* global one or that of a thread in a call.                               *)
Release(ref, busy) ==
  /\ client' = [client EXCEPT !.ref = ref]
  /\ sock' = [sock EXCEPT !.open = ref \/ busy # {}]

(* A call that fails ends the profiling of the process: ShutdownLazy().    *)
(* RecordHeapInfo() turns the -1 of a failure into true.  The locks of the *)
(* process itself are not modelled: a call that cannot get g_client_lock   *)
(* gives up in OnSpinlockTimeout().                                        *)
Return(t, success) ==
  /\ call' = [call EXCEPT ![t] = NoCall]
  /\ Release(client.ref /\ (success \/ call[t].kind = "HeapName"), Busy \ {t})

(* A thread reports an allocation, a free or a heap.  The early return of  *)
(* a process that has forked (IsPostFork()) is left out.                   *)
Record(t) ==
  LET new == Head(scenario.calls)
  IN /\ client.alive /\ client.ref /\ call[t].at = "none"
     /\ scenario.calls # <<>>
     /\ scenario' = [scenario EXCEPT !.calls = Tail(@)]
     /\ call' = [call EXCEPT ![t] = [NoCall EXCEPT !.at = "try",
                                                 !.kind = new.type]]
     /\ wr' = [wr EXCEPT ![t] = [Idle EXCEPT !.size = new.size]]
     /\ UNCHANGED <<memory, rd, meta, client, sock, tasks, worker, data,
                    delivered, due>>

(* One turn of SendWireMessageWithRetriesIfBlocking(), up to the lock of   *)
(* WithBuffer().  A record beyond the size of the buffer fails at once.    *)
TrySend(t) ==
  /\ client.alive /\ call[t].at = "try"
  /\ IF shutting_down
     THEN Return(t, FALSE) /\ UNCHANGED wr
     ELSE /\ call' = [call EXCEPT ![t].at = "write"]
          /\ wr' = [wr EXCEPT ![t].at = IF wr[t].size > Size
                                        THEN "failed" ELSE "lock"]
          /\ UNCHANGED <<client, sock>>
  /\ UNCHANGED <<scenario, memory, rd, meta, tasks, worker, data, delivered,
                 due>>

WriteToBuffer(t) ==
  /\ client.alive
  /\ LockTimesOut(t) \/ BeginWrite(t) \/ AdvanceWritePos(t) \/ CopyPayload(t)
  /\ UNCHANGED <<scenario, meta, client, call, sock, tasks, worker, data,
                 delivered, due>>

IsConnected == sock.state = "kConnected"
IsAgain(t) == wr[t].size <= Size
LastTry(t) == /\ scenario.max_tries # kInfiniteTries
              /\ call[t].tries + 1 >= scenario.max_tries

(* Mutant: the tries are not counted.                                      *)
Mutant_TriesNotCounted(t) ==
  /\ client.alive /\ wr[t].at = "failed"
  /\ wr' = [wr EXCEPT ![t] = [Idle EXCEPT !.size = wr[t].size]]
  /\ IF scenario.block_client /\ IsAgain(t) /\ IsConnected /\ ~LastTry(t)
     THEN /\ call' = [call EXCEPT ![t].at = "try"]
          /\ UNCHANGED <<client, sock, error_state>>
     ELSE /\ Return(t, FALSE)
          /\ error_state' = IF IsConnected THEN "kHitTimeout" ELSE error_state
  /\ UNCHANGED <<scenario, memory, rd, shutting_down, reader_paused, tasks,
                 worker, data, delivered, due>>

SendFailed(t) ==
  /\ client.alive /\ wr[t].at = "failed"
  /\ wr' = [wr EXCEPT ![t] = [Idle EXCEPT !.size = wr[t].size]]
  /\ IF scenario.block_client /\ IsAgain(t) /\ IsConnected /\ ~LastTry(t)
     THEN /\ call' = [call EXCEPT ![t].at = "try",
                        ![t].tries = IF scenario.max_tries = kInfiniteTries
                                     THEN 0 ELSE @ + 1]
          /\ UNCHANGED <<client, sock, error_state>>
     ELSE /\ Return(t, FALSE)
          /\ error_state' = IF IsConnected THEN "kHitTimeout" ELSE error_state
  /\ UNCHANGED <<scenario, memory, rd, shutting_down, reader_paused, tasks,
                 worker, data, delivered, due>>

(* A malloc wakes a paused reader; a free only when the buffer was more    *)
(* than half full before it; the name of a heap never.                     *)
WakesReader(t) ==
  \/ call[t].kind = "Malloc"
  \/ call[t].kind = "Free" /\ wr[t].free < Size \div 2

SendEnds(t) ==
  /\ client.alive
  /\ EndWrite(t)
  /\ IF WakesReader(t)
     THEN call' = [call EXCEPT ![t].at = "notify"] /\ UNCHANGED <<client, sock>>
     ELSE Return(t, TRUE)
  /\ UNCHANGED <<scenario, meta, tasks, worker, data, delivered, due>>

GetAndResetReaderPaused(t) ==
  /\ client.alive /\ call[t].at = "notify"
  /\ reader_paused' = FALSE
  /\ IF reader_paused
     THEN call' = [call EXCEPT ![t].at = "send"] /\ UNCHANGED <<client, sock>>
     ELSE Return(t, TRUE)
  /\ UNCHANGED <<scenario, ring, shutting_down, error_state, tasks, worker,
                 data, delivered, due>>

(* Sending fails when the worker's end is closed.                          *)
SendControlSocketByte(t) ==
  LET ref == client.ref /\ IsConnected
  IN /\ client.alive /\ call[t].at = "send"
     /\ call' = [call EXCEPT ![t] = NoCall]
     /\ client' = [client EXCEPT !.ref = ref]
     /\ sock' = [sock EXCEPT !.open = ref \/ Busy # {t}, !.byte = IsConnected]
     /\ UNCHANGED <<scenario, ring, meta, tasks, worker, data, delivered,
                    due>>

Happens(e) ==
  /\ e \in scenario.events
  /\ scenario' = [scenario EXCEPT !.events = @ \ {e}]

(* AHeapProfile_initSession() of the next session drops a Client that is   *)
(* not connected any more, and rejects the session otherwise.              *)
NextSession ==
  /\ Happens("next_session")
  /\ client.alive /\ client.ref /\ ~IsConnected
  /\ Release(FALSE, Busy)
  /\ UNCHANGED <<ring, meta, call, tasks, worker, data, delivered, due>>

(* The process dies wherever its threads are.                              *)
ClientDies ==
  /\ Happens("dies")
  /\ client.alive
  /\ client' = [client EXCEPT !.alive = FALSE, !.ref = FALSE]
  /\ call' = [t \in Threads |-> NoCall]
  /\ sock' = [sock EXCEPT !.open = FALSE]
  /\ UNCHANGED <<ring, meta, tasks, worker, data, delivered, due>>

(***************************************************************************)
(* The worker: ReadAndUnwindBatch()                                        *)
(***************************************************************************)
StartBatch(kind) ==
  /\ worker' = [Resting EXCEPT !.at = kind]
  /\ rd' = [NoRead EXCEPT !.at = "begin"]

ReadBuffer ==
  /\ BeginRead \/ LoadHeader
  /\ UNCHANGED <<scenario, meta, client, call, sock, tasks, worker, data,
                 delivered, due>>

KindOf(size) == CHOOSE kind \in RecordTypes : size \in RecordSizes[kind]

(* Mutant: the frees are posted one too late.                              *)
Mutant_FreesPile ==
  LET k == Len(got) + 1
      frees == data.free_records \cup {k}
  IN /\ HandleBuffer
     /\ IF KindOf(rd.size) # "Free"
        THEN delivered' = delivered \cup {k} /\ UNCHANGED data
        ELSE IF Cardinality(frees) > kRecordBatchSize
        THEN /\ delivered' = delivered \cup frees
             /\ data' = [data EXCEPT !.free_records = {}]
        ELSE data' = [data EXCEPT !.free_records = frees] /\ UNCHANGED delivered
     /\ UNCHANGED <<scenario, meta, client, call, sock, tasks, worker, due>>

(* Allocations and names go to the main thread at once, frees in batches.  *)
HandleRecord ==
  LET k == Len(got) + 1
      frees == data.free_records \cup {k}
  IN /\ HandleBuffer
     /\ IF KindOf(rd.size) # "Free"
        THEN delivered' = delivered \cup {k} /\ UNCHANGED data
        ELSE IF Cardinality(frees) = kRecordBatchSize
        THEN /\ delivered' = delivered \cup frees
             /\ data' = [data EXCEPT !.free_records = {}]
        ELSE data' = [data EXCEPT !.free_records = frees] /\ UNCHANGED delivered
     /\ UNCHANGED <<scenario, meta, client, call, sock, tasks, worker, due>>

ReleaseRecord ==
  /\ EndRead
  /\ worker' = [worker EXCEPT !.bytes_read = @ + WithHeader(rd.size)]
  /\ UNCHANGED <<scenario, meta, client, call, sock, tasks, data, delivered,
                 due>>

MayReparse == KindOf(rd.size) = "Malloc"
BatchContinues == rd.at = "done" /\ worker.i + 1 < kUnwindBatchSize

NextRecord ==
  /\ BatchContinues
  /\ worker' = [worker EXCEPT !.i = @ + 1]
  /\ rd' = [NoRead EXCEPT !.at = "begin"]
  /\ UNCHANGED <<scenario, memory, wr, meta, client, call, sock, tasks, data,
                 delivered, due>>

(* Why a batch ends: it is full or the maps were reparsed; or there is     *)
(* nothing to read.                                                        *)
HasMore == rd.at = "done" /\ (worker.i + 1 = kUnwindBatchSize \/ MayReparse)
ReadSome == rd.at \in {"nodata", "corrupt"} /\ worker.i > 0
ReadNone == rd.at \in {"nodata", "corrupt"} /\ worker.i = 0

(***************************************************************************)
(* The tasks of the worker                                                 *)
(***************************************************************************)
(* Mutant: the statistics are taken with Mode::Blocking.                   *)
Mutant_WaitsForLock ==
  /\ ~locked
  /\ delivered' = delivered \cup data.free_records
  /\ data' = [present |-> FALSE, drain_bytes |-> 0, free_records |-> {}]

(* FinishDisconnect(): the frees that are left, and the end of the data.   *)
FinishDisconnect ==
  /\ delivered' = delivered \cup data.free_records
  /\ data' = [present |-> FALSE, drain_bytes |-> 0, free_records |-> {}]

BatchUnwindJob ==
  IF data.present /\ data.drain_bytes = 0
  THEN StartBatch("batch")
  ELSE UNCHANGED <<worker, rd>>

OnDataAvailable ==
  /\ worker.at = "idle" /\ data.present
  /\ sock.state = "kConnected" /\ (sock.byte \/ ~sock.open)
  /\ sock' = [sock EXCEPT !.byte = FALSE,
                          !.state = IF sock.byte THEN @ ELSE "kDisconnected"]
  /\ tasks' = [tasks EXCEPT !.disconnected = @ \/ ~sock.byte]
  /\ BatchUnwindJob
  /\ UNCHANGED <<scenario, memory, wr, meta, client, call, data, delivered,
                 due>>

RunBatchUnwindJob ==
  /\ worker.at = "idle" /\ tasks.batch > 0
  /\ tasks' = [tasks EXCEPT !.batch = @ - 1]
  /\ BatchUnwindJob
  /\ UNCHANGED <<scenario, memory, wr, meta, client, call, sock, data,
                 delivered, due>>

(* Mutant: the job neither reposts itself nor sets the bit.                *)
Mutant_ReaderNotPaused ==
  /\ worker.at = "batch"
  /\ \/ /\ HasMore \/ ReadSome
        /\ tasks' = [tasks EXCEPT !.batch = @ + 1]
        /\ UNCHANGED reader_paused
     \/ /\ ReadNone
        /\ UNCHANGED reader_paused
        /\ UNCHANGED tasks
  /\ worker' = Resting /\ rd' = NoRead
  /\ UNCHANGED <<scenario, memory, wr, shutting_down, error_state, client,
                 call, sock, data, delivered, due>>

(* Repost the job, or ask to be woken.                                     *)
EndOfBatch ==
  /\ worker.at = "batch"
  /\ \/ /\ HasMore \/ ReadSome
        /\ tasks' = [tasks EXCEPT !.batch = @ + 1]
        /\ UNCHANGED reader_paused
     \/ /\ ReadNone
        /\ reader_paused' = TRUE
        /\ UNCHANGED tasks
  /\ worker' = Resting /\ rd' = NoRead
  /\ UNCHANGED <<scenario, memory, wr, shutting_down, error_state, client,
                 call, sock, data, delivered, due>>

OnDisconnect ==
  LET avail == write_pos - read_pos
  IN /\ worker.at = "idle" /\ tasks.disconnected
     /\ tasks' = [tasks EXCEPT !.disconnected = FALSE]
     /\ IF ~data.present
        THEN UNCHANGED <<worker, rd, data, delivered, due>>
        ELSE /\ due' = {k \in DOMAIN log : \A j \in 1 .. k : log[j].written}
             /\ IF avail # 0
                THEN /\ data' = [data EXCEPT !.drain_bytes = avail]
                     /\ StartBatch("drain")
                     /\ UNCHANGED delivered
                ELSE FinishDisconnect /\ UNCHANGED <<worker, rd>>
     /\ UNCHANGED <<scenario, memory, wr, meta, client, call, sock>>

RunDrainJob ==
  /\ worker.at = "idle" /\ tasks.drain
  /\ tasks' = [tasks EXCEPT !.drain = FALSE]
  /\ IF data.present THEN StartBatch("drain") ELSE UNCHANGED <<worker, rd>>
  /\ UNCHANGED <<scenario, memory, wr, meta, client, call, sock, data,
                 delivered, due>>

(* Mutant: the drain does not go on after a full batch.                    *)
Mutant_DrainsOneBatch ==
  /\ worker.at = "drain"
  /\ HasMore \/ ReadSome \/ ReadNone
  /\ FinishDisconnect
  /\ worker' = Resting /\ rd' = NoRead
  /\ UNCHANGED <<scenario, memory, wr, meta, tasks, client, call, sock, due>>

EndOfDrainJob ==
  /\ worker.at = "drain"
  /\ \/ /\ HasMore /\ worker.bytes_read < data.drain_bytes
        /\ data' = [data EXCEPT !.drain_bytes = @ - worker.bytes_read]
        /\ tasks' = [tasks EXCEPT !.drain = TRUE]
        /\ UNCHANGED delivered
     \/ /\ HasMore => worker.bytes_read >= data.drain_bytes
        /\ HasMore \/ ReadSome \/ ReadNone
        /\ FinishDisconnect
        /\ UNCHANGED tasks
  /\ worker' = Resting /\ rd' = NoRead
  /\ UNCHANGED <<scenario, memory, wr, meta, client, call, sock, due>>

(* The session stops: the main thread disconnects the client and, after a  *)
(* timeout, purges what is left of it.                                     *)
PostDisconnectSocket ==
  /\ Happens("stop")
  /\ tasks.stop = "none"
  /\ tasks' = [tasks EXCEPT !.stop = "disconnect"]
  /\ UNCHANGED <<ring, meta, client, call, sock, worker, data, delivered,
                 due>>

HandleDisconnectSocket ==
  /\ worker.at = "idle" /\ tasks.stop = "disconnect"
  /\ shutting_down' = (shutting_down \/ data.present)
  /\ sock' = [sock EXCEPT !.state = IF data.present THEN "kDisconnected" ELSE @]
  /\ tasks' = [tasks EXCEPT !.stop = "stopping",
                 !.disconnected = @ \/ (data.present /\ sock.state = "kConnected")]
  /\ UNCHANGED <<scenario, ring, reader_paused, error_state, client, call,
                 worker, data, delivered, due>>

PostPurgeProcess ==
  /\ Happens("purge")
  /\ tasks.stop = "stopping"
  /\ tasks' = [tasks EXCEPT !.stop = "purge"]
  /\ UNCHANGED <<ring, meta, client, call, sock, worker, data, delivered,
                 due>>

RemoveClientData ==
  /\ worker.at = "idle" /\ tasks.stop = "purge"
  /\ tasks' = [tasks EXCEPT !.stop = IF data.present THEN "purged" ELSE "stopped"]
  /\ data' = [present |-> FALSE, drain_bytes |-> 0, free_records |-> {}]
  /\ UNCHANGED <<scenario, ring, meta, client, call, sock, worker, delivered,
                 due>>

(***************************************************************************)
(* The specification                                                       *)
(***************************************************************************)
ThreadStep(t) ==
  \/ TrySend(t) \/ WriteToBuffer(t) \/ SendFailed(t) \/ SendEnds(t)
  \/ GetAndResetReaderPaused(t) \/ SendControlSocketByte(t)

InTask ==
  \/ ReadBuffer \/ HandleRecord \/ ReleaseRecord \/ NextRecord
  \/ EndOfBatch \/ EndOfDrainJob

Environment ==
  \/ \E t \in Threads : Record(t)
  \/ NextSession \/ ClientDies \/ PostDisconnectSocket \/ PostPurgeProcess

Next ==
  \/ Environment
  \/ \E t \in Threads : ThreadStep(t)
  \/ InTask
  \/ OnDataAvailable \/ RunBatchUnwindJob \/ OnDisconnect \/ RunDrainJob
  \/ HandleDisconnectSocket \/ RemoveClientData

Spec == Init /\ [][Next]_vars

(* Threads get to run; the worker finishes its task and gets to every task *)
(* that is posted and every event of the socket.  Nothing obliges the      *)
(* process to allocate, to die or to stop, or the session to end.          *)
Fairness ==
  /\ \A t \in Threads : WF_vars(ThreadStep(t))
  /\ WF_vars(InTask)
  /\ WF_vars(OnDataAvailable) /\ WF_vars(RunBatchUnwindJob)
  /\ WF_vars(OnDisconnect) /\ WF_vars(RunDrainJob)
  /\ WF_vars(HandleDisconnectSocket) /\ WF_vars(RemoveClientData)

FairSpec == Spec /\ Fairness

(***************************************************************************)
(* Properties                                                              *)
(***************************************************************************)
(* A worker at rest either has a job posted or can be woken (the check at  *)
(* the end of BatchUnwindJob): the pause bit is set, or a thread has taken *)
(* it and the byte is sent or is about to be, or the socket is closed.     *)
ReaderCanBeWoken ==
  worker.at = "idle" /\ data.present /\ sock.state = "kConnected" =>
    \/ tasks.batch > 0 \/ reader_paused \/ sock.byte \/ ~sock.open
    \/ \E t \in Threads : call[t].at = "send"

(* When the data of a client goes (FinishDisconnect), the main thread has  *)
(* every record that could be read when the connection ended, the frees    *)
(* that wait for a batch too; and everything that was ever written, when   *)
(* it is the client that closed the connection, alive.                     *)
DrainsEverything ==
  ~data.present /\ tasks.stop # "purged" =>
    /\ due \subseteq delivered
    /\ client.alive /\ ~shutting_down => delivered = DOMAIN log

(* Once the client's end is closed, or the session stops, the worker gets  *)
(* rid of the client, whatever state its threads died in.                  *)
DisconnectsEnd ==
  ~sock.open \/ tasks.stop = "disconnect" ~> ~data.present

(* Unless it may retry for ever, a call of the client's hooks returns.     *)
CallsReturn ==
  scenario.max_tries # kInfiniteTries =>
    \A t \in Threads : []<>(call[t].at = "none")

(* heapprofd-design.md: "the client will retry until there is space in the *)
(* shared memory buffer".  A record that fits in the buffer is written in  *)
(* the end, because the reader makes room.                                 *)
BlockedClientsGoOn ==
  \A t \in Threads :
    call[t].at # "none" /\ WithHeader(wr[t].size) <= Size ~> call[t].at = "none"
==============================================================================
