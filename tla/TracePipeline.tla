---------------------------- MODULE TracePipeline ----------------------------
(***************************************************************************)
(* Packets on their way from trace writers to the consumer: the writers of *)
(* TraceWriter, the commit requests between the producer and the service,  *)
(* CommitData() and ScrapeSharedMemoryBuffers(), which both copy chunks    *)
(* into a TraceBuffer, and the reader of that buffer.                      *)
(*                                                                         *)
(* Source: src/src/tracing/core/tracing_service_impl.cc, with the modules  *)
(* named above.  The service works on one thread: a commit request, a scan *)
(* of the shared memory buffer and a read are not interleaved with each    *)
(* other, but the writers run in between.                                  *)
(***************************************************************************)
EXTENDS TraceWriter

CONSTANTS
  Size, Policies,  \* of the TraceBuffer
  RecordSize,      \* sequence -> the size of the records of its chunks
  PageSlots,       \* chunks per page of the shared memory buffer
  MaxInFlight,     \* bound on the commit requests in flight
  MaxScrapes,      \* bound on the scans of the shared memory buffer
  Concurrent       \* whether writers run during a scan

ASSUME PipelineAssumption ==
  /\ RecordSize \in [Sequences -> Nat \ {0}]
  /\ PageSlots \in Nat \ {0} /\ MaxInFlight \in Nat \ {0}
  /\ MaxScrapes \in Nat /\ Concurrent \in BOOLEAN

VARIABLES
  ipc,       \* commit requests on their way to the service, oldest first
  busy,      \* what the service is doing: "no", "commit" or "scrape"
  scan,      \* the local variables of ScrapeSharedMemoryBuffers()
  scrapes,   \* how often the shared memory buffer was scanned
  buf, last, discard, pc, iter, dropped, out, abi,    \* of the TraceBuffer
  lastRead   \* sequence -> the last packet that was returned from it

bufferVars == <<buf, last, discard, pc, iter, dropped, out, abi>>
vars == <<smb, writer, req, ipc, busy, scan, scrapes, bufferVars, lastRead>>

Buffer == INSTANCE TraceBuffer WITH Labels <- Label, Inputs <- {}

NumPages == (NumSlots + PageSlots - 1) \div PageSlots
SlotsOf(p) == {i \in Slots : (i - 1) \div PageSlots = p}
NoScan == [page |-> 0, complete |-> {}, todo |-> {}, loaded |-> FALSE]

Init ==
  /\ WriterInit
  /\ Buffer!Init
  /\ ipc = <<>> /\ busy = "no" /\ scan = NoScan /\ scrapes = 0
  /\ lastRead = [s \in Sequences |-> 0]

TypeOK ==
  /\ WriterTypeOK
  /\ Buffer!TypeOK
  /\ ipc \in Seq(CommitDataRequest) /\ Len(ipc) <= MaxInFlight
  /\ busy \in {"no", "commit", "scrape"} /\ scrapes \in 0 .. MaxScrapes
  /\ scan \in [page : 0 .. NumPages - 1, complete : SUBSET Slots,
               todo : SUBSET Slots, loaded : BOOLEAN]
  /\ lastRead \in [Sequences -> 0 .. MaxPackets]

-----------------------------------------------------------------------------
(* The producer.                                                            *)

Produce(s) ==
  /\ Concurrent \/ busy # "scrape"
  /\ WriterStep(s)
  /\ out' = <<>>
  /\ UNCHANGED <<ipc, busy, scan, scrapes, buf, last, discard, pc, iter, dropped,
                 abi, lastRead>>

(* FlushPendingCommitDataRequests() on the producer's task runner.          *)
FlushPendingCommitDataRequests ==
  /\ req # EmptyReq /\ Len(ipc) < MaxInFlight
  /\ Concurrent \/ busy # "scrape"
  /\ ipc' = Append(ipc, req)
  /\ req' = EmptyReq
  /\ out' = <<>>
  /\ UNCHANGED <<smb, writer, busy, scan, scrapes, buf, last, discard, pc, iter,
                 dropped, abi, lastRead>>

-----------------------------------------------------------------------------
(* The service.                                                             *)

ChunkArg(c, complete) ==
  [seq |-> c.seq, id |-> c.id, size |-> RecordSize[c.seq],
   num_fragments |-> Len(c.body), flags |-> c.flags, complete |-> complete,
   body |-> c.body]

(* CommitData(): first the chunks to move.                                  *)
CommitChunk ==
  /\ busy \in {"no", "commit"} /\ pc = "idle"
  /\ ipc # <<>> /\ Head(ipc).move # <<>>
  /\ LET i == Head(Head(ipc).move) IN
     /\ Buffer!CopyChunkUntrusted(ChunkArg(smb[i], TRUE))
     /\ smb' = [smb EXCEPT ![i] = FreeSlot]
  /\ ipc' = [ipc EXCEPT ![1].move = Tail(@)]
  /\ busy' = "commit"
  /\ UNCHANGED <<writer, req, scan, scrapes, lastRead>>

(* Then ApplyChunkPatches().                                                *)
ApplyChunkPatch ==
  /\ busy \in {"no", "commit"} /\ pc = "idle"
  /\ ipc # <<>> /\ Head(ipc).move = <<>> /\ Head(ipc).patch # <<>>
  /\ LET p == Head(Head(ipc).patch)
     IN  Buffer!TryPatchChunkContents(<<p.seq, p.id>>, p.pos, p.more)
  /\ ipc' = [ipc EXCEPT ![1].patch = Tail(@)]
  /\ busy' = "commit"
  /\ UNCHANGED <<smb, writer, req, scan, scrapes, lastRead>>

EndCommit ==
  /\ busy = "commit" /\ pc = "idle"
  /\ Head(ipc) = EmptyReq
  /\ ipc' = Tail(ipc)
  /\ busy' = "no"
  /\ out' = <<>>
  /\ UNCHANGED <<smb, writer, req, scan, scrapes, buf, last, discard, pc, iter,
                 dropped, abi, lastRead>>

(* ScrapeSharedMemoryBuffers(): load the layout of a page, then visit its   *)
(* used chunks in order.                                                    *)
ScrapeSharedMemoryBuffers ==
  /\ busy = "no" /\ pc = "idle" /\ scrapes < MaxScrapes
  /\ busy' = "scrape"
  /\ scrapes' = scrapes + 1
  /\ out' = <<>>
  /\ UNCHANGED <<smb, writer, req, ipc, scan, buf, last, discard, pc, iter,
                 dropped, abi, lastRead>>

ScrapeLayout ==
  /\ busy = "scrape" /\ pc = "idle" /\ ~scan.loaded
  /\ LET used == {i \in SlotsOf(scan.page) : ~IsFree(i)} IN
     scan' = [scan EXCEPT !.loaded = TRUE, !.todo = used,
                !.complete = {i \in used : smb[i].state = "kChunkComplete"}]
  /\ out' = <<>>
  /\ UNCHANGED <<smb, writer, req, ipc, busy, scrapes, buf, last, discard, pc, iter,
                 dropped, abi, lastRead>>

(* An incomplete chunk is worth copying only with two packets in it.        *)
ScrapeChunk ==
  /\ busy = "scrape" /\ pc = "idle" /\ scan.todo # {}
  /\ \E i \in scan.todo :
       /\ \A j \in scan.todo : i <= j
       /\ scan' = [scan EXCEPT !.todo = @ \ {i}]
       /\ \/ /\ i \in scan.complete \/ Len(smb[i].body) >= 2
             /\ Buffer!CopyChunkUntrusted(ChunkArg(smb[i], i \in scan.complete))
          \/ /\ i \notin scan.complete /\ Len(smb[i].body) < 2
             /\ out' = <<>>
             /\ UNCHANGED <<buf, last, discard, pc, iter, dropped, abi>>
  /\ UNCHANGED <<smb, writer, req, ipc, busy, scrapes, lastRead>>

NextPage ==
  /\ busy = "scrape" /\ pc = "idle" /\ scan.loaded /\ scan.todo = {}
  /\ \/ /\ scan.page + 1 < NumPages
        /\ scan' = [NoScan EXCEPT !.page = scan.page + 1]
        /\ UNCHANGED busy
     \/ /\ scan.page + 1 >= NumPages
        /\ scan' = NoScan
        /\ busy' = "no"
  /\ out' = <<>>
  /\ UNCHANGED <<smb, writer, req, ipc, scrapes, buf, last, discard, pc, iter,
                 dropped, abi, lastRead>>

(* ReadBuffers().                                                           *)
BeginRead ==
  /\ busy = "no"
  /\ Buffer!BeginRead
  /\ UNCHANGED <<smb, writer, req, ipc, busy, scan, scrapes, lastRead>>

GoOnReading ==
  /\ Buffer!ReadStep
  /\ lastRead' = IF out' = <<>> THEN lastRead
                 ELSE [lastRead EXCEPT ![out'[1].seq] = out'[1].frags[1].label.pkt]
  /\ UNCHANGED <<smb, writer, req, ipc, busy, scan, scrapes>>

Commit == CommitChunk \/ ApplyChunkPatch \/ EndCommit

Serve ==
  \/ Commit
  \/ ScrapeSharedMemoryBuffers \/ ScrapeLayout \/ ScrapeChunk \/ NextPage
  \/ BeginRead \/ GoOnReading

Next ==
  \/ \E s \in Sequences : Produce(s)
  \/ FlushPendingCommitDataRequests
  \/ Serve

Spec == Init /\ [][Next]_vars

(* Delayed flushes are sent, messages arrive, tasks that are posted to the  *)
(* service's queue get their turn, scans and reads go on to their end, and  *)
(* the consumer keeps asking.  Nothing is assumed of the writers.           *)
Fairness ==
  /\ WF_vars(FlushPendingCommitDataRequests)
  /\ SF_vars(Commit)
  /\ WF_vars(ScrapeLayout \/ ScrapeChunk \/ NextPage)
  /\ SF_vars(BeginRead) /\ WF_vars(GoOnReading)

FairSpec == Spec /\ Fairness

-----------------------------------------------------------------------------
Delivered == out'[1]

(* Packets of a sequence are returned in FIFO order and at most once, and   *)
(* loss is never silent: a packet that does not follow the packet returned  *)
(* before it says so, by the service's previous_packet_on_sequence_dropped  *)
(* or by the writer's previous_packet_dropped.                              *)
InOrder ==
  [][out' # <<>> =>
       LET pkt  == Delivered.frags[1].label.pkt
           prev == lastRead[Delivered.seq]
       IN  /\ pkt > prev
           /\ pkt # prev + 1 => Delivered.dropped \/ Delivered.frags[1].label.gap]_vars

(* What is returned is a packet as its writer wrote it: all fragments of    *)
(* one packet in order, each one with its patches applied.                  *)
IsWhole(frags) ==
  /\ frags # <<>>
  /\ \A i \in DOMAIN frags :
       /\ frags[i].label.pkt = frags[1].label.pkt
       /\ frags[i].label.part = i
       /\ frags[i].label.end <=> (i = Len(frags))
       /\ frags[i].holes = 0

WholePackets == out # <<>> => IsWhole(out[1].frags)

(* A well-behaved producer is never taken for a misbehaving one.            *)
NoABIViolation == ~abi

(* The service never aborts on a PERFETTO_CHECK of the buffer.              *)
NoCrash == pc # "crashed"

(* Whatever a writer that stalls rather than drops has written and flushed  *)
(* reaches the consumer, if the buffer is large enough: chunks that await   *)
(* patches, chunks that were scraped half-written and fragments that arrive *)
(* one by one all become readable in the end.                               *)
Flushed(s, n) == writer[s].pkt = n /\ ~writer[s].open /\ ~HasChunk(s)

FlushedPacketsArrive ==
  \A s \in Sequences, n \in 1 .. MaxPackets :
    writer[s].buffer_exhausted_policy = "kStall" /\ Flushed(s, n)
      ~> lastRead[s] >= n
=============================================================================
