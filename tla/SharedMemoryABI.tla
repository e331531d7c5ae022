--------------------------- MODULE SharedMemoryABI ---------------------------
(***************************************************************************)
(* The lock-free protocol of the shared memory buffer (SMB) between a      *)
(* producer process and the tracing service.                               *)
(*                                                                         *)
(* Source: src/src/tracing/core/shared_memory_abi.cc and its header, plus  *)
(* the two places of the service that touch the SMB: CommitData() and      *)
(* ScrapeSharedMemoryBuffers() of tracing_service_impl.cc.                 *)
(*                                                                         *)
(* One step is one atomic memory access: a load or a compare-exchange of a *)
(* page's 32 bit layout word, or a store of one field of a chunk header.   *)
(* The two relaxed header stores may become visible in either order; the   *)
(* release store of the packet count comes last.                           *)
(***************************************************************************)
EXTENDS Naturals, FiniteSets

CONSTANTS
  NumWriters,      \* producer threads, each one with a writer id of its own
  NumPages,        \* pages of the SMB
  NumChunks,       \* chunks per page under the producer's page layout
  kRetryAttempts,  \* compare-exchange attempts before giving up
  kMaxCount,       \* largest value of the packet counter of a chunk
  NumChunkIDs      \* chunk ids are numbers modulo this

ASSUME ABIAssumption ==
  /\ NumWriters \in Nat \ {0} /\ NumPages \in Nat \ {0}
  /\ NumChunks \in Nat \ {0} /\ kRetryAttempts \in Nat \ {0}
  /\ kMaxCount \in Nat \ {0} /\ NumChunkIDs \in Nat \ {0}

Service  == 0                     \* the service's only thread
Writers  == 1 .. NumWriters       \* 0 is not a valid WriterID
Actors   == 0 .. NumWriters
Pages    == 0 .. NumPages - 1
Indices  == 0 .. NumChunks - 1
Chunks   == Pages \X Indices
ChunkIDs == 0 .. NumChunkIDs - 1

ChunkState ==
  {"kChunkFree", "kChunkBeingWritten", "kChunkBeingRead", "kChunkComplete"}

(* The 32 bit layout word of a page header: the partitioning and the state  *)
(* of every chunk.  The producer uses one partitioning, default_page_layout.*)
PageLayout == [div : {"kPageNotPartitioned", "kPageDiv"},
               st  : [Indices -> ChunkState]]
AllFree    == [i \in Indices |-> "kChunkFree"]
FreePage   == [div |-> "kPageNotPartitioned", st |-> AllFree]
FreshPage  == [div |-> "kPageDiv", st |-> AllFree]

HeaderFields == {"writer_id", "chunk_id", "packets"}
ChunkHeader  == [writer_id : Actors, chunk_id : ChunkIDs, packets : 0..kMaxCount]
ClearHeader  == [writer_id |-> 0, chunk_id |-> 0, packets |-> 0]

VARIABLES
  layout,   \* page -> its layout word
  header,   \* chunk -> the header at the beginning of the chunk
  pc,       \* actor -> the access it performs next
  call,     \* actor -> the local variables of its call in progress
  held,     \* actor -> the Chunk objects it holds
  scan,     \* the local variables of ScrapeSharedMemoryBuffers()
  stamp     \* chunk -> writer and chunk id of the header it was acquired with

vars == <<layout, header, pc, call, held, scan, stamp>>

(* The local variables of TryAcquireChunk() and ReleaseChunk(): the chunk,  *)
(* the layout word that was loaded, the failed attempts and the header      *)
(* fields still to be stored.                                               *)
Call == [chunk : Chunks, seen : PageLayout,
         attempt : 0 .. kRetryAttempts - 1, todo : SUBSET HeaderFields]
NoCall == [chunk |-> <<0, 0>>, seen |-> FreePage,
           attempt |-> 0, todo |-> {}]

ScanState == [page : Pages, layout : PageLayout, used : SUBSET Indices,
              idx : Indices, count : 0..kMaxCount, writer : Actors]
NoScan == [page |-> 0, layout |-> FreePage, used |-> {}, idx |-> 0,
           count |-> 0, writer |-> 0]

Stamp   == [writer_id : Actors, chunk_id : ChunkIDs]
NoStamp == [writer_id |-> 0, chunk_id |-> 0]

Steps == {"idle", "acquire_load", "acquire_cas", "header", "copy",
          "release_load", "release_cas", "check_failed", "scrape_page",
          "scrape_count", "scrape_writer", "scrape_id"}

TypeOK ==
  /\ layout \in [Pages -> PageLayout]
  /\ header \in [Chunks -> ChunkHeader]
  /\ pc \in [Actors -> Steps]
  /\ call \in [Actors -> Call]
  /\ held \in [Actors -> SUBSET Chunks]
  /\ scan \in ScanState
  /\ stamp \in [Chunks -> Stamp]

(* Zero-initialised memory is a buffer of free pages.                       *)
Init ==
  /\ layout = [p \in Pages |-> FreePage]
  /\ header = [c \in Chunks |-> ClearHeader]
  /\ pc = [a \in Actors |-> "idle"]
  /\ call = [a \in Actors |-> NoCall]
  /\ held = [a \in Actors |-> {}]
  /\ scan = NoScan
  /\ stamp = [c \in Chunks |-> NoStamp]

-----------------------------------------------------------------------------
(* Layout words.                                                            *)

StateOf(l, c)      == l.st[c[2]]
WithState(l, c, s) == [l EXCEPT !.st[c[2]] = s]

Cur(a)       == call[a].chunk
CurLayout(a) == layout[Cur(a)[1]]

(* The state an acquisition expects and the one it installs.                *)
AcquireFrom(a) == IF a = Service THEN "kChunkComplete" ELSE "kChunkFree"
AcquireTo(a)   == IF a = Service THEN "kChunkBeingRead" ELSE "kChunkBeingWritten"
ReleaseTo(a)   == IF a = Service THEN "kChunkFree" ELSE "kChunkComplete"

CanAcquire(a) ==
  /\ CurLayout(a).div # "kPageNotPartitioned"
  /\ StateOf(CurLayout(a), Cur(a)) = AcquireFrom(a)

(* The two PERFETTO_CHECKs of ReleaseChunk().                               *)
CanRelease(a) ==
  /\ CurLayout(a).div # "kPageNotPartitioned"
  /\ StateOf(CurLayout(a), Cur(a)) = AcquireTo(a)

(* compare_exchange_strong(): the word is still the one that was loaded.    *)
Mutant_SwapIfChunkUnchanged(a) ==
  StateOf(CurLayout(a), Cur(a)) = StateOf(call[a].seen, Cur(a))
LayoutUnchanged(a) == CurLayout(a) = call[a].seen

(* A page whose chunks are all free again is de-partitioned.                *)
Mutant_UnpartitionEarly(a) ==
  LET next == WithState(call[a].seen, Cur(a), ReleaseTo(a))
  IN  IF ReleaseTo(a) = "kChunkFree" THEN FreePage ELSE next
ReleasedLayout(a) ==
  LET next == WithState(call[a].seen, Cur(a), ReleaseTo(a))
  IN  IF next.st = AllFree THEN FreePage ELSE next

UsedChunks(l) == {i \in Indices : l.div # "kPageNotPartitioned"
                                  /\ l.st[i] # "kChunkFree"}

(* The call in progress goes on, returns, or tries again.                   *)
Goto(a, step) == pc' = [pc EXCEPT ![a] = step]
Return(a)     == Goto(a, "idle") /\ call' = [call EXCEPT ![a] = NoCall]
Mutant_TryForEver(a, step) ==
  /\ Goto(a, step)
  /\ call' = [call EXCEPT ![a].seen = FreePage]
TryAgain(a, step) ==
  /\ call[a].attempt + 1 < kRetryAttempts
  /\ Goto(a, step)
  /\ call' = [call EXCEPT ![a].attempt = @ + 1, ![a].seen = FreePage]
OutOfAttempts(a) == call[a].attempt + 1 >= kRetryAttempts

-----------------------------------------------------------------------------
(* TryPartitionPage(): a single compare-exchange against a free page.       *)
TryPartitionPage(w, p) ==
  /\ pc[w] = "idle"
  /\ layout[p] = FreePage
  /\ layout' = [layout EXCEPT ![p] = FreshPage]
  /\ UNCHANGED <<header, pc, call, held, scan, stamp>>

(* TryAcquireChunkForWriting() by a producer thread and                     *)
(* TryAcquireChunkForReading() by the service, for an entry of a commit     *)
(* request.  Either call may name any chunk.  The header argument of the    *)
(* former is chosen below, where the call first uses it.                    *)
TryAcquireChunkForWriting(w, c) ==
  /\ pc[w] = "idle"
  /\ Goto(w, "acquire_load")
  /\ call' = [call EXCEPT ![w].chunk = c]
  /\ UNCHANGED <<layout, header, held, scan, stamp>>

TryAcquireChunkForReading(c) ==
  /\ pc[Service] = "idle"
  /\ Goto(Service, "acquire_load")
  /\ call' = [call EXCEPT ![Service].chunk = c]
  /\ UNCHANGED <<layout, header, held, scan, stamp>>

AcquireLoad(a) ==
  /\ pc[a] = "acquire_load"
  /\ \/ /\ CanAcquire(a)
        /\ call' = [call EXCEPT ![a].seen = CurLayout(a)]
        /\ Goto(a, "acquire_cas")
     \/ /\ ~CanAcquire(a)
        /\ Return(a)
  /\ UNCHANGED <<layout, header, held, scan, stamp>>

(* The successful compare-exchange.  The service goes on to copy the chunk, *)
(* a writer to store the header.                                            *)
AcquireSwap(a) ==
  /\ pc[a] = "acquire_cas"
  /\ LayoutUnchanged(a)
  /\ layout' = [layout EXCEPT ![Cur(a)[1]] =
                  WithState(call[a].seen, Cur(a), AcquireTo(a))]
  /\ held' = [held EXCEPT ![a] = @ \cup {Cur(a)}]
  /\ \/ /\ a = Service
        /\ Goto(a, "copy")
        /\ call' = [call EXCEPT ![a].seen = FreePage, ![a].attempt = 0]
        /\ UNCHANGED stamp
     \/ /\ a # Service
        /\ Goto(a, "header")
        /\ call' = [call EXCEPT ![a].seen = FreePage, ![a].attempt = 0,
                                ![a].todo = HeaderFields]
        /\ \E id \in ChunkIDs : stamp' = [stamp EXCEPT ![Cur(a)] =
                                   [writer_id |-> a, chunk_id |-> id]]
  /\ UNCHANGED <<header, scan>>

(* A failed compare-exchange: try again, or give up without a chunk.        *)
AcquireRetry(a) ==
  /\ pc[a] = "acquire_cas"
  /\ ~LayoutUnchanged(a)
  /\ \/ TryAgain(a, "acquire_load")
     \/ OutOfAttempts(a) /\ Return(a)
  /\ UNCHANGED <<layout, header, held, scan, stamp>>

(* Mutant: the writer id is left as the last user of the chunk stored it.   *)
Mutant_KeepWriterID(a, f) ==
  CASE f = "writer_id" -> {header[Cur(a)].writer_id}
    [] f = "chunk_id"  -> {IF a = Service THEN 0 ELSE stamp[Cur(a)].chunk_id}
    [] f = "packets"   -> IF a = Service THEN {0} ELSE {0, 1}

(* One header store: of TryAcquireChunk() by a writer, of ClearChunkHeader()*)
(* by the service.  The packet count is stored last; a writer announces one *)
(* packet already when a packet continues from its previous chunk.          *)
HeaderValues(a, f) ==
  CASE f = "writer_id" -> {a}
    [] f = "chunk_id"  -> {IF a = Service THEN 0 ELSE stamp[Cur(a)].chunk_id}
    [] f = "packets"   -> IF a = Service THEN {0} ELSE {0, 1}

StoreReady(a, f) ==
  f \in call[a].todo /\ (f = "packets" => call[a].todo = {"packets"})

StoreHeader(a, f) ==
  /\ pc[a] = "header"
  /\ StoreReady(a, f)
  /\ \E v \in HeaderValues(a, f) : header' = [header EXCEPT ![Cur(a)][f] = v]
  /\ \/ /\ call[a].todo # {f}
        /\ call' = [call EXCEPT ![a].todo = @ \ {f}]
        /\ UNCHANGED pc
     \/ /\ call[a].todo = {f} /\ a = Service
        /\ call' = [call EXCEPT ![a].todo = {}]
        /\ Goto(a, "release_load")
     \/ /\ call[a].todo = {f} /\ a # Service
        /\ Return(a)
  /\ UNCHANGED <<layout, held, scan, stamp>>

(* Chunk::IncrementPacketCount(), called before each packet is started.     *)
IncrementPacketCount(w, c) ==
  /\ pc[w] = "idle"
  /\ c \in held[w]
  /\ header[c].packets < kMaxCount
  /\ header' = [header EXCEPT ![c].packets = @ + 1]
  /\ UNCHANGED <<layout, pc, call, held, scan, stamp>>

-----------------------------------------------------------------------------
(* ReleaseChunkAsComplete() by the producer thread that holds the chunk.    *)
ReleaseChunkAsComplete(w, c) ==
  /\ pc[w] = "idle"
  /\ c \in held[w]
  /\ Goto(w, "release_load")
  /\ call' = [call EXCEPT ![w].chunk = c]
  /\ UNCHANGED <<layout, header, held, scan, stamp>>

(* CommitData() copied the chunk: ReleaseChunkAsFree() clears the header    *)
(* first.                                                                   *)
ReleaseChunkAsFree ==
  /\ pc[Service] = "copy"
  /\ Goto(Service, "header")
  /\ call' = [call EXCEPT ![Service].todo = HeaderFields]
  /\ UNCHANGED <<layout, header, held, scan, stamp>>

ReleaseLoad(a) ==
  /\ pc[a] = "release_load"
  /\ \/ /\ CanRelease(a)
        /\ call' = [call EXCEPT ![a].seen = CurLayout(a)]
        /\ Goto(a, "release_cas")
     \/ /\ ~CanRelease(a)
        /\ Goto(a, "check_failed")
        /\ UNCHANGED call
  /\ UNCHANGED <<layout, header, held, scan, stamp>>

ReleaseSwap(a) ==
  /\ pc[a] = "release_cas"
  /\ LayoutUnchanged(a)
  /\ layout' = [layout EXCEPT ![Cur(a)[1]] = ReleasedLayout(a)]
  /\ held' = [held EXCEPT ![a] = @ \ {Cur(a)}]
  /\ stamp' = IF a = Service THEN [stamp EXCEPT ![Cur(a)] = NoStamp] ELSE stamp
  /\ Return(a)
  /\ UNCHANGED <<header, scan>>

(* A failed compare-exchange: try again, or give up; the Chunk object is    *)
(* gone and the chunk stays pending for ever.                               *)
ReleaseRetry(a) ==
  /\ pc[a] = "release_cas"
  /\ ~LayoutUnchanged(a)
  /\ \/ TryAgain(a, "release_load") /\ UNCHANGED held
     \/ /\ OutOfAttempts(a)
        /\ held' = [held EXCEPT ![a] = @ \ {Cur(a)}]
        /\ Return(a)
  /\ UNCHANGED <<layout, header, scan, stamp>>

-----------------------------------------------------------------------------
(* ScrapeSharedMemoryBuffers(), on the service's thread.                    *)

ScrapeSharedMemoryBuffers ==
  /\ pc[Service] = "idle"
  /\ Goto(Service, "scrape_page")
  /\ UNCHANGED <<layout, header, call, held, scan, stamp>>

(* What follows the last used chunk of a page.                              *)
NextPage(sc) ==
  \/ /\ sc.page + 1 < NumPages
     /\ scan' = [NoScan EXCEPT !.page = sc.page + 1]
     /\ Goto(Service, "scrape_page")
  \/ /\ sc.page + 1 >= NumPages
     /\ scan' = NoScan
     /\ Goto(Service, "idle")

(* Go on with the used chunks of the page that come after sc.idx.           *)
NextChunk(sc) ==
  \/ /\ sc.used = {}
     /\ NextPage(sc)
  \/ \E i \in sc.used :
       /\ \A j \in sc.used : i <= j
       /\ scan' = [sc EXCEPT !.idx = i, !.used = @ \ {i},
                              !.count = 0, !.writer = 0]
       /\ Goto(Service, "scrape_count")

ScrapeLayout ==
  LET l == layout[scan.page] IN
  /\ pc[Service] = "scrape_page"
  /\ NextChunk([scan EXCEPT !.layout = l, !.used = UsedChunks(l)])
  /\ UNCHANGED <<layout, header, call, held, stamp>>

ScanChunk    == <<scan.page, scan.idx>>
ScanComplete == StateOf(scan.layout, ScanChunk) = "kChunkComplete"

(* An incomplete chunk needs two packets: the last one may be unfinished.   *)
WorthCopying(count) == ScanComplete \/ count >= 2

ScrapeCount ==
  LET count == header[ScanChunk].packets IN
  /\ pc[Service] = "scrape_count"
  /\ \/ /\ WorthCopying(count)
        /\ scan' = [scan EXCEPT !.count = count]
        /\ Goto(Service, "scrape_writer")
     \/ /\ ~WorthCopying(count)
        /\ NextChunk(scan)
  /\ UNCHANGED <<layout, header, call, held, stamp>>

ScrapeWriter ==
  /\ pc[Service] = "scrape_writer"
  /\ scan' = [scan EXCEPT !.writer = header[ScanChunk].writer_id]
  /\ Goto(Service, "scrape_id")
  /\ UNCHANGED <<layout, header, call, held, stamp>>

(* The chunk id is loaded and the chunk is copied into the log buffer.      *)
ScrapeCopy ==
  /\ pc[Service] = "scrape_id"
  /\ NextChunk(scan)
  /\ UNCHANGED <<layout, header, call, held, stamp>>

-----------------------------------------------------------------------------
(* The steps of a call in progress, and all steps.                          *)
CallStep(a) ==
  \/ AcquireLoad(a) \/ AcquireSwap(a) \/ AcquireRetry(a)
  \/ \E f \in HeaderFields : StoreHeader(a, f)
  \/ ReleaseLoad(a) \/ ReleaseSwap(a) \/ ReleaseRetry(a)

ServiceStep ==
  \/ ReleaseChunkAsFree
  \/ ScrapeLayout \/ ScrapeCount \/ ScrapeWriter \/ ScrapeCopy

Next ==
  \/ \E w \in Writers :
       \/ \E p \in Pages : TryPartitionPage(w, p)
       \/ \E c \in Chunks : TryAcquireChunkForWriting(w, c)
       \/ \E c \in Chunks : IncrementPacketCount(w, c)
       \/ \E c \in Chunks : ReleaseChunkAsComplete(w, c)
  \/ \E a \in Actors : CallStep(a)
  \/ \E c \in Chunks : TryAcquireChunkForReading(c)
  \/ ScrapeSharedMemoryBuffers
  \/ ServiceStep

Spec == Init /\ [][Next]_vars

(* Every thread that is inside a call keeps being scheduled.                *)
Fairness ==
  \A a \in Actors : WF_vars(CallStep(a) \/ (a = Service /\ ServiceStep))

FairSpec == Spec /\ Fairness

-----------------------------------------------------------------------------
(* A Chunk object is an exclusive right: no two actors hold the same chunk, *)
(* a producer's chunk is kChunkBeingWritten and the service's is            *)
(* kChunkBeingRead, on a page that has not been de-partitioned under it.    *)
ChunkOwnership ==
  \A a \in Actors : \A c \in held[a] :
    /\ StateOf(layout[c[1]], c) = AcquireTo(a)
    /\ layout[c[1]].div = "kPageDiv"
    /\ \A b \in Actors : c \in held[b] => a = b

(* The PERFETTO_CHECKs of ReleaseChunk() (shared_memory_abi.cc:253 and 269) *)
(* never fail, however the threads interleave.                              *)
NoCheckFailure == \A a \in Actors : pc[a] # "check_failed"

(* Whatever the service copies into a log buffer, on commit or by scraping  *)
(* a chunk that the producer is still writing, it attributes to the writer  *)
(* and the chunk id that the chunk was acquired with: it never sees a stale *)
(* or half-written header ("it is safe to access the remaining header       *)
(* fields", tracing_service_impl.cc:1847).                                  *)
HeaderIsStamp(c) == /\ header[c].writer_id = stamp[c].writer_id
                    /\ header[c].chunk_id = stamp[c].chunk_id

CopiesAreAttributed ==
  /\ pc[Service] = "copy" => HeaderIsStamp(Cur(Service))
  /\ pc[Service] = "scrape_id" =>
       /\ HeaderIsStamp(ScanChunk)
       /\ scan.writer = stamp[ScanChunk].writer_id
       /\ ScanComplete => scan.count = header[ScanChunk].packets

(* Every call returns: contention on a page cannot keep a thread in         *)
(* TryAcquireChunk() or ReleaseChunk() for ever (kRetryAttempts), and the   *)
(* scraper reaches the end of the buffer.                                   *)
CallsReturn == \A a \in Actors : []<>(pc[a] = "idle")

(* Page by page and word by word, the protocol implements the life cycle of *)
(* a chunk that shared_memory_abi.h draws: partitioning, failed attempts    *)
(* and de-partitioning a page never disturb a chunk that somebody uses, and *)
(* the packet count moves only under the writer's hands until the service   *)
(* resets it.                                                               *)
Lifecycle == INSTANCE ChunkLifecycle
  WITH state <- [c \in Chunks |-> StateOf(layout[c[1]], c)],
       count <- [c \in Chunks |-> header[c].packets]

ImplementsLifecycle == Lifecycle!Spec

=============================================================================
