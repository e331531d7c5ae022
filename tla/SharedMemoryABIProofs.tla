------------------------ MODULE SharedMemoryABIProofs ------------------------
(***************************************************************************)
(* Proofs about SharedMemoryABI, for any number of writers, pages, chunks, *)
(* attempts, packets and chunk ids.                                        *)
(***************************************************************************)
EXTENDS SharedMemoryABI, TLAPS

-----------------------------------------------------------------------------
(* Layout words.                                                            *)

(* A chunk is a page and an index.                                          *)
LEMMA ChunkParts ==
  ASSUME NEW c \in Chunks
  PROVE  c[1] \in Pages /\ c[2] \in Indices /\ c = <<c[1], c[2]>>
BY DEF Chunks

(* Setting the state of one chunk leaves the partitioning and the other     *)
(* chunks of the word alone.                                                *)
LEMMA WithStateFacts ==
  ASSUME NEW l \in PageLayout, NEW c \in Chunks, NEW s \in ChunkState
  PROVE  /\ WithState(l, c, s) \in PageLayout
         /\ WithState(l, c, s).div = l.div
         /\ \A d \in Chunks :
              StateOf(WithState(l, c, s), d)
                = IF d[2] = c[2] THEN s ELSE StateOf(l, d)
BY ChunkParts DEF PageLayout, WithState, StateOf

LEMMA ConstantTypes ==
  /\ FreePage \in PageLayout /\ FreshPage \in PageLayout
  /\ \A c \in Chunks : StateOf(FreePage, c) = "kChunkFree"
  /\ \A c \in Chunks : StateOf(FreshPage, c) = "kChunkFree"
  /\ <<0, 0>> \in Chunks /\ NoCall \in Call /\ NoScan \in ScanState
  /\ NoStamp \in Stamp /\ ClearHeader \in ChunkHeader
  /\ Service \in Actors /\ Writers \subseteq Actors /\ Service \notin Writers
BY ABIAssumption, ChunkParts
DEF FreePage, FreshPage, AllFree, PageLayout, ChunkState, StateOf, Chunks, Pages,
    Indices, NoCall, Call, NoScan, ScanState, NoStamp, Stamp, ClearHeader,
    ChunkHeader, ChunkIDs, Actors, Writers, Service, HeaderFields

(* De-partitioning happens only when every chunk of the page is free.       *)
LEMMA ReleasedLayoutFacts ==
  ASSUME TypeOK, NEW a \in Actors
  PROVE  /\ ReleasedLayout(a) \in PageLayout
         /\ \A d \in Chunks :
              StateOf(ReleasedLayout(a), d)
                = IF d[2] = Cur(a)[2] THEN ReleaseTo(a)
                  ELSE StateOf(call[a].seen, d)
         /\ ReleasedLayout(a).div \in {"kPageNotPartitioned", call[a].seen.div}
         /\ ReleasedLayout(a).div = "kPageNotPartitioned"
              => \/ ReleasedLayout(a) = FreePage
                 \/ call[a].seen.div = "kPageNotPartitioned"
<1> DEFINE next == WithState(call[a].seen, Cur(a), ReleaseTo(a))
<1>1. call[a].seen \in PageLayout /\ Cur(a) \in Chunks
  BY DEF TypeOK, Call, Cur
<1>2. ReleaseTo(a) \in ChunkState
  BY DEF ReleaseTo, ChunkState
<1>3. /\ next \in PageLayout
      /\ next.div = call[a].seen.div
      /\ \A d \in Chunks : StateOf(next, d)
            = IF d[2] = Cur(a)[2] THEN ReleaseTo(a) ELSE StateOf(call[a].seen, d)
  BY <1>1, <1>2, WithStateFacts
<1>4. ReleasedLayout(a) = IF next.st = AllFree THEN FreePage ELSE next
  BY DEF ReleasedLayout
<1>5. CASE next.st = AllFree
  <2>1. \A d \in Chunks : StateOf(next, d) = "kChunkFree"
    BY <1>5, ChunkParts DEF StateOf, AllFree
  <2> QED BY <1>3, <1>4, <1>5, <2>1, ConstantTypes DEF FreePage
<1>6. CASE next.st # AllFree
  BY <1>3, <1>4, <1>6
<1> QED BY <1>5, <1>6

-----------------------------------------------------------------------------
(* Type correctness.                                                        *)

LEMMA GotoType ==
  ASSUME TypeOK, NEW a \in Actors, NEW s \in Steps, Goto(a, s)
  PROVE  pc' \in [Actors -> Steps]
BY DEF TypeOK, Goto

LEMMA NextChunkType ==
  ASSUME TypeOK, NEW STATE sc, sc \in ScanState, NextChunk(sc)
  PROVE  /\ scan' \in ScanState /\ pc' \in [Actors -> Steps]
         /\ \A a \in Actors \ {Service} : pc'[a] = pc[a]
<1>0. "scrape_page" \in Steps /\ "idle" \in Steps /\ "scrape_count" \in Steps
  BY DEF Steps
<1>1. CASE NextPage(sc)
  <2>1. sc.page + 1 < NumPages => sc.page + 1 \in Pages
    BY ABIAssumption DEF ScanState, Pages
  <2>2. CASE /\ sc.page + 1 < NumPages
             /\ scan' = [NoScan EXCEPT !.page = sc.page + 1]
             /\ Goto(Service, "scrape_page")
    BY <2>1, <2>2, <1>0, ConstantTypes DEF ScanState, Goto, TypeOK, NoScan
  <2>3. CASE scan' = NoScan /\ Goto(Service, "idle")
    BY <2>3, <1>0, ConstantTypes DEF Goto, TypeOK
  <2> QED BY <1>1, <2>2, <2>3 DEF NextPage
<1>2. ASSUME NEW i \in sc.used,
             scan' = [sc EXCEPT !.idx = i, !.used = @ \ {i},
                                !.count = 0, !.writer = 0],
             Goto(Service, "scrape_count")
      PROVE  /\ scan' \in ScanState /\ pc' \in [Actors -> Steps]
             /\ \A a \in Actors \ {Service} : pc'[a] = pc[a]
  <2>1. pc' \in [Actors -> Steps] /\ \A a \in Actors \ {Service} : pc'[a] = pc[a]
    BY <1>2, <1>0, ConstantTypes DEF Goto, TypeOK
  <2>2. i \in Indices /\ 0 \in 0..kMaxCount /\ 0 \in Actors
    BY <1>2, ABIAssumption DEF ScanState, Actors
  <2>3. scan' \in ScanState
    BY <1>2, <2>2 DEF ScanState
  <2> QED BY <2>1, <2>3
<1> QED BY <1>1, <1>2 DEF NextChunk

LEMMA TypeStep ==
  ASSUME TypeOK, [Next]_vars
  PROVE  TypeOK'
<1>0. /\ Steps = {"idle", "acquire_load", "acquire_cas", "header", "copy",
                  "release_load", "release_cas", "check_failed", "scrape_page",
                  "scrape_count", "scrape_writer", "scrape_id"}
      /\ Service \in Actors
      /\ NoCall \in Call /\ FreePage \in PageLayout
      /\ \A a \in Actors : AcquireTo(a) \in ChunkState /\ ReleaseTo(a) \in ChunkState
      /\ 0 \in 0 .. kRetryAttempts - 1
  BY ConstantTypes, ABIAssumption DEF Steps, AcquireTo, ReleaseTo, ChunkState
<1>1. \A a \in Actors : /\ Cur(a) \in Chunks /\ call[a] \in Call
                        /\ Cur(a)[1] \in Pages /\ CurLayout(a) \in PageLayout
  BY ChunkParts DEF TypeOK, Call, Cur, CurLayout
<1>2. ASSUME NEW w \in Writers, NEW p \in Pages, TryPartitionPage(w, p)
      PROVE  TypeOK'
  BY <1>2, ConstantTypes DEF TryPartitionPage, TypeOK
<1>3. ASSUME NEW w \in Writers, NEW c \in Chunks, TryAcquireChunkForWriting(w, c)
      PROVE  TypeOK'
  BY <1>3, <1>0, ConstantTypes DEF TryAcquireChunkForWriting, TypeOK, Goto, Call
<1>4. ASSUME NEW c \in Chunks, TryAcquireChunkForReading(c)
      PROVE  TypeOK'
  BY <1>4, <1>0, ConstantTypes DEF TryAcquireChunkForReading, TypeOK, Goto, Call
<1>5. ASSUME NEW w \in Writers, NEW c \in Chunks, IncrementPacketCount(w, c)
      PROVE  TypeOK'
  <2>1. header[c].packets + 1 \in 0..kMaxCount
    BY <1>5, ABIAssumption DEF TypeOK, IncrementPacketCount, ChunkHeader
  <2>2. header' \in [Chunks -> ChunkHeader]
    BY <1>5, <2>1 DEF TypeOK, IncrementPacketCount, ChunkHeader
  <2> QED BY <1>5, <2>2 DEF TypeOK, IncrementPacketCount
<1>6. ASSUME NEW w \in Writers, NEW c \in Chunks, ReleaseChunkAsComplete(w, c)
      PROVE  TypeOK'
  BY <1>6, <1>0, ConstantTypes DEF ReleaseChunkAsComplete, TypeOK, Goto, Call
<1>7. ASSUME NEW a \in Actors, AcquireLoad(a)
      PROVE  TypeOK'
  <2>1. CASE /\ call' = [call EXCEPT ![a].seen = CurLayout(a)]
             /\ Goto(a, "acquire_cas")
    BY <1>7, <2>1, <1>0, <1>1 DEF AcquireLoad, TypeOK, Goto, Call
  <2>2. CASE Return(a)
    BY <1>7, <2>2, <1>0 DEF AcquireLoad, TypeOK, Goto, Return
  <2> QED BY <1>7, <2>1, <2>2 DEF AcquireLoad
<1>8. ASSUME NEW a \in Actors, AcquireSwap(a)
      PROVE  TypeOK'
  <2>1. layout' \in [Pages -> PageLayout]
    BY <1>8, <1>0, <1>1, WithStateFacts DEF AcquireSwap, TypeOK, Call
  <2>2. held' \in [Actors -> SUBSET Chunks]
    BY <1>8, <1>1 DEF AcquireSwap, TypeOK
  <2>3. pc' \in [Actors -> Steps]
    BY <1>8, <1>0 DEF AcquireSwap, TypeOK, Goto
  <2>4. call' \in [Actors -> Call]
    BY <1>8, <1>0, <1>1 DEF AcquireSwap, TypeOK, Call
  <2>5. stamp' \in [Chunks -> Stamp]
    <3>1. \A id \in ChunkIDs : [writer_id |-> a, chunk_id |-> id] \in Stamp
      BY DEF Stamp
    <3>2. CASE UNCHANGED stamp
      BY <3>2 DEF TypeOK
    <3>3. ASSUME NEW id \in ChunkIDs,
                 stamp' = [stamp EXCEPT ![Cur(a)] = [writer_id |-> a, chunk_id |-> id]]
          PROVE  stamp' \in [Chunks -> Stamp]
      BY <3>1, <3>3, <1>1 DEF TypeOK
    <3> QED BY <1>8, <3>2, <3>3 DEF AcquireSwap
  <2> QED BY <1>8, <2>1, <2>2, <2>3, <2>4, <2>5 DEF AcquireSwap, TypeOK
<1>9. ASSUME NEW a \in Actors, NEW s \in Steps, TryAgain(a, s)
      PROVE  pc' \in [Actors -> Steps] /\ call' \in [Actors -> Call]
  <2>1. call[a].attempt + 1 \in 0 .. kRetryAttempts - 1
    BY <1>9, <1>1, ABIAssumption DEF TryAgain, Call
  <2> QED BY <1>9, <2>1, <1>0, <1>1 DEF TryAgain, TypeOK, Goto, Call
<1>10. ASSUME NEW a \in Actors, AcquireRetry(a)
       PROVE  TypeOK'
  <2>1. CASE TryAgain(a, "acquire_load")
    BY <1>10, <2>1, <1>0, <1>9 DEF AcquireRetry, TypeOK
  <2>2. CASE Return(a)
    BY <1>10, <2>2, <1>0 DEF AcquireRetry, TypeOK, Goto, Return
  <2> QED BY <1>10, <2>1, <2>2 DEF AcquireRetry
<1>11. ASSUME NEW a \in Actors, NEW f \in HeaderFields, StoreHeader(a, f)
       PROVE  TypeOK'
  <2>1. header' \in [Chunks -> ChunkHeader]
    <3>0. PICK v \in HeaderValues(a, f) : header' = [header EXCEPT ![Cur(a)][f] = v]
      BY <1>11 DEF StoreHeader
    <3>1. CASE f = "writer_id"
      <4>1. v \in Actors
        BY <3>0, <3>1 DEF HeaderValues
      <4> QED BY <3>0, <3>1, <4>1, <1>1 DEF TypeOK, ChunkHeader
    <3>2. CASE f = "chunk_id"
      <4>1. v \in ChunkIDs
        BY <3>0, <3>2, <1>1, ABIAssumption DEF HeaderValues, TypeOK, Stamp, ChunkIDs
      <4> QED BY <3>0, <3>2, <4>1, <1>1 DEF TypeOK, ChunkHeader
    <3>3. CASE f = "packets"
      <4>1. v \in 0..kMaxCount
        BY <3>0, <3>3, ABIAssumption DEF HeaderValues
      <4> QED BY <3>0, <3>3, <4>1, <1>1 DEF TypeOK, ChunkHeader
    <3> QED BY <3>1, <3>2, <3>3 DEF HeaderFields
  <2>2. call' \in [Actors -> Call] /\ pc' \in [Actors -> Steps]
    <3>1. CASE call' = [call EXCEPT ![a].todo = @ \ {f}] /\ UNCHANGED pc
      BY <3>1, <1>1 DEF TypeOK, Call
    <3>2. CASE call' = [call EXCEPT ![a].todo = {}] /\ Goto(a, "release_load")
      BY <3>2, <1>0, <1>1 DEF TypeOK, Call, Goto
    <3>3. CASE Return(a)
      BY <3>3, <1>0 DEF TypeOK, Return, Goto
    <3> QED BY <1>11, <3>1, <3>2, <3>3 DEF StoreHeader
  <2> QED BY <1>11, <2>1, <2>2 DEF StoreHeader, TypeOK
<1>12. ASSUME NEW a \in Actors, ReleaseLoad(a)
       PROVE  TypeOK'
  <2>1. pc' \in [Actors -> Steps]
    BY <1>12, <1>0 DEF ReleaseLoad, TypeOK, Goto
  <2>2. call' \in [Actors -> Call]
    BY <1>12, <1>1 DEF ReleaseLoad, TypeOK, Call
  <2> QED BY <1>12, <2>1, <2>2 DEF ReleaseLoad, TypeOK
<1>13. ASSUME NEW a \in Actors, ReleaseSwap(a)
       PROVE  TypeOK'
  <2>1. layout' \in [Pages -> PageLayout]
    BY <1>13, <1>1, ReleasedLayoutFacts DEF ReleaseSwap, TypeOK
  <2>2. stamp' \in [Chunks -> Stamp] /\ held' \in [Actors -> SUBSET Chunks]
    BY <1>13, <1>1, ConstantTypes DEF ReleaseSwap, TypeOK
  <2> QED BY <1>13, <1>0, <2>1, <2>2 DEF ReleaseSwap, TypeOK, Return, Goto
<1>14. ASSUME NEW a \in Actors, ReleaseRetry(a)
       PROVE  TypeOK'
  <2>1. CASE TryAgain(a, "release_load") /\ UNCHANGED held
    BY <1>14, <2>1, <1>0, <1>9 DEF ReleaseRetry, TypeOK
  <2>2. CASE held' = [held EXCEPT ![a] = @ \ {Cur(a)}] /\ Return(a)
    BY <1>14, <2>2, <1>0 DEF ReleaseRetry, TypeOK, Goto, Return
  <2> QED BY <1>14, <2>1, <2>2 DEF ReleaseRetry
<1>15. CASE ReleaseChunkAsFree
  BY <1>15, <1>0 DEF ReleaseChunkAsFree, TypeOK, Goto, Call
<1>16. CASE ScrapeSharedMemoryBuffers
  BY <1>16, <1>0 DEF ScrapeSharedMemoryBuffers, TypeOK, Goto
<1>17. CASE ScrapeLayout
  <2>1. [scan EXCEPT !.layout = layout[scan.page],
                     !.used = UsedChunks(layout[scan.page])] \in ScanState
    BY DEF TypeOK, ScanState, UsedChunks
  <2>2. scan' \in ScanState /\ pc' \in [Actors -> Steps]
    BY <1>17, <2>1, NextChunkType DEF ScrapeLayout
  <2> QED BY <1>17, <2>2 DEF ScrapeLayout, TypeOK
<1>18. CASE ScrapeCount
  <2>1. CASE NextChunk(scan)
    BY <1>18, <2>1, NextChunkType DEF ScrapeCount, TypeOK
  <2>2. CASE /\ scan' = [scan EXCEPT !.count = header[ScanChunk].packets]
             /\ Goto(Service, "scrape_writer")
    <3>1. header[ScanChunk].packets \in 0..kMaxCount
      BY DEF TypeOK, ScanState, ScanChunk, Chunks, ChunkHeader
    <3> QED BY <1>18, <2>2, <3>1, <1>0 DEF ScrapeCount, TypeOK, Goto, ScanState
  <2> QED BY <1>18, <2>1, <2>2 DEF ScrapeCount
<1>19. CASE ScrapeWriter
  <2>1. header[ScanChunk].writer_id \in Actors
    BY DEF TypeOK, ScanState, ScanChunk, Chunks, ChunkHeader
  <2> QED BY <1>19, <2>1, <1>0 DEF ScrapeWriter, TypeOK, Goto, ScanState
<1>20. CASE ScrapeCopy
  BY <1>20, NextChunkType DEF ScrapeCopy, TypeOK
<1>21. CASE UNCHANGED vars
  BY <1>21 DEF vars, TypeOK
<1> QED
  BY <1>2, <1>3, <1>4, <1>5, <1>6, <1>7, <1>8, <1>10, <1>11, <1>12, <1>13, <1>14,
     <1>15, <1>16, <1>17, <1>18, <1>19, <1>20, <1>21
  DEF Next, CallStep, ServiceStep

(* Every variable of the protocol keeps its type; in particular a call      *)
(* never makes more than kRetryAttempts attempts (shared_memory_abi.cc:166).*)
THEOREM TypeCorrect == Spec => []TypeOK
<1>1. Init => TypeOK
  BY ConstantTypes, ABIAssumption DEF Init, TypeOK, Steps
<1>2. TypeOK /\ [Next]_vars => TypeOK'
  BY TypeStep
<1> QED BY <1>1, <1>2, PTL DEF Spec

-----------------------------------------------------------------------------
(* Ownership.                                                               *)

(* The steps at which the calling actor still owns its chunk.               *)
HolderSteps == {"copy", "header", "release_load", "release_cas"}

(* ChunkOwnership alone is not inductive: a call that is about to give the  *)
(* chunk back must still hold it, the word an acquisition loaded must allow *)
(* it, and an unpartitioned page has no chunk in use.                       *)
OwnerInv ==
  /\ TypeOK
  /\ ChunkOwnership
  /\ NoCheckFailure
  /\ \A p \in Pages : layout[p].div = "kPageNotPartitioned" => layout[p] = FreePage
  /\ \A a \in Actors : pc[a] \in HolderSteps => Cur(a) \in held[a]
  /\ \A a \in Actors : pc[a] = "acquire_cas" =>
       /\ call[a].seen.div = "kPageDiv"
       /\ StateOf(call[a].seen, Cur(a)) = AcquireFrom(a)

(* An actor can take a chunk only when nobody holds it.                     *)
LEMMA NobodyHolds ==
  ASSUME OwnerInv, NEW a \in Actors, AcquireSwap(a)
  PROVE  \A b \in Actors : Cur(a) \notin held[b]
BY DEF OwnerInv, ChunkOwnership, AcquireSwap, LayoutUnchanged, CurLayout,
       AcquireFrom, AcquireTo

(* A compare-exchange that takes a chunk changes the state of that chunk    *)
(* and of no other.                                                         *)
LEMMA AcquireSwapStates ==
  ASSUME TypeOK, NEW a \in Actors, AcquireSwap(a)
  PROVE  \A c \in Chunks :
           /\ StateOf(layout'[c[1]], c)
                = IF c = Cur(a) THEN AcquireTo(a) ELSE StateOf(layout[c[1]], c)
           /\ layout'[c[1]].div = layout[c[1]].div
<1> SUFFICES ASSUME NEW c \in Chunks
             PROVE  /\ StateOf(layout'[c[1]], c)
                        = IF c = Cur(a) THEN AcquireTo(a) ELSE StateOf(layout[c[1]], c)
                    /\ layout'[c[1]].div = layout[c[1]].div
  OBVIOUS
<1>1. /\ Cur(a) \in Chunks /\ Cur(a)[1] \in Pages /\ call[a].seen \in PageLayout
      /\ AcquireTo(a) \in ChunkState
      /\ layout[Cur(a)[1]] = call[a].seen
      /\ layout' = [layout EXCEPT ![Cur(a)[1]] =
                      WithState(call[a].seen, Cur(a), AcquireTo(a))]
  BY ChunkParts DEF TypeOK, Call, Cur, AcquireTo, ChunkState, AcquireSwap,
                    LayoutUnchanged, CurLayout
<1>2. c[1] \in Pages /\ (c = Cur(a) <=> c[1] = Cur(a)[1] /\ c[2] = Cur(a)[2])
  BY <1>1, ChunkParts
<1>3. CASE c[1] = Cur(a)[1]
  BY <1>1, <1>2, <1>3, WithStateFacts DEF TypeOK
<1>4. CASE c[1] # Cur(a)[1]
  BY <1>1, <1>2, <1>4 DEF TypeOK
<1> QED BY <1>3, <1>4

LEMMA ReleaseSwapStates ==
  ASSUME TypeOK, NEW a \in Actors, ReleaseSwap(a)
  PROVE  \A c \in Chunks :
           /\ StateOf(layout'[c[1]], c)
                = IF c = Cur(a) THEN ReleaseTo(a) ELSE StateOf(layout[c[1]], c)
           /\ \/ layout'[c[1]] = FreePage
              \/ layout'[c[1]].div = layout[c[1]].div
<1> SUFFICES ASSUME NEW c \in Chunks
             PROVE  /\ StateOf(layout'[c[1]], c)
                        = IF c = Cur(a) THEN ReleaseTo(a) ELSE StateOf(layout[c[1]], c)
                    /\ \/ layout'[c[1]] = FreePage
                       \/ layout'[c[1]].div = layout[c[1]].div
  OBVIOUS
<1>1. /\ Cur(a) \in Chunks /\ Cur(a)[1] \in Pages
      /\ layout[Cur(a)[1]] = call[a].seen
      /\ layout' = [layout EXCEPT ![Cur(a)[1]] = ReleasedLayout(a)]
  BY ChunkParts DEF TypeOK, Call, Cur, ReleaseSwap, LayoutUnchanged, CurLayout
<1>2. c[1] \in Pages /\ (c = Cur(a) <=> c[1] = Cur(a)[1] /\ c[2] = Cur(a)[2])
  BY <1>1, ChunkParts
<1>3. CASE c[1] = Cur(a)[1]
  BY <1>1, <1>2, <1>3, ReleasedLayoutFacts DEF TypeOK
<1>4. CASE c[1] # Cur(a)[1]
  BY <1>1, <1>2, <1>4 DEF TypeOK
<1> QED BY <1>3, <1>4

LEMMA OwnerStep ==
  ASSUME OwnerInv, [Next]_vars
  PROVE  OwnerInv'
<1>0. TypeOK /\ TypeOK'
  BY TypeStep DEF OwnerInv
<1>1. \A a \in Actors : /\ Cur(a) \in Chunks /\ call[a] \in Call
                        /\ Cur(a)[1] \in Pages /\ CurLayout(a) \in PageLayout
  BY <1>0, ChunkParts DEF TypeOK, Call, Cur, CurLayout
<1>2. ASSUME NEW w \in Writers, NEW p \in Pages, TryPartitionPage(w, p)
      PROVE  OwnerInv'
  <2>1. \A c \in Chunks : /\ StateOf(layout'[c[1]], c) = StateOf(layout[c[1]], c)
                          /\ layout[c[1]].div = "kPageDiv" => layout'[c[1]].div = "kPageDiv"
    BY <1>2, <1>0, ConstantTypes, ChunkParts DEF TryPartitionPage, TypeOK, FreshPage
  <2>2. ChunkOwnership'
    BY <1>0, <1>2, <2>1 DEF OwnerInv, ChunkOwnership, TryPartitionPage, TypeOK
  <2>3. \A q \in Pages : layout'[q].div = "kPageNotPartitioned" => layout'[q] = FreePage
    BY <1>0, <1>2 DEF OwnerInv, TryPartitionPage, TypeOK, FreshPage
  <2> QED BY <1>0, <1>2, <2>2, <2>3
          DEF OwnerInv, TryPartitionPage, NoCheckFailure, Cur
<1>3. ASSUME NEW a \in Actors, UNCHANGED <<layout, held>>, NEW s \in Steps,
             Goto(a, s), s # "check_failed",
             \A b \in Actors \ {a} : call'[b] = call[b],
             s \in HolderSteps => Cur(a)' \in held[a],
             s = "acquire_cas" =>
               /\ call'[a].seen.div = "kPageDiv"
               /\ StateOf(call'[a].seen, Cur(a)') = AcquireFrom(a)
      PROVE  OwnerInv'
  <2>1. ChunkOwnership'
    BY <1>3 DEF OwnerInv, ChunkOwnership
  <2>2. \A b \in Actors : pc'[b] = IF b = a THEN s ELSE pc[b]
    BY <1>0, <1>3 DEF Goto, TypeOK
  <2>3. \A b \in Actors \ {a} : Cur(b)' = Cur(b)
    BY <1>3 DEF Cur
  <2>4. NoCheckFailure'
    BY <1>3, <2>2 DEF OwnerInv, NoCheckFailure
  <2>5. \A b \in Actors : pc'[b] \in HolderSteps => Cur(b)' \in held'[b]
    BY <1>3, <2>2, <2>3 DEF OwnerInv
  <2>6. \A b \in Actors : pc'[b] = "acquire_cas" =>
          /\ call'[b].seen.div = "kPageDiv"
          /\ StateOf(call'[b].seen, Cur(b)') = AcquireFrom(b)
    BY <1>3, <2>2, <2>3 DEF OwnerInv
  <2>7. \A p \in Pages : layout'[p].div = "kPageNotPartitioned" => layout'[p] = FreePage
    BY <1>3 DEF OwnerInv
  <2> QED BY <1>0, <2>1, <2>4, <2>5, <2>6, <2>7 DEF OwnerInv
<1>S. Steps = {"idle", "acquire_load", "acquire_cas", "header", "copy",
               "release_load", "release_cas", "check_failed", "scrape_page",
               "scrape_count", "scrape_writer", "scrape_id"}
  BY DEF Steps
<1>4. ASSUME NEW w \in Writers, NEW c \in Chunks, TryAcquireChunkForWriting(w, c)
      PROVE  OwnerInv'
  BY <1>0, <1>3, <1>4, <1>S, ConstantTypes
  DEF TryAcquireChunkForWriting, HolderSteps, TypeOK
<1>5. ASSUME NEW c \in Chunks, TryAcquireChunkForReading(c)
      PROVE  OwnerInv'
  BY <1>0, <1>3, <1>5, <1>S, ConstantTypes
  DEF TryAcquireChunkForReading, HolderSteps, TypeOK
<1>6. ASSUME NEW w \in Writers, NEW c \in Chunks, IncrementPacketCount(w, c)
      PROVE  OwnerInv'
  BY <1>0, <1>6 DEF IncrementPacketCount, OwnerInv, ChunkOwnership, NoCheckFailure, Cur
<1>7. ASSUME NEW w \in Writers, NEW c \in Chunks, ReleaseChunkAsComplete(w, c)
      PROVE  OwnerInv'
  <2>1. Cur(w)' = c
    BY <1>0, <1>7, ConstantTypes DEF ReleaseChunkAsComplete, Cur, TypeOK, Call
  <2> QED BY <1>0, <1>3, <1>7, <1>S, <2>1, ConstantTypes
          DEF ReleaseChunkAsComplete, HolderSteps, TypeOK
<1>8. ASSUME NEW a \in Actors, UNCHANGED <<layout, held>>, Return(a)
      PROVE  OwnerInv'
  BY <1>0, <1>3, <1>8, <1>S DEF Return, HolderSteps, TypeOK
<1>9. ASSUME NEW a \in Actors, AcquireLoad(a)
      PROVE  OwnerInv'
  <2>1. CASE /\ CanAcquire(a)
             /\ call' = [call EXCEPT ![a].seen = CurLayout(a)]
             /\ Goto(a, "acquire_cas")
    <3>1. Cur(a)' = Cur(a) /\ call'[a].seen = CurLayout(a)
      BY <2>1, <1>0, <1>1 DEF Cur, TypeOK, Call
    <3>2. CurLayout(a).div = "kPageDiv" /\ StateOf(CurLayout(a), Cur(a)) = AcquireFrom(a)
      BY <2>1, <1>1 DEF CanAcquire, PageLayout
    <3> QED BY <1>9, <2>1, <1>0, <1>3, <1>S, <3>1, <3>2
            DEF AcquireLoad, HolderSteps, TypeOK
  <2>2. CASE Return(a)
    BY <1>8, <1>9, <2>2 DEF AcquireLoad
  <2> QED BY <1>9, <2>1, <2>2 DEF AcquireLoad
<1>10. ASSUME NEW a \in Actors, AcquireSwap(a)
       PROVE  OwnerInv'
  <2>1. /\ Cur(a) \in Chunks
        /\ held' = [held EXCEPT ![a] = @ \cup {Cur(a)}]
        /\ Cur(a)' = Cur(a) /\ \A b \in Actors \ {a} : call'[b] = call[b]
        /\ \E s \in {"copy", "header"} : Goto(a, s)
    BY <1>10, <1>0, <1>1 DEF AcquireSwap, Cur, TypeOK, Call
  <2>2. layout[Cur(a)[1]].div = "kPageDiv"
    BY <1>10 DEF OwnerInv, AcquireSwap, LayoutUnchanged, CurLayout
  <2>3. ChunkOwnership'
    <3> SUFFICES ASSUME NEW b \in Actors, NEW c \in held'[b]
                 PROVE  /\ StateOf(layout'[c[1]], c) = AcquireTo(b)
                        /\ layout'[c[1]].div = "kPageDiv"
                        /\ \A d \in Actors : c \in held'[d] => b = d
      BY DEF ChunkOwnership
    <3>1. c \in Chunks
      BY <1>0 DEF TypeOK
    <3>2. CASE c = Cur(a)
      BY <1>0, <1>10, <2>1, <2>2, <3>1, <3>2, NobodyHolds, AcquireSwapStates DEF TypeOK
    <3>3. CASE c # Cur(a)
      <4>1. c \in held[b] /\ \A d \in Actors : c \in held'[d] => c \in held[d]
        BY <1>0, <2>1, <3>3 DEF TypeOK
      <4> QED BY <1>0, <1>10, <3>1, <3>3, <4>1, AcquireSwapStates
              DEF OwnerInv, ChunkOwnership
    <3> QED BY <3>2, <3>3
  <2>4. \A p \in Pages : layout'[p].div = "kPageNotPartitioned" => layout'[p] = FreePage
    <3>1. WithState(call[a].seen, Cur(a), AcquireTo(a)).div = call[a].seen.div
      BY <1>1, WithStateFacts DEF AcquireTo, ChunkState, Call
    <3> QED BY <1>0, <1>1, <1>10, <2>2, <3>1
            DEF OwnerInv, AcquireSwap, TypeOK, LayoutUnchanged, CurLayout
  <2>5. \A b \in Actors : pc'[b] = "acquire_cas" \/ pc'[b] = "check_failed" =>
                            b # a /\ pc[b] = pc'[b]
    BY <1>0, <2>1 DEF Goto, TypeOK
  <2>6. \A b \in Actors : pc'[b] \in HolderSteps => Cur(b)' \in held'[b]
    BY <1>0, <2>1 DEF OwnerInv, Goto, TypeOK, Cur
  <2>7. \A b \in Actors : pc'[b] = "acquire_cas" =>
          /\ call'[b].seen.div = "kPageDiv"
          /\ StateOf(call'[b].seen, Cur(b)') = AcquireFrom(b)
    BY <2>1, <2>5 DEF OwnerInv, Cur
  <2>8. NoCheckFailure'
    BY <2>5 DEF OwnerInv, NoCheckFailure
  <2> QED BY <1>0, <2>3, <2>4, <2>6, <2>7, <2>8 DEF OwnerInv
<1>11. ASSUME NEW a \in Actors, NEW s \in {"acquire_load", "release_load"},
              TryAgain(a, s), UNCHANGED <<layout, held>>,
              s = "release_load" => pc[a] = "release_cas"
       PROVE  OwnerInv'
  <2>1. Cur(a)' = Cur(a)
    BY <1>11, <1>0, <1>1 DEF TryAgain, Cur, TypeOK, Call
  <2>2. s \in HolderSteps => Cur(a)' \in held[a]
    BY <1>11, <2>1 DEF OwnerInv, HolderSteps
  <2> QED BY <1>0, <1>3, <1>11, <1>S, <2>2 DEF TryAgain, TypeOK
<1>12. ASSUME NEW a \in Actors, AcquireRetry(a)
       PROVE  OwnerInv'
  BY <1>8, <1>11, <1>12 DEF AcquireRetry
<1>13. ASSUME NEW a \in Actors, NEW f \in HeaderFields, StoreHeader(a, f)
       PROVE  OwnerInv'
  <2>1. Cur(a) \in held[a]
    BY <1>13 DEF StoreHeader, OwnerInv, HolderSteps
  <2>2. CASE call' = [call EXCEPT ![a].todo = @ \ {f}] /\ UNCHANGED pc
    <3>1. Cur(a)' = Cur(a) /\ Goto(a, "header")
      BY <2>2, <1>13, <1>0, <1>1 DEF Cur, TypeOK, Call, Goto, StoreHeader
    <3> QED BY <1>0, <1>3, <1>13, <2>1, <2>2, <3>1, <1>S
            DEF StoreHeader, HolderSteps, TypeOK
  <2>3. CASE call' = [call EXCEPT ![a].todo = {}] /\ Goto(a, "release_load")
    <3>1. Cur(a)' = Cur(a)
      BY <2>3, <1>0, <1>1 DEF Cur, TypeOK, Call
    <3> QED BY <1>0, <1>3, <1>13, <2>1, <2>3, <3>1, <1>S
            DEF StoreHeader, HolderSteps, TypeOK
  <2>4. CASE Return(a)
    BY <1>8, <1>13, <2>4 DEF StoreHeader
  <2> QED BY <1>13, <2>2, <2>3, <2>4 DEF StoreHeader
<1>14. ASSUME NEW a \in Actors, ReleaseLoad(a)
       PROVE  OwnerInv'
  <2>1. Cur(a) \in held[a]
    BY <1>14 DEF ReleaseLoad, OwnerInv, HolderSteps
  <2>2. CanRelease(a)
    BY <1>1, <2>1 DEF OwnerInv, ChunkOwnership, CanRelease, CurLayout
  <2>3. call' = [call EXCEPT ![a].seen = CurLayout(a)] /\ Goto(a, "release_cas")
    BY <1>14, <2>2 DEF ReleaseLoad
  <2>4. Cur(a)' = Cur(a)
    BY <2>3, <1>0, <1>1 DEF Cur, TypeOK, Call
  <2> QED BY <1>0, <1>3, <1>14, <1>S, <2>1, <2>3, <2>4
          DEF ReleaseLoad, HolderSteps, TypeOK
<1>15. ASSUME NEW a \in Actors, ReleaseSwap(a)
       PROVE  OwnerInv'
  <2>1. Cur(a) \in held[a]
    BY <1>15 DEF ReleaseSwap, OwnerInv, HolderSteps
  <2>2. /\ held' = [held EXCEPT ![a] = @ \ {Cur(a)}]
        /\ \A b \in Actors \ {a} : call'[b] = call[b] /\ Cur(b)' = Cur(b) /\ pc'[b] = pc[b]
        /\ pc'[a] = "idle"
    BY <1>15, <1>0 DEF ReleaseSwap, Return, Goto, TypeOK, Cur
  <2>3. ChunkOwnership'
    <3> SUFFICES ASSUME NEW b \in Actors, NEW c \in held'[b]
                 PROVE  /\ StateOf(layout'[c[1]], c) = AcquireTo(b)
                        /\ layout'[c[1]].div = "kPageDiv"
                        /\ \A d \in Actors : c \in held'[d] => b = d
      BY DEF ChunkOwnership
    <3>1. /\ c \in Chunks /\ c # Cur(a) /\ c \in held[b]
          /\ \A d \in Actors : c \in held'[d] => c \in held[d]
      BY <1>0, <2>1, <2>2 DEF TypeOK, OwnerInv, ChunkOwnership
    <3>2. /\ StateOf(layout[c[1]], c) = AcquireTo(b)
          /\ layout[c[1]].div = "kPageDiv"
          /\ \A d \in Actors : c \in held[d] => b = d
      BY <3>1 DEF OwnerInv, ChunkOwnership
    <3>3. StateOf(layout'[c[1]], c) = AcquireTo(b)
      BY <1>0, <1>15, <3>1, <3>2, ReleaseSwapStates
    <3>4. layout'[c[1]] # FreePage
      BY <3>1, <3>3, ConstantTypes DEF AcquireTo
    <3>5. layout'[c[1]].div = "kPageDiv"
      BY <1>0, <1>15, <3>1, <3>2, <3>4, ReleaseSwapStates
    <3> QED BY <3>1, <3>2, <3>3, <3>5
  <2>4. \A p \in Pages : layout'[p].div = "kPageNotPartitioned" => layout'[p] = FreePage
    <3>1. call[a].seen.div = "kPageDiv" /\ layout[Cur(a)[1]] = call[a].seen
      BY <1>15, <2>1 DEF OwnerInv, ChunkOwnership, ReleaseSwap, LayoutUnchanged, CurLayout
    <3> QED BY <1>0, <1>1, <1>15, <3>1, ReleasedLayoutFacts
            DEF OwnerInv, ReleaseSwap, TypeOK
  <2>5. \A b \in Actors : pc'[b] \in HolderSteps => Cur(b)' \in held'[b]
    BY <1>0, <2>2 DEF OwnerInv, HolderSteps, TypeOK
  <2>6. \A b \in Actors : pc'[b] = "acquire_cas" =>
          /\ call'[b].seen.div = "kPageDiv"
          /\ StateOf(call'[b].seen, Cur(b)') = AcquireFrom(b)
    BY <2>2 DEF OwnerInv
  <2>7. NoCheckFailure'
    BY <2>2 DEF OwnerInv, NoCheckFailure
  <2> QED BY <1>0, <2>3, <2>4, <2>5, <2>6, <2>7 DEF OwnerInv
<1>16. ASSUME NEW a \in Actors, ReleaseRetry(a)
       PROVE  OwnerInv'
  <2>1. CASE TryAgain(a, "release_load") /\ UNCHANGED held
    BY <1>11, <1>16, <2>1 DEF ReleaseRetry
  <2>2. CASE held' = [held EXCEPT ![a] = @ \ {Cur(a)}] /\ Return(a)
    <3>1. /\ \A b \in Actors \ {a} : /\ call'[b] = call[b] /\ Cur(b)' = Cur(b)
                                     /\ pc'[b] = pc[b] /\ held'[b] = held[b]
          /\ pc'[a] = "idle" /\ held'[a] \subseteq held[a]
      BY <2>2, <1>0 DEF Return, Goto, TypeOK, Cur
    <3>2. ChunkOwnership'
      BY <1>16, <3>1 DEF ReleaseRetry, OwnerInv, ChunkOwnership
    <3> QED BY <1>0, <1>16, <3>1, <3>2
            DEF ReleaseRetry, OwnerInv, NoCheckFailure, HolderSteps
  <2> QED BY <1>16, <2>1, <2>2 DEF ReleaseRetry
<1>17. CASE ReleaseChunkAsFree
  <2>1. Cur(Service) \in held[Service] /\ Cur(Service)' = Cur(Service)
    BY <1>0, <1>1, <1>17, ConstantTypes
    DEF ReleaseChunkAsFree, OwnerInv, HolderSteps, Cur, TypeOK, Call
  <2> QED BY <1>0, <1>3, <1>17, <1>S, <2>1, ConstantTypes
          DEF ReleaseChunkAsFree, HolderSteps, TypeOK
<1>18. ASSUME UNCHANGED <<layout, held, call>>,
              NEW s \in {"idle", "scrape_page", "scrape_count", "scrape_writer", "scrape_id"},
              Goto(Service, s)
       PROVE  OwnerInv'
  BY <1>3, <1>18, <1>S, ConstantTypes DEF HolderSteps
<1>19. ASSUME NEW STATE sc, NextChunk(sc), UNCHANGED <<layout, held, call>>
       PROVE  OwnerInv'
  BY <1>18, <1>19 DEF NextChunk, NextPage
<1>20. CASE \/ ScrapeSharedMemoryBuffers \/ ScrapeLayout \/ ScrapeCount
            \/ ScrapeWriter \/ ScrapeCopy
  BY <1>18, <1>19, <1>20
  DEF ScrapeSharedMemoryBuffers, ScrapeLayout, ScrapeCount, ScrapeWriter, ScrapeCopy
<1>21. CASE UNCHANGED vars
  BY <1>0, <1>21 DEF vars, OwnerInv, ChunkOwnership, NoCheckFailure, Cur
<1> QED
  BY <1>2, <1>4, <1>5, <1>6, <1>7, <1>9, <1>10, <1>12, <1>13, <1>14, <1>15, <1>16,
     <1>17, <1>20, <1>21
  DEF Next, CallStep, ServiceStep

LEMMA OwnerInit == Init => OwnerInv
<1> SUFFICES ASSUME Init PROVE OwnerInv
  OBVIOUS
<1>1. TypeOK
  BY ConstantTypes, ABIAssumption DEF Init, TypeOK, Steps
<1> QED BY <1>1 DEF Init, OwnerInv, ChunkOwnership, NoCheckFailure, HolderSteps

(* A chunk has at most one holder, in the state and on the partitioned page *)
(* that the holder expects (shared_memory_abi.cc:159-289).                  *)
THEOREM OwnershipHolds == Spec => []ChunkOwnership
<1>1. OwnerInv /\ [Next]_vars => OwnerInv'
  BY OwnerStep
<1>2. OwnerInv => ChunkOwnership
  BY DEF OwnerInv
<1> QED BY OwnerInit, <1>1, <1>2, PTL DEF Spec

(* The CHECKs of ReleaseChunk() hold (shared_memory_abi.cc:253 and 269).    *)
THEOREM ChecksHold == Spec => []NoCheckFailure
<1>1. OwnerInv /\ [Next]_vars => OwnerInv'
  BY OwnerStep
<1>2. OwnerInv => NoCheckFailure
  BY DEF OwnerInv
<1> QED BY OwnerInit, <1>1, <1>2, PTL DEF Spec

(***************************************************************************)
(* The service attributes what it copies to the right writer and chunk.    *)
(***************************************************************************)
StateNow(c)       == StateOf(layout[c[1]], c)
Initialises(w, c) == pc[w] = "header" /\ Cur(w) = c

(* A free chunk announces no packets, so that the scraper can tell a chunk  *)
(* whose header is not there yet.                                           *)
FreeIsClear ==
  \A c \in Chunks : StateNow(c) = "kChunkFree" => header[c].packets = 0

(* A chunk handed to the service, or written and past its initialisation,   *)
(* carries the header it was acquired with.                                 *)
StampedHeaders ==
  \A c \in Chunks :
    /\ StateNow(c) = "kChunkComplete" => HeaderIsStamp(c)
    /\ StateNow(c) = "kChunkBeingWritten" =>
         HeaderIsStamp(c) \/ \E w \in Writers : Initialises(w, c)

(* The header stores a writer has made so far; the count comes last.        *)
HeaderProgress ==
  \A w \in Writers : pc[w] = "header" =>
    /\ header[Cur(w)].packets = 0
    /\ stamp[Cur(w)].writer_id = w
    /\ "packets" \in call[w].todo
    /\ "writer_id" \notin call[w].todo => header[Cur(w)].writer_id = w
    /\ "chunk_id" \notin call[w].todo =>
         header[Cur(w)].chunk_id = stamp[Cur(w)].chunk_id

(* The service holds the chunk of its call and no other; a chunk it gave up *)
(* has been cleared.                                                        *)
ServiceProgress ==
  /\ held[Service] \subseteq {Cur(Service)}
  /\ pc[Service] \notin HolderSteps => held[Service] = {}
  /\ pc[Service] = "copy" => HeaderIsStamp(Cur(Service))
  /\ pc[Service] = "header" => "packets" \in call[Service].todo
  /\ pc[Service] \in {"release_load", "release_cas"} =>
       header[Cur(Service)].packets = 0
  /\ \A c \in Chunks : StateNow(c) = "kChunkBeingRead" /\ c \notin held[Service]
                         => header[c].packets = 0

(* While the scraper works on a page its copy of the layout word ages, but  *)
(* a used chunk can only move on from being written to complete.            *)
ScanAges ==
  pc[Service] \in {"scrape_count", "scrape_writer", "scrape_id"} =>
    \A i \in scan.used \cup {scan.idx} :
      LET now == StateNow(<<scan.page, i>>)
          old == scan.layout.st[i]
      IN  /\ old # "kChunkFree"
          /\ old # "kChunkBeingWritten" => now = old
          /\ old = "kChunkBeingWritten" =>
               now \in {"kChunkBeingWritten", "kChunkComplete"}

ScanSafe ==
  /\ pc[Service] \in {"scrape_writer", "scrape_id"} =>
       /\ StateNow(ScanChunk) \in {"kChunkBeingWritten", "kChunkComplete"}
       /\ \A w \in Writers : ~Initialises(w, ScanChunk)
       /\ ScanComplete => scan.count = header[ScanChunk].packets
  /\ pc[Service] = "scrape_id" => scan.writer = stamp[ScanChunk].writer_id

HeaderInv ==
  /\ OwnerInv
  /\ FreeIsClear /\ StampedHeaders /\ HeaderProgress
  /\ ServiceProgress /\ ScanAges /\ ScanSafe

-----------------------------------------------------------------------------
(* What the steps have in common.                                           *)

ScrapeSteps == {"scrape_count", "scrape_writer", "scrape_id"}

(* An actor inside a call that needs the chunk holds it, alone, in the      *)
(* state it gave it.                                                        *)
LEMMA InUse ==
  ASSUME HeaderInv
  PROVE  /\ TypeOK
         /\ \A a \in Actors : Cur(a) \in Chunks
         /\ \A a \in Actors : \A c \in held[a] :
              /\ c \in Chunks /\ StateNow(c) = AcquireTo(a)
              /\ \A b \in Actors : c \in held[b] => a = b
         /\ \A a \in Actors : pc[a] \in HolderSteps => Cur(a) \in held[a]
         /\ scan.page \in Pages /\ scan.idx \in Indices /\ scan.used \subseteq Indices
         /\ \A i \in Indices : <<scan.page, i>> \in Chunks
BY DEF HeaderInv, OwnerInv, TypeOK, ChunkOwnership, StateNow, Cur, Call, ScanState, Chunks

(* A step of a writer leaves the scraper's knowledge valid if it takes only *)
(* free chunks, completes only chunks being written, and does not touch the *)
(* stamps of chunks in use or the headers of complete ones.                 *)
LEMMA ScanKept ==
  ASSUME HeaderInv,
         scan' = scan, pc'[Service] = pc[Service],
         \A c \in Chunks : \/ StateNow(c)' = StateNow(c)
                           \/ StateNow(c) = "kChunkFree"
                           \/ /\ StateNow(c) = "kChunkBeingWritten"
                              /\ StateNow(c)' = "kChunkComplete",
         \A c \in Chunks : StateNow(c) # "kChunkFree" => stamp'[c] = stamp[c],
         \A c \in Chunks : StateNow(c) = "kChunkComplete" => header'[c] = header[c],
         \A w \in Writers, c \in Chunks :
           Initialises(w, c)' => Initialises(w, c) \/ StateNow(c) = "kChunkFree"
  PROVE  ScanAges' /\ ScanSafe'
<1>1. /\ scan.page \in Pages /\ scan.idx \in Indices /\ scan.used \subseteq Indices
      /\ \A i \in Indices : <<scan.page, i>> \in Chunks
  BY InUse
<1>2. ASSUME pc[Service] \in ScrapeSteps
      PROVE  \A i \in scan.used \cup {scan.idx} :
               /\ StateNow(<<scan.page, i>>) # "kChunkFree"
               /\ scan.layout.st[i] # "kChunkFree"
               /\ scan.layout.st[i] # "kChunkBeingWritten" =>
                    StateNow(<<scan.page, i>>) = scan.layout.st[i]
               /\ scan.layout.st[i] = "kChunkBeingWritten" =>
                    StateNow(<<scan.page, i>>) \in {"kChunkBeingWritten", "kChunkComplete"}
  BY <1>2 DEF HeaderInv, ScanAges, ScrapeSteps
<1>3. ScanAges'
  <2> SUFFICES ASSUME pc'[Service] \in ScrapeSteps, NEW i \in scan'.used \cup {scan'.idx}
               PROVE  LET now == StateNow(<<scan.page, i>>)'
                          old == scan'.layout.st[i]
                      IN  /\ old # "kChunkFree"
                          /\ old # "kChunkBeingWritten" => now = old
                          /\ old = "kChunkBeingWritten" =>
                               now \in {"kChunkBeingWritten", "kChunkComplete"}
    BY DEF ScanAges, ScrapeSteps
  <2>1. i \in scan.used \cup {scan.idx} /\ pc[Service] \in ScrapeSteps /\ i \in Indices
    BY <1>1
  <2>2. /\ StateNow(<<scan.page, i>>) # "kChunkFree"
        /\ \/ StateNow(<<scan.page, i>>)' = StateNow(<<scan.page, i>>)
           \/ /\ StateNow(<<scan.page, i>>) = "kChunkBeingWritten"
              /\ StateNow(<<scan.page, i>>)' = "kChunkComplete"
    BY <1>1, <1>2, <2>1
  <2> QED BY <1>2, <2>1, <2>2
<1>4. ScanSafe'
  <2>1. ScanChunk' = ScanChunk /\ ScanChunk \in Chunks
    BY <1>1 DEF ScanChunk
  <2>2. ScanComplete' = ScanComplete
    BY DEF ScanComplete, ScanChunk
  <2>3. pc[Service] \in {"scrape_writer", "scrape_id"} =>
          /\ StateNow(ScanChunk) \in {"kChunkBeingWritten", "kChunkComplete"}
          /\ ScanComplete => StateNow(ScanChunk) = "kChunkComplete"
    BY <1>1, <1>2 DEF HeaderInv, ScanSafe, ScanComplete, ScanChunk, StateOf, ScrapeSteps
  <2> QED BY <2>1, <2>2, <2>3 DEF HeaderInv, ScanSafe
<1> QED BY <1>3, <1>4

(* A step of a writer outside the initialisation of a header that changes   *)
(* neither chunk states nor headers.                                        *)
LEMMA QuietWriter ==
  ASSUME HeaderInv, OwnerInv', NEW w \in Writers,
         \A c \in Chunks : StateNow(c)' = StateNow(c),
         UNCHANGED <<header, stamp, scan>>,
         \A b \in Actors \ {w} : /\ pc'[b] = pc[b] /\ call'[b] = call[b]
                                 /\ held'[b] = held[b],
         pc[w] # "header", pc'[w] # "header"
  PROVE  HeaderInv'
<1>1. Service \in Actors \ {w} /\ Writers \subseteq Actors
  BY ConstantTypes
<1>2. /\ pc'[Service] = pc[Service] /\ call'[Service] = call[Service]
      /\ held'[Service] = held[Service] /\ Cur(Service)' = Cur(Service)
  BY <1>1 DEF Cur
<1>3. \A v \in Writers : pc'[v] = "header" =>
        pc[v] = "header" /\ call'[v] = call[v] /\ Cur(v)' = Cur(v)
  BY <1>1 DEF Cur
<1>4. \A v \in Writers, c \in Chunks : Initialises(v, c)' <=> Initialises(v, c)
  BY <1>1 DEF Initialises, Cur
<1>5. \A c \in Chunks : HeaderIsStamp(c)' <=> HeaderIsStamp(c)
  BY DEF HeaderIsStamp
<1>6. FreeIsClear'
  BY DEF HeaderInv, FreeIsClear
<1>7. StampedHeaders'
  BY <1>4, <1>5 DEF HeaderInv, StampedHeaders
<1>8. HeaderProgress'
  BY <1>3 DEF HeaderInv, HeaderProgress
<1>9. ServiceProgress'
  <2>1. HeaderIsStamp(Cur(Service))' <=> HeaderIsStamp(Cur(Service))
    BY <1>2 DEF HeaderIsStamp
  <2> QED BY <1>2, <2>1 DEF HeaderInv, ServiceProgress
<1>10. ScanAges' /\ ScanSafe'
  BY <1>2, <1>4, ScanKept
<1> QED BY <1>6, <1>7, <1>8, <1>9, <1>10 DEF HeaderInv

(* A step of the service outside a scan that changes neither chunk states   *)
(* nor headers.                                                             *)
LEMMA QuietService ==
  ASSUME HeaderInv, OwnerInv',
         UNCHANGED <<layout, header, stamp>>,
         \A w \in Writers : pc'[w] = pc[w] /\ call'[w] = call[w],
         ServiceProgress', ScanAges', ScanSafe'
  PROVE  HeaderInv'
<1>1. \A c \in Chunks : StateNow(c)' = StateNow(c)
  BY DEF StateNow
<1>2. \A w \in Writers : Cur(w)' = Cur(w)
  BY DEF Cur
<1>3. \A w \in Writers, c \in Chunks : Initialises(w, c)' <=> Initialises(w, c)
  BY DEF Initialises, Cur
<1>4. \A c \in Chunks : HeaderIsStamp(c)' <=> HeaderIsStamp(c)
  BY DEF HeaderIsStamp
<1>5. FreeIsClear' /\ StampedHeaders'
  BY <1>1, <1>3, <1>4 DEF HeaderInv, FreeIsClear, StampedHeaders
<1>6. HeaderProgress'
  BY <1>2 DEF HeaderInv, HeaderProgress
<1> QED BY <1>5, <1>6 DEF HeaderInv

LEMMA NotScanning ==
  ASSUME pc'[Service] \notin ScrapeSteps
  PROVE  ScanAges' /\ ScanSafe'
BY DEF ScanAges, ScanSafe, ScrapeSteps

(* A successful compare-exchange, in terms of StateNow.                     *)
LEMMA SwapStates ==
  ASSUME TypeOK, NEW a \in Actors
  PROVE  /\ AcquireSwap(a) => \A c \in Chunks : StateNow(c)'
              = IF c = Cur(a) THEN AcquireTo(a) ELSE StateNow(c)
         /\ ReleaseSwap(a) => \A c \in Chunks : StateNow(c)'
              = IF c = Cur(a) THEN ReleaseTo(a) ELSE StateNow(c)
BY AcquireSwapStates, ReleaseSwapStates DEF StateNow

-----------------------------------------------------------------------------
(* The steps that change a chunk.                                           *)

(* Counting a packet touches only the count of a chunk that its writer      *)
(* holds and has initialised.                                               *)
LEMMA IncrementStep ==
  ASSUME HeaderInv, OwnerInv', NEW w \in Writers, NEW d \in Chunks,
         IncrementPacketCount(w, d)
  PROVE  HeaderInv'
<1>1. /\ header \in [Chunks -> ChunkHeader] /\ w \in Actors /\ Service \in Actors
      /\ w # Service /\ Writers \subseteq Actors
  BY InUse, ConstantTypes DEF TypeOK
<1>2. /\ \A c \in Chunks : c # d => header'[c] = header[c]
      /\ \A c \in Chunks : /\ header'[c].writer_id = header[c].writer_id
                           /\ header'[c].chunk_id = header[c].chunk_id
  BY <1>1 DEF IncrementPacketCount, ChunkHeader
<1>3. /\ UNCHANGED <<layout, pc, call, held, scan, stamp>>
      /\ d \in held[w] /\ StateNow(d) = "kChunkBeingWritten" /\ pc[w] = "idle"
  BY <1>1, InUse DEF IncrementPacketCount, AcquireTo
<1>4. /\ \A c \in Chunks : StateNow(c)' = StateNow(c)
      /\ \A a \in Actors : Cur(a)' = Cur(a)
      /\ \A v \in Writers, c \in Chunks : Initialises(v, c)' <=> Initialises(v, c)
  BY <1>3 DEF StateNow, Cur, Initialises
<1>5. \A c \in Chunks : HeaderIsStamp(c)' <=> HeaderIsStamp(c)
  BY <1>2, <1>3 DEF HeaderIsStamp
<1>6. \A a \in Actors : pc[a] \in HolderSteps => Cur(a) \in Chunks /\ Cur(a) # d
  BY <1>1, <1>3, InUse DEF HolderSteps
<1>7. FreeIsClear' /\ StampedHeaders'
  BY <1>2, <1>3, <1>4, <1>5 DEF HeaderInv, FreeIsClear, StampedHeaders
<1>8. HeaderProgress'
  BY <1>1, <1>2, <1>3, <1>4, <1>6 DEF HeaderInv, HeaderProgress, HolderSteps
<1>9. ServiceProgress'
  <2>1. HeaderIsStamp(Cur(Service))' <=> HeaderIsStamp(Cur(Service))
    BY <1>1, <1>4, <1>5, InUse
  <2>2. Cur(Service) \in Chunks
    BY <1>1, InUse
  <2> QED BY <1>1, <1>2, <1>3, <1>4, <1>6, <2>1, <2>2 DEF HeaderInv, ServiceProgress, HolderSteps
<1>10. ScanAges' /\ ScanSafe'
  BY <1>2, <1>3, <1>4, ScanKept
<1> QED BY <1>7, <1>8, <1>9, <1>10 DEF HeaderInv

(* A writer stores a field of the header: the count comes last, when the    *)
(* other fields are there.                                                  *)
LEMMA WriterStore ==
  ASSUME HeaderInv, OwnerInv', NEW w \in Writers, NEW f \in HeaderFields,
         StoreHeader(w, f)
  PROVE  HeaderInv'
<1>0. PICK d \in Chunks : d = Cur(w)
  BY InUse, ConstantTypes
<1>1. /\ TypeOK /\ w \in Actors /\ Service \in Actors /\ w # Service
      /\ Writers \subseteq Actors /\ d = Cur(w)
      /\ d \in held[w] /\ StateNow(d) = "kChunkBeingWritten"
      /\ pc[w] = "header" /\ f \in call[w].todo
      /\ f = "packets" => call[w].todo = {"packets"}
  BY <1>0, InUse, ConstantTypes DEF StoreHeader, StoreReady, HolderSteps, AcquireTo
<1>2. /\ header[d].packets = 0 /\ stamp[d].writer_id = w
      /\ "packets" \in call[w].todo
      /\ "writer_id" \notin call[w].todo => header[d].writer_id = w
      /\ "chunk_id" \notin call[w].todo => header[d].chunk_id = stamp[d].chunk_id
  BY <1>1 DEF HeaderInv, HeaderProgress
<1>3. /\ UNCHANGED <<layout, held, scan, stamp>>
      /\ \A c \in Chunks : c # d => header'[c] = header[c]
      /\ \A a \in Actors : a # w => /\ pc'[a] = pc[a] /\ call'[a] = call[a]
                                    /\ Cur(a)' = Cur(a)
  BY <1>1 DEF StoreHeader, Return, Goto, TypeOK, Cur
<1>4. /\ \A c \in Chunks : StateNow(c)' = StateNow(c)
      /\ \A c \in Chunks : c # d => (HeaderIsStamp(c)' <=> HeaderIsStamp(c))
  BY <1>3 DEF StateNow, HeaderIsStamp
<1>5. \A g \in HeaderFields : g # f => header'[d][g] = header[d][g]
  BY <1>1 DEF StoreHeader, TypeOK, ChunkHeader, HeaderFields
<1>6. /\ f = "writer_id" => header'[d].writer_id = w
      /\ f = "chunk_id" => header'[d].chunk_id = stamp[d].chunk_id
  BY <1>1 DEF StoreHeader, TypeOK, ChunkHeader, HeaderValues, HeaderFields
<1>7. CASE f # "packets"
  <2>1. /\ call' = [call EXCEPT ![w].todo = @ \ {f}] /\ UNCHANGED pc
    BY <1>1, <1>2, <1>7 DEF StoreHeader
  <2>2. /\ pc'[w] = "header" /\ Cur(w)' = d /\ call'[w].todo = call[w].todo \ {f}
    BY <1>1, <2>1 DEF TypeOK, Call, Cur
  <2>3. \A v \in Writers, c \in Chunks : Initialises(v, c)' <=> Initialises(v, c)
    BY <1>1, <1>3, <2>2 DEF Initialises
  <2>4. /\ header'[d].packets = 0
        /\ "writer_id" \notin call'[w].todo => header'[d].writer_id = w
        /\ "chunk_id" \notin call'[w].todo => header'[d].chunk_id = stamp[d].chunk_id
    BY <1>2, <1>5, <1>6, <1>7, <2>2 DEF HeaderFields
  <2>5. FreeIsClear'
    BY <1>1, <1>3, <1>4 DEF HeaderInv, FreeIsClear
  <2>6. StampedHeaders'
    <3>1. Initialises(w, d)'
      BY <2>2 DEF Initialises
    <3> QED BY <1>1, <1>4, <2>3, <3>1 DEF HeaderInv, StampedHeaders
  <2>7. HeaderProgress'
    <3> SUFFICES ASSUME NEW v \in Writers, pc'[v] = "header"
                 PROVE  /\ header'[Cur(v)'].packets = 0
                        /\ stamp'[Cur(v)'].writer_id = v
                        /\ "packets" \in call'[v].todo
                        /\ "writer_id" \notin call'[v].todo => header'[Cur(v)'].writer_id = v
                        /\ "chunk_id" \notin call'[v].todo =>
                             header'[Cur(v)'].chunk_id = stamp'[Cur(v)'].chunk_id
      BY DEF HeaderProgress
    <3>1. CASE v = w
      BY <1>2, <1>3, <1>7, <2>2, <2>4, <3>1
    <3>2. CASE v # w
      <4>1. Cur(v)' = Cur(v) /\ Cur(v) \in Chunks /\ Cur(v) # d /\ pc[v] = "header"
            /\ call'[v] = call[v]
        BY <1>1, <1>3, <3>2, InUse DEF HolderSteps
      <4> QED BY <1>3, <4>1 DEF HeaderInv, HeaderProgress
    <3> QED BY <3>1, <3>2
  <2>8. ScanAges' /\ ScanSafe'
    BY <1>1, <1>3, <1>4, <2>3, ScanKept
  <2>9. ServiceProgress'
    <3>1. /\ Cur(Service)' = Cur(Service) /\ Cur(Service) \in Chunks
          /\ pc'[Service] = pc[Service] /\ call'[Service] = call[Service]
          /\ pc[Service] \in HolderSteps => Cur(Service) # d
      BY <1>1, <1>3, InUse
    <3>2. \A c \in Chunks : StateNow(c) = "kChunkBeingRead" => header'[c] = header[c]
      BY <1>1, <1>3
    <3> QED BY <1>3, <1>4, <3>1, <3>2 DEF HeaderInv, ServiceProgress, HolderSteps, HeaderIsStamp
  <2> QED BY <2>5, <2>6, <2>7, <2>8, <2>9 DEF HeaderInv
<1>8. CASE f = "packets"
  <2>1. Return(w)
    BY <1>1, <1>8 DEF StoreHeader
  <2>2. pc'[w] = "idle"
    BY <1>1, <2>1 DEF Return, Goto, TypeOK
  <2>3. \A v \in Writers, c \in Chunks :
          /\ Initialises(v, c)' => Initialises(v, c)
          /\ c # d => (Initialises(v, c)' <=> Initialises(v, c))
    BY <1>1, <1>3, <2>2 DEF Initialises
  <2>4. HeaderIsStamp(d)'
    BY <1>1, <1>2, <1>3, <1>5, <1>8 DEF HeaderIsStamp, HeaderFields
  <2>5. FreeIsClear'
    BY <1>1, <1>3, <1>4 DEF HeaderInv, FreeIsClear
  <2>6. StampedHeaders'
    BY <1>1, <1>4, <2>3, <2>4 DEF HeaderInv, StampedHeaders
  <2>7. HeaderProgress'
    <3>1. \A v \in Writers : pc'[v] = "header" =>
            /\ pc[v] = "header" /\ call'[v] = call[v] /\ Cur(v)' = Cur(v)
            /\ header'[Cur(v)] = header[Cur(v)]
      BY <1>1, <1>3, <2>2, InUse DEF HolderSteps
    <3> QED BY <1>3, <3>1 DEF HeaderInv, HeaderProgress
  <2>8. ScanAges' /\ ScanSafe'
    BY <1>1, <1>3, <1>4, <2>3, ScanKept
  <2>9. ServiceProgress'
    <3>1. /\ Cur(Service)' = Cur(Service) /\ Cur(Service) \in Chunks
          /\ pc'[Service] = pc[Service] /\ call'[Service] = call[Service]
          /\ pc[Service] \in HolderSteps => Cur(Service) # d
      BY <1>1, <1>3, InUse
    <3>2. \A c \in Chunks : StateNow(c) = "kChunkBeingRead" => header'[c] = header[c]
      BY <1>1, <1>3
    <3> QED BY <1>3, <1>4, <3>1, <3>2 DEF HeaderInv, ServiceProgress, HolderSteps, HeaderIsStamp
  <2> QED BY <2>5, <2>6, <2>7, <2>8, <2>9 DEF HeaderInv
<1> QED BY <1>7, <1>8

(* The service clears the header of the chunk it has copied, the count      *)
(* last.                                                                    *)
LEMMA ServiceStore ==
  ASSUME HeaderInv, OwnerInv', NEW f \in HeaderFields, StoreHeader(Service, f)
  PROVE  HeaderInv'
<1>0. PICK d \in Chunks : d = Cur(Service)
  BY InUse, ConstantTypes
<1>1. /\ TypeOK /\ Service \in Actors /\ Writers \subseteq Actors /\ Service \notin Writers
      /\ d = Cur(Service) /\ d \in held[Service] /\ StateNow(d) = "kChunkBeingRead"
      /\ pc[Service] = "header" /\ f \in call[Service].todo
      /\ f = "packets" => call[Service].todo = {"packets"}
      /\ "packets" \in call[Service].todo
      /\ held[Service] \subseteq {d}
  BY <1>0, InUse, ConstantTypes
  DEF StoreHeader, StoreReady, HolderSteps, AcquireTo, HeaderInv, ServiceProgress
<1>2. /\ UNCHANGED <<layout, held, scan, stamp>>
      /\ \A c \in Chunks : c # d => header'[c] = header[c]
      /\ \A w \in Writers : pc'[w] = pc[w] /\ call'[w] = call[w] /\ Cur(w)' = Cur(w)
  BY <1>1 DEF StoreHeader, Return, Goto, TypeOK, Cur
<1>3. /\ \A c \in Chunks : StateNow(c)' = StateNow(c)
      /\ \A c \in Chunks : c # d => (HeaderIsStamp(c)' <=> HeaderIsStamp(c))
      /\ \A w \in Writers, c \in Chunks : Initialises(w, c)' <=> Initialises(w, c)
  BY <1>2 DEF StateNow, HeaderIsStamp, Initialises
<1>4. FreeIsClear' /\ StampedHeaders'
  BY <1>1, <1>2, <1>3 DEF HeaderInv, FreeIsClear, StampedHeaders
<1>5. HeaderProgress'
  <2>1. \A w \in Writers : pc[w] = "header" => Cur(w) \in Chunks /\ Cur(w) # d
    BY <1>1, InUse DEF HolderSteps
  <2> QED BY <1>2, <2>1 DEF HeaderInv, HeaderProgress
<1>6. /\ Cur(Service)' = d
      /\ pc'[Service] \in {"header", "release_load"}
      /\ pc'[Service] = "header" => "packets" \in call'[Service].todo
      /\ pc'[Service] = "release_load" => f = "packets"
  BY <1>1 DEF StoreHeader, Goto, TypeOK, Cur, Call
<1>7. f = "packets" => header'[d].packets = 0
  BY <1>1 DEF StoreHeader, TypeOK, ChunkHeader, HeaderValues, HeaderFields
<1>8. ServiceProgress'
  <2>1. \A c \in Chunks : StateNow(c) = "kChunkBeingRead" /\ c \notin held[Service]
                            => header'[c].packets = 0
    BY <1>1, <1>2 DEF HeaderInv, ServiceProgress
  <2> QED BY <1>1, <1>2, <1>3, <1>6, <1>7, <2>1 DEF ServiceProgress, HolderSteps
<1>9. ScanAges' /\ ScanSafe'
  BY <1>6, NotScanning DEF ScrapeSteps
<1> QED BY <1>4, <1>5, <1>8, <1>9 DEF HeaderInv

(* A writer takes a free chunk.                                             *)
LEMMA WriterAcquires ==
  ASSUME HeaderInv, OwnerInv', NEW w \in Writers, AcquireSwap(w)
  PROVE  HeaderInv'
<1>0. PICK d \in Chunks : d = Cur(w)
  BY InUse, ConstantTypes
<1>1. /\ TypeOK /\ w \in Actors /\ w # Service /\ Service \in Actors
      /\ Writers \subseteq Actors /\ d = Cur(w)
      /\ StateNow(d) = "kChunkFree" /\ pc[w] = "acquire_cas"
  BY <1>0, InUse, ConstantTypes
  DEF HeaderInv, OwnerInv, AcquireSwap, LayoutUnchanged, CurLayout, StateNow, AcquireFrom
<1>2. /\ UNCHANGED <<header, scan>>
      /\ \A c \in Chunks : c # d => stamp'[c] = stamp[c]
      /\ stamp'[d].writer_id = w
      /\ \A a \in Actors : a # w => /\ pc'[a] = pc[a] /\ call'[a] = call[a]
                                    /\ Cur(a)' = Cur(a) /\ held'[a] = held[a]
      /\ pc'[w] = "header" /\ Cur(w)' = d /\ call'[w].todo = HeaderFields
  <2>1. \E id \in ChunkIDs :
          stamp' = [stamp EXCEPT ![d] = [writer_id |-> w, chunk_id |-> id]]
    BY <1>1 DEF AcquireSwap
  <2>2. stamp'[d].writer_id = w /\ \A c \in Chunks : c # d => stamp'[c] = stamp[c]
    BY <1>1, <2>1 DEF TypeOK
  <2>3. /\ Goto(w, "header") /\ UNCHANGED <<header, scan>>
        /\ held' = [held EXCEPT ![w] = @ \cup {Cur(w)}]
        /\ call' = [call EXCEPT ![w].seen = FreePage, ![w].attempt = 0,
                                ![w].todo = HeaderFields]
    BY <1>1 DEF AcquireSwap
  <2> QED BY <1>1, <2>2, <2>3 DEF Goto, TypeOK, Cur, Call
<1>3. \A c \in Chunks :
        StateNow(c)' = IF c = d THEN "kChunkBeingWritten" ELSE StateNow(c)
  BY <1>1, SwapStates DEF AcquireTo
<1>4. \A a \in Actors : /\ \A c \in held[a] : c # d
                        /\ pc[a] \in HolderSteps => Cur(a) # d
  BY <1>1, InUse DEF AcquireTo
<1>5. /\ \A c \in Chunks : c # d => (HeaderIsStamp(c)' <=> HeaderIsStamp(c))
      /\ \A v \in Writers, c \in Chunks : c # d => (Initialises(v, c)' <=> Initialises(v, c))
      /\ Initialises(w, d)'
  BY <1>1, <1>2 DEF HeaderIsStamp, Initialises
<1>6. FreeIsClear' /\ StampedHeaders'
  BY <1>2, <1>3, <1>5 DEF HeaderInv, FreeIsClear, StampedHeaders
<1>7. HeaderProgress'
  <2> SUFFICES ASSUME NEW v \in Writers, pc'[v] = "header"
               PROVE  /\ header'[Cur(v)'].packets = 0
                      /\ stamp'[Cur(v)'].writer_id = v
                      /\ "packets" \in call'[v].todo
                      /\ "writer_id" \notin call'[v].todo => header'[Cur(v)'].writer_id = v
                      /\ "chunk_id" \notin call'[v].todo =>
                           header'[Cur(v)'].chunk_id = stamp'[Cur(v)'].chunk_id
    BY DEF HeaderProgress
  <2>1. CASE v = w
    BY <1>1, <1>2, <2>1 DEF HeaderInv, FreeIsClear, HeaderFields
  <2>2. CASE v # w
    <3>1. Cur(v)' = Cur(v) /\ Cur(v) \in Chunks /\ Cur(v) # d /\ pc[v] = "header"
      BY <1>1, <1>2, <1>4, <2>2, InUse DEF HolderSteps
    <3> QED BY <1>1, <1>2, <2>2, <3>1 DEF HeaderInv, HeaderProgress
  <2> QED BY <2>1, <2>2
<1>8. ServiceProgress'
  <2>1. /\ Cur(Service)' = Cur(Service) /\ Cur(Service) \in Chunks
        /\ pc'[Service] = pc[Service] /\ call'[Service] = call[Service]
        /\ held'[Service] = held[Service]
        /\ pc[Service] \in HolderSteps => Cur(Service) # d
    BY <1>1, <1>2, <1>4, InUse
  <2>2. \A c \in Chunks : StateNow(c)' = "kChunkBeingRead" => StateNow(c) = "kChunkBeingRead"
    BY <1>3
  <2> QED BY <1>2, <2>1, <2>2 DEF HeaderInv, ServiceProgress, HolderSteps, HeaderIsStamp
<1>9. ScanAges' /\ ScanSafe'
  BY <1>1, <1>2, <1>3, <1>5, ScanKept
<1> QED BY <1>6, <1>7, <1>8, <1>9 DEF HeaderInv

(* The service takes a complete chunk.                                      *)
LEMMA ServiceAcquires ==
  ASSUME HeaderInv, OwnerInv', AcquireSwap(Service)
  PROVE  HeaderInv'
<1>0. PICK d \in Chunks : d = Cur(Service)
  BY InUse, ConstantTypes
<1>1. /\ TypeOK /\ Service \in Actors /\ Service \notin Writers
      /\ Writers \subseteq Actors /\ d = Cur(Service)
      /\ StateNow(d) = "kChunkComplete" /\ pc[Service] = "acquire_cas"
      /\ held[Service] = {}
  BY <1>0, InUse, ConstantTypes
  DEF HeaderInv, OwnerInv, AcquireSwap, LayoutUnchanged, CurLayout, StateNow, AcquireFrom,
      ServiceProgress, HolderSteps
<1>2. /\ UNCHANGED <<header, scan, stamp>>
      /\ \A w \in Writers : pc'[w] = pc[w] /\ call'[w] = call[w] /\ Cur(w)' = Cur(w)
      /\ pc'[Service] = "copy" /\ Cur(Service)' = d /\ held'[Service] = {d}
  BY <1>1 DEF AcquireSwap, Goto, TypeOK, Cur, Call
<1>3. \A c \in Chunks :
        StateNow(c)' = IF c = d THEN "kChunkBeingRead" ELSE StateNow(c)
  BY <1>1, SwapStates DEF AcquireTo
<1>4. /\ \A c \in Chunks : HeaderIsStamp(c)' <=> HeaderIsStamp(c)
      /\ \A w \in Writers, c \in Chunks : Initialises(w, c)' <=> Initialises(w, c)
  BY <1>2 DEF HeaderIsStamp, Initialises
<1>5. FreeIsClear' /\ StampedHeaders'
  BY <1>2, <1>3, <1>4 DEF HeaderInv, FreeIsClear, StampedHeaders
<1>6. HeaderProgress'
  BY <1>2 DEF HeaderInv, HeaderProgress
<1>7. ServiceProgress'
  <2>1. HeaderIsStamp(Cur(Service))'
    BY <1>1, <1>2 DEF HeaderInv, StampedHeaders, HeaderIsStamp
  <2> QED BY <1>1, <1>2, <1>3, <2>1 DEF HeaderInv, ServiceProgress, HolderSteps
<1>8. ScanAges' /\ ScanSafe'
  BY <1>2, NotScanning DEF ScrapeSteps
<1> QED BY <1>5, <1>6, <1>7, <1>8 DEF HeaderInv

(* A writer completes its chunk.                                            *)
LEMMA WriterReleases ==
  ASSUME HeaderInv, OwnerInv', NEW w \in Writers, ReleaseSwap(w)
  PROVE  HeaderInv'
<1>0. PICK d \in Chunks : d = Cur(w)
  BY InUse, ConstantTypes
<1>1. /\ TypeOK /\ w \in Actors /\ w # Service /\ Service \in Actors
      /\ Writers \subseteq Actors /\ d = Cur(w) /\ d \in held[w]
      /\ StateNow(d) = "kChunkBeingWritten" /\ pc[w] = "release_cas"
  BY <1>0, InUse, ConstantTypes DEF ReleaseSwap, HolderSteps, AcquireTo
<1>2. /\ UNCHANGED <<header, scan, stamp>>
      /\ \A a \in Actors : a # w => /\ pc'[a] = pc[a] /\ call'[a] = call[a]
                                    /\ Cur(a)' = Cur(a) /\ held'[a] = held[a]
      /\ pc'[w] = "idle"
  BY <1>1 DEF ReleaseSwap, Return, Goto, TypeOK, Cur
<1>3. \A c \in Chunks :
        StateNow(c)' = IF c = d THEN "kChunkComplete" ELSE StateNow(c)
  BY <1>1, SwapStates DEF ReleaseTo
<1>4. /\ \A c \in Chunks : HeaderIsStamp(c)' <=> HeaderIsStamp(c)
      /\ \A v \in Writers, c \in Chunks : Initialises(v, c)' <=> Initialises(v, c)
  BY <1>1, <1>2 DEF HeaderIsStamp, Initialises
<1>5. HeaderIsStamp(d)
  <2>1. \A v \in Writers : ~Initialises(v, d)
    BY <1>1, InUse DEF Initialises, HolderSteps
  <2> QED BY <1>1, <2>1 DEF HeaderInv, StampedHeaders
<1>6. FreeIsClear' /\ StampedHeaders'
  BY <1>2, <1>3, <1>4, <1>5 DEF HeaderInv, FreeIsClear, StampedHeaders
<1>7. HeaderProgress'
  <2>1. \A v \in Writers : pc'[v] = "header" =>
          pc[v] = "header" /\ call'[v] = call[v] /\ Cur(v)' = Cur(v)
    BY <1>1, <1>2
  <2> QED BY <1>2, <2>1 DEF HeaderInv, HeaderProgress
<1>8. ServiceProgress'
  <2>1. /\ Cur(Service)' = Cur(Service) /\ pc'[Service] = pc[Service]
        /\ call'[Service] = call[Service] /\ held'[Service] = held[Service]
    BY <1>1, <1>2
  <2>2. \A c \in Chunks : StateNow(c)' = "kChunkBeingRead" => StateNow(c) = "kChunkBeingRead"
    BY <1>3
  <2> QED BY <1>2, <2>1, <2>2 DEF HeaderInv, ServiceProgress, HolderSteps, HeaderIsStamp
<1>9. ScanAges' /\ ScanSafe'
  BY <1>1, <1>2, <1>3, <1>4, ScanKept
<1> QED BY <1>6, <1>7, <1>8, <1>9 DEF HeaderInv

(* The service frees its chunk.                                             *)
LEMMA ServiceReleases ==
  ASSUME HeaderInv, OwnerInv', ReleaseSwap(Service)
  PROVE  HeaderInv'
<1>0. PICK d \in Chunks : d = Cur(Service)
  BY InUse, ConstantTypes
<1>1. /\ TypeOK /\ Service \in Actors /\ Service \notin Writers
      /\ Writers \subseteq Actors /\ d = Cur(Service) /\ d \in held[Service]
      /\ StateNow(d) = "kChunkBeingRead" /\ pc[Service] = "release_cas"
      /\ held[Service] \subseteq {d} /\ header[d].packets = 0
  BY <1>0, InUse, ConstantTypes
  DEF ReleaseSwap, HolderSteps, AcquireTo, HeaderInv, ServiceProgress
<1>2. /\ UNCHANGED <<header, scan>>
      /\ \A c \in Chunks : c # d => stamp'[c] = stamp[c]
      /\ \A w \in Writers : pc'[w] = pc[w] /\ call'[w] = call[w] /\ Cur(w)' = Cur(w)
      /\ pc'[Service] = "idle" /\ held'[Service] = {}
  BY <1>1 DEF ReleaseSwap, Return, Goto, TypeOK, Cur
<1>3. \A c \in Chunks : StateNow(c)' = IF c = d THEN "kChunkFree" ELSE StateNow(c)
  BY <1>1, SwapStates DEF ReleaseTo
<1>4. /\ \A c \in Chunks : c # d => (HeaderIsStamp(c)' <=> HeaderIsStamp(c))
      /\ \A w \in Writers, c \in Chunks : Initialises(w, c)' <=> Initialises(w, c)
  BY <1>2 DEF HeaderIsStamp, Initialises
<1>5. FreeIsClear' /\ StampedHeaders'
  BY <1>1, <1>2, <1>3, <1>4 DEF HeaderInv, FreeIsClear, StampedHeaders
<1>6. HeaderProgress'
  <2>1. \A w \in Writers : pc[w] = "header" => Cur(w) \in Chunks /\ Cur(w) # d
    BY <1>1, InUse DEF HolderSteps
  <2> QED BY <1>2, <2>1 DEF HeaderInv, HeaderProgress
<1>7. ServiceProgress'
  <2>1. \A c \in Chunks : StateNow(c)' = "kChunkBeingRead" => header[c].packets = 0
    BY <1>1, <1>3 DEF HeaderInv, ServiceProgress
  <2> QED BY <1>2, <2>1 DEF ServiceProgress, HolderSteps
<1>8. ScanAges' /\ ScanSafe'
  BY <1>2, NotScanning DEF ScrapeSteps
<1> QED BY <1>5, <1>6, <1>7, <1>8 DEF HeaderInv

-----------------------------------------------------------------------------
(* The scraper moves on: the chunks it is still to visit are among those it *)
(* has been told of.                                                        *)
LEMMA ScrapeMoves ==
  ASSUME HeaderInv, OwnerInv', UNCHANGED <<layout, header, call, held, stamp>>,
         pc[Service] \notin HolderSteps, pc'[Service] \notin HolderSteps,
         \A w \in Writers : pc'[w] = pc[w],
         ScanAges', ScanSafe'
  PROVE  HeaderInv'
<1>1. /\ Cur(Service)' = Cur(Service)
      /\ \A c \in Chunks : StateNow(c)' = StateNow(c)
  BY DEF Cur, StateNow
<1>2. ServiceProgress'
  BY <1>1 DEF HeaderInv, ServiceProgress, HolderSteps
<1> QED BY <1>2, QuietService

LEMMA NextChunkKeeps ==
  ASSUME HeaderInv, OwnerInv', UNCHANGED <<layout, header, call, held, stamp>>,
         pc[Service] \notin HolderSteps,
         NEW STATE sc, NextChunk(sc), sc.page \in Pages, sc.used \subseteq Indices,
         sc \in ScanState,
         \A i \in sc.used :
           LET now == StateNow(<<sc.page, i>>)
               old == sc.layout.st[i]
           IN  /\ old # "kChunkFree"
               /\ old # "kChunkBeingWritten" => now = old
               /\ old = "kChunkBeingWritten" =>
                    now \in {"kChunkBeingWritten", "kChunkComplete"}
  PROVE  HeaderInv'
<1>1. TypeOK /\ Service \in Actors /\ Service \notin Writers /\ Writers \subseteq Actors
  BY InUse, ConstantTypes
<1>2. ASSUME NEW s, Goto(Service, s)
      PROVE  pc'[Service] = s /\ \A w \in Writers : pc'[w] = pc[w]
  BY <1>1, <1>2 DEF Goto, TypeOK
<1>3. CASE sc.used = {} /\ NextPage(sc)
  <2>1. /\ pc'[Service] \in {"idle", "scrape_page"}
        /\ \A w \in Writers : pc'[w] = pc[w]
    BY <1>2, <1>3 DEF NextPage
  <2>2. ScanAges' /\ ScanSafe'
    BY <2>1, NotScanning DEF ScrapeSteps
  <2> QED BY <2>1, <2>2, ScrapeMoves DEF HolderSteps
<1>4. ASSUME NEW i \in sc.used,
             scan' = [sc EXCEPT !.idx = i, !.used = @ \ {i}, !.count = 0, !.writer = 0],
             Goto(Service, "scrape_count")
      PROVE  HeaderInv'
  <2>1. pc'[Service] = "scrape_count" /\ \A w \in Writers : pc'[w] = pc[w]
    BY <1>2, <1>4
  <2>2. /\ scan'.page = sc.page /\ scan'.layout = sc.layout
        /\ scan'.used \cup {scan'.idx} \subseteq sc.used
    BY <1>4 DEF ScanState
  <2>3. ScanAges'
    <3> SUFFICES ASSUME NEW j \in scan'.used \cup {scan'.idx}
                 PROVE  LET now == StateNow(<<scan.page, j>>)'
                            old == scan'.layout.st[j]
                        IN  /\ old # "kChunkFree"
                            /\ old # "kChunkBeingWritten" => now = old
                            /\ old = "kChunkBeingWritten" =>
                                 now \in {"kChunkBeingWritten", "kChunkComplete"}
      BY DEF ScanAges
    <3>1. StateNow(<<scan.page, j>>)' = StateNow(<<sc.page, j>>)
      BY <2>2 DEF StateNow
    <3> QED BY <2>2, <3>1
  <2>4. ScanSafe'
    BY <2>1 DEF ScanSafe
  <2> QED BY <2>1, <2>3, <2>4, ScrapeMoves DEF HolderSteps
<1> QED BY <1>3, <1>4 DEF NextChunk

(* The scraper loads a layout word.                                         *)
LEMMA ScrapeLayoutStep ==
  ASSUME HeaderInv, OwnerInv', ScrapeLayout
  PROVE  HeaderInv'
<1> DEFINE l == layout[scan.page]
           sc == [scan EXCEPT !.layout = l, !.used = UsedChunks(l)]
<1>1. /\ pc[Service] = "scrape_page" /\ NextChunk(sc)
      /\ UNCHANGED <<layout, header, call, held, stamp>>
  BY DEF ScrapeLayout
<1>2. /\ l \in PageLayout /\ sc \in ScanState /\ sc.page = scan.page
      /\ sc.layout = l /\ sc.used = UsedChunks(l) /\ sc.page \in Pages
      /\ sc.used \subseteq Indices
  BY InUse DEF TypeOK, ScanState, UsedChunks
<1>3. \A i \in sc.used : /\ sc.layout.st[i] # "kChunkFree" /\ sc.layout.st[i] \in ChunkState
                         /\ StateNow(<<sc.page, i>>) = sc.layout.st[i]
  BY <1>2 DEF UsedChunks, StateNow, StateOf, PageLayout
<1> HIDE DEF sc
<1> QED BY <1>1, <1>2, <1>3, NextChunkKeeps DEF HolderSteps

(* The scraper loads the packet count and decides.                          *)
LEMMA ScrapeCountStep ==
  ASSUME HeaderInv, OwnerInv', ScrapeCount
  PROVE  HeaderInv'
<1>1. /\ pc[Service] = "scrape_count" /\ TypeOK
      /\ Service \in Actors /\ Service \notin Writers /\ Writers \subseteq Actors
      /\ UNCHANGED <<layout, header, call, held, stamp>>
      /\ scan \in ScanState /\ scan.page \in Pages /\ scan.used \subseteq Indices
      /\ ScanChunk \in Chunks
  BY InUse, ConstantTypes DEF ScrapeCount, TypeOK, ScanChunk
<1>2. \A i \in scan.used \cup {scan.idx} :
        /\ scan.layout.st[i] # "kChunkFree"
        /\ scan.layout.st[i] # "kChunkBeingWritten" =>
             StateNow(<<scan.page, i>>) = scan.layout.st[i]
        /\ scan.layout.st[i] = "kChunkBeingWritten" =>
             StateNow(<<scan.page, i>>) \in {"kChunkBeingWritten", "kChunkComplete"}
  BY <1>1 DEF HeaderInv, ScanAges
<1>3. CASE NextChunk(scan)
  BY <1>1, <1>2, <1>3, NextChunkKeeps DEF HolderSteps
<1>4. ASSUME WorthCopying(header[ScanChunk].packets),
             scan' = [scan EXCEPT !.count = header[ScanChunk].packets],
             Goto(Service, "scrape_writer")
      PROVE  HeaderInv'
  <2>1. /\ pc'[Service] = "scrape_writer" /\ \A w \in Writers : pc'[w] = pc[w]
    BY <1>1, <1>4 DEF Goto, TypeOK
  <2>2. /\ scan'.page = scan.page /\ scan'.layout = scan.layout /\ scan'.used = scan.used
        /\ scan'.idx = scan.idx /\ scan'.count = header[ScanChunk].packets
        /\ ScanChunk' = ScanChunk /\ ScanComplete' = ScanComplete
    BY <1>1, <1>4 DEF ScanState, ScanChunk, ScanComplete
  <2>3. /\ \A c \in Chunks : StateNow(c)' = StateNow(c)
        /\ \A w \in Writers, c \in Chunks : Initialises(w, c)' <=> Initialises(w, c)
    BY <1>1, <2>1 DEF StateNow, Initialises, Cur
  <2>4. ScanAges'
    <3>1. \A i : StateNow(<<scan.page, i>>)' = StateNow(<<scan.page, i>>)
      BY <1>1, <2>2 DEF StateNow
    <3> QED BY <1>2, <2>2, <3>1 DEF ScanAges
  <2>5. /\ StateNow(ScanChunk) \in {"kChunkBeingWritten", "kChunkComplete"}
        /\ \A w \in Writers : ~Initialises(w, ScanChunk)
    <3>1. \A w \in Writers : Initialises(w, ScanChunk) =>
            StateNow(ScanChunk) = "kChunkBeingWritten" /\ header[ScanChunk].packets = 0
      BY <1>1, InUse DEF Initialises, HolderSteps, HeaderInv, HeaderProgress, AcquireTo
    <3>2. CASE ScanComplete
      BY <1>2, <3>1, <3>2 DEF ScanComplete, ScanChunk, StateOf
    <3>3. CASE ~ScanComplete
      <4>1. header[ScanChunk].packets # 0
        BY <1>1, <1>4, <3>3 DEF WorthCopying, TypeOK, ChunkHeader
      <4>2. StateNow(ScanChunk) # "kChunkBeingRead"
        BY <1>1, <4>1 DEF HeaderInv, ServiceProgress, HolderSteps
      <4>3. StateNow(ScanChunk) # "kChunkFree"
        BY <1>2 DEF ScanChunk
      <4>4. StateNow(ScanChunk) \in ChunkState
        BY <1>1, ChunkParts DEF StateNow, StateOf, TypeOK, PageLayout
      <4> QED BY <3>1, <4>1, <4>2, <4>3, <4>4 DEF ChunkState
    <3> QED BY <3>2, <3>3
  <2>6. ScanSafe'
    BY <1>1, <2>1, <2>2, <2>3, <2>5 DEF ScanSafe
  <2> QED BY <1>1, <2>1, <2>4, <2>6, ScrapeMoves DEF HolderSteps
<1> QED BY <1>3, <1>4 DEF ScrapeCount

(* The scraper loads the writer id.                                         *)
LEMMA ScrapeWriterStep ==
  ASSUME HeaderInv, OwnerInv', ScrapeWriter
  PROVE  HeaderInv'
<1>1. /\ pc[Service] = "scrape_writer" /\ TypeOK
      /\ Service \in Actors /\ Service \notin Writers /\ Writers \subseteq Actors
      /\ UNCHANGED <<layout, header, call, held, stamp>> /\ ScanChunk \in Chunks
      /\ scan' = [scan EXCEPT !.writer = header[ScanChunk].writer_id]
      /\ Goto(Service, "scrape_id")
  BY InUse, ConstantTypes DEF ScrapeWriter, ScanChunk
<1>2. pc'[Service] = "scrape_id" /\ \A w \in Writers : pc'[w] = pc[w]
  BY <1>1 DEF Goto, TypeOK
<1>3. /\ scan'.page = scan.page /\ scan'.layout = scan.layout /\ scan'.used = scan.used
      /\ scan'.idx = scan.idx /\ scan'.count = scan.count
      /\ scan'.writer = header[ScanChunk].writer_id
      /\ ScanChunk' = ScanChunk /\ ScanComplete' = ScanComplete
  BY <1>1 DEF TypeOK, ScanState, ScanChunk, ScanComplete
<1>4. /\ \A c \in Chunks : StateNow(c)' = StateNow(c)
      /\ \A w \in Writers, c \in Chunks : Initialises(w, c)' <=> Initialises(w, c)
  BY <1>1, <1>2 DEF StateNow, Initialises, Cur
<1>5. ScanAges'
  <2>1. \A i : StateNow(<<scan.page, i>>)' = StateNow(<<scan.page, i>>)
    BY <1>1, <1>3 DEF StateNow
  <2> QED BY <1>1, <1>3, <2>1 DEF HeaderInv, ScanAges
<1>6. HeaderIsStamp(ScanChunk)
  BY <1>1 DEF HeaderInv, ScanSafe, StampedHeaders
<1>7. ScanSafe'
  BY <1>1, <1>2, <1>3, <1>4, <1>6 DEF HeaderInv, ScanSafe, HeaderIsStamp
<1> QED BY <1>1, <1>2, <1>5, <1>7, ScrapeMoves DEF HolderSteps

-----------------------------------------------------------------------------
LEMMA HeaderStep ==
  ASSUME HeaderInv, [Next]_vars
  PROVE  HeaderInv'
<1>0. /\ OwnerInv' /\ TypeOK
      /\ Service \in Actors /\ Service \notin Writers /\ Writers \subseteq Actors
      /\ Actors = Writers \cup {Service}
  <2>1. Actors = Writers \cup {Service}
    BY ABIAssumption DEF Actors, Writers, Service
  <2> QED BY <2>1, OwnerStep, InUse, ConstantTypes DEF HeaderInv
<1>1. ASSUME NEW w \in Writers, NEW p \in Pages, TryPartitionPage(w, p)
      PROVE  HeaderInv'
  <2>1. \A c \in Chunks : StateNow(c)' = StateNow(c)
    BY <1>0, <1>1, ConstantTypes, ChunkParts DEF TryPartitionPage, TypeOK, StateNow
  <2> QED BY <1>0, <1>1, <2>1, QuietWriter DEF TryPartitionPage
<1>2. ASSUME NEW w \in Writers, UNCHANGED <<layout, header, stamp, scan, held>>,
             \A b \in Actors \ {w} : pc'[b] = pc[b] /\ call'[b] = call[b],
             pc[w] # "header", pc'[w] # "header"
      PROVE  HeaderInv'
  <2>1. \A c \in Chunks : StateNow(c)' = StateNow(c)
    BY <1>2 DEF StateNow
  <2> QED BY <1>0, <1>2, <2>1, QuietWriter
<1>3. ASSUME NEW w \in Writers, NEW c \in Chunks,
             TryAcquireChunkForWriting(w, c) \/ ReleaseChunkAsComplete(w, c)
      PROVE  HeaderInv'
  BY <1>0, <1>2, <1>3 DEF TryAcquireChunkForWriting, ReleaseChunkAsComplete, Goto, TypeOK
<1>4. ASSUME NEW w \in Writers,
             AcquireLoad(w) \/ AcquireRetry(w) \/ ReleaseLoad(w)
      PROVE  HeaderInv'
  BY <1>0, <1>2, <1>4 DEF AcquireLoad, AcquireRetry, ReleaseLoad, TryAgain, Return, Goto, TypeOK
<1>5. ASSUME NEW w \in Writers, ReleaseRetry(w)
      PROVE  HeaderInv'
  <2>1. /\ \A c \in Chunks : StateNow(c)' = StateNow(c)
        /\ \A b \in Actors \ {w} : /\ pc'[b] = pc[b] /\ call'[b] = call[b]
                                   /\ held'[b] = held[b]
        /\ pc[w] # "header" /\ pc'[w] # "header"
    BY <1>0, <1>5 DEF ReleaseRetry, TryAgain, Return, Goto, TypeOK, StateNow
  <2> QED BY <1>0, <1>5, <2>1, QuietWriter DEF ReleaseRetry
<1>6. ASSUME UNCHANGED <<layout, header, stamp>>,
             \A w \in Writers : pc'[w] = pc[w] /\ call'[w] = call[w],
             pc'[Service] \notin ScrapeSteps, ServiceProgress'
      PROVE  HeaderInv'
  BY <1>0, <1>6, QuietService, NotScanning
<1>7. ASSUME UNCHANGED <<layout, header, stamp, held>>,
             \A w \in Writers : pc'[w] = pc[w] /\ call'[w] = call[w],
             pc[Service] \notin HolderSteps, pc'[Service] \notin HolderSteps \cup ScrapeSteps
      PROVE  HeaderInv'
  <2>1. /\ held'[Service] = {}
        /\ \A c \in Chunks : StateNow(c)' = StateNow(c)
    BY <1>0, <1>7 DEF HeaderInv, ServiceProgress, StateNow
  <2>2. ServiceProgress'
    BY <1>7, <2>1 DEF HeaderInv, ServiceProgress, HolderSteps
  <2> QED BY <1>6, <1>7, <2>2
<1>8. ASSUME NEW c \in Chunks, TryAcquireChunkForReading(c)
      PROVE  HeaderInv'
  <2>1. \A w \in Writers : pc'[w] = pc[w] /\ call'[w] = call[w]
    BY <1>0, <1>8 DEF TryAcquireChunkForReading, Goto, TypeOK
  <2> QED BY <1>0, <1>7, <1>8, <2>1
          DEF TryAcquireChunkForReading, Goto, TypeOK, HolderSteps, ScrapeSteps
<1>9. CASE AcquireLoad(Service) \/ AcquireRetry(Service)
  <2>1. \A w \in Writers : pc'[w] = pc[w] /\ call'[w] = call[w]
    BY <1>0, <1>9 DEF AcquireLoad, AcquireRetry, TryAgain, Return, Goto, TypeOK
  <2>2. /\ pc[Service] \in {"acquire_load", "acquire_cas"}
        /\ pc'[Service] \in {"acquire_load", "acquire_cas", "idle"}
    BY <1>0, <1>9 DEF AcquireLoad, AcquireRetry, TryAgain, Return, Goto, TypeOK
  <2> QED BY <1>7, <1>9, <2>1, <2>2 DEF AcquireLoad, AcquireRetry, HolderSteps, ScrapeSteps
<1>10. ASSUME UNCHANGED <<layout, header, stamp, held>>,
              \A w \in Writers : pc'[w] = pc[w] /\ call'[w] = call[w],
              pc[Service] \in {"release_load", "release_cas"},
              pc'[Service] \in {"release_load", "release_cas"},
              Cur(Service)' = Cur(Service)
       PROVE  HeaderInv'
  <2>1. \A c \in Chunks : StateNow(c)' = StateNow(c)
    BY <1>10 DEF StateNow
  <2>2. ServiceProgress'
    BY <1>10, <2>1 DEF HeaderInv, ServiceProgress, HolderSteps
  <2> QED BY <1>6, <1>10, <2>2 DEF ScrapeSteps
<1>11. CASE ReleaseLoad(Service)
  <2>1. CanRelease(Service)
    <3>1. pc'[Service] # "check_failed"
      BY <1>0 DEF OwnerInv, NoCheckFailure
    <3> QED BY <1>0, <1>11, <3>1 DEF ReleaseLoad, Goto, TypeOK
  <2>2. /\ call' = [call EXCEPT ![Service].seen = CurLayout(Service)]
        /\ Goto(Service, "release_cas") /\ pc[Service] = "release_load"
        /\ UNCHANGED <<layout, header, held, scan, stamp>>
    BY <1>11, <2>1 DEF ReleaseLoad
  <2>3. /\ \A w \in Writers : pc'[w] = pc[w] /\ call'[w] = call[w]
        /\ pc'[Service] = "release_cas" /\ Cur(Service)' = Cur(Service)
    BY <1>0, <2>2 DEF Goto, TypeOK, Cur, Call
  <2> QED BY <1>10, <2>2, <2>3
<1>12. CASE ReleaseRetry(Service)
  <2>1. CASE TryAgain(Service, "release_load") /\ UNCHANGED held
    <3>1. /\ \A w \in Writers : pc'[w] = pc[w] /\ call'[w] = call[w]
          /\ pc'[Service] = "release_load" /\ Cur(Service)' = Cur(Service)
      BY <1>0, <2>1 DEF TryAgain, Goto, TypeOK, Cur, Call
    <3> QED BY <1>10, <1>12, <2>1, <3>1 DEF ReleaseRetry
  <2>2. CASE held' = [held EXCEPT ![Service] = @ \ {Cur(Service)}] /\ Return(Service)
    <3>1. /\ \A w \in Writers : pc'[w] = pc[w] /\ call'[w] = call[w]
          /\ pc'[Service] = "idle" /\ pc[Service] = "release_cas"
          /\ UNCHANGED <<layout, header, stamp>>
      BY <1>0, <1>12, <2>2 DEF ReleaseRetry, Return, Goto, TypeOK
    <3>2. /\ held'[Service] = {} /\ held[Service] \subseteq {Cur(Service)}
          /\ header[Cur(Service)].packets = 0
      BY <1>0, <2>2, <3>1 DEF HeaderInv, ServiceProgress, TypeOK
    <3>3. \A c \in Chunks : StateNow(c)' = StateNow(c)
      BY <3>1 DEF StateNow
    <3>4. ServiceProgress'
      BY <3>1, <3>2, <3>3 DEF HeaderInv, ServiceProgress, HolderSteps
    <3> QED BY <1>6, <3>1, <3>4 DEF ScrapeSteps
  <2> QED BY <1>12, <2>1, <2>2 DEF ReleaseRetry
<1>13. CASE ReleaseChunkAsFree
  <2>1. /\ \A w \in Writers : pc'[w] = pc[w] /\ call'[w] = call[w]
        /\ pc'[Service] = "header" /\ pc[Service] = "copy"
        /\ call'[Service].todo = HeaderFields /\ Cur(Service)' = Cur(Service)
        /\ UNCHANGED <<layout, header, stamp, held>>
    BY <1>0, <1>13 DEF ReleaseChunkAsFree, Goto, TypeOK, Cur, Call
  <2>2. \A c \in Chunks : StateNow(c)' = StateNow(c)
    BY <2>1 DEF StateNow
  <2>3. ServiceProgress'
    BY <2>1, <2>2 DEF HeaderInv, ServiceProgress, HolderSteps, HeaderFields
  <2> QED BY <1>6, <2>1, <2>3 DEF ScrapeSteps
<1>14. CASE ScrapeSharedMemoryBuffers
  <2>1. /\ \A w \in Writers : pc'[w] = pc[w] /\ call'[w] = call[w]
        /\ pc'[Service] = "scrape_page" /\ pc[Service] = "idle"
    BY <1>0, <1>14 DEF ScrapeSharedMemoryBuffers, Goto, TypeOK
  <2> QED BY <1>7, <1>14, <2>1 DEF ScrapeSharedMemoryBuffers, HolderSteps, ScrapeSteps
<1>15. CASE ScrapeCopy
  <2>1. \A i \in scan.used :
          LET now == StateNow(<<scan.page, i>>)
              old == scan.layout.st[i]
          IN  /\ old # "kChunkFree"
              /\ old # "kChunkBeingWritten" => now = old
              /\ old = "kChunkBeingWritten" =>
                   now \in {"kChunkBeingWritten", "kChunkComplete"}
    BY <1>15 DEF HeaderInv, ScanAges, ScrapeCopy
  <2>2. scan \in ScanState /\ scan.page \in Pages /\ scan.used \subseteq Indices
    BY InUse DEF TypeOK
  <2> QED BY <1>0, <1>15, <2>1, <2>2, NextChunkKeeps DEF ScrapeCopy, HolderSteps
<1>16. CASE UNCHANGED vars
  <2>1. \A c \in Chunks : StateNow(c)' = StateNow(c)
    BY <1>16 DEF StateNow, vars
  <2>2. /\ ServiceProgress' /\ UNCHANGED <<layout, header, stamp, scan>>
        /\ \A w \in Writers : pc'[w] = pc[w] /\ call'[w] = call[w]
    BY <1>16, <2>1 DEF vars, HeaderInv, ServiceProgress, HeaderIsStamp, Cur
  <2>3. ScanAges' /\ ScanSafe'
    BY <1>16, <2>1, ScanKept DEF vars, Initialises, Cur
  <2> QED BY <1>0, <2>2, <2>3, QuietService
<1>17. ASSUME NEW a \in Actors, CallStep(a)
       PROVE  HeaderInv'
  <2>1. CASE a = Service
    BY <1>0, <1>9, <1>11, <1>12, <1>17, <2>1, ServiceStore, ServiceAcquires,
       ServiceReleases DEF CallStep
  <2>2. CASE a \in Writers
    BY <1>0, <1>4, <1>5, <1>17, <2>2, WriterStore, WriterAcquires, WriterReleases
    DEF CallStep
  <2> QED BY <1>0, <2>1, <2>2
<1> QED
  BY <1>0, <1>1, <1>3, <1>8, <1>13, <1>14, <1>15, <1>16, <1>17, IncrementStep,
     ScrapeLayoutStep, ScrapeCountStep, ScrapeWriterStep
  DEF Next, ServiceStep

LEMMA HeaderInit == Init => HeaderInv
<1> SUFFICES ASSUME Init PROVE HeaderInv
  OBVIOUS
<1>1. OwnerInv
  BY OwnerInit
<1>2. \A c \in Chunks : /\ StateNow(c) = "kChunkFree" /\ header[c].packets = 0
  BY ConstantTypes, ChunkParts DEF Init, StateNow, ClearHeader
<1>3. /\ pc[Service] = "idle" /\ held[Service] = {}
      /\ \A w \in Writers : pc[w] = "idle"
  BY ConstantTypes DEF Init
<1>4. FreeIsClear /\ StampedHeaders /\ HeaderProgress
  BY <1>2, <1>3 DEF FreeIsClear, StampedHeaders, HeaderProgress
<1>5. ServiceProgress /\ ScanAges /\ ScanSafe
  BY <1>2, <1>3 DEF ServiceProgress, ScanAges, ScanSafe, HolderSteps
<1> QED BY <1>1, <1>4, <1>5 DEF HeaderInv

(* The service attributes whatever it copies, on commit or by scraping, to  *)
(* the writer and the chunk id that the chunk was acquired with             *)
(* (tracing_service_impl.cc:1847-1875 and 3885-3901).                       *)
THEOREM AttributionHolds == Spec => []CopiesAreAttributed
<1>1. HeaderInv /\ [Next]_vars => HeaderInv'
  BY HeaderStep
<1>2. HeaderInv => CopiesAreAttributed
  <2> SUFFICES ASSUME HeaderInv PROVE CopiesAreAttributed
    OBVIOUS
  <2>1. ScanChunk \in Chunks
    BY InUse DEF ScanChunk
  <2>2. pc[Service] = "scrape_id" => HeaderIsStamp(ScanChunk)
    BY <2>1 DEF HeaderInv, ScanSafe, StampedHeaders
  <2> QED BY <2>2 DEF HeaderInv, ServiceProgress, ScanSafe, CopiesAreAttributed
<1> QED BY HeaderInit, <1>1, <1>2, PTL DEF Spec

(***************************************************************************)
(* The lock-free protocol implements the life cycle of a chunk that        *)
(* shared_memory_abi.h draws (ChunkLifecycle).                             *)
(***************************************************************************)
(* What the abstract specification sees of a chunk.                         *)
ChunkStates == [c \in Chunks |-> StateOf(layout[c[1]], c)]
Counts      == [c \in Chunks |-> header[c].packets]

LEMMA AllActors == Writers \cup {Service} = Actors
BY ABIAssumption DEF Writers, Service, Actors

(* A step that moves no chunk, no count and no right is a stuttering step.  *)
LEMMA Stutters ==
  ASSUME \A c \in Chunks : StateNow(c)' = StateNow(c),
         \A c \in Chunks : header'[c].packets = header[c].packets,
         held' = held
  PROVE  UNCHANGED Lifecycle!vars
<1>1. ChunkStates' = ChunkStates
  BY DEF ChunkStates, StateNow
<1>2. Counts' = Counts
  BY DEF Counts
<1> QED BY <1>1, <1>2 DEF Lifecycle!vars, ChunkStates, Counts

LEMMA LifecycleInit == Init => Lifecycle!Init
<1> SUFFICES ASSUME Init PROVE Lifecycle!Init
  OBVIOUS
<1>1. \A c \in Chunks : StateNow(c) = "kChunkFree" /\ header[c].packets = 0
  BY ConstantTypes, ChunkParts DEF Init, StateNow, ClearHeader
<1>2. ChunkStates = [c \in Chunks |-> "kChunkFree"]
  BY <1>1 DEF ChunkStates, StateNow
<1>3. Counts = [c \in Chunks |-> 0]
  BY <1>1 DEF Counts
<1> QED BY <1>2, <1>3, AllActors DEF Init, Lifecycle!Init, ChunkStates, Counts

-----------------------------------------------------------------------------
(* The steps that are steps of the life cycle.                              *)

(* A successful compare-exchange of TryAcquireChunk() takes a chunk that    *)
(* nobody holds, and a writer takes one that announces nothing.             *)
LEMMA AcquireRefines ==
  ASSUME HeaderInv, NEW a \in Actors, AcquireSwap(a)
  PROVE  Lifecycle!Next
<1> PICK d \in Chunks : d = Cur(a)
  BY InUse
<1>1. TypeOK /\ OwnerInv
  BY InUse DEF HeaderInv
<1>2. Lifecycle!Unheld(d)
  BY <1>1, NobodyHolds, AllActors DEF Lifecycle!Unheld
<1>3. StateNow(d) = AcquireFrom(a)
  BY <1>1 DEF OwnerInv, AcquireSwap, LayoutUnchanged, CurLayout, StateNow
<1>4. ChunkStates' = [ChunkStates EXCEPT ![d] = AcquireTo(a)]
  BY <1>1, SwapStates DEF ChunkStates, StateNow
<1>5. held' = [held EXCEPT ![a] = @ \cup {d}]
  BY DEF AcquireSwap
<1>6. Counts' = Counts
  BY DEF AcquireSwap, Counts
<1>7. ChunkStates[d] = AcquireFrom(a)
  BY <1>3 DEF ChunkStates, StateNow
<1>8. CASE a = Service
  <2>1. Lifecycle!StartReading(d)
    BY <1>2, <1>4, <1>5, <1>6, <1>7, <1>8
    DEF Lifecycle!StartReading, Lifecycle!Take, ChunkStates, Counts, AcquireFrom, AcquireTo
  <2> QED BY <2>1 DEF Lifecycle!Next
<1>9. CASE a # Service
  <2>1. a \in Writers
    BY <1>9, AllActors
  <2>2. Counts[d] = 0
    BY <1>3, <1>9 DEF HeaderInv, FreeIsClear, AcquireFrom, Counts
  <2>3. Lifecycle!StartWriting(a, d)
    BY <1>2, <1>4, <1>5, <1>6, <1>7, <1>9, <2>2
    DEF Lifecycle!StartWriting, Lifecycle!Take, ChunkStates, Counts, AcquireFrom, AcquireTo
  <2> QED BY <2>1, <2>3 DEF Lifecycle!Next
<1> QED BY <1>8, <1>9

(* A successful compare-exchange of ReleaseChunk() hands over a chunk that  *)
(* the caller holds, and the service frees only a chunk it has cleared.     *)
LEMMA ReleaseRefines ==
  ASSUME HeaderInv, NEW a \in Actors, ReleaseSwap(a)
  PROVE  Lifecycle!Next
<1> PICK d \in Chunks : d = Cur(a)
  BY InUse
<1>1. TypeOK
  BY InUse
<1>2. pc[a] = "release_cas" /\ d \in held[a] /\ StateNow(d) = AcquireTo(a)
  BY InUse DEF ReleaseSwap, HolderSteps
<1>3. ChunkStates' = [ChunkStates EXCEPT ![d] = ReleaseTo(a)]
  BY <1>1, SwapStates DEF ChunkStates, StateNow
<1>4. held' = [held EXCEPT ![a] = @ \ {d}]
  BY DEF ReleaseSwap
<1>5. Counts' = Counts
  BY DEF ReleaseSwap, Counts
<1>6. ChunkStates[d] = AcquireTo(a)
  BY <1>2 DEF ChunkStates, StateNow
<1>7. CASE a = Service
  <2>1. Counts[d] = 0
    BY <1>2, <1>7 DEF HeaderInv, ServiceProgress, Counts
  <2>2. Lifecycle!Free(d)
    BY <1>2, <1>3, <1>4, <1>5, <1>6, <1>7, <2>1
    DEF Lifecycle!Free, Lifecycle!Give, ChunkStates, Counts, AcquireTo, ReleaseTo
  <2> QED BY <2>2 DEF Lifecycle!Next
<1>8. CASE a # Service
  <2>1. a \in Writers
    BY <1>8, AllActors
  <2>2. Lifecycle!Complete(a, d)
    BY <1>2, <1>3, <1>4, <1>5, <1>6, <1>8
    DEF Lifecycle!Complete, Lifecycle!Give, ChunkStates, Counts, AcquireTo, ReleaseTo
  <2> QED BY <2>1, <2>2 DEF Lifecycle!Next
<1> QED BY <1>7, <1>8

(* A release that runs out of attempts loses the chunk it held.             *)
LEMMA AbandonRefines ==
  ASSUME HeaderInv, NEW a \in Actors, ReleaseRetry(a)
  PROVE  [Lifecycle!Next]_(Lifecycle!vars)
<1> PICK d \in Chunks : d = Cur(a)
  BY InUse
<1>1. d \in held[a]
  BY InUse DEF ReleaseRetry, HolderSteps
<1>2. UNCHANGED <<layout, header>>
  BY DEF ReleaseRetry
<1>3. ChunkStates' = ChunkStates /\ Counts' = Counts
  BY <1>2 DEF ChunkStates, Counts
<1>4. CASE UNCHANGED held
  BY <1>3, <1>4 DEF Lifecycle!vars, ChunkStates, Counts
<1>5. CASE held' = [held EXCEPT ![a] = @ \ {d}]
  <2>1. Lifecycle!Abandon(a, d)
    BY <1>1, <1>3, <1>5 DEF Lifecycle!Abandon, ChunkStates, Counts
  <2> QED BY <2>1, AllActors DEF Lifecycle!Next
<1> QED BY <1>4, <1>5 DEF ReleaseRetry

(* Chunk::IncrementPacketCount() announces a packet of the writer's chunk.  *)
LEMMA IncrementRefines ==
  ASSUME HeaderInv, NEW w \in Writers, NEW d \in Chunks, IncrementPacketCount(w, d)
  PROVE  Lifecycle!Next
<1>1. /\ header \in [Chunks -> ChunkHeader] /\ w \in Actors /\ w # Service
      /\ d \in held[w] /\ UNCHANGED <<layout, held>>
  BY InUse, ConstantTypes DEF TypeOK, IncrementPacketCount
<1>2. ChunkStates' = ChunkStates /\ ChunkStates[d] = "kChunkBeingWritten"
  BY <1>1, InUse DEF ChunkStates, StateNow, AcquireTo
<1>3. Counts' = [Counts EXCEPT ![d] = @ + 1]
  BY <1>1 DEF Counts, IncrementPacketCount, ChunkHeader
<1>4. Lifecycle!StartPacket(w, d)
  BY <1>1, <1>2, <1>3 DEF Lifecycle!StartPacket, ChunkStates, Counts
<1> QED BY <1>4 DEF Lifecycle!Next

(* Of the stores that set up or clear a header only the one of the count    *)
(* shows: a writer's announces at most one packet in a chunk that announced *)
(* none, the service's resets the count of the chunk it reads.              *)
LEMMA StoreRefines ==
  ASSUME HeaderInv, NEW a \in Actors, NEW f \in HeaderFields, StoreHeader(a, f)
  PROVE  [Lifecycle!Next]_(Lifecycle!vars)
<1> PICK d \in Chunks : d = Cur(a)
  BY InUse
<1>1. /\ header \in [Chunks -> ChunkHeader]
      /\ d \in held[a] /\ StateNow(d) = AcquireTo(a)
      /\ UNCHANGED <<layout, held>> /\ pc[a] = "header"
  BY InUse DEF StoreHeader, HolderSteps, TypeOK
<1>2. ChunkStates' = ChunkStates /\ ChunkStates[d] = AcquireTo(a)
  BY <1>1 DEF ChunkStates, StateNow
<1>3. PICK v \in HeaderValues(a, f) : header' = [header EXCEPT ![d][f] = v]
  BY DEF StoreHeader
<1>4. CASE f # "packets"
  <2>1. \A c \in Chunks : header'[c].packets = header[c].packets
    BY <1>1, <1>3, <1>4 DEF ChunkHeader, HeaderFields
  <2>2. Counts' = Counts
    BY <2>1 DEF Counts
  <2> QED BY <1>1, <1>2, <2>2 DEF Lifecycle!vars, ChunkStates, Counts
<1>5. CASE f = "packets"
  <2>1. Counts' = [Counts EXCEPT ![d] = v]
    BY <1>1, <1>3, <1>5 DEF Counts, ChunkHeader
  <2>2. CASE a = Service
    <3>1. v = 0
      BY <1>5, <2>2 DEF HeaderValues
    <3>2. Lifecycle!Clear(d)
      BY <1>1, <1>2, <2>1, <2>2, <3>1
      DEF Lifecycle!Clear, ChunkStates, Counts, AcquireTo
    <3> QED BY <3>2 DEF Lifecycle!Next
  <2>3. CASE a # Service
    <3>1. a \in Writers /\ v \in {0, 1}
      BY <1>5, <2>3, AllActors DEF HeaderValues
    <3>2. Counts[d] = 0
      BY <1>1, <3>1 DEF HeaderInv, HeaderProgress, Counts
    <3>3. CASE v = 0
      <4>1. Counts' = Counts
        BY <2>1, <3>2, <3>3 DEF Counts
      <4> QED BY <1>1, <1>2, <4>1 DEF Lifecycle!vars, ChunkStates, Counts
    <3>4. CASE v = 1
      <4>1. Counts' = [Counts EXCEPT ![d] = @ + 1]
        BY <2>1, <3>2, <3>4
      <4>2. Lifecycle!StartPacket(a, d)
        BY <1>1, <1>2, <2>3, <4>1
        DEF Lifecycle!StartPacket, ChunkStates, Counts, AcquireTo
      <4> QED BY <3>1, <4>2 DEF Lifecycle!Next
    <3> QED BY <3>1, <3>3, <3>4
  <2> QED BY <2>2, <2>3
<1> QED BY <1>4, <1>5

-----------------------------------------------------------------------------
(* Every step maps to a step of the life cycle or to a stuttering step.     *)
LEMMA LifecycleStep ==
  ASSUME HeaderInv, [Next]_vars
  PROVE  [Lifecycle!Next]_(Lifecycle!vars)
<1>1. ASSUME UNCHANGED <<layout, header, held>>
      PROVE  UNCHANGED Lifecycle!vars
  BY <1>1, Stutters DEF StateNow
<1>2. ASSUME NEW w \in Writers, NEW p \in Pages, TryPartitionPage(w, p)
      PROVE  UNCHANGED Lifecycle!vars
  <2>1. \A c \in Chunks : StateNow(c)' = StateNow(c)
    BY <1>2, InUse, ConstantTypes, ChunkParts DEF TryPartitionPage, StateNow, TypeOK
  <2> QED BY <1>2, <2>1, Stutters DEF TryPartitionPage
<1>3. ASSUME NEW w \in Writers, NEW c \in Chunks,
             TryAcquireChunkForWriting(w, c) \/ ReleaseChunkAsComplete(w, c)
      PROVE  UNCHANGED Lifecycle!vars
  BY <1>1, <1>3 DEF TryAcquireChunkForWriting, ReleaseChunkAsComplete
<1>4. ASSUME NEW a \in Actors, AcquireLoad(a) \/ AcquireRetry(a) \/ ReleaseLoad(a)
      PROVE  UNCHANGED Lifecycle!vars
  BY <1>1, <1>4 DEF AcquireLoad, AcquireRetry, ReleaseLoad
<1>5. ASSUME \/ \E c \in Chunks : TryAcquireChunkForReading(c)
             \/ ScrapeSharedMemoryBuffers \/ ServiceStep \/ UNCHANGED vars
      PROVE  UNCHANGED Lifecycle!vars
  BY <1>1, <1>5 DEF TryAcquireChunkForReading, ScrapeSharedMemoryBuffers, ServiceStep,
     ReleaseChunkAsFree, ScrapeLayout, ScrapeCount, ScrapeWriter, ScrapeCopy, vars
<1>6. ASSUME NEW a \in Actors, CallStep(a)
      PROVE  [Lifecycle!Next]_(Lifecycle!vars)
  BY <1>4, <1>6, AcquireRefines, ReleaseRefines, AbandonRefines, StoreRefines
  DEF CallStep
<1> QED BY <1>2, <1>3, <1>5, <1>6, IncrementRefines DEF Next

(* Whatever the interleaving of layout words, retries, header stores and    *)
(* de-partitioning, a chunk follows the state diagram of shared_memory_abi.h*)
(* (enum ChunkState, lines 179-196): only a free chunk that announces       *)
(* nothing is written, only its writer announces packets and completes it,  *)
(* only the service reads it, and it clears the count before freeing it.    *)
THEOREM LifecycleHolds == Spec => ImplementsLifecycle
<1>1. HeaderInv /\ [Next]_vars => HeaderInv'
  BY HeaderStep
<1>2. HeaderInv /\ [Next]_vars => [Lifecycle!Next]_(Lifecycle!vars)
  BY LifecycleStep
<1> QED
  BY HeaderInit, LifecycleInit, <1>1, <1>2, PTL
  DEF Spec, ImplementsLifecycle, Lifecycle!Spec
=============================================================================
