----------------------------- MODULE TraceWriter -----------------------------
(***************************************************************************)
(* The producer's side of the data path: trace writers that split packets  *)
(* over the chunks of the shared memory buffer and the commit request in   *)
(* which the arbiter collects finished chunks and patches.                 *)
(*                                                                         *)
(* Source: src/src/tracing/core/trace_writer_impl.cc, and GetNewChunk(),   *)
(* UpdateCommitDataRequest() and FlushPendingCommitDataRequests() of       *)
(* shared_memory_arbiter_impl.cc, for an arbiter that is fully bound and   *)
(* does not patch directly.                                                *)
(*                                                                         *)
(* A step is a call of the writer's interface.  The accesses to shared     *)
(* memory within a call can be merged: the service looks at a chunk that   *)
(* is being written only from its second packet on, and disregards the     *)
(* last packet.  SharedMemoryABI has the accesses one by one.              *)
(***************************************************************************)
EXTENDS Integers, Sequences, FiniteSetsExt

CONSTANTS
  NumSeqs,          \* trace writers
  NumSlots,         \* chunks of the shared memory buffer
  NumChunkIDs,      \* kMaxChunkID + 1
  MaxFragments,     \* ChunkHeader::Packets::kMaxCount
  MaxPackets,       \* bound on the packets of a writer
  MaxChunks,        \* bound on the chunks of a writer
  MaxHoles,         \* bound on the unpatched size fields of a fragment
  ExhaustedPolicies \* the policies that a writer may be created with

Sequences == 1 .. NumSeqs
Slots     == 1 .. NumSlots

ASSUME WriterAssumption ==
  /\ NumSeqs \in Nat \ {0} /\ NumSlots \in Nat \ {0}
  /\ NumChunkIDs \in Nat \ {0, 1} /\ MaxFragments \in Nat \ {0}
  /\ MaxPackets \in Nat /\ MaxChunks \in Nat /\ MaxHoles \in Nat
  /\ ExhaustedPolicies \subseteq {"kDrop", "kStall"}

kFirstPacketContinuesFromPrevChunk == "kFirstPacketContinuesFromPrevChunk"
kLastPacketContinuesOnNextChunk    == "kLastPacketContinuesOnNextChunk"
kChunkNeedsPatching                == "kChunkNeedsPatching"

VARIABLES
  smb,      \* slot -> the chunk in the shared memory buffer
  writer,   \* sequence -> the state of its TraceWriterImpl
  req       \* commit_data_req_: chunks to move and chunks to patch

writerVars == <<smb, writer, req>>

(* The content of a fragment: which part of which packet it is, whether the *)
(* packet ends with it, and the packet's previous_packet_dropped field.     *)
Label   == [pkt : 0 .. MaxPackets, part : Nat, end : BOOLEAN, gap : BOOLEAN]
NoLabel == [pkt |-> 0, part |-> 0, end |-> FALSE, gap |-> FALSE]

(* The size field of a packet is zero until the fragment is finished.       *)
OpenFragment == [label |-> NoLabel, holes |-> 0, kind |-> "empty"]

(* A patch: the chunk, the fragment with the hole, whether others follow    *)
(* for the same chunk, and whether the size is known (is_patched()).        *)
Patch == [seq : Sequences, id : 0 .. NumChunkIDs - 1, pos : 1 .. MaxFragments,
          more : BOOLEAN, done : BOOLEAN]

FreeSlot  == [seq |-> 0, id |-> 0, flags |-> {}, body |-> <<>>,
              state |-> "kChunkFree"]
EmptyReq  == [move |-> <<>>, patch |-> <<>>]
NewWriter(policy) ==
  [slot |-> 0, next |-> 0, pkt |-> 0, part |-> 0, open |-> FALSE, drop |-> FALSE,
   gap |-> FALSE, room |-> FALSE, patches |-> <<>>,
   buffer_exhausted_policy |-> policy]

ChunkInSlot == [seq : 0 .. NumSeqs, id : 0 .. NumChunkIDs - 1,
                flags : SUBSET {kFirstPacketContinuesFromPrevChunk,
                                kLastPacketContinuesOnNextChunk, kChunkNeedsPatching},
                body : Seq([label : Label, holes : 0 .. MaxHoles,
                            kind : {"data", "empty", "drop"}]),
                state : {"kChunkFree", "kChunkBeingWritten", "kChunkComplete"}]
WriterState == [slot : 0 .. NumSlots, next : 0 .. MaxChunks, pkt : 0 .. MaxPackets,
                part : Nat, open : BOOLEAN, drop : BOOLEAN, gap : BOOLEAN,
                room : BOOLEAN, patches : Seq(Patch),
                buffer_exhausted_policy : ExhaustedPolicies]
CommitDataRequest == [move : Seq(Slots), patch : Seq(Patch)]

WriterTypeOK ==
  /\ smb \in [Slots -> ChunkInSlot]
  /\ writer \in [Sequences -> WriterState]
  /\ req \in CommitDataRequest

WriterInit ==
  /\ smb = [i \in Slots |-> FreeSlot]
  /\ writer \in [Sequences -> {NewWriter(p) : p \in ExhaustedPolicies}]
  /\ req = EmptyReq

-----------------------------------------------------------------------------
IsFree(i)     == smb[i].state = "kChunkFree"
Exhausted     == \A i \in Slots : ~IsFree(i)
HasChunk(s)   == writer[s].slot # 0
CurChunk(s)   == IF HasChunk(s) THEN smb[writer[s].slot] ELSE FreeSlot

(* GetNewChunk() with the header that GetNewBuffer() prepares.              *)
Mutant_UnwrappedChunkID(s, flags) ==
  [seq |-> s, id |-> writer[s].next, flags |-> flags,
   body |-> <<OpenFragment>>, state |-> "kChunkBeingWritten"]
NewChunk(s, flags) ==
  [seq |-> s, id |-> writer[s].next % NumChunkIDs, flags |-> flags,
   body |-> <<OpenFragment>>, state |-> "kChunkBeingWritten"]

(* The fragment the writer is at, finished with the given number of holes.  *)
Finished(s, end, holes) ==
  [label |-> [pkt |-> writer[s].pkt, part |-> writer[s].part, end |-> end,
              gap |-> writer[s].gap],
   holes |-> holes, kind |-> "data"]
WithLast(body, f) == [body EXCEPT ![Len(body)] = f]
DropLast(body)    == [body EXCEPT ![Len(body)].kind = "drop"]

(* UpdateCommitDataRequest() sends patches up to the first unpatched one.   *)
NumPatched(ps)   == Max({n \in 0 .. Len(ps) : \A j \in 1 .. n : ps[j].done})
SentPatches(ps)  == SubSeq(ps, 1, NumPatched(ps))
KeptPatches(ps)  == SubSeq(ps, NumPatched(ps) + 1, Len(ps))

(* ReturnCompletedChunk(): with slot 0 there is no chunk, only patches.     *)
Returned(slot, ps) ==
  [move  |-> IF slot = 0 THEN req.move ELSE Append(req.move, slot),
   patch |-> req.patch \o SentPatches(ps)]

Completed(slot, flags, body) ==
  IF slot = 0 THEN smb
  ELSE [smb EXCEPT ![slot].flags = flags, ![slot].body = body,
                   ![slot].state = "kChunkComplete"]

-----------------------------------------------------------------------------
(* NewTracePacket() in the current chunk.                                   *)
NewTracePacket(s) ==
  LET w == writer[s] IN
  /\ ~w.open /\ HasChunk(s)
  /\ w.pkt < MaxPackets
  /\ Len(CurChunk(s).body) < MaxFragments
  /\ smb' = [smb EXCEPT ![w.slot].body = Append(@, OpenFragment)]
  /\ writer' = [writer EXCEPT ![s] = [w EXCEPT
                  !.pkt = @ + 1, !.part = 1, !.open = TRUE, !.gap = FALSE,
                  !.patches = KeptPatches(@)]]
  /\ req' = Returned(0, w.patches)

(* The first packet after a loss carries previous_packet_dropped.           *)
Mutant_NoMarker(s)      == FALSE
WasDroppingPackets(s)   == writer[s].drop

(* NewTracePacket() when there is no chunk, or no room in it: GetNewBuffer()*)
(* grabs slot i and then returns the old chunk.                             *)
NewTracePacketInNewChunk(s, i) ==
  LET w == writer[s] IN
  /\ ~w.open /\ IsFree(i)
  /\ w.pkt < MaxPackets /\ w.next < MaxChunks
  /\ smb' = [Completed(w.slot, CurChunk(s).flags, CurChunk(s).body)
               EXCEPT ![i] = NewChunk(s, {})]
  /\ writer' = [writer EXCEPT ![s] = [w EXCEPT
                  !.slot = i, !.next = @ + 1, !.room = TRUE,
                  !.pkt = @ + 1, !.part = 1, !.open = TRUE,
                  !.gap = WasDroppingPackets(s), !.drop = FALSE, !.patches = KeptPatches(@)]]
  /\ req' = Returned(w.slot, w.patches)

(* NewTracePacket() when the shared memory buffer is exhausted: the last    *)
(* packet is sacrificed to tell the service, and the new one is lost.       *)
NewTracePacketExhausted(s) ==
  LET w == writer[s] IN
  /\ ~w.open /\ Exhausted /\ w.buffer_exhausted_policy = "kDrop"
  /\ w.pkt < MaxPackets
  /\ smb' = Completed(w.slot, CurChunk(s).flags, DropLast(CurChunk(s).body))
  /\ writer' = [writer EXCEPT ![s] = [w EXCEPT
                  !.slot = 0, !.room = TRUE, !.drop = TRUE,
                  !.pkt = @ + 1, !.part = 1, !.open = TRUE, !.gap = FALSE,
                  !.patches = KeptPatches(@)]]
  /\ req' = Returned(w.slot, w.patches)

(* NewTracePacket() while there is room in the garbage chunk.               *)
NewTracePacketInGarbage(s) ==
  LET w == writer[s] IN
  /\ ~w.open /\ w.drop /\ w.room
  /\ w.pkt < MaxPackets
  /\ writer' = [writer EXCEPT ![s] = [w EXCEPT
                  !.pkt = @ + 1, !.part = 1, !.open = TRUE, !.gap = FALSE,
                  !.patches = KeptPatches(@)]]
  /\ req' = Returned(0, w.patches)
  /\ UNCHANGED smb

(* GetNewBuffer() in the middle of a packet: it goes on in slot i.  Nested  *)
(* messages that are still open leave holes, which become patches.          *)
Mutant_ForgetPatchingFlag(holes) == {kLastPacketContinuesOnNextChunk}
FragmentFlags(holes) ==
  {kLastPacketContinuesOnNextChunk} \cup (IF holes > 0 THEN {kChunkNeedsPatching} ELSE {})

Mutant_LooksWhole == {}
ContinuationFlags == {kFirstPacketContinuesFromPrevChunk}

FragmentPacket(s, i, holes) ==
  LET w  == writer[s]
      c  == CurChunk(s)
      ps == w.patches \o [j \in 1 .. holes |->
              [seq |-> s, id |-> c.id, pos |-> Len(c.body), more |-> j < holes,
               done |-> FALSE]]
  IN
  /\ w.open /\ HasChunk(s) /\ IsFree(i)
  /\ w.next < MaxChunks
  /\ smb' = [Completed(w.slot, c.flags \cup FragmentFlags(holes),
                       WithLast(c.body, Finished(s, FALSE, holes)))
               EXCEPT ![i] = NewChunk(s, ContinuationFlags)]
  /\ writer' = [writer EXCEPT ![s] = [w EXCEPT
                  !.slot = i, !.next = @ + 1, !.part = @ + 1,
                  !.patches = KeptPatches(ps)]]
  /\ req' = Returned(w.slot, ps)

(* GetNewBuffer() in the middle of a packet without a free chunk: the       *)
(* packet is given up.                                                      *)
FragmentExhausted(s) ==
  LET w == writer[s] IN
  /\ w.open /\ HasChunk(s) /\ Exhausted /\ w.buffer_exhausted_policy = "kDrop"
  /\ smb' = Completed(w.slot, CurChunk(s).flags, DropLast(CurChunk(s).body))
  /\ writer' = [writer EXCEPT ![s] = [w EXCEPT
                  !.slot = 0, !.drop = TRUE, !.patches = KeptPatches(@)]]
  /\ req' = Returned(w.slot, w.patches)

(* The innermost open message of the packet is finalized: its size is known.*)
FinalizeNested(s) ==
  LET open == {j \in DOMAIN writer[s].patches : ~writer[s].patches[j].done} IN
  /\ writer[s].open /\ open # {}
  /\ writer' = [writer EXCEPT ![s].patches[Max(open)].done = TRUE]
  /\ UNCHANGED <<smb, req>>

AllDone(ps) == [j \in DOMAIN ps |-> [ps[j] EXCEPT !.done = TRUE]]

(* The packet ends in the current chunk, or in the garbage chunk.           *)
PacketEnds(s) ==
  /\ writer[s].open
  /\ smb' = IF HasChunk(s)
            THEN [smb EXCEPT ![writer[s].slot].body = WithLast(@, Finished(s, TRUE, 0))]
            ELSE smb

(* The packet's handle goes out of scope: the patches that are known now    *)
(* wait for the next packet or the next chunk that is returned.             *)
FinalizePacket(s) ==
  /\ PacketEnds(s)
  /\ writer' = [writer EXCEPT ![s].open = FALSE, ![s].patches = AllDone(@)]
  /\ UNCHANGED req

(* FinishTracePacket(), which sends them at once.                           *)
FinishTracePacket(s) ==
  /\ PacketEnds(s)
  /\ writer' = [writer EXCEPT ![s].open = FALSE, ![s].patches = <<>>]
  /\ req' = Returned(0, AllDone(writer[s].patches))

(* Flush() returns the current chunk, and patches with it; the request is   *)
(* sent by the task that it posts.                                          *)
Flush(s) ==
  LET w    == writer[s]
      sent == IF HasChunk(s) THEN w.patches ELSE <<>>
      kept == IF HasChunk(s) THEN KeptPatches(w.patches) ELSE w.patches
  IN
  /\ ~w.open
  /\ smb' = Completed(w.slot, CurChunk(s).flags, CurChunk(s).body)
  /\ writer' = [writer EXCEPT ![s] = [w EXCEPT !.slot = 0, !.room = FALSE, !.patches = kept]]
  /\ req' = Returned(w.slot, sent)

WriterStep(s) ==
  \/ NewTracePacket(s) \/ NewTracePacketExhausted(s) \/ NewTracePacketInGarbage(s)
  \/ \E i \in Slots : NewTracePacketInNewChunk(s, i)
  \/ \E i \in Slots, h \in 0 .. MaxHoles : FragmentPacket(s, i, h)
  \/ FragmentExhausted(s) \/ FinalizeNested(s)
  \/ FinalizePacket(s) \/ FinishTracePacket(s) \/ Flush(s)

=============================================================================
