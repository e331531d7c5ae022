----------------------------- MODULE TraceBuffer -----------------------------
(***************************************************************************)
(* The central buffer of the tracing service: a ring of records, an index  *)
(* of the chunks in it and a reader that glues fragments into packets.     *)
(*                                                                         *)
(* Source: src/src/tracing/core/trace_buffer.cc and trace_buffer.h.        *)
(*                                                                         *)
(* Offsets and sizes count units of sizeof(ChunkRecord) = 16 bytes, to     *)
(* which the code rounds every record.  Memory is modelled by the records  *)
(* that the chain of record sizes visits; the uids and pids that a chunk   *)
(* carries and the statistics other than abi_violations are left out.      *)
(***************************************************************************)
EXTENDS Integers, Sequences, FiniteSets, FiniteSetsExt, Functions

CONSTANTS
  Size,           \* size_, the limit of max_chunk_size_ that matters
  NumSeqs,        \* {ProducerID, WriterID} pairs
  NumChunkIDs,    \* kMaxChunkID + 1
  Policies,       \* the overwrite policies that a buffer may be created with
  MaxFragments,   \* bound on the fragments of a chunk
  Labels,         \* contents of packet fragments
  MaxHoles,       \* bound on the patches that a fragment awaits
  Inputs          \* the chunks that may be copied into the buffer

kFirstPacketContinuesFromPrevChunk == "kFirstPacketContinuesFromPrevChunk"
kLastPacketContinuesOnNextChunk    == "kLastPacketContinuesOnNextChunk"
kChunkNeedsPatching                == "kChunkNeedsPatching"
Flags == {kFirstPacketContinuesFromPrevChunk, kLastPacketContinuesOnNextChunk,
          kChunkNeedsPatching}

Sequences == 1 .. NumSeqs
ChunkIDs  == 0 .. NumChunkIDs - 1
Keys      == Sequences \X ChunkIDs
NoKey     == <<0, 0>>

(* A packet fragment as it lies in memory: its content, the size fields in  *)
(* it that are still to be patched, and what its own size field says: some  *)
(* data, no data, kPacketSizeDropPacket, or more than the chunk can hold.   *)
Fragment == [label : Labels, holes : 0 .. MaxHoles,
             kind : {"data", "empty", "drop", "invalid"}]

(* The arguments of CopyChunkUntrusted(); body is the payload.              *)
ChunkArg == [seq : Sequences, id : ChunkIDs, size : Nat \ {0},
             num_fragments : 0 .. MaxFragments, flags : SUBSET Flags,
             complete : BOOLEAN, body : Seq(Fragment)]

ASSUME BufferAssumption ==
  /\ Size \in Nat \ {0} /\ NumSeqs \in Nat \ {0}
  /\ NumChunkIDs \in Nat \ {0, 1} /\ MaxFragments \in Nat /\ MaxHoles \in Nat
  /\ Policies \subseteq {"kOverwrite", "kDiscard"}

ASSUME InputsAssumption == Inputs \subseteq ChunkArg

VARIABLES
  buf,       \* the records by offset, wptr_, index_ and overwrite_policy_
  last,      \* sequence -> last_chunk_id_written_
  discard,   \* discard_writes_
  pc,        \* the reader's position in the code, or "crashed"
  iter,      \* read_iter_: the current sequence and chunk id, or its end
  dropped,   \* previous_packet_dropped
  out,       \* the packet that ReadNextTracePacket() has just returned
  abi        \* abi_violations > 0

vars == <<buf, last, discard, pc, iter, dropped, out, abi>>

Record == [size : 1 .. Size, is_padding : BOOLEAN, key : Keys \cup {NoKey}]
ChunkMeta == [off : 0 .. Size - 1, num_fragments : 0 .. MaxFragments,
              flags : SUBSET Flags, complete : BOOLEAN, skipped : BOOLEAN,
              num_fragments_read : Nat, cur_fragment : Nat, body : Seq(Fragment)]

NoIter == [seq |-> 0, cur |-> 0, valid |-> FALSE]

TypeOK ==
  /\ DOMAIN buf = {"recs", "wptr", "index", "overwrite_policy"}
  /\ buf.overwrite_policy \in Policies
  /\ DOMAIN buf.recs \subseteq 0 .. Size - 1
  /\ \A o \in DOMAIN buf.recs : buf.recs[o] \in Record
  /\ buf.wptr \in 0 .. Size - 1
  /\ DOMAIN buf.index \subseteq Keys
  /\ \A k \in DOMAIN buf.index : buf.index[k] \in ChunkMeta
  /\ last \in [Sequences -> ChunkIDs]
  /\ discard \in BOOLEAN /\ dropped \in BOOLEAN /\ abi \in BOOLEAN
  /\ pc \in {"idle", "chunk", "fragments", "crashed"}
  /\ iter \in [seq : 0 .. NumSeqs, cur : ChunkIDs, valid : BOOLEAN]

Init ==
  /\ \E p \in Policies :
       buf = [recs |-> <<>>, wptr |-> 0, index |-> <<>>, overwrite_policy |-> p]
  /\ last = [s \in Sequences |-> 0]
  /\ discard = FALSE /\ dropped = TRUE /\ abi = FALSE
  /\ pc = "idle" /\ iter = NoIter /\ out = <<>>

-----------------------------------------------------------------------------
(* The ring.                                                                *)

With(f, x, v)  == [y \in DOMAIN f \cup {x} |-> IF y = x THEN v ELSE f[y]]
Without(f, S)  == Restrict(f, DOMAIN f \ S)

size_to_end(b) == Size - b.wptr

(* The records that a walk from wptr_ over the next n units meets, and the  *)
(* keys of the chunks among them.  An untouched area begins at wptr_.       *)
Met(b, n) == {o \in DOMAIN b.recs : b.wptr <= o /\ o < b.wptr + n}
MetKeys(b, n) == {b.recs[o].key : o \in {p \in Met(b, n) : ~b.recs[p].is_padding}}
Untouched(b) == b.wptr \notin DOMAIN b.recs

IsUnread(m) == m.num_fragments_read < m.num_fragments

(* DeleteNextChunksFor() returns -1: under kDiscard an unread chunk stays.  *)
Mutant_EvictUnread(b, n) == FALSE
Refused(b, n) ==
  /\ b.overwrite_policy = "kDiscard"
  /\ \E k \in MetKeys(b, n) : IsUnread(b.index[k])

DeleteNextChunksFor(b, n) ==
  [b EXCEPT !.recs  = Without(@, Met(b, n)),
            !.index = Without(@, MetKeys(b, n))]

(* The result of DeleteNextChunksFor(): what the last record met leaves     *)
(* over beyond the cleared area.                                            *)
Mutant_NoLeftover(b, n) == 0
Leftover(b, n) ==
  IF Untouched(b) THEN 0
  ELSE Max({o + b.recs[o].size : o \in Met(b, n)}) - (b.wptr + n)

AddPaddingRecord(b, n) ==
  [b EXCEPT !.recs = With(@, b.wptr, [size |-> n, is_padding |-> TRUE, key |-> NoKey])]

(* A record that does not fit before the end: pad and go back to the start. *)
WrapAround(b) ==
  LET n == size_to_end(b)
  IN  [AddPaddingRecord(DeleteNextChunksFor(b, n), n) EXCEPT !.wptr = 0]

NewMeta(b, c) ==
  [off |-> b.wptr, num_fragments |-> c.num_fragments, flags |-> c.flags,
   complete |-> c.complete, skipped |-> FALSE, num_fragments_read |-> 0,
   cur_fragment |-> 0, body |-> c.body]

KeyOf(c) == <<c.seq, c.id>>

(* Write the record and its index entry, advance wptr_ and pad what is left *)
(* of the last record that was overwritten.                                 *)
Mutant_WrapTooLate(b, c) ==
  LET left == Leftover(b, c.size)
      d    == DeleteNextChunksFor(b, c.size)
      w    == [d EXCEPT !.recs  = With(@, b.wptr, [size |-> c.size,
                                  is_padding |-> FALSE, key |-> KeyOf(c)]),
                        !.index = With(@, KeyOf(c), NewMeta(b, c)),
                        !.wptr  = IF @ + c.size > Size THEN 0 ELSE @ + c.size]
  IN  IF left = 0 THEN w ELSE AddPaddingRecord(w, left)
WriteChunkRecord(b, c) ==
  LET left == Leftover(b, c.size)
      d    == DeleteNextChunksFor(b, c.size)
      w    == [d EXCEPT !.recs  = With(@, b.wptr, [size |-> c.size,
                                  is_padding |-> FALSE, key |-> KeyOf(c)]),
                        !.index = With(@, KeyOf(c), NewMeta(b, c)),
                        !.wptr  = IF @ + c.size >= Size THEN 0 ELSE @ + c.size]
  IN  IF left = 0 THEN w ELSE AddPaddingRecord(w, left)

(* Of an incomplete chunk the last packet does not count.                   *)
Trimmed(c) ==
  IF c.complete \/ c.num_fragments = 0 THEN c
  ELSE [c EXCEPT !.num_fragments = @ - 1,
                 !.flags = @ \ {kLastPacketContinuesOnNextChunk, kChunkNeedsPatching}]

(* last_chunk_id_written_ only moves forward, by less than half of the id   *)
(* space.                                                                   *)
IsNewer(id, than) == (id - than) % NumChunkIDs < (NumChunkIDs - 1) \div 2

-----------------------------------------------------------------------------
(* CopyChunkUntrusted(): the chunk is too large, known already, or new.     *)

AbiViolation == abi' = TRUE /\ UNCHANGED <<buf, last, discard, pc>>

CopyTooLarge(c) ==
  /\ c.size > Size
  /\ AbiViolation

(* The chunk is in the buffer already, because it was scraped: override it  *)
(* where it is.                                                             *)
Mutant_RejectRecommit(c) ==
  buf.index[KeyOf(c)].num_fragments >= c.num_fragments
Mismatch(c) ==
  LET m == buf.index[KeyOf(c)] IN
  \/ buf.recs[m.off].key # KeyOf(c)
  \/ buf.recs[m.off].size # c.size
  \/ m.num_fragments > c.num_fragments
  \/ ~(m.flags \subseteq c.flags)

SubsequentKey(c) == <<c.seq, (c.id + 1) % NumChunkIDs>>
SubsequentStarted(c) ==
  /\ SubsequentKey(c) \in DOMAIN buf.index
  /\ buf.index[SubsequentKey(c)].num_fragments_read > 0

(* The reader goes on in an overridden chunk where it stopped.              *)
Mutant_ReadAgain(m, c) == NewMeta([wptr |-> m.off], c)
Overridden(m, c) ==
  [m EXCEPT !.num_fragments = c.num_fragments, !.flags = c.flags,
            !.complete = c.complete, !.body = c.body]

OverrideChunk(c) ==
  LET k == KeyOf(c)
      m == buf.index[k]
  IN
  /\ k \in DOMAIN buf.index
  /\ \/ Mismatch(c) /\ AbiViolation
     \/ /\ ~Mismatch(c)
        /\ m.num_fragments = c.num_fragments
        /\ UNCHANGED <<buf, last, discard, pc, abi>>
     \/ /\ ~Mismatch(c)
        /\ m.num_fragments # c.num_fragments
        /\ SubsequentStarted(c)
        /\ AbiViolation
     \/ /\ ~Mismatch(c)
        /\ m.num_fragments # c.num_fragments
        /\ ~SubsequentStarted(c)
        /\ \/ /\ m.num_fragments_read > m.num_fragments
              /\ UNCHANGED <<buf, pc>>
           \/ /\ m.num_fragments_read <= m.num_fragments
              /\ c.size > size_to_end(buf)     \* a PERFETTO_CHECK on wptr_
              /\ pc' = "crashed"
              /\ UNCHANGED buf
           \/ /\ m.num_fragments_read <= m.num_fragments
              /\ c.size <= size_to_end(buf)
              /\ buf' = [buf EXCEPT !.index[k] = Overridden(@, c)]
              /\ UNCHANGED pc
        /\ UNCHANGED <<last, discard, abi>>

(* A new chunk.                                                             *)
InsertChunk(c) ==
  LET wraps == c.size > size_to_end(buf)
      b     == IF wraps THEN WrapAround(buf) ELSE buf
  IN
  /\ KeyOf(c) \notin DOMAIN buf.index
  /\ \/ /\ discard
        /\ UNCHANGED <<buf, last, discard>>
     \/ /\ ~discard
        /\ wraps /\ Refused(buf, size_to_end(buf))
        /\ discard' = TRUE
        /\ UNCHANGED <<buf, last>>
     \/ /\ ~discard
        /\ ~(wraps /\ Refused(buf, size_to_end(buf)))
        /\ Refused(b, c.size)
        /\ discard' = TRUE
        /\ buf' = b
        /\ UNCHANGED last
     \/ /\ ~discard
        /\ ~(wraps /\ Refused(buf, size_to_end(buf)))
        /\ ~Refused(b, c.size)
        /\ buf' = WriteChunkRecord(b, c)
        /\ last' = IF IsNewer(c.id, last[c.seq])
                   THEN [last EXCEPT ![c.seq] = c.id] ELSE last
        /\ UNCHANGED discard
  /\ UNCHANGED <<pc, abi>>

CopyChunkUntrusted(c) ==
  /\ pc = "idle"
  /\ \/ CopyTooLarge(c)
     \/ c.size <= Size /\ OverrideChunk(Trimmed(c))
     \/ c.size <= Size /\ InsertChunk(Trimmed(c))
  /\ out' = <<>>
  /\ UNCHANGED <<iter, dropped>>

(* TryPatchChunkContents(): fill a hole of the i-th fragment; after the     *)
(* last patch the chunk can be read.                                        *)
CanPatch(k, i) == k \in DOMAIN buf.index /\ i <= Len(buf.index[k].body)

Mutant_StaysUnpatched(flags, other_patches_pending) == flags
PatchedFlags(flags, other_patches_pending) ==
  IF other_patches_pending THEN flags ELSE flags \ {kChunkNeedsPatching}

TryPatchChunkContents(k, i, other_patches_pending) ==
  /\ pc = "idle"
  /\ \/ /\ CanPatch(k, i)
        /\ LET m == buf.index[k]
               f == m.body[i]
               g == [f EXCEPT !.holes = IF @ > 0 THEN @ - 1 ELSE 0]
           IN  buf' = [buf EXCEPT
                 !.index[k].body = [@ EXCEPT ![i] = g],
                 !.index[k].flags = PatchedFlags(@, other_patches_pending)]
     \/ ~CanPatch(k, i) /\ UNCHANGED buf
  /\ out' = <<>>
  /\ UNCHANGED <<last, discard, pc, iter, dropped, abi>>

-----------------------------------------------------------------------------
(* Reading.  Nothing else happens between BeginRead() and the last          *)
(* ReadNextTracePacket(): both run on the service's thread.                 *)

IdsOf(s)   == {k[2] : k \in {j \in DOMAIN buf.index : j[1] = s}}
SeqsFrom(n) == {s \in {k[1] : k \in DOMAIN buf.index} : s >= n}

(* The sequence starts after the last id written and wraps around to it.    *)
GetReadIterForSequence(s) ==
  LET after == {i \in IdsOf(s) : i > last[s]}
  IN  [seq |-> s, valid |-> TRUE,
       cur |-> IF after # {} THEN Min(after) ELSE Min(IdsOf(s))]

(* Sequence s has a chunk after i that the reader may move on to.           *)
Mutant_MovePastWrappingId(s, i) ==
  /\ <<s, i>> \in DOMAIN buf.index
  /\ buf.index[<<s, i>>].complete
  /\ <<s, (i + 1) % NumChunkIDs>> \in DOMAIN buf.index
HasNext(s, i) ==
  /\ <<s, i>> \in DOMAIN buf.index
  /\ i # last[s]
  /\ buf.index[<<s, i>>].complete
  /\ <<s, (i + 1) % NumChunkIDs>> \in DOMAIN buf.index

MoveNext(it) ==
  IF it.valid /\ HasNext(it.seq, it.cur)
  THEN [it EXCEPT !.cur = (@ + 1) % NumChunkIDs]
  ELSE [it EXCEPT !.valid = FALSE]

(* The chunk the reader is at, and the one n chunks further on.             *)
AheadKey(n) == <<iter.seq, (iter.cur + n) % NumChunkIDs>>
Ahead(n)    == buf.index[AheadKey(n)]
Here        == Ahead(0)

(* ReadNextPacketInChunk().  Behind the last fragment of a chunk there are  *)
(* zeroes or what an earlier chunk has left there, which reads as an empty  *)
(* packet or as an invalid one.  An invalid packet, and one that its writer *)
(* dropped, makes the whole chunk count as read.                            *)
PastTheEnd == {"empty", "invalid"}

FragmentAt(m, past) == IF m.cur_fragment < Len(m.body)
                       THEN m.body[m.cur_fragment + 1] ELSE [kind |-> past]
KindAt(m, past)     == FragmentAt(m, past).kind
IsInvalid(m, past)  == KindAt(m, past) \in {"drop", "invalid"}

Mutant_StayAtFragment(m, past) ==
  IF IsInvalid(m, past)
  THEN [m EXCEPT !.cur_fragment = 0, !.num_fragments_read = m.num_fragments]
  ELSE [m EXCEPT !.num_fragments_read = @ + 1, !.skipped = FALSE]
AfterFragment(m, past) ==
  IF IsInvalid(m, past)
  THEN [m EXCEPT !.cur_fragment = 0, !.num_fragments_read = m.num_fragments]
  ELSE [m EXCEPT !.cur_fragment = @ + 1, !.num_fragments_read = @ + 1,
                 !.skipped = FALSE]

BeginRead ==
  /\ pc = "idle"
  /\ pc' = "chunk"
  /\ iter' = IF SeqsFrom(1) = {} THEN NoIter
             ELSE GetReadIterForSequence(Min(SeqsFrom(1)))
  /\ dropped' = TRUE
  /\ out' = <<>>
  /\ UNCHANGED <<buf, last, discard, abi>>

(* The end of a sequence: return false, or go to the next sequence.         *)
EndOfSequence ==
  /\ pc = "chunk" /\ ~iter.valid
  /\ \/ /\ SeqsFrom(iter.seq + 1) = {}
        /\ pc' = "idle"
        /\ iter' = NoIter
     \/ /\ SeqsFrom(iter.seq + 1) # {}
        /\ iter' = GetReadIterForSequence(Min(SeqsFrom(iter.seq + 1)))
        /\ UNCHANGED pc
  /\ dropped' = TRUE
  /\ out' = <<>>
  /\ UNCHANGED <<buf, last, discard, abi>>

(* Look at the next chunk: a chunk with holes ends the sequence.            *)
EnterChunk ==
  /\ pc = "chunk" /\ iter.valid
  /\ \/ /\ kChunkNeedsPatching \in Here.flags
        /\ iter' = [iter EXCEPT !.valid = FALSE]
        /\ UNCHANGED <<pc, dropped>>
     \/ /\ kChunkNeedsPatching \notin Here.flags
        /\ dropped' = IF Here.num_fragments_read > 0 THEN Here.skipped ELSE dropped
        /\ pc' = "fragments"
        /\ UNCHANGED iter
  /\ out' = <<>>
  /\ UNCHANGED <<buf, last, discard, abi>>

LeaveChunk ==
  /\ pc = "fragments" /\ ~IsUnread(Here)
  /\ iter' = MoveNext(iter)
  /\ pc' = "chunk"
  /\ out' = <<>>
  /\ UNCHANGED <<buf, last, discard, dropped, abi>>

(* Which of the three actions the next fragment calls for.                  *)
IsOrphan(m) == m.num_fragments_read = 0 /\ kFirstPacketContinuesFromPrevChunk \in m.flags
GoesOn(m)   == /\ m.num_fragments_read = m.num_fragments - 1
               /\ kLastPacketContinuesOnNextChunk \in m.flags

(* A packet has been read at chunk id: the caller asks for another one or   *)
(* has enough.                                                              *)
Returned(frags, id) ==
  /\ out' = <<[seq |-> iter.seq, frags |-> frags, dropped |-> dropped]>>
  /\ dropped' = TRUE
  /\ \/ pc' = "chunk" /\ iter' = [iter EXCEPT !.cur = id]
     \/ pc' = "idle" /\ iter' = NoIter

(* kSkip: the fragment's beginning has been missed; it is skipped for ever. *)
SkipFragment(past) ==
  /\ pc = "fragments" /\ IsUnread(Here) /\ IsOrphan(Here)
  /\ buf' = [buf EXCEPT !.index[AheadKey(0)] = [AfterFragment(@, past) EXCEPT !.skipped = TRUE]]
  /\ dropped' = TRUE
  /\ abi' = (abi \/ KindAt(Here, past) = "invalid")
  /\ out' = <<>>
  /\ UNCHANGED <<last, discard, pc, iter>>

(* kReadOnePacket: a packet within one chunk.                               *)
ReadOnePacket(past) ==
  /\ pc = "fragments" /\ IsUnread(Here) /\ ~IsOrphan(Here) /\ ~GoesOn(Here)
  /\ \/ /\ KindAt(Here, past) = "data"
        /\ buf' = [buf EXCEPT !.index[AheadKey(0)] = AfterFragment(@, past)]
        /\ Returned(<<FragmentAt(Here, past)>>, iter.cur)
        /\ UNCHANGED abi
     \/ /\ KindAt(Here, past) = "empty"
        /\ buf' = [buf EXCEPT !.index[AheadKey(0)] = AfterFragment(@, past)]
        /\ out' = <<>>
        /\ UNCHANGED <<pc, iter, dropped, abi>>
     \/ /\ IsInvalid(Here, past)
        /\ buf' = [buf EXCEPT !.index[AheadKey(0)] = [AfterFragment(@, past) EXCEPT !.skipped = TRUE]]
        /\ dropped' = TRUE
        /\ iter' = MoveNext(iter)
        /\ pc' = "chunk"
        /\ abi' = (abi \/ KindAt(Here, past) = "invalid")
        /\ out' = <<>>
  /\ UNCHANGED <<last, discard>>

(* kTryReadAhead: look for the rest of the packet in the chunks that        *)
(* follow.  PassedOver are empty chunks and those in the middle of it.      *)
PassedOver(m) ==
  \/ m.num_fragments = 0
  \/ /\ kFirstPacketContinuesFromPrevChunk \in m.flags
     /\ kChunkNeedsPatching \notin m.flags
     /\ m.num_fragments = 1
     /\ kLastPacketContinuesOnNextChunk \in m.flags

EndsAt(n) ==
  /\ \A j \in 0 .. n - 1 : HasNext(iter.seq, AheadKey(j)[2])
  /\ \A j \in 1 .. n - 1 : PassedOver(Ahead(j))
  /\ ~PassedOver(Ahead(n))
  /\ kFirstPacketContinuesFromPrevChunk \in Ahead(n).flags
  /\ kChunkNeedsPatching \notin Ahead(n).flags

CanReadAhead == \E n \in 1 .. NumChunkIDs - 1 : EndsAt(n)

ReadAheadFails ==
  /\ pc = "fragments" /\ IsUnread(Here) /\ ~IsOrphan(Here) /\ GoesOn(Here)
  /\ ~CanReadAhead
  /\ iter' = [iter EXCEPT !.valid = FALSE]
  /\ pc' = "chunk"
  /\ out' = <<>>
  /\ UNCHANGED <<buf, last, discard, dropped, abi>>

(* All fragments are there: mark them read and return them, unless one of   *)
(* them is invalid.                                                         *)
ReadAhead(n, past) ==
  LET js    == {j \in 0 .. n : Ahead(j).num_fragments > 0}
      keys  == {AheadKey(j) : j \in js}
      bad   == \E j \in js : IsInvalid(Ahead(j), past)
      read  == [k \in DOMAIN buf.index |->
                  IF k \in keys THEN AfterFragment(buf.index[k], past) ELSE buf.index[k]]
      found == [i \in 1 .. n + 1 |->
                  IF i - 1 \in js THEN FragmentAt(Ahead(i - 1), past)
                  ELSE [kind |-> "empty"]]
  IN
  /\ pc = "fragments" /\ IsUnread(Here) /\ ~IsOrphan(Here) /\ GoesOn(Here)
  /\ EndsAt(n)
  /\ \/ /\ ~bad
        /\ buf' = [buf EXCEPT !.index = read]
        /\ Returned(SelectSeq(found, LAMBDA f : f.kind = "data"), AheadKey(n)[2])
        /\ UNCHANGED abi
     \/ /\ bad
        /\ buf' = [buf EXCEPT !.index = [read EXCEPT ![AheadKey(n)].skipped = TRUE]]
        /\ iter' = [iter EXCEPT !.cur = AheadKey(n)[2]]
        /\ dropped' = TRUE
        /\ abi' = (abi \/ \E j \in js : KindAt(Ahead(j), past) = "invalid")
        /\ out' = <<>>
        /\ UNCHANGED pc
  /\ UNCHANGED <<last, discard>>

ReadStep ==
  \/ EndOfSequence \/ EnterChunk \/ LeaveChunk \/ ReadAheadFails
  \/ \E past \in PastTheEnd :
       \/ SkipFragment(past) \/ ReadOnePacket(past)
       \/ \E n \in 1 .. NumChunkIDs - 1 : ReadAhead(n, past)

Next ==
  \/ \E c \in Inputs : CopyChunkUntrusted(c)
  \/ \E k \in Keys, i \in 1 .. MaxFragments, more \in BOOLEAN :
       TryPatchChunkContents(k, i, more)
  \/ BeginRead
  \/ ReadStep

Spec == Init /\ [][Next]_vars

(* The service's thread keeps running while it reads.                       *)
FairSpec == Spec /\ WF_vars(ReadStep)

-----------------------------------------------------------------------------
Ends(b, o) == o + b.recs[o].size

(* How far the ring has been written: all of it once it wrapped.            *)
Frontier(b) == IF Untouched(b) THEN b.wptr ELSE Size

(* The ring is self-describing: from its beginning, each record ends where  *)
(* the next one begins, up to the write pointer or to the end, and there is *)
(* a record at the write pointer unless everything behind it is untouched.  *)
RecordsTile(b) ==
  /\ Frontier(b) > 0 => 0 \in DOMAIN b.recs
  /\ \A o \in DOMAIN b.recs :
       /\ Ends(b, o) <= Frontier(b)
       /\ Ends(b, o) < Frontier(b) => Ends(b, o) \in DOMAIN b.recs
       /\ \A p \in DOMAIN b.recs : p < o => Ends(b, p) <= o
  /\ b.wptr # 0 => \E o \in DOMAIN b.recs : Ends(b, o) = b.wptr

(* Every index entry points at the record of its own chunk, and every chunk *)
(* record has an index entry: nothing stale can be read or patched, and     *)
(* nothing in the ring is lost to the reader.                               *)
IndexMatches(b) ==
  /\ \A k \in DOMAIN b.index :
       /\ b.index[k].off \in DOMAIN b.recs
       /\ ~b.recs[b.index[k].off].is_padding
       /\ b.recs[b.index[k].off].key = k
  /\ \A o \in DOMAIN b.recs : ~b.recs[o].is_padding =>
       /\ b.recs[o].key \in DOMAIN b.index
       /\ b.index[b.recs[o].key].off = o

BufferIntact == RecordsTile(buf) /\ IndexMatches(buf)

(* Under kDiscard an unread chunk stays until it has been read, and once a  *)
(* chunk had to be discarded nothing enters or leaves the buffer any more.  *)
DiscardKeepsUnread ==
  [][buf.overwrite_policy = "kDiscard" =>
       /\ \A k \in DOMAIN buf.index :
            IsUnread(buf.index[k]) => k \in DOMAIN buf'.index
       /\ discard => discard' /\ DOMAIN buf'.index = DOMAIN buf.index]_vars

(* Reading comes to an end, whatever flags, ids and counts a producer chose *)
(* for its chunks: the reader does not go round in circles in a sequence    *)
(* whose ids have wrapped.                                                  *)
ReadsReturn == pc \in {"chunk", "fragments"} ~> pc = "idle"

=============================================================================
