---------------------------- MODULE MCTraceBuffer ----------------------------
(* TLC instances of TraceBuffer.                                            *)
EXTENDS TraceBuffer

Data == [label |-> "x", holes |-> 0, kind |-> "data"]
Body(kinds) == [i \in DOMAIN kinds |-> [Data EXCEPT !.kind = kinds[i]]]

Chunks(ids, sizes, fragments, flags, complete, kinds) ==
  {[seq |-> s, id |-> i, size |-> z, num_fragments |-> n, flags |-> f,
    complete |-> c, body |-> Body(b)] :
     s \in Sequences, i \in ids, z \in sizes, n \in fragments, f \in flags,
     c \in complete, b \in kinds}

(* Ids on both sides of the wrap-around.                                    *)
WrappingIDs == {0, 1, NumChunkIDs - 1}

(* For the ring: chunks of several sizes, one of them too large, scraped    *)
(* with one packet less than they have in the end.                          *)
RingInputs ==
  Chunks(WrappingIDs, {1, 2, 3}, {2}, {{}}, BOOLEAN, {<<"data", "data">>})
    \cup Chunks({0}, {Size + 1}, {1}, {{}}, {TRUE}, {<<"data">>})

(* For the discarding buffer: fewer sizes.                                  *)
DiscardInputs ==
  Chunks({0, 1}, {1, 2}, {2}, {{}}, BOOLEAN, {<<"data", "data">>})

(* For the reader: chunks of one size with whatever flags and contents a    *)
(* producer may send, more fragments announced than there are among them.   *)
ReaderInputs ==
  Chunks(ChunkIDs, {1}, {2}, {{}, {kLastPacketContinuesOnNextChunk}}, {TRUE},
         {<<"data", "data">>, <<"data">>})
    \cup
  Chunks(ChunkIDs, {1}, {1},
         {{kFirstPacketContinuesFromPrevChunk},
          {kFirstPacketContinuesFromPrevChunk, kLastPacketContinuesOnNextChunk}},
         {TRUE}, {<<"data">>, <<"empty">>, <<"drop">>})
=============================================================================
