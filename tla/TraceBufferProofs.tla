-------------------------- MODULE TraceBufferProofs --------------------------
(***************************************************************************)
(* Proofs about the trace buffer, for any size of the ring, any records    *)
(* and any chunks: the ring stays self-describing and its index matches    *)
(* it (THEOREM BufferIntactHolds), the reader is always at a chunk that is *)
(* there (in BufferInv), and a discarding buffer keeps what has not been   *)
(* read (THEOREM DiscardKeepsUnreadHolds).                                 *)
(***************************************************************************)
EXTENDS TraceBuffer, WellFoundedInduction, TLAPS

(* The records cover the written part of the ring and do not overlap, and  *)
(* the write pointer is not within one of them.  Unlike RecordsTile, which *)
(* follows a chain of records, this says where each unit belongs.          *)
Inside(D, e, f) == D \subseteq Nat /\ \A o \in D : e[o] \in Nat /\ o < e[o] /\ e[o] <= f
Separate(D, e) == \A o, p \in D : p < o => e[p] <= o
Covered(D, e, f) == \A x \in 0 .. f - 1 : \E o \in D : o <= x /\ x < e[o]
Aligned(D, e, w) == \A o \in D : o < w => e[o] <= w
Layout(D, e, w) ==
  LET f == IF w \in D THEN Size ELSE w
  IN Inside(D, e, f) /\ Separate(D, e) /\ Covered(D, e, f) /\ Aligned(D, e, w)

EndOf(b) == [o \in DOMAIN b.recs |-> Ends(b, o)]
Tiles(b) == Layout(DOMAIN b.recs, EndOf(b), b.wptr)

(* What TypeOK says of buf.                                                *)
BufferType(b) ==
  /\ DOMAIN b = {"recs", "wptr", "index", "overwrite_policy"}
  /\ b.overwrite_policy \in Policies
  /\ DOMAIN b.recs \subseteq 0 .. Size - 1
  /\ \A o \in DOMAIN b.recs : b.recs[o] \in Record
  /\ b.wptr \in 0 .. Size - 1
  /\ DOMAIN b.index \subseteq Keys
  /\ \A k \in DOMAIN b.index : b.index[k] \in ChunkMeta
Intact(b) == BufferType(b) /\ Tiles(b) /\ IndexMatches(b)

(* While it reads, the reader is at a chunk that is in the buffer, or at   *)
(* the end of a sequence.                                                  *)
ReaderInPlace ==
  /\ pc = "fragments" => iter.valid
  /\ iter.valid => pc \in {"chunk", "fragments"} /\ <<iter.seq, iter.cur>> \in DOMAIN buf.index

(* What TypeOK says of the other variables.                                *)
OthersType ==
  /\ last \in [Sequences -> ChunkIDs]
  /\ discard \in BOOLEAN /\ dropped \in BOOLEAN /\ abi \in BOOLEAN
  /\ pc \in {"idle", "chunk", "fragments", "crashed"}
  /\ iter \in [seq : 0 .. NumSeqs, cur : ChunkIDs, valid : BOOLEAN]

(* The inductive invariant.                                                *)
BufferInv == Intact(buf) /\ OthersType /\ ReaderInPlace

(***************************************************************************)
(* The ring                                                                *)
(***************************************************************************)
(* Clearing n units from the write pointer w removes the records M that    *)
(* begin there.  The last of them ends at w + n + left; no other record is *)
(* in that area, and what was written outside of it is still covered.      *)
Gap(D, e, w, n, left) ==
  LET M == {o \in D : w <= o /\ o < w + n}
      f == IF w \in D THEN Size ELSE w
  IN /\ left \in Nat /\ w + n + left <= Size
     /\ \A p \in D \ M : e[p] <= w \/ p >= w + n + left
     /\ \A x \in 0 .. f - 1 : x < w \/ x >= w + n + left
          => \E o \in D \ M : o <= x /\ x < e[o]

LEMMA GapBehindUntouched ==
  ASSUME NEW D, NEW e, NEW w \in Nat, NEW n \in Nat, Layout(D, e, w), w \notin D,
         w + n <= Size
  PROVE  /\ {o \in D : w <= o /\ o < w + n} = {}
         /\ Gap(D, e, w, n, 0)
<1>1. /\ \A o \in D : o \in Nat /\ e[o] \in Nat /\ o < e[o] /\ e[o] <= w
      /\ Covered(D, e, w)
  BY DEF Layout, Inside
<1>2. {o \in D : w <= o /\ o < w + n} = {}
  BY <1>1
<1>3. \A x \in 0 .. w - 1 : \E o \in D : o <= x /\ x < e[o]
  BY <1>1 DEF Covered
<1> QED BY <1>1, <1>2, <1>3, BufferAssumption DEF Gap

LEMMA LastMet ==
  ASSUME NEW D, NEW e, NEW w \in Nat, NEW n \in Nat \ {0}, Layout(D, e, w), w \in D,
         w + n <= Size
  PROVE  \E o \in D : /\ w <= o /\ o < w + n /\ w + n <= e[o]
                      /\ \A p \in D : w <= p /\ p < w + n => e[p] <= e[o]
                      /\ \A p \in D : p >= w + n => e[o] <= p
<1>0. Size \in Nat
  BY BufferAssumption
<1>1. /\ \A o \in D : o \in Nat /\ e[o] \in Nat /\ o < e[o] /\ e[o] <= Size
      /\ Covered(D, e, Size) /\ Separate(D, e) /\ Aligned(D, e, w)
  BY DEF Layout, Inside
<1>2. w + n - 1 \in 0 .. Size - 1
  BY <1>0
<1>3. PICK o \in D : o <= w + n - 1 /\ w + n - 1 < e[o]
  BY <1>1, <1>2 DEF Covered
<1>4. o \in Nat /\ e[o] \in Nat
  BY <1>1
<1>5. w <= o
  <2>1. o < w => e[o] <= w
    BY <1>1 DEF Aligned
  <2> QED BY <1>3, <1>4, <2>1
<1>6. ASSUME NEW p \in D, w <= p, p < w + n PROVE e[p] <= e[o]
  <2>1. p \in Nat /\ e[p] \in Nat /\ (p < o => e[p] <= o) /\ (o < p => e[o] <= p)
    BY <1>1 DEF Separate
  <2> QED BY <1>1, <1>3, <1>4, <1>6, <2>1
<1>7. ASSUME NEW p \in D, p >= w + n PROVE e[o] <= p
  <2>1. p \in Nat /\ (o < p => e[o] <= p)
    BY <1>1 DEF Separate
  <2> QED BY <1>3, <1>4, <1>7, <2>1
<1> QED BY <1>3, <1>4, <1>5, <1>6, <1>7

LEMMA GapBehindRecord ==
  ASSUME NEW D, NEW e, NEW w \in Nat, NEW n \in Nat, Layout(D, e, w), w \in D,
         NEW o \in D, w <= o, o < w + n, w + n <= e[o], w + n <= Size,
         \A p \in D : w <= p /\ p < w + n => e[p] <= e[o],
         \A p \in D : p >= w + n => e[o] <= p
  PROVE  Gap(D, e, w, n, e[o] - (w + n))
<1> DEFINE M == {p \in D : w <= p /\ p < w + n}
           E == e[o]
<1>0. Size \in Nat
  BY BufferAssumption
<1>1. /\ \A p \in D : p \in Nat /\ e[p] \in Nat /\ p < e[p] /\ e[p] <= Size
      /\ Covered(D, e, Size) /\ Aligned(D, e, w)
  BY DEF Layout, Inside
<1>2. E \in Nat /\ E <= Size /\ w + n <= E
  BY <1>1
<1>3. ASSUME NEW p \in D \ M PROVE e[p] <= w \/ p >= E
  <2>1. p \in D /\ p \in Nat /\ (p < w \/ p >= w + n)
    BY <1>1
  <2> QED BY <2>1, <1>1 DEF Aligned
<1>4. ASSUME NEW x \in 0 .. Size - 1, x < w \/ x >= E
      PROVE  \E p \in D \ M : p <= x /\ x < e[p]
  <2>1. PICK p \in D : p <= x /\ x < e[p]
    BY <1>1 DEF Covered
  <2>2. p \in Nat /\ e[p] \in Nat /\ (p \in M => w <= p /\ e[p] <= E)
    BY <1>1
  <2>3. p \notin M
    BY <2>1, <2>2, <1>2, <1>4
  <2> QED BY <2>1, <2>3
<1>5. E - (w + n) \in Nat /\ w + n + (E - (w + n)) = E
  BY <1>2
<1> HIDE DEF E
<1>6. Gap(D, e, w, n, E - (w + n))
  BY <1>2, <1>3, <1>4, <1>5 DEF Gap
<1> QED BY <1>6 DEF E

(* The new record takes the cleared area, and padding what is left over.   *)
Placed(D, w, n, left) ==
  (D \ {o \in D : w <= o /\ o < w + n}) \cup {w}
    \cup IF left = 0 THEN {} ELSE {w + n}
Advance(w, n) == IF w + n >= Size THEN 0 ELSE w + n

LEMMA GapFilled ==
  ASSUME NEW D, NEW e, NEW w \in 0 .. Size - 1, NEW n \in Nat \ {0}, Layout(D, e, w),
         w + n <= Size, NEW left, Gap(D, e, w, n, left),
         w \notin D => left = 0,
         NEW g, g[w] = w + n, left # 0 => g[w + n] = w + n + left,
         \A o \in D : (o < w \/ o >= w + n + left) => g[o] = e[o]
  PROVE  /\ Layout(Placed(D, w, n, left), g, Advance(w, n))
         /\ left # 0 => w + n < Size /\ w + n \notin D \ {o \in D : w <= o /\ o < w + n}
<1> DEFINE M == {o \in D : w <= o /\ o < w + n}
           E == w + n + left
           P == Placed(D, w, n, left)
           v == Advance(w, n)
           f == IF w \in D THEN Size ELSE w
           h == IF v \in P THEN Size ELSE v
<1>0. Size \in Nat /\ w \in Nat
  BY BufferAssumption
<1>1. /\ \A o \in D : o \in Nat /\ e[o] \in Nat /\ o < e[o] /\ e[o] <= f
      /\ Covered(D, e, f) /\ Separate(D, e) /\ Aligned(D, e, w)
  BY DEF Layout, Inside
<1>2. /\ left \in Nat /\ E \in Nat /\ E <= Size
      /\ \A p \in D \ M : e[p] <= w \/ p >= E
      /\ \A x \in 0 .. f - 1 : x < w \/ x >= E => \E o \in D \ M : o <= x /\ x < e[o]
  BY <1>0 DEF Gap
<1>3. f \in Nat /\ f <= Size /\ (w \notin D => E = w + n)
  BY <1>0
<1>4. ASSUME NEW p \in D \ M PROVE g[p] = e[p] /\ (g[p] <= w \/ p >= E) /\ p # w
  <2>1. e[p] <= w \/ p >= E
    BY <1>2
  <2>2. p \in Nat /\ e[p] \in Nat /\ p < e[p] /\ p \in D
    BY <1>1
  <2>3. p < w \/ p >= E
    BY <2>1, <2>2, <1>0
  <2> QED BY <2>1, <2>2, <2>3, <1>0, <1>2
<1>5. \A p \in P : p \in D \ M \/ p = w \/ (left # 0 /\ p = w + n)
  BY DEF Placed
<1>6. /\ w \in P /\ \A p \in D \ M : p \in P
      /\ left # 0 => w + n \in P
  BY DEF Placed
<1>7. left # 0 => w + n < Size /\ w + n \notin D \ M
  <2>1. left # 0 => w + n < E
    BY <1>0, <1>2
  <2>2. ASSUME w + n \in D \ M, w + n < E PROVE FALSE
    BY <2>2, <1>0, <1>1, <1>2
  <2> QED BY <2>1, <2>2, <1>0, <1>2
<1> HIDE DEF M, E, P, f
<1>8. v = IF w + n >= Size THEN 0 ELSE w + n
  BY DEF Advance
<1>9. v \in P \/ (w \notin D /\ w + n < Size)
  <2>1. CASE w + n >= Size /\ w = 0
    BY <2>1, <1>6, <1>8
  <2>2. CASE w + n >= Size /\ w # 0
    <3>1. 0 \in 0 .. f - 1 /\ 0 < w
      BY <2>2, <1>0 DEF f
    <3>2. PICK o \in D \ M : o <= 0 /\ 0 < e[o]
      BY <3>1, <1>2
    <3>3. o = 0
      BY <3>2, <1>1 DEF M
    <3> QED BY <2>2, <3>3, <1>6, <1>8
  <2>3. CASE w + n < Size /\ w \in D /\ left # 0
    BY <2>3, <1>0, <1>6, <1>8
  <2>4. CASE w + n < Size /\ w \in D /\ left = 0
    <3>1. E = w + n /\ E \in 0 .. f - 1 /\ v = E
      BY <2>4, <1>0, <1>8 DEF E, f
    <3>2. PICK o \in D \ M : o <= E /\ E < e[o]
      BY <3>1, <1>2
    <3>3. o \in Nat /\ e[o] \in Nat /\ (e[o] <= w \/ o >= E)
      BY <1>1, <1>2 DEF M
    <3>4. o = E
      BY <3>1, <3>2, <3>3, <1>0, <1>2
    <3> QED BY <3>1, <3>4, <1>6
  <2> QED BY <2>1, <2>2, <2>3, <2>4, <1>0
<1>10. v = w + n => v \notin P \/ w \in D
  <2>1. SUFFICES ASSUME v = w + n, v \in P, w \notin D PROVE FALSE
    OBVIOUS
  <2>2. v \in D \ M
    BY <2>1, <1>0, <1>5
  <2>3. e[v] <= w /\ v < e[v] /\ v \in Nat /\ e[v] \in Nat
    BY <2>1, <2>2, <1>1 DEF M, f
  <2> QED BY <2>1, <2>3, <1>0
<1>11. h = IF w \in D THEN Size ELSE w + n
  <2>1. CASE w \in D
    BY <2>1, <1>9
  <2>2. CASE w \notin D /\ w + n < Size
    BY <2>2, <1>0, <1>8, <1>10
  <2>3. CASE w \notin D /\ w + n = Size
    BY <2>3, <1>0, <1>9
  <2> QED BY <2>1, <2>2, <2>3, <1>0
<1> HIDE DEF h
<1>12. h \in Nat /\ h <= Size /\ E <= h /\ f <= h
  BY <1>0, <1>2, <1>3, <1>11 DEF f, E
<1>13. Inside(P, g, h)
  <2>1. ASSUME NEW p \in P PROVE p \in Nat /\ g[p] \in Nat /\ p < g[p] /\ g[p] <= h
    <3>1. CASE p \in D \ M
      <4>1. p \in Nat /\ e[p] \in Nat /\ p < e[p] /\ e[p] <= f /\ g[p] = e[p]
        BY <3>1, <1>1, <1>4 DEF M
      <4> QED BY <4>1, <1>3, <1>12
    <3>2. CASE p = w
      BY <3>2, <1>0, <1>2, <1>12 DEF E
    <3>3. CASE left # 0 /\ p = w + n
      BY <3>3, <1>0, <1>2, <1>12 DEF E
    <3> QED BY <3>1, <3>2, <3>3, <1>5
  <2> QED BY <2>1 DEF Inside
<1>14. Separate(P, g)
  <2>1. SUFFICES ASSUME NEW o \in P, NEW p \in P, p < o PROVE g[p] <= o
    BY DEF Separate
  <2>2. o \in Nat /\ p \in Nat /\ g[o] \in Nat /\ g[p] \in Nat /\ o < g[o] /\ p < g[p]
    BY <1>13 DEF Inside
  <2>3. CASE o \in D \ M /\ p \in D \ M
    BY <2>1, <2>3, <1>1, <1>4 DEF Separate, M
  <2>4. CASE o \in D \ M /\ (p = w \/ (left # 0 /\ p = w + n))
    <3>1. g[o] <= w \/ o >= E
      BY <2>4, <1>4
    <3>2. g[p] <= E
      BY <2>4, <1>0, <1>2 DEF E
    <3> QED BY <2>1, <2>2, <2>4, <3>1, <3>2, <1>0, <1>2
  <2>5. CASE (o = w \/ (left # 0 /\ o = w + n)) /\ p \in D \ M
    <3>1. g[p] <= w \/ p >= E
      BY <2>5, <1>4
    <3>2. w <= o /\ o < E
      BY <2>5, <1>0, <1>2 DEF E
    <3> QED BY <2>1, <2>2, <3>1, <3>2, <1>0, <1>2
  <2>6. CASE p = w /\ left # 0 /\ o = w + n
    BY <2>6, <1>0
  <2> QED BY <2>1, <2>2, <2>3, <2>4, <2>5, <2>6, <1>0, <1>5
<1>15. Covered(P, g, h)
  <2>1. SUFFICES ASSUME NEW x \in 0 .. h - 1 PROVE \E o \in P : o <= x /\ x < g[o]
    BY DEF Covered
  <2>2. CASE w <= x /\ x < w + n
    BY <2>2, <1>0, <1>6
  <2>3. CASE w + n <= x /\ x < E
    <3>1. left # 0
      BY <2>3, <1>0, <1>2 DEF E
    <3> QED BY <2>3, <3>1, <1>0, <1>6 DEF E
  <2>4. CASE x < w \/ x >= E
    <3>1. x \in 0 .. f - 1
      BY <2>4, <1>0, <1>3, <1>11 DEF f
    <3>2. PICK o \in D \ M : o <= x /\ x < e[o]
      BY <3>1, <2>4, <1>2
    <3>3. o \in P /\ g[o] = e[o]
      BY <1>4, <1>6
    <3> QED BY <3>2, <3>3
  <2> QED BY <2>2, <2>3, <2>4, <1>0, <1>2
<1>16. Aligned(P, g, v)
  <2>1. SUFFICES ASSUME NEW o \in P, o < v PROVE g[o] <= v
    BY DEF Aligned
  <2>2. o \in Nat /\ g[o] \in Nat /\ o < g[o]
    BY <1>13 DEF Inside
  <2>3. v = w + n
    BY <2>1, <2>2, <1>0, <1>8
  <2>4. CASE o \in D \ M
    <3>1. g[o] <= w \/ o >= E
      BY <2>4, <1>4
    <3>2. w + n <= E
      BY <1>0, <1>2 DEF E
    <3> QED BY <3>1, <3>2, <2>1, <2>2, <2>3, <1>0, <1>2
  <2>5. CASE o = w
    BY <2>5, <2>3, <1>0
  <2> QED BY <2>1, <2>3, <2>4, <2>5, <1>0, <1>5
<1>17. Layout(P, g, v)
  BY <1>13, <1>14, <1>15, <1>16 DEF Layout, h
<1> QED BY <1>7, <1>17 DEF M, P

(* The records of an intact buffer as numbers.                             *)
LEMMA Offsets ==
  ASSUME NEW b, BufferType(b)
  PROVE  /\ Size \in Nat /\ b.wptr \in Nat /\ b.wptr < Size
         /\ \A o \in DOMAIN b.recs :
              /\ o \in Nat /\ o < Size /\ b.recs[o].size \in 1 .. Size
              /\ b.recs[o].is_padding \in BOOLEAN
              /\ Ends(b, o) = o + b.recs[o].size /\ EndOf(b)[o] = Ends(b, o)
              /\ Ends(b, o) \in Nat
<1>1. Size \in Nat /\ b.wptr \in Nat /\ b.wptr < Size
  BY BufferAssumption DEF BufferType
<1>2. ASSUME NEW o \in DOMAIN b.recs
      PROVE  /\ o \in Nat /\ o < Size /\ b.recs[o].size \in 1 .. Size
             /\ b.recs[o].is_padding \in BOOLEAN
  <2>1. o \in 0 .. Size - 1 /\ b.recs[o] \in Record
    BY DEF BufferType
  <2>2. b.recs[o].size \in 1 .. Size /\ b.recs[o].is_padding \in BOOLEAN
    BY <2>1 DEF Record
  <2> QED BY <1>1, <2>1, <2>2
<1>3. \A o \in DOMAIN b.recs : Ends(b, o) = o + b.recs[o].size /\ EndOf(b)[o] = Ends(b, o)
  BY DEF Ends, EndOf
<1>4. \A o \in DOMAIN b.recs : Ends(b, o) \in Nat
  BY <1>1, <1>2, <1>3
<1> QED BY <1>1, <1>2, <1>3, <1>4

(* A layout without overlaps and holes is a chain of records.              *)
LEMMA TilesDescribe ==
  ASSUME NEW b, BufferType(b), Tiles(b)
  PROVE  RecordsTile(b)
<1> DEFINE D == DOMAIN b.recs
           e == EndOf(b)
           w == b.wptr
           f == IF w \in D THEN Size ELSE w
<1>1. /\ Size \in Nat /\ w \in Nat /\ w < Size
      /\ \A o \in D : o \in Nat /\ Ends(b, o) = e[o] /\ e[o] \in Nat
  BY Offsets
<1>2. f = Frontier(b) /\ f \in Nat
  BY <1>1 DEF Frontier, Untouched
<1>3. Inside(D, e, f) /\ Separate(D, e) /\ Covered(D, e, f) /\ Aligned(D, e, w)
  BY DEF Tiles, Layout
<1> HIDE DEF D, e, f
<1>4. f > 0 => 0 \in D
  <2>1. SUFFICES ASSUME f > 0 PROVE 0 \in D
    OBVIOUS
  <2>2. 0 \in 0 .. f - 1
    BY <2>1, <1>2
  <2>3. PICK o \in D : o <= 0
    BY <2>2, <1>3 DEF Covered
  <2> QED BY <2>3, <1>1
<1>5. ASSUME NEW o \in D, e[o] < f PROVE e[o] \in D
  <2>1. e[o] \in 0 .. f - 1
    BY <1>1, <1>2, <1>5
  <2>2. PICK q \in D : q <= e[o] /\ e[o] < e[q]
    BY <2>1, <1>3 DEF Covered
  <2>3. o < e[o] /\ (q < o => e[q] <= o) /\ (o < q => e[o] <= q)
    BY <1>3 DEF Inside, Separate
  <2>4. o \in Nat /\ q \in Nat /\ e[o] \in Nat /\ e[q] \in Nat
    BY <1>1
  <2>5. q = e[o]
    BY <2>2, <2>3, <2>4
  <2> QED BY <2>5
<1>6. w # 0 => \E o \in D : e[o] = w
  <2>1. SUFFICES ASSUME w # 0 PROVE \E o \in D : e[o] = w
    OBVIOUS
  <2>2. w - 1 \in 0 .. f - 1
    BY <2>1, <1>1 DEF f
  <2>3. PICK o \in D : o <= w - 1 /\ w - 1 < e[o]
    BY <2>2, <1>3 DEF Covered
  <2>4. o < w => e[o] <= w
    BY <1>3 DEF Aligned
  <2>5. e[o] = w
    BY <2>3, <2>4, <1>1
  <2> QED BY <2>5
<1>7. \A o \in D : Ends(b, o) <= f /\ \A p \in D : p < o => Ends(b, p) <= o
  BY <1>1, <1>3 DEF Inside, Separate
<1> QED BY <1>1, <1>2, <1>4, <1>5, <1>6, <1>7 DEF RecordsTile, D

(* What DeleteNextChunksFor() returns is what the last record leaves over. *)
LEMMA LeftoverFacts ==
  ASSUME NEW b, BufferType(b), Tiles(b), NEW n \in Nat \ {0}, b.wptr + n <= Size
  PROVE  /\ Gap(DOMAIN b.recs, EndOf(b), b.wptr, n, Leftover(b, n))
         /\ Untouched(b) => Leftover(b, n) = 0
<1> DEFINE D == DOMAIN b.recs
           e == EndOf(b)
           w == b.wptr
<1>1. /\ Size \in Nat /\ w \in Nat /\ Layout(D, e, w)
      /\ \A o \in D : o \in Nat /\ o + b.recs[o].size = e[o] /\ e[o] \in Nat
  BY Offsets DEF Tiles
<1>2. CASE Untouched(b)
  <2>1. Leftover(b, n) = 0 /\ w \notin D
    BY <1>2 DEF Leftover, Untouched
  <2> QED BY <2>1, <1>1, GapBehindUntouched
<1>3. CASE ~Untouched(b)
  <2>1. w \in D
    BY <1>3 DEF Untouched
  <2>2. PICK o \in D : /\ w <= o /\ o < w + n /\ w + n <= e[o]
                       /\ \A p \in D : w <= p /\ p < w + n => e[p] <= e[o]
                       /\ \A p \in D : p >= w + n => e[o] <= p
    BY <2>1, <1>1, LastMet
  <2>3. Gap(D, e, w, n, e[o] - (w + n))
    BY <2>1, <2>2, <1>1, GapBehindRecord
  <2> DEFINE S == {p + b.recs[p].size : p \in Met(b, n)}
  <2>4. e[o] \in S /\ \A x \in S : x \in Nat /\ e[o] >= x
    BY <2>2, <1>1 DEF Met
  <2> HIDE DEF S
  <2>5. Max(S) = e[o]
    <3>1. Max(S) \in S /\ \A x \in S : Max(S) >= x
      BY <2>4 DEF Max
    <3> QED BY <3>1, <2>4, <1>1
  <2>6. Leftover(b, n) = e[o] - (w + n)
    BY <2>5, <1>3 DEF Leftover, S
  <2> QED BY <2>3, <2>6, <1>3
<1> QED BY <1>2, <1>3

(* The buffer r is b with a record of n units written at the write pointer *)
(* and padding behind it.                                                  *)
Padding(n) == [size |-> n, is_padding |-> TRUE, key |-> NoKey]
Overwrites(b, r, n, left, rec) ==
  /\ DOMAIN r.recs = Placed(DOMAIN b.recs, b.wptr, n, left)
  /\ r.recs[b.wptr] = rec
  /\ left # 0 => r.recs[b.wptr + n] = Padding(left)
  /\ \A o \in DOMAIN b.recs \ Met(b, n) : r.recs[o] = b.recs[o]
  /\ r.wptr = Advance(b.wptr, n)

(* Where the records of r are: what is left of b, and the new ones.        *)
LEMMA OverwritePlaces ==
  ASSUME NEW b, BufferType(b), Tiles(b), NEW n \in Nat \ {0}, b.wptr + n <= Size,
         NEW left, Gap(DOMAIN b.recs, EndOf(b), b.wptr, n, left),
         Untouched(b) => left = 0,
         NEW r, NEW rec, Overwrites(b, r, n, left, rec)
  PROVE  /\ \A o \in DOMAIN b.recs \ Met(b, n) :
              /\ o \in DOMAIN r.recs /\ r.recs[o] = b.recs[o]
              /\ o # b.wptr /\ (left # 0 => o # b.wptr + n)
         /\ b.wptr \in DOMAIN r.recs /\ r.recs[b.wptr] = rec
         /\ left # 0 => /\ b.wptr + n \in DOMAIN r.recs /\ b.wptr + n < Size
                        /\ r.recs[b.wptr + n] = Padding(left) /\ left \in 1 .. Size
         /\ \A o \in DOMAIN r.recs : \/ o \in DOMAIN b.recs \ Met(b, n)
                                     \/ o = b.wptr \/ (left # 0 /\ o = b.wptr + n)
<1> DEFINE D == DOMAIN b.recs
           w == b.wptr
<1>1. Met(b, n) = {o \in D : w <= o /\ o < w + n}
  BY DEF Met
<1>2. /\ Size \in Nat /\ w \in Nat /\ w < Size /\ left \in Nat /\ w + n + left <= Size
      /\ \A p \in D \ Met(b, n) : EndOf(b)[p] <= w \/ p >= w + n + left
  BY <1>1, Offsets DEF Gap
<1>3. \A p \in D : p \in Nat /\ EndOf(b)[p] \in Nat /\ p < EndOf(b)[p]
  BY Offsets DEF Tiles, Layout, Inside
<1>4. ASSUME NEW p \in D \ Met(b, n) PROVE p # w /\ (left # 0 => p # w + n)
  <2>1. p \in Nat /\ EndOf(b)[p] \in Nat /\ p < EndOf(b)[p]
    BY <1>3
  <2>2. EndOf(b)[p] <= w \/ p >= w + n + left
    BY <1>2
  <2> QED BY <2>1, <2>2, <1>2
<1>5. DOMAIN r.recs = (D \ Met(b, n)) \cup {w} \cup (IF left = 0 THEN {} ELSE {w + n})
  BY <1>1 DEF Overwrites, Placed
<1>6. left # 0 => left \in 1 .. Size /\ w + n < Size
  BY <1>2
<1> QED BY <1>4, <1>5, <1>6 DEF Overwrites

LEMMA OverwriteTiles ==
  ASSUME NEW b, BufferType(b), Tiles(b), NEW n \in Nat \ {0}, b.wptr + n <= Size,
         NEW left, Gap(DOMAIN b.recs, EndOf(b), b.wptr, n, left),
         Untouched(b) => left = 0,
         NEW r, NEW rec \in Record, rec.size = n, Overwrites(b, r, n, left, rec)
  PROVE  /\ Tiles(r) /\ r.wptr \in 0 .. Size - 1
         /\ DOMAIN r.recs \subseteq 0 .. Size - 1
         /\ \A o \in DOMAIN r.recs : r.recs[o] \in Record
<1> DEFINE D == DOMAIN b.recs
           w == b.wptr
           e == EndOf(b)
           g == EndOf(r)
<1>1. /\ Size \in Nat /\ w \in Nat /\ w < Size /\ Layout(D, e, w)
      /\ \A o \in D : o \in Nat /\ o < Size /\ e[o] = o + b.recs[o].size /\ b.recs[o] \in Record
      /\ left \in Nat
  BY Offsets DEF Tiles, BufferType, Gap
<1>2. /\ \A o \in D \ Met(b, n) : o \in DOMAIN r.recs /\ r.recs[o] = b.recs[o]
      /\ w \in DOMAIN r.recs /\ r.recs[w] = rec
      /\ left # 0 => /\ w + n \in DOMAIN r.recs /\ w + n < Size
                     /\ r.recs[w + n] = Padding(left) /\ left \in 1 .. Size
      /\ \A o \in DOMAIN r.recs : o \in D \ Met(b, n) \/ o = w \/ (left # 0 /\ o = w + n)
  <2>1. /\ \A o \in D \ Met(b, n) : o \in DOMAIN r.recs /\ r.recs[o] = b.recs[o]
        /\ w \in DOMAIN r.recs /\ r.recs[w] = rec
    BY OverwritePlaces, SMTT(30)
  <2>2. left # 0 => /\ w + n \in DOMAIN r.recs /\ w + n < Size
                    /\ r.recs[w + n] = Padding(left) /\ left \in 1 .. Size
    BY OverwritePlaces, SMTT(30)
  <2>3. \A o \in DOMAIN r.recs : o \in D \ Met(b, n) \/ o = w \/ (left # 0 /\ o = w + n)
    BY DEF Overwrites, Placed, Met
  <2> QED BY <2>1, <2>2, <2>3
<1>3. \A o \in DOMAIN r.recs : g[o] = o + r.recs[o].size
  BY DEF EndOf, Ends
<1> HIDE DEF g
<1>4. g[w] = w + n /\ (left # 0 => g[w + n] = w + n + left)
  <2>1. left # 0 => r.recs[w + n].size = left
    BY <1>2 DEF Padding
  <2> QED BY <2>1, <1>2, <1>3
<1>5. \A o \in D : (o < w \/ o >= w + n + left) => g[o] = e[o]
  <2>1. \A o \in D : (o < w \/ o >= w + n + left) => o \notin Met(b, n)
    BY <1>1 DEF Met
  <2> QED BY <2>1, <1>1, <1>2, <1>3
<1>6. w \notin D => left = 0
  BY DEF Untouched
<1>7. Layout(Placed(D, w, n, left), g, Advance(w, n))
  <2>1. w \in 0 .. Size - 1
    BY <1>1
  <2> QED BY <2>1, <1>1, <1>4, <1>5, <1>6, GapFilled
<1>8. Tiles(r)
  BY <1>7 DEF Tiles, Overwrites, g
<1>9. r.wptr \in 0 .. Size - 1
  BY <1>1 DEF Overwrites, Advance
<1>10. left # 0 => Padding(left) \in Record
  BY <1>2 DEF Padding, Record, NoKey
<1>11. ASSUME NEW o \in DOMAIN r.recs PROVE o \in 0 .. Size - 1 /\ r.recs[o] \in Record
  BY <1>1, <1>2, <1>10
<1> QED BY <1>8, <1>9, <1>11

(* Without the chunks that were met, the index still matches the records.  *)
Reindexes(b, r, n, rec) ==
  LET rest == DOMAIN b.index \ MetKeys(b, n)
  IN /\ \A k \in rest : k \in DOMAIN r.index /\ r.index[k] = b.index[k]
     /\ \/ rec.is_padding /\ DOMAIN r.index = rest
        \/ /\ ~rec.is_padding /\ rec.key \notin DOMAIN b.index
           /\ DOMAIN r.index = rest \cup {rec.key} /\ r.index[rec.key].off = b.wptr

LEMMA OverwriteMatches ==
  ASSUME NEW b, BufferType(b), Tiles(b), IndexMatches(b),
         NEW n \in Nat \ {0}, b.wptr + n <= Size,
         NEW left, Gap(DOMAIN b.recs, EndOf(b), b.wptr, n, left),
         Untouched(b) => left = 0,
         NEW r, NEW rec \in Record, Overwrites(b, r, n, left, rec),
         Reindexes(b, r, n, rec)
  PROVE  IndexMatches(r)
<1> DEFINE kept == DOMAIN b.recs \ Met(b, n)
           w == b.wptr
<1>0. PICK rest : rest = DOMAIN b.index \ MetKeys(b, n)
  OBVIOUS
<1>7. /\ \A k \in rest : k \in DOMAIN r.index /\ r.index[k] = b.index[k]
      /\ \/ rec.is_padding /\ DOMAIN r.index = rest
         \/ /\ ~rec.is_padding /\ rec.key \notin DOMAIN b.index
            /\ DOMAIN r.index = rest \cup {rec.key} /\ r.index[rec.key].off = b.wptr
  BY <1>0 DEF Reindexes
<1>1. /\ \A o \in kept : o \in DOMAIN r.recs /\ r.recs[o] = b.recs[o]
      /\ w \in DOMAIN r.recs /\ r.recs[w] = rec
      /\ left # 0 => r.recs[w + n] = Padding(left)
      /\ \A o \in DOMAIN r.recs : o \in kept \/ o = w \/ (left # 0 /\ o = w + n)
  BY OverwritePlaces
<1>2. ASSUME NEW k \in rest
      PROVE  /\ b.index[k].off \in kept /\ ~b.recs[b.index[k].off].is_padding
             /\ b.recs[b.index[k].off].key = k
  <2>1. k \in DOMAIN b.index /\ k \notin MetKeys(b, n)
    BY <1>0
  <2>2. /\ b.index[k].off \in DOMAIN b.recs /\ ~b.recs[b.index[k].off].is_padding
        /\ b.recs[b.index[k].off].key = k
    BY <2>1 DEF IndexMatches
  <2>3. b.index[k].off \notin Met(b, n)
    BY <2>1, <2>2 DEF MetKeys
  <2> QED BY <2>2, <2>3
<1>3. ASSUME NEW o \in kept, ~b.recs[o].is_padding
      PROVE  b.recs[o].key \in rest /\ b.index[b.recs[o].key].off = o
  <2>1. b.recs[o].key \in DOMAIN b.index /\ b.index[b.recs[o].key].off = o
    BY <1>3 DEF IndexMatches
  <2>2. ASSUME b.recs[o].key \in MetKeys(b, n) PROVE FALSE
    <3>1. PICK p \in Met(b, n) : ~b.recs[p].is_padding /\ b.recs[p].key = b.recs[o].key
      BY <2>2 DEF MetKeys
    <3>2. p \in DOMAIN b.recs
      BY DEF Met
    <3>3. b.index[b.recs[p].key].off = p
      BY <3>1, <3>2 DEF IndexMatches
    <3>4. p = o
      BY <3>1, <3>3, <2>1
    <3> QED BY <3>4
  <2> QED BY <2>1, <2>2, <1>0
<1>4. left # 0 => r.recs[w + n].is_padding
  BY <1>1 DEF Padding
<1> HIDE DEF kept
<1>5. CASE rec.is_padding /\ DOMAIN r.index = rest
  <2>1. \A k \in DOMAIN r.index :
          /\ r.index[k].off \in DOMAIN r.recs /\ ~r.recs[r.index[k].off].is_padding
          /\ r.recs[r.index[k].off].key = k
    BY <1>1, <1>2, <1>5, <1>7
  <2>2. \A o \in DOMAIN r.recs : ~r.recs[o].is_padding =>
          r.recs[o].key \in DOMAIN r.index /\ r.index[r.recs[o].key].off = o
    BY <1>1, <1>3, <1>4, <1>5, <1>7
  <2> QED BY <2>1, <2>2 DEF IndexMatches
<1>6. CASE /\ ~rec.is_padding /\ rec.key \notin DOMAIN b.index
           /\ DOMAIN r.index = rest \cup {rec.key} /\ r.index[rec.key].off = b.wptr
  <2>1. \A k \in DOMAIN r.index :
          /\ r.index[k].off \in DOMAIN r.recs /\ ~r.recs[r.index[k].off].is_padding
          /\ r.recs[r.index[k].off].key = k
    BY <1>1, <1>2, <1>6, <1>7
  <2>2. \A o \in DOMAIN r.recs : ~r.recs[o].is_padding =>
          r.recs[o].key \in DOMAIN r.index /\ r.index[r.recs[o].key].off = o
    BY <1>1, <1>3, <1>4, <1>6, <1>7
  <2> QED BY <2>1, <2>2 DEF IndexMatches
<1> QED BY <1>5, <1>6, <1>7

(* The buffers that the steps of CopyChunkUntrusted() make, field by field. *)
Fields == {"recs", "wptr", "index", "overwrite_policy"}
LEMMA DeleteFields ==
  ASSUME NEW b, DOMAIN b = Fields, NEW n
  PROVE  /\ DOMAIN DeleteNextChunksFor(b, n) = Fields
         /\ DeleteNextChunksFor(b, n).recs = Without(b.recs, Met(b, n))
         /\ DeleteNextChunksFor(b, n).index = Without(b.index, MetKeys(b, n))
         /\ DeleteNextChunksFor(b, n).wptr = b.wptr
         /\ DeleteNextChunksFor(b, n).overwrite_policy = b.overwrite_policy
BY DEF Fields, DeleteNextChunksFor

LEMMA PaddingFields ==
  ASSUME NEW b, DOMAIN b = Fields, NEW n
  PROVE  /\ DOMAIN AddPaddingRecord(b, n) = Fields
         /\ AddPaddingRecord(b, n).recs = With(b.recs, b.wptr, Padding(n))
         /\ AddPaddingRecord(b, n).index = b.index
         /\ AddPaddingRecord(b, n).wptr = b.wptr
         /\ AddPaddingRecord(b, n).overwrite_policy = b.overwrite_policy
BY DEF Fields, AddPaddingRecord, Padding

LEMMA WrapFields ==
  ASSUME NEW b, DOMAIN b = Fields, NEW n, n = size_to_end(b)
  PROVE  /\ DOMAIN WrapAround(b) = Fields
         /\ WrapAround(b).recs = With(Without(b.recs, Met(b, n)), b.wptr, Padding(n))
         /\ WrapAround(b).index = Without(b.index, MetKeys(b, n))
         /\ WrapAround(b).wptr = 0
         /\ WrapAround(b).overwrite_policy = b.overwrite_policy
<1>1. PICK d : d = DeleteNextChunksFor(b, n)
  OBVIOUS
<1>2. PICK a : a = AddPaddingRecord(d, n)
  OBVIOUS
<1>3. /\ DOMAIN a = Fields /\ a.recs = With(Without(b.recs, Met(b, n)), b.wptr, Padding(n))
      /\ a.index = Without(b.index, MetKeys(b, n))
      /\ a.overwrite_policy = b.overwrite_policy
  BY <1>1, <1>2, DeleteFields, PaddingFields
<1>4. WrapAround(b) = [a EXCEPT !.wptr = 0]
  BY <1>1, <1>2 DEF WrapAround
<1> QED BY <1>3, <1>4 DEF Fields

LEMMA WriteFields ==
  ASSUME NEW b, DOMAIN b = Fields, NEW c, NEW left, left = Leftover(b, c.size)
  PROVE  LET r    == WriteChunkRecord(b, c)
             recs == With(Without(b.recs, Met(b, c.size)), b.wptr,
                          [size |-> c.size, is_padding |-> FALSE, key |-> KeyOf(c)])
         IN /\ DOMAIN r = Fields
            /\ r.index = With(Without(b.index, MetKeys(b, c.size)), KeyOf(c), NewMeta(b, c))
            /\ r.wptr = Advance(b.wptr, c.size)
            /\ r.overwrite_policy = b.overwrite_policy
            /\ left = 0 => r.recs = recs
            /\ left # 0 => r.recs = With(recs, Advance(b.wptr, c.size), Padding(left))
<1>1. PICK d : d = DeleteNextChunksFor(b, c.size)
  OBVIOUS
<1>2. /\ DOMAIN d = Fields /\ d.recs = Without(b.recs, Met(b, c.size))
      /\ d.index = Without(b.index, MetKeys(b, c.size)) /\ d.wptr = b.wptr
      /\ d.overwrite_policy = b.overwrite_policy
  BY <1>1, DeleteFields
<1>3. PICK rec : rec = [size |-> c.size, is_padding |-> FALSE, key |-> KeyOf(c)]
  OBVIOUS
<1>4. PICK w : w = [d EXCEPT !.recs  = With(@, b.wptr, rec),
                             !.index = With(@, KeyOf(c), NewMeta(b, c)),
                             !.wptr  = IF @ + c.size >= Size THEN 0 ELSE @ + c.size]
  OBVIOUS
<1>5. /\ DOMAIN w = Fields /\ w.recs = With(d.recs, b.wptr, rec)
      /\ w.index = With(d.index, KeyOf(c), NewMeta(b, c))
      /\ w.wptr = Advance(b.wptr, c.size) /\ w.overwrite_policy = b.overwrite_policy
  BY <1>2, <1>4 DEF Fields, Advance
<1>6. WriteChunkRecord(b, c) = IF left = 0 THEN w ELSE AddPaddingRecord(w, left)
  BY <1>1, <1>3, <1>4 DEF WriteChunkRecord
<1> QED BY <1>2, <1>3, <1>5, <1>6, PaddingFields

(* Going back to the start with padding up to the end.                     *)
LEMMA WrapIntact ==
  ASSUME NEW b, Intact(b), NEW n, n = size_to_end(b), NEW r, r = WrapAround(b)
  PROVE  /\ Intact(r) /\ r.wptr = 0 /\ r.overwrite_policy = b.overwrite_policy
         /\ DOMAIN r.index = DOMAIN b.index \ MetKeys(b, n)
         /\ \A k \in DOMAIN r.index : r.index[k] = b.index[k]
<1>1. BufferType(b) /\ Tiles(b) /\ IndexMatches(b) /\ DOMAIN b = Fields
  BY DEF Intact, BufferType, Fields
<1>2. /\ Size \in Nat /\ b.wptr \in Nat /\ b.wptr < Size
      /\ n \in Nat \ {0} /\ b.wptr + n = Size /\ b.wptr + n <= Size /\ n \in 1 .. Size
  BY <1>1, Offsets DEF size_to_end
<1>3. /\ DOMAIN r = Fields
      /\ r.recs = With(Without(b.recs, Met(b, n)), b.wptr, Padding(n))
      /\ r.index = Without(b.index, MetKeys(b, n))
      /\ r.wptr = 0 /\ r.overwrite_policy = b.overwrite_policy
  BY <1>1, WrapFields
<1>4. /\ DOMAIN r.index = DOMAIN b.index \ MetKeys(b, n)
      /\ \A k \in DOMAIN r.index : r.index[k] = b.index[k]
  BY <1>3 DEF Without, Restrict
<1>5. PICK left : left = Leftover(b, n)
  OBVIOUS
<1>6. Gap(DOMAIN b.recs, EndOf(b), b.wptr, n, left) /\ (Untouched(b) => left = 0)
  BY <1>1, <1>2, <1>5, LeftoverFacts
<1>7. left = 0
  BY <1>2, <1>6 DEF Gap
<1>8. PICK rec : rec = Padding(n)
  OBVIOUS
<1>9. rec \in Record /\ rec.size = n /\ rec.is_padding
  BY <1>2, <1>8 DEF Padding, Record
<1>10. Overwrites(b, r, n, left, rec)
  <2>1. PICK u : u = Without(b.recs, Met(b, n))
    OBVIOUS
  <2>2. DOMAIN u = DOMAIN b.recs \ Met(b, n) /\ \A o \in DOMAIN u : u[o] = b.recs[o]
    BY <2>1 DEF Without, Restrict
  <2>3. /\ DOMAIN r.recs = DOMAIN u \cup {b.wptr} /\ r.recs[b.wptr] = rec
        /\ \A o \in DOMAIN u \ {b.wptr} : r.recs[o] = u[o]
    BY <2>1, <1>3, <1>8 DEF With
  <2>4. DOMAIN r.recs = Placed(DOMAIN b.recs, b.wptr, n, left)
    BY <2>2, <2>3, <1>7 DEF Placed, Met
  <2>5. b.wptr \notin DOMAIN u
    BY <2>2, <1>2 DEF Met
  <2>6. r.wptr = Advance(b.wptr, n)
    BY <1>2, <1>3 DEF Advance
  <2> QED BY <2>2, <2>3, <2>4, <2>5, <2>6, <1>7 DEF Overwrites
<1>11. /\ Tiles(r) /\ r.wptr \in 0 .. Size - 1 /\ DOMAIN r.recs \subseteq 0 .. Size - 1
       /\ \A o \in DOMAIN r.recs : r.recs[o] \in Record
  BY <1>1, <1>2, <1>6, <1>9, <1>10, OverwriteTiles
<1>14. Reindexes(b, r, n, rec)
  BY <1>4, <1>9 DEF Reindexes
<1>12. IndexMatches(r)
  BY <1>1, <1>2, <1>6, <1>9, <1>10, <1>14, OverwriteMatches
<1>13. BufferType(r)
  BY <1>1, <1>3, <1>4, <1>11 DEF BufferType, Fields
<1> QED BY <1>3, <1>4, <1>11, <1>12, <1>13 DEF Intact

(* Writing the record of a new chunk.                                      *)
LEMMA WriteIntact ==
  ASSUME NEW b, Intact(b), NEW c, c.size \in Nat \ {0}, b.wptr + c.size <= Size,
         KeyOf(c) \in Keys, KeyOf(c) \notin DOMAIN b.index, NewMeta(b, c) \in ChunkMeta,
         NEW r, r = WriteChunkRecord(b, c)
  PROVE  /\ Intact(r) /\ r.overwrite_policy = b.overwrite_policy
         /\ DOMAIN r.index = (DOMAIN b.index \ MetKeys(b, c.size)) \cup {KeyOf(c)}
<1> DEFINE w == b.wptr
<1>0. PICK n : n = c.size
  OBVIOUS
<1>1. BufferType(b) /\ Tiles(b) /\ IndexMatches(b) /\ DOMAIN b = Fields
  BY DEF Intact, BufferType, Fields
<1>2. /\ Size \in Nat /\ w \in Nat /\ w < Size /\ n \in Nat \ {0} /\ w + n <= Size
      /\ n \in 1 .. Size
  BY <1>0, <1>1, Offsets
<1>3. PICK left : left = Leftover(b, n)
  OBVIOUS
<1>4. Gap(DOMAIN b.recs, EndOf(b), w, n, left) /\ (Untouched(b) => left = 0)
  BY <1>1, <1>2, <1>3, LeftoverFacts
<1>5. PICK rec : rec = [size |-> n, is_padding |-> FALSE, key |-> KeyOf(c)]
  OBVIOUS
<1>6. rec \in Record /\ rec.size = n /\ ~rec.is_padding /\ rec.key = KeyOf(c)
  BY <1>2, <1>5 DEF Record
<1>7. PICK u : u = Without(b.recs, Met(b, n))
  OBVIOUS
<1>8. PICK v : v = With(u, w, rec)
  OBVIOUS
<1>9. /\ DOMAIN r = Fields
      /\ r.index = With(Without(b.index, MetKeys(b, n)), KeyOf(c), NewMeta(b, c))
      /\ r.wptr = Advance(w, n) /\ r.overwrite_policy = b.overwrite_policy
      /\ left = 0 => r.recs = v
      /\ left # 0 => r.recs = With(v, Advance(w, n), Padding(left))
  BY <1>0, <1>1, <1>3, <1>5, <1>7, <1>8, WriteFields
<1>10. DOMAIN u = DOMAIN b.recs \ Met(b, n) /\ \A o \in DOMAIN u : u[o] = b.recs[o]
  BY <1>7 DEF Without, Restrict
<1>11. /\ DOMAIN v = DOMAIN u \cup {w} /\ v[w] = rec
       /\ \A o \in DOMAIN u \ {w} : v[o] = u[o]
  BY <1>8 DEF With
<1>12. w \notin DOMAIN u
  BY <1>2, <1>10 DEF Met
<1>13. left # 0 => Advance(w, n) = w + n /\ w + n \notin DOMAIN u
  <2>1. left # 0 => w + n < Size /\ left \in Nat /\ w + n < w + n + left
    BY <1>2, <1>4 DEF Gap
  <2>2. \A p \in DOMAIN u : EndOf(b)[p] <= w \/ p >= w + n + left
    BY <1>4, <1>10 DEF Gap, Met
  <2>3. \A p \in DOMAIN u : p \in Nat /\ EndOf(b)[p] \in Nat /\ p < EndOf(b)[p]
    BY <1>1, <1>10, Offsets DEF Tiles, Layout, Inside
  <2> QED BY <2>1, <2>2, <2>3, <1>2 DEF Advance
<1>14. Overwrites(b, r, n, left, rec)
  <2>1. CASE left = 0
    <3>1. DOMAIN r.recs = Placed(DOMAIN b.recs, w, n, left)
      BY <2>1, <1>9, <1>10, <1>11 DEF Placed, Met
    <3> QED BY <2>1, <3>1, <1>9, <1>10, <1>11, <1>12 DEF Overwrites
  <2>2. CASE left # 0
    <3>1. /\ DOMAIN r.recs = DOMAIN v \cup {w + n} /\ r.recs[w + n] = Padding(left)
          /\ \A o \in DOMAIN v \ {w + n} : r.recs[o] = v[o]
      BY <2>2, <1>9, <1>13 DEF With
    <3>2. DOMAIN r.recs = Placed(DOMAIN b.recs, w, n, left)
      BY <2>2, <3>1, <1>10, <1>11 DEF Placed, Met
    <3>3. w # w + n
      BY <1>2
    <3>4. r.recs[w] = rec /\ \A o \in DOMAIN u : r.recs[o] = b.recs[o]
      BY <2>2, <3>1, <3>3, <1>10, <1>11, <1>12, <1>13
    <3> QED BY <3>1, <3>2, <3>4, <1>9, <1>10 DEF Overwrites
  <2> QED BY <2>1, <2>2
<1>15. /\ Tiles(r) /\ r.wptr \in 0 .. Size - 1 /\ DOMAIN r.recs \subseteq 0 .. Size - 1
       /\ \A o \in DOMAIN r.recs : r.recs[o] \in Record
  BY <1>1, <1>2, <1>4, <1>6, <1>14, OverwriteTiles
<1>16. PICK rest : rest = DOMAIN b.index \ MetKeys(b, n)
  OBVIOUS
<1>17. /\ DOMAIN r.index = rest \cup {KeyOf(c)} /\ r.index[KeyOf(c)] = NewMeta(b, c)
       /\ \A k \in rest : k \in DOMAIN r.index /\ r.index[k] = b.index[k]
  <2>1. PICK i : i = Without(b.index, MetKeys(b, n))
    OBVIOUS
  <2>2. DOMAIN i = rest /\ \A k \in rest : i[k] = b.index[k]
    BY <2>1, <1>16 DEF Without, Restrict
  <2>3. /\ DOMAIN r.index = DOMAIN i \cup {KeyOf(c)} /\ r.index[KeyOf(c)] = NewMeta(b, c)
        /\ \A k \in DOMAIN i \ {KeyOf(c)} : r.index[k] = i[k]
    BY <2>1, <1>9 DEF With
  <2> QED BY <2>2, <2>3, <1>16
<1>18. r.index[rec.key].off = w
  BY <1>6, <1>17 DEF NewMeta
<1>21. Reindexes(b, r, n, rec)
  BY <1>6, <1>16, <1>17, <1>18 DEF Reindexes
<1>19. IndexMatches(r)
  BY <1>1, <1>2, <1>4, <1>6, <1>14, <1>21, OverwriteMatches
<1>20. BufferType(r)
  BY <1>1, <1>9, <1>15, <1>16, <1>17 DEF BufferType, Fields
<1> QED BY <1>0, <1>9, <1>15, <1>16, <1>17, <1>19, <1>20 DEF Intact

(***************************************************************************)
(* Chunks and index entries                                                *)
(***************************************************************************)
LEMMA TrimmedChunk ==
  ASSUME NEW c \in ChunkArg
  PROVE  Trimmed(c) \in ChunkArg /\ Trimmed(c).size = c.size
<1>1. MaxFragments \in Nat
  BY BufferAssumption
<1>2. c.num_fragments \in 0 .. MaxFragments /\ c.flags \in SUBSET Flags
  BY DEF ChunkArg
<1>3. CASE c.complete \/ c.num_fragments = 0
  BY <1>3 DEF Trimmed
<1>4. CASE ~(c.complete \/ c.num_fragments = 0)
  <2>1. PICK n, f : /\ n = c.num_fragments - 1
                    /\ f = c.flags \ {kLastPacketContinuesOnNextChunk, kChunkNeedsPatching}
    OBVIOUS
  <2>2. n \in 0 .. MaxFragments /\ f \in SUBSET Flags
    BY <1>1, <1>2, <1>4, <2>1
  <2>3. Trimmed(c) = [c EXCEPT !.num_fragments = n, !.flags = f]
    BY <1>4, <2>1 DEF Trimmed
  <2> QED BY <2>2, <2>3 DEF ChunkArg
<1> QED BY <1>3, <1>4

LEMMA ChunkFacts ==
  ASSUME NEW c \in ChunkArg
  PROVE  /\ c.size \in Nat \ {0} /\ KeyOf(c) \in Keys
         /\ c.num_fragments \in 0 .. MaxFragments /\ c.flags \in SUBSET Flags
         /\ c.complete \in BOOLEAN /\ c.body \in Seq(Fragment)
         /\ c.seq \in Sequences /\ c.id \in ChunkIDs
BY DEF ChunkArg, KeyOf, Keys

LEMMA MetaOfChunk ==
  ASSUME NEW c \in ChunkArg, NEW b, b.wptr \in 0 .. Size - 1
  PROVE  NewMeta(b, c) \in ChunkMeta
BY ChunkFacts DEF NewMeta, ChunkMeta

(* The fields of an index entry may change, but not its place.             *)
LEMMA OverriddenMeta ==
  ASSUME NEW c \in ChunkArg, NEW m \in ChunkMeta
  PROVE  Overridden(m, c) \in ChunkMeta /\ Overridden(m, c).off = m.off
BY ChunkFacts DEF Overridden, ChunkMeta

LEMMA ReadMeta ==
  ASSUME NEW m \in ChunkMeta, NEW past
  PROVE  /\ AfterFragment(m, past) \in ChunkMeta /\ AfterFragment(m, past).off = m.off
         /\ [AfterFragment(m, past) EXCEPT !.skipped = TRUE] \in ChunkMeta
         /\ [AfterFragment(m, past) EXCEPT !.skipped = TRUE].off = m.off
<1>1. m.num_fragments \in Nat /\ m.num_fragments_read \in Nat /\ m.cur_fragment \in Nat
  BY BufferAssumption DEF ChunkMeta
<1>2. AfterFragment(m, past) \in ChunkMeta /\ AfterFragment(m, past).off = m.off
  <2>1. CASE IsInvalid(m, past)
    BY <2>1, <1>1 DEF AfterFragment, ChunkMeta
  <2>2. CASE ~IsInvalid(m, past)
    <3>1. PICK c \in Nat, n \in Nat : c = m.cur_fragment + 1 /\ n = m.num_fragments_read + 1
      BY <1>1
    <3>2. AfterFragment(m, past) = [m EXCEPT !.cur_fragment = c, !.num_fragments_read = n,
                                            !.skipped = FALSE]
      BY <2>2, <3>1 DEF AfterFragment
    <3>3. PICK a : a = AfterFragment(m, past)
      OBVIOUS
    <3>4. a = [m EXCEPT !.cur_fragment = c, !.num_fragments_read = n, !.skipped = FALSE]
      BY <3>2, <3>3
    <3>5. a \in ChunkMeta /\ a.off = m.off
      BY <3>4 DEF ChunkMeta
    <3> QED BY <3>3, <3>5
  <2> QED BY <2>1, <2>2
<1>3. PICK a \in ChunkMeta : a = AfterFragment(m, past)
  BY <1>2
<1>4. [a EXCEPT !.skipped = TRUE] \in ChunkMeta /\ [a EXCEPT !.skipped = TRUE].off = a.off
  BY DEF ChunkMeta
<1> QED BY <1>2, <1>3, <1>4

LEMMA SkippedMeta ==
  ASSUME NEW m \in ChunkMeta
  PROVE  [m EXCEPT !.skipped = TRUE] \in ChunkMeta /\ [m EXCEPT !.skipped = TRUE].off = m.off
BY DEF ChunkMeta

(* The buffer r is b with other values in some entries of the index.       *)
Edits(b, r) ==
  /\ DOMAIN r = Fields /\ r.recs = b.recs /\ r.wptr = b.wptr
  /\ r.overwrite_policy = b.overwrite_policy
  /\ DOMAIN r.index = DOMAIN b.index
  /\ \A k \in DOMAIN b.index : r.index[k] \in ChunkMeta /\ r.index[k].off = b.index[k].off

LEMMA EditedIntact ==
  ASSUME NEW b, Intact(b), NEW r, Edits(b, r)
  PROVE  Intact(r)
<1>1. BufferType(r)
  BY DEF Intact, BufferType, Edits, Fields
<1>2. EndOf(r) = EndOf(b)
  BY DEF Edits, EndOf, Ends
<1>3. Tiles(r)
  BY <1>2 DEF Intact, Tiles, Edits
<1>4. IndexMatches(r)
  BY DEF Intact, IndexMatches, Edits
<1> QED BY <1>1, <1>3, <1>4 DEF Intact

LEMMA EditOne ==
  ASSUME NEW b, Intact(b), NEW k, NEW m,
         k \in DOMAIN b.index => m \in ChunkMeta /\ m.off = b.index[k].off,
         NEW r, r = [b EXCEPT !.index[k] = m]
  PROVE  Edits(b, r)
<1>1. DOMAIN b = Fields /\ \A j \in DOMAIN b.index : b.index[j] \in ChunkMeta
  BY DEF Intact, BufferType, Fields
<1>2. PICK i : i = [b.index EXCEPT ![k] = m]
  OBVIOUS
<1>3. r = [b EXCEPT !.index = i]
  BY <1>2
<1>4. /\ DOMAIN r = Fields /\ r.recs = b.recs /\ r.wptr = b.wptr
      /\ r.overwrite_policy = b.overwrite_policy /\ r.index = i
  BY <1>1, <1>3 DEF Fields
<1>5. /\ DOMAIN i = DOMAIN b.index
      /\ \A j \in DOMAIN b.index : i[j] = IF j = k THEN m ELSE b.index[j]
  BY <1>2
<1> QED BY <1>1, <1>4, <1>5 DEF Edits

LEMMA EditAll ==
  ASSUME NEW b, Intact(b), NEW i, NEW r, r = [b EXCEPT !.index = i],
         DOMAIN i = DOMAIN b.index,
         \A k \in DOMAIN b.index : i[k] \in ChunkMeta /\ i[k].off = b.index[k].off
  PROVE  Edits(b, r)
<1>1. DOMAIN b = Fields
  BY DEF Intact, BufferType, Fields
<1>2. /\ DOMAIN r = Fields /\ r.recs = b.recs /\ r.wptr = b.wptr
      /\ r.overwrite_policy = b.overwrite_policy /\ r.index = i
  BY <1>1 DEF Fields
<1> QED BY <1>2 DEF Edits

(***************************************************************************)
(* Numbers                                                                 *)
(***************************************************************************)
LEMMA LeastNumber ==
  ASSUME NEW T, T \subseteq Nat, T # {}
  PROVE  Min(T) \in T
<1>1. \E x \in T : \A y \in T : ~(<<y, x>> \in OpToRel(<, Nat))
  BY NatLessThanWellFounded, WFMin, Zenon
<1>2. PICK x \in T : \A y \in T : ~(<<y, x>> \in OpToRel(<, Nat))
  BY <1>1
<1>3. \A y \in T : x <= y
  <2>1. SUFFICES ASSUME NEW y \in T, y < x PROVE FALSE
    OBVIOUS
  <2>2. <<y, x>> \in OpToRel(<, Nat)
    BY <2>1 DEF OpToRel
  <2> QED BY <2>2, <1>2
<1> QED BY <1>3 DEF Min

LEMMA ModFacts ==
  ASSUME NEW a \in Nat
  PROVE  /\ a % NumChunkIDs \in ChunkIDs
         /\ a < NumChunkIDs => a % NumChunkIDs = a
         /\ a >= NumChunkIDs /\ a < 2 * NumChunkIDs => a % NumChunkIDs = a - NumChunkIDs
BY BufferAssumption DEF ChunkIDs

(* The chunk the reader is at, and the steps from one id to the next.      *)
LEMMA IdFacts ==
  ASSUME NEW i \in ChunkIDs
  PROVE  /\ (i + 1) % NumChunkIDs \in ChunkIDs
         /\ (i + 0) % NumChunkIDs = i
         /\ \A n \in 1 .. NumChunkIDs - 1 :
              /\ (i + n) % NumChunkIDs \in ChunkIDs
              /\ (((i + (n - 1)) % NumChunkIDs) + 1) % NumChunkIDs = (i + n) % NumChunkIDs
<1>0. /\ NumChunkIDs \in Nat /\ NumChunkIDs > 1
      /\ i \in Nat /\ i < NumChunkIDs /\ i + 1 \in Nat /\ i + 0 = i
  BY BufferAssumption DEF ChunkIDs
<1>1. (i + 1) % NumChunkIDs \in ChunkIDs /\ i % NumChunkIDs = i
  BY <1>0, ModFacts
<1>2. ASSUME NEW n \in 1 .. NumChunkIDs - 1
      PROVE  /\ (i + n) % NumChunkIDs \in ChunkIDs
             /\ (((i + (n - 1)) % NumChunkIDs) + 1) % NumChunkIDs = (i + n) % NumChunkIDs
  <2>1. PICK a \in Nat, d \in Nat : a = i + (n - 1) /\ d = i + n
    BY <1>0
  <2>2. d = a + 1 /\ d < 2 * NumChunkIDs
    BY <2>1, <1>0
  <2>3. d % NumChunkIDs \in ChunkIDs
    BY ModFacts
  <2>4. CASE a < NumChunkIDs
    <3>1. a % NumChunkIDs = a
      BY <2>4, ModFacts
    <3>2. (a % NumChunkIDs) + 1 = d
      BY <2>2, <3>1
    <3> QED BY <2>1, <2>3, <3>2
  <2>5. CASE a >= NumChunkIDs
    <3>1. a % NumChunkIDs = a - NumChunkIDs
      BY <2>2, <2>5, <1>0, ModFacts
    <3>2. d % NumChunkIDs = d - NumChunkIDs
      BY <2>2, <2>5, <1>0, ModFacts
    <3>3. PICK c \in Nat : c = d - NumChunkIDs /\ c < NumChunkIDs
      BY <2>2, <2>5, <1>0
    <3>4. c % NumChunkIDs = c
      BY <3>3, ModFacts
    <3>5. (a % NumChunkIDs) + 1 = c
      BY <2>2, <3>1, <3>3, <1>0
    <3> QED BY <2>1, <2>3, <3>2, <3>3, <3>4, <3>5
  <2> QED BY <2>4, <2>5, <1>0
<1> QED BY <1>0, <1>1, <1>2

(***************************************************************************)
(* Writing                                                                 *)
(***************************************************************************)
(* A step from buffer b to r, and from d to e for discard_writes_, leaves  *)
(* the ring intact and unread chunks in a discarding buffer alone.         *)
KeepsUnread(b, r, d, e) ==
  b.overwrite_policy = "kDiscard" =>
    /\ \A k \in DOMAIN b.index : IsUnread(b.index[k]) => k \in DOMAIN r.index
    /\ d => e /\ DOMAIN r.index = DOMAIN b.index
Keeps(b, r, d, e) == Intact(r) /\ KeepsUnread(b, r, d, e)

LEMMA EditsKeep ==
  ASSUME NEW b, Intact(b), NEW r, r = b \/ Edits(b, r), NEW d
  PROVE  Keeps(b, r, d, d)
<1>1. CASE r = b
  BY <1>1 DEF Keeps, KeepsUnread
<1>2. CASE Edits(b, r)
  BY <1>2, EditedIntact DEF Edits, Keeps, KeepsUnread
<1> QED BY <1>1, <1>2

(* Making room in the ring takes only what may be taken.                   *)
LEMMA WrapKeeps ==
  ASSUME NEW b, Intact(b), ~Refused(b, size_to_end(b)), NEW r, r = WrapAround(b), NEW e
  PROVE  /\ Keeps(b, r, FALSE, e) /\ r.wptr = 0 /\ r.overwrite_policy = b.overwrite_policy
         /\ DOMAIN r.index \subseteq DOMAIN b.index
         /\ \A k \in DOMAIN r.index : r.index[k] = b.index[k]
<1>1. PICK n : n = size_to_end(b)
  OBVIOUS
<1>2. /\ Intact(r) /\ r.wptr = 0 /\ r.overwrite_policy = b.overwrite_policy
      /\ DOMAIN r.index = DOMAIN b.index \ MetKeys(b, n)
      /\ \A k \in DOMAIN r.index : r.index[k] = b.index[k]
  BY <1>1, WrapIntact
<1>3. b.overwrite_policy = "kDiscard" => \A k \in MetKeys(b, n) : ~IsUnread(b.index[k])
  BY <1>1 DEF Refused
<1> QED BY <1>2, <1>3 DEF Keeps, KeepsUnread

LEMMA WriteKeeps ==
  ASSUME NEW b, Intact(b), NEW c \in ChunkArg, b.wptr + c.size <= Size,
         KeyOf(c) \notin DOMAIN b.index, ~Refused(b, c.size),
         NEW r, r = WriteChunkRecord(b, c)
  PROVE  Keeps(b, r, FALSE, FALSE)
<1>1. b.wptr \in 0 .. Size - 1
  BY DEF Intact, BufferType
<1>2. c.size \in Nat \ {0} /\ KeyOf(c) \in Keys /\ NewMeta(b, c) \in ChunkMeta
  BY <1>1, ChunkFacts, MetaOfChunk
<1>3. /\ Intact(r) /\ r.overwrite_policy = b.overwrite_policy
      /\ DOMAIN r.index = (DOMAIN b.index \ MetKeys(b, c.size)) \cup {KeyOf(c)}
  BY <1>2, WriteIntact
<1>4. b.overwrite_policy = "kDiscard" => \A k \in MetKeys(b, c.size) : ~IsUnread(b.index[k])
  BY DEF Refused
<1> QED BY <1>3, <1>4 DEF Keeps, KeepsUnread

LEMMA InsertKeeps ==
  ASSUME Intact(buf), OthersType, NEW c \in ChunkArg, c.size <= Size, InsertChunk(c)
  PROVE  /\ Keeps(buf, buf', discard, discard')
         /\ last' \in [Sequences -> ChunkIDs] /\ discard' \in BOOLEAN
<1>0. /\ last \in [Sequences -> ChunkIDs] /\ discard \in BOOLEAN
      /\ c.seq \in Sequences /\ c.id \in ChunkIDs /\ c.size \in Nat /\ Size \in Nat
      /\ buf.wptr \in 0 .. Size - 1
  BY ChunkFacts, BufferAssumption DEF OthersType, Intact, BufferType
<1> DEFINE wraps == c.size > size_to_end(buf)
<1>1. PICK b : b = IF wraps THEN WrapAround(buf) ELSE buf
  OBVIOUS
<1>2. KeyOf(c) \notin DOMAIN buf.index
  BY DEF InsertChunk
<1>3. ASSUME ~(wraps /\ Refused(buf, size_to_end(buf)))
      PROVE  /\ Keeps(buf, b, FALSE, TRUE) /\ b.wptr + c.size <= Size
             /\ b.overwrite_policy = buf.overwrite_policy
             /\ DOMAIN b.index \subseteq DOMAIN buf.index
             /\ \A k \in DOMAIN b.index : b.index[k] = buf.index[k]
  <2>1. CASE wraps
    <3>1. b = WrapAround(buf) /\ ~Refused(buf, size_to_end(buf))
      BY <1>1, <1>3, <2>1
    <3>2. /\ Keeps(buf, b, FALSE, TRUE) /\ b.wptr = 0
          /\ b.overwrite_policy = buf.overwrite_policy
          /\ DOMAIN b.index \subseteq DOMAIN buf.index
          /\ \A k \in DOMAIN b.index : b.index[k] = buf.index[k]
      <4> HIDE DEF wraps
      <4> QED BY <3>1, WrapKeeps
    <3>3. b.wptr + c.size <= Size
      BY <1>0, <3>2
    <3> QED BY <3>2, <3>3
  <2>2. CASE ~wraps
    <3>1. b = buf /\ b.wptr + c.size <= Size
      BY <1>0, <1>1, <2>2 DEF size_to_end
    <3> QED BY <3>1 DEF Keeps, KeepsUnread
  <2> QED BY <2>1, <2>2
<1>4. CASE discard /\ UNCHANGED <<buf, last, discard>>
  BY <1>0, <1>4 DEF Keeps, KeepsUnread
<1>5. CASE ~discard /\ discard' = TRUE /\ UNCHANGED <<buf, last>>
  BY <1>0, <1>5 DEF Keeps, KeepsUnread
<1>6. CASE /\ ~discard /\ ~(wraps /\ Refused(buf, size_to_end(buf)))
           /\ discard' = TRUE /\ buf' = b /\ UNCHANGED last
  BY <1>0, <1>3, <1>6 DEF Keeps, KeepsUnread
<1>7. CASE /\ ~discard /\ ~(wraps /\ Refused(buf, size_to_end(buf)))
           /\ ~Refused(b, c.size)
           /\ buf' = WriteChunkRecord(b, c)
           /\ last' = IF IsNewer(c.id, last[c.seq])
                      THEN [last EXCEPT ![c.seq] = c.id] ELSE last
           /\ UNCHANGED discard
  <2>1. Intact(b) /\ KeyOf(c) \notin DOMAIN b.index
    BY <1>2, <1>3, <1>7 DEF Keeps
  <2>2. Keeps(b, buf', FALSE, FALSE)
    BY <1>3, <1>7, <2>1, WriteKeeps
  <2>3. Keeps(buf, buf', FALSE, FALSE)
    BY <1>3, <1>7, <2>2 DEF Keeps, KeepsUnread
  <2>4. last' \in [Sequences -> ChunkIDs]
    BY <1>0, <1>7
  <2> QED BY <1>0, <1>7, <2>3, <2>4
<1> HIDE DEF wraps
<1>8. \/ discard /\ UNCHANGED <<buf, last, discard>>
      \/ ~discard /\ discard' = TRUE /\ UNCHANGED <<buf, last>>
      \/ /\ ~discard /\ ~(wraps /\ Refused(buf, size_to_end(buf)))
         /\ discard' = TRUE /\ buf' = b /\ UNCHANGED last
      \/ /\ ~discard /\ ~(wraps /\ Refused(buf, size_to_end(buf)))
         /\ ~Refused(b, c.size)
         /\ buf' = WriteChunkRecord(b, c)
         /\ last' = IF IsNewer(c.id, last[c.seq])
                    THEN [last EXCEPT ![c.seq] = c.id] ELSE last
         /\ UNCHANGED discard
  BY <1>1 DEF InsertChunk, wraps
<1> QED BY <1>4, <1>5, <1>6, <1>7, <1>8

LEMMA OverrideKeeps ==
  ASSUME Intact(buf), OthersType, pc = "idle", NEW c \in ChunkArg, OverrideChunk(c)
  PROVE  /\ Keeps(buf, buf', discard, discard')
         /\ last' = last /\ discard' = discard /\ abi' \in BOOLEAN
         /\ pc' \in {"idle", "crashed"}
<1>1. PICK k : k = KeyOf(c)
  OBVIOUS
<1>2. PICK m : m = buf.index[k]
  OBVIOUS
<1>3. PICK o : o = Overridden(m, c)
  OBVIOUS
<1>4. k \in DOMAIN buf.index /\ m \in ChunkMeta
  BY <1>1, <1>2 DEF OverrideChunk, Intact, BufferType
<1>5. o \in ChunkMeta /\ o.off = buf.index[k].off
  BY <1>2, <1>3, <1>4, OverriddenMeta
<1>6. /\ buf' = buf \/ buf' = [buf EXCEPT !.index[k] = o]
      /\ last' = last /\ discard' = discard /\ abi' \in {abi, TRUE}
      /\ pc' \in {pc, "crashed"}
  <2>1. CASE AbiViolation
    BY <2>1 DEF AbiViolation
  <2>2. CASE ~AbiViolation
    BY <1>1, <1>2, <1>3, <2>2 DEF OverrideChunk
  <2> QED BY <2>1, <2>2
<1>7. buf' = buf \/ Edits(buf, buf')
  <2>1. CASE buf' = [buf EXCEPT !.index[k] = o]
    BY <1>5, <2>1, EditOne
  <2> QED BY <1>6, <2>1
<1>8. Keeps(buf, buf', discard, discard)
  BY <1>7, EditsKeep
<1> QED BY <1>6, <1>8 DEF OthersType

(* What every step does: the invariant holds again, and what is unread in  *)
(* a discarding buffer stays.                                              *)
Safe == BufferInv' /\ KeepsUnread(buf, buf', discard, discard')

LEMMA CopySafe ==
  ASSUME BufferInv, NEW c \in Inputs, CopyChunkUntrusted(c)
  PROVE  Safe
<1>0. /\ Intact(buf) /\ OthersType /\ ReaderInPlace /\ c \in ChunkArg
      /\ pc = "idle" /\ iter' = iter /\ dropped' = dropped
  BY InputsAssumption DEF BufferInv, CopyChunkUntrusted
<1>1. PICK t : t = Trimmed(c)
  OBVIOUS
<1>2. t \in ChunkArg /\ t.size = c.size
  BY <1>0, <1>1, TrimmedChunk
<1>3. /\ Keeps(buf, buf', discard, discard')
      /\ last' \in [Sequences -> ChunkIDs] /\ discard' \in BOOLEAN /\ abi' \in BOOLEAN
      /\ pc' \in {"idle", "crashed"}
  <2>1. CASE CopyTooLarge(c)
    BY <1>0, <2>1, EditsKeep DEF CopyTooLarge, AbiViolation, OthersType
  <2>2. CASE OverrideChunk(t)
    BY <1>0, <1>2, <2>2, OverrideKeeps DEF OthersType
  <2>3. CASE c.size <= Size /\ InsertChunk(t)
    <3>1. pc' = pc /\ abi' = abi
      BY <2>3 DEF InsertChunk
    <3> QED BY <1>0, <1>2, <2>3, <3>1, InsertKeeps DEF OthersType
  <2> QED BY <1>1, <2>1, <2>2, <2>3 DEF CopyChunkUntrusted
<1>4. ~iter.valid
  BY <1>0 DEF ReaderInPlace
<1>5. OthersType' /\ ReaderInPlace'
  BY <1>0, <1>3, <1>4 DEF OthersType, ReaderInPlace
<1> QED BY <1>3, <1>5 DEF Safe, BufferInv, Keeps

(* Steps that leave the ring alone and edit the index at most.             *)
LEMMA EditSafe ==
  ASSUME BufferInv, buf' = buf \/ Edits(buf, buf'), discard' = discard,
         OthersType', ReaderInPlace'
  PROVE  Safe
<1>1. Keeps(buf, buf', discard, discard)
  BY EditsKeep DEF BufferInv
<1> QED BY <1>1 DEF Safe, BufferInv, Keeps

(* The index entry m after a patch of its i-th fragment.                   *)
Filled(f) == [f EXCEPT !.holes = IF @ > 0 THEN @ - 1 ELSE 0]
PatchedEntry(m, i, more) ==
  [m EXCEPT !.body = [@ EXCEPT ![i] = Filled(m.body[i])], !.flags = PatchedFlags(@, more)]

LEMMA PatchedMeta ==
  ASSUME NEW m \in ChunkMeta, NEW i \in 1 .. MaxFragments, i <= Len(m.body), NEW more
  PROVE  PatchedEntry(m, i, more) \in ChunkMeta /\ PatchedEntry(m, i, more).off = m.off
<1>0. PICK f, g, r : f = m.body[i] /\ g = Filled(f) /\ r = PatchedEntry(m, i, more)
  OBVIOUS
<1>1. /\ m.body \in Seq(Fragment) /\ i \in 1 .. Len(m.body) /\ m.flags \in SUBSET Flags
      /\ MaxHoles \in Nat
  BY BufferAssumption DEF ChunkMeta
<1>2. f \in Fragment /\ f.holes \in 0 .. MaxHoles
  <2>1. f \in Fragment
    BY <1>0, <1>1
  <2> QED BY <2>1 DEF Fragment
<1>3. PICK h : h = IF f.holes > 0 THEN f.holes - 1 ELSE 0
  OBVIOUS
<1>4. h \in 0 .. MaxHoles /\ g = [f EXCEPT !.holes = h]
  BY <1>0, <1>1, <1>2, <1>3 DEF Filled
<1>5. g \in Fragment
  BY <1>2, <1>4 DEF Fragment
<1>6. PICK s : s = [m.body EXCEPT ![i] = g]
  OBVIOUS
<1>7. s \in Seq(Fragment)
  BY <1>1, <1>5, <1>6
<1>8. PICK fl : fl = PatchedFlags(m.flags, more)
  OBVIOUS
<1>9. fl \in SUBSET Flags
  BY <1>1, <1>8 DEF PatchedFlags
<1>10. r = [m EXCEPT !.body = s, !.flags = fl]
  BY <1>0, <1>6, <1>8 DEF PatchedEntry
<1>11. r \in ChunkMeta /\ r.off = m.off
  BY <1>7, <1>9, <1>10 DEF ChunkMeta
<1> QED BY <1>0, <1>11

LEMMA PatchSafe ==
  ASSUME BufferInv, NEW k \in Keys, NEW i \in 1 .. MaxFragments, NEW more \in BOOLEAN,
         TryPatchChunkContents(k, i, more)
  PROVE  Safe
<1>0. /\ Intact(buf) /\ OthersType /\ ReaderInPlace
      /\ UNCHANGED <<last, discard, pc, iter, dropped, abi>> /\ pc = "idle"
  BY DEF BufferInv, TryPatchChunkContents
<1>1. OthersType' /\ ReaderInPlace'
  BY <1>0 DEF OthersType, ReaderInPlace
<1>2. buf' = buf \/ Edits(buf, buf')
  <2>1. CASE CanPatch(k, i)
    <3>1. PICK m, g, r : m = buf.index[k] /\ g = Filled(m.body[i]) /\ r = PatchedEntry(m, i, more)
      OBVIOUS
    <3>2. k \in DOMAIN buf.index /\ m \in ChunkMeta /\ i <= Len(m.body)
      BY <1>0, <2>1, <3>1 DEF CanPatch, Intact, BufferType
    <3>3. r \in ChunkMeta /\ r.off = buf.index[k].off
      BY <3>1, <3>2, PatchedMeta
    <3>4. r = [m EXCEPT !.body = [@ EXCEPT ![i] = g], !.flags = PatchedFlags(@, more)]
      BY <3>1 DEF PatchedEntry
    <3>5. buf' = [buf EXCEPT !.index[k].body = [@ EXCEPT ![i] = g],
                             !.index[k].flags = PatchedFlags(@, more)]
      BY <2>1, <3>1 DEF TryPatchChunkContents, Filled
    <3>6. DOMAIN buf = Fields
      BY <1>0 DEF Intact, BufferType, Fields
    <3>7. buf' = [buf EXCEPT !.index[k] = r]
      BY <3>1, <3>2, <3>4, <3>5, <3>6, ZenonT(60) DEF Fields, ChunkMeta
    <3> QED BY <1>0, <3>3, <3>7, EditOne
  <2> QED BY <2>1 DEF TryPatchChunkContents
<1> QED BY <1>0, <1>1, <1>2, EditSafe

(***************************************************************************)
(* Reading                                                                 *)
(***************************************************************************)
(* A position of the reader from which it can go on.                       *)
Iters == [seq : 0 .. NumSeqs, cur : ChunkIDs, valid : BOOLEAN]
InPlace(it, keys) == it \in Iters /\ (it.valid => <<it.seq, it.cur>> \in keys)

LEMMA NoIterInPlace ==
  ASSUME NEW keys
  PROVE  InPlace(NoIter, keys) /\ ~NoIter.valid
<1>1. 0 \in 0 .. NumSeqs /\ 0 \in ChunkIDs
  BY BufferAssumption DEF ChunkIDs
<1> QED BY <1>1 DEF InPlace, NoIter, Iters

LEMMA EndedInPlace ==
  ASSUME NEW it \in Iters, NEW keys
  PROVE  InPlace([it EXCEPT !.valid = FALSE], keys)
BY DEF InPlace, Iters

LEMMA MovedInPlace ==
  ASSUME NEW it \in Iters, NEW keys, NEW i \in ChunkIDs, <<it.seq, i>> \in keys
  PROVE  InPlace([it EXCEPT !.cur = i], keys)
BY DEF InPlace, Iters

LEMMA KeyParts ==
  ASSUME NEW k \in Keys
  PROVE  /\ k = <<k[1], k[2]>> /\ k[1] \in 1 .. NumSeqs /\ k[2] \in ChunkIDs
         /\ k[1] \in Nat /\ k[2] \in Nat
<1>1. NumSeqs \in Nat /\ NumChunkIDs \in Nat
  BY BufferAssumption
<1> QED BY <1>1 DEF Keys, Sequences, ChunkIDs

(* The reader starts a sequence at a chunk that is there.                  *)
LEMMA SequenceBegins ==
  ASSUME Intact(buf), NEW n \in Nat, SeqsFrom(n) # {},
         NEW it, it = GetReadIterForSequence(Min(SeqsFrom(n)))
  PROVE  InPlace(it, DOMAIN buf.index)
<1>0. DOMAIN buf.index \subseteq Keys
  BY DEF Intact, BufferType
<1>1. PICK T : T = SeqsFrom(n)
  OBVIOUS
<1>2. PICK s : s = Min(T)
  OBVIOUS
<1>3. T \subseteq Nat /\ T # {}
  BY <1>0, <1>1, KeyParts DEF SeqsFrom
<1>4. s \in T
  BY <1>2, <1>3, LeastNumber
<1>5. PICK k \in DOMAIN buf.index : k[1] = s
  BY <1>1, <1>4 DEF SeqsFrom
<1>6. PICK I : I = IdsOf(s)
  OBVIOUS
<1>7. \A i \in I : i \in Nat /\ i \in ChunkIDs /\ <<s, i>> \in DOMAIN buf.index
  <2>1. SUFFICES ASSUME NEW i \in I
                 PROVE  i \in Nat /\ i \in ChunkIDs /\ <<s, i>> \in DOMAIN buf.index
    OBVIOUS
  <2>2. PICK j \in DOMAIN buf.index : j[1] = s /\ j[2] = i
    BY <1>6 DEF IdsOf
  <2> QED BY <1>0, <2>2, KeyParts
<1>8. k[2] \in I
  BY <1>5, <1>6 DEF IdsOf
<1>9. PICK A : A = {i \in I : i > last[s]}
  OBVIOUS
<1>10. PICK cur : cur = IF A # {} THEN Min(A) ELSE Min(I)
  OBVIOUS
<1>11. cur \in I
  <2>1. A \subseteq Nat /\ A \subseteq I /\ I \subseteq Nat /\ I # {}
    BY <1>7, <1>8, <1>9
  <2>2. A # {} => Min(A) \in A
    BY <2>1, LeastNumber
  <2>3. Min(I) \in I
    BY <2>1, LeastNumber
  <2> QED BY <1>10, <2>1, <2>2, <2>3
<1>12. it = [seq |-> s, valid |-> TRUE, cur |-> cur]
  BY <1>1, <1>2, <1>6, <1>9, <1>10 DEF GetReadIterForSequence
<1>13. s \in 0 .. NumSeqs
  BY <1>0, <1>5, KeyParts, BufferAssumption
<1> QED BY <1>7, <1>11, <1>12, <1>13 DEF InPlace, Iters

LEMMA MoveNextInPlace ==
  ASSUME iter \in Iters, NEW it, it = MoveNext(iter)
  PROVE  InPlace(it, DOMAIN buf.index)
<1>0. iter.cur \in ChunkIDs
  BY DEF Iters
<1>1. PICK i : i = (iter.cur + 1) % NumChunkIDs
  OBVIOUS
<1>2. i \in ChunkIDs
  BY <1>0, <1>1, IdFacts
<1>3. CASE iter.valid /\ HasNext(iter.seq, iter.cur)
  <2>1. <<iter.seq, i>> \in DOMAIN buf.index /\ it = [iter EXCEPT !.cur = i]
    BY <1>1, <1>3 DEF HasNext, MoveNext
  <2> QED BY <1>2, <2>1, MovedInPlace
<1>4. CASE ~(iter.valid /\ HasNext(iter.seq, iter.cur))
  BY <1>4, EndedInPlace DEF MoveNext
<1> QED BY <1>3, <1>4

(* How the reader's steps end.                                             *)
LEMMA ReadStepSafe ==
  ASSUME BufferInv, buf' = buf \/ Edits(buf, buf'), UNCHANGED <<last, discard>>,
         dropped' \in BOOLEAN, abi' \in BOOLEAN,
         pc' \in {"idle", "chunk", "fragments"},
         InPlace(iter', DOMAIN buf.index),
         pc' = "fragments" => iter'.valid, pc' = "idle" => ~iter'.valid
  PROVE  Safe
<1>1. DOMAIN buf'.index = DOMAIN buf.index
  BY DEF Edits
<1>2. OthersType'
  BY DEF BufferInv, OthersType, InPlace, Iters
<1>3. ReaderInPlace'
  BY <1>1 DEF ReaderInPlace, InPlace
<1> QED BY <1>2, <1>3, EditSafe

LEMMA InvFacts ==
  ASSUME BufferInv
  PROVE  /\ Intact(buf) /\ iter \in Iters /\ dropped \in BOOLEAN /\ abi \in BOOLEAN
         /\ iter.cur \in ChunkIDs /\ iter.seq \in 0 .. NumSeqs /\ iter.seq + 1 \in Nat
         /\ InPlace(iter, DOMAIN buf.index)
         /\ pc = "fragments" => iter.valid
         /\ iter.valid => /\ AheadKey(0) = <<iter.seq, iter.cur>>
                          /\ AheadKey(0) \in DOMAIN buf.index
                          /\ Here = buf.index[AheadKey(0)] /\ Here \in ChunkMeta
<1>1. /\ Intact(buf) /\ iter \in Iters /\ dropped \in BOOLEAN /\ abi \in BOOLEAN
      /\ pc = "fragments" => iter.valid
      /\ iter.valid => <<iter.seq, iter.cur>> \in DOMAIN buf.index
  BY DEF BufferInv, OthersType, ReaderInPlace, Iters
<1>2. iter.cur \in ChunkIDs /\ iter.seq \in 0 .. NumSeqs /\ iter.seq + 1 \in Nat
  BY <1>1, BufferAssumption DEF Iters
<1>3. AheadKey(0) = <<iter.seq, iter.cur>>
  BY <1>2, IdFacts DEF AheadKey
<1>4. \A k \in DOMAIN buf.index : buf.index[k] \in ChunkMeta
  BY <1>1 DEF Intact, BufferType
<1>5. Here = buf.index[AheadKey(0)]
  BY DEF Here, Ahead
<1> QED BY <1>1, <1>2, <1>3, <1>4, <1>5 DEF InPlace

LEMMA BeginReadSafe ==
  ASSUME BufferInv, BeginRead
  PROVE  Safe
<1>1. /\ pc' = "chunk" /\ dropped' = TRUE /\ UNCHANGED <<buf, last, discard, abi>>
  BY DEF BeginRead
<1>2. InPlace(iter', DOMAIN buf.index)
  <2>1. CASE SeqsFrom(1) = {}
    BY <2>1, NoIterInPlace DEF BeginRead
  <2>2. CASE SeqsFrom(1) # {}
    BY <2>2, SequenceBegins, InvFacts DEF BeginRead
  <2> QED BY <2>1, <2>2
<1> QED BY <1>1, <1>2, InvFacts, ReadStepSafe

LEMMA EndOfSequenceSafe ==
  ASSUME BufferInv, EndOfSequence
  PROVE  Safe
<1>1. /\ pc = "chunk" /\ dropped' = TRUE /\ UNCHANGED <<buf, last, discard, abi>>
  BY DEF EndOfSequence
<1>2. CASE pc' = "idle" /\ iter' = NoIter
  <2>1. InPlace(iter', DOMAIN buf.index) /\ ~iter'.valid
    BY <1>2, NoIterInPlace
  <2> QED BY <1>1, <1>2, <2>1, InvFacts, ReadStepSafe
<1>3. CASE /\ SeqsFrom(iter.seq + 1) # {} /\ pc' = pc
           /\ iter' = GetReadIterForSequence(Min(SeqsFrom(iter.seq + 1)))
  <2>1. InPlace(iter', DOMAIN buf.index)
    BY <1>3, SequenceBegins, InvFacts
  <2> QED BY <1>1, <1>3, <2>1, InvFacts, ReadStepSafe
<1> QED BY <1>2, <1>3 DEF EndOfSequence

LEMMA EnterChunkSafe ==
  ASSUME BufferInv, EnterChunk
  PROVE  Safe
<1>1. pc = "chunk" /\ iter.valid /\ UNCHANGED <<buf, last, discard, abi>>
  BY DEF EnterChunk
<1>2. Here.skipped \in BOOLEAN
  BY <1>1, InvFacts DEF ChunkMeta
<1>3. CASE iter' = [iter EXCEPT !.valid = FALSE] /\ UNCHANGED <<pc, dropped>>
  <2>1. InPlace(iter', DOMAIN buf.index)
    BY <1>3, InvFacts, EndedInPlace
  <2> QED BY <1>1, <1>3, <2>1, InvFacts, ReadStepSafe
<1>4. CASE /\ dropped' = IF Here.num_fragments_read > 0 THEN Here.skipped ELSE dropped
           /\ pc' = "fragments" /\ UNCHANGED iter
  <2>1. dropped' \in BOOLEAN
    BY <1>2, <1>4, InvFacts
  <2>2. InPlace(iter', DOMAIN buf.index) /\ iter'.valid
    BY <1>1, <1>4, InvFacts
  <2> QED BY <1>1, <1>4, <2>1, <2>2, InvFacts, ReadStepSafe
<1> QED BY <1>3, <1>4 DEF EnterChunk

LEMMA LeaveChunkSafe ==
  ASSUME BufferInv, LeaveChunk
  PROVE  Safe
<1>1. pc' = "chunk" /\ iter' = MoveNext(iter) /\ UNCHANGED <<buf, last, discard, dropped, abi>>
  BY DEF LeaveChunk
<1>2. InPlace(iter', DOMAIN buf.index)
  BY <1>1, InvFacts, MoveNextInPlace
<1> QED BY <1>1, <1>2, InvFacts, ReadStepSafe

LEMMA ReadAheadFailsSafe ==
  ASSUME BufferInv, ReadAheadFails
  PROVE  Safe
<1>1. /\ iter' = [iter EXCEPT !.valid = FALSE] /\ pc' = "chunk"
      /\ UNCHANGED <<buf, last, discard, dropped, abi>>
  BY DEF ReadAheadFails
<1>2. InPlace(iter', DOMAIN buf.index)
  BY <1>1, InvFacts, EndedInPlace
<1> QED BY <1>1, <1>2, InvFacts, ReadStepSafe

(* Reading a fragment of the chunk the reader is at changes its entry.     *)
LEMMA FragmentEdits ==
  ASSUME BufferInv, iter.valid, NEW past,
         \/ buf' = [buf EXCEPT !.index[AheadKey(0)] = AfterFragment(@, past)]
         \/ buf' = [buf EXCEPT !.index[AheadKey(0)] =
                                 [AfterFragment(@, past) EXCEPT !.skipped = TRUE]]
  PROVE  Edits(buf, buf')
<1>1. PICK k, m : k = AheadKey(0) /\ m = buf.index[k]
  OBVIOUS
<1>2. Intact(buf) /\ k \in DOMAIN buf.index /\ m \in ChunkMeta
  BY <1>1, InvFacts
<1>3. PICK a, s : a = AfterFragment(m, past) /\ s = [AfterFragment(m, past) EXCEPT !.skipped = TRUE]
  OBVIOUS
<1>4. a \in ChunkMeta /\ a.off = buf.index[k].off /\ s \in ChunkMeta /\ s.off = buf.index[k].off
  BY <1>1, <1>2, <1>3, ReadMeta
<1>5. DOMAIN buf = Fields
  BY <1>2 DEF Intact, BufferType, Fields
<1>6. \/ buf' = [buf EXCEPT !.index[k] = a]
      \/ buf' = [buf EXCEPT !.index[k] = s]
  BY <1>1, <1>2, <1>3, <1>5 DEF Fields
<1> QED BY <1>2, <1>4, <1>6, EditOne

LEMMA SkipFragmentSafe ==
  ASSUME BufferInv, NEW past, SkipFragment(past)
  PROVE  Safe
<1>1. /\ pc = "fragments" /\ dropped' = TRUE /\ UNCHANGED <<last, discard, pc, iter>>
      /\ abi' \in BOOLEAN
  BY DEF SkipFragment
<1>2. iter.valid /\ InPlace(iter, DOMAIN buf.index)
  BY <1>1, InvFacts
<1>3. Edits(buf, buf')
  BY <1>2, FragmentEdits DEF SkipFragment
<1> QED BY <1>1, <1>2, <1>3, ReadStepSafe

(* A packet is returned at a chunk that is there.                          *)
LEMMA ReturnedInPlace ==
  ASSUME BufferInv, NEW frags, NEW id \in ChunkIDs, <<iter.seq, id>> \in DOMAIN buf.index,
         Returned(frags, id)
  PROVE  /\ dropped' = TRUE /\ pc' \in {"chunk", "idle"}
         /\ InPlace(iter', DOMAIN buf.index) /\ (pc' = "idle" => ~iter'.valid)
<1>1. InPlace([iter EXCEPT !.cur = id], DOMAIN buf.index)
  BY InvFacts, MovedInPlace
<1>2. InPlace(NoIter, DOMAIN buf.index) /\ ~NoIter.valid
  BY NoIterInPlace
<1> QED BY <1>1, <1>2 DEF Returned

LEMMA ReadOnePacketSafe ==
  ASSUME BufferInv, NEW past, ReadOnePacket(past)
  PROVE  Safe
<1>1. pc = "fragments" /\ UNCHANGED <<last, discard>>
  BY DEF ReadOnePacket
<1>2. /\ iter.valid /\ InPlace(iter, DOMAIN buf.index) /\ abi \in BOOLEAN
      /\ dropped \in BOOLEAN /\ iter.cur \in ChunkIDs
      /\ <<iter.seq, iter.cur>> \in DOMAIN buf.index /\ iter \in Iters
  BY <1>1, InvFacts DEF InPlace
<1>3. Edits(buf, buf')
  BY <1>2, FragmentEdits DEF ReadOnePacket
<1>4. CASE Returned(<<FragmentAt(Here, past)>>, iter.cur) /\ UNCHANGED abi
  BY <1>1, <1>2, <1>3, <1>4, ReturnedInPlace, ReadStepSafe
<1>5. CASE UNCHANGED <<pc, iter, dropped, abi>>
  BY <1>1, <1>2, <1>3, <1>5, ReadStepSafe
<1>6. CASE /\ dropped' = TRUE /\ iter' = MoveNext(iter) /\ pc' = "chunk"
           /\ abi' = (abi \/ KindAt(Here, past) = "invalid")
  <2>1. InPlace(iter', DOMAIN buf.index)
    BY <1>2, <1>6, MoveNextInPlace
  <2> QED BY <1>1, <1>2, <1>3, <1>6, <2>1, ReadStepSafe
<1> QED BY <1>4, <1>5, <1>6 DEF ReadOnePacket

(* The chunk where a packet ends is there.                                 *)
LEMMA PacketEndsInBuffer ==
  ASSUME BufferInv, NEW n \in 1 .. NumChunkIDs - 1, EndsAt(n)
  PROVE  /\ AheadKey(n) \in DOMAIN buf.index
         /\ AheadKey(n) = <<iter.seq, AheadKey(n)[2]>> /\ AheadKey(n)[2] \in ChunkIDs
<1>1. iter.cur \in ChunkIDs /\ NumChunkIDs \in Nat
  BY InvFacts, BufferAssumption
<1>2. PICK i, j : i = (iter.cur + (n - 1)) % NumChunkIDs /\ j = (iter.cur + n) % NumChunkIDs
  OBVIOUS
<1>3. (i + 1) % NumChunkIDs = j /\ j \in ChunkIDs
  BY <1>1, <1>2, IdFacts
<1>4. AheadKey(n - 1)[2] = i /\ AheadKey(n) = <<iter.seq, j>> /\ AheadKey(n)[2] = j
  BY <1>2 DEF AheadKey
<1>5. n - 1 \in 0 .. n - 1
  BY <1>1
<1>6. HasNext(iter.seq, i)
  BY <1>4, <1>5 DEF EndsAt
<1> QED BY <1>3, <1>4, <1>6 DEF HasNext

LEMMA ReadAheadSafe ==
  ASSUME BufferInv, NEW n \in 1 .. NumChunkIDs - 1, NEW past, ReadAhead(n, past)
  PROVE  Safe
<1> DEFINE js   == {j \in 0 .. n : Ahead(j).num_fragments > 0}
           bad  == \E j \in js : IsInvalid(Ahead(j), past)
<1>1. /\ pc = "fragments" /\ EndsAt(n) /\ UNCHANGED <<last, discard>>
  BY DEF ReadAhead
<1>2. PICK k, id : k = AheadKey(n) /\ id = AheadKey(n)[2]
  OBVIOUS
<1>3. k \in DOMAIN buf.index /\ k = <<iter.seq, id>> /\ id \in ChunkIDs
  BY <1>1, <1>2, PacketEndsInBuffer
<1>4. /\ iter.valid /\ Intact(buf) /\ iter \in Iters /\ abi \in BOOLEAN
      /\ \A x \in DOMAIN buf.index : buf.index[x] \in ChunkMeta
  BY <1>1, InvFacts DEF Intact, BufferType
<1>5. PICK keys : keys = {AheadKey(j) : j \in js}
  OBVIOUS
<1>6. PICK read : read = [x \in DOMAIN buf.index |->
                            IF x \in keys THEN AfterFragment(buf.index[x], past)
                            ELSE buf.index[x]]
  OBVIOUS
<1>7. /\ DOMAIN read = DOMAIN buf.index
      /\ \A x \in DOMAIN buf.index : read[x] \in ChunkMeta /\ read[x].off = buf.index[x].off
  BY <1>4, <1>6, ReadMeta
<1>8. PICK end : end = [read EXCEPT ![k].skipped = TRUE]
  OBVIOUS
<1>9. /\ DOMAIN end = DOMAIN buf.index
      /\ \A x \in DOMAIN buf.index : end[x] \in ChunkMeta /\ end[x].off = buf.index[x].off
  <2>1. PICK m : m = [read[k] EXCEPT !.skipped = TRUE]
    OBVIOUS
  <2>2. m \in ChunkMeta /\ m.off = buf.index[k].off
    BY <1>3, <1>7, <2>1, SkippedMeta
  <2>3. end = [read EXCEPT ![k] = m]
    BY <1>8, <2>1
  <2> QED BY <1>7, <2>2, <2>3
<1>10. CASE /\ buf' = [buf EXCEPT !.index = read] /\ UNCHANGED abi
            /\ \E frags : Returned(frags, id)
  <2>1. Edits(buf, buf')
    BY <1>4, <1>7, <1>10, EditAll
  <2>2. PICK frags : Returned(frags, id)
    BY <1>10
  <2>3. /\ dropped' = TRUE /\ pc' \in {"chunk", "idle"}
        /\ InPlace(iter', DOMAIN buf.index) /\ (pc' = "idle" => ~iter'.valid)
    BY <1>3, <2>2, ReturnedInPlace
  <2> QED BY <1>1, <1>4, <1>10, <2>1, <2>3, ReadStepSafe
<1>11. CASE /\ buf' = [buf EXCEPT !.index = end] /\ iter' = [iter EXCEPT !.cur = id]
            /\ dropped' = TRUE /\ abi' \in BOOLEAN /\ UNCHANGED pc
  <2>1. Edits(buf, buf')
    BY <1>4, <1>9, <1>11, EditAll
  <2>2. InPlace(iter', DOMAIN buf.index) /\ iter'.valid
    BY <1>3, <1>4, <1>11, MovedInPlace DEF Iters
  <2> QED BY <1>1, <1>4, <1>11, <2>1, <2>2, ReadStepSafe
<1>12. \/ /\ buf' = [buf EXCEPT !.index = read] /\ UNCHANGED abi
          /\ \E frags : Returned(frags, id)
       \/ /\ buf' = [buf EXCEPT !.index = end] /\ iter' = [iter EXCEPT !.cur = id]
          /\ dropped' = TRUE /\ abi' \in BOOLEAN /\ UNCHANGED pc
  <2>1. PICK v : v = (abi \/ \E j \in js : KindAt(Ahead(j), past) = "invalid")
    OBVIOUS
  <2>2. v \in BOOLEAN
    BY <2>1
  <2> QED BY <1>2, <1>5, <1>6, <1>8, <2>1, <2>2 DEF ReadAhead
<1> QED BY <1>10, <1>11, <1>12

(***************************************************************************)
(* The theorems                                                            *)
(***************************************************************************)
LEMMA NextSafe ==
  ASSUME BufferInv, [Next]_vars
  PROVE  Safe
<1>1. CASE UNCHANGED vars
  <2>1. OthersType' /\ ReaderInPlace'
    BY <1>1 DEF vars, BufferInv, OthersType, ReaderInPlace
  <2> QED BY <1>1, <2>1, EditSafe DEF vars
<1>2. ASSUME NEW c \in Inputs, CopyChunkUntrusted(c) PROVE Safe
  BY <1>2, CopySafe
<1>3. ASSUME NEW k \in Keys, NEW i \in 1 .. MaxFragments, NEW more \in BOOLEAN,
             TryPatchChunkContents(k, i, more)
      PROVE  Safe
  BY <1>3, PatchSafe
<1>4. CASE BeginRead
  BY <1>4, BeginReadSafe
<1>5. CASE ReadStep
  <2>1. CASE EndOfSequence
    BY <2>1, EndOfSequenceSafe
  <2>2. CASE EnterChunk
    BY <2>2, EnterChunkSafe
  <2>3. CASE LeaveChunk
    BY <2>3, LeaveChunkSafe
  <2>4. CASE ReadAheadFails
    BY <2>4, ReadAheadFailsSafe
  <2>5. ASSUME NEW past, SkipFragment(past) PROVE Safe
    BY <2>5, SkipFragmentSafe
  <2>6. ASSUME NEW past, ReadOnePacket(past) PROVE Safe
    BY <2>6, ReadOnePacketSafe
  <2>7. ASSUME NEW past, NEW n \in 1 .. NumChunkIDs - 1, ReadAhead(n, past) PROVE Safe
    BY <2>7, ReadAheadSafe
  <2> QED BY <1>5, <2>1, <2>2, <2>3, <2>4, <2>5, <2>6, <2>7 DEF ReadStep
<1> QED BY <1>1, <1>2, <1>3, <1>4, <1>5 DEF Next

LEMMA InitSafe ==
  ASSUME Init
  PROVE  BufferInv
<1>1. PICK p \in Policies :
        buf = [recs |-> <<>>, wptr |-> 0, index |-> <<>>, overwrite_policy |-> p]
  BY DEF Init
<1>2. /\ DOMAIN buf = {"recs", "wptr", "index", "overwrite_policy"}
      /\ DOMAIN buf.recs = {} /\ DOMAIN buf.index = {} /\ buf.wptr = 0
      /\ buf.overwrite_policy \in Policies
  BY <1>1
<1>3. Size \in Nat \ {0} /\ NumSeqs \in Nat /\ 0 \in ChunkIDs
  BY BufferAssumption DEF ChunkIDs
<1>4. BufferType(buf)
  BY <1>2, <1>3 DEF BufferType
<1>5. Tiles(buf)
  BY <1>2, <1>3 DEF Tiles, Layout, Inside, Separate, Covered, Aligned
<1>6. IndexMatches(buf)
  BY <1>2 DEF IndexMatches
<1>7. OthersType
  <2>1. last \in [Sequences -> ChunkIDs]
    BY <1>3 DEF Init
  <2>2. iter \in Iters
    BY NoIterInPlace DEF Init, InPlace
  <2>3. discard \in BOOLEAN /\ dropped \in BOOLEAN /\ abi \in BOOLEAN
    BY Zenon DEF Init
  <2> QED BY <2>1, <2>2, <2>3 DEF Init, OthersType, Iters
<1>8. ReaderInPlace
  BY DEF Init, ReaderInPlace, NoIter
<1> QED BY <1>4, <1>5, <1>6, <1>7, <1>8 DEF BufferInv, Intact

(* The inductive invariant holds in every state of the buffer: whatever    *)
(* CopyChunkUntrusted(), TryPatchChunkContents() and the reader do, the    *)
(* records tile the ring, the index matches them and read_iter_ is at a    *)
(* chunk that is in the index.                                             *)
THEOREM BufferInvHolds == Spec => []BufferInv
<1>1. Init => BufferInv
  BY InitSafe
<1>2. BufferInv /\ [Next]_vars => BufferInv'
  BY NextSafe DEF Safe
<1> QED BY <1>1, <1>2, PTL DEF Spec

(* Every variable of the buffer keeps its type: in particular no offset    *)
(* leaves the ring and no index entry has a key or a count out of range.   *)
THEOREM BufferTypeHolds == Spec => []TypeOK
<1>1. BufferInv => TypeOK
  BY DEF BufferInv, Intact, BufferType, OthersType, TypeOK
<1> QED BY <1>1, BufferInvHolds, PTL

(* The ring is self-describing and the index matches it, for any size of   *)
(* the buffer and any chunks: from the beginning of the ring each record   *)
(* ends where the next begins, DeleteNextChunksFor() leaves no hole and no *)
(* overlap, and no index entry outlives its record.                        *)
THEOREM BufferIntactHolds == Spec => []BufferIntact
<1>1. BufferInv => BufferIntact
  BY TilesDescribe DEF BufferInv, Intact, BufferIntact
<1> QED BY <1>1, BufferInvHolds, PTL

(* In a buffer with the policy kDiscard no step removes a chunk that has   *)
(* not been read in full, and after discard_writes_ nothing enters or      *)
(* leaves the index.                                                       *)
THEOREM DiscardKeepsUnreadHolds == Spec => DiscardKeepsUnread
<1> DEFINE A == buf.overwrite_policy = "kDiscard" =>
                  /\ \A k \in DOMAIN buf.index :
                       IsUnread(buf.index[k]) => k \in DOMAIN buf'.index
                  /\ discard => discard' /\ DOMAIN buf'.index = DOMAIN buf.index
<1>1. BufferInv /\ [Next]_vars => [A]_vars
  BY NextSafe DEF Safe, KeepsUnread
<1>2. DiscardKeepsUnread <=> [][A]_vars
  BY DEF DiscardKeepsUnread
<1> HIDE DEF A
<1> QED BY <1>1, <1>2, BufferInvHolds, PTL DEF Spec
=============================================================================
