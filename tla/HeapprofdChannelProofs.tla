----------------------- MODULE HeapprofdChannelProofs -----------------------
(***************************************************************************)
(* Proofs about the channel from a profiled process to heapprofd, for any  *)
(* number of threads, any sizes of the buffer, the records and the         *)
(* batches, and any scenarios.                                             *)
(***************************************************************************)
EXTENDS HeapprofdChannel, SequenceTheorems, FiniteSetTheorems, TLAPS

(***************************************************************************)
(* The ring buffer.                                                        *)
(***************************************************************************)
-----------------------------------------------------------------------------
(* Positions in the buffer.                                                 *)

LEMMA AtType ==
  ASSUME NEW p \in Nat
  PROVE  at(p) \in 0 .. Size - 1
BY RingConstants DEF at

(* Two positions that are less than a buffer apart are different places.    *)
LEMMA AtApart ==
  ASSUME NEW p \in Nat, NEW q \in Nat, p < q, q - p < Size
  PROVE  at(p) # at(q)
<1> DEFINE a == p \div Size
           b == q \div Size
<1>0. Size \in Nat \ {0}
  BY RingConstants
<1>1. a \in Int /\ b \in Int /\ p % Size \in Int /\ q % Size \in Int
  BY <1>0
<1>2. p = Size * a + (p % Size) /\ q = Size * b + (q % Size)
  BY <1>0
<1> HIDE DEF a, b
<1> SUFFICES ASSUME p % Size = q % Size PROVE FALSE
  BY DEF at
<1>3. q - p = Size * b - Size * a
  BY <1>0, <1>1, <1>2
<1>4. Size * b - Size * a = Size * (b - a)
  BY <1>0, <1>1
<1>5. CASE b - a <= 0
  <2>1. Size * (b - a) <= 0
    BY <1>0, <1>1, <1>5
  <2> QED BY <1>3, <1>4, <2>1
<1>6. CASE b - a >= 1
  <2>1. Size * (b - a) >= Size
    BY <1>0, <1>1, <1>6
  <2> QED BY <1>0, <1>1, <1>3, <1>4, <2>1
<1> QED BY <1>1, <1>5, <1>6

-----------------------------------------------------------------------------
(* The inductive invariant.                                                 *)

LogRecord == [pos : Nat, size : Nat \ {0}, written : BOOLEAN]
WriteState == [at : {"idle", "lock", "failed", "reserve", "copy", "end", "written"},
               size : Nat, pos : Nat, free : Int]
ReadState == [at : {"idle", "begin", "nodata", "header", "corrupt", "handle",
                    "end", "done"},
              wpos : Nat, size : Int]

RingType ==
  /\ read_pos \in Nat /\ write_pos \in Nat /\ locked \in BOOLEAN
  /\ mem \in [0 .. Size - 1 -> Int]
  /\ wr \in [Threads -> WriteState]
  /\ rd \in ReadState
  /\ log \in Seq(LogRecord) /\ got \in Seq(Nat)

(* The records tile the space that was ever reserved.  That a record ends   *)
(* before every later one follows by induction on the numbers of records,   *)
(* and is kept here step by step instead.                                   *)
Tiling ==
  /\ write_pos = IF log = <<>> THEN 0 ELSE EndOf(Len(log))
  /\ \A k \in DOMAIN log : /\ log[k].pos = IF k = 1 THEN 0 ELSE EndOf(k - 1)
                           /\ EndOf(k) <= write_pos
  /\ \A j, k \in DOMAIN log : j < k => EndOf(j) <= log[k].pos

Space == read_pos <= write_pos /\ write_pos - read_pos <= Size

(* The reader gets the records in order, and read_pos is where the next one *)
(* is or will be; between HandleBuffer and EndRead it is still at the one   *)
(* that was handled.                                                        *)
NextPos(n) == IF n = Len(log) THEN write_pos ELSE log[n + 1].pos
InOrder ==
  /\ Len(got) <= Len(log)
  /\ \A i \in DOMAIN got : got[i] = i /\ log[i].written
  /\ rd.at # "end" => read_pos = NextPos(Len(got))
  /\ rd.at = "end" =>
       /\ Len(got) > 0 /\ read_pos = log[Len(got)].pos
       /\ rd.size = log[Len(got)].size

(* What the reader has seen so far: a write position that does not cut a    *)
(* record in two, then the size of a record that has been written.          *)
ReadInProgress ==
  /\ rd.at # "corrupt"
  /\ rd.at = "header" =>
       /\ read_pos < rd.wpos /\ rd.wpos <= write_pos
       /\ \A k \in DOMAIN log : log[k].pos < rd.wpos => EndOf(k) <= rd.wpos
  /\ rd.at = "handle" =>
       /\ Len(got) < Len(log) /\ log[Len(got) + 1].written
       /\ rd.size = log[Len(got) + 1].size

(* The memory of the records that the reader has not released.              *)
Live(k) == log[k].pos >= read_pos
Headers ==
  \A k \in DOMAIN log : Live(k) =>
    mem[at(log[k].pos)] = IF log[k].written THEN log[k].size ELSE 0
HasPayload(k) == \A i \in Cells(log[k].pos, log[k].size) : mem[i] = Mark(k)
Payloads == \A k \in DOMAIN log : Live(k) /\ log[k].written => HasPayload(k)

(* The one thread that holds the lock has room for its record, behind a     *)
(* header that is clear.                                                    *)
Reserving(t) == wr[t].at = "reserve"
LockHolder ==
  /\ \A t \in Threads : Reserving(t) =>
       /\ locked /\ wr[t].pos = write_pos
       /\ WithHeader(wr[t].size) <= write_avail(read_pos, write_pos)
       /\ mem[at(write_pos)] = 0
  /\ \A s, t \in Threads : Reserving(s) /\ Reserving(t) => s = t

(* A record that has not been written belongs to one thread that is at it,  *)
(* and whose copy is there when it comes to publish it.                     *)
Writing(t) == wr[t].at \in {"copy", "end"}
IsAt(t, k) == log[k].pos = wr[t].pos /\ log[k].size = wr[t].size /\ ~log[k].written
WritersInPlace ==
  /\ \A t \in Threads : wr[t].at = "lock" \/ Reserving(t) => wr[t].size > 0
  /\ \A t \in Threads : Writing(t) => \E k \in DOMAIN log : IsAt(t, k)
  /\ \A s, t \in Threads : Writing(s) /\ Writing(t) /\ wr[s].pos = wr[t].pos => s = t
  /\ \A k \in DOMAIN log : ~log[k].written =>
       \E t \in Threads : Writing(t) /\ wr[t].pos = log[k].pos
  /\ \A t \in Threads, k \in DOMAIN log :
       wr[t].at = "end" /\ IsAt(t, k) => HasPayload(k)

RingInv ==
  /\ RingType /\ Tiling /\ Space /\ InOrder /\ ReadInProgress
  /\ Headers /\ Payloads /\ LockHolder /\ WritersInPlace

-----------------------------------------------------------------------------
(* Facts about the records.                                                 *)

LEMMA LogFacts ==
  ASSUME RingType, NEW k \in DOMAIN log
  PROVE  /\ k \in Nat /\ k >= 1 /\ k <= Len(log) /\ Len(log) \in Nat
         /\ log[k] \in LogRecord
         /\ log[k].pos \in Nat /\ log[k].size \in Nat /\ log[k].size >= 1
         /\ log[k].written \in BOOLEAN
         /\ EndOf(k) = log[k].pos + log[k].size + 1
<1>1. /\ k \in Nat /\ k >= 1 /\ k <= Len(log) /\ Len(log) \in Nat
      /\ log[k] \in LogRecord
  BY DEF RingType
<1>2. log[k].pos \in Nat /\ log[k].size \in Nat /\ log[k].size >= 1
  BY <1>1 DEF LogRecord
<1>3. log[k].written \in BOOLEAN
  BY <1>1 DEF LogRecord
<1>4. EndOf(k) = log[k].pos + log[k].size + 1
  BY <1>2 DEF EndOf, WithHeader, kHeaderSize
<1> QED BY <1>1, <1>2, <1>3, <1>4

(* A position belongs to one record.                                        *)
LEMMA OnePosition ==
  ASSUME RingType, Tiling, NEW j \in DOMAIN log, NEW k \in DOMAIN log,
         log[j].pos = log[k].pos
  PROVE  j = k
<1>1. j < k => FALSE
  BY SMTT(30), LogFacts DEF Tiling
<1>2. k < j => FALSE
  BY LogFacts DEF Tiling
<1> QED BY <1>1, <1>2, LogFacts

LEMMA NumberAtFacts ==
  ASSUME RingType, Tiling, NEW k \in DOMAIN log
  PROVE  NumberAt(log[k].pos) = k
BY OnePosition DEF NumberAt

(* The units of a record that the reader has not released lie between the   *)
(* positions, and those of two records never overlap.                       *)
LEMMA InSpace ==
  ASSUME RingInv, NEW k \in DOMAIN log, Live(k), NEW i \in 0 .. log[k].size
  PROVE  /\ log[k].pos + i \in Nat
         /\ read_pos <= log[k].pos + i /\ log[k].pos + i < write_pos
BY SMTT(30), LogFacts DEF RingInv, RingType, Tiling, Live

LEMMA UnitsApart ==
  ASSUME RingInv, NEW p \in Nat, NEW q \in Nat, p # q,
         read_pos <= p, p < write_pos, read_pos <= q, q < write_pos
  PROVE  at(p) # at(q)
<1>1. CASE p < q
  BY <1>1, AtApart, RingConstants DEF RingInv, RingType, Space
<1>2. CASE q < p
  BY <1>2, AtApart, RingConstants DEF RingInv, RingType, Space
<1> QED BY <1>1, <1>2

LEMMA CellsAt ==
  ASSUME NEW p \in Nat, NEW n \in Nat, NEW c \in Cells(p, n)
  PROVE  \E i \in 1 .. n : c = at(p + i)
<1>1. PICK i \in 0 .. n - 1 : c = at(p + kHeaderSize + i)
  BY DEF Cells
<1>2. p + kHeaderSize + i = p + (i + 1) /\ i + 1 \in 1 .. n
  BY DEF kHeaderSize
<1> QED BY <1>1, <1>2

LEMMA CellsType ==
  ASSUME NEW p \in Nat, NEW n \in Nat
  PROVE  Cells(p, n) \subseteq 0 .. Size - 1
BY CellsAt, AtType

(* Writing the header or the payload of one record changes no header and no *)
(* payload of another, and a record's payload not its own header.           *)
LEMMA RecordsApart ==
  ASSUME RingInv, NEW j \in DOMAIN log, NEW k \in DOMAIN log, Live(j), Live(k)
  PROVE  /\ at(log[j].pos) \notin Cells(log[k].pos, log[k].size)
         /\ j # k => /\ at(log[j].pos) # at(log[k].pos)
                     /\ \A c \in Cells(log[j].pos, log[j].size) :
                          c \notin Cells(log[k].pos, log[k].size)
<1>0. RingType /\ Tiling /\ log[j].size \in Nat /\ log[k].size \in Nat
      /\ log[j].pos \in Nat /\ log[k].pos \in Nat
  BY LogFacts DEF RingInv
<1>1. ASSUME NEW i \in 0 .. log[j].size, NEW m \in 0 .. log[k].size,
             j # k \/ i # m
      PROVE  log[j].pos + i # log[k].pos + m
  <2>1. CASE j = k
    BY <1>0, <1>1, <2>1
  <2>2. /\ EndOf(j) = log[j].pos + log[j].size + 1
        /\ EndOf(k) = log[k].pos + log[k].size + 1
        /\ j \in Nat /\ k \in Nat
    BY <1>0, LogFacts
  <2>3. j < k => log[j].pos + log[j].size + 1 <= log[k].pos
    BY <1>0, <2>2 DEF Tiling
  <2>4. k < j => log[k].pos + log[k].size + 1 <= log[j].pos
    BY <1>0, <2>2 DEF Tiling
  <2>5. PICK p \in Nat, q \in Nat, a \in Nat, b \in Nat :
          p = log[j].pos /\ a = log[j].size /\ q = log[k].pos /\ b = log[k].size
    BY <1>0
  <2>6. CASE j < k
    <3>1. p + a + 1 <= q /\ i \in 0 .. a /\ m \in 0 .. b
      BY <2>3, <2>5, <2>6
    <3>2. p + i # q + m
      BY <3>1
    <3> QED BY <3>2, <2>5
  <2>7. CASE k < j
    <3>1. q + b + 1 <= p /\ i \in 0 .. a /\ m \in 0 .. b
      BY <2>4, <2>5, <2>7
    <3>2. p + i # q + m
      BY <3>1
    <3> QED BY <3>2, <2>5
  <2> QED BY <2>1, <2>2, <2>6, <2>7
<1>2. ASSUME NEW i \in 0 .. log[j].size, NEW m \in 0 .. log[k].size,
             j # k \/ i # m
      PROVE  at(log[j].pos + i) # at(log[k].pos + m)
  BY <1>1, <1>2, InSpace, UnitsApart
<1>3. \A c \in Cells(log[k].pos, log[k].size) :
        \E m \in 1 .. log[k].size : c = at(log[k].pos + m)
  BY <1>0, CellsAt
<1>4. \A c \in Cells(log[j].pos, log[j].size) :
        \E i \in 1 .. log[j].size : c = at(log[j].pos + i)
  BY <1>0, CellsAt
<1>5. /\ log[j].pos = log[j].pos + 0 /\ 0 \in 0 .. log[j].size
      /\ log[k].pos = log[k].pos + 0 /\ 0 \in 0 .. log[k].size
      /\ \A m \in 1 .. log[k].size : m \in 0 .. log[k].size /\ m # 0
      /\ \A i \in 1 .. log[j].size : i \in 0 .. log[j].size
  BY <1>0
<1>6. at(log[j].pos) \notin Cells(log[k].pos, log[k].size)
  BY <1>2, <1>3, <1>5
<1>7. j # k => at(log[j].pos) # at(log[k].pos)
  BY <1>2, <1>5
<1>8. ASSUME j # k, NEW c \in Cells(log[j].pos, log[j].size)
      PROVE  c \notin Cells(log[k].pos, log[k].size)
  BY <1>2, <1>3, <1>4, <1>5, <1>8
<1> QED BY <1>6, <1>7, <1>8

(* With room left, the place of the next header belongs to no record.       *)
LEMMA NextHeaderApart ==
  ASSUME RingInv, write_pos - read_pos < Size, NEW k \in DOMAIN log, Live(k)
  PROVE  /\ at(write_pos) # at(log[k].pos)
         /\ at(write_pos) \notin Cells(log[k].pos, log[k].size)
<1>0. /\ log[k].size \in Nat /\ log[k].pos \in Nat /\ Size \in Nat
      /\ write_pos \in Nat /\ read_pos \in Nat
  BY LogFacts, RingConstants DEF RingInv, RingType
<1>1. \A i \in 0 .. log[k].size : at(log[k].pos + i) # at(write_pos)
  <2> TAKE i \in 0 .. log[k].size
  <2>1. /\ log[k].pos + i \in Nat /\ log[k].pos + i < write_pos
        /\ write_pos - (log[k].pos + i) < Size
    BY <1>0, InSpace
  <2> QED BY <1>0, <2>1, AtApart
<1>2. \A c \in Cells(log[k].pos, log[k].size) :
        \E m \in 1 .. log[k].size : c = at(log[k].pos + m)
  BY <1>0, CellsAt
<1>3. log[k].pos = log[k].pos + 0 /\ 0 \in 0 .. log[k].size
  BY <1>0
<1> QED BY <1>0, <1>1, <1>2, <1>3

(* A record is released once the reader has got it, not before.             *)
LEMMA GotFacts ==
  ASSUME RingInv, NEW k \in DOMAIN log
  PROVE  /\ k > Len(got) => Live(k)
         /\ ~log[k].written => k > Len(got)
         /\ rd.at # "end" /\ k <= Len(got) => EndOf(k) <= read_pos
<1> RingType /\ Tiling /\ InOrder
  BY DEF RingInv
<1>0. /\ Len(got) \in Nat /\ Len(log) \in Nat
      /\ read_pos \in Nat /\ write_pos \in Nat
      /\ \A j \in DOMAIN log : EndOf(j) \in Nat /\ log[j].pos \in Nat
  <2>1. \A j \in DOMAIN log : EndOf(j) \in Nat /\ log[j].pos \in Nat
    BY LogFacts
  <2> QED BY <2>1 DEF RingType
<1>1. ~log[k].written => k > Len(got)
  BY <1>0, LogFacts DEF InOrder
<1>2. CASE rd.at = "end"
  BY SMTT(30), <1>0, <1>1, <1>2, LogFacts DEF Tiling, InOrder, Live
<1>3. CASE rd.at # "end" /\ Len(got) = Len(log)
  BY <1>0, <1>1, <1>3, LogFacts DEF Tiling, InOrder, NextPos
<1>4. CASE rd.at # "end" /\ Len(got) # Len(log)
  <2>1. Len(got) + 1 \in DOMAIN log /\ read_pos = log[Len(got) + 1].pos
    BY <1>0, <1>4, LogFacts DEF InOrder, NextPos, RingType
  <2>2. k > Len(got) => Live(k)
    BY SMTT(30), <1>0, <2>1, LogFacts DEF Tiling, Live
  <2>3. k <= Len(got) => EndOf(k) <= read_pos
    BY <1>0, <2>1, LogFacts DEF Tiling
  <2> QED BY <1>1, <2>2, <2>3
<1> QED BY <1>2, <1>3, <1>4

-----------------------------------------------------------------------------
(* The initial state, and the steps that leave memory and positions alone.  *)

LEMMA RingInitial == RingInit => RingInv
<1> SUFFICES ASSUME RingInit PROVE RingInv
  OBVIOUS
<1>1. RingType
  <2>1. wr \in [Threads -> WriteState] /\ rd \in ReadState
    BY DEF RingInit, Idle, NoRead, WriteState, ReadState
  <2>2. mem \in [0 .. Size - 1 -> Int]
    BY DEF RingInit
  <2>3. log \in Seq(LogRecord) /\ got \in Seq(Nat)
    BY DEF RingInit
  <2>4. read_pos \in Nat /\ write_pos \in Nat /\ locked \in BOOLEAN
    BY DEF RingInit
  <2> QED BY <2>1, <2>2, <2>3, <2>4 DEF RingType
<1>2. log = <<>> /\ got = <<>> /\ DOMAIN log = {} /\ DOMAIN got = {}
      /\ Len(log) = 0 /\ Len(got) = 0
  BY DEF RingInit
<1>3. Tiling /\ Space /\ InOrder
  BY <1>2, RingConstants DEF RingInit, Tiling, Space, InOrder, NextPos, NoRead
<1>4. ReadInProgress /\ Headers /\ Payloads
  BY <1>2 DEF RingInit, ReadInProgress, NoRead, Headers, Payloads
<1>5. LockHolder /\ WritersInPlace
  BY <1>2 DEF RingInit, LockHolder, WritersInPlace, Reserving, Writing, Idle
<1> QED BY <1>1, <1>3, <1>4, <1>5 DEF RingInv

(* A thread that neither holds the lock nor owns a record gives up, tries   *)
(* again or begins another write.                                           *)
LEMMA ThreadMoves ==
  ASSUME RingInv, NEW t \in Threads, NEW w \in WriteState,
         ~Reserving(t), ~Writing(t),
         w.at \in {"idle", "lock", "failed", "written"}, w.at = "lock" => w.size > 0,
         wr' = [wr EXCEPT ![t] = w],
         UNCHANGED <<read_pos, write_pos, locked, mem, rd, log, got>>
  PROVE  RingInv'
<1>1. RingType'
  BY DEF RingInv, RingType
<1>2. /\ Tiling' /\ Space' /\ InOrder' /\ ReadInProgress'
  BY DEF RingInv, Tiling, Space, InOrder, ReadInProgress, NextPos, EndOf
<1>3. Headers' /\ Payloads'
  BY DEF RingInv, Headers, Payloads, HasPayload, Live
<1>4. \A s \in Threads :
        /\ s # t => wr'[s] = wr[s]
        /\ Reserving(s)' => Reserving(s) /\ s # t
        /\ Writing(s)' => Writing(s) /\ s # t
        /\ wr'[s].at = "end" => s # t
        /\ wr'[s].at = "lock" => wr'[s].size > 0
  BY DEF RingInv, RingType, WritersInPlace, Reserving, Writing
<1>5. \A s \in Threads : Writing(s) => Writing(s)' /\ wr'[s] = wr[s]
  BY DEF RingInv, RingType, Writing
<1>6. LockHolder'
  BY <1>4 DEF RingInv, LockHolder, Reserving, write_avail, WithHeader
<1>7. WritersInPlace'
  BY <1>4, <1>5 DEF RingInv, WritersInPlace, Reserving, Writing, IsAt, HasPayload
<1> QED BY <1>1, <1>2, <1>3, <1>6, <1>7 DEF RingInv

(* The reader goes on to another step of its read, outside EndRead.         *)
LEMMA ReaderMoves ==
  ASSUME RingInv, rd' \in ReadState, rd.at # "end", rd'.at # "end", ReadInProgress',
         UNCHANGED <<read_pos, write_pos, locked, mem, wr, log, got>>
  PROVE  RingInv'
<1>1. RingType'
  BY DEF RingInv, RingType
<1>2. /\ Tiling' /\ Space' /\ InOrder'
  BY DEF RingInv, Tiling, Space, InOrder, NextPos, EndOf
<1>3. Headers' /\ Payloads'
  BY DEF RingInv, Headers, Payloads, HasPayload, Live
<1>4. LockHolder' /\ WritersInPlace'
  BY DEF RingInv, LockHolder, WritersInPlace, Reserving, Writing, IsAt, HasPayload
<1> QED BY <1>1, <1>2, <1>3, <1>4 DEF RingInv

LEMMA BeginReadStep ==
  ASSUME RingInv, BeginRead
  PROVE  RingInv'
<1> DEFINE next == IF write_pos - read_pos < kHeaderSize THEN "nodata" ELSE "header"
<1>0. /\ read_pos \in Nat /\ write_pos \in Nat /\ rd \in ReadState
      /\ next \in {"nodata", "header"} /\ (next = "header" => read_pos < write_pos)
  BY DEF RingInv, RingType, kHeaderSize
<1>5. rd.at = "begin" /\ rd' = [rd EXCEPT !.wpos = write_pos, !.at = next]
      /\ UNCHANGED <<read_pos, write_pos, locked, mem, wr, log, got>>
  BY DEF BeginRead
<1> HIDE DEF next
<1>1. /\ rd' \in ReadState /\ rd.at = "begin" /\ rd'.at \in {"nodata", "header"}
      /\ rd'.wpos = write_pos /\ (rd'.at = "header" => read_pos < write_pos)
      /\ UNCHANGED <<read_pos, write_pos, locked, mem, wr, log, got>>
  BY <1>0, <1>5 DEF ReadState
<1>2. \A k \in DOMAIN log : EndOf(k) <= write_pos
  BY DEF RingInv, Tiling
<1>3. ReadInProgress'
  BY <1>1, <1>2 DEF RingInv, RingType, ReadInProgress, EndOf
<1> QED BY <1>1, <1>3, ReaderMoves

(* The header that the reader loads is that of the next record: clear, or   *)
(* the size of a record that lies within the positions it knows.            *)
LEMMA LoadHeaderStep ==
  ASSUME RingInv, LoadHeader
  PROVE  RingInv'
<1> DEFINE k == Len(got) + 1
           size == mem[at(read_pos)]
<1> RingType /\ Tiling /\ InOrder
  BY DEF RingInv
<1>1. /\ rd.at = "header" /\ read_pos < rd.wpos /\ rd.wpos <= write_pos
      /\ \A j \in DOMAIN log : log[j].pos < rd.wpos => EndOf(j) <= rd.wpos
      /\ UNCHANGED <<read_pos, write_pos, locked, mem, wr, log, got>>
  BY DEF RingInv, ReadInProgress, LoadHeader
<1>2. /\ read_pos \in Nat /\ write_pos \in Nat /\ rd.wpos \in Nat
      /\ Len(got) \in Nat /\ Len(log) \in Nat /\ DOMAIN log = 1 .. Len(log)
  BY DEF RingType, ReadState
<1>3. k \in DOMAIN log /\ read_pos = log[k].pos
  BY <1>1, <1>2 DEF InOrder, NextPos
<1>4. size = IF log[k].written THEN log[k].size ELSE 0
  BY <1>2, <1>3 DEF RingInv, Headers, Live
<1>5. log[k].size \in Nat /\ log[k].size >= 1 /\ EndOf(k) = log[k].pos + log[k].size + 1
  BY <1>3, LogFacts
<1>6. EndOf(k) <= rd.wpos
  BY <1>1, <1>3
<1>7. size \in Int /\ rd \in ReadState
  BY <1>4, <1>5 DEF RingType
<1> DEFINE next == CASE size = 0 -> "nodata"
                     [] size < 0 \/ WithHeader(size) > rd.wpos - read_pos -> "corrupt"
                     [] OTHER -> "handle"
<1>10. rd' = [rd EXCEPT !.size = size, !.at = next]
  BY DEF LoadHeader
<1>8. CASE log[k].written
  <2>1. ~(size < 0 \/ WithHeader(size) > rd.wpos - read_pos) /\ size # 0
    BY SMTT(30), <1>2, <1>3, <1>4, <1>5, <1>6, <1>8 DEF WithHeader, kHeaderSize
  <2>2. next = "handle"
    BY <2>1
  <2> HIDE DEF next
  <2>3. rd' \in ReadState /\ rd'.at = "handle" /\ rd'.size = size
    BY <1>7, <1>10, <2>2 DEF ReadState
  <2>5. /\ rd'.size = log'[Len(got') + 1].size /\ log'[Len(got') + 1].written
        /\ Len(got') < Len(log')
    BY <1>1, <1>2, <1>3, <1>4, <1>8, <2>3
  <2>4. ReadInProgress'
    BY <2>3, <2>5 DEF ReadInProgress
  <2> QED BY <1>1, <2>3, <2>4, ReaderMoves
<1>9. CASE ~log[k].written
  <2>0. size = 0 /\ ~(size < 0 \/ WithHeader(size) > rd.wpos - read_pos)
    BY <1>1, <1>2, <1>4, <1>9 DEF WithHeader, kHeaderSize
  <2>1. next = "nodata"
    BY <2>0
  <2> HIDE DEF next
  <2>2. rd' \in ReadState /\ rd'.at = "nodata"
    BY <1>7, <1>10, <2>1 DEF ReadState
  <2>3. ReadInProgress'
    BY <2>2 DEF ReadInProgress
  <2> QED BY <1>1, <2>2, <2>3, ReaderMoves
<1> QED BY <1>8, <1>9

(* The record that is handled is the next one, whole.                       *)
LEMMA HandleBufferStep ==
  ASSUME RingInv, HandleBuffer
  PROVE  /\ RingInv'
         /\ Len(got) + 1 \in DOMAIN log /\ got' = Append(got, Len(got) + 1)
<1> DEFINE k == Len(got) + 1
           found == {mem[i] : i \in Cells(read_pos, rd.size)}
           records == {j \in DOMAIN log : found = {Mark(j)} /\ rd.size = log[j].size}
<1> RingType /\ Tiling /\ InOrder
  BY DEF RingInv
<1>1. /\ rd.at = "handle" /\ rd' = [rd EXCEPT !.at = "end"]
      /\ UNCHANGED <<read_pos, write_pos, locked, mem, wr, log>>
      /\ got' = Append(got, IF records = {} THEN 0 ELSE CHOOSE j \in records : TRUE)
  BY DEF HandleBuffer
<1>2. /\ Len(got) \in Nat /\ Len(log) \in Nat /\ DOMAIN log = 1 .. Len(log)
      /\ read_pos \in Nat /\ got \in Seq(Nat) /\ rd \in ReadState
  BY DEF RingType
<1>3. k \in DOMAIN log /\ log[k].written /\ rd.size = log[k].size
  BY <1>1, <1>2 DEF RingInv, ReadInProgress
<1>4. read_pos = log[k].pos
  BY <1>1, <1>2, <1>3 DEF InOrder, NextPos
<1>5. HasPayload(k)
  BY <1>2, <1>3, <1>4 DEF RingInv, Payloads, Live
<1>6. found = {Mark(k)}
  <2>1. log[k].size \in Nat /\ log[k].size >= 1
    BY <1>3, LogFacts
  <2>2. at(read_pos + kHeaderSize + 0) \in Cells(read_pos, rd.size)
    BY SMTT(30), <1>3, <2>1 DEF Cells
  <2>3. \A i \in Cells(read_pos, rd.size) : mem[i] = Mark(k)
    BY <1>3, <1>4, <1>5 DEF HasPayload
  <2> QED BY <2>2, <2>3
<1>7. records = {k}
  <2> HIDE DEF found
  <2>1. k \in records
    BY <1>3, <1>6
  <2>2. ASSUME NEW j \in records PROVE j = k
    <3>1. Mark(j) = Mark(k) /\ j \in Nat
      BY <1>2, <1>6
    <3> QED BY <1>2, <3>1 DEF Mark
  <2> QED BY <2>1, <2>2
<1>8. got' = Append(got, k)
  BY <1>1, <1>7
<1> HIDE DEF found, records
<1>9. RingType'
  <2>1. got' \in Seq(Nat)
    BY <1>2, <1>8
  <2>2. rd' \in ReadState
    BY <1>1, <1>2 DEF ReadState
  <2> QED BY <1>1, <2>1, <2>2 DEF RingType
<1>10. Tiling' /\ Space'
  BY <1>1 DEF RingInv, Tiling, Space, EndOf
<1>11. InOrder'
  <2>1. /\ Len(got') = k /\ DOMAIN got' = 1 .. k
        /\ \A i \in 1 .. k : got'[i] = IF i = k THEN k ELSE got[i]
    BY <1>2, <1>8
  <2>2. \A i \in 1 .. k : got'[i] = i /\ log[i].written
    BY <1>2, <1>3, <2>1 DEF InOrder
  <2>3. rd'.at = "end" /\ rd'.size = rd.size
    BY <1>1, <1>2 DEF ReadState
  <2> QED BY <1>1, <1>2, <1>3, <1>4, <2>1, <2>2, <2>3 DEF InOrder
<1>12. ReadInProgress'
  BY <1>1, <1>2 DEF ReadInProgress, ReadState
<1>13. Headers' /\ Payloads'
  BY <1>1 DEF RingInv, Headers, Payloads, HasPayload, Live
<1>14. LockHolder' /\ WritersInPlace'
  BY <1>1 DEF RingInv, LockHolder, WritersInPlace, Reserving, Writing, IsAt, HasPayload
<1> QED BY <1>3, <1>8, <1>9, <1>10, <1>11, <1>12, <1>13, <1>14 DEF RingInv

(* Releasing a record takes the reader to where the next one is.            *)
LEMMA EndReadStep ==
  ASSUME RingInv, EndRead
  PROVE  /\ RingInv'
         /\ rd.size \in Nat /\ rd.size >= 1 /\ read_pos' = read_pos + rd.size + 1
<1> DEFINE k == Len(got)
<1> RingType /\ Tiling /\ InOrder
  BY DEF RingInv
<1>1. /\ rd.at = "end" /\ rd' = [rd EXCEPT !.at = "done"]
      /\ read_pos' = read_pos + WithHeader(rd.size)
      /\ UNCHANGED <<write_pos, locked, mem, wr, log, got>>
  BY DEF EndRead
<1>2. /\ Len(got) \in Nat /\ Len(log) \in Nat /\ DOMAIN log = 1 .. Len(log)
      /\ read_pos \in Nat /\ write_pos \in Nat /\ rd \in ReadState
  BY DEF RingType
<1>3. k \in DOMAIN log /\ read_pos = log[k].pos /\ rd.size = log[k].size
  BY <1>1, <1>2 DEF InOrder
<1>4. log[k].size \in Nat /\ log[k].size >= 1 /\ EndOf(k) = log[k].pos + log[k].size + 1
  BY <1>3, LogFacts
<1>5. read_pos' = EndOf(k) /\ read_pos' > read_pos /\ read_pos' \in Nat
  BY <1>1, <1>2, <1>3, <1>4 DEF WithHeader, kHeaderSize
<1>6. rd' \in ReadState /\ rd'.at = "done"
  BY <1>1, <1>2 DEF ReadState
<1>7. RingType'
  BY <1>1, <1>5, <1>6 DEF RingType
<1>8. Tiling'
  BY <1>1 DEF Tiling, EndOf
<1>9. Space'
  BY <1>1, <1>2, <1>3, <1>5, RingConstants DEF RingInv, Space, Tiling
<1>10. InOrder'
  <2>1. EndOf(k) = NextPos(k)
    <3>1. CASE k = Len(log)
      BY <1>2, <1>3, <3>1 DEF Tiling, NextPos
    <3>2. CASE k # Len(log)
      <4>1. k + 1 \in DOMAIN log /\ k + 1 # 1 /\ (k + 1) - 1 = k
        BY <1>2, <1>3, <3>2
      <4> QED BY <3>2, <4>1 DEF Tiling, NextPos
    <3> QED BY <3>1, <3>2
  <2>2. NextPos(k)' = NextPos(k)
    BY <1>1 DEF NextPos
  <2> QED BY <1>1, <1>5, <1>6, <2>1, <2>2 DEF InOrder
<1>11. ReadInProgress'
  BY <1>6 DEF ReadInProgress
<1>12. \A j \in DOMAIN log : Live(j)' => Live(j)
  BY <1>1, <1>2, <1>5, LogFacts DEF Live
<1>13. Headers' /\ Payloads'
  BY <1>1, <1>12 DEF RingInv, Headers, Payloads, HasPayload
<1>14. LockHolder'
  <2>1. write_avail(read_pos, write_pos) <= write_avail(read_pos', write_pos)
        /\ write_avail(read_pos, write_pos) \in Int /\ write_avail(read_pos', write_pos) \in Int
    BY <1>2, <1>5, RingConstants DEF write_avail
  <2>2. \A t \in Threads : WithHeader(wr[t].size) \in Int
    BY DEF RingType, WriteState, WithHeader, kHeaderSize
  <2>3. ASSUME NEW t \in Threads, Reserving(t)
        PROVE  WithHeader(wr[t].size) <= write_avail(read_pos', write_pos)
    <3>1. WithHeader(wr[t].size) <= write_avail(read_pos, write_pos)
      BY <2>3 DEF RingInv, LockHolder
    <3> QED BY <2>1, <2>2, <3>1
  <2> QED BY <1>1, <2>3 DEF RingInv, LockHolder, Reserving
<1>15. WritersInPlace'
  BY <1>1 DEF RingInv, WritersInPlace, Reserving, Writing, IsAt, HasPayload
<1> QED
  BY <1>1, <1>3, <1>4, <1>5, <1>7, <1>8, <1>9, <1>10, <1>11, <1>13, <1>14, <1>15
  DEF RingInv

-----------------------------------------------------------------------------
(* The steps of a writing thread.                                           *)

LEMMA LockTimesOutStep ==
  ASSUME RingInv, NEW t \in Threads, LockTimesOut(t)
  PROVE  RingInv'
<1> DEFINE w == [wr[t] EXCEPT !.at = "failed"]
<1>1. wr[t] \in WriteState /\ wr[t].at = "lock"
  BY DEF RingInv, RingType, LockTimesOut
<1>2. w \in WriteState /\ w.at = "failed"
  BY <1>1 DEF WriteState
<1>3. ~Reserving(t) /\ ~Writing(t)
  BY <1>1 DEF Reserving, Writing
<1>4. wr' = [wr EXCEPT ![t] = w]
      /\ UNCHANGED <<read_pos, write_pos, locked, mem, rd, log, got>>
  BY DEF LockTimesOut
<1> HIDE DEF w
<1> QED BY <1>2, <1>3, <1>4, ThreadMoves

(* Every step of the memory that spares the units of the live records       *)
(* spares their headers and payloads.                                       *)
LEMMA MemoryKept ==
  ASSUME RingInv, UNCHANGED <<read_pos, log>>,
         \A k \in DOMAIN log : Live(k) =>
           /\ mem'[at(log[k].pos)] = mem[at(log[k].pos)]
           /\ \A i \in Cells(log[k].pos, log[k].size) : mem'[i] = mem[i]
  PROVE  /\ Headers' /\ Payloads'
         /\ \A k \in DOMAIN log : Live(k) /\ HasPayload(k) => HasPayload(k)'
<1>1. \A k \in DOMAIN log : Live(k)' <=> Live(k)
  BY DEF Live
<1>2. \A k \in DOMAIN log : Live(k) /\ HasPayload(k) => HasPayload(k)'
  BY DEF HasPayload
<1>3. Headers'
  BY <1>1 DEF RingInv, Headers
<1>4. Payloads'
  BY <1>1, <1>2 DEF RingInv, Payloads
<1> QED BY <1>2, <1>3, <1>4

(* Under the lock the next header is cleared; it is no live record's.       *)
LEMMA BeginWriteStep ==
  ASSUME RingInv, NEW t \in Threads, BeginWrite(t)
  PROVE  RingInv'
<1> DEFINE avail == write_avail(read_pos, write_pos)
<1> RingType /\ Tiling /\ InOrder
  BY DEF RingInv
<1>1. /\ wr[t].at = "lock" /\ ~locked /\ wr[t] \in WriteState
      /\ wr[t].size \in Nat /\ wr[t].size > 0
      /\ UNCHANGED <<read_pos, write_pos, rd, log, got>>
  BY DEF RingInv, RingType, WritersInPlace, BeginWrite, WriteState
<1>2. /\ read_pos \in Nat /\ write_pos \in Nat /\ Size \in Nat
      /\ mem \in [0 .. Size - 1 -> Int] /\ avail \in Int
      /\ WithHeader(wr[t].size) = wr[t].size + 1
      /\ avail = Size - (write_pos - read_pos)
  BY <1>1, RingConstants DEF RingType, write_avail, WithHeader, kHeaderSize
<1>3. ~Reserving(t) /\ ~Writing(t)
  BY <1>1 DEF Reserving, Writing
<1>4. CASE WithHeader(wr[t].size) > avail
  <2> DEFINE w == [wr[t] EXCEPT !.at = "failed"]
  <2>1. wr' = [wr EXCEPT ![t] = w]
        /\ UNCHANGED <<read_pos, write_pos, locked, mem, rd, log, got>>
    BY <1>4 DEF BeginWrite
  <2>2. w \in WriteState /\ w.at = "failed"
    BY <1>1 DEF WriteState
  <2> HIDE DEF w
  <2> QED BY <1>3, <2>1, <2>2, ThreadMoves
<1>5. CASE ~(WithHeader(wr[t].size) > avail)
  <2>1. /\ wr' = [wr EXCEPT ![t].at = "reserve", ![t].pos = write_pos, ![t].free = avail]
        /\ mem' = [mem EXCEPT ![at(write_pos)] = 0]
        /\ locked' = TRUE
    BY <1>5 DEF BeginWrite
  <2> HIDE DEF avail
  <2>2. write_pos - read_pos < Size /\ WithHeader(wr[t].size) <= avail
    BY <1>1, <1>2, <1>5
  <2>3. /\ wr'[t] \in WriteState /\ wr'[t].at = "reserve" /\ wr'[t].pos = write_pos
        /\ wr'[t].size = wr[t].size
        /\ \A s \in Threads : s # t => wr'[s] = wr[s]
        /\ wr' \in [Threads -> WriteState]
    BY <1>1, <1>2, <2>1 DEF RingType, WriteState
  <2>4. at(write_pos) \in 0 .. Size - 1
    BY <1>2, AtType
  <2>5. /\ mem'[at(write_pos)] = 0 /\ mem' \in [0 .. Size - 1 -> Int]
        /\ \A i \in 0 .. Size - 1 : i # at(write_pos) => mem'[i] = mem[i]
    BY <1>2, <2>1, <2>4
  <2>6. \A k \in DOMAIN log : Live(k) =>
           /\ mem'[at(log[k].pos)] = mem[at(log[k].pos)]
           /\ \A i \in Cells(log[k].pos, log[k].size) : mem'[i] = mem[i]
    <3> SUFFICES ASSUME NEW k \in DOMAIN log, Live(k)
                 PROVE  /\ mem'[at(log[k].pos)] = mem[at(log[k].pos)]
                        /\ \A i \in Cells(log[k].pos, log[k].size) : mem'[i] = mem[i]
      OBVIOUS
    <3>1. log[k].pos \in Nat /\ log[k].size \in Nat
      BY LogFacts
    <3>2. /\ at(log[k].pos) \in 0 .. Size - 1
          /\ Cells(log[k].pos, log[k].size) \subseteq 0 .. Size - 1
      BY <3>1, AtType, CellsType
    <3> QED BY <2>2, <2>5, <3>2, NextHeaderApart
  <2>7. /\ Headers' /\ Payloads'
        /\ \A k \in DOMAIN log : Live(k) /\ HasPayload(k) => HasPayload(k)'
    BY <1>1, <2>6, MemoryKept
  <2>8. RingType'
    BY <1>1, <2>1, <2>3, <2>5 DEF RingType
  <2>9. Tiling' /\ Space' /\ InOrder' /\ ReadInProgress'
    BY <1>1 DEF RingInv, Tiling, Space, InOrder, ReadInProgress, NextPos, EndOf
  <2>10. \A s \in Threads : /\ Reserving(s)' => s = t
                            /\ Writing(s)' => Writing(s) /\ s # t
                            /\ Writing(s) => Writing(s)' /\ s # t
    BY <1>1, <2>3 DEF RingInv, LockHolder, Reserving, Writing
  <2>11. LockHolder'
    BY <1>1, <2>1, <2>2, <2>3, <2>5, <2>10
    DEF LockHolder, write_avail, avail
  <2>12. WritersInPlace'
    <3>1. \A s \in Threads, k \in DOMAIN log : s # t => (IsAt(s, k)' <=> IsAt(s, k))
      BY <1>1, <2>3 DEF IsAt
    <3>2. \A s \in Threads, k \in DOMAIN log : IsAt(s, k) => Live(k)
      BY GotFacts DEF IsAt
    <3>3. \A s \in Threads : wr'[s].at = "lock" \/ Reserving(s)' => wr'[s].size > 0
      BY <1>1, <2>3, <2>10 DEF RingInv, WritersInPlace
    <3>4. \A s \in Threads : Writing(s)' => \E k \in DOMAIN log' : IsAt(s, k)'
      BY <1>1, <2>10, <3>1 DEF RingInv, WritersInPlace
    <3>5. \A s, u \in Threads : Writing(s)' /\ Writing(u)' /\ wr'[s].pos = wr'[u].pos => s = u
      BY <2>3, <2>10 DEF RingInv, WritersInPlace
    <3>6. \A k \in DOMAIN log' : ~log'[k].written =>
             \E s \in Threads : Writing(s)' /\ wr'[s].pos = log'[k].pos
      BY <1>1, <2>3, <2>10 DEF RingInv, WritersInPlace
    <3>7. \A s \in Threads, k \in DOMAIN log' :
            wr'[s].at = "end" /\ IsAt(s, k)' => HasPayload(k)'
      <4>1. \A s \in Threads : wr'[s].at = "end" => s # t /\ wr[s].at = "end"
        BY <2>3
      <4> QED BY <1>1, <2>7, <3>1, <3>2, <4>1 DEF RingInv, WritersInPlace
    <3> QED BY <3>3, <3>4, <3>5, <3>6, <3>7 DEF WritersInPlace
  <2> QED BY <2>7, <2>8, <2>9, <2>11, <2>12 DEF RingInv
<1> QED BY <1>4, <1>5

(* Reserving appends a record where the write position was.                 *)
LEMMA AdvanceWritePosStep ==
  ASSUME RingInv, NEW t \in Threads, AdvanceWritePos(t)
  PROVE  /\ RingInv'
         /\ log' = Append(log, [pos |-> write_pos, size |-> wr[t].size, written |-> FALSE])
<1> DEFINE new == [pos |-> wr[t].pos, size |-> wr[t].size, written |-> FALSE]
<1> RingType /\ Tiling /\ InOrder
  BY DEF RingInv
<1>0. log \in Seq(LogRecord) /\ got \in Seq(Nat) /\ Len(log) \in Nat /\ Len(got) \in Nat
  BY DEF RingType
<1> PICK n \in Nat : n = Len(log) + 1
  BY <1>0
<1> PICK m \in Nat : m = Len(got)
  BY <1>0
<1>1. /\ wr[t].at = "reserve" /\ Reserving(t)
      /\ write_pos' = write_pos + WithHeader(wr[t].size)
      /\ locked' = FALSE
      /\ wr' = [wr EXCEPT ![t].at = "copy"]
      /\ log' = Append(log, new)
      /\ UNCHANGED <<read_pos, mem, rd, got>>
  BY DEF AdvanceWritePos, Reserving
<1>2. /\ wr[t].pos = write_pos /\ wr[t].size \in Nat /\ wr[t].size > 0
      /\ WithHeader(wr[t].size) = wr[t].size + 1
      /\ wr[t].size + 1 <= Size - (write_pos - read_pos)
      /\ mem[at(write_pos)] = 0 /\ Size \in Nat
      /\ read_pos \in Nat /\ write_pos \in Nat /\ read_pos <= write_pos
  <2>1. wr[t].size \in Nat /\ read_pos \in Nat /\ write_pos \in Nat /\ Size \in Nat
    BY RingConstants DEF RingType, WriteState
  <2>2. /\ wr[t].pos = write_pos /\ wr[t].size > 0 /\ mem[at(write_pos)] = 0
        /\ WithHeader(wr[t].size) <= write_avail(read_pos, write_pos)
        /\ read_pos <= write_pos
    BY <1>1 DEF RingInv, LockHolder, WritersInPlace, Space
  <2> QED BY <2>1, <2>2 DEF WithHeader, write_avail, kHeaderSize
<1>3. /\ Len(log) \in Nat /\ Len(got) \in Nat /\ DOMAIN log = 1 .. Len(log)
      /\ new \in LogRecord /\ log' \in Seq(LogRecord) /\ Len(log') = n
      /\ DOMAIN log' = 1 .. n /\ log'[n] = new
      /\ \A k \in DOMAIN log : log'[k] = log[k]
  <2>1. new \in LogRecord
    BY <1>2 DEF LogRecord
  <2> QED BY <1>0, <1>1, <2>1
<1>4. /\ new.pos = write_pos /\ new.size = wr[t].size /\ new.written = FALSE
  BY <1>2
<1> HIDE DEF new
<1>5. /\ wr' \in [Threads -> WriteState] /\ wr'[t].at = "copy" /\ wr'[t].pos = wr[t].pos
      /\ wr'[t].size = wr[t].size
      /\ \A s \in Threads : s # t => wr'[s] = wr[s]
  BY <1>1 DEF RingType, WriteState
<1>6. write_pos' = write_pos + wr[t].size + 1 /\ write_pos' \in Nat
  BY <1>1, <1>2
<1>7. RingType'
  BY <1>1, <1>3, <1>5, <1>6 DEF RingType
<1>8. /\ \A k \in DOMAIN log : EndOf(k)' = EndOf(k) /\ EndOf(k) <= write_pos
                                /\ EndOf(k) \in Nat
      /\ EndOf(n)' = write_pos' /\ n \notin DOMAIN log
  <2>1. \A k \in DOMAIN log : EndOf(k)' = EndOf(k)
    BY <1>3 DEF EndOf
  <2>2. EndOf(n)' = write_pos'
    BY <1>2, <1>3, <1>4, <1>6 DEF EndOf, WithHeader, kHeaderSize
  <2>3. \A k \in DOMAIN log : EndOf(k) \in Nat
    BY LogFacts
  <2> QED BY <1>3, <2>1, <2>2, <2>3 DEF Tiling
<1>9. \A k \in DOMAIN log' : k \in DOMAIN log \/ k = n
  BY <1>3
<1>10. Tiling'
  <2>1. (write_pos = IF log = <<>> THEN 0 ELSE EndOf(Len(log)))'
    <3>1. log' # <<>>
      BY <1>3
    <3>2. EndOf(Len(log))' = EndOf(n)'
      BY <1>3 DEF EndOf
    <3> QED BY <1>8, <3>1, <3>2
  <2>2. \A k \in DOMAIN log' : EndOf(k)' <= write_pos'
    <3>1. \A k \in DOMAIN log : EndOf(k)' <= write_pos'
      BY <1>2, <1>6, <1>8
    <3> QED BY <1>6, <1>8, <1>9, <3>1
  <2>3. \A k \in DOMAIN log' : log'[k].pos = IF k = 1 THEN 0 ELSE EndOf(k - 1)'
    <3>1. ASSUME NEW k \in DOMAIN log
          PROVE  log'[k].pos = IF k = 1 THEN 0 ELSE EndOf(k - 1)'
      <4>1. k = 1 \/ k - 1 \in DOMAIN log
        BY <1>3
      <4> QED BY <1>3, <1>8, <4>1 DEF Tiling
    <3>2. log'[n].pos = IF n = 1 THEN 0 ELSE EndOf(n - 1)'
      <4>1. CASE n = 1
        <5>1. log = <<>>
          BY <1>3, <4>1 DEF RingType
        <5> QED BY <1>3, <1>4, <4>1, <5>1 DEF Tiling
      <4>2. CASE n # 1
        <5>1. n - 1 = Len(log) /\ n - 1 \in DOMAIN log /\ log # <<>>
          BY <1>3, <4>2
        <5> QED BY <1>3, <1>4, <1>8, <4>2, <5>1 DEF Tiling
      <4> QED BY <4>1, <4>2
    <3> QED BY <1>9, <3>1, <3>2
  <2>4. \A j, k \in DOMAIN log' : j < k => EndOf(j)' <= log'[k].pos
    <3>1. \A j, k \in DOMAIN log : j < k => EndOf(j)' <= log'[k].pos
      BY <1>3, <1>8 DEF Tiling
    <3>2. \A j \in DOMAIN log : EndOf(j)' <= log'[n].pos
      BY <1>3, <1>4, <1>8
    <3>3. \A k \in DOMAIN log' : ~(n < k)
      BY <1>3
    <3> QED BY <1>9, <3>1, <3>2, <3>3
  <2> QED BY <2>1, <2>2, <2>3, <2>4 DEF Tiling
<1>11. Space'
  BY SMTT(30), <1>1, <1>2, <1>6 DEF Space
<1>12. InOrder'
  <2>1. Len(got') <= Len(log')
    BY <1>1, <1>3 DEF InOrder
  <2>2. \A i \in DOMAIN got' : got'[i] = i /\ log'[i].written
    <3>1. DOMAIN got = 1 .. Len(got)
      BY DEF RingType
    <3>2. \A i \in DOMAIN got : i \in DOMAIN log
      BY <1>3, <3>1 DEF InOrder
    <3> QED BY <1>1, <1>3, <3>2 DEF InOrder
  <2>3. rd'.at # "end" => read_pos' = NextPos(m)'
    <3>1. CASE m = Len(log)
      <4>1. NextPos(m) = write_pos
        BY <3>1 DEF NextPos
      <4>2. NextPos(m)' = log'[n].pos
        BY <1>1, <1>3, <3>1 DEF NextPos
      <4> QED BY <1>1, <1>3, <1>4, <4>1, <4>2 DEF InOrder
    <3>2. CASE m # Len(log)
      <4>1. m + 1 \in DOMAIN log /\ m # n
        <5>1. m <= Len(log)
          BY DEF InOrder
        <5>2. DOMAIN log = 1 .. Len(log)
          BY <1>0
        <5>3. Len(log) \in Nat
          BY <1>0
        <5>4. m < Len(log)
          BY <3>2, <5>1, <5>3
        <5>5. m + 1 \in 1 .. Len(log) /\ m # n
          BY <5>3, <5>4
        <5> QED BY <5>2, <5>5
      <4>2. NextPos(m)' = log'[m + 1].pos /\ NextPos(m) = log[m + 1].pos
        BY <1>1, <1>3, <3>2, <4>1 DEF NextPos
      <4> QED BY <1>1, <1>3, <4>1, <4>2 DEF InOrder
    <3> QED BY <3>1, <3>2
  <2>4. rd'.at = "end" =>
          /\ Len(got') > 0 /\ read_pos' = log'[Len(got')].pos
          /\ rd'.size = log'[Len(got')].size
    <3>1. Len(got) > 0 => Len(got) \in DOMAIN log
      BY <1>3 DEF InOrder
    <3> QED BY <1>1, <1>3, <3>1 DEF InOrder
  <2>5. NextPos(Len(got))' = NextPos(m)'
    BY <1>1 DEF NextPos
  <2> QED BY <2>1, <2>2, <2>3, <2>4, <2>5 DEF InOrder
<1>13. ReadInProgress'
  <2>1. rd'.at # "corrupt"
    BY <1>1 DEF RingInv, ReadInProgress
  <2>2. ASSUME rd'.at = "header"
        PROVE  /\ read_pos' < rd'.wpos /\ rd'.wpos <= write_pos'
               /\ \A k \in DOMAIN log' : log'[k].pos < rd'.wpos => EndOf(k)' <= rd'.wpos
    <3>1. /\ read_pos < rd.wpos /\ rd.wpos <= write_pos /\ rd.wpos \in Nat
          /\ \A k \in DOMAIN log : log[k].pos < rd.wpos => EndOf(k) <= rd.wpos
      BY <1>1, <2>2 DEF RingInv, ReadInProgress, RingType, ReadState
    <3>2. ~(log'[n].pos < rd.wpos)
      BY <1>2, <1>3, <1>4, <3>1
    <3>3. \A k \in DOMAIN log : log'[k].pos < rd.wpos => EndOf(k)' <= rd.wpos
      BY <1>3, <1>8, <3>1
    <3>4. rd.wpos <= write_pos'
      BY <1>2, <1>6, <3>1
    <3>5. \A k \in DOMAIN log' : log'[k].pos < rd.wpos => EndOf(k)' <= rd.wpos
      BY <1>9, <3>2, <3>3
    <3> QED BY <1>1, <3>1, <3>4, <3>5
  <2>3. rd'.at = "handle" =>
          /\ Len(got') < Len(log') /\ log'[Len(got') + 1].written
          /\ rd'.size = log'[Len(got') + 1].size
    <3>1. Len(got) < Len(log) => Len(got) + 1 \in DOMAIN log
      BY <1>3
    <3> QED BY <1>1, <1>3, <3>1 DEF RingInv, ReadInProgress
  <2> QED BY <2>1, <2>2, <2>3 DEF ReadInProgress
<1>14. \A k \in DOMAIN log : /\ Live(k)' <=> Live(k)
                             /\ HasPayload(k)' <=> HasPayload(k)
  BY <1>1, <1>3 DEF Live, HasPayload
<1>15. Headers'
  <2>1. \A k \in DOMAIN log : Live(k)' =>
          mem'[at(log'[k].pos)] = IF log'[k].written THEN log'[k].size ELSE 0
    BY <1>1, <1>3, <1>14 DEF RingInv, Headers
  <2>2. mem'[at(log'[n].pos)] = IF log'[n].written THEN log'[n].size ELSE 0
    BY <1>1, <1>2, <1>3, <1>4
  <2> QED BY <1>9, <2>1, <2>2 DEF Headers
<1>16. Payloads'
  BY <1>3, <1>4, <1>9, <1>14 DEF RingInv, Payloads
<1>17. \A s \in Threads : /\ ~Reserving(s)'
                          /\ Writing(s)' <=> Writing(s) \/ s = t
  BY <1>1, <1>5 DEF RingInv, LockHolder, Reserving, Writing
<1>18. LockHolder'
  BY <1>17 DEF LockHolder
<1>19. WritersInPlace'
  <2>1. \A s \in Threads, k \in DOMAIN log : s # t => (IsAt(s, k)' <=> IsAt(s, k))
    BY <1>3, <1>5 DEF IsAt
  <2>2. IsAt(t, n)'
    BY <1>3, <1>4, <1>5, <1>2 DEF IsAt
  <2>3. \A s \in Threads : Writing(s) => wr[s].pos # write_pos
    <3> SUFFICES ASSUME NEW s \in Threads, Writing(s), wr[s].pos = write_pos PROVE FALSE
      OBVIOUS
    <3>1. PICK k \in DOMAIN log : IsAt(s, k)
      BY DEF RingInv, WritersInPlace
    <3>2. log[k].pos = write_pos /\ EndOf(k) = log[k].pos + log[k].size + 1
          /\ log[k].size \in Nat /\ EndOf(k) <= write_pos
      BY <1>8, <3>1, LogFacts DEF IsAt
    <3> QED BY <1>2, <3>2
  <2>4. ~Writing(t)
    BY <1>1 DEF Writing
  <2>5. \A s \in Threads : wr'[s].at = "lock" \/ Reserving(s)' => wr'[s].size > 0
    BY <1>5, <1>17 DEF RingInv, WritersInPlace
  <2>6. \A s \in Threads : Writing(s)' => \E k \in DOMAIN log' : IsAt(s, k)'
    <3>1. n \in DOMAIN log' /\ DOMAIN log \subseteq DOMAIN log'
      BY <1>3
    <3> QED BY <1>17, <2>1, <2>2, <2>4, <3>1 DEF RingInv, WritersInPlace
  <2>7. \A s, u \in Threads : Writing(s)' /\ Writing(u)' /\ wr'[s].pos = wr'[u].pos => s = u
    BY <1>2, <1>5, <1>17, <2>3, <2>4 DEF RingInv, WritersInPlace
  <2>8. \A k \in DOMAIN log' : ~log'[k].written =>
           \E s \in Threads : Writing(s)' /\ wr'[s].pos = log'[k].pos
    <3>1. \A s \in Threads : Writing(s) => Writing(s)' /\ wr'[s].pos = wr[s].pos
      BY <1>5, <1>17, <2>4
    <3>2. ASSUME NEW k \in DOMAIN log, ~log'[k].written
          PROVE  \E s \in Threads : Writing(s)' /\ wr'[s].pos = log'[k].pos
      BY <1>3, <3>1, <3>2 DEF RingInv, WritersInPlace
    <3>3. Writing(t)' /\ wr'[t].pos = log'[n].pos
      BY <1>2, <1>3, <1>4, <1>5, <1>17
    <3> QED BY <1>9, <3>2, <3>3
  <2>9. \A s \in Threads, k \in DOMAIN log' :
          wr'[s].at = "end" /\ IsAt(s, k)' => HasPayload(k)'
    <3>1. \A s \in Threads : wr'[s].at = "end" => s # t /\ wr[s].at = "end" /\ Writing(s)
      BY <1>5 DEF Writing
    <3>2. \A s \in Threads : wr'[s].at = "end" => ~IsAt(s, n)'
      BY <1>3, <1>4, <1>5, <2>3, <3>1 DEF IsAt
    <3> QED BY <1>9, <1>14, <2>1, <3>1, <3>2 DEF RingInv, WritersInPlace
  <2> QED BY <2>5, <2>6, <2>7, <2>8, <2>9 DEF WritersInPlace
<1>20. log' = Append(log, [pos |-> write_pos, size |-> wr[t].size, written |-> FALSE])
  BY <1>1, <1>2 DEF new
<1> QED BY <1>7, <1>10, <1>11, <1>12, <1>13, <1>15, <1>16, <1>18, <1>19, <1>20 DEF RingInv

(* A thread that copies or publishes is at one record, alone, and the       *)
(* reader has not released it.                                              *)
LEMMA OwnRecord ==
  ASSUME RingInv, NEW t \in Threads, Writing(t)
  PROVE  \E k \in DOMAIN log :
           /\ IsAt(t, k) /\ Live(k) /\ k > Len(got) /\ NumberAt(wr[t].pos) = k
           /\ \A s \in Threads : Writing(s) /\ IsAt(s, k) => s = t
           /\ \A j \in DOMAIN log : IsAt(t, j) => j = k
<1>1. PICK k \in DOMAIN log : IsAt(t, k)
  BY DEF RingInv, WritersInPlace
<1>2. Live(k) /\ k > Len(got)
  BY <1>1, GotFacts DEF IsAt
<1>3. NumberAt(wr[t].pos) = k
  BY <1>1, NumberAtFacts DEF RingInv, IsAt
<1>4. \A s \in Threads : Writing(s) /\ IsAt(s, k) => s = t
  BY <1>1 DEF RingInv, WritersInPlace, IsAt
<1>5. \A j \in DOMAIN log : IsAt(t, j) => j = k
  BY <1>1, OnePosition DEF RingInv, IsAt
<1> QED BY <1>1, <1>2, <1>3, <1>4, <1>5

(* The copy fills the payload of the thread's own record and spares all     *)
(* headers, the payloads of the other records and the next header.          *)
LEMMA CopyPayloadStep ==
  ASSUME RingInv, NEW t \in Threads, CopyPayload(t)
  PROVE  RingInv'
<1> RingType /\ Tiling /\ InOrder
  BY DEF RingInv
<1>1. /\ wr[t].at = "copy" /\ wr' = [wr EXCEPT ![t].at = "end"]
      /\ UNCHANGED <<read_pos, write_pos, locked, rd, log, got>>
      /\ mem' = [i \in DOMAIN mem |->
                   IF i \in Cells(wr[t].pos, wr[t].size)
                   THEN Mark(NumberAt(wr[t].pos)) ELSE mem[i]]
  BY DEF CopyPayload
<1>2. Writing(t)
  BY <1>1 DEF Writing
<1>3. PICK k \in DOMAIN log :
        /\ IsAt(t, k) /\ Live(k) /\ k > Len(got) /\ NumberAt(wr[t].pos) = k
        /\ \A s \in Threads : Writing(s) /\ IsAt(s, k) => s = t
        /\ \A j \in DOMAIN log : IsAt(t, j) => j = k
  BY <1>2, OwnRecord
<1>4. /\ k \in Nat /\ log[k].pos \in Nat /\ log[k].size \in Nat /\ Mark(k) \in Int
      /\ ~log[k].written
  BY <1>3, LogFacts DEF Mark, IsAt
<1>5. /\ mem \in [0 .. Size - 1 -> Int] /\ mem' \in [0 .. Size - 1 -> Int]
      /\ \A i \in 0 .. Size - 1 :
           mem'[i] = IF i \in Cells(log[k].pos, log[k].size) THEN Mark(k) ELSE mem[i]
  <2>1. mem \in [0 .. Size - 1 -> Int] /\ DOMAIN mem = 0 .. Size - 1
    BY DEF RingType
  <2>2. wr[t].pos = log[k].pos /\ wr[t].size = log[k].size
    BY <1>3 DEF IsAt
  <2> QED BY <1>1, <1>3, <1>4, <2>1, <2>2
<1>6. \A j \in DOMAIN log : /\ at(log[j].pos) \in 0 .. Size - 1
                            /\ Cells(log[j].pos, log[j].size) \subseteq 0 .. Size - 1
  BY LogFacts, AtType, CellsType
<1>7. HasPayload(k)'
  BY <1>1, <1>5, <1>6 DEF HasPayload
<1>8. \A j \in DOMAIN log : Live(j) => mem'[at(log[j].pos)] = mem[at(log[j].pos)]
  BY <1>3, <1>5, <1>6, RecordsApart
<1>9. \A j \in DOMAIN log : Live(j) /\ j # k /\ HasPayload(j) => HasPayload(j)'
  <2> SUFFICES ASSUME NEW j \in DOMAIN log, Live(j), j # k, HasPayload(j),
                      NEW i \in Cells(log[j].pos, log[j].size)
               PROVE  mem'[i] = Mark(j)
    BY <1>1 DEF HasPayload
  <2>1. i \in 0 .. Size - 1 /\ i \notin Cells(log[k].pos, log[k].size)
    BY <1>3, <1>6, RecordsApart
  <2> QED BY <1>5, <2>1 DEF HasPayload
<1>10. /\ wr' \in [Threads -> WriteState] /\ wr'[t].at = "end"
       /\ wr'[t].pos = wr[t].pos /\ wr'[t].size = wr[t].size
       /\ \A s \in Threads : s # t => wr'[s] = wr[s]
  BY <1>1 DEF RingType, WriteState
<1>11. RingType'
  BY <1>1, <1>5, <1>10 DEF RingType
<1>12. Tiling' /\ Space' /\ InOrder' /\ ReadInProgress'
  BY <1>1 DEF RingInv, Tiling, Space, InOrder, ReadInProgress, NextPos, EndOf
<1>13. \A j \in DOMAIN log : Live(j)' <=> Live(j)
  BY <1>1 DEF Live
<1>14. Headers'
  BY <1>1, <1>8, <1>13 DEF RingInv, Headers
<1>15. Payloads'
  BY <1>1, <1>4, <1>9, <1>13 DEF RingInv, Payloads
<1>16. \A s \in Threads : /\ Reserving(s)' <=> Reserving(s)
                          /\ Writing(s)' <=> Writing(s)
                          /\ wr'[s].pos = wr[s].pos /\ wr'[s].size = wr[s].size
                          /\ s # t => wr'[s].at = wr[s].at
  BY <1>1, <1>10 DEF Reserving, Writing
<1>17. LockHolder'
  <2>1. ASSUME NEW s \in Threads, Reserving(s)
        PROVE  mem'[at(write_pos)] = 0
    <3>1. /\ WithHeader(wr[s].size) <= write_avail(read_pos, write_pos)
          /\ mem[at(write_pos)] = 0 /\ wr[s].size \in Nat
          /\ read_pos \in Nat /\ write_pos \in Nat
      BY <2>1 DEF RingInv, LockHolder, RingType, WriteState
    <3>2. write_pos - read_pos < Size
      BY <3>1, RingConstants DEF WithHeader, write_avail, kHeaderSize
    <3>3. at(write_pos) \in 0 .. Size - 1
      BY <3>1, AtType
    <3> QED BY <1>3, <1>5, <3>1, <3>2, <3>3, NextHeaderApart
  <2> QED BY <1>1, <1>16, <2>1 DEF RingInv, LockHolder
<1>18. WritersInPlace'
  <2>1. \A s \in Threads, j \in DOMAIN log : IsAt(s, j)' <=> IsAt(s, j)
    BY <1>1, <1>16 DEF IsAt
  <2>2. \A s \in Threads : wr'[s].at = "lock" \/ Reserving(s)' => wr'[s].size > 0
    BY <1>10, <1>16 DEF RingInv, WritersInPlace
  <2>3. \A s \in Threads : Writing(s)' => \E j \in DOMAIN log' : IsAt(s, j)'
    BY <1>1, <1>16, <2>1 DEF RingInv, WritersInPlace
  <2>4. \A s, u \in Threads : Writing(s)' /\ Writing(u)' /\ wr'[s].pos = wr'[u].pos => s = u
    BY <1>16 DEF RingInv, WritersInPlace
  <2>5. \A j \in DOMAIN log' : ~log'[j].written =>
           \E s \in Threads : Writing(s)' /\ wr'[s].pos = log'[j].pos
    BY <1>1, <1>16 DEF RingInv, WritersInPlace
  <2>6. ASSUME NEW s \in Threads, NEW j \in DOMAIN log, wr'[s].at = "end", IsAt(s, j)
        PROVE  HasPayload(j)'
    <3>1. CASE s = t
      BY <1>3, <1>7, <2>6, <3>1
    <3>2. CASE s # t
      <4>1. wr[s].at = "end" /\ Writing(s)
        BY <1>16, <2>6, <3>2 DEF Writing
      <4>2. HasPayload(j) /\ j # k
        BY <1>3, <2>6, <3>2, <4>1 DEF RingInv, WritersInPlace
      <4>3. Live(j)
        BY <2>6, GotFacts DEF IsAt
      <4> QED BY <1>9, <4>2, <4>3
    <3> QED BY <3>1, <3>2
  <2> QED BY <1>1, <2>1, <2>2, <2>3, <2>4, <2>5, <2>6 DEF WritersInPlace
<1> QED BY <1>11, <1>12, <1>14, <1>15, <1>17, <1>18 DEF RingInv

(* Publishing stores the size in the header of the thread's own record,     *)
(* whose payload is there.                                                  *)
LEMMA EndWriteStep ==
  ASSUME RingInv, NEW t \in Threads, EndWrite(t)
  PROVE  /\ RingInv' /\ UNCHANGED got /\ Len(log') = Len(log)
         /\ \E k \in DOMAIN log :
              /\ k > Len(got) /\ ~log[k].written
              /\ log' = [log EXCEPT ![k].written = TRUE]
<1> RingType /\ Tiling /\ InOrder
  BY DEF RingInv
<1>1. /\ wr[t].at = "end" /\ wr' = [wr EXCEPT ![t].at = "written"]
      /\ UNCHANGED <<read_pos, write_pos, locked, rd, got>>
      /\ mem' = [mem EXCEPT ![at(wr[t].pos)] = wr[t].size]
      /\ log' = [log EXCEPT ![NumberAt(wr[t].pos)].written = TRUE]
  BY DEF EndWrite
<1>2. Writing(t)
  BY <1>1 DEF Writing
<1>3. PICK k \in DOMAIN log :
        /\ IsAt(t, k) /\ Live(k) /\ k > Len(got) /\ NumberAt(wr[t].pos) = k
        /\ \A s \in Threads : Writing(s) /\ IsAt(s, k) => s = t
        /\ \A j \in DOMAIN log : IsAt(t, j) => j = k
  BY <1>2, OwnRecord
<1>4. /\ k \in Nat /\ log[k].pos \in Nat /\ log[k].size \in Nat /\ log[k].size >= 1
      /\ ~log[k].written /\ wr[t].pos = log[k].pos /\ wr[t].size = log[k].size
      /\ log' = [log EXCEPT ![k].written = TRUE]
  BY <1>1, <1>3, LogFacts DEF IsAt
<1>5. /\ log' \in Seq(LogRecord) /\ DOMAIN log' = DOMAIN log /\ Len(log') = Len(log)
      /\ \A j \in DOMAIN log : /\ log'[j].pos = log[j].pos /\ log'[j].size = log[j].size
                               /\ j # k => log'[j] = log[j]
      /\ log'[k].written
      /\ Len(log) \in Nat /\ Len(got) \in Nat /\ DOMAIN log = 1 .. Len(log)
      /\ DOMAIN got = 1 .. Len(got)
  <2>1. /\ log \in Seq(LogRecord) /\ got \in Seq(Nat) /\ log[k] \in LogRecord
        /\ DOMAIN log = 1 .. Len(log) /\ Len(log) \in Nat
    BY LogFacts DEF RingType
  <2>2. [log[k] EXCEPT !.written = TRUE] \in LogRecord
    BY <2>1 DEF LogRecord
  <2>3. log' = [log EXCEPT ![k] = [log[k] EXCEPT !.written = TRUE]]
    BY <1>4
  <2>4. log' \in Seq(LogRecord) /\ Len(log') = Len(log) /\ DOMAIN log' = DOMAIN log
    BY <2>1, <2>2, <2>3
  <2>5. \A j \in DOMAIN log : j # k => log'[j] = log[j]
    BY <2>1, <2>3
  <2>6. log'[k] = [log[k] EXCEPT !.written = TRUE]
    BY <2>1, <2>3
  <2>7. log'[k].pos = log[k].pos /\ log'[k].size = log[k].size /\ log'[k].written
    BY <2>1, <2>6 DEF LogRecord
  <2> QED BY <2>1, <2>4, <2>5, <2>7
<1>6. \A j \in DOMAIN log : EndOf(j)' = EndOf(j)
  BY <1>5 DEF EndOf
<1>7. /\ wr' \in [Threads -> WriteState] /\ wr'[t].at = "written"
      /\ wr'[t].pos = wr[t].pos /\ wr'[t].size = wr[t].size
      /\ \A s \in Threads : s # t => wr'[s] = wr[s]
  BY <1>1 DEF RingType, WriteState
<1>8. /\ mem \in [0 .. Size - 1 -> Int] /\ mem' \in [0 .. Size - 1 -> Int]
      /\ mem'[at(log[k].pos)] = log[k].size
      /\ \A i \in 0 .. Size - 1 : i # at(log[k].pos) => mem'[i] = mem[i]
  <2>1. at(log[k].pos) \in 0 .. Size - 1 /\ mem \in [0 .. Size - 1 -> Int]
    BY <1>4, AtType DEF RingType
  <2> QED BY <1>1, <1>4, <2>1
<1>9. RingType'
  BY <1>1, <1>5, <1>7, <1>8 DEF RingType
<1>10. Tiling'
  <2>1. write_pos = IF log' = <<>> THEN 0 ELSE EndOf(Len(log))'
    <3>1. log' # <<>> /\ log # <<>> /\ Len(log) \in DOMAIN log
      BY <1>3, <1>5
    <3>2. EndOf(Len(log))' = EndOf(Len(log))
      BY <1>5, <3>1 DEF EndOf
    <3> QED BY <3>1, <3>2 DEF Tiling
  <2>2. \A j \in DOMAIN log : /\ log'[j].pos = IF j = 1 THEN 0 ELSE EndOf(j - 1)'
                              /\ EndOf(j)' <= write_pos
    <3>1. \A j \in DOMAIN log : j # 1 => j - 1 \in DOMAIN log
      BY <1>5
    <3> QED BY <1>5, <1>6, <3>1 DEF Tiling
  <2>3. \A i, j \in DOMAIN log : i < j => EndOf(i)' <= log'[j].pos
    BY <1>5, <1>6 DEF Tiling
  <2> QED BY <1>1, <1>5, <2>1, <2>2, <2>3 DEF Tiling
<1>11. Space'
  BY <1>1 DEF RingInv, Space
<1>12. \A j \in DOMAIN log : log[j].written => log'[j].written
  BY <1>5
<1>13. InOrder'
  <2>1. NextPos(Len(got))' = NextPos(Len(got))
    <3>1. Len(got) <= Len(log) /\ Len(got) \in Nat /\ Len(log) \in Nat
      BY <1>5 DEF InOrder
    <3>2. Len(got) = Len(log) \/ Len(got) + 1 \in 1 .. Len(log)
      BY <3>1
    <3> QED BY <1>1, <1>5, <3>2 DEF NextPos
  <2>2. \A i \in DOMAIN got : i \in DOMAIN log
    BY <1>5 DEF InOrder
  <2>3. Len(got) > 0 => Len(got) \in DOMAIN log
    BY <1>5 DEF InOrder
  <2> QED BY <1>1, <1>5, <1>12, <2>1, <2>2, <2>3 DEF InOrder
<1>14. ReadInProgress'
  <2>1. Len(got) < Len(log) => Len(got) + 1 \in DOMAIN log
    BY <1>5
  <2> QED BY <1>1, <1>5, <1>6, <1>12, <2>1 DEF RingInv, ReadInProgress
<1>15. \A j \in DOMAIN log : /\ at(log[j].pos) \in 0 .. Size - 1
                             /\ Cells(log[j].pos, log[j].size) \subseteq 0 .. Size - 1
  BY LogFacts, AtType, CellsType
<1>16. \A j \in DOMAIN log : Live(j) /\ HasPayload(j) => HasPayload(j)'
  <2> SUFFICES ASSUME NEW j \in DOMAIN log, Live(j), HasPayload(j),
                      NEW i \in Cells(log[j].pos, log[j].size)
               PROVE  mem'[i] = Mark(j)
    BY <1>5 DEF HasPayload
  <2>1. i \in 0 .. Size - 1 /\ i # at(log[k].pos)
    BY <1>3, <1>15, RecordsApart
  <2> QED BY <1>8, <2>1 DEF HasPayload
<1>17. \A j \in DOMAIN log : Live(j)' <=> Live(j)
  BY <1>1, <1>5 DEF Live
<1>18. Headers'
  <2>1. \A j \in DOMAIN log : Live(j) /\ j # k => mem'[at(log[j].pos)] = mem[at(log[j].pos)]
    BY <1>3, <1>8, <1>15, RecordsApart
  <2>2. \A j \in DOMAIN log : Live(j) /\ j # k =>
          mem'[at(log'[j].pos)] = IF log'[j].written THEN log'[j].size ELSE 0
    BY <1>5, <2>1 DEF RingInv, Headers
  <2>3. mem'[at(log'[k].pos)] = IF log'[k].written THEN log'[k].size ELSE 0
    BY <1>5, <1>8
  <2> QED BY <1>5, <1>17, <2>2, <2>3 DEF Headers
<1>19. Payloads'
  <2>1. HasPayload(k)
    BY <1>1, <1>3 DEF RingInv, WritersInPlace
  <2>2. \A j \in DOMAIN log : Live(j) /\ log'[j].written => HasPayload(j)
    BY <1>5, <2>1 DEF RingInv, Payloads
  <2> QED BY <1>5, <1>16, <1>17, <2>2 DEF Payloads
<1>20. \A s \in Threads : /\ Reserving(s)' <=> Reserving(s)
                          /\ Writing(s)' <=> Writing(s) /\ s # t
                          /\ wr'[s].pos = wr[s].pos /\ wr'[s].size = wr[s].size
                          /\ wr'[s].at = "end" => s # t /\ wr[s].at = "end" /\ Writing(s)
                          /\ s # t => wr'[s].at = wr[s].at
  BY <1>1, <1>7 DEF Reserving, Writing
<1>21. LockHolder'
  <2>1. ASSUME NEW s \in Threads, Reserving(s)
        PROVE  mem'[at(write_pos)] = 0
    <3>1. /\ WithHeader(wr[s].size) <= write_avail(read_pos, write_pos)
          /\ mem[at(write_pos)] = 0 /\ wr[s].size \in Nat
          /\ read_pos \in Nat /\ write_pos \in Nat
      BY <2>1 DEF RingInv, LockHolder, RingType, WriteState
    <3>2. write_pos - read_pos < Size
      BY <3>1, RingConstants DEF WithHeader, write_avail, kHeaderSize
    <3>3. at(write_pos) \in 0 .. Size - 1
      BY <3>1, AtType
    <3> QED BY <1>3, <1>8, <3>1, <3>2, <3>3, NextHeaderApart
  <2> QED BY <1>1, <1>20, <2>1 DEF RingInv, LockHolder
<1>22. WritersInPlace'
  <2>1. \A s \in Threads, j \in DOMAIN log : j # k => (IsAt(s, j)' <=> IsAt(s, j))
    BY <1>5, <1>20 DEF IsAt
  <2>2. \A s \in Threads : wr'[s].at = "lock" \/ Reserving(s)' => wr'[s].size > 0
    BY <1>7, <1>20 DEF RingInv, WritersInPlace
  <2>3. ASSUME NEW s \in Threads, Writing(s)'
        PROVE  \E j \in DOMAIN log' : IsAt(s, j)'
    <3>1. PICK j \in DOMAIN log : IsAt(s, j)
      BY <1>20, <2>3 DEF RingInv, WritersInPlace
    <3>2. j # k
      BY <1>3, <1>20, <2>3, <3>1
    <3> QED BY <1>5, <2>1, <3>1, <3>2
  <2>4. \A s, u \in Threads : Writing(s)' /\ Writing(u)' /\ wr'[s].pos = wr'[u].pos => s = u
    BY <1>20 DEF RingInv, WritersInPlace
  <2>5. ASSUME NEW j \in DOMAIN log, ~log'[j].written
        PROVE  \E s \in Threads : Writing(s)' /\ wr'[s].pos = log'[j].pos
    <3>0. j # k
      BY <1>5, <2>5
    <3>1. j # k /\ ~log[j].written
      BY <1>12, <2>5, <3>0
    <3>2. PICK s \in Threads : Writing(s) /\ wr[s].pos = log[j].pos
      BY <3>1 DEF RingInv, WritersInPlace
    <3>3. s # t
      BY <1>4, <3>1, <3>2, OnePosition
    <3> QED BY <1>5, <1>20, <3>2, <3>3
  <2>6. ASSUME NEW s \in Threads, NEW j \in DOMAIN log, wr'[s].at = "end", IsAt(s, j)'
        PROVE  HasPayload(j)'
    <3>1. j # k
      BY <1>5, <2>6 DEF IsAt
    <3>2. IsAt(s, j) /\ wr[s].at = "end"
      BY <1>20, <2>1, <2>6, <3>1
    <3>3. HasPayload(j) /\ Live(j)
      BY <3>2, GotFacts DEF RingInv, WritersInPlace, IsAt
    <3> QED BY <1>16, <3>3
  <2> QED BY <1>5, <2>2, <2>3, <2>4, <2>5, <2>6 DEF WritersInPlace
<1>23. RingInv'
  BY <1>9, <1>10, <1>11, <1>13, <1>14, <1>18, <1>19, <1>21, <1>22 DEF RingInv
<1> QED BY <1>1, <1>3, <1>4, <1>5, <1>23

-----------------------------------------------------------------------------
(* The queue of records that the ring buffer stands for.                    *)

QueueItem == [record : Nat, written : BOOLEAN]
QueueOf(l, g) ==
  [i \in 1 .. Len(l) - Len(g) |->
     [record |-> Len(g) + i, written |-> l[Len(g) + i].written]]

LEMMA FunctionIsSeq ==
  ASSUME NEW S, NEW n \in Nat, NEW f \in [1 .. n -> S]
  PROVE  f \in Seq(S) /\ Len(f) = n /\ DOMAIN f = 1 .. n
<1>1. f \in Seq(S)
  BY SeqDef
<1>2. DOMAIN f = 1 .. n /\ DOMAIN f = 1 .. Len(f) /\ Len(f) \in Nat
  BY <1>1, LenProperties
<1>3. Len(f) = n
  <2>1. n \in 1 .. Len(f) \/ n = 0
    BY <1>2
  <2>2. Len(f) \in 1 .. n \/ Len(f) = 0
    BY <1>2
  <2>3. n <= Len(f) /\ Len(f) <= n
    BY <1>2, <2>1, <2>2
  <2> QED BY <1>2, <2>3
<1> QED BY <1>1, <1>2, <1>3

LEMMA QueueFacts ==
  ASSUME NEW l \in Seq(LogRecord), NEW g \in Seq(Nat), Len(g) <= Len(l)
  PROVE  /\ QueueOf(l, g) \in Seq(QueueItem)
         /\ Len(QueueOf(l, g)) = Len(l) - Len(g)
         /\ Len(l) - Len(g) \in Nat
         /\ \A i \in 1 .. Len(l) - Len(g) :
              /\ Len(g) + i \in DOMAIN l
              /\ QueueOf(l, g)[i] =
                   [record |-> Len(g) + i, written |-> l[Len(g) + i].written]
<1>1. Len(l) \in Nat /\ Len(g) \in Nat /\ DOMAIN l = 1 .. Len(l)
  OBVIOUS
<1>2. Len(l) - Len(g) \in Nat
  BY <1>1
<1>3. \A i \in 1 .. Len(l) - Len(g) : Len(g) + i \in 1 .. Len(l)
  BY <1>1, <1>2
<1>4. \A i \in 1 .. Len(l) - Len(g) :
        [record |-> Len(g) + i, written |-> l[Len(g) + i].written] \in QueueItem
  <2> TAKE i \in 1 .. Len(l) - Len(g)
  <2>1. l[Len(g) + i] \in LogRecord /\ Len(g) + i \in Nat
    BY <1>1, <1>3, ElementOfSeq
  <2>2. l[Len(g) + i].written \in BOOLEAN
    BY <2>1 DEF LogRecord
  <2> QED BY <2>1, <2>2 DEF QueueItem
<1>5. QueueOf(l, g) \in [1 .. Len(l) - Len(g) -> QueueItem]
  BY <1>4 DEF QueueOf
<1>6. QueueOf(l, g) \in Seq(QueueItem) /\ Len(QueueOf(l, g)) = Len(l) - Len(g)
  BY <1>2, <1>5, FunctionIsSeq
<1>7. \A i \in 1 .. Len(l) - Len(g) :
        QueueOf(l, g)[i] = [record |-> Len(g) + i, written |-> l[Len(g) + i].written]
  BY DEF QueueOf
<1> QED BY <1>1, <1>2, <1>3, <1>6, <1>7

(* Recognising a sequence by its length and its elements.                   *)
LEMMA IsAppend ==
  ASSUME NEW S, NEW q \in Seq(S), NEW r \in Seq(S), NEW x \in S,
         Len(r) = Len(q) + 1, \A i \in 1 .. Len(q) : r[i] = q[i], r[Len(q) + 1] = x
  PROVE  r = Append(q, x)
<1>1. PICK a \in Seq(S) : a = Append(q, x)
  BY AppendProperties
<1>2. /\ Len(a) = Len(q) + 1 /\ Len(q) \in Nat
      /\ \A i \in 1 .. Len(q) : a[i] = q[i]
      /\ a[Len(q) + 1] = x
  BY <1>1, AppendProperties
<1>3. \A i \in 1 .. Len(q) + 1 : i \in 1 .. Len(q) \/ i = Len(q) + 1
  BY <1>2
<1>4. \A i \in 1 .. Len(q) + 1 : r[i] = a[i]
  BY <1>2, <1>3
<1>5. r = a
  BY <1>2, <1>4, SeqEqual
<1> QED BY <1>1, <1>5

LEMMA IsTail ==
  ASSUME NEW S, NEW q \in Seq(S), NEW r \in Seq(S), q # <<>>,
         Len(r) = Len(q) - 1, \A i \in 1 .. Len(r) : r[i] = q[i + 1]
  PROVE  r = Tail(q)
<1>1. PICK a \in Seq(S) : a = Tail(q)
  BY HeadTailProperties
<1>2. Len(a) = Len(q) - 1 /\ \A i \in 1 .. Len(a) : a[i] = q[i + 1]
  BY <1>1, HeadTailProperties
<1>3. r = a
  BY <1>2, SeqEqual
<1> QED BY <1>1, <1>3

LEMMA IsExcept ==
  ASSUME NEW S, NEW q \in Seq(S), NEW r \in Seq(S), NEW j \in 1 .. Len(q), NEW x \in S,
         Len(r) = Len(q), r[j] = x, \A i \in 1 .. Len(q) : i # j => r[i] = q[i]
  PROVE  r = [q EXCEPT ![j] = x]
<1>1. PICK a \in Seq(S) : a = [q EXCEPT ![j] = x]
  BY ExceptSeq
<1>2. Len(a) = Len(q) /\ \A i \in 1 .. Len(q) : a[i] = IF i = j THEN x ELSE q[i]
  BY <1>1, ExceptSeq
<1>3. r = a
  BY <1>2, SeqEqual
<1> QED BY <1>1, <1>3

Item(k, written) == [record |-> k, written |-> written]

LEMMA ItemFacts ==
  ASSUME NEW k \in Nat, NEW b \in BOOLEAN, NEW c \in BOOLEAN
  PROVE  /\ Item(k, b) \in QueueItem /\ Item(k, b).written = b
         /\ [Item(k, b) EXCEPT !.written = c] = Item(k, c)
BY DEF Item, QueueItem

LEMMA QueueReserve ==
  ASSUME NEW l \in Seq(LogRecord), NEW g \in Seq(Nat), Len(g) <= Len(l),
         NEW e \in LogRecord, e.written = FALSE
  PROVE  QueueOf(Append(l, e), g)
           = Append(QueueOf(l, g), [record |-> Len(l) + 1, written |-> FALSE])
<1>1. PICK a \in Seq(LogRecord) : a = Append(l, e)
  BY AppendProperties
<1>2. /\ Len(a) = Len(l) + 1 /\ Len(l) \in Nat /\ Len(g) \in Nat
      /\ \A i \in 1 .. Len(l) : a[i] = l[i]
      /\ a[Len(l) + 1] = e
  BY <1>1, AppendProperties
<1>3. PICK n \in Nat : n = Len(l) - Len(g)
  <2>1. Len(l) - Len(g) \in Nat
    BY <1>2
  <2> QED BY <2>1
<1>4. PICK q \in Seq(QueueItem) : q = QueueOf(l, g)
  BY QueueFacts
<1>5. /\ Len(q) = n
      /\ \A i \in 1 .. n : q[i] = Item(Len(g) + i, l[Len(g) + i].written)
  BY <1>3, <1>4, QueueFacts DEF Item
<1>6. Len(g) <= Len(a) /\ Len(a) - Len(g) = n + 1
  BY <1>2, <1>3
<1>7. PICK r \in Seq(QueueItem) : r = QueueOf(a, g)
  BY <1>6, QueueFacts
<1>8. /\ Len(r) = n + 1
      /\ \A i \in 1 .. n + 1 : r[i] = Item(Len(g) + i, a[Len(g) + i].written)
  BY <1>6, <1>7, QueueFacts DEF Item
<1>9. PICK x \in QueueItem : x = Item(Len(l) + 1, FALSE)
  <2>0. Len(l) + 1 \in Nat
    BY <1>2
  <2>1. Item(Len(l) + 1, FALSE) \in QueueItem
    BY <2>0, ItemFacts
  <2> QED BY <2>1
<1>10. /\ \A i \in 1 .. n : Len(g) + i \in 1 .. Len(l) /\ i \in 1 .. n + 1
       /\ n + 1 \in 1 .. n + 1 /\ Len(g) + (n + 1) = Len(l) + 1
  BY <1>2, <1>3
<1>11. \A i \in 1 .. n : r[i] = q[i]
  BY <1>2, <1>5, <1>8, <1>10
<1>12. r[n + 1] = x
  <2>1. r[n + 1] = Item(Len(l) + 1, a[Len(l) + 1].written)
    BY <1>8, <1>10
  <2> QED BY <1>2, <1>9, <2>1
<1>13. r = Append(q, x)
  BY <1>5, <1>8, <1>11, <1>12, IsAppend
<1> QED BY <1>1, <1>4, <1>7, <1>9, <1>13 DEF Item

LEMMA QueueEndWrite ==
  ASSUME NEW l \in Seq(LogRecord), NEW g \in Seq(Nat), Len(g) <= Len(l),
         NEW k \in DOMAIN l, k > Len(g), ~l[k].written
  PROVE  /\ k - Len(g) \in DOMAIN QueueOf(l, g)
         /\ ~QueueOf(l, g)[k - Len(g)].written
         /\ QueueOf([l EXCEPT ![k].written = TRUE], g)
              = [QueueOf(l, g) EXCEPT ![k - Len(g)].written = TRUE]
<1>1. /\ Len(l) \in Nat /\ Len(g) \in Nat /\ DOMAIN l = 1 .. Len(l) /\ k \in Nat
      /\ k <= Len(l) /\ l[k] \in LogRecord
  OBVIOUS
<1>2. PICK n \in Nat, j \in Nat : n = Len(l) - Len(g) /\ j = k - Len(g)
  <2>1. Len(l) - Len(g) \in Nat /\ k - Len(g) \in Nat
    BY <1>1
  <2> QED BY <2>1
<1>3. /\ j \in 1 .. n /\ Len(g) + j = k
      /\ \A i \in 1 .. n : i # j => Len(g) + i # k
      /\ \A i \in 1 .. n : Len(g) + i \in 1 .. Len(l)
  BY <1>1, <1>2
<1>4. PICK e \in LogRecord : e = [l[k] EXCEPT !.written = TRUE]
  BY <1>1 DEF LogRecord
<1>5. e.written = TRUE
  BY <1>1, <1>4 DEF LogRecord
<1>6. PICK m \in Seq(LogRecord) : m = [l EXCEPT ![k] = e]
  BY <1>1, ExceptSeq
<1>7. /\ Len(m) = Len(l) /\ m[k] = e
      /\ \A i \in 1 .. Len(l) : i # k => m[i] = l[i]
  BY <1>1, <1>6, ExceptSeq
<1>8. PICK q \in Seq(QueueItem) : q = QueueOf(l, g)
  BY QueueFacts
<1>9. /\ Len(q) = n
      /\ \A i \in 1 .. n : q[i] = Item(Len(g) + i, l[Len(g) + i].written)
  BY <1>2, <1>8, QueueFacts DEF Item
<1>10. PICK r \in Seq(QueueItem) : r = QueueOf(m, g)
  BY <1>7, QueueFacts
<1>11. /\ Len(r) = n
       /\ \A i \in 1 .. n : r[i] = Item(Len(g) + i, m[Len(g) + i].written)
  BY <1>2, <1>7, <1>10, QueueFacts DEF Item
<1>12. q[j] = Item(k, l[k].written) /\ r[j] = Item(k, TRUE)
  <2>1. q[j] = Item(Len(g) + j, l[Len(g) + j].written)
        /\ r[j] = Item(Len(g) + j, m[Len(g) + j].written)
    BY <1>3, <1>9, <1>11
  <2> QED BY <1>3, <1>5, <1>7, <2>1
<1>13. [q[j] EXCEPT !.written = TRUE] = Item(k, TRUE)
  <2>1. l[k].written \in BOOLEAN
    BY <1>1 DEF LogRecord
  <2>2. [Item(k, l[k].written) EXCEPT !.written = TRUE] = Item(k, TRUE)
    BY <1>1, <2>1, ItemFacts
  <2> QED BY <1>12, <2>2
<1>14. PICK x \in QueueItem : x = Item(k, TRUE)
  <2>1. Item(k, TRUE) \in QueueItem
    BY <1>1, ItemFacts
  <2> QED BY <2>1
<1>15. \A i \in 1 .. n : i # j => r[i] = q[i]
  BY <1>3, <1>7, <1>9, <1>11
<1>16. r = [q EXCEPT ![j] = x]
  BY <1>3, <1>9, <1>11, <1>12, <1>14, <1>15, IsExcept
<1>17. [q EXCEPT ![j].written = TRUE] = [q EXCEPT ![j] = x]
  BY <1>13, <1>14
<1>18. [l EXCEPT ![k].written = TRUE] = m
  BY <1>4, <1>6
<1>19. j \in DOMAIN q /\ ~q[j].written
  <2>0. l[k].written \in BOOLEAN
    BY <1>1 DEF LogRecord
  <2>1. ~Item(k, l[k].written).written
    BY <1>1, <2>0, ItemFacts
  <2> QED BY <1>3, <1>9, <1>12, <2>1
<1> QED BY <1>2, <1>8, <1>10, <1>16, <1>17, <1>18, <1>19

LEMMA QueueReceive ==
  ASSUME NEW l \in Seq(LogRecord), NEW g \in Seq(Nat), Len(g) < Len(l), NEW x \in Nat
  PROVE  /\ QueueOf(l, g) # <<>>
         /\ Head(QueueOf(l, g)) = [record |-> Len(g) + 1, written |-> l[Len(g) + 1].written]
         /\ QueueOf(l, Append(g, x)) = Tail(QueueOf(l, g))
<1>1. PICK h \in Seq(Nat) : h = Append(g, x)
  BY AppendProperties
<1>2. Len(l) \in Nat /\ Len(g) \in Nat /\ Len(h) = Len(g) + 1
  BY <1>1, AppendProperties
<1>3. PICK n \in Nat : n = Len(l) - Len(g)
  <2>1. Len(l) - Len(g) \in Nat
    BY <1>2
  <2> QED BY <2>1
<1>4. /\ Len(h) <= Len(l) /\ Len(g) <= Len(l) /\ n >= 1 /\ 1 \in 1 .. n
      /\ Len(l) - Len(h) = n - 1
      /\ \A i \in 1 .. n - 1 : i + 1 \in 1 .. n /\ Len(g) + (i + 1) = Len(h) + i
  BY <1>2, <1>3
<1>5. PICK q \in Seq(QueueItem) : q = QueueOf(l, g)
  BY <1>4, QueueFacts
<1>6. /\ Len(q) = n
      /\ \A i \in 1 .. n : q[i] = Item(Len(g) + i, l[Len(g) + i].written)
  BY <1>3, <1>4, <1>5, QueueFacts DEF Item
<1>7. PICK r \in Seq(QueueItem) : r = QueueOf(l, h)
  BY <1>4, QueueFacts
<1>8. /\ Len(r) = n - 1
      /\ \A i \in 1 .. n - 1 : r[i] = Item(Len(h) + i, l[Len(h) + i].written)
  BY <1>4, <1>7, QueueFacts DEF Item
<1>9. q # <<>>
  BY <1>4, <1>6
<1>10. \A i \in 1 .. n - 1 : r[i] = q[i + 1]
  BY <1>4, <1>6, <1>8
<1>11. r = Tail(q)
  BY ZenonT(40), <1>6, <1>8, <1>9, <1>10, IsTail
<1>12. Head(q) = Item(Len(g) + 1, l[Len(g) + 1].written)
  BY <1>4, <1>6, <1>9
<1> QED BY <1>1, <1>5, <1>7, <1>9, <1>11, <1>12 DEF Item

-----------------------------------------------------------------------------
LEMMA IntactFollows == RingInv => RingIntact
BY DEF RingInv, RingIntact, Tiling, Space, ReadInProgress, Headers, Live

(***************************************************************************)
(* The channel.                                                            *)
(***************************************************************************)
ScenarioType == [block_client : BOOLEAN, max_tries : Nat \ {0},
                 calls : Seq(Calls), events : SUBSET Events]

-----------------------------------------------------------------------------
(* The inductive invariant.                                                 *)

(* A thread writes only inside a call; it is at no write before and after.  *)
InWrite == {"lock", "failed", "reserve", "copy", "end"}
CallsMatchWrites ==
  client.alive => \A t \in Threads :
    /\ call[t].at = "none" => wr[t].at \in {"idle", "written"}
    /\ call[t].at = "try" => wr[t].at = "idle" /\ wr[t].size > 0
    /\ call[t].at = "write" => wr[t].at \in InWrite /\ wr[t].size > 0
    /\ call[t].at \in {"notify", "send"} => wr[t].at = "written"

(* The client's end of the socket is open as long as somebody refers to the *)
(* Client.                                                                  *)
SocketOpen ==
  /\ sock.open <=> client.ref \/ Busy # {}
  /\ ~client.alive => ~client.ref /\ Busy = {}

(* The worker reads exactly while it is in a batch, of a client it has.     *)
WorkerReads ==
  /\ worker.at = "idle" <=> rd.at = "idle"
  /\ worker.at = "idle" => worker.bytes_read = 0
  /\ worker.at # "idle" => data.present
  /\ worker.at = "batch" => data.drain_bytes = 0
  /\ worker.at = "drain" => data.drain_bytes # 0
  /\ tasks.drain /\ data.present => data.drain_bytes # 0

(* The client is told that the session ends, or has closed its end, before  *)
(* the worker starts to drain the buffer.                                   *)
Disconnected ==
  /\ tasks.disconnected \/ data.drain_bytes # 0 => ~IsConnected
  /\ ~IsConnected /\ ~shutting_down => ~sock.open
  /\ ~data.present /\ tasks.stop # "purged" => ~IsConnected

(* One token goes around: the job is posted or running, or the pause bit is *)
(* set, or a thread that took the bit is about to send a byte, or the byte  *)
(* is in the socket.  The end of the connection adds a job.                 *)
Count(b) == IF b THEN 1 ELSE 0
Sender == \E t \in Threads : call[t].at = "send"
Tokens == tasks.batch + Count(worker.at = "batch") + Count(reader_paused)
            + Count(sock.byte) + Count(Sender)
OneToken ==
  /\ Tokens <= 1 + Count(~sock.open /\ ~IsConnected)
  /\ data.present /\ IsConnected /\ sock.open => Tokens >= 1
  /\ \A s, t \in Threads : call[s].at = "send" /\ call[t].at = "send" => s = t

(* Every record the reader got is with the main thread or waits for its     *)
(* batch.                                                                   *)
Accounted ==
  /\ delivered \subseteq DOMAIN got
  /\ data.free_records \subseteq DOMAIN got
  /\ data.present => delivered \cup data.free_records = DOMAIN got

(* What is due was written, lies within the bytes that are still to be      *)
(* drained, and was all there was if it is the client that disconnected.    *)
Draining ==
  /\ \A k \in due : k \in DOMAIN log /\ \A j \in 1 .. k : log[j].written
  /\ data.drain_bytes # 0 =>
       /\ \A k \in due : EndOf(k) <= read_pos + data.drain_bytes - worker.bytes_read
       /\ client.alive /\ ~shutting_down => due = DOMAIN log
  /\ worker.at = "drain" /\ rd.at = "nodata" => \A k \in due : k <= Len(got)

(* The records that are still to be made, are being made, and were made.    *)
Pending == {t \in Threads : \/ call[t].at = "try"
                            \/ /\ call[t].at = "write"
                               /\ wr[t].at \in {"lock", "failed", "reserve"}}
Budget ==
  /\ IsFiniteSet(Pending)
  /\ Cardinality(Pending) + Len(log) + Len(scenario.calls) <= MaxRecords

ChannelInv ==
  /\ RingInv /\ TypeOK /\ scenario \in ScenarioType
  /\ CallsMatchWrites /\ SocketOpen /\ WorkerReads /\ Disconnected /\ OneToken
  /\ Accounted /\ Draining /\ DrainsEverything /\ Budget

-----------------------------------------------------------------------------
(* The fields of the state, and what one of them leaves of the invariant.   *)

LEMMA Fields ==
  ASSUME TypeOK
  PROVE  /\ shutting_down \in BOOLEAN /\ reader_paused \in BOOLEAN
         /\ client.ref \in BOOLEAN /\ client.alive \in BOOLEAN
         /\ sock.open \in BOOLEAN /\ sock.byte \in BOOLEAN
         /\ sock.state \in {"kConnected", "kDisconnected"}
         /\ tasks.batch \in 0 .. 2 /\ tasks.drain \in BOOLEAN
         /\ tasks.disconnected \in BOOLEAN
         /\ worker.at \in {"idle", "batch", "drain"} /\ worker.bytes_read \in Nat
         /\ worker.i \in 0 .. kUnwindBatchSize - 1
         /\ data.present \in BOOLEAN /\ data.drain_bytes \in 0 .. Size
         /\ data.free_records \subseteq 1 .. MaxRecords
         /\ call \in [Threads -> [at : {"none", "try", "write", "notify", "send"},
                                  kind : RecordTypes, tries : Nat]]
BY DEF TypeOK

(* A step of a thread of the client leaves the worker alone; it may reserve *)
(* a record or end one only while the socket is open.                       *)
LEMMA ThreadFrame ==
  ASSUME ChannelInv, RingInv', sock.open, client.alive, client'.alive,
         sock'.state = sock.state,
         UNCHANGED <<tasks, worker, data, delivered, due, rd, read_pos, got,
                     shutting_down>>,
         \A k \in DOMAIN log : /\ k \in DOMAIN log' /\ EndOf(k)' = EndOf(k)
                               /\ log[k].written => log'[k].written
  PROVE  WorkerReads' /\ Accounted' /\ Disconnected' /\ Draining' /\ DrainsEverything'
<1> USE DEF ChannelInv
<1>1. WorkerReads' /\ Accounted'
  BY DEF WorkerReads, Accounted
<1>2. IsConnected \/ shutting_down
  BY DEF Disconnected
<1>3. Disconnected'
  BY <1>2 DEF Disconnected, IsConnected
<1>4. data.drain_bytes # 0 => shutting_down
  BY <1>2 DEF Disconnected
<1>5. ~data.present /\ tasks.stop # "purged" => shutting_down
  BY <1>2 DEF Disconnected
<1>6. DrainsEverything'
  BY <1>5 DEF DrainsEverything
<1>7. ASSUME NEW k \in due
      PROVE  (k \in DOMAIN log /\ \A j \in 1 .. k : log[j].written)'
  <2>1. log \in Seq(LogRecord) /\ k \in DOMAIN log /\ \A j \in 1 .. k : log[j].written
    BY DEF Draining, RingInv, RingType
  <2>2. \A j \in 1 .. k : j \in DOMAIN log
    BY <2>1
  <2> QED BY <2>1, <2>2
<1>8. Draining'
  BY <1>4, <1>7 DEF Draining
<1> QED BY <1>1, <1>3, <1>6, <1>8

(* A step of the worker leaves the client alone.                            *)
LEMMA WorkerFrame ==
  ASSUME ChannelInv, UNCHANGED <<client, call, wr, log, scenario>>, sock'.open = sock.open
  PROVE  /\ scenario' \in ScenarioType /\ CallsMatchWrites' /\ SocketOpen' /\ Budget'
         /\ Busy' = Busy
<1>1. Busy' = Busy
  BY DEF Busy
<1>2. scenario' \in ScenarioType /\ CallsMatchWrites' /\ SocketOpen'
  BY <1>1 DEF ChannelInv, CallsMatchWrites, SocketOpen
<1>3. Pending' = Pending
  BY DEF Pending
<1> QED BY <1>1, <1>2, <1>3 DEF ChannelInv, Budget

CallState == [at : {"none", "try", "write", "notify", "send"},
              kind : RecordTypes, tries : Nat]

(* What a step of a thread must keep.                                       *)
LEMMA ThreadType ==
  ASSUME ChannelInv, RingInv', scenario' \in ScenarioType,
         scenario'.max_tries = scenario.max_tries,
         client' \in [ref : BOOLEAN, alive : BOOLEAN],
         sock' \in [open : BOOLEAN, state : {"kConnected", "kDisconnected"},
                    byte : BOOLEAN],
         reader_paused' \in BOOLEAN, error_state' \in {"kNoError", "kHitTimeout"},
         UNCHANGED <<shutting_down, tasks, worker, data, delivered, due>>,
         NEW t \in Threads, NEW c \in CallState,
         call' = [call EXCEPT ![t] = c],
         c.at # "none" => \/ c.tries < scenario.max_tries
                          \/ scenario.max_tries = kInfiniteTries
  PROVE  TypeOK'
<1>1. TypeOK /\ call \in [Threads -> CallState]
  BY Fields DEF ChannelInv, CallState
<1>2. call' \in [Threads -> CallState]
  BY <1>1
<1>3. \A s \in Threads : call'[s].at # "none" =>
        \/ call'[s].tries < scenario'.max_tries
        \/ scenario'.max_tries = kInfiniteTries
  <2> SUFFICES ASSUME NEW s \in Threads, call'[s].at # "none"
               PROVE  \/ call'[s].tries < scenario'.max_tries
                      \/ scenario'.max_tries = kInfiniteTries
    OBVIOUS
  <2>1. CASE s = t
    BY <1>1, <2>1
  <2>2. CASE s # t
    BY <1>1, <2>2 DEF TypeOK
  <2> QED BY <2>1, <2>2
<1>4. locked' \in BOOLEAN
  BY DEF RingInv, RingType
<1>5. {shutting_down', reader_paused', locked'} \subseteq BOOLEAN
  BY <1>1, <1>4, Fields
<1> QED BY <1>1, <1>2, <1>3, <1>5 DEF TypeOK, CallState

LEMMA TokensKept ==
  ASSUME ChannelInv, sock.open, sock'.state = sock.state, sock'.byte = sock.byte,
         sock'.open \in BOOLEAN,
         UNCHANGED <<data, worker, tasks, reader_paused>>,
         \A s \in Threads : call'[s].at = "send" <=> call[s].at = "send"
  PROVE  OneToken'
<1>1. Sender' = Sender
  BY DEF Sender
<1>2. Tokens' = Tokens /\ IsConnected' = IsConnected
  BY <1>1 DEF Tokens, IsConnected
<1>3. Tokens \in Int /\ Count(~sock.open /\ ~IsConnected) = 0
      /\ (Count(~sock.open /\ ~IsConnected))' \in Nat
  BY Fields DEF ChannelInv, Tokens, Count
<1> HIDE DEF Tokens
<1> QED BY <1>2, <1>3 DEF ChannelInv, OneToken

LEMMA BudgetShrinks ==
  ASSUME ChannelInv, Pending' \subseteq Pending, RingInv', Len(log') = Len(log),
         scenario'.calls = scenario.calls
  PROVE  Budget'
<1>1. /\ IsFiniteSet(Pending) /\ Len(log) \in Nat /\ Len(scenario.calls) \in Nat
      /\ Cardinality(Pending) + Len(log) + Len(scenario.calls) <= MaxRecords
  BY DEF ChannelInv, Budget, RingInv, RingType, ScenarioType
<1>2. /\ IsFiniteSet(Pending') /\ Cardinality(Pending') <= Cardinality(Pending)
      /\ Cardinality(Pending') \in Nat /\ Cardinality(Pending) \in Nat
  BY <1>1, FS_Subset, FS_CardinalityType
<1>3. Cardinality(Pending') + Len(log') + Len(scenario'.calls) <= MaxRecords
  BY <1>1, <1>2, RingConstants
<1> QED BY <1>2, <1>3 DEF Budget

LEMMA ReturnStep ==
  ASSUME ChannelInv, NEW t \in Threads, NEW s \in BOOLEAN, client.alive,
         call[t].at # "none", Return(t, s)
  PROVE  /\ sock.open /\ client'.alive /\ SocketOpen'
         /\ sock'.state = sock.state /\ sock'.byte = sock.byte
         /\ sock'.open \in BOOLEAN
         /\ client' \in [ref : BOOLEAN, alive : BOOLEAN]
         /\ sock' \in [open : BOOLEAN, state : {"kConnected", "kDisconnected"},
                       byte : BOOLEAN]
         /\ NoCall \in CallState /\ call' = [call EXCEPT ![t] = NoCall]
<1> DEFINE ref == client.ref /\ (s \/ call[t].kind = "HeapName")
           open == ref \/ Busy \ {t} # {}
<1>1. /\ TypeOK /\ client \in [ref : BOOLEAN, alive : BOOLEAN]
      /\ sock \in [open : BOOLEAN, state : {"kConnected", "kDisconnected"},
                   byte : BOOLEAN]
      /\ call \in [Threads -> CallState]
  BY DEF ChannelInv, TypeOK, CallState
<1>2. NoCall \in CallState /\ NoCall.at = "none"
  BY DEF NoCall, CallState, RecordTypes
<1>3. /\ call' = [call EXCEPT ![t] = NoCall] /\ client' = [client EXCEPT !.ref = ref]
      /\ sock' = [sock EXCEPT !.open = open]
  BY DEF Return, Release
<1>4. t \in Busy /\ Busy' = Busy \ {t}
  BY <1>1, <1>2, <1>3 DEF Busy
<1>5. sock.open
  BY <1>4 DEF ChannelInv, SocketOpen
<1>6. ref \in BOOLEAN /\ open \in BOOLEAN
  OBVIOUS
<1>7. open <=> ref \/ Busy' # {}
  BY <1>4
<1> HIDE DEF ref, open
<1>8. /\ client'.ref = ref /\ client'.alive = client.alive /\ sock'.open = open
      /\ sock'.state = sock.state /\ sock'.byte = sock.byte
      /\ client' \in [ref : BOOLEAN, alive : BOOLEAN]
      /\ sock' \in [open : BOOLEAN, state : {"kConnected", "kDisconnected"},
                    byte : BOOLEAN]
  BY <1>1, <1>3, <1>6
<1>9. SocketOpen'
  BY <1>7, <1>8 DEF SocketOpen
<1> QED BY <1>2, <1>3, <1>5, <1>6, <1>8, <1>9

-----------------------------------------------------------------------------
(* The steps of the threads.                                                *)

(* A record that is made is one of the calls that were left.                *)
LEMMA RecordStep ==
  ASSUME ChannelInv, NEW t \in Threads, Record(t)
  PROVE  ChannelInv'
<1> DEFINE new == Head(scenario.calls)
           c == [NoCall EXCEPT !.at = "try", !.kind = new.type]
           w == [Idle EXCEPT !.size = new.size]
<1>0. /\ RingInv /\ TypeOK /\ scenario \in ScenarioType
      /\ call \in [Threads -> CallState] /\ wr \in [Threads -> WriteState]
  BY DEF ChannelInv, TypeOK, CallState, RingInv, RingType
<1>1. /\ client.alive /\ client.ref /\ call[t].at = "none" /\ scenario.calls # <<>>
      /\ scenario' = [scenario EXCEPT !.calls = Tail(@)]
      /\ call' = [call EXCEPT ![t] = c] /\ wr' = [wr EXCEPT ![t] = w]
      /\ UNCHANGED <<memory, rd, meta, client, sock, tasks, worker, data, delivered, due>>
  BY DEF Record
<1>2. scenario.calls \in Seq(Calls) /\ new \in Calls /\ Tail(scenario.calls) \in Seq(Calls)
      /\ Len(Tail(scenario.calls)) = Len(scenario.calls) - 1 /\ Len(scenario.calls) \in Nat
  BY <1>0, <1>1, HeadTailProperties DEF ScenarioType
<1>3. new.type \in RecordTypes /\ new.size \in Nat /\ new.size > 0
  <2>1. PICK kind \in RecordTypes : new \in [type : {kind}, size : RecordSizes[kind]]
    BY <1>2 DEF Calls
  <2>2. RecordSizes[kind] \subseteq Nat \ {0}
    BY ChannelConstants
  <2> QED BY <2>1, <2>2
<1>4. /\ scenario' \in ScenarioType /\ scenario'.calls = Tail(scenario.calls)
      /\ scenario'.max_tries = scenario.max_tries
      /\ scenario.max_tries \in Nat /\ scenario.max_tries > 0
  <2>1. PICK rest \in Seq(Calls) : rest = Tail(scenario.calls)
    BY <1>2
  <2>2. scenario' = [scenario EXCEPT !.calls = rest]
    BY <1>1, <2>1
  <2>3. scenario' \in ScenarioType /\ scenario'.calls = rest
        /\ scenario'.max_tries = scenario.max_tries /\ scenario.max_tries \in Nat \ {0}
    BY <1>0, <2>2 DEF ScenarioType
  <2> QED BY <2>1, <2>3
<1> HIDE DEF new
<1>5. /\ c \in CallState /\ c.at = "try" /\ c.tries = 0
      /\ w \in WriteState /\ w.at = "idle" /\ w.size > 0
  <2>1. PICK kind \in RecordTypes, size \in Nat \ {0} : kind = new.type /\ size = new.size
    BY <1>3
  <2>2. /\ NoCall \in CallState /\ NoCall.tries = 0
        /\ Idle \in WriteState /\ Idle.at = "idle"
    BY DEF NoCall, Idle, CallState, WriteState, RecordTypes
  <2>3. /\ c = [NoCall EXCEPT !.at = "try", !.kind = kind]
        /\ w = [Idle EXCEPT !.size = size]
    BY <2>1
  <2> HIDE DEF c, w
  <2>4. c \in CallState /\ c.at = "try" /\ c.tries = 0
    BY <2>2, <2>3 DEF CallState
  <2>5. w \in WriteState /\ w.at = "idle" /\ w.size > 0
    BY <2>2, <2>3 DEF WriteState
  <2> QED BY <2>4, <2>5
<1> HIDE DEF c, w
<1>6. wr[t].at \in {"idle", "written"}
  BY <1>1 DEF ChannelInv, CallsMatchWrites
<1>7. RingInv'
  <2>1. ~Reserving(t) /\ ~Writing(t)
    BY <1>6 DEF Reserving, Writing
  <2> QED BY <1>0, <1>1, <1>5, <2>1, ThreadMoves DEF memory
<1>8. sock.open /\ client'.alive /\ sock'.state = sock.state /\ sock'.byte = sock.byte
      /\ sock'.open \in BOOLEAN
  BY <1>0, <1>1, Fields DEF ChannelInv, SocketOpen
<1>9. \A s \in Threads : call'[s].at = "send" <=> call[s].at = "send"
  BY <1>0, <1>1, <1>5
<1>10. OneToken'
  BY <1>1, <1>8, <1>9, TokensKept DEF meta
<1>11. WorkerReads' /\ Accounted' /\ Disconnected' /\ Draining' /\ DrainsEverything'
  <2>1. \A k \in DOMAIN log : /\ k \in DOMAIN log' /\ EndOf(k)' = EndOf(k)
                              /\ log[k].written => log'[k].written
    BY <1>1 DEF memory, EndOf
  <2> QED BY <1>1, <1>7, <1>8, <2>1, ThreadFrame DEF memory, meta
<1>12. TypeOK'
  <2>1. /\ client' \in [ref : BOOLEAN, alive : BOOLEAN]
        /\ sock' \in [open : BOOLEAN, state : {"kConnected", "kDisconnected"}, byte : BOOLEAN]
        /\ reader_paused' \in BOOLEAN /\ error_state' \in {"kNoError", "kHitTimeout"}
    BY <1>0, <1>1, Fields DEF TypeOK, meta
  <2> QED BY <1>1, <1>4, <1>5, <1>7, <2>1, ThreadType DEF meta
<1>13. CallsMatchWrites'
  <2> SUFFICES ASSUME NEW s \in Threads
               PROVE  /\ call'[s].at = "none" => wr'[s].at \in {"idle", "written"}
                      /\ call'[s].at = "try" => wr'[s].at = "idle" /\ wr'[s].size > 0
                      /\ call'[s].at = "write" => wr'[s].at \in InWrite /\ wr'[s].size > 0
                      /\ call'[s].at \in {"notify", "send"} => wr'[s].at = "written"
    BY DEF CallsMatchWrites
  <2>1. CASE s = t
    BY <1>0, <1>1, <1>5, <2>1
  <2>2. CASE s # t
    BY <1>0, <1>1, <2>2 DEF ChannelInv, CallsMatchWrites
  <2> QED BY <2>1, <2>2
<1>14. SocketOpen'
  <2>1. sock.open /\ sock' = sock /\ client' = client
    BY <1>1, <1>8
  <2> QED BY <1>1, <2>1 DEF SocketOpen
<1>15. Budget'
  <2>1. Pending' = Pending \cup {t} /\ t \notin Pending
    BY <1>0, <1>1, <1>5 DEF Pending
  <2>2. IsFiniteSet(Pending) /\ Len(log) \in Nat
        /\ Cardinality(Pending) + Len(log) + Len(scenario.calls) <= MaxRecords
    BY <1>0 DEF ChannelInv, Budget, RingInv, RingType
  <2>3. IsFiniteSet(Pending') /\ Cardinality(Pending') = Cardinality(Pending) + 1
    BY <2>1, <2>2, FS_AddElement
  <2>4. Cardinality(Pending) \in Nat
    BY <2>2, FS_CardinalityType
  <2>5. Cardinality(Pending') + Len(log') + Len(scenario'.calls) <= MaxRecords
    BY <1>1, <1>2, <1>4, <2>2, <2>3, <2>4, RingConstants DEF memory
  <2> QED BY <2>3, <2>5 DEF Budget
<1> QED BY <1>4, <1>7, <1>10, <1>11, <1>12, <1>13, <1>14, <1>15 DEF ChannelInv

(* A thread whose call or write changes keeps the invariant if its call     *)
(* still matches its write, and the socket, the token and the budget are    *)
(* as they must be.                                                         *)
Matches(c, w) ==
  /\ c.at = "none" => w.at \in {"idle", "written"}
  /\ c.at = "try" => w.at = "idle" /\ w.size > 0
  /\ c.at = "write" => w.at \in InWrite /\ w.size > 0
  /\ c.at \in {"notify", "send"} => w.at = "written"

SocketState == [open : BOOLEAN, state : {"kConnected", "kDisconnected"}, byte : BOOLEAN]

LEMMA ThreadMovesOn ==
  ASSUME ChannelInv, RingInv', NEW t \in Threads, NEW c \in CallState,
         call' = [call EXCEPT ![t] = c], sock.open, client.alive, client'.alive,
         client' \in [ref : BOOLEAN, alive : BOOLEAN],
         sock' \in SocketState, sock'.state = sock.state,
         reader_paused' \in BOOLEAN, error_state' \in {"kNoError", "kHitTimeout"},
         UNCHANGED <<scenario, shutting_down, tasks, worker, data, delivered, due,
                     rd, read_pos, got>>,
         \A k \in DOMAIN log : /\ k \in DOMAIN log' /\ EndOf(k)' = EndOf(k)
                               /\ log[k].written => log'[k].written,
         c.at # "none" => c.tries < scenario.max_tries \/ scenario.max_tries = kInfiniteTries,
         \A s \in Threads : s # t => wr'[s] = wr[s],
         Matches(c, wr'[t]), SocketOpen', OneToken', Budget'
  PROVE  ChannelInv'
<1>1. scenario' \in ScenarioType /\ scenario'.max_tries = scenario.max_tries
  BY DEF ChannelInv
<1>2. TypeOK'
  BY <1>1, ThreadType DEF SocketState
<1>3. WorkerReads' /\ Accounted' /\ Disconnected' /\ Draining' /\ DrainsEverything'
  BY ThreadFrame
<1>4. CallsMatchWrites'
  <2> SUFFICES ASSUME NEW s \in Threads PROVE Matches(call'[s], wr'[s])
    BY DEF CallsMatchWrites, Matches
  <2>1. call \in [Threads -> CallState]
    BY DEF ChannelInv, TypeOK, CallState
  <2>2. CASE s = t
    BY <2>1, <2>2
  <2>3. CASE s # t
    <3>1. call'[s] = call[s] /\ wr'[s] = wr[s]
      BY <2>1, <2>3
    <3>2. Matches(call[s], wr[s])
      BY DEF ChannelInv, CallsMatchWrites, Matches
    <3> QED BY <3>1, <3>2
  <2> QED BY <2>2, <2>3
<1> QED BY <1>1, <1>2, <1>3, <1>4 DEF ChannelInv

LEMMA TrySendStep ==
  ASSUME ChannelInv, NEW t \in Threads, TrySend(t)
  PROVE  ChannelInv'
<1>0. /\ RingInv /\ TypeOK /\ call \in [Threads -> CallState]
      /\ wr \in [Threads -> WriteState]
      /\ client \in [ref : BOOLEAN, alive : BOOLEAN] /\ sock \in SocketState
      /\ reader_paused \in BOOLEAN /\ error_state \in {"kNoError", "kHitTimeout"}
  BY DEF ChannelInv, TypeOK, CallState, RingInv, RingType, SocketState
<1>1. /\ client.alive /\ call[t].at = "try"
      /\ UNCHANGED <<scenario, memory, rd, meta, tasks, worker, data, delivered, due>>
  BY DEF TrySend
<1>2. wr[t].at = "idle" /\ wr[t].size > 0
  BY <1>1 DEF ChannelInv, CallsMatchWrites
<1>3. t \in Pending
  BY <1>1 DEF Pending
<1>4. \A k \in DOMAIN log : /\ k \in DOMAIN log' /\ EndOf(k)' = EndOf(k)
                            /\ log[k].written => log'[k].written
  BY <1>1 DEF memory, EndOf
<1>5. reader_paused' \in BOOLEAN /\ error_state' \in {"kNoError", "kHitTimeout"}
  BY <1>0, <1>1 DEF meta
<1>6. CASE shutting_down
  <2>1. Return(t, FALSE) /\ UNCHANGED wr
    BY <1>6 DEF TrySend
  <2>2. /\ sock.open /\ client'.alive /\ SocketOpen' /\ sock'.open \in BOOLEAN
        /\ sock'.state = sock.state /\ sock'.byte = sock.byte
        /\ client' \in [ref : BOOLEAN, alive : BOOLEAN] /\ sock' \in SocketState
        /\ NoCall \in CallState /\ call' = [call EXCEPT ![t] = NoCall]
    BY <1>1, <2>1, ReturnStep DEF SocketState
  <2>3. NoCall.at = "none"
    BY DEF NoCall
  <2>4. RingInv'
    <3>1. wr' = [wr EXCEPT ![t] = wr[t]] /\ wr[t] \in WriteState
      BY <1>0, <2>1
    <3>2. ~Reserving(t) /\ ~Writing(t)
      BY <1>2 DEF Reserving, Writing
    <3> QED BY <1>0, <1>1, <1>2, <3>1, <3>2, ThreadMoves DEF memory
  <2>5. \A s \in Threads : call'[s].at = "send" <=> call[s].at = "send"
    BY <1>0, <1>1, <2>2, <2>3
  <2>6. OneToken'
    BY <1>1, <2>2, <2>5, TokensKept DEF meta
  <2>7. Pending' \subseteq Pending
    BY <1>0, <2>1, <2>2, <2>3 DEF Pending
  <2>8. Budget'
    BY <1>1, <2>4, <2>7, BudgetShrinks DEF memory
  <2>9. Matches(NoCall, wr'[t])
    BY <1>2, <2>1, <2>3 DEF Matches
  <2> QED BY <1>1, <1>4, <1>5, <2>1, <2>2, <2>3, <2>4, <2>6, <2>8, <2>9, ThreadMovesOn
          DEF memory, meta
<1>7. CASE ~shutting_down
  <2> DEFINE a == IF wr[t].size > Size THEN "failed" ELSE "lock"
             w == [wr[t] EXCEPT !.at = a]
             c == [call[t] EXCEPT !.at = "write"]
  <2>1. /\ call' = [call EXCEPT ![t] = c] /\ wr' = [wr EXCEPT ![t] = w]
        /\ UNCHANGED <<client, sock>>
    BY <1>0, <1>7 DEF TrySend
  <2>2. a \in {"failed", "lock"}
    OBVIOUS
  <2> HIDE DEF a
  <2>3. /\ c \in CallState /\ c.at = "write" /\ c.tries = call[t].tries
        /\ w \in WriteState /\ w.at = a /\ w.size = wr[t].size
    BY <1>0, <2>2 DEF CallState, WriteState
  <2> HIDE DEF c, w
  <2>4. RingInv'
    <3>1. ~Reserving(t) /\ ~Writing(t)
      BY <1>2 DEF Reserving, Writing
    <3> QED BY <1>0, <1>1, <1>2, <2>1, <2>2, <2>3, <3>1, ThreadMoves DEF memory
  <2>5. \A s \in Threads : call'[s].at = "send" <=> call[s].at = "send"
    BY <1>0, <1>1, <2>1, <2>3
  <2>6. /\ sock.open /\ client'.alive /\ sock'.state = sock.state
        /\ sock'.byte = sock.byte /\ sock'.open \in BOOLEAN
        /\ client' \in [ref : BOOLEAN, alive : BOOLEAN] /\ sock' \in SocketState
    <3>1. t \in Busy
      BY <1>1 DEF Busy
    <3> QED BY <1>0, <1>1, <2>1, <3>1, Fields DEF ChannelInv, SocketOpen
  <2>7. SocketOpen'
    <3>1. Busy' = Busy
      BY <1>0, <1>1, <2>1, <2>3 DEF Busy
    <3> QED BY <2>1, <3>1 DEF ChannelInv, SocketOpen
  <2>8. OneToken'
    BY <1>1, <2>5, <2>6, TokensKept DEF meta
  <2>9. Pending' \subseteq Pending
    BY <1>0, <1>3, <2>1, <2>3 DEF Pending
  <2>10. Budget'
    BY <1>1, <2>4, <2>9, BudgetShrinks DEF memory
  <2>11. Matches(c, wr'[t])
    BY <1>0, <1>2, <2>1, <2>2, <2>3 DEF Matches, InWrite
  <2>12. c.tries < scenario.max_tries \/ scenario.max_tries = kInfiniteTries
    BY <1>0, <1>1, <2>3 DEF TypeOK
  <2>13. \A s \in Threads : s # t => wr'[s] = wr[s]
    BY <1>0, <2>1
  <2> QED BY <1>1, <1>4, <1>5, <2>1, <2>3, <2>4, <2>6, <2>7, <2>8, <2>10, <2>11, <2>12,
             <2>13, ThreadMovesOn DEF memory, meta
<1> QED BY <1>6, <1>7

LEMMA InWriteFacts ==
  ASSUME ChannelInv, NEW t \in Threads, client.alive, wr[t].at \in InWrite
  PROVE  call[t].at = "write" /\ wr[t].size > 0 /\ sock.open /\ t \in Busy
<1>1. call[t].at \in {"none", "try", "write", "notify", "send"}
  BY Fields DEF ChannelInv
<1>2. call[t].at = "write" /\ wr[t].size > 0
  BY <1>1 DEF ChannelInv, CallsMatchWrites, InWrite
<1>3. t \in Busy
  BY <1>2 DEF Busy
<1> QED BY <1>2, <1>3 DEF ChannelInv, SocketOpen

(* Inside a write only the ring buffer changes.                             *)
LEMMA WriteMovesOn ==
  ASSUME ChannelInv, RingInv', NEW t \in Threads, client.alive, wr[t].at \in InWrite,
         NEW w \in WriteState, wr' = [wr EXCEPT ![t] = w], w.at \in InWrite,
         w.size = wr[t].size,
         UNCHANGED <<scenario, meta, client, call, sock, tasks, worker, data, delivered,
                     due, rd, read_pos, got>>,
         \A k \in DOMAIN log : /\ k \in DOMAIN log' /\ EndOf(k)' = EndOf(k)
                               /\ log[k].written => log'[k].written,
         Budget'
  PROVE  ChannelInv'
<1>0. /\ TypeOK /\ call \in [Threads -> CallState] /\ wr \in [Threads -> WriteState]
      /\ client \in [ref : BOOLEAN, alive : BOOLEAN] /\ sock \in SocketState
      /\ reader_paused \in BOOLEAN /\ error_state \in {"kNoError", "kHitTimeout"}
  BY DEF ChannelInv, TypeOK, CallState, RingInv, RingType, SocketState
<1>1. call[t].at = "write" /\ wr[t].size > 0 /\ sock.open
  BY InWriteFacts
<1>2. PICK c \in CallState : c = call[t]
  BY <1>0
<1>3. call' = [call EXCEPT ![t] = c]
  BY <1>0, <1>2
<1>4. OneToken'
  BY <1>0, <1>1, Fields, TokensKept DEF meta
<1>5. SocketOpen'
  <2>1. Busy' = Busy
    BY DEF Busy
  <2> QED BY <2>1 DEF ChannelInv, SocketOpen
<1>6. Matches(c, wr'[t])
  BY <1>0, <1>1, <1>2 DEF Matches
<1>7. c.tries < scenario.max_tries \/ scenario.max_tries = kInfiniteTries
  BY <1>0, <1>1, <1>2 DEF TypeOK
<1>8. \A s \in Threads : s # t => wr'[s] = wr[s]
  BY <1>0
<1> QED BY <1>0, <1>1, <1>3, <1>4, <1>5, <1>6, <1>7, <1>8, ThreadMovesOn DEF meta

LEMMA WriteToBufferStep ==
  ASSUME ChannelInv, NEW t \in Threads, WriteToBuffer(t)
  PROVE  ChannelInv'
<1>0. /\ RingInv /\ TypeOK /\ call \in [Threads -> CallState]
      /\ wr \in [Threads -> WriteState] /\ log \in Seq(LogRecord)
  BY DEF ChannelInv, TypeOK, CallState, RingInv, RingType
<1>1. /\ client.alive
      /\ UNCHANGED <<scenario, meta, client, call, sock, tasks, worker, data, delivered, due>>
  BY DEF WriteToBuffer
<1>2. ASSUME NEW a \in {"failed", "reserve", "copy", "end"}, NEW p \in Nat, NEW f \in Int,
             RingInv', wr[t].at \in InWrite,
             wr' = [wr EXCEPT ![t] = [wr[t] EXCEPT !.at = a, !.pos = p, !.free = f]],
             UNCHANGED <<rd, read_pos, got>>,
             \/ UNCHANGED log /\ wr[t].at \notin {"copy", "end"}
             \/ UNCHANGED log /\ a \notin {"failed", "reserve"}
             \/ /\ wr[t].at = "reserve" /\ a = "copy"
                /\ \E e \in LogRecord : log' = Append(log, e)
      PROVE  ChannelInv'
  <2> DEFINE w == [wr[t] EXCEPT !.at = a, !.pos = p, !.free = f]
  <2>1. w \in WriteState /\ w.at = a /\ w.size = wr[t].size
    BY <1>0, <1>2 DEF WriteState
  <2>2. wr' = [wr EXCEPT ![t] = w] /\ w.at \in InWrite
    BY <1>2, <2>1 DEF InWrite
  <2> HIDE DEF w
  <2>3. call[t].at = "write"
    BY <1>1, <1>2, InWriteFacts
  <2>4. \A s \in Threads : s # t => (s \in Pending' <=> s \in Pending)
    BY <1>0, <1>1, <2>2 DEF Pending
  <2>5. CASE UNCHANGED log
    <3>1. \A k \in DOMAIN log : /\ k \in DOMAIN log' /\ EndOf(k)' = EndOf(k)
                                /\ log[k].written => log'[k].written
      BY <2>5 DEF EndOf
    <3>2. t \in Pending' => t \in Pending
      BY <1>0, <1>1, <1>2, <2>1, <2>2, <2>3, <2>5 DEF Pending, InWrite
    <3>3. Pending' \subseteq Pending
      BY <2>4, <3>2 DEF Pending
    <3>4. Budget'
      BY <1>1, <1>2, <2>5, <3>3, BudgetShrinks
    <3> QED BY <1>1, <1>2, <2>1, <2>2, <3>1, <3>4, WriteMovesOn
  <2>6. ASSUME wr[t].at = "reserve", a = "copy", NEW e \in LogRecord, log' = Append(log, e)
        PROVE  ChannelInv'
    <3>1. Len(log') = Len(log) + 1 /\ Len(log) \in Nat
          /\ \A k \in DOMAIN log : k \in DOMAIN log' /\ log'[k] = log[k]
      BY <1>0, <2>6, AppendProperties
    <3>2. \A k \in DOMAIN log : /\ k \in DOMAIN log' /\ EndOf(k)' = EndOf(k)
                                /\ log[k].written => log'[k].written
      BY <3>1 DEF EndOf
    <3>3. Pending' = Pending \ {t} /\ t \in Pending
      BY <1>0, <1>1, <2>1, <2>2, <2>3, <2>4, <2>6 DEF Pending
    <3>4. IsFiniteSet(Pending) /\ Len(scenario.calls) \in Nat
          /\ Cardinality(Pending) + Len(log) + Len(scenario.calls) <= MaxRecords
      BY DEF ChannelInv, Budget, ScenarioType
    <3>5. IsFiniteSet(Pending') /\ Cardinality(Pending') = Cardinality(Pending) - 1
          /\ Cardinality(Pending) \in Nat
      BY <3>3, <3>4, FS_RemoveElement, FS_CardinalityType
    <3>6. Cardinality(Pending') + Len(log') + Len(scenario'.calls) <= MaxRecords
      BY <1>1, <3>1, <3>4, <3>5, RingConstants
    <3>7. Budget'
      BY <3>5, <3>6 DEF Budget
    <3> QED BY <1>1, <1>2, <2>1, <2>2, <3>2, <3>7, WriteMovesOn
  <2> QED BY <1>2, <2>5, <2>6
<1>3. PICK p \in Nat, f \in Int : p = wr[t].pos /\ f = wr[t].free
  BY <1>0 DEF WriteState
<1>4. \A a : [wr EXCEPT ![t].at = a] = [wr EXCEPT ![t] = [wr[t] EXCEPT !.at = a, !.pos = p, !.free = f]]
  BY <1>0, <1>3 DEF WriteState
<1>5. CASE LockTimesOut(t)
  <2>1. RingInv'
    BY <1>0, <1>5, LockTimesOutStep
  <2> QED BY ZenonT(40), <1>2, <1>4, <1>5, <2>1 DEF LockTimesOut, InWrite
<1>6. CASE BeginWrite(t)
  <2>1. RingInv'
    BY <1>0, <1>6, BeginWriteStep
  <2>2. PICK free \in Int : free = write_avail(read_pos, write_pos)
    BY <1>0, RingConstants DEF write_avail, RingInv, RingType
  <2>3. write_pos \in Nat
    BY <1>0 DEF RingInv, RingType
  <2>4. /\ wr[t].at = "lock" /\ UNCHANGED <<rd, read_pos, got, log>>
        /\ \/ wr' = [wr EXCEPT ![t].at = "failed"]
           \/ wr' = [wr EXCEPT ![t].at = "reserve", ![t].pos = write_pos, ![t].free = free]
    BY <1>6, <2>2 DEF BeginWrite
  <2>5. CASE wr' = [wr EXCEPT ![t].at = "failed"]
    <3>1. wr' = [wr EXCEPT ![t] = [wr[t] EXCEPT !.at = "failed", !.pos = p, !.free = f]]
      BY <1>4, <2>5
    <3>2. wr[t].at \in InWrite /\ UNCHANGED log /\ wr[t].at \notin {"copy", "end"}
      BY <2>4 DEF InWrite
    <3> QED BY <1>2, <2>1, <2>4, <3>1, <3>2
  <2>6. CASE wr' = [wr EXCEPT ![t].at = "reserve", ![t].pos = write_pos, ![t].free = free]
    <3>1. wr' = [wr EXCEPT ![t] = [wr[t] EXCEPT !.at = "reserve", !.pos = write_pos, !.free = free]]
      BY <1>0, <2>6
    <3> QED BY <1>2, <2>1, <2>3, <2>4, <3>1 DEF InWrite
  <2> QED BY <2>4, <2>5, <2>6
<1>7. CASE AdvanceWritePos(t)
  <2> DEFINE e == [pos |-> write_pos, size |-> wr[t].size, written |-> FALSE]
  <2>1. RingInv' /\ log' = Append(log, e)
    BY <1>0, <1>7, AdvanceWritePosStep
  <2>2. wr[t].at = "reserve"
    BY <1>7 DEF AdvanceWritePos
  <2>3. e \in LogRecord
    <3>1. wr[t].size \in Nat /\ wr[t].size > 0 /\ write_pos \in Nat
      BY <1>0, <1>1, <2>2, InWriteFacts DEF InWrite, RingInv, RingType, WriteState
    <3> QED BY <3>1 DEF LogRecord
  <2> HIDE DEF e
  <2>4. wr' = [wr EXCEPT ![t].at = "copy"] /\ UNCHANGED <<rd, read_pos, got>>
    BY <1>7 DEF AdvanceWritePos
  <2> QED BY <1>2, <1>4, <2>1, <2>2, <2>3, <2>4 DEF InWrite
<1>8. CASE CopyPayload(t)
  <2>1. RingInv'
    BY <1>0, <1>8, CopyPayloadStep
  <2> QED BY <1>2, <1>4, <1>8, <2>1 DEF CopyPayload, InWrite
<1> QED BY <1>5, <1>6, <1>7, <1>8 DEF WriteToBuffer

LEMMA SendFailedStep ==
  ASSUME ChannelInv, NEW t \in Threads, SendFailed(t)
  PROVE  ChannelInv'
<1> DEFINE w == [Idle EXCEPT !.size = wr[t].size]
<1>0. /\ RingInv /\ TypeOK /\ call \in [Threads -> CallState]
      /\ wr \in [Threads -> WriteState] /\ scenario \in ScenarioType
      /\ client \in [ref : BOOLEAN, alive : BOOLEAN] /\ sock \in SocketState
      /\ reader_paused \in BOOLEAN /\ error_state \in {"kNoError", "kHitTimeout"}
  BY DEF ChannelInv, TypeOK, CallState, RingInv, RingType, SocketState
<1>1. /\ client.alive /\ wr[t].at = "failed" /\ wr' = [wr EXCEPT ![t] = w]
      /\ UNCHANGED <<scenario, memory, rd, shutting_down, reader_paused, tasks, worker,
                     data, delivered, due>>
  BY DEF SendFailed
<1>2. call[t].at = "write" /\ wr[t].size > 0 /\ sock.open /\ t \in Busy
  BY <1>1, InWriteFacts DEF InWrite
<1>3. w \in WriteState /\ w.at = "idle" /\ w.size = wr[t].size
  <2>1. Idle \in WriteState /\ Idle.at = "idle" /\ wr[t].size \in Nat
    BY <1>0 DEF Idle, WriteState
  <2> QED BY <2>1 DEF WriteState
<1> HIDE DEF w
<1>4. RingInv'
  <2>1. ~Reserving(t) /\ ~Writing(t)
    BY <1>1 DEF Reserving, Writing
  <2> QED BY <1>0, <1>1, <1>3, <2>1, ThreadMoves DEF memory
<1>5. \A k \in DOMAIN log : /\ k \in DOMAIN log' /\ EndOf(k)' = EndOf(k)
                            /\ log[k].written => log'[k].written
  BY <1>1 DEF memory, EndOf
<1>6. t \in Pending
  BY <1>1, <1>2 DEF Pending
<1>7. \A s \in Threads : s # t => wr'[s] = wr[s]
  BY <1>0, <1>1
<1>8. ASSUME NEW c \in CallState, call' = [call EXCEPT ![t] = c], c.at \in {"none", "try"},
             c.at # "none" => c.tries < scenario.max_tries \/ scenario.max_tries = kInfiniteTries,
             client' \in [ref : BOOLEAN, alive : BOOLEAN], client'.alive,
             sock' \in SocketState, sock'.state = sock.state, sock'.byte = sock.byte,
             error_state' \in {"kNoError", "kHitTimeout"}, SocketOpen'
      PROVE  ChannelInv'
  <2>1. \A s \in Threads : call'[s].at = "send" <=> call[s].at = "send"
    BY <1>0, <1>2, <1>8
  <2>2. OneToken'
    <3>1. sock'.open \in BOOLEAN
      BY <1>8 DEF SocketState
    <3> QED BY <1>1, <1>2, <1>8, <2>1, <3>1, TokensKept
  <2>3. Pending' \subseteq Pending
    BY <1>0, <1>1, <1>6, <1>7, <1>8 DEF Pending
  <2>4. Budget'
    BY <1>1, <1>4, <2>3, BudgetShrinks DEF memory
  <2>5. Matches(c, wr'[t])
    BY <1>0, <1>1, <1>2, <1>3, <1>8 DEF Matches
  <2>6. reader_paused' \in BOOLEAN
    BY <1>0, <1>1
  <2> QED BY <1>1, <1>2, <1>4, <1>5, <1>7, <1>8, <2>2, <2>4, <2>5, <2>6, ThreadMovesOn
          DEF memory
<1>9. CASE scenario.block_client /\ IsAgain(t) /\ IsConnected /\ ~LastTry(t)
  <2> DEFINE n == IF scenario.max_tries = kInfiniteTries THEN 0 ELSE call[t].tries + 1
             c == [call[t] EXCEPT !.at = "try", !.tries = n]
  <2>1. call' = [call EXCEPT ![t] = c] /\ UNCHANGED <<client, sock, error_state>>
    BY <1>0, <1>9 DEF SendFailed
  <2>2. n \in Nat /\ (n < scenario.max_tries \/ scenario.max_tries = kInfiniteTries)
    BY <1>0, <1>9 DEF LastTry, CallState, ScenarioType
  <2> HIDE DEF n
  <2>3. c \in CallState /\ c.at = "try" /\ c.tries = n
    BY <1>0, <2>2 DEF CallState
  <2> HIDE DEF c
  <2>4. SocketOpen'
    <3>1. Busy' = Busy
      BY <1>0, <1>2, <2>1, <2>3 DEF Busy
    <3> QED BY <2>1, <3>1 DEF ChannelInv, SocketOpen
  <2> QED BY <1>0, <1>1, <1>8, <2>1, <2>2, <2>3, <2>4
<1>10. CASE ~(scenario.block_client /\ IsAgain(t) /\ IsConnected /\ ~LastTry(t))
  <2>1. Return(t, FALSE) /\ error_state' = IF IsConnected THEN "kHitTimeout" ELSE error_state
    BY <1>10 DEF SendFailed
  <2>2. /\ sock.open /\ client'.alive /\ SocketOpen' /\ sock'.open \in BOOLEAN
        /\ sock'.state = sock.state /\ sock'.byte = sock.byte
        /\ client' \in [ref : BOOLEAN, alive : BOOLEAN] /\ sock' \in SocketState
        /\ NoCall \in CallState /\ call' = [call EXCEPT ![t] = NoCall]
    BY <1>1, <1>2, <2>1, ReturnStep DEF SocketState
  <2>3. NoCall.at = "none"
    BY DEF NoCall
  <2>4. error_state' \in {"kNoError", "kHitTimeout"}
    BY <1>0, <2>1
  <2> QED BY <1>8, <2>2, <2>3, <2>4
<1> QED BY <1>9, <1>10

LEMMA SendEndsStep ==
  ASSUME ChannelInv, NEW t \in Threads, SendEnds(t)
  PROVE  ChannelInv'
<1>0. /\ RingInv /\ TypeOK /\ call \in [Threads -> CallState]
      /\ wr \in [Threads -> WriteState] /\ log \in Seq(LogRecord)
      /\ client \in [ref : BOOLEAN, alive : BOOLEAN] /\ sock \in SocketState
      /\ reader_paused \in BOOLEAN /\ error_state \in {"kNoError", "kHitTimeout"}
  BY DEF ChannelInv, TypeOK, CallState, RingInv, RingType, SocketState
<1>1. /\ client.alive /\ EndWrite(t)
      /\ UNCHANGED <<scenario, meta, tasks, worker, data, delivered, due>>
  BY DEF SendEnds
<1>2. wr[t].at = "end" /\ wr' = [wr EXCEPT ![t].at = "written"] /\ UNCHANGED <<rd, read_pos>>
  BY <1>1 DEF EndWrite
<1>3. call[t].at = "write" /\ sock.open /\ t \in Busy
  BY <1>1, <1>2, InWriteFacts DEF InWrite
<1>4. RingInv' /\ UNCHANGED got /\ Len(log') = Len(log)
  BY <1>0, <1>1, EndWriteStep
<1>5. \A k \in DOMAIN log : /\ k \in DOMAIN log' /\ EndOf(k)' = EndOf(k)
                            /\ log[k].written => log'[k].written
  <2>1. PICK j \in DOMAIN log : log' = [log EXCEPT ![j].written = TRUE]
    BY <1>0, <1>1, EndWriteStep
  <2>2. \A k \in DOMAIN log : log[k] \in LogRecord
    BY <1>0
  <2>3. \A k \in DOMAIN log : /\ k \in DOMAIN log' /\ log'[k].pos = log[k].pos
                              /\ log'[k].size = log[k].size
                              /\ log[k].written => log'[k].written
    BY <1>0, <2>1, <2>2 DEF LogRecord
  <2> QED BY <2>3 DEF EndOf
<1>6. \A s \in Threads : s # t => wr'[s] = wr[s]
  BY <1>0, <1>2
<1>7. wr'[t].at = "written"
  BY <1>0, <1>2
<1>8. reader_paused' \in BOOLEAN /\ error_state' \in {"kNoError", "kHitTimeout"}
  BY <1>0, <1>1 DEF meta
<1>9. ASSUME NEW c \in CallState, call' = [call EXCEPT ![t] = c], c.at \in {"none", "notify"},
             c.at # "none" => c.tries < scenario.max_tries \/ scenario.max_tries = kInfiniteTries,
             client' \in [ref : BOOLEAN, alive : BOOLEAN], client'.alive,
             sock' \in SocketState, sock'.state = sock.state, sock'.byte = sock.byte,
             SocketOpen'
      PROVE  ChannelInv'
  <2>1. \A s \in Threads : call'[s].at = "send" <=> call[s].at = "send"
    BY <1>0, <1>3, <1>9
  <2>2. OneToken'
    <3>1. sock'.open \in BOOLEAN
      BY <1>9 DEF SocketState
    <3> QED BY <1>1, <1>3, <1>9, <2>1, <3>1, TokensKept DEF meta
  <2>3. Pending' \subseteq Pending
    BY <1>0, <1>3, <1>6, <1>9 DEF Pending
  <2>4. Budget'
    BY <1>1, <1>4, <2>3, BudgetShrinks
  <2>5. Matches(c, wr'[t])
    BY <1>7, <1>9 DEF Matches
  <2> QED BY <1>1, <1>2, <1>3, <1>4, <1>5, <1>6, <1>8, <1>9, <2>2, <2>4, <2>5,
             ThreadMovesOn DEF meta
<1>10. CASE WakesReader(t)
  <2> DEFINE c == [call[t] EXCEPT !.at = "notify"]
  <2>1. call' = [call EXCEPT ![t] = c] /\ UNCHANGED <<client, sock>>
    BY <1>0, <1>10 DEF SendEnds
  <2>2. c \in CallState /\ c.at = "notify" /\ c.tries = call[t].tries
    BY <1>0 DEF CallState
  <2> HIDE DEF c
  <2>3. c.tries < scenario.max_tries \/ scenario.max_tries = kInfiniteTries
    BY <1>0, <1>3, <2>2 DEF TypeOK
  <2>4. SocketOpen'
    <3>1. Busy' = Busy
      BY <1>0, <1>3, <2>1, <2>2 DEF Busy
    <3> QED BY <2>1, <3>1 DEF ChannelInv, SocketOpen
  <2> QED BY <1>0, <1>1, <1>9, <2>1, <2>2, <2>3, <2>4
<1>11. CASE ~WakesReader(t)
  <2>1. Return(t, TRUE)
    BY <1>11 DEF SendEnds
  <2>2. /\ sock.open /\ client'.alive /\ SocketOpen' /\ sock'.open \in BOOLEAN
        /\ sock'.state = sock.state /\ sock'.byte = sock.byte
        /\ client' \in [ref : BOOLEAN, alive : BOOLEAN] /\ sock' \in SocketState
        /\ NoCall \in CallState /\ call' = [call EXCEPT ![t] = NoCall]
    BY <1>1, <1>3, <2>1, ReturnStep DEF SocketState
  <2>3. NoCall.at = "none"
    BY DEF NoCall
  <2> QED BY <1>9, <2>2, <2>3
<1> QED BY <1>10, <1>11

LEMMA RingKept == RingInv /\ UNCHANGED ring => RingInv'
BY DEF RingInv, ring, RingType, Tiling, Space, NextPos, InOrder, ReadInProgress, Live,
       Headers, HasPayload, Payloads, Reserving, LockHolder, IsAt, Writing, WritersInPlace,
       EndOf

(* While the socket is open there is one token at most.                     *)
LEMMA TokenFacts ==
  ASSUME ChannelInv, sock.open
  PROVE  /\ Tokens <= 1 /\ (data.present /\ IsConnected => Tokens >= 1)
         /\ \A s, t \in Threads : call[s].at = "send" /\ call[t].at = "send" => s = t
BY Fields DEF ChannelInv, OneToken, Count

LEMMA GetAndResetReaderPausedStep ==
  ASSUME ChannelInv, NEW t \in Threads, GetAndResetReaderPaused(t)
  PROVE  ChannelInv'
<1>0. /\ RingInv /\ TypeOK /\ call \in [Threads -> CallState]
      /\ client \in [ref : BOOLEAN, alive : BOOLEAN] /\ sock \in SocketState
      /\ reader_paused \in BOOLEAN /\ error_state \in {"kNoError", "kHitTimeout"}
  BY DEF ChannelInv, TypeOK, CallState, RingInv, RingType, SocketState
<1>1. /\ client.alive /\ call[t].at = "notify" /\ reader_paused' = FALSE
      /\ UNCHANGED <<scenario, ring, shutting_down, error_state, tasks, worker, data,
                     delivered, due>>
  BY DEF GetAndResetReaderPaused
<1>2. sock.open /\ t \in Busy /\ wr[t].at = "written"
  <2>1. t \in Busy
    BY <1>1 DEF Busy
  <2> QED BY <1>1, <2>1 DEF ChannelInv, SocketOpen, CallsMatchWrites
<1>3. RingInv' /\ wr' = wr
  BY <1>0, <1>1, RingKept DEF ring
<1>4. \A k \in DOMAIN log : /\ k \in DOMAIN log' /\ EndOf(k)' = EndOf(k)
                            /\ log[k].written => log'[k].written
  BY <1>1 DEF ring, EndOf
<1>5. ASSUME NEW c \in CallState, call' = [call EXCEPT ![t] = c], c.at \in {"none", "send"},
             c.at # "none" => c.tries < scenario.max_tries \/ scenario.max_tries = kInfiniteTries,
             client' \in [ref : BOOLEAN, alive : BOOLEAN], client'.alive,
             sock' \in SocketState, sock'.state = sock.state, SocketOpen', OneToken'
      PROVE  ChannelInv'
  <2>1. Pending' \subseteq Pending
    BY <1>0, <1>3, <1>5 DEF Pending
  <2>2. Budget'
    BY <1>1, <1>3, <2>1, BudgetShrinks DEF ring
  <2>3. Matches(c, wr'[t])
    BY <1>2, <1>3, <1>5 DEF Matches
  <2>4. error_state' \in {"kNoError", "kHitTimeout"} /\ reader_paused' \in BOOLEAN
    BY <1>0, <1>1
  <2> QED BY <1>1, <1>2, <1>3, <1>4, <1>5, <2>2, <2>3, <2>4, ThreadMovesOn DEF ring
<1>6. CASE reader_paused
  <2> DEFINE c == [call[t] EXCEPT !.at = "send"]
  <2>1. call' = [call EXCEPT ![t] = c] /\ UNCHANGED <<client, sock>>
    BY <1>0, <1>6 DEF GetAndResetReaderPaused
  <2>2. c \in CallState /\ c.at = "send" /\ c.tries = call[t].tries
    BY <1>0 DEF CallState
  <2> HIDE DEF c
  <2>3. c.tries < scenario.max_tries \/ scenario.max_tries = kInfiniteTries
    BY <1>0, <1>1, <2>2 DEF TypeOK
  <2>4. SocketOpen'
    <3>1. Busy' = Busy
      BY <1>0, <1>1, <2>1, <2>2 DEF Busy
    <3> QED BY <2>1, <3>1 DEF ChannelInv, SocketOpen
  <2>5. ~Sender
    BY <1>0, <1>2, <1>6, Fields, TokenFacts DEF Tokens, Count
  <2>6. Sender' /\ \A s \in Threads : call'[s].at = "send" => s = t
    BY <1>0, <2>1, <2>2, <2>5 DEF Sender
  <2>7. Tokens' = Tokens /\ IsConnected' = IsConnected
    BY <1>0, <1>1, <1>6, <2>1, <2>5, <2>6, Fields DEF Tokens, Count, IsConnected
  <2>8. OneToken'
    BY <1>1, <2>1, <2>6, <2>7 DEF ChannelInv, OneToken
  <2> QED BY <1>0, <1>1, <1>5, <2>1, <2>2, <2>3, <2>4, <2>8
<1>7. CASE ~reader_paused
  <2>1. Return(t, TRUE)
    BY <1>7 DEF GetAndResetReaderPaused
  <2>2. /\ sock.open /\ client'.alive /\ SocketOpen' /\ sock'.open \in BOOLEAN
        /\ sock'.state = sock.state /\ sock'.byte = sock.byte
        /\ client' \in [ref : BOOLEAN, alive : BOOLEAN] /\ sock' \in SocketState
        /\ NoCall \in CallState /\ call' = [call EXCEPT ![t] = NoCall]
    BY <1>1, <1>2, <2>1, ReturnStep DEF SocketState
  <2>3. NoCall.at = "none"
    BY DEF NoCall
  <2>4. \A s \in Threads : call'[s].at = "send" <=> call[s].at = "send"
    BY <1>0, <1>1, <2>2, <2>3
  <2>5. reader_paused' = reader_paused
    BY <1>0, <1>1, <1>7
  <2>6. OneToken'
    BY <1>1, <2>2, <2>4, <2>5, TokensKept
  <2> QED BY <1>5, <2>2, <2>3, <2>6
<1> QED BY <1>6, <1>7

LEMMA SendControlSocketByteStep ==
  ASSUME ChannelInv, NEW t \in Threads, SendControlSocketByte(t)
  PROVE  ChannelInv'
<1> DEFINE ref == client.ref /\ IsConnected
           open == ref \/ Busy # {t}
<1>0. /\ RingInv /\ TypeOK /\ call \in [Threads -> CallState]
      /\ client \in [ref : BOOLEAN, alive : BOOLEAN] /\ sock \in SocketState
      /\ reader_paused \in BOOLEAN /\ error_state \in {"kNoError", "kHitTimeout"}
  BY DEF ChannelInv, TypeOK, CallState, RingInv, RingType, SocketState
<1>1. /\ client.alive /\ call[t].at = "send" /\ call' = [call EXCEPT ![t] = NoCall]
      /\ client' = [client EXCEPT !.ref = ref]
      /\ sock' = [sock EXCEPT !.open = open, !.byte = IsConnected]
      /\ UNCHANGED <<scenario, ring, meta, tasks, worker, data, delivered, due>>
  BY DEF SendControlSocketByte
<1>2. sock.open /\ t \in Busy /\ wr[t].at = "written"
  <2>1. t \in Busy
    BY <1>1 DEF Busy
  <2> QED BY <1>1, <2>1 DEF ChannelInv, SocketOpen, CallsMatchWrites
<1>3. RingInv' /\ wr' = wr
  BY <1>0, <1>1, RingKept DEF ring
<1>4. \A k \in DOMAIN log : /\ k \in DOMAIN log' /\ EndOf(k)' = EndOf(k)
                            /\ log[k].written => log'[k].written
  BY <1>1 DEF ring, EndOf
<1>5. NoCall \in CallState /\ NoCall.at = "none"
  BY DEF NoCall, CallState, RecordTypes
<1>6. Busy' = Busy \ {t}
  BY <1>0, <1>1, <1>5 DEF Busy
<1>7. ref \in BOOLEAN /\ open \in BOOLEAN /\ (open <=> ref \/ Busy' # {})
      /\ IsConnected \in BOOLEAN
  BY <1>2, <1>6 DEF IsConnected
<1> HIDE DEF ref, open
<1>8. /\ client'.ref = ref /\ client'.alive = client.alive /\ sock'.open = open
      /\ sock'.state = sock.state /\ sock'.byte = IsConnected
      /\ client' \in [ref : BOOLEAN, alive : BOOLEAN] /\ sock' \in SocketState
  <2>1. PICK b \in BOOLEAN : b = IsConnected
    BY <1>7
  <2>2. sock' = [sock EXCEPT !.open = open, !.byte = b]
    BY <1>1, <2>1
  <2>3. sock'.open = open /\ sock'.state = sock.state /\ sock'.byte = b /\ sock' \in SocketState
    BY <1>0, <1>7, <2>2 DEF SocketState
  <2>4. /\ client'.ref = ref /\ client'.alive = client.alive
        /\ client' \in [ref : BOOLEAN, alive : BOOLEAN]
    BY <1>0, <1>1, <1>7
  <2> QED BY <2>1, <2>3, <2>4
<1>9. SocketOpen'
  BY <1>1, <1>7, <1>8 DEF SocketOpen
<1>10. OneToken'
  <2>1. Sender /\ ~Sender'
    BY <1>0, <1>1, <1>2, <1>5, TokenFacts DEF Sender
  <2>2. tasks.batch = 0 /\ worker.at # "batch" /\ ~reader_paused /\ ~sock.byte
    BY <1>0, <1>2, <2>1, Fields, TokenFacts DEF Tokens, Count
  <2>3. IsConnected' = IsConnected
    BY <1>8 DEF IsConnected
  <2>4. Tokens' = Count(IsConnected)
    BY <1>1, <1>8, <2>1, <2>2 DEF Tokens, Count, meta
  <2>5. (Count(~sock.open /\ ~IsConnected))' \in Nat
    BY DEF Count
  <2>6. Tokens' <= 1 + (Count(~sock.open /\ ~IsConnected))' /\ (IsConnected' => Tokens' >= 1)
    BY <2>3, <2>4, <2>5 DEF Count
  <2> QED BY <2>1, <2>6 DEF OneToken, Sender
<1>11. Pending' \subseteq Pending
  BY <1>0, <1>1, <1>3, <1>5 DEF Pending
<1>12. Budget'
  BY <1>1, <1>3, <1>11, BudgetShrinks DEF ring
<1>13. Matches(NoCall, wr'[t])
  BY <1>2, <1>3, <1>5 DEF Matches
<1> QED BY <1>0, <1>1, <1>2, <1>3, <1>4, <1>5, <1>8, <1>9, <1>10, <1>12, <1>13, ThreadMovesOn
        DEF ring, meta

-----------------------------------------------------------------------------
(* What happens to the client and to the session.                           *)

LEMMA HappensFacts ==
  ASSUME scenario \in ScenarioType, NEW e, Happens(e)
  PROVE  /\ scenario' \in ScenarioType /\ scenario'.calls = scenario.calls
         /\ scenario'.max_tries = scenario.max_tries
<1>1. PICK rest \in SUBSET Events : rest = scenario.events \ {e}
  BY DEF ScenarioType
<1>2. scenario' = [scenario EXCEPT !.events = rest]
  BY <1>1 DEF Happens
<1> QED BY <1>2 DEF ScenarioType

LEMMA NextSessionStep ==
  ASSUME ChannelInv, NextSession
  PROVE  ChannelInv'
<1> DEFINE open == Busy # {}
<1>0. /\ RingInv /\ TypeOK /\ scenario \in ScenarioType
      /\ client \in [ref : BOOLEAN, alive : BOOLEAN] /\ sock \in SocketState
  BY DEF ChannelInv, TypeOK, SocketState
<1>1. /\ client.alive /\ client.ref /\ ~IsConnected
      /\ client' = [client EXCEPT !.ref = FALSE] /\ sock' = [sock EXCEPT !.open = open]
      /\ UNCHANGED <<ring, meta, call, tasks, worker, data, delivered, due>>
  BY DEF NextSession, Release
<1>2. /\ scenario' \in ScenarioType /\ scenario'.calls = scenario.calls
      /\ scenario'.max_tries = scenario.max_tries
  BY <1>0, HappensFacts DEF NextSession
<1>3. RingInv'
  BY <1>0, <1>1, RingKept
<1>4. open \in BOOLEAN
  OBVIOUS
<1>5. Busy' = Busy
  BY <1>1 DEF Busy
<1>6. open <=> Busy' # {}
  BY <1>5
<1> HIDE DEF open
<1>7. /\ client'.ref = FALSE /\ client'.alive = client.alive /\ sock'.open = open
      /\ sock'.state = sock.state /\ sock'.byte = sock.byte
      /\ client' \in [ref : BOOLEAN, alive : BOOLEAN] /\ sock' \in SocketState
  BY <1>0, <1>1, <1>4 DEF SocketState
<1>8. sock.open /\ shutting_down /\ ~IsConnected'
  BY <1>1, <1>7 DEF ChannelInv, SocketOpen, Disconnected, IsConnected
<1>9. SocketOpen'
  BY <1>1, <1>6, <1>7 DEF SocketOpen
<1>10. TypeOK'
  BY <1>0, <1>1, <1>2, <1>7 DEF TypeOK, meta, ring, SocketState
<1>11. CallsMatchWrites' /\ WorkerReads' /\ Accounted'
  BY <1>1, <1>7 DEF ChannelInv, CallsMatchWrites, WorkerReads, Accounted, ring
<1>12. Disconnected' /\ Draining' /\ DrainsEverything'
  BY <1>1, <1>7, <1>8 DEF ChannelInv, Disconnected, Draining, DrainsEverything, EndOf, ring, meta
<1>13. OneToken'
  <2>1. Tokens' = Tokens
    BY <1>1, <1>7 DEF Tokens, Sender, meta
  <2>2. Tokens <= 1 /\ Tokens \in Int
    BY <1>0, <1>8, TokenFacts, Fields DEF Tokens, Count
  <2>3. (Count(~sock.open /\ ~IsConnected))' \in Nat
    BY DEF Count
  <2>4. Tokens' <= 1 + (Count(~sock.open /\ ~IsConnected))'
    BY <2>1, <2>2, <2>3
  <2> QED BY <1>1, <1>8, <2>4 DEF ChannelInv, OneToken
<1>14. Budget'
  <2>1. Pending' = Pending /\ Len(log') = Len(log)
    BY <1>1 DEF Pending, ring
  <2> QED BY <1>2, <1>3, <2>1, BudgetShrinks
<1> QED BY <1>2, <1>3, <1>9, <1>10, <1>11, <1>12, <1>13, <1>14 DEF ChannelInv

(* The process may die in the middle of a write: nothing is promised of     *)
(* that record, and the lock it may hold is never asked for again.          *)
LEMMA ClientDiesStep ==
  ASSUME ChannelInv, ClientDies
  PROVE  ChannelInv'
<1>0. /\ RingInv /\ TypeOK /\ scenario \in ScenarioType
      /\ client \in [ref : BOOLEAN, alive : BOOLEAN] /\ sock \in SocketState
  BY DEF ChannelInv, TypeOK, SocketState
<1>1. /\ client.alive /\ client' = [client EXCEPT !.alive = FALSE, !.ref = FALSE]
      /\ call' = [t \in Threads |-> NoCall] /\ sock' = [sock EXCEPT !.open = FALSE]
      /\ UNCHANGED <<ring, meta, tasks, worker, data, delivered, due>>
  BY DEF ClientDies
<1>2. /\ scenario' \in ScenarioType /\ scenario'.calls = scenario.calls
      /\ scenario'.max_tries = scenario.max_tries
  BY <1>0, HappensFacts DEF ClientDies
<1>3. RingInv'
  BY <1>0, <1>1, RingKept
<1>4. NoCall \in CallState /\ NoCall.at = "none"
  BY DEF NoCall, CallState, RecordTypes
<1>5. /\ client'.ref = FALSE /\ client'.alive = FALSE /\ sock'.open = FALSE
      /\ sock'.state = sock.state /\ sock'.byte = sock.byte
      /\ client' \in [ref : BOOLEAN, alive : BOOLEAN] /\ sock' \in SocketState
  BY <1>0, <1>1 DEF SocketState
<1>6. call' \in [Threads -> CallState] /\ \A t \in Threads : call'[t].at = "none"
  BY <1>1, <1>4
<1>7. Busy' = {} /\ Pending' = {} /\ ~Sender'
  BY <1>6 DEF Busy, Pending, Sender
<1>8. SocketOpen' /\ CallsMatchWrites'
  BY <1>5, <1>7 DEF SocketOpen, CallsMatchWrites
<1>9. TypeOK'
  BY <1>0, <1>1, <1>2, <1>5, <1>6 DEF TypeOK, meta, ring, SocketState, CallState
<1>10. WorkerReads' /\ Accounted'
  BY <1>1 DEF ChannelInv, WorkerReads, Accounted, ring
<1>11. Disconnected' /\ Draining' /\ DrainsEverything'
  BY <1>1, <1>5 DEF ChannelInv, Disconnected, IsConnected, Draining, DrainsEverything,
                    EndOf, ring, meta
<1>12. OneToken'
  <2>1. Tokens \in Int /\ Tokens' <= Tokens /\ IsConnected' = IsConnected /\ Tokens' \in Int
    BY <1>0, <1>1, <1>5, <1>7, Fields DEF Tokens, Count, meta, IsConnected
  <2>2. (Count(~sock.open /\ ~IsConnected))' >= Count(~sock.open /\ ~IsConnected)
        /\ (Count(~sock.open /\ ~IsConnected))' \in Nat /\ Count(~sock.open /\ ~IsConnected) \in Nat
    BY <1>5, <2>1 DEF Count
  <2>3. Tokens' <= 1 + (Count(~sock.open /\ ~IsConnected))'
    BY <2>1, <2>2 DEF ChannelInv, OneToken
  <2> QED BY <1>5, <1>6, <2>3 DEF OneToken
<1>13. Budget'
  BY <1>1, <1>2, <1>3, <1>7, BudgetShrinks DEF ring
<1> QED BY <1>2, <1>3, <1>8, <1>9, <1>10, <1>11, <1>12, <1>13 DEF ChannelInv

LEMMA PostStep ==
  ASSUME ChannelInv, PostDisconnectSocket \/ PostPurgeProcess
  PROVE  ChannelInv'
<1>0. RingInv /\ TypeOK /\ scenario \in ScenarioType
  BY DEF ChannelInv
<1>1. PICK e \in {"disconnect", "purge"} :
        /\ tasks.stop \in {"none", "stopping"} /\ tasks' = [tasks EXCEPT !.stop = e]
        /\ UNCHANGED <<ring, meta, client, call, sock, worker, data, delivered, due>>
  BY DEF PostDisconnectSocket, PostPurgeProcess
<1>2. /\ scenario' \in ScenarioType /\ scenario'.calls = scenario.calls
      /\ scenario'.max_tries = scenario.max_tries
  BY <1>0, HappensFacts DEF PostDisconnectSocket, PostPurgeProcess
<1>3. RingInv'
  BY <1>0, <1>1, RingKept
<1>4. /\ tasks'.batch = tasks.batch /\ tasks'.drain = tasks.drain
      /\ tasks'.disconnected = tasks.disconnected /\ tasks'.stop = e
      /\ tasks' \in [batch : 0 .. 2, drain : BOOLEAN, disconnected : BOOLEAN,
                     stop : {"none", "disconnect", "stopping", "purge", "purged", "stopped"}]
  BY <1>0, <1>1 DEF TypeOK
<1>5. TypeOK'
  BY <1>0, <1>1, <1>2, <1>4 DEF TypeOK, meta, ring
<1>6. CallsMatchWrites' /\ SocketOpen' /\ WorkerReads' /\ Accounted'
  BY <1>1, <1>4 DEF ChannelInv, CallsMatchWrites, SocketOpen, Busy, WorkerReads, Accounted, ring
<1>7. Disconnected' /\ Draining' /\ DrainsEverything'
  <2>1. Disconnected'
    BY <1>1, <1>4 DEF ChannelInv, Disconnected, IsConnected, meta
  <2>2. Draining'
    BY <1>1 DEF ChannelInv, Draining, EndOf, ring, meta
  <2>3. DrainsEverything'
    BY <1>1, <1>4 DEF ChannelInv, DrainsEverything, ring, meta
  <2> QED BY <2>1, <2>2, <2>3
<1>8. OneToken'
  BY <1>1, <1>4 DEF ChannelInv, OneToken, Tokens, Sender, IsConnected, meta
<1>9. Budget'
  <2>1. Pending' = Pending /\ Len(log') = Len(log)
    BY <1>1 DEF Pending, ring
  <2> QED BY <1>2, <1>3, <2>1, BudgetShrinks
<1> QED BY <1>2, <1>3, <1>5, <1>6, <1>7, <1>8, <1>9 DEF ChannelInv

-----------------------------------------------------------------------------
(* The steps of the worker.                                                 *)

TaskState == [batch : 0 .. 2, drain : BOOLEAN, disconnected : BOOLEAN,
              stop : {"none", "disconnect", "stopping", "purge", "purged", "stopped"}]
WorkerState == [at : {"idle", "batch", "drain"}, i : 0 .. kUnwindBatchSize - 1,
                bytes_read : Nat]
DataState == [present : BOOLEAN, drain_bytes : 0 .. Size,
              free_records : SUBSET (1 .. MaxRecords)]

LEMMA Types ==
  ASSUME ChannelInv
  PROVE  /\ TypeOK /\ RingInv /\ RingType
         /\ sock \in SocketState /\ tasks \in TaskState /\ worker \in WorkerState
         /\ data \in DataState /\ rd \in ReadState
BY DEF ChannelInv, TypeOK, RingInv, RingType, SocketState, TaskState, WorkerState, DataState

LEMMA WorkerType ==
  ASSUME ChannelInv, RingInv', UNCHANGED <<scenario, client, call, error_state>>,
         shutting_down' \in BOOLEAN, reader_paused' \in BOOLEAN,
         sock' \in SocketState, tasks' \in TaskState, worker' \in WorkerState,
         data' \in DataState, Cardinality(data'.free_records) < kRecordBatchSize,
         delivered' \subseteq 1 .. MaxRecords, due' \subseteq 1 .. MaxRecords
  PROVE  TypeOK'
<1>1. locked' \in BOOLEAN
  BY DEF RingInv, RingType
<1>2. {shutting_down', reader_paused', locked'} \subseteq BOOLEAN
  BY <1>1
<1> QED BY <1>2 DEF ChannelInv, TypeOK, SocketState, TaskState, WorkerState, DataState

(* Nothing of the batches and the histories changes.                        *)
LEMMA WorkerTypeKept ==
  ASSUME ChannelInv, RingInv',
         UNCHANGED <<scenario, client, call, error_state, data, delivered, due>>,
         shutting_down' \in BOOLEAN, reader_paused' \in BOOLEAN,
         sock' \in SocketState, tasks' \in TaskState, worker' \in WorkerState
  PROVE  TypeOK'
<1>1. /\ data' \in DataState /\ Cardinality(data'.free_records) < kRecordBatchSize
      /\ delivered' \subseteq 1 .. MaxRecords /\ due' \subseteq 1 .. MaxRecords
  BY DEF ChannelInv, TypeOK, DataState
<1> QED BY <1>1, WorkerType

(* No more records than calls: the numbers of records stay in bounds.       *)
LEMMA RecordsBounded ==
  ASSUME ChannelInv
  PROVE  Len(log) \in Nat /\ Len(log) <= MaxRecords /\ DOMAIN log = 1 .. Len(log)
<1>1. IsFiniteSet(Pending) /\ log \in Seq(LogRecord) /\ scenario.calls \in Seq(Calls)
      /\ Cardinality(Pending) + Len(log) + Len(scenario.calls) <= MaxRecords
  BY DEF ChannelInv, Budget, RingInv, RingType, ScenarioType
<1>2. Cardinality(Pending) \in Nat
  BY <1>1, FS_CardinalityType
<1> QED BY <1>1, <1>2, RingConstants

(* The reader starts to read, or stops.                                     *)
LEMMA ReaderStartsOrStops ==
  ASSUME RingInv, rd.at # "end", rd' = NoRead \/ rd' = [NoRead EXCEPT !.at = "begin"],
         UNCHANGED <<memory, wr>>
  PROVE  RingInv' /\ rd'.at \in {"idle", "begin"} /\ (rd' = NoRead => rd'.at = "idle")
<1>1. NoRead \in ReadState /\ NoRead.at = "idle"
  BY DEF NoRead, ReadState
<1>2. rd' \in ReadState /\ rd'.at \in {"idle", "begin"}
  BY <1>1 DEF ReadState
<1>3. ReadInProgress'
  BY <1>2 DEF ReadInProgress
<1>4. UNCHANGED <<read_pos, write_pos, locked, mem, wr, log, got>>
  BY DEF memory
<1>5. RingInv'
  BY <1>2, <1>3, <1>4, ReaderMoves
<1> QED BY <1>1, <1>2, <1>5

(* A record that is due and that the reader has not got still lies ahead.   *)
LEMMA Ahead ==
  ASSUME ChannelInv, NEW k \in DOMAIN log, k > Len(got)
  PROVE  /\ read_pos <= log[k].pos /\ log[k].pos < EndOf(k) /\ EndOf(k) <= write_pos
         /\ EndOf(k) \in Nat /\ read_pos \in Nat /\ write_pos \in Nat /\ log[k].pos \in Nat
<1>1. RingInv /\ RingType
  BY Types
<1>2. Live(k)
  BY <1>1, GotFacts
<1> QED BY <1>1, <1>2, LogFacts DEF Live, RingInv, Tiling, RingType

LEMMA ReadBufferStep ==
  ASSUME ChannelInv, ReadBuffer
  PROVE  ChannelInv'
<1>0. RingInv /\ RingType /\ TypeOK
  BY Types
<1>1. /\ UNCHANGED <<scenario, meta, client, call, sock, tasks, worker, data, delivered, due>>
      /\ UNCHANGED <<read_pos, write_pos, locked, mem, wr, log, got>>
      /\ rd.at \in {"begin", "header"}
  BY DEF ReadBuffer, BeginRead, LoadHeader
<1>2. RingInv'
  BY <1>0, BeginReadStep, LoadHeaderStep DEF ReadBuffer
<1>3. rd'.at # "idle"
  <2>1. rd \in ReadState
    BY <1>0 DEF RingType
  <2> QED BY <2>1 DEF ReadBuffer, BeginRead, LoadHeader, ReadState
<1>4. scenario' \in ScenarioType /\ CallsMatchWrites' /\ SocketOpen' /\ Budget'
  BY <1>1, WorkerFrame
<1>5. TypeOK'
  BY <1>0, <1>1, <1>2, Types, Fields, WorkerTypeKept DEF meta
<1>6. WorkerReads'
  BY <1>1, <1>3 DEF ChannelInv, WorkerReads
<1>7. Disconnected' /\ OneToken' /\ Accounted'
  BY <1>1 DEF ChannelInv, Disconnected, IsConnected, OneToken, Tokens, Sender, Accounted, meta
<1>8. DrainsEverything'
  BY <1>1 DEF ChannelInv, DrainsEverything, meta
<1>9. ASSUME rd'.at = "nodata", NEW k \in due PROVE k <= Len(got)
  <2>1. k \in DOMAIN log /\ \A j \in 1 .. k : log[j].written
    BY DEF ChannelInv, Draining
  <2>2. k \in Nat /\ k <= Len(log) /\ Len(log) \in Nat /\ Len(got) \in Nat
        /\ DOMAIN log = 1 .. Len(log)
    BY <1>0, <2>1, LogFacts DEF RingType
  <2> SUFFICES ASSUME k > Len(got) PROVE FALSE
    BY <2>2
  <2>3. PICK j \in DOMAIN log : j = Len(got) + 1 /\ log[j].written
    BY <2>1, <2>2
  <2>4. /\ read_pos <= log[j].pos /\ log[j].pos < EndOf(j) /\ EndOf(j) <= write_pos
        /\ EndOf(j) \in Nat /\ read_pos \in Nat /\ write_pos \in Nat /\ log[j].pos \in Nat
    BY <2>2, <2>3, Ahead
  <2>5. CASE BeginRead
    <3>1. write_pos - read_pos < kHeaderSize
      <4>1. rd \in ReadState
        BY <1>0 DEF RingType
      <4> QED BY <1>9, <2>5, <4>1 DEF BeginRead, ReadState
    <3> QED BY <2>4, <3>1 DEF kHeaderSize
  <2>6. CASE LoadHeader
    <3>1. rd.at = "header" /\ rd \in ReadState
      BY <1>0, <2>6 DEF LoadHeader, RingType
    <3>2. read_pos = log[j].pos
      <4>1. read_pos = NextPos(Len(got))
        BY <1>0, <3>1 DEF RingInv, InOrder
      <4> QED BY <2>2, <2>3, <4>1 DEF NextPos
    <3>3. mem[at(read_pos)] = log[j].size /\ log[j].size \in Nat /\ log[j].size >= 1
      BY <1>0, <2>3, <2>4, <3>2, LogFacts DEF RingInv, Headers, Live
    <3>4. mem[at(read_pos)] = 0
      <4> DEFINE size == mem[at(read_pos)]
                 next == CASE size = 0 -> "nodata"
                   [] size < 0 \/ WithHeader(size) > rd.wpos - read_pos -> "corrupt"
                   [] OTHER -> "handle"
      <4>1. rd' = [rd EXCEPT !.size = size, !.at = next]
        BY <2>6 DEF LoadHeader
      <4>2. next = "nodata" => size = 0
        BY <3>3
      <4> HIDE DEF next, size
      <4>3. rd'.at = next
        BY <3>1, <4>1 DEF ReadState
      <4> QED BY <1>9, <4>2, <4>3 DEF size
    <3> QED BY <3>3, <3>4
  <2> QED BY <2>5, <2>6 DEF ReadBuffer
<1>10. Draining'
  BY <1>1, <1>9 DEF ChannelInv, Draining, EndOf, meta
<1> QED BY <1>2, <1>4, <1>5, <1>6, <1>7, <1>8, <1>10 DEF ChannelInv

(* The record that is handled goes to the main thread, or waits with fewer  *)
(* frees than make a batch.                                                 *)
LEMMA HandleRecordStep ==
  ASSUME ChannelInv, HandleRecord
  PROVE  ChannelInv'
<1>0. RingInv /\ RingType /\ TypeOK /\ data \in DataState
  BY Types
<1>1. PICK k : k = Len(got) + 1
  OBVIOUS
<1> DEFINE frees == data.free_records \cup {k}
<1>2. /\ HandleBuffer
      /\ UNCHANGED <<scenario, meta, client, call, sock, tasks, worker, due>>
      /\ \/ delivered' = delivered \cup {k} /\ UNCHANGED data
         \/ /\ delivered' = delivered \cup frees
            /\ data' = [data EXCEPT !.free_records = {}]
         \/ /\ Cardinality(frees) # kRecordBatchSize
            /\ data' = [data EXCEPT !.free_records = frees] /\ UNCHANGED delivered
  BY <1>1 DEF HandleRecord
<1>3. RingInv' /\ k \in DOMAIN log /\ got' = Append(got, k)
  BY <1>0, <1>1, <1>2, HandleBufferStep
<1>4. /\ rd.at = "handle" /\ rd' = [rd EXCEPT !.at = "end"]
      /\ UNCHANGED <<read_pos, write_pos, locked, mem, wr, log>>
  BY <1>2 DEF HandleBuffer
<1>5. rd'.at = "end"
  BY <1>0, <1>4 DEF RingType, ReadState
<1>6. data.present /\ worker.at # "idle"
  BY <1>4 DEF ChannelInv, WorkerReads
<1>7. k \in 1 .. MaxRecords /\ k \in Nat
  BY <1>3, RecordsBounded, RingConstants
<1>8. DOMAIN got' = DOMAIN got \cup {k} /\ DOMAIN got = 1 .. Len(got)
  <2>1. got \in Seq(Nat) /\ Len(got) \in Nat
    BY <1>0 DEF RingType
  <2>2. Len(got') = Len(got) + 1 /\ DOMAIN got' = 1 .. Len(got')
    BY <1>3, <1>7, <2>1, AppendProperties
  <2> QED BY <1>1, <2>1, <2>2
<1>9. /\ data.free_records \subseteq DOMAIN got /\ delivered \subseteq DOMAIN got
      /\ delivered \cup data.free_records = DOMAIN got
      /\ data.free_records \subseteq 1 .. MaxRecords
      /\ delivered \subseteq 1 .. MaxRecords /\ due \subseteq 1 .. MaxRecords
      /\ Cardinality(data.free_records) < kRecordBatchSize
  BY <1>0, <1>6, Fields DEF ChannelInv, Accounted, TypeOK
<1>10. /\ data' \in DataState /\ Cardinality(data'.free_records) < kRecordBatchSize
       /\ data'.present = data.present /\ data'.drain_bytes = data.drain_bytes
       /\ delivered' \subseteq 1 .. MaxRecords /\ Accounted'
  <2>1. IsFiniteSet(1 .. MaxRecords)
    BY RingConstants, FS_Interval
  <2>2. IsFiniteSet(data.free_records) /\ Cardinality(data.free_records) \in Nat
    BY <1>9, <2>1, FS_Subset, FS_CardinalityType
  <2>3. k \notin data.free_records
    <3>1. k \notin DOMAIN got
      BY <1>0, <1>1, <1>8 DEF RingType
    <3> QED BY <1>9, <3>1
  <2>4. Cardinality(frees) = Cardinality(data.free_records) + 1
    BY <2>2, <2>3, FS_AddElement
  <2>5. kRecordBatchSize \in Nat /\ kRecordBatchSize > 0
    BY ChannelConstants
  <2>6. Cardinality({}) = 0
    BY FS_EmptySet
  <2>7. frees \subseteq DOMAIN got' /\ frees \subseteq 1 .. MaxRecords
    BY <1>7, <1>8, <1>9
  <2>8. CASE delivered' = delivered \cup {k} /\ UNCHANGED data
    BY <1>0, <1>7, <1>8, <1>9, <2>8 DEF Accounted
  <2>9. CASE delivered' = delivered \cup frees /\ data' = [data EXCEPT !.free_records = {}]
    <3>1. /\ data' \in DataState /\ data'.present = data.present
          /\ data'.drain_bytes = data.drain_bytes /\ data'.free_records = {}
      BY <1>0, <2>9 DEF DataState
    <3> QED BY <1>8, <1>9, <2>5, <2>6, <2>7, <2>9, <3>1 DEF Accounted
  <2>10. CASE /\ Cardinality(frees) # kRecordBatchSize
              /\ data' = [data EXCEPT !.free_records = frees] /\ UNCHANGED delivered
    <3> HIDE DEF frees
    <3>1. /\ data' \in DataState /\ data'.present = data.present
          /\ data'.drain_bytes = data.drain_bytes /\ data'.free_records = frees
      BY <1>0, <2>7, <2>10 DEF DataState
    <3>2. Cardinality(frees) < kRecordBatchSize
      BY <1>9, <2>2, <2>4, <2>5, <2>10
    <3>3. Accounted'
      BY <1>8, <1>9, <2>7, <2>10, <3>1 DEF Accounted, frees
    <3> QED BY <1>9, <2>10, <3>1, <3>2, <3>3
  <2> QED BY <1>2, <2>8, <2>9, <2>10
<1>11. scenario' \in ScenarioType /\ CallsMatchWrites' /\ SocketOpen' /\ Budget'
  BY <1>2, <1>4, WorkerFrame
<1>12. TypeOK'
  BY <1>0, <1>2, <1>3, <1>9, <1>10, Types, Fields, WorkerType DEF meta
<1>13. WorkerReads' /\ Disconnected' /\ DrainsEverything'
  BY <1>2, <1>5, <1>6, <1>10 DEF ChannelInv, WorkerReads, Disconnected, IsConnected,
                                 DrainsEverything, meta
<1>14. OneToken'
  BY <1>2, <1>10 DEF ChannelInv, OneToken, Tokens, Sender, IsConnected, meta
<1>15. Draining'
  BY <1>2, <1>4, <1>5, <1>10 DEF ChannelInv, Draining, EndOf, meta
<1> QED BY <1>3, <1>10, <1>11, <1>12, <1>13, <1>14, <1>15 DEF ChannelInv

LEMMA ReleaseRecordStep ==
  ASSUME ChannelInv, ReleaseRecord
  PROVE  ChannelInv'
<1>0. RingInv /\ RingType /\ TypeOK /\ worker \in WorkerState
  BY Types
<1>1. /\ EndRead /\ worker' = [worker EXCEPT !.bytes_read = @ + WithHeader(rd.size)]
      /\ UNCHANGED <<scenario, meta, client, call, sock, tasks, data, delivered, due>>
  BY DEF ReleaseRecord
<1>2. RingInv' /\ rd.size \in Nat /\ rd.size >= 1 /\ read_pos' = read_pos + rd.size + 1
  BY <1>0, <1>1, EndReadStep
<1>3. /\ rd.at = "end" /\ rd' = [rd EXCEPT !.at = "done"]
      /\ UNCHANGED <<write_pos, locked, mem, wr, log, got>>
  BY <1>1 DEF EndRead
<1>4. rd'.at = "done" /\ read_pos \in Nat
  BY <1>0, <1>3 DEF RingType, ReadState
<1>5. PICK n \in Nat : n = worker.bytes_read + rd.size + 1
  BY <1>0, <1>2 DEF WorkerState
<1>6. worker' = [worker EXCEPT !.bytes_read = n]
  BY <1>0, <1>1, <1>2, <1>5 DEF WithHeader, kHeaderSize, WorkerState
<1>7. worker' \in WorkerState /\ worker'.at = worker.at /\ worker'.bytes_read = n
  BY <1>0, <1>6 DEF WorkerState
<1>8. worker.at # "idle" /\ data.present
  BY <1>3 DEF ChannelInv, WorkerReads
<1>9. scenario' \in ScenarioType /\ CallsMatchWrites' /\ SocketOpen' /\ Budget'
  BY <1>1, <1>3, WorkerFrame
<1>10. TypeOK'
  BY <1>0, <1>1, <1>2, <1>7, Types, Fields, WorkerTypeKept DEF meta
<1>11. WorkerReads' /\ Disconnected' /\ DrainsEverything' /\ Accounted'
  BY <1>1, <1>3, <1>4, <1>7, <1>8 DEF ChannelInv, WorkerReads, Disconnected, IsConnected,
                                 DrainsEverything, Accounted, meta
<1>12. OneToken'
  BY <1>1, <1>7 DEF ChannelInv, OneToken, Tokens, Sender, IsConnected, meta
<1>13. Draining'
  <2>1. worker.bytes_read \in Nat /\ data.drain_bytes \in Nat
    BY <1>0, Fields
  <2>2. read_pos' + data'.drain_bytes - worker'.bytes_read
          = read_pos + data.drain_bytes - worker.bytes_read
    BY <1>1, <1>2, <1>4, <1>5, <1>7, <2>1
  <2> QED BY <1>1, <1>3, <1>4, <2>2 DEF ChannelInv, Draining, EndOf, meta
<1> QED BY <1>2, <1>9, <1>10, <1>11, <1>12, <1>13 DEF ChannelInv

LEMMA NextRecordStep ==
  ASSUME ChannelInv, NextRecord
  PROVE  ChannelInv'
<1>0. RingInv /\ RingType /\ TypeOK /\ worker \in WorkerState
  BY Types
<1>1. /\ rd.at = "done" /\ worker.i + 1 < kUnwindBatchSize
      /\ worker' = [worker EXCEPT !.i = @ + 1] /\ rd' = [NoRead EXCEPT !.at = "begin"]
      /\ UNCHANGED <<scenario, memory, wr, meta, client, call, sock, tasks, data,
                     delivered, due>>
  BY DEF NextRecord, BatchContinues
<1>2. RingInv' /\ rd'.at = "begin"
  <2>1. NoRead \in ReadState
    BY DEF NoRead, ReadState
  <2>2. rd'.at = "begin"
    BY <1>1, <2>1 DEF ReadState
  <2> QED BY <1>0, <1>1, <2>2, ReaderStartsOrStops
<1>3. PICK n \in 0 .. kUnwindBatchSize - 1 : n = worker.i + 1
  BY <1>0, <1>1, ChannelConstants DEF WorkerState
<1>4. /\ worker' \in WorkerState /\ worker'.at = worker.at
      /\ worker'.bytes_read = worker.bytes_read
  <2>1. worker' = [worker EXCEPT !.i = n]
    BY <1>0, <1>1, <1>3
  <2> QED BY <1>0, <2>1 DEF WorkerState
<1>5. worker.at # "idle"
  BY <1>1 DEF ChannelInv, WorkerReads
<1>6. scenario' \in ScenarioType /\ CallsMatchWrites' /\ SocketOpen' /\ Budget'
  BY <1>1, WorkerFrame DEF memory
<1>7. TypeOK'
  BY <1>0, <1>1, <1>2, <1>4, Types, Fields, WorkerTypeKept DEF meta
<1>8. WorkerReads' /\ Disconnected' /\ DrainsEverything' /\ Accounted'
  BY <1>1, <1>2, <1>4, <1>5 DEF ChannelInv, WorkerReads, Disconnected, IsConnected,
                                DrainsEverything, Accounted, meta, memory
<1>9. OneToken'
  BY <1>1, <1>4 DEF ChannelInv, OneToken, Tokens, Sender, IsConnected, meta
<1>10. Draining'
  BY <1>1, <1>2, <1>4 DEF ChannelInv, Draining, EndOf, meta, memory
<1> QED BY <1>2, <1>6, <1>7, <1>8, <1>9, <1>10 DEF ChannelInv

LEMMA RestingFacts ==
  /\ Resting \in WorkerState /\ Resting.at = "idle" /\ Resting.bytes_read = 0
  /\ \A kind \in {"batch", "drain"} :
       /\ [Resting EXCEPT !.at = kind] \in WorkerState
       /\ [Resting EXCEPT !.at = kind].at = kind
       /\ [Resting EXCEPT !.at = kind].bytes_read = 0
<1>1. Resting \in WorkerState /\ Resting.at = "idle" /\ Resting.bytes_read = 0
  BY ChannelConstants DEF Resting, WorkerState
<1> QED BY <1>1 DEF WorkerState

LEMMA BeginFacts ==
  /\ NoRead \in ReadState /\ NoRead.at = "idle"
  /\ [NoRead EXCEPT !.at = "begin"].at = "begin"
<1>1. NoRead \in ReadState /\ NoRead.at = "idle"
  BY DEF NoRead, ReadState
<1> QED BY <1>1 DEF ReadState

(* The token passes from the job to the next job, or to the pause bit.      *)
LEMMA EndOfBatchStep ==
  ASSUME ChannelInv, EndOfBatch
  PROVE  ChannelInv'
<1>0. RingInv /\ RingType /\ TypeOK /\ tasks \in TaskState /\ tasks.batch \in 0 .. 2
      /\ reader_paused \in BOOLEAN
  BY Types, Fields
<1>1. /\ worker.at = "batch" /\ worker' = Resting /\ rd' = NoRead
      /\ rd.at \in {"done", "nodata", "corrupt"}
      /\ \/ tasks' = [tasks EXCEPT !.batch = @ + 1] /\ UNCHANGED reader_paused
         \/ reader_paused' = TRUE /\ UNCHANGED tasks
      /\ UNCHANGED <<scenario, memory, wr, shutting_down, error_state, client, call, sock,
                     data, delivered, due>>
  BY DEF EndOfBatch, HasMore, ReadSome, ReadNone
<1>2. worker'.at = "idle" /\ worker'.bytes_read = 0 /\ rd'.at = "idle" /\ worker' \in WorkerState
  BY <1>1, RestingFacts, BeginFacts
<1>3. RingInv'
  BY <1>0, <1>1, ReaderStartsOrStops
<1>4. data.present /\ data.drain_bytes = 0
  BY <1>1 DEF ChannelInv, WorkerReads
<1>5. /\ tasks' \in TaskState /\ tasks'.drain = tasks.drain
      /\ tasks'.disconnected = tasks.disconnected /\ tasks'.stop = tasks.stop
      /\ \/ tasks'.batch = tasks.batch + 1 /\ reader_paused' = reader_paused
         \/ reader_paused' = TRUE /\ tasks'.batch = tasks.batch
  <2>1. CASE tasks' = [tasks EXCEPT !.batch = @ + 1] /\ UNCHANGED reader_paused
    <3>0. Tokens \in Int /\ Tokens <= 1 + Count(~sock.open /\ ~IsConnected)
      BY <1>0, Fields DEF ChannelInv, OneToken, Tokens, Count
    <3>1. Tokens <= 2
      <4>1. Count(~sock.open /\ ~IsConnected) \in 0 .. 1
        BY DEF Count
      <4> QED BY <3>0, <4>1
    <3>2. tasks.batch + 1 \in 0 .. 2
      BY <1>0, <1>1, <3>1 DEF Tokens, Count
    <3>3. PICK n \in 0 .. 2 : n = tasks.batch + 1
      BY <3>2
    <3>4. tasks' = [tasks EXCEPT !.batch = n]
      BY <2>1, <3>3
    <3> QED BY <1>0, <2>1, <3>3, <3>4 DEF TaskState
  <2>2. CASE reader_paused' = TRUE /\ UNCHANGED tasks
    BY <1>0, <2>2
  <2> QED BY <1>1, <2>1, <2>2
<1>6. scenario' \in ScenarioType /\ CallsMatchWrites' /\ SocketOpen' /\ Budget'
  BY <1>1, WorkerFrame DEF memory
<1>7. TypeOK'
  BY <1>0, <1>1, <1>2, <1>3, <1>5, Types, Fields, WorkerTypeKept
<1>8. WorkerReads' /\ Disconnected' /\ DrainsEverything' /\ Accounted'
  BY <1>1, <1>2, <1>4, <1>5 DEF ChannelInv, WorkerReads, Disconnected, IsConnected,
                                DrainsEverything, Accounted, memory
<1>9. OneToken'
  <2>1. Sender' = Sender /\ sock' = sock /\ IsConnected' = IsConnected
        /\ (Count(~sock.open /\ ~IsConnected))' = Count(~sock.open /\ ~IsConnected)
    BY <1>1 DEF Sender, IsConnected
  <2>2. Tokens' <= Tokens /\ Tokens' >= 1 /\ Tokens \in Int /\ Tokens' \in Int
        /\ Count(~sock.open /\ ~IsConnected) \in Nat
    BY <1>0, <1>1, <1>2, <1>5, <2>1 DEF Tokens, Count
  <2>3. Tokens' <= 1 + (Count(~sock.open /\ ~IsConnected))'
    BY <2>1, <2>2 DEF ChannelInv, OneToken
  <2> QED BY <1>1, <2>2, <2>3 DEF ChannelInv, OneToken
<1>10. Draining'
  BY <1>1, <1>2, <1>4 DEF ChannelInv, Draining, memory
<1> QED BY <1>3, <1>6, <1>7, <1>8, <1>9, <1>10 DEF ChannelInv

(* The data of the client goes with everything that was read.               *)
LEMMA FinishDisconnectFacts ==
  ASSUME ChannelInv, FinishDisconnect, data.present
  PROVE  /\ delivered' = DOMAIN got /\ data' \in DataState /\ ~data'.present
         /\ data'.drain_bytes = 0 /\ data'.free_records = {}
         /\ Cardinality(data'.free_records) < kRecordBatchSize
         /\ delivered' \subseteq 1 .. MaxRecords
<1>1. /\ delivered' = delivered \cup data.free_records
      /\ data' = [present |-> FALSE, drain_bytes |-> 0, free_records |-> {}]
  BY DEF FinishDisconnect
<1>2. delivered' = DOMAIN got
  BY <1>1 DEF ChannelInv, Accounted
<1>3. /\ data' \in DataState /\ data'.present = FALSE
      /\ data'.drain_bytes = 0 /\ data'.free_records = {}
  BY <1>1, RingConstants DEF DataState
<1>4. Cardinality({}) = 0 /\ kRecordBatchSize \in Nat /\ kRecordBatchSize > 0
  BY FS_EmptySet, ChannelConstants
<1>5. delivered' \subseteq 1 .. MaxRecords
  BY <1>1, Types, Fields DEF TypeOK
<1> QED BY <1>2, <1>3, <1>4, <1>5

LEMMA EndOfDrainJobStep ==
  ASSUME ChannelInv, EndOfDrainJob
  PROVE  ChannelInv'
<1>0. RingInv /\ RingType /\ TypeOK /\ tasks \in TaskState /\ data \in DataState
  BY Types
<1>1. /\ worker.at = "drain" /\ worker' = Resting /\ rd' = NoRead
      /\ rd.at \in {"done", "nodata", "corrupt"}
      /\ UNCHANGED <<scenario, memory, wr, meta, client, call, sock, due>>
  BY DEF EndOfDrainJob, HasMore, ReadSome, ReadNone
<1>2. worker'.at = "idle" /\ worker'.bytes_read = 0 /\ rd'.at = "idle" /\ worker' \in WorkerState
  BY <1>1, RestingFacts, BeginFacts
<1>3. RingInv'
  BY <1>0, <1>1, ReaderStartsOrStops
<1>4. data.present /\ data.drain_bytes # 0 /\ ~IsConnected /\ IsConnected' = IsConnected
  BY <1>1 DEF ChannelInv, WorkerReads, Disconnected, IsConnected
<1>5. scenario' \in ScenarioType /\ CallsMatchWrites' /\ SocketOpen' /\ Budget'
  BY <1>1, WorkerFrame DEF memory
<1>6. due' \subseteq 1 .. MaxRecords /\ delivered \subseteq 1 .. MaxRecords
      /\ data.drain_bytes \in 0 .. Size /\ worker.bytes_read \in Nat
      /\ shutting_down' \in BOOLEAN /\ reader_paused' \in BOOLEAN /\ sock' \in SocketState
      /\ Cardinality(data.free_records) < kRecordBatchSize
  BY <1>0, <1>1, Fields, Types DEF TypeOK, meta
<1>7. ASSUME tasks'.batch = tasks.batch
      PROVE  OneToken'
  <2>1. Tokens' = Tokens /\ sock' = sock
    BY <1>1, <1>2, <1>7 DEF Tokens, Sender, Count, meta
  <2> QED BY <1>1, <1>4, <2>1 DEF ChannelInv, OneToken
<1>8. CASE /\ HasMore /\ worker.bytes_read < data.drain_bytes
           /\ data' = [data EXCEPT !.drain_bytes = @ - worker.bytes_read]
           /\ tasks' = [tasks EXCEPT !.drain = TRUE]
           /\ UNCHANGED delivered
  <2>1. PICK n \in 1 .. Size : n = data.drain_bytes - worker.bytes_read
    BY <1>6, <1>8, RingConstants
  <2>2. data' = [data EXCEPT !.drain_bytes = n]
    BY <1>8, <2>1
  <2>3. /\ data' \in DataState /\ data'.present = data.present /\ data'.drain_bytes = n
        /\ data'.free_records = data.free_records
    BY <1>0, <2>1, <2>2 DEF DataState
  <2>4. /\ tasks' \in TaskState /\ tasks'.batch = tasks.batch /\ tasks'.drain = TRUE
        /\ tasks'.disconnected = tasks.disconnected /\ tasks'.stop = tasks.stop
    BY <1>0, <1>8 DEF TaskState
  <2>5. n # 0
    BY <2>1
  <2>6. TypeOK'
    BY <1>1, <1>2, <1>3, <1>6, <1>8, <2>3, <2>4, WorkerType DEF meta
  <2>7. WorkerReads' /\ Disconnected' /\ DrainsEverything' /\ Accounted'
    BY <1>1, <1>2, <1>4, <1>8, <2>3, <2>4, <2>5
       DEF ChannelInv, WorkerReads, Disconnected, DrainsEverything, Accounted, memory, meta
  <2>8. Draining'
    <3>1. read_pos \in Nat
      BY <1>0 DEF RingType
    <3>2. read_pos' + data'.drain_bytes - worker'.bytes_read
            = read_pos + data.drain_bytes - worker.bytes_read
      BY <1>1, <1>2, <1>6, <2>1, <2>3, <3>1 DEF memory
    <3> QED BY <1>1, <1>2, <1>4, <3>2 DEF ChannelInv, Draining, EndOf, memory, meta
  <2> QED BY <1>3, <1>5, <1>7, <2>4, <2>6, <2>7, <2>8 DEF ChannelInv
<1>9. CASE /\ HasMore => worker.bytes_read >= data.drain_bytes
           /\ HasMore \/ ReadSome \/ ReadNone
           /\ FinishDisconnect
           /\ UNCHANGED tasks
  <2>1. /\ delivered' = DOMAIN got /\ data' \in DataState /\ ~data'.present
        /\ data'.drain_bytes = 0 /\ data'.free_records = {}
        /\ Cardinality(data'.free_records) < kRecordBatchSize
        /\ delivered' \subseteq 1 .. MaxRecords
    BY <1>4, <1>9, FinishDisconnectFacts
  <2>2. /\ Len(got) \in Nat /\ DOMAIN got = 1 .. Len(got) /\ Len(log) \in Nat
        /\ DOMAIN log = 1 .. Len(log) /\ Len(got) <= Len(log)
    BY <1>0 DEF RingType, RingInv, InOrder
  <2>3. ASSUME NEW k \in due PROVE k \in DOMAIN got
    <3>1. k \in DOMAIN log /\ EndOf(k) <= read_pos + data.drain_bytes - worker.bytes_read
      BY <1>4 DEF ChannelInv, Draining
    <3>2. CASE rd.at = "nodata"
      BY <1>1, <2>2, <3>1, <3>2 DEF ChannelInv, Draining
    <3>3. CASE rd.at = "done"
      <4>1. worker.bytes_read >= data.drain_bytes
        BY <1>9, <3>3 DEF ReadSome, ReadNone
      <4> SUFFICES ASSUME k > Len(got) PROVE FALSE
        BY <2>2, <3>1
      <4> QED BY <1>6, <3>1, <4>1, Ahead, RingConstants
    <3>4. rd.at # "corrupt"
      BY <1>0 DEF RingInv, ReadInProgress
    <3> QED BY <1>1, <3>2, <3>3, <3>4
  <2>4. TypeOK'
    BY <1>0, <1>1, <1>2, <1>3, <1>6, <1>9, <2>1, WorkerType DEF meta
  <2>5. WorkerReads' /\ Disconnected'
    BY <1>1, <1>2, <1>4, <1>9, <2>1 DEF ChannelInv, WorkerReads, Disconnected, meta
  <2>6. Accounted'
    BY <1>1, <2>1 DEF Accounted, memory
  <2>7. DrainsEverything'
    <3>1. due' \subseteq delivered'
      BY <1>1, <2>1, <2>3
    <3>2. client.alive /\ ~shutting_down => delivered' = DOMAIN log
      <4> SUFFICES ASSUME client.alive, ~shutting_down PROVE delivered' = DOMAIN log
        OBVIOUS
      <4>1. due = DOMAIN log
        BY <1>4 DEF ChannelInv, Draining
      <4>2. DOMAIN log \subseteq DOMAIN got
        BY <2>3, <4>1
      <4>3. PICK n \in Nat, m \in Nat : /\ DOMAIN log = 1 .. n /\ DOMAIN got = 1 .. m
                                         /\ n = Len(log) /\ m = Len(got) /\ m <= n
        BY <2>2
      <4>4. n = m
        <5>1. 1 .. n \subseteq 1 .. m
          BY <4>2, <4>3
        <5>2. n # 0 => n \in 1 .. n
          OBVIOUS
        <5>3. n # 0 => n \in 1 .. m
          BY <5>1, <5>2
        <5>4. n # 0 => n <= m
          BY <5>3
        <5>5. m <= n
          BY <4>3
        <5> QED BY <5>4, <5>5
      <4> QED BY <2>1, <4>3, <4>4
    <3> QED BY <1>1, <3>1, <3>2 DEF DrainsEverything, memory, meta
  <2>8. Draining'
    BY <1>1, <1>2, <2>1 DEF ChannelInv, Draining, memory
  <2> QED BY <1>3, <1>5, <1>7, <1>9, <2>4, <2>5, <2>6, <2>7, <2>8 DEF ChannelInv
<1> QED BY <1>8, <1>9 DEF EndOfDrainJob

LEMMA StartBatchFacts ==
  ASSUME NEW kind \in {"batch", "drain"}, StartBatch(kind)
  PROVE  /\ worker' \in WorkerState /\ worker'.at = kind /\ worker'.bytes_read = 0
         /\ rd' = [NoRead EXCEPT !.at = "begin"] /\ rd'.at = "begin"
BY RestingFacts, BeginFacts DEF StartBatch

(* The token comes back to the worker with the byte; the end of the         *)
(* connection starts a job of its own.                                      *)
LEMMA OnDataAvailableStep ==
  ASSUME ChannelInv, OnDataAvailable
  PROVE  ChannelInv'
<1>0. RingInv /\ RingType /\ TypeOK /\ tasks \in TaskState /\ sock \in SocketState
      /\ sock.byte \in BOOLEAN /\ sock.open \in BOOLEAN /\ tasks.batch \in 0 .. 2
      /\ tasks.disconnected \in BOOLEAN
  BY Types, Fields
<1> DEFINE state == IF sock.byte THEN sock.state ELSE "kDisconnected"
           gone == tasks.disconnected \/ ~sock.byte
<1>1. /\ worker.at = "idle" /\ data.present /\ sock.state = "kConnected"
      /\ sock.byte \/ ~sock.open
      /\ sock' = [sock EXCEPT !.byte = FALSE, !.state = state]
      /\ tasks' = [tasks EXCEPT !.disconnected = gone]
      /\ BatchUnwindJob
      /\ UNCHANGED <<scenario, memory, wr, meta, client, call, data, delivered, due>>
  BY DEF OnDataAvailable
<1>2. rd.at = "idle" /\ data.drain_bytes = 0 /\ ~tasks.disconnected
  BY <1>1 DEF ChannelInv, WorkerReads, Disconnected, IsConnected
<1>3. /\ worker' \in WorkerState /\ worker'.at = "batch" /\ worker'.bytes_read = 0
      /\ rd' = [NoRead EXCEPT !.at = "begin"] /\ rd'.at = "begin"
  BY <1>1, <1>2, StartBatchFacts DEF BatchUnwindJob
<1>4. RingInv'
  BY <1>0, <1>1, <1>2, <1>3, ReaderStartsOrStops
<1>5. /\ gone \in BOOLEAN /\ (gone <=> ~sock.byte)
      /\ state \in {"kConnected", "kDisconnected"}
      /\ (state = "kConnected" <=> sock.byte)
  BY <1>0, <1>1, <1>2
<1> HIDE DEF gone, state
<1>6. /\ sock' \in SocketState /\ sock'.open = sock.open /\ sock'.byte = FALSE
      /\ sock'.state = state
  BY <1>0, <1>1, <1>5 DEF SocketState
<1>7. /\ tasks' \in TaskState /\ tasks'.batch = tasks.batch /\ tasks'.drain = tasks.drain
      /\ tasks'.stop = tasks.stop /\ tasks'.disconnected = gone
  BY <1>0, <1>1, <1>5 DEF TaskState
<1>8. IsConnected /\ (IsConnected' <=> sock.byte)
  BY <1>1, <1>5, <1>6 DEF IsConnected
<1>9. scenario' \in ScenarioType /\ CallsMatchWrites' /\ SocketOpen' /\ Budget'
  BY <1>1, <1>6, WorkerFrame DEF memory
<1>10. TypeOK'
  BY <1>0, <1>1, <1>3, <1>4, <1>6, <1>7, Fields, WorkerTypeKept DEF meta
<1>11. WorkerReads' /\ Accounted'
  BY <1>1, <1>2, <1>3, <1>7 DEF ChannelInv, WorkerReads, Accounted, memory
<1>12. Disconnected'
  BY <1>1, <1>2, <1>5, <1>6, <1>7, <1>8 DEF Disconnected
<1>13. DrainsEverything' /\ Draining'
  BY <1>1, <1>2, <1>3 DEF ChannelInv, DrainsEverything, Draining, memory
<1>14. OneToken'
  <2>1. Sender' = Sender /\ reader_paused' = reader_paused /\ reader_paused \in BOOLEAN
    BY <1>0, <1>1, Fields DEF Sender, meta
  <2>2. Tokens' = tasks.batch + 1 + Count(reader_paused) + Count(Sender)
        /\ Tokens = tasks.batch + Count(reader_paused) + Count(sock.byte) + Count(Sender)
    BY <1>0, <1>1, <1>3, <1>6, <1>7, <2>1 DEF Tokens, Count
  <2>3. Tokens <= 1
    BY <1>0, <1>8, Fields DEF ChannelInv, OneToken, Count
  <2>4. Tokens' >= 1 /\ Tokens' \in Nat
    BY <1>0, <2>2 DEF Count
  <2>5. Tokens' <= 1 + (Count(~sock.open /\ ~IsConnected))'
    BY <1>0, <1>1, <1>6, <1>8, <2>2, <2>3 DEF Count
  <2> QED BY <1>1, <2>4, <2>5 DEF ChannelInv, OneToken
<1> QED BY <1>4, <1>9, <1>10, <1>11, <1>12, <1>13, <1>14 DEF ChannelInv

LEMMA RunBatchUnwindJobStep ==
  ASSUME ChannelInv, RunBatchUnwindJob
  PROVE  ChannelInv'
<1>0. RingInv /\ RingType /\ TypeOK /\ tasks \in TaskState /\ worker \in WorkerState
      /\ tasks.batch \in 0 .. 2 /\ reader_paused \in BOOLEAN
  BY Types, Fields
<1>1. /\ worker.at = "idle" /\ tasks.batch > 0
      /\ tasks' = [tasks EXCEPT !.batch = @ - 1]
      /\ BatchUnwindJob
      /\ UNCHANGED <<scenario, memory, wr, meta, client, call, sock, data, delivered, due>>
  BY DEF RunBatchUnwindJob
<1>2. rd.at = "idle" /\ worker.bytes_read = 0
  BY <1>1 DEF ChannelInv, WorkerReads
<1>3. PICK n \in 0 .. 2 : n = tasks.batch - 1
  BY <1>0, <1>1
<1>4. /\ tasks' \in TaskState /\ tasks'.batch = n /\ tasks'.drain = tasks.drain
      /\ tasks'.stop = tasks.stop /\ tasks'.disconnected = tasks.disconnected
  <2>1. tasks' = [tasks EXCEPT !.batch = n]
    BY <1>1, <1>3
  <2> QED BY <1>0, <2>1 DEF TaskState
<1>5. IsConnected' = IsConnected /\ Sender' = Sender
  BY <1>1 DEF IsConnected, Sender
<1>6. scenario' \in ScenarioType /\ CallsMatchWrites' /\ SocketOpen' /\ Budget'
  BY <1>1, WorkerFrame DEF memory
<1>7. CASE data.present /\ data.drain_bytes = 0
  <2>1. /\ worker' \in WorkerState /\ worker'.at = "batch" /\ worker'.bytes_read = 0
        /\ rd' = [NoRead EXCEPT !.at = "begin"] /\ rd'.at = "begin"
    BY <1>1, <1>7, StartBatchFacts DEF BatchUnwindJob
  <2>2. RingInv'
    BY <1>0, <1>1, <1>2, <2>1, ReaderStartsOrStops
  <2>3. TypeOK'
    BY <1>0, <1>1, <1>4, <2>1, <2>2, Types, Fields, WorkerTypeKept DEF meta
  <2>4. WorkerReads' /\ Accounted' /\ Disconnected' /\ DrainsEverything' /\ Draining'
    BY <1>1, <1>4, <1>5, <1>7, <2>1
       DEF ChannelInv, WorkerReads, Accounted, Disconnected, DrainsEverything, Draining,
           memory, meta
  <2>5. OneToken'
    <3>1. Tokens' = Tokens
      BY <1>0, <1>1, <1>3, <1>4, <1>5, <2>1 DEF Tokens, Count, meta
    <3>2. sock' = sock /\ data' = data /\ call' = call
      BY <1>1
    <3> QED BY <1>5, <3>1, <3>2 DEF ChannelInv, OneToken
  <2> QED BY <1>6, <2>2, <2>3, <2>4, <2>5 DEF ChannelInv
<1>8. CASE ~(data.present /\ data.drain_bytes = 0)
  <2>1. UNCHANGED <<worker, rd>>
    BY <1>1, <1>8 DEF BatchUnwindJob
  <2>2. RingInv'
    BY <1>0, <1>1, <2>1, RingKept DEF memory, ring
  <2>3. TypeOK'
    BY <1>0, <1>1, <1>4, <2>1, <2>2, Types, Fields, WorkerTypeKept DEF meta
  <2>4. WorkerReads' /\ Accounted' /\ Disconnected' /\ DrainsEverything'
    BY <1>1, <1>4, <1>5, <2>1
       DEF ChannelInv, WorkerReads, Accounted, Disconnected, DrainsEverything, memory, meta
  <2>5. Draining'
    BY <1>1, <2>1 DEF ChannelInv, Draining, EndOf, memory, meta
  <2>6. OneToken'
    <3>1. Tokens' = Tokens - 1 /\ Tokens \in Int
      BY <1>0, <1>1, <1>3, <1>4, <1>5, <2>1 DEF Tokens, Count, meta
    <3>2. sock' = sock /\ data' = data /\ call' = call
      BY <1>1
    <3>3. ~(data.present /\ IsConnected)
      BY <1>8 DEF ChannelInv, Disconnected
    <3>4. (Count(~sock.open /\ ~IsConnected))' = Count(~sock.open /\ ~IsConnected)
          /\ Count(~sock.open /\ ~IsConnected) \in Nat
      BY <1>5, <3>2 DEF Count
    <3>5. Tokens' <= 1 + (Count(~sock.open /\ ~IsConnected))'
      BY <3>1, <3>4 DEF ChannelInv, OneToken
    <3> QED BY <1>5, <3>2, <3>3, <3>5 DEF ChannelInv, OneToken
  <2> QED BY <1>6, <2>2, <2>3, <2>4, <2>5, <2>6 DEF ChannelInv
<1> QED BY <1>7, <1>8

(* A client that is alive and not told to stop has closed the socket with   *)
(* its last call, so that none of its writes is under way.                  *)
LEMMA AllWritten ==
  ASSUME ChannelInv, client.alive, ~shutting_down, ~IsConnected
  PROVE  \A k \in DOMAIN log : log[k].written
<1> SUFFICES ASSUME NEW k \in DOMAIN log, ~log[k].written PROVE FALSE
  OBVIOUS
<1>1. PICK t \in Threads : Writing(t)
  BY DEF ChannelInv, RingInv, WritersInPlace
<1>2. sock.open
  BY <1>1, InWriteFacts DEF Writing, InWrite
<1> QED BY <1>2 DEF ChannelInv, Disconnected

LEMMA OnDisconnectStep ==
  ASSUME ChannelInv, OnDisconnect
  PROVE  ChannelInv'
<1> DEFINE avail == write_pos - read_pos
<1>0. RingInv /\ RingType /\ TypeOK /\ tasks \in TaskState /\ worker \in WorkerState
      /\ data \in DataState /\ sock \in SocketState
  BY Types
<1>1. /\ worker.at = "idle" /\ tasks.disconnected
      /\ tasks' = [tasks EXCEPT !.disconnected = FALSE]
      /\ UNCHANGED <<scenario, memory, wr, meta, client, call, sock>>
  BY DEF OnDisconnect
<1>2. rd.at = "idle" /\ worker.bytes_read = 0 /\ ~IsConnected
  BY <1>1 DEF ChannelInv, WorkerReads, Disconnected
<1>3. /\ tasks' \in TaskState /\ tasks'.batch = tasks.batch /\ tasks'.drain = tasks.drain
      /\ tasks'.stop = tasks.stop /\ tasks'.disconnected = FALSE
  BY <1>0, <1>1 DEF TaskState
<1>4. IsConnected' = IsConnected /\ Sender' = Sender
  BY <1>1 DEF IsConnected, Sender
<1>5. scenario' \in ScenarioType /\ CallsMatchWrites' /\ SocketOpen' /\ Budget'
  BY <1>1, WorkerFrame DEF memory
<1>6. ASSUME worker'.at # "batch" PROVE OneToken'
  <2>1. Tokens' = Tokens
    BY <1>1, <1>3, <1>4, <1>6 DEF Tokens, Count, meta
  <2>2. sock' = sock /\ call' = call
    BY <1>1
  <2> QED BY <1>2, <1>4, <2>1, <2>2 DEF ChannelInv, OneToken
<1>7. shutting_down' \in BOOLEAN /\ reader_paused' \in BOOLEAN
  BY <1>0, <1>1, Fields DEF meta
<1>8. CASE ~data.present
  <2>1. UNCHANGED <<worker, rd, data, delivered, due>>
    BY <1>8 DEF OnDisconnect
  <2>2. RingInv'
    BY <1>0, <1>1, <2>1, RingKept DEF memory, ring
  <2>3. TypeOK'
    BY <1>0, <1>1, <1>3, <1>7, <2>1, <2>2, WorkerTypeKept DEF meta
  <2>4. WorkerReads' /\ Accounted' /\ Disconnected' /\ DrainsEverything'
    BY <1>1, <1>3, <1>4, <2>1
       DEF ChannelInv, WorkerReads, Accounted, Disconnected, DrainsEverything, memory, meta
  <2>5. Draining'
    BY <1>1, <2>1 DEF ChannelInv, Draining, EndOf, memory, meta
  <2> QED BY <1>1, <1>5, <1>6, <2>1, <2>2, <2>3, <2>4, <2>5 DEF ChannelInv
<1>9. CASE data.present
  <2>1. due' = {k \in DOMAIN log : \A j \in 1 .. k : log[j].written}
    BY <1>9 DEF OnDisconnect
  <2>2. /\ Len(got) \in Nat /\ Len(log) \in Nat /\ Len(got) <= Len(log)
        /\ DOMAIN log = 1 .. Len(log) /\ DOMAIN got = 1 .. Len(got)
        /\ read_pos \in Nat /\ write_pos \in Nat
    BY <1>0 DEF RingType, RingInv, InOrder
  <2>3. due' \subseteq DOMAIN log /\ due' \subseteq 1 .. MaxRecords
    <3>1. DOMAIN log \subseteq 1 .. MaxRecords
      BY RecordsBounded, RingConstants
    <3> QED BY <2>1, <3>1
  <2>4. client.alive /\ ~shutting_down => due' = DOMAIN log
    <3> SUFFICES ASSUME client.alive, ~shutting_down, NEW k \in DOMAIN log PROVE k \in due'
      BY <2>3
    <3>1. \A j \in 1 .. k : j \in DOMAIN log
      BY <2>2
    <3> QED BY <1>2, <2>1, <3>1, AllWritten
  <2>5. \A k \in due' : k \in DOMAIN log' /\ \A j \in 1 .. k : log'[j].written
    BY <1>1, <2>1 DEF memory
  <2>6. CASE avail # 0
    <3>1. PICK n \in 1 .. Size : n = avail
      BY <1>0, <2>2, <2>6, RingConstants DEF RingInv, Space
    <3>2. /\ data' = [data EXCEPT !.drain_bytes = n] /\ StartBatch("drain")
          /\ UNCHANGED delivered
      BY <1>9, <2>6, <3>1 DEF OnDisconnect
    <3>3. /\ data' \in DataState /\ data'.present = data.present /\ data'.drain_bytes = n
          /\ data'.free_records = data.free_records
      BY <1>0, <3>1, <3>2 DEF DataState
    <3>4. /\ worker' \in WorkerState /\ worker'.at = "drain" /\ worker'.bytes_read = 0
          /\ rd' = [NoRead EXCEPT !.at = "begin"] /\ rd'.at = "begin"
      BY <3>2, StartBatchFacts
    <3>5. RingInv'
      BY <1>0, <1>1, <1>2, <3>4, ReaderStartsOrStops
    <3>6. TypeOK'
      <4>1. /\ Cardinality(data'.free_records) < kRecordBatchSize
            /\ delivered' \subseteq 1 .. MaxRecords /\ sock' \in SocketState
        BY <1>0, <1>1, <3>2, <3>3 DEF TypeOK
      <4> QED BY <1>0, <1>1, <1>3, <1>7, <2>3, <3>3, <3>4, <3>5, <4>1, WorkerType DEF meta
    <3>7. n # 0
      BY <3>1
    <3>8. WorkerReads' /\ Accounted' /\ Disconnected' /\ DrainsEverything'
      BY <1>1, <1>2, <1>3, <1>4, <1>9, <3>2, <3>3, <3>4, <3>7
         DEF ChannelInv, WorkerReads, Accounted, Disconnected, DrainsEverything, memory, meta
    <3>9. Draining'
      <4>1. \A k \in due' : EndOf(k) <= write_pos
        BY <1>0, <2>3 DEF RingInv, Tiling
      <4>2. read_pos' + data'.drain_bytes - worker'.bytes_read = write_pos
        BY <1>1, <2>2, <3>1, <3>3, <3>4 DEF memory
      <4>3. \A k \in due' : EndOf(k)' <= read_pos' + data'.drain_bytes - worker'.bytes_read
        BY <1>1, <4>1, <4>2 DEF EndOf, memory
      <4> QED BY <1>1, <2>4, <2>5, <3>4, <4>3 DEF Draining, memory, meta
    <3> QED BY <1>5, <1>6, <3>4, <3>5, <3>6, <3>8, <3>9 DEF ChannelInv
  <2>7. CASE avail = 0
    <3>1. FinishDisconnect /\ UNCHANGED <<worker, rd>>
      BY <1>9, <2>7 DEF OnDisconnect
    <3>2. /\ delivered' = DOMAIN got /\ data' \in DataState /\ ~data'.present
          /\ data'.drain_bytes = 0 /\ data'.free_records = {}
          /\ Cardinality(data'.free_records) < kRecordBatchSize
          /\ delivered' \subseteq 1 .. MaxRecords
      BY <1>9, <3>1, FinishDisconnectFacts
    <3>3. DOMAIN log = DOMAIN got
      <4>0. Len(got) \in Nat /\ Len(log) \in Nat /\ Len(got) <= Len(log)
        BY <2>2
      <4>1. Len(got) = Len(log)
        <5> SUFFICES ASSUME Len(got) < Len(log) PROVE FALSE
          BY <4>0
        <5>0. PICK n \in Nat : n = Len(log)
          BY <2>2
        <5>1. PICK k \in DOMAIN log : k > Len(got)
          <6>1. DOMAIN log = 1 .. n /\ n > Len(got) /\ n > 0
            BY <2>2, <5>0
          <6>2. n \in 1 .. n
            BY <6>1
          <6> QED BY <6>1, <6>2
        <5> QED BY <2>2, <2>7, <5>1, Ahead
      <4> QED BY <2>2, <4>1
    <3>4. RingInv'
      BY <1>0, <1>1, <3>1, RingKept DEF memory, ring
    <3>5. TypeOK'
      BY <1>0, <1>1, <1>3, <1>7, <2>3, <3>1, <3>2, <3>4, WorkerType DEF meta
    <3>6. WorkerReads' /\ Disconnected'
      BY <1>1, <1>2, <1>3, <1>4, <3>1, <3>2 DEF ChannelInv, WorkerReads, Disconnected, meta
    <3>7. Accounted'
      BY <1>1, <3>2 DEF Accounted, memory
    <3>8. DrainsEverything'
      BY <1>1, <2>3, <3>2, <3>3 DEF DrainsEverything, memory
    <3>9. Draining'
      BY <1>1, <2>5, <3>1, <3>2 DEF Draining
    <3> QED BY <1>1, <1>5, <1>6, <3>1, <3>4, <3>5, <3>6, <3>7, <3>8, <3>9 DEF ChannelInv
  <2> QED BY <2>6, <2>7
<1> QED BY <1>8, <1>9

LEMMA RunDrainJobStep ==
  ASSUME ChannelInv, RunDrainJob
  PROVE  ChannelInv'
<1>0. RingInv /\ RingType /\ TypeOK /\ tasks \in TaskState /\ worker \in WorkerState
      /\ sock \in SocketState
  BY Types
<1>1. /\ worker.at = "idle" /\ tasks.drain
      /\ tasks' = [tasks EXCEPT !.drain = FALSE]
      /\ IF data.present THEN StartBatch("drain") ELSE UNCHANGED <<worker, rd>>
      /\ UNCHANGED <<scenario, memory, wr, meta, client, call, sock, data, delivered, due>>
  BY DEF RunDrainJob
<1>2. rd.at = "idle" /\ worker.bytes_read = 0 /\ (data.present => data.drain_bytes # 0)
  BY <1>1 DEF ChannelInv, WorkerReads
<1>3. /\ tasks' \in TaskState /\ tasks'.batch = tasks.batch /\ tasks'.drain = FALSE
      /\ tasks'.stop = tasks.stop /\ tasks'.disconnected = tasks.disconnected
  BY <1>0, <1>1 DEF TaskState
<1>4. /\ worker' \in WorkerState /\ worker'.bytes_read = 0 /\ worker'.at # "batch"
      /\ (data.present => worker'.at = "drain" /\ rd'.at = "begin")
      /\ (~data.present => worker' = worker /\ rd' = rd)
      /\ RingInv'
  <2>1. CASE data.present
    <3>1. /\ worker' \in WorkerState /\ worker'.at = "drain" /\ worker'.bytes_read = 0
          /\ rd' = [NoRead EXCEPT !.at = "begin"] /\ rd'.at = "begin"
      BY <1>1, <2>1, StartBatchFacts
    <3> QED BY <1>0, <1>1, <1>2, <2>1, <3>1, ReaderStartsOrStops
  <2>2. CASE ~data.present
    BY <1>0, <1>1, <1>2, <2>2, RingKept DEF memory, ring
  <2> QED BY <2>1, <2>2
<1>5. IsConnected' = IsConnected /\ Sender' = Sender
  BY <1>1 DEF IsConnected, Sender
<1>6. scenario' \in ScenarioType /\ CallsMatchWrites' /\ SocketOpen' /\ Budget'
  BY <1>1, WorkerFrame DEF memory
<1>7. TypeOK'
  BY <1>0, <1>1, <1>3, <1>4, Fields, WorkerTypeKept DEF meta
<1>8. WorkerReads'
  BY <1>1, <1>2, <1>3, <1>4 DEF ChannelInv, WorkerReads
<1>9. Accounted' /\ Disconnected' /\ DrainsEverything'
  BY <1>1, <1>3, <1>5 DEF ChannelInv, Accounted, Disconnected, DrainsEverything, memory, meta
<1>10. Draining'
  <2>1. rd'.at # "nodata"
    BY <1>2, <1>4
  <2> QED BY <1>1, <1>2, <1>4, <2>1 DEF ChannelInv, Draining, EndOf, memory, meta
<1>11. OneToken'
  <2>1. Tokens' = Tokens
    BY <1>1, <1>3, <1>4, <1>5 DEF Tokens, Count, meta
  <2>2. sock' = sock /\ data' = data /\ call' = call
    BY <1>1
  <2> QED BY <1>5, <2>1, <2>2 DEF ChannelInv, OneToken
<1> QED BY <1>4, <1>6, <1>7, <1>8, <1>9, <1>10, <1>11 DEF ChannelInv

LEMMA HandleDisconnectSocketStep ==
  ASSUME ChannelInv, HandleDisconnectSocket
  PROVE  ChannelInv'
<1> DEFINE state == IF data.present THEN "kDisconnected" ELSE sock.state
           gone == tasks.disconnected \/ (data.present /\ sock.state = "kConnected")
<1>0. RingInv /\ RingType /\ TypeOK /\ tasks \in TaskState /\ worker \in WorkerState
      /\ sock \in SocketState /\ data.present \in BOOLEAN /\ shutting_down \in BOOLEAN
      /\ tasks.disconnected \in BOOLEAN /\ tasks.batch \in 0 .. 2
      /\ sock.state \in {"kConnected", "kDisconnected"}
  BY Types, Fields
<1>1. /\ worker.at = "idle" /\ tasks.stop = "disconnect"
      /\ shutting_down' = (shutting_down \/ data.present)
      /\ sock' = [sock EXCEPT !.state = state]
      /\ tasks' = [tasks EXCEPT !.stop = "stopping", !.disconnected = gone]
      /\ UNCHANGED <<scenario, ring, reader_paused, error_state, client, call, worker, data,
                     delivered, due>>
  BY DEF HandleDisconnectSocket
<1>2. /\ state \in {"kConnected", "kDisconnected"} /\ gone \in BOOLEAN
      /\ (gone <=> tasks.disconnected \/ (data.present /\ IsConnected))
      /\ (state = "kConnected" <=> ~data.present /\ IsConnected)
      /\ shutting_down' \in BOOLEAN
  BY <1>0, <1>1 DEF IsConnected
<1> HIDE DEF state, gone
<1>3. /\ sock' \in SocketState /\ sock'.open = sock.open /\ sock'.byte = sock.byte
      /\ sock'.state = state
  BY <1>0, <1>1, <1>2 DEF SocketState
<1>4. /\ tasks' \in TaskState /\ tasks'.batch = tasks.batch /\ tasks'.drain = tasks.drain
      /\ tasks'.stop = "stopping" /\ tasks'.disconnected = gone
  BY <1>0, <1>1, <1>2 DEF TaskState
<1>5. IsConnected' <=> ~data.present /\ IsConnected
  BY <1>2, <1>3 DEF IsConnected
<1>6. RingInv'
  BY <1>0, <1>1, RingKept
<1>7. scenario' \in ScenarioType /\ CallsMatchWrites' /\ SocketOpen' /\ Budget'
  BY <1>1, <1>3, WorkerFrame DEF ring
<1>8. TypeOK'
  BY <1>0, <1>1, <1>2, <1>3, <1>4, <1>6, Fields, WorkerTypeKept
<1>9. WorkerReads' /\ Accounted'
  BY <1>1, <1>4 DEF ChannelInv, WorkerReads, Accounted, ring
<1>10. Disconnected'
  BY <1>1, <1>2, <1>3, <1>4, <1>5 DEF ChannelInv, Disconnected
<1>11. DrainsEverything'
  BY <1>1, <1>4 DEF ChannelInv, DrainsEverything, ring
<1>12. Draining'
  BY <1>1 DEF ChannelInv, Draining, EndOf, ring
<1>13. OneToken'
  <2>1. Tokens' = Tokens /\ Tokens \in Int
    BY <1>0, <1>1, <1>3, <1>4 DEF Tokens, Sender, Count
  <2>2. (Count(~sock.open /\ ~IsConnected))' >= Count(~sock.open /\ ~IsConnected)
        /\ (Count(~sock.open /\ ~IsConnected))' \in Nat /\ Count(~sock.open /\ ~IsConnected) \in Nat
    BY <1>3, <1>5 DEF Count
  <2>3. Tokens' <= 1 + (Count(~sock.open /\ ~IsConnected))'
    BY <2>1, <2>2 DEF ChannelInv, OneToken
  <2>4. data' = data /\ call' = call
    BY <1>1
  <2> QED BY <1>3, <1>5, <2>1, <2>3, <2>4 DEF ChannelInv, OneToken
<1> QED BY <1>6, <1>7, <1>8, <1>9, <1>10, <1>11, <1>12, <1>13 DEF ChannelInv

(* A purge gives up what was not delivered.                                 *)
LEMMA RemoveClientDataStep ==
  ASSUME ChannelInv, RemoveClientData
  PROVE  ChannelInv'
<1> DEFINE stop == IF data.present THEN "purged" ELSE "stopped"
<1>0. RingInv /\ RingType /\ TypeOK /\ tasks \in TaskState /\ worker \in WorkerState
      /\ sock \in SocketState
  BY Types
<1>1. /\ worker.at = "idle" /\ tasks.stop = "purge"
      /\ tasks' = [tasks EXCEPT !.stop = stop]
      /\ data' = [present |-> FALSE, drain_bytes |-> 0, free_records |-> {}]
      /\ UNCHANGED <<scenario, ring, meta, client, call, sock, worker, delivered, due>>
  BY DEF RemoveClientData
<1>2. stop \in {"purged", "stopped"} /\ (stop # "purged" => ~data.present)
  OBVIOUS
<1> HIDE DEF stop
<1>3. /\ tasks' \in TaskState /\ tasks'.batch = tasks.batch /\ tasks'.drain = tasks.drain
      /\ tasks'.stop = stop /\ tasks'.disconnected = tasks.disconnected
  BY <1>0, <1>1, <1>2 DEF TaskState
<1>4. /\ data' \in DataState /\ data'.present = FALSE
      /\ data'.drain_bytes = 0 /\ data'.free_records = {}
  BY <1>1, RingConstants DEF DataState
<1>5. RingInv'
  BY <1>0, <1>1, RingKept
<1>6. scenario' \in ScenarioType /\ CallsMatchWrites' /\ SocketOpen' /\ Budget'
  BY <1>1, WorkerFrame DEF ring
<1>7. TypeOK'
  <2>1. Cardinality({}) = 0 /\ kRecordBatchSize \in Nat /\ kRecordBatchSize > 0
    BY FS_EmptySet, ChannelConstants
  <2>2. Cardinality(data'.free_records) < kRecordBatchSize
    BY <1>4, <2>1
  <2>3. /\ shutting_down' \in BOOLEAN /\ reader_paused' \in BOOLEAN /\ sock' \in SocketState
        /\ worker' \in WorkerState /\ delivered' \subseteq 1 .. MaxRecords
        /\ due' \subseteq 1 .. MaxRecords
    BY <1>0, <1>1, Fields DEF TypeOK, meta
  <2> QED BY <1>1, <1>3, <1>4, <1>5, <2>2, <2>3, WorkerType DEF meta
<1>8. WorkerReads' /\ Accounted'
  BY <1>1, <1>3, <1>4 DEF ChannelInv, WorkerReads, Accounted, ring
<1>9. Disconnected' /\ DrainsEverything'
  BY <1>1, <1>2, <1>3, <1>4 DEF ChannelInv, Disconnected, IsConnected, DrainsEverything,
                                ring, meta
<1>10. Draining'
  BY <1>1, <1>4 DEF ChannelInv, Draining, ring
<1>11. OneToken'
  <2>1. Tokens' = Tokens /\ sock' = sock /\ call' = call /\ IsConnected' = IsConnected
    BY <1>1, <1>3 DEF Tokens, Sender, IsConnected, meta
  <2> QED BY <1>4, <2>1 DEF ChannelInv, OneToken
<1> QED BY <1>5, <1>6, <1>7, <1>8, <1>9, <1>10, <1>11 DEF ChannelInv

-----------------------------------------------------------------------------
(* The theorems.                                                            *)

LEMMA ChannelInitial == Init => ChannelInv
<1> SUFFICES ASSUME Init PROVE ChannelInv
  OBVIOUS
<1>1. RingInv /\ log = <<>> /\ got = <<>> /\ locked = FALSE
      /\ wr = [t \in Threads |-> Idle] /\ rd = NoRead
  BY RingInitial DEF Init, RingInit
<1>2. scenario \in ScenarioType /\ Len(scenario.calls) <= MaxRecords
  BY ChannelConstants DEF Init, ScenarioType
<1>3. /\ NoCall \in CallState /\ NoCall.at = "none" /\ Idle.at = "idle" /\ NoRead.at = "idle"
  BY DEF NoCall, CallState, RecordTypes, Idle, NoRead
<1>4. call \in [Threads -> CallState] /\ \A t \in Threads : call[t].at = "none"
  BY <1>3 DEF Init
<1>5. /\ client \in [ref : BOOLEAN, alive : BOOLEAN] /\ client.ref = TRUE
      /\ client.alive = TRUE
      /\ sock \in SocketState /\ sock.open = TRUE /\ sock.byte = FALSE
      /\ sock.state = "kConnected"
  BY DEF Init, SocketState
<1>6. /\ tasks \in TaskState /\ tasks.batch = 0 /\ tasks.drain = FALSE
      /\ tasks.disconnected = FALSE /\ tasks.stop = "none"
  BY DEF Init, TaskState
<1>7. worker \in WorkerState /\ worker.at = "idle" /\ worker.bytes_read = 0
  BY RestingFacts DEF Init
<1>8. /\ data \in DataState /\ data.present = TRUE /\ data.drain_bytes = 0
      /\ data.free_records = {}
  BY RingConstants DEF Init, DataState
<1>9. TypeOK
  <2>1. Cardinality({}) = 0 /\ kRecordBatchSize \in Nat /\ kRecordBatchSize > 0
    BY FS_EmptySet, ChannelConstants
  <2>2. Cardinality(data.free_records) < kRecordBatchSize
    BY <1>8, <2>1
  <2>3. {shutting_down, reader_paused, locked} \subseteq BOOLEAN
    BY <1>1 DEF Init
  <2> QED BY <1>4, <1>5, <1>6, <1>7, <1>8, <2>2, <2>3
          DEF Init, TypeOK, CallState, SocketState, TaskState, WorkerState, DataState
<1>10. CallsMatchWrites
  BY <1>1, <1>3, <1>4 DEF CallsMatchWrites
<1>11. SocketOpen /\ WorkerReads
  BY <1>1, <1>3, <1>5, <1>6, <1>7, <1>8 DEF SocketOpen, WorkerReads
<1>12. Disconnected /\ DrainsEverything
  BY <1>5, <1>6, <1>8 DEF Disconnected, IsConnected, DrainsEverything
<1>13. OneToken
  <2>1. ~Sender /\ reader_paused = TRUE
    BY <1>4 DEF Sender, Init
  <2>2. Tokens = 1
    BY <1>5, <1>6, <1>7, <2>1 DEF Tokens, Count
  <2> QED BY <1>4, <1>5, <2>2 DEF OneToken, Count
<1>14. Accounted
  BY <1>1, <1>8 DEF Init, Accounted
<1>15. Draining
  BY <1>7, <1>8 DEF Init, Draining
<1>16. Budget
  <2>1. Pending = {}
    BY <1>4 DEF Pending
  <2>2. IsFiniteSet(Pending) /\ Cardinality(Pending) = 0
    BY <2>1, FS_EmptySet
  <2>3. Len(log) = 0 /\ Len(scenario.calls) \in Nat
    BY <1>1, <1>2 DEF ScenarioType
  <2> QED BY <1>2, <2>2, <2>3 DEF Budget
<1> QED BY <1>1, <1>2, <1>9, <1>10, <1>11, <1>12, <1>13, <1>14, <1>15, <1>16 DEF ChannelInv

LEMMA ChannelStutters ==
  ASSUME ChannelInv, UNCHANGED vars
  PROVE  ChannelInv'
<1>1. UNCHANGED <<ring, meta, scenario, client, call, sock, tasks, worker, data, delivered, due>>
  BY DEF vars
<1>2. RingInv'
  BY <1>1, RingKept DEF ChannelInv
<1>3. scenario' \in ScenarioType /\ CallsMatchWrites' /\ SocketOpen' /\ Budget'
  BY <1>1, WorkerFrame DEF ring
<1>4. TypeOK'
  BY <1>1, <1>2, Types, Fields, WorkerTypeKept DEF meta
<1>5. WorkerReads' /\ Accounted' /\ Disconnected' /\ DrainsEverything'
  BY <1>1 DEF ChannelInv, WorkerReads, Accounted, Disconnected, IsConnected, DrainsEverything,
              ring, meta
<1>6. Draining'
  BY <1>1 DEF ChannelInv, Draining, EndOf, ring, meta
<1>7. OneToken'
  BY <1>1 DEF ChannelInv, OneToken, Tokens, Sender, IsConnected, meta
<1> QED BY <1>2, <1>3, <1>4, <1>5, <1>6, <1>7 DEF ChannelInv

LEMMA ChannelStep ==
  ASSUME ChannelInv, [Next]_vars
  PROVE  ChannelInv'
<1>1. CASE Environment
  BY <1>1, RecordStep, NextSessionStep, ClientDiesStep, PostStep DEF Environment
<1>2. ASSUME NEW t \in Threads, ThreadStep(t) PROVE ChannelInv'
  BY <1>2, TrySendStep, WriteToBufferStep, SendFailedStep, SendEndsStep,
     GetAndResetReaderPausedStep, SendControlSocketByteStep DEF ThreadStep
<1>3. CASE InTask
  BY <1>3, ReadBufferStep, HandleRecordStep, ReleaseRecordStep, NextRecordStep,
     EndOfBatchStep, EndOfDrainJobStep DEF InTask
<1>4. CASE OnDataAvailable \/ RunBatchUnwindJob \/ OnDisconnect \/ RunDrainJob
  BY <1>4, OnDataAvailableStep, RunBatchUnwindJobStep, OnDisconnectStep, RunDrainJobStep
<1>5. CASE HandleDisconnectSocket \/ RemoveClientData
  BY <1>5, HandleDisconnectSocketStep, RemoveClientDataStep
<1>6. CASE UNCHANGED vars
  BY <1>6, ChannelStutters
<1> QED BY <1>1, <1>2, <1>3, <1>4, <1>5, <1>6 DEF Next

(* The inductive invariant holds.                                           *)
THEOREM ChannelInvHolds == Spec => []ChannelInv
BY ChannelInitial, ChannelStep, PTL DEF Spec

(* The state of client.cc and unwinding.cc stays within its types: a call   *)
(* in progress has tries left, and fewer frees than a batch wait.           *)
THEOREM TypeHolds == Spec => []TypeOK
<1>1. ChannelInv => TypeOK
  BY DEF ChannelInv
<1> QED BY <1>1, ChannelInvHolds, PTL

(* The reader never finds the buffer corrupt, however the threads and the   *)
(* reader interleave and wherever the client dies (BeginRead, IsCorrupt).   *)
THEOREM RingIntactHolds == Spec => []RingIntact
<1>1. ChannelInv => RingIntact
  BY IntactFollows DEF ChannelInv
<1> QED BY <1>1, ChannelInvHolds, PTL

(* A worker at rest that has a client can be woken: the pause bit, the byte *)
(* and the posted job are never all lost (BatchUnwindJob,                   *)
(* GetAndResetReaderPaused).                                                *)
THEOREM ReaderCanBeWokenHolds == Spec => []ReaderCanBeWoken
<1>1. ChannelInv => ReaderCanBeWoken
  <2> SUFFICES ASSUME ChannelInv, worker.at = "idle", data.present, IsConnected,
                      sock.open, tasks.batch <= 0, ~reader_paused, ~sock.byte, ~Sender
               PROVE  FALSE
    BY Types, Fields DEF ReaderCanBeWoken, IsConnected, Sender
  <2>1. Tokens >= 1
    BY TokenFacts
  <2>2. tasks.batch \in 0 .. 2
    BY Types, Fields
  <2> QED BY <2>1, <2>2 DEF Tokens, Count
<1> QED BY <1>1, ChannelInvHolds, PTL

(* When a client is gone, the main thread has every record that was         *)
(* readable at OnDisconnect, and all there ever were if the client closed   *)
(* the connection alive (FinishDisconnect).                                 *)
THEOREM DrainsEverythingHolds == Spec => []DrainsEverything
<1>1. ChannelInv => DrainsEverything
  BY DEF ChannelInv
<1> QED BY <1>1, ChannelInvHolds, PTL

-----------------------------------------------------------------------------
(* The refinement: space that is reserved is a record in the queue, the     *)
(* header that EndWrite stores makes it readable, and HandleBuffer takes it *)
(* from the front.  Everything else is a stutter.                           *)
LEMMA QueueInitial == Init => Queue!Init
<1> SUFFICES ASSUME Init PROVE Unread = <<>> /\ got = <<>>
  BY DEF Queue!Init
<1>1. log = <<>> /\ got = <<>>
  BY DEF Init, RingInit
<1>2. Unread = [i \in 1 .. 0 |-> [record |-> 0 + i, written |-> log[0 + i].written]]
  BY <1>1 DEF Unread
<1> QED BY <1>1, <1>2

LEMMA QueueStep ==
  ASSUME ChannelInv, ChannelInv', [Next]_vars
  PROVE  [Queue!Next]_<<Unread, got>>
<1>0. /\ RingInv /\ RingType /\ log \in Seq(LogRecord) /\ got \in Seq(Nat)
      /\ Len(got) <= Len(log) /\ Len(log) \in Nat /\ Len(got) \in Nat
  BY Types DEF RingType, RingInv, InOrder
<1>1. Unread = QueueOf(log, got) /\ Unread' = QueueOf(log', got')
  BY DEF Unread, QueueOf
<1>2. ASSUME UNCHANGED <<log, got>> PROVE UNCHANGED <<Unread, got>>
  BY <1>1, <1>2
<1>3. ASSUME NEW t \in Threads, AdvanceWritePos(t)
      PROVE  Queue!Next
  <2> DEFINE e == [pos |-> write_pos, size |-> wr[t].size, written |-> FALSE]
  <2>1. log' = Append(log, e) /\ UNCHANGED got
    BY <1>0, <1>3, AdvanceWritePosStep DEF AdvanceWritePos
  <2>2. e \in LogRecord /\ e.written = FALSE
    <3>1. wr[t].at = "reserve" /\ write_pos \in Nat /\ wr \in [Threads -> WriteState]
      BY <1>0, <1>3 DEF AdvanceWritePos, RingType
    <3>2. wr[t].size \in Nat /\ wr[t].size > 0
      BY <1>0, <3>1 DEF RingInv, WritersInPlace, Reserving, WriteState
    <3> QED BY <3>1, <3>2 DEF LogRecord
  <2> HIDE DEF e
  <2>3. Unread' = Append(Unread, [record |-> Len(log) + 1, written |-> FALSE])
    BY <1>0, <1>1, <2>1, <2>2, QueueReserve
  <2>4. Len(log) + 1 \in 1 .. MaxRecords
    <3>1. (Len(log) <= MaxRecords)'
      BY RecordsBounded, PTL
    <3>2. Len(log') = Len(log) + 1
      BY <1>0, <2>1, <2>2, AppendProperties
    <3> QED BY <1>0, <3>1, <3>2, RingConstants
  <2>5. Queue!Reserve(Len(log) + 1)
    BY <2>1, <2>3 DEF Queue!Reserve
  <2> QED BY <2>4, <2>5 DEF Queue!Next
<1>4. ASSUME NEW t \in Threads, EndWrite(t)
      PROVE  Queue!Next
  <2>1. PICK k \in DOMAIN log : /\ k > Len(got) /\ ~log[k].written
                                /\ log' = [log EXCEPT ![k].written = TRUE]
    BY <1>0, <1>4, EndWriteStep
  <2>2. UNCHANGED got
    BY <1>4 DEF EndWrite
  <2>3. PICK i : i = k - Len(got)
    OBVIOUS
  <2>4. /\ i \in DOMAIN Unread /\ ~Unread[i].written
        /\ Unread' = [Unread EXCEPT ![i].written = TRUE]
    BY <1>0, <1>1, <2>1, <2>2, <2>3, QueueEndWrite
  <2>5. Queue!EndWrite(i)
    BY <2>2, <2>4 DEF Queue!EndWrite
  <2> QED BY <2>4, <2>5 DEF Queue!Next
<1>5. ASSUME HandleBuffer
      PROVE  Queue!Next
  <2>1. Len(got) + 1 \in DOMAIN log /\ got' = Append(got, Len(got) + 1)
    BY <1>0, <1>5, HandleBufferStep
  <2>2. UNCHANGED log /\ rd.at = "handle"
    BY <1>5 DEF HandleBuffer
  <2>3. log[Len(got) + 1].written /\ Len(got) < Len(log)
    BY <1>0, <2>2 DEF RingInv, ReadInProgress
  <2>4. PICK n \in Nat : n = Len(got) + 1
    BY <1>0
  <2>5. /\ Unread # <<>> /\ Head(Unread) = [record |-> n, written |-> log[n].written]
        /\ Unread' = Tail(Unread)
    BY <1>0, <1>1, <2>1, <2>2, <2>3, <2>4, QueueReceive
  <2>6. Head(Unread).written /\ Head(Unread).record = n
    BY <2>3, <2>4, <2>5
  <2>7. Queue!Receive
    BY <2>1, <2>4, <2>5, <2>6 DEF Queue!Receive
  <2> QED BY <2>7 DEF Queue!Next
<1>6. ASSUME NEW t \in Threads, WriteToBuffer(t)
      PROVE  [Queue!Next]_<<Unread, got>>
  <2>1. CASE AdvanceWritePos(t)
    BY <1>3, <2>1
  <2>2. CASE LockTimesOut(t) \/ BeginWrite(t) \/ CopyPayload(t)
    BY <1>2, <2>2 DEF LockTimesOut, BeginWrite, CopyPayload
  <2> QED BY <1>6, <2>1, <2>2 DEF WriteToBuffer
<1>7. CASE Environment
  <2>1. UNCHANGED <<log, got>>
    BY <1>7 DEF Environment, Record, NextSession, ClientDies, PostDisconnectSocket,
                PostPurgeProcess, ring, memory
  <2> QED BY <1>2, <2>1
<1>8. ASSUME NEW t \in Threads, ThreadStep(t)
      PROVE  [Queue!Next]_<<Unread, got>>
  <2>1. CASE WriteToBuffer(t)
    BY <1>6, <2>1
  <2>2. CASE SendEnds(t)
    BY <1>4, <2>2 DEF SendEnds
  <2>3. CASE TrySend(t) \/ SendFailed(t) \/ GetAndResetReaderPaused(t)
             \/ SendControlSocketByte(t)
    <3>1. UNCHANGED <<log, got>>
      BY <2>3 DEF TrySend, SendFailed, GetAndResetReaderPaused, SendControlSocketByte,
                  ring, memory
    <3> QED BY <1>2, <3>1
  <2> QED BY <1>8, <2>1, <2>2, <2>3 DEF ThreadStep
<1>9. CASE InTask
  <2>1. CASE HandleRecord
    BY <1>5, <2>1 DEF HandleRecord
  <2>2. CASE ReadBuffer \/ ReleaseRecord \/ NextRecord \/ EndOfBatch \/ EndOfDrainJob
    <3>1. UNCHANGED <<log, got>>
      BY <2>2 DEF ReadBuffer, BeginRead, LoadHeader, ReleaseRecord, EndRead, NextRecord,
                  EndOfBatch, EndOfDrainJob, memory
    <3> QED BY <1>2, <3>1
  <2> QED BY <1>9, <2>1, <2>2 DEF InTask
<1>10. CASE \/ OnDataAvailable \/ RunBatchUnwindJob \/ OnDisconnect \/ RunDrainJob
            \/ HandleDisconnectSocket \/ RemoveClientData
  <2>1. UNCHANGED <<log, got>>
    BY <1>10 DEF OnDataAvailable, RunBatchUnwindJob, OnDisconnect, RunDrainJob,
                 HandleDisconnectSocket, RemoveClientData, ring, memory
  <2> QED BY <1>2, <2>1
<1>11. CASE UNCHANGED vars
  BY <1>2, <1>11 DEF vars, ring
<1> QED BY <1>7, <1>8, <1>9, <1>10, <1>11 DEF Next

(* The ring buffer, with its threads, its lock and its reader, is a queue:  *)
(* records are received whole, once, in the order in which BeginWrite       *)
(* reserved them, and only when EndWrite has published them (the comment of *)
(* class SharedRingBuffer).                                                 *)
THEOREM QueueHolds == Spec => ImplementsQueue
<1>1. ChannelInv /\ ChannelInv' /\ [Next]_vars => [Queue!Next]_<<Unread, got>>
  BY QueueStep
<1> QED BY <1>1, QueueInitial, ChannelInvHolds, PTL DEF Spec, ImplementsQueue, Queue!Spec
=============================================================================
