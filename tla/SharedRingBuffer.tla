--------------------------- MODULE SharedRingBuffer ---------------------------
(***************************************************************************)
(* The ring buffer between a profiled process and heapprofd (src/profiling/*)
(* memory/shared_ring_buffer.cc, scoped_spinlock.h): threads of the client *)
(* write under a spinlock that they hold only while they reserve space;    *)
(* one reader in another process takes no lock.  Every access to memory    *)
(* that the other side can see is a step of its own.                       *)
(*                                                                         *)
(* The unit of size is kAlignment, which is also the size of a header.     *)
(* The positions only grow (64 bits).  Accesses are sequentially           *)
(* consistent: the code orders those to the positions, headers and the     *)
(* lock with release and acquire, except that EndRead() advances read_pos  *)
(* with a relaxed access.  The flags shutting_down and reader_paused       *)
(* (shared_ring_buffer.h, module HeapprofdChannel) are relaxed throughout. *)
(***************************************************************************)
EXTENDS Integers, Sequences

CONSTANTS Threads,      \* the writing threads
          Size,         \* size_: a power of two
          MaxRecords    \* bound on the records ever written

ASSUME RingConstants == Size \in Nat \ {0} /\ MaxRecords \in Nat

kHeaderSize == 1

VARIABLES
  read_pos, write_pos, locked,   \* of the MetadataPage
  mem,      \* the buffer, by unit: a header's size, or a mark of a payload
  wr,       \* the write that each thread is at
  rd,       \* the read that the reader is at
  log,      \* history: the records that space was reserved for
  got       \* history: what the reader found in its records

ring == <<read_pos, write_pos, locked, mem, wr, rd, log, got>>

(* A payload of record k is made of marks that no header can hold.         *)
Mark(k) == -k
Idle == [at |-> "idle", size |-> 0, pos |-> 0, free |-> 0]
NoRead == [at |-> "idle", wpos |-> 0, size |-> 0]
at(pos) == pos % Size
Cells(pos, size) == {at(pos + kHeaderSize + i) : i \in 0 .. size - 1}
WithHeader(size) == size + kHeaderSize
write_avail(rpos, wpos) == Size - (wpos - rpos)

RingInit ==
  /\ read_pos = 0 /\ write_pos = 0 /\ locked = FALSE
  /\ mem = [i \in 0 .. Size - 1 |-> 0]
  /\ wr = [t \in Threads |-> Idle]
  /\ rd = NoRead
  /\ log = <<>> /\ got = <<>>

(***************************************************************************)
(* Writing: WithBuffer() locks, BeginWrite() reserves, the caller copies,  *)
(* EndWrite() publishes                                                    *)
(***************************************************************************)
(* Mode::Try gives up after a number of attempts.                          *)
LockTimesOut(t) ==
  /\ wr[t].at = "lock" /\ locked
  /\ wr' = [wr EXCEPT ![t].at = "failed"]
  /\ UNCHANGED <<read_pos, write_pos, locked, mem, rd, log, got>>

(* Mutant: the header keeps what was in the buffer.                        *)
Mutant_HeaderNotCleared(t) ==
  LET avail == write_avail(read_pos, write_pos)
  IN /\ wr[t].at = "lock" /\ ~locked
     /\ IF WithHeader(wr[t].size) > avail
        THEN /\ wr' = [wr EXCEPT ![t].at = "failed"]
             /\ UNCHANGED <<mem, locked>>
        ELSE /\ wr' = [wr EXCEPT ![t].at = "reserve", ![t].pos = write_pos,
                                 ![t].free = avail]
             /\ locked' = TRUE
             /\ UNCHANGED mem
     /\ UNCHANGED <<read_pos, write_pos, rd, log, got>>

(* Under the lock: no other thread writes, and reading makes more room.    *)
(* The header is cleared before the reader can get to it.                  *)
BeginWrite(t) ==
  LET avail == write_avail(read_pos, write_pos)
  IN /\ wr[t].at = "lock" /\ ~locked
     /\ IF WithHeader(wr[t].size) > avail
        THEN /\ wr' = [wr EXCEPT ![t].at = "failed"]
             /\ UNCHANGED <<mem, locked>>
        ELSE /\ wr' = [wr EXCEPT ![t].at = "reserve", ![t].pos = write_pos,
                                 ![t].free = avail]
             /\ mem' = [mem EXCEPT ![at(write_pos)] = 0]
             /\ locked' = TRUE
     /\ UNCHANGED <<read_pos, write_pos, rd, log, got>>

AdvanceWritePos(t) ==
  /\ wr[t].at = "reserve"
  /\ write_pos' = write_pos + WithHeader(wr[t].size)
  /\ locked' = FALSE
  /\ wr' = [wr EXCEPT ![t].at = "copy"]
  /\ log' = Append(log, [pos |-> wr[t].pos, size |-> wr[t].size, written |-> FALSE])
  /\ UNCHANGED <<read_pos, mem, rd, got>>

NumberAt(pos) == CHOOSE k \in DOMAIN log : log[k].pos = pos

(* Mutant: the copy stops one short.                                       *)
Mutant_CopiesOneLess(t) ==
  /\ wr[t].at = "copy"
  /\ mem' = [i \in DOMAIN mem |->
               IF i \in Cells(wr[t].pos, wr[t].size - 1)
               THEN Mark(NumberAt(wr[t].pos)) ELSE mem[i]]
  /\ wr' = [wr EXCEPT ![t].at = "end"]
  /\ UNCHANGED <<read_pos, write_pos, locked, rd, log, got>>

CopyPayload(t) ==
  /\ wr[t].at = "copy"
  /\ mem' = [i \in DOMAIN mem |->
               IF i \in Cells(wr[t].pos, wr[t].size)
               THEN Mark(NumberAt(wr[t].pos)) ELSE mem[i]]
  /\ wr' = [wr EXCEPT ![t].at = "end"]
  /\ UNCHANGED <<read_pos, write_pos, locked, rd, log, got>>

EndWrite(t) ==
  /\ wr[t].at = "end"
  /\ mem' = [mem EXCEPT ![at(wr[t].pos)] = wr[t].size]
  /\ wr' = [wr EXCEPT ![t].at = "written"]
  /\ log' = [log EXCEPT ![NumberAt(wr[t].pos)].written = TRUE]
  /\ UNCHANGED <<read_pos, write_pos, locked, rd, got>>

(***************************************************************************)
(* Reading                                                                 *)
(***************************************************************************)
BeginRead ==
  /\ rd.at = "begin"
  /\ rd' = [rd EXCEPT !.wpos = write_pos,
                      !.at = IF write_pos - read_pos < kHeaderSize
                             THEN "nodata" ELSE "header"]
  /\ UNCHANGED <<read_pos, write_pos, locked, mem, wr, log, got>>

(* No size: the write has not ended.  A size that goes beyond what was     *)
(* reserved: the buffer is corrupt.                                        *)
LoadHeader ==
  LET size == mem[at(read_pos)]
  IN /\ rd.at = "header"
     /\ rd' = [rd EXCEPT
          !.size = size,
          !.at = CASE size = 0 -> "nodata"
                   [] size < 0 \/ WithHeader(size) > rd.wpos - read_pos -> "corrupt"
                   [] OTHER -> "handle"]
     /\ UNCHANGED <<read_pos, write_pos, locked, mem, wr, log, got>>

(* The user of the buffer reads the record in place: it finds the marks of *)
(* one record, or something else.                                          *)
HandleBuffer ==
  LET found == {mem[i] : i \in Cells(read_pos, rd.size)}
      records == {k \in DOMAIN log : found = {Mark(k)} /\ rd.size = log[k].size}
  IN /\ rd.at = "handle"
     /\ got' = Append(got, IF records = {} THEN 0 ELSE CHOOSE k \in records : TRUE)
     /\ rd' = [rd EXCEPT !.at = "end"]
     /\ UNCHANGED <<read_pos, write_pos, locked, mem, wr, log>>

EndRead ==
  /\ rd.at = "end"
  /\ read_pos' = read_pos + WithHeader(rd.size)
  /\ rd' = [rd EXCEPT !.at = "done"]
  /\ UNCHANGED <<write_pos, locked, mem, wr, log, got>>

(***************************************************************************)
(* Properties                                                              *)
(***************************************************************************)
(* The buffer is never found corrupt (IsCorrupt, and the checks of         *)
(* BeginRead): the records tile the space between the positions, no more   *)
(* space is reserved than there is, and a header holds the size of its     *)
(* record exactly when the record has been written.                        *)
EndOf(k) == log[k].pos + WithHeader(log[k].size)
RingIntact ==
  /\ read_pos <= write_pos /\ write_pos - read_pos <= Size
  /\ rd.at # "corrupt"
  /\ write_pos = IF log = <<>> THEN 0 ELSE EndOf(Len(log))
  /\ \A k \in DOMAIN log :
       /\ log[k].pos = IF k = 1 THEN 0 ELSE EndOf(k - 1)
       /\ log[k].pos >= read_pos =>
            mem[at(log[k].pos)] = IF log[k].written THEN log[k].size ELSE 0

(* The ring buffer is a queue of records: see RecordQueue.                 *)
Unread == [i \in 1 .. Len(log) - Len(got) |->
            [record |-> Len(got) + i, written |-> log[Len(got) + i].written]]
Queue == INSTANCE RecordQueue WITH
           Records <- 1 .. MaxRecords, queue <- Unread, received <- got
ImplementsQueue == Queue!Spec
==============================================================================
