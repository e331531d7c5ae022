----------------------------- MODULE RecordQueue -----------------------------
(***************************************************************************)
(* What the ring buffer of heapprofd promises (comment of class            *)
(* SharedRingBuffer): the semantics of a SEQ_PACKET socket.  Writes are    *)
(* atomic and are seen in the order in which space was reserved for them;  *)
(* a record is received whole, and only when its write has ended.          *)
(***************************************************************************)
EXTENDS Naturals, Sequences

CONSTANT Records

VARIABLES queue,      \* the records with space in the buffer, in order
          received    \* what the reader got

Init == queue = <<>> /\ received = <<>>

Reserve(r) ==
  /\ queue' = Append(queue, [record |-> r, written |-> FALSE])
  /\ UNCHANGED received

EndWrite(i) ==
  /\ ~queue[i].written
  /\ queue' = [queue EXCEPT ![i].written = TRUE]
  /\ UNCHANGED received

Receive ==
  /\ queue # <<>> /\ Head(queue).written
  /\ received' = Append(received, Head(queue).record)
  /\ queue' = Tail(queue)

Next ==
  \/ \E r \in Records : Reserve(r)
  \/ \E i \in DOMAIN queue : EndWrite(i)
  \/ Receive

Spec == Init /\ [][Next]_<<queue, received>>
==============================================================================
