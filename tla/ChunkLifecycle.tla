---------------------------- MODULE ChunkLifecycle ----------------------------
(***************************************************************************)
(* What the shared memory ABI promises of every chunk, without pages,      *)
(* layout words or retries: the state diagram of shared_memory_abi.h       *)
(* (enum ChunkState), who may take each edge, and when the packet count of *)
(* the chunk header may move.                                              *)
(***************************************************************************)
EXTENDS Naturals

CONSTANTS Writers,   \* the producer's threads
          Service,   \* the service
          Chunks     \* the chunks of the shared memory buffer

VARIABLES state,     \* chunk -> its ChunkState
          held,      \* actor -> the chunks it may touch
          count      \* chunk -> number of packets its header announces

vars == <<state, held, count>>

Init ==
  /\ state = [c \in Chunks |-> "kChunkFree"]
  /\ held = [a \in Writers \cup {Service} |-> {}]
  /\ count = [c \in Chunks |-> 0]

Unheld(c) == \A a \in Writers \cup {Service} : c \notin held[a]

Take(a, c, from, to) ==
  /\ Unheld(c)
  /\ state[c] = from
  /\ state' = [state EXCEPT ![c] = to]
  /\ held' = [held EXCEPT ![a] = @ \cup {c}]

Give(a, c, from, to) ==
  /\ c \in held[a]
  /\ state[c] = from
  /\ state' = [state EXCEPT ![c] = to]
  /\ held' = [held EXCEPT ![a] = @ \ {c}]

(* kChunkFree -> kChunkBeingWritten (producer); the chunk announces nothing.*)
StartWriting(w, c) ==
  /\ Take(w, c, "kChunkFree", "kChunkBeingWritten")
  /\ count[c] = 0
  /\ UNCHANGED count

(* Only the thread that writes a chunk announces packets, one at a time.    *)
StartPacket(w, c) ==
  /\ c \in held[w]
  /\ state[c] = "kChunkBeingWritten"
  /\ count' = [count EXCEPT ![c] = @ + 1]
  /\ UNCHANGED <<state, held>>

(* kChunkBeingWritten -> kChunkComplete (producer).                         *)
Complete(w, c) ==
  Give(w, c, "kChunkBeingWritten", "kChunkComplete") /\ UNCHANGED count

(* kChunkComplete -> kChunkBeingRead (service).                             *)
StartReading(c) ==
  Take(Service, c, "kChunkComplete", "kChunkBeingRead") /\ UNCHANGED count

(* The service resets the header of a chunk it has read ...                 *)
Clear(c) ==
  /\ c \in held[Service]
  /\ state[c] = "kChunkBeingRead"
  /\ count' = [count EXCEPT ![c] = 0]
  /\ UNCHANGED <<state, held>>

(* ... before kChunkBeingRead -> kChunkFree.                                *)
Free(c) ==
  /\ count[c] = 0
  /\ Give(Service, c, "kChunkBeingRead", "kChunkFree")
  /\ UNCHANGED count

(* A holder that loses too many compare-exchanges gives the chunk up where  *)
(* it is: nobody can use it again.                                          *)
Abandon(a, c) ==
  /\ c \in held[a]
  /\ held' = [held EXCEPT ![a] = @ \ {c}]
  /\ UNCHANGED <<state, count>>

Next ==
  \/ \E w \in Writers, c \in Chunks :
       StartWriting(w, c) \/ StartPacket(w, c) \/ Complete(w, c)
  \/ \E c \in Chunks : StartReading(c) \/ Clear(c) \/ Free(c)
  \/ \E a \in Writers \cup {Service}, c \in Chunks : Abandon(a, c)

Spec == Init /\ [][Next]_vars
=============================================================================
