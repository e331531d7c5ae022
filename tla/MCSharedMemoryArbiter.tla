----------------------- MODULE MCSharedMemoryArbiter -----------------------
(* TLC instances of SharedMemoryArbiter.                                    *)
EXTENDS SharedMemoryArbiter

Base == [bound |-> FALSE, policy |-> "kDrop", targets |-> {1}, threads |-> {"main", "t1"},
         chunks |-> 1, patches |-> 0, writers |-> 2, destroy |-> FALSE, abort |-> FALSE,
         flushes |-> 0, requests |-> 0]

(* Startup tracing: two reservations are bound or aborted while writers of  *)
(* two threads commit and flush.                                            *)
Startup == [Base EXCEPT !.targets = {101, 102}, !.threads = {"t1", "t2"}, !.flushes = 1]

(* An arbiter that is bound until a startup writer appears.                 *)
Unbound == [Base EXCEPT !.bound = TRUE, !.targets = {1, 101}, !.threads = {"t1", "t2"},
            !.flushes = 1]
Requests == [Base EXCEPT !.bound = TRUE, !.targets = {1, 101}, !.threads = {"t1"},
            !.writers = 1, !.chunks = 2, !.requests = 2]

(* Writers come and go, and reuse ids.                                      *)
Recycle == [Base EXCEPT !.bound = TRUE, !.threads = {"t1", "t2"}, !.writers = 3,
            !.chunks = 0, !.destroy = TRUE]
Departing == [Base EXCEPT !.targets = {101}, !.threads = {"t1"}, !.writers = 1,
              !.destroy = TRUE, !.abort = TRUE]
Latecomer == [Base EXCEPT !.targets = {1, 101}, !.threads = {"t1"}, !.chunks = 0,
              !.destroy = TRUE, !.abort = TRUE]

(* Writers that stall, one of them on the thread of the task runner.        *)
Stalling == [Base EXCEPT !.bound = TRUE, !.policy = "kStall", !.chunks = 3]

(* Startup writers that find no free chunk, since none is committed yet.    *)
Dropping == [Base EXCEPT !.targets = {101}, !.threads = {"t1", "t2"}, !.chunks = 2]

(* Packets that span chunks and are patched.                                *)
Patching == [Base EXCEPT !.bound = TRUE, !.threads = {"t1"}, !.writers = 1, !.chunks = 3,
             !.patches = 2]

(* ... in a startup buffer that is bound or aborted meanwhile.              *)
LatePatching == [Base EXCEPT !.targets = {101}, !.threads = {"t1"}, !.writers = 1,
                 !.chunks = 2, !.patches = 2, !.abort = TRUE, !.flushes = 1]

(* ... and with no free chunk.                                              *)
StallPatching == [Base EXCEPT !.bound = TRUE, !.policy = "kStall", !.threads = {"main"},
                  !.writers = 1, !.chunks = 4, !.patches = 1]
DropPatching == [StallPatching EXCEPT !.policy = "kDrop"]

(* A startup writer may get the id of a writer that the service is still   *)
(* to forget.                                                              *)
Overtaking == [Base EXCEPT !.bound = TRUE, !.targets = {1, 101}, !.threads = {"t1"},
               !.writers = 3, !.chunks = 0, !.destroy = TRUE]

ArbiterScenarios == {Startup, Unbound, Requests, Recycle, Departing, Latecomer, Stalling,
  Dropping, Patching, LatePatching, StallPatching, DropPatching, Overtaking}
=============================================================================
