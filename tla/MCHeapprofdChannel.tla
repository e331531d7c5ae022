-------------------------- MODULE MCHeapprofdChannel --------------------------
EXTENDS HeapprofdChannel

(* In a buffer of 8 units, a malloc takes 4, a free 2 and a name 3.  A     *)
(* payload of 8 passes the check of WithBuffer() and never fits.           *)
Sizes == [Malloc |-> {3, 8, 9}, Free |-> {1}, HeapName |-> {2}]

Malloc == [type |-> "Malloc", size |-> 3]
Free == [type |-> "Free", size |-> 1]
HeapName == [type |-> "HeapName", size |-> 2]
DeepStack(size) == [type |-> "Malloc", size |-> size]

Scenario(tries, calls, events) ==
  [block_client |-> tries # 1, max_tries |-> tries, calls |-> calls,
   events |-> events]

(* Threads contend for the lock and for space, and give up or retry.       *)
Full == Scenario(1, <<Malloc, Free, Free, Malloc>>, {})
Blocked == Scenario(2, <<Free, Malloc, Malloc>>, {})
TooLarge(size) == Scenario(2, <<HeapName, DeepStack(size)>>, {})
(* The client dies, or another session replaces one that was stopped.      *)
Dying == Scenario(1, <<Malloc, Free, Free>>, {"dies"})
Replaced == Scenario(2, <<Free, HeapName, Free>>, {"stop", "next_session"})
(* The session stops while the client records, and may have to purge it.   *)
Stopped == Scenario(kInfiniteTries, <<Malloc, Free, Malloc>>, {"stop"})
Purged == Scenario(2, <<Malloc, Free>>, {"stop", "purge"})

AllScenarios == {Full, Blocked, TooLarge(8), TooLarge(9), Dying, Replaced,
                 Stopped, Purged}
LockUp == {Scenario(kInfiniteTries, <<Free, Malloc, Free, Malloc>>, {})}
==============================================================================
