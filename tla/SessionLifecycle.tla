--------------------------- MODULE SessionLifecycle ---------------------------
(***************************************************************************)
(* What the service promises of a tracing session, without producers,      *)
(* flushes, triggers or timers: a session only moves forward, the consumer *)
(* that is attached when it ends is told so once, and a trace that was     *)
(* seized for a bugreport is handed over once, when it ends.               *)
(***************************************************************************)
EXTENDS Naturals

CONSTANT SessionIDs

VARIABLE life   \* session -> [phase, attached, seized, told, saved]

Init ==
  life = [s \in SessionIDs |->
            [phase |-> "none", attached |-> FALSE, seized |-> FALSE,
             told |-> 0, saved |-> 0]]

(* The phases that may follow a phase in one call.                         *)
Follow ==
  [none |-> {"CONFIGURED", "STARTED"},
   CONFIGURED |-> {"STARTED", "DISABLED", "gone"},
   STARTED |-> {"DISABLING_WAITING_STOP_ACKS", "DISABLED", "gone"},
   DISABLING_WAITING_STOP_ACKS |-> {"DISABLED", "gone"},
   DISABLED |-> {"gone"},
   gone |-> {}]

Active == {"CONFIGURED", "STARTED", "DISABLING_WAITING_STOP_ACKS"}
Ended == {"DISABLED", "gone"}

(* EnableTracing().                                                        *)
Begin(a, b) ==
  /\ a.phase = "none"
  /\ b.phase \in Follow["none"]
  /\ b = [a EXCEPT !.phase = b.phase, !.attached = TRUE]

(* Towards the end, without reaching it.                                   *)
Advance(a, b) ==
  /\ a.phase \in Active
  /\ b.phase \in Follow[a.phase] \ Ended
  /\ b = [a EXCEPT !.phase = b.phase]

(* The end, or the end and FreeBuffers() in one call.                      *)
End(a, b) ==
  /\ a.phase \in Active
  /\ b.phase \in Ended
  /\ b = [phase |-> b.phase,
          attached |-> a.attached /\ b.phase = "DISABLED",
          seized |-> FALSE,
          told |-> IF a.attached THEN a.told + 1 ELSE a.told,
          saved |-> IF a.seized THEN a.saved + 1 ELSE a.saved]

Free(a, b) ==
  a.phase = "DISABLED" /\ b = [a EXCEPT !.phase = "gone", !.attached = FALSE]

DetachOrAttach(a, b) ==
  a.phase \notin {"none", "gone"} /\ b = [a EXCEPT !.attached = ~@]

Seize(a, b) ==
  a.phase = "STARTED" /\ ~a.seized /\ b = [a EXCEPT !.seized = TRUE]

SessionStep(a, b) ==
  Begin(a, b) \/ Advance(a, b) \/ End(a, b) \/ Free(a, b)
    \/ DetachOrAttach(a, b) \/ Seize(a, b)

(* One call may move several sessions (a trigger, a producer that goes).   *)
Next ==
  /\ \A s \in SessionIDs : life'[s] = life[s] \/ SessionStep(life[s], life'[s])
  /\ DOMAIN life' = SessionIDs

Spec == Init /\ [][Next]_life
=============================================================================
