---------------------------- MODULE RecordCycle ----------------------------
(***************************************************************************)
(* What a client of an asynchronous record may rely on: a pass runs the    *)
(* record's code exactly once and completes after that, and passes of one  *)
(* record do not overlap.  AsyncRecord implements it.                      *)
(***************************************************************************)
CONSTANT Records
VARIABLE phase  \* "idle", "waiting" for its code to run, or "evaluated"

CycleTypeOK == phase \in [Records -> {"idle", "waiting", "evaluated"}]

Init == phase = [r \in Records |-> "idle"]

Moves(r, from, to) == phase[r] = from /\ phase' = [phase EXCEPT ![r] = to]

Begin(r) == Moves(r, "idle", "waiting")
Evaluate(r) == Moves(r, "waiting", "evaluated")
Complete(r) == Moves(r, "evaluated", "idle")

Next == \E r \in Records : Begin(r) \/ Evaluate(r) \/ Complete(r)

Spec == Init /\ [][Next]_phase
=============================================================================
