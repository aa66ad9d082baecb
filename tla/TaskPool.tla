------------------------------ MODULE TaskPool ------------------------------
(***************************************************************************)
(* What a caller of src/asyncexec.h may rely on: callbacks are started in  *)
(* the order they were queued, each worker slot runs one at a time, and    *)
(* once the pool is closed nothing is running and nothing starts again.    *)
(* The module is both the abstract specification that AsyncExec implements *)
(* and the pool that AsyncRecord composes with record processing.          *)
(***************************************************************************)
EXTENDS Naturals, Sequences

CONSTANTS Tasks,    \* the callbacks that can be submitted
          Slots,    \* the worker threads
          NoTask    \* the content of an idle slot

VARIABLES pending,  \* submitted and not started, oldest first
          active,   \* what each slot is running
          closed    \* the pool has been shut down

poolVars == <<pending, active, closed>>

PoolTypeOK ==
  /\ pending \in Seq(Tasks)
  /\ active \in [Slots -> Tasks \cup {NoTask}]
  /\ closed \in BOOLEAN

Init ==
  /\ pending = <<>>
  /\ active = [s \in Slots |-> NoTask]
  /\ closed = FALSE

\* A submission may still arrive while the pool closes, or after: it then stays pending.
Submit(t) ==
  /\ pending' = Append(pending, t)
  /\ UNCHANGED <<active, closed>>

Start(s) ==
  /\ ~closed
  /\ active[s] = NoTask
  /\ pending # <<>>
  /\ active' = [active EXCEPT ![s] = Head(pending)]
  /\ pending' = Tail(pending)
  /\ UNCHANGED closed

Finish(s) ==
  /\ active[s] # NoTask
  /\ active' = [active EXCEPT ![s] = NoTask]
  /\ UNCHANGED <<pending, closed>>

Close ==
  /\ \A s \in Slots : active[s] = NoTask
  /\ closed' = TRUE
  /\ UNCHANGED <<pending, active>>

Next ==
  \/ \E t \in Tasks : Submit(t)
  \/ \E s \in Slots : Start(s) \/ Finish(s)
  \/ Close

Spec == Init /\ [][Next]_poolVars
=============================================================================
