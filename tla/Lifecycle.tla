----------------------------- MODULE Lifecycle -----------------------------
(***************************************************************************)
(* What TestContext promises about the processes behind it.  There is at   *)
(* most one at a time, each is reaped before the next is spawned and       *)
(* before the context is gone, and, until a wait on one has timed out,     *)
(* none dies or is reaped while the test is between two operations.        *)
(***************************************************************************)

VARIABLES
  phase,   \* "busy" in an operation, "idle" between two, "over", or "aborted"
  child,   \* "absent", "alive", or "dead" but not reaped
  late     \* a wait on a child has run out of time

vars == <<phase, child, late>>

Init == phase = "busy" /\ child = "absent" /\ late = FALSE

Spawn ==
  /\ phase = "busy" /\ child = "absent"
  /\ child' = "alive" /\ UNCHANGED <<phase, late>>

Die ==
  /\ child = "alive" /\ (phase = "busy" \/ late)
  /\ child' = "dead" /\ UNCHANGED <<phase, late>>

\* Waiting for the child may be the last thing an operation does.
Reap ==
  /\ phase = "busy" /\ child = "dead"
  /\ child' = "absent" /\ phase' \in {"busy", "over", "aborted"} /\ late' \in {late, TRUE}

Timeout == phase = "busy" /\ late' = TRUE /\ UNCHANGED <<phase, child>>

BeginOperation == phase = "idle" /\ phase' = "busy" /\ UNCHANGED <<child, late>>

EndOperation ==
  /\ phase = "busy" /\ (child # "dead" \/ late)
  /\ phase' = "idle" /\ UNCHANGED <<child, late>>

Close ==
  /\ phase = "busy" /\ child = "absent"
  /\ phase' = "over" /\ UNCHANGED <<child, late>>

\* A failed ASSERT or an exception nobody catches; one is about the time that is left.
Abort ==
  /\ phase \in {"busy", "idle"}
  /\ phase' = "aborted" /\ late' \in {late, TRUE} /\ UNCHANGED child

Next ==
  \/ Spawn \/ Die \/ Reap \/ Timeout \/ BeginOperation \/ EndOperation \/ Close
  \/ Abort

Spec == Init /\ [][Next]_vars
=============================================================================
