--------------------------- MODULE AttemptStatus ---------------------------
(***************************************************************************)
(* The attempt state machine: the statuses of internal/models/status.go    *)
(* and the transition table of internal/attempts/statemachine.go.  The     *)
(* table is a relation here, a set of <<from, to>> pairs, because nothing  *)
(* in the code depends on the order in which a row lists its targets.      *)
(***************************************************************************)

AttemptStatuses ==
    {"purchased", "available", "attempt_requested", "environment_provisioning",
     "environment_ready", "terminal_opened", "running", "submitted", "expired",
     "grading", "scored", "cleanup_pending", "destroyed", "provision_failed",
     "expired_before_start", "expired_running", "cleanup_failed"}

EnvironmentStatuses ==
    {"provisioning", "ready", "active", "destroying", "destroyed", "failed"}

\* The target sets of the map literal, one row per key.  "destroyed" has no key.
validTransitions ==
         {"purchased"} \X {"available", "expired_before_start"}
    \cup {"available"} \X {"attempt_requested", "expired_before_start"}
    \cup {"attempt_requested"} \X {"environment_provisioning", "provision_failed"}
    \cup {"environment_provisioning"} \X {"environment_ready", "provision_failed"}
    \cup {"environment_ready"} \X {"terminal_opened", "expired_before_start"}
    \cup {"terminal_opened"} \X {"running"}
    \cup {"running"} \X {"submitted", "expired", "expired_running"}
    \cup {"submitted", "expired", "expired_running"} \X {"grading"}
    \cup {"grading"} \X {"scored"}
    \cup {"cleanup_pending"} \X {"destroyed", "cleanup_failed"}
    \cup {"provision_failed"} \X {"cleanup_pending", "attempt_requested"}
    \cup {"scored", "expired_before_start", "cleanup_failed"} \X {"cleanup_pending"}

ValidTransition(from, to) == <<from, to>> \in validTransitions
=============================================================================
