---------------------------- MODULE ProbeClaims ----------------------------
(***************************************************************************)
(* What a comment of pkg/provider/probes.go says of the initial delay,     *)
(* where the code does otherwise.                                          *)
(***************************************************************************)
EXTENDS Probes

\* probes.go:79: "Skip probe if container hasn't been running long enough."
\* The probe is skipped, but what the caller gets is whether it has succeeded
\* before: a liveness probe that has not been run yet counts as failed, and
\* handleRestarts kills the container in its initial delay.
NotKilledInInitialDelay ==
  [][work["periodic"].at = "live" /\ work'["periodic"].at = "kill" => ~InDelay]_vars
=============================================================================
