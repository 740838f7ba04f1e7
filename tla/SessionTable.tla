---------------------------- MODULE SessionTable ----------------------------
(***************************************************************************)
(* The data the session is driven by: the transition table of the state    *)
(* machine, the classification of disconnect causes, and the reconnect     *)
(* policy.  Both tables are generated code (src/src/generated), and every  *)
(* other module of the session reads them through the operators below.     *)
(***************************************************************************)
EXTENDS Naturals

SessionStates == {"idle", "connecting", "awaiting_scan", "open", "closing",
                  "closed", "logged_out"}

\* Legal moves as <<from, trigger, to>>.  Whatever is absent is illegal.
Transitions ==
  { <<"idle", "start", "connecting">>,
    <<"connecting", "qr", "awaiting_scan">>,
    <<"connecting", "connected", "open">>,
    <<"connecting", "stop", "closing">>,
    <<"connecting", "disconnected", "closed">>,
    <<"connecting", "fenced", "closed">>,
    <<"connecting", "logged_out", "logged_out">>,
    <<"awaiting_scan", "restart_required", "connecting">>,
    <<"awaiting_scan", "connected", "open">>,
    <<"awaiting_scan", "qr", "awaiting_scan">>,
    <<"awaiting_scan", "stop", "closing">>,
    <<"awaiting_scan", "disconnected", "closed">>,
    <<"awaiting_scan", "qr_exhausted", "closed">>,
    <<"awaiting_scan", "fenced", "closed">>,
    <<"awaiting_scan", "logged_out", "logged_out">>,
    <<"open", "stop", "closing">>,
    <<"open", "disconnected", "closed">>,
    <<"open", "fenced", "closed">>,
    <<"open", "logged_out", "logged_out">>,
    <<"closing", "stopped", "closed">>,
    <<"closed", "start", "connecting">>,
    <<"closed", "reconnect", "connecting">>,
    <<"closed", "logged_out", "logged_out">>,
    <<"logged_out", "reset", "idle">> }

\* SessionMachine.can
Can(from, trigger) == \E to \in SessionStates : <<from, trigger, to>> \in Transitions

\* SessionMachine.tryApply: the state after the trigger, or the same state
\* when the table has no such edge.
TryApply(from, trigger) ==
  IF Can(from, trigger)
  THEN CHOOSE to \in SessionStates : <<from, trigger, to>> \in Transitions
  ELSE from

-----------------------------------------------------------------------------
(* Disconnect causes                                                        *)

ImmediateCauses == {"restart_required"}

BackoffCauses == {"connection_closed", "connection_lost", "timed_out",
                  "service_unavailable", "server_error", "unknown"}

TerminalCauses == {"connection_replaced", "logged_out", "bad_session",
                   "multidevice_mismatch", "device_removed", "banned",
                   "temporary_ban", "client_outdated", "bad_user_agent"}

DisconnectCauses == ImmediateCauses \cup BackoffCauses \cup TerminalCauses

\* Causes whose handling deletes the stored credentials.
PurgesCreds == {"logged_out", "bad_session", "multidevice_mismatch",
                "device_removed", "banned"}

\* The trigger a disconnect is applied with, which depends on the state left.
DisconnectTrigger(cause, from) ==
  IF cause \in PurgesCreds THEN "logged_out"
  ELSE IF cause \in ImmediateCauses /\ Can(from, "restart_required")
       THEN "restart_required"
       ELSE "disconnected"

-----------------------------------------------------------------------------
(* ReconnectPolicy.plan.  The delay itself is left to the timer: only       *)
(* whether there is a retry, and the attempts consumed, are decided here.   *)

\* A cap of 0 means no cap.
WithinCap(attempt, maxAttempts) == maxAttempts = 0 \/ attempt <= maxAttempts

\* Mutant of Retries: the restart after a scan is capped like a failure.
RetriesCapped(cause, enabled, attempt, maxAttempts) ==
  /\ cause \notin TerminalCauses
  /\ enabled
  /\ WithinCap(attempt + 1, maxAttempts)

Retries(cause, enabled, attempt, maxAttempts) ==
  /\ cause \notin TerminalCauses
  /\ enabled
  /\ cause \in ImmediateCauses \/ WithinCap(attempt + 1, maxAttempts)

\* Mutant of AttemptAfter: a restart after pairing consumes an attempt too.
AttemptAfterAny(cause, enabled, attempt, maxAttempts) ==
  IF Retries(cause, enabled, attempt, maxAttempts) THEN attempt + 1 ELSE attempt

\* The attempt counter after the plan: only a retried backoff cause consumes one.
AttemptAfter(cause, enabled, attempt, maxAttempts) ==
  IF Retries(cause, enabled, attempt, maxAttempts) /\ cause \in BackoffCauses
  THEN attempt + 1
  ELSE attempt

=============================================================================
