---------------------------- MODULE ClientRetry ----------------------------
(***************************************************************************)
(* The replay decision of the HTTP client (client/src/protocol/retry.rs)   *)
(* and the safety a failed call reports (client/src/safety.rs).            *)
(*                                                                         *)
(* A retry state is a record: idempotent (the method), committed (Mode:    *)
(* a request of this call may have entered egress), attempt.               *)
(***************************************************************************)
EXTENDS Naturals

CONSTANTS
    IdempotentAttempts,     \* Policy::idempotent_attempts
    OtherAttempts,          \* Policy::non_idempotent_attempts
    ReconnectOnStale        \* Policy::reconnect_on_stale_non_idempotent

ASSUME RetryAssumption ==
    /\ IdempotentAttempts \in Nat \ {0}
    /\ OtherAttempts \in Nat \ {0}
    /\ ReconnectOnStale \in BOOLEAN

\* Class::of, for the causes the client produces; a transient failure to connect is a
\* class of its own, since a method that is not idempotent tells it apart.
Never == {"Protocol", "OperationCancelled", "Capacity", "Reply", "ConnectFatal",
          "Dispatch", "HeadBudget"}
Stale == {"NotConnected", "RemoteEof", "Receive", "Superseded", "ScheduledRotation",
          "ResourceFailure"}
Classes == {"Never", "Stale", "Transient", "Connect"}
ClassOf(cause) ==
    IF cause \in Never THEN "Never" ELSE IF cause \in Stale THEN "Stale"
    ELSE IF cause = "Connect" THEN "Connect" ELSE "Transient"

\* State::new and with_prior.
NewRetry(idempotent, committed) ==
    [idempotent |-> idempotent, committed |-> committed, attempt |-> 1]

Limit(r) == IF r.idempotent THEN IdempotentAttempts ELSE OtherAttempts

\* Defect: the mode is not told of a commitment that precedes the failure.
Observe_Forgets(r, committed) == [r EXCEPT !.committed = committed]

\* Mode::observe.
Observe(r, committed) == [r EXCEPT !.committed = @ \/ committed]

\* State::finish: the safety of the failure merged with that of the mode.
Finish(r, committed) == IF Observe(r, committed).committed THEN "PossiblyCommitted" ELSE "BeforeSubmit"

\* State::retry_after for a mode that has observed the failure.
MayRetry(r, class) ==
    /\ r.attempt < Limit(r)
    /\ \/ /\ r.idempotent
          /\ class # "Never"
       \/ /\ ~r.idempotent
          /\ ~r.committed
          /\ class = "Connect" \/ (class = "Stale" /\ ReconnectOnStale)

\* Backoff::start.
Restart(r) == [r EXCEPT !.attempt = @ + 1]
=============================================================================
