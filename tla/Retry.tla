-------------------------------- MODULE Retry --------------------------------
(***************************************************************************)
(* utils/retry.go: Retry.Exec runs an operation until it succeeds, with a  *)
(* constant backoff, for at most MaxRetries retries, and no longer than    *)
(* its context.  The loop is backoff.RetryNotify of the library, which     *)
(* finds the context inside the two wrappers that Exec puts around the     *)
(* backoff; the operation is that of the caller.                           *)
(***************************************************************************)
EXTENDS Integers

CONSTANT MaxRetries

ASSUME RetryAssumption == MaxRetries \in Nat

VARIABLES
    rpc, retries,   \* the loop
    told,           \* what Exec has returned
    cancelled,      \* the context has ended
    late            \* history: attempts that began after that

retry == <<rpc, retries, told, late>>

RetryInit ==
    /\ rpc = "idle" /\ retries = 0 /\ told = "idle"
    /\ cancelled = FALSE /\ late = 0

\* The operation runs for the first time whatever the context.
BeginAttempt == rpc' = "operation" /\ late' = late + (IF cancelled THEN 1 ELSE 0)

Exec == rpc = "idle" /\ BeginAttempt /\ told' = "pending" /\ UNCHANGED retries

Tell(t) == rpc' = "returned" /\ told' = t /\ UNCHANGED <<retries, late>>

OperationSucceeds == rpc = "operation" /\ Tell("ok")

\* A panic passes through Exec.
OperationPanics == rpc = "operation" /\ Tell("panic")

OperationFails == rpc = "operation" /\ rpc' = "failed" /\ UNCHANGED <<retries, told, late>>

\* Mutant: the backoff does not know the context.
StopsAtLimit == retries = MaxRetries

\* NextBackOff says Stop: of the limit, or of the context.
Stops == retries = MaxRetries \/ cancelled

GiveUp == rpc = "failed" /\ Stops /\ Tell(IF cancelled THEN "context" ELSE "error")

\* The error is notified; then the timer and the context race.
Backoff ==
    /\ rpc = "failed" /\ ~Stops
    /\ rpc' = "waiting" /\ retries' = retries + 1
    /\ UNCHANGED <<told, late>>

TimerFires == rpc = "waiting" /\ BeginAttempt /\ UNCHANGED <<retries, told>>

ContextEnds == rpc = "waiting" /\ cancelled /\ Tell("context")

LoopStep == (GiveUp \/ Backoff \/ TimerFires \/ ContextEnds) /\ UNCHANGED cancelled

-----------------------------------------------------------------------------
\* A context that ends stops the retries: at most the attempt that raced with
\* it, or the first one, still begins.
OneAttemptAfterCancel == late <= 1

=============================================================================
