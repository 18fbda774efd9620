-------------------------- MODULE DeliveryContract --------------------------
(***************************************************************************)
(* What a caller of utils.Retry around a client's request may rely on:     *)
(* there are at most MaxRetries + 1 requests; each arrives at the service  *)
(* at most once, though perhaps only after the caller was told of a        *)
(* failure; and a caller that is told of success has had a request         *)
(* accepted.  One that is told of a failure knows nothing: the service may *)
(* have accepted every request.                                            *)
(***************************************************************************)
EXTENDS Integers

CONSTANT MaxRetries

VARIABLES
    sent, arrived, accepted,   \* sets of requests, by number
    told                       \* what the caller knows

vars == <<sent, arrived, accepted, told>>

Init == sent = {} /\ arrived = {} /\ accepted = {} /\ told = "idle"

Call == told = "idle" /\ told' = "pending" /\ UNCHANGED <<sent, arrived, accepted>>

Post(n) ==
    /\ told = "pending" /\ n \notin sent /\ 1..(n - 1) \subseteq sent
    /\ sent' = sent \cup {n}
    /\ UNCHANGED <<arrived, accepted, told>>

Arrive(n) ==
    /\ n \in sent \ arrived
    /\ arrived' = arrived \cup {n}
    /\ UNCHANGED <<sent, accepted, told>>

\* The service accepts request n; its answer may not be understood.
Accept(n) ==
    /\ told = "pending" /\ n \in arrived
    /\ accepted' = accepted \cup {n}
    /\ told' \in {"ok", "pending", "panic"}
    /\ UNCHANGED <<sent, arrived>>

Fail ==
    /\ told = "pending" /\ told' \in {"error", "context", "panic"}
    /\ UNCHANGED <<sent, arrived, accepted>>

Next ==
    \/ Call \/ Fail
    \/ \E n \in 1..(MaxRetries + 1) : Post(n) \/ Arrive(n) \/ Accept(n)

\* A caller is not left waiting for ever.
SafeSpec == Init /\ [][Next]_vars
Spec == SafeSpec /\ WF_vars(Fail \/ \E n \in 1..(MaxRetries + 1) : Accept(n))

=============================================================================
