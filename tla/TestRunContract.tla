-------------------------- MODULE TestRunContract --------------------------
(***************************************************************************)
(* What TestSuite.Run promises to its caller, whatever goroutines,         *)
(* channels and timers it uses: tests produce results, and the caller gets *)
(* those of each test in the order in which they were produced, either all *)
(* of them or, after a timeout, the first ones.  Tests may go on producing *)
(* for a caller who has stopped waiting.                                   *)
(***************************************************************************)
EXTENDS Integers, Sequences

CONSTANTS Tests, SampleCount

VARIABLES
    produced, skipped,  \* per test: results so far, samples without one
    collected,          \* per test: the results the caller will get
    status              \* how the run stands for its caller

vars == <<produced, skipped, collected, status>>

Init ==
    /\ produced = [t \in Tests |-> <<>>]
    /\ skipped = [t \in Tests |-> 0]
    /\ collected = [t \in Tests |-> <<>>]
    /\ status = "running"

Taken(t) == Len(produced[t]) + skipped[t]

Produce(t) ==
    /\ status # "exited" /\ Taken(t) < SampleCount
    /\ \E e \in BOOLEAN :
          produced' = [produced EXCEPT ![t] =
                          Append(@, [name |-> t, error |-> e, n |-> Len(@) + 1])]
    /\ UNCHANGED <<skipped, collected, status>>

Skip(t) ==
    /\ status # "exited" /\ Taken(t) < SampleCount
    /\ skipped' = [skipped EXCEPT ![t] = @ + 1]
    /\ UNCHANGED <<produced, collected, status>>

Collect(t) ==
    /\ status = "running" /\ Len(collected[t]) < Len(produced[t])
    /\ collected' = [collected EXCEPT ![t] = Append(@, produced[t][Len(@) + 1])]
    /\ UNCHANGED <<produced, skipped, status>>

\* "Each test will be run as many times as provided by SampleCount".
Complete ==
    /\ status = "running" /\ status' = "complete"
    /\ collected = produced /\ \A t \in Tests : Taken(t) = SampleCount
    /\ UNCHANGED <<produced, skipped, collected>>

\* "Timed out waiting for a result ..., returning partial results."
Partial ==
    /\ status = "running" /\ status' = "partial"
    /\ UNCHANGED <<produced, skipped, collected>>

\* A callback that fails ends the process.
Exit ==
    /\ status # "exited" /\ status' = "exited"
    /\ UNCHANGED <<produced, skipped, collected>>

Next ==
    \/ Complete \/ Partial \/ Exit
    \/ \E t \in Tests : Produce(t) \/ Skip(t) \/ Collect(t)

\* A run comes to an end, though tests may hang.
SafeSpec == Init /\ [][Next]_vars
Spec == SafeSpec /\ WF_vars(Complete \/ Partial)

=============================================================================
