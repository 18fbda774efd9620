---------------------------- MODULE ContinuousRun ----------------------------
(***************************************************************************)
(* pkg/test/continuous_framework.go, TestSuite.RunContinuous: runs each    *)
(* selected test of a suite (TestRegistration) once in a goroutine of its  *)
(* own, which sends its result on the channel of the caller, and returns   *)
(* without waiting for them.  The deferred after-suite callbacks therefore *)
(* run beside the tests.                                                   *)
(*                                                                         *)
(* What is registered after the call does not join it: it has copied its   *)
(* tests.  The receiver of the results is outside the program: it receives *)
(* until it stops, if it ever does.                                        *)
(***************************************************************************)
EXTENDS TestRegistration

CONSTANTS
    LabelLists,      \* cfg.Labels
    Rooms            \* capacity of cfg.ResultsCh

ASSUME RunAssumption == LabelLists \subseteq Seq(STRING) /\ Rooms \subseteq Nat

VARIABLES
    suite, testCases, room, \* of the call: its suite, the tests selected, the
                            \* capacity of its channel
    pc, callback,           \* RunContinuous, and the callbacks it has run
    launched,               \* the launcher goroutine has been started
    wpc,                    \* the goroutines of the tests
    ch, received, receiving \* the caller's channel and its receiver

call == <<suite, testCases, room>>
vars == <<ended, registry, call, pc, callback, launched, wpc, ch, received, receiving>>

Init ==
    /\ RegistryInit
    /\ suite = None /\ testCases = {} /\ room = 0
    /\ pc = "idle" /\ callback = 0 /\ launched = FALSE
    /\ wpc = <<>> /\ ch = <<>> /\ received = <<>> /\ receiving = TRUE

Registration ==
    /\ pc = "idle" /\ Register
    /\ UNCHANGED <<call, pc, callback, launched, wpc, ch, received, receiving>>

RunContinuous(s, labels, capacity) ==
    /\ pc = "idle" /\ Built(s)
    /\ suite' = s /\ room' = capacity
    /\ testCases' = Flattened(s, labels)
    /\ wpc' = [t \in testCases' |-> "none"]
    /\ pc' = "before"
    /\ UNCHANGED <<ended, registry, callback, launched, ch, received, receiving>>

\* glog.Fatalf ends the process at once, deferred functions and all.
Fatal == ended' = TRUE

Callback ==
    /\ ~ended
    /\ \/ callback' = callback + 1 /\ UNCHANGED ended
       \/ Fatal /\ UNCHANGED callback
    /\ UNCHANGED <<registry, call, pc, launched, wpc, ch, received, receiving>>

BeforeCallback == pc = "before" /\ callback < before[suite] /\ Callback

StartLauncher ==
    /\ ~ended /\ pc = "before" /\ callback = before[suite]
    /\ pc' = "after" /\ callback' = 0 /\ launched' = TRUE
    /\ UNCHANGED <<ended, registry, call, wpc, ch, received, receiving>>

AfterCallback == pc = "after" /\ callback < after[suite] /\ Callback

Return ==
    /\ ~ended /\ pc = "after" /\ callback = after[suite]
    /\ pc' = "returned"
    /\ UNCHANGED <<ended, registry, call, callback, launched, wpc, ch, received, receiving>>

-----------------------------------------------------------------------------
\* The goroutines.
At(t, l) == ~ended /\ t \in testCases /\ wpc[t] = l

GoTo(t, l) == wpc' = [wpc EXCEPT ![t] = l]

Runner == <<ended, registry, call, pc, callback, launched, receiving>>

Launch(t) ==
    /\ launched /\ At(t, "none")
    /\ GoTo(t, IF t.setup THEN "setup" ELSE "test")
    /\ UNCHANGED <<Runner, ch, received>>

\* A setup that fails ends the goroutine without a result.
Setup(t) ==
    /\ At(t, "setup")
    /\ GoTo(t, "test") \/ GoTo(t, "done")
    /\ UNCHANGED <<Runner, ch, received>>

\* An error of the request is sent and ends the goroutine; otherwise the
\* result of the assertions is sent and the teardown follows.
Test(t) ==
    /\ At(t, "test")
    /\ GoTo(t, "sendError") \/ GoTo(t, "sendResult")
    /\ UNCHANGED <<Runner, ch, received>>

\* Mutant: only a channel with room for results takes one.
SendBuffered(t) ==
    /\ At(t, "sendError") \/ At(t, "sendResult")
    /\ Len(ch) < room /\ ch' = Append(ch, t.name) /\ UNCHANGED received
    /\ GoTo(t, IF wpc[t] = "sendResult" /\ t.teardown THEN "teardown" ELSE "done")
    /\ UNCHANGED Runner

\* A send waits for room, or for the receiver when the channel has none.
Send(t) ==
    /\ At(t, "sendError") \/ At(t, "sendResult")
    /\ \/ Len(ch) < room /\ ch' = Append(ch, t.name) /\ UNCHANGED received
       \/ room = 0 /\ receiving /\ received' = Append(received, t.name) /\ UNCHANGED ch
    /\ GoTo(t, IF wpc[t] = "sendResult" /\ t.teardown THEN "teardown" ELSE "done")
    /\ UNCHANGED Runner

Teardown(t) ==
    /\ At(t, "teardown")
    /\ GoTo(t, "done")
    /\ UNCHANGED <<Runner, ch, received>>

-----------------------------------------------------------------------------
\* The receiver.
CallerReceives ==
    /\ ~ended /\ receiving /\ ch # <<>>
    /\ received' = Append(received, Head(ch))
    /\ ch' = Tail(ch)
    /\ UNCHANGED <<Runner, wpc>>

CallerStops ==
    /\ ~ended /\ pc # "idle" /\ receiving /\ receiving' = FALSE
    /\ UNCHANGED <<ended, registry, call, pc, callback, launched, wpc, ch, received>>

CallerStep ==
    \/ Registration
    \/ \E s \in Suites, l \in LabelLists, r \in Rooms : RunContinuous(s, l, r)

RunStep == BeforeCallback \/ StartLauncher \/ AfterCallback \/ Return

WorkerStep(t) == Launch(t) \/ Setup(t) \/ Test(t) \/ Send(t) \/ Teardown(t)

Next == CallerStep \/ RunStep \/ CallerReceives \/ CallerStops \/ \E t \in Cases : WorkerStep(t)

Spec == Init /\ [][Next]_vars

\* Goroutines run, callbacks and test functions return, and a caller that
\* has not stopped receives.
FairSpec ==
    /\ Spec /\ WF_vars(RunStep) /\ WF_vars(CallerReceives)
    /\ \A t \in Cases : WF_vars(WorkerStep(t))

-----------------------------------------------------------------------------
(* Properties.                                                             *)

\* No name gives two results, though several tests may have it, and the
\* caller gets none of a test that has not sent one, whatever the capacity of
\* the channel.
OneResultPerTest ==
    LET all == received \o ch IN
    /\ \A i, j \in 1..Len(all) : all[i] = all[j] => i = j
    /\ \A i \in 1..Len(all) :
          \E t \in testCases : t.name = all[i] /\ wpc[t] \in {"teardown", "done"}

\* The goroutines of the tests end as long as the caller goes on receiving;
\* one that stops may leave them blocked in their sends for ever.
TestsEndWhileReceived ==
    pc = "before" ~> (ended \/ ~receiving \/ \A t \in testCases : wpc[t] = "done")

=============================================================================
