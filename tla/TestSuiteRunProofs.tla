------------------------- MODULE TestSuiteRunProofs -------------------------
(***************************************************************************)
(* Proofs about TestSuiteRun, for any number of tests, samples and         *)
(* callbacks.                                                              *)
(*                                                                         *)
(* The channel holds, in the order of their numbers, exactly the results   *)
(* that were sent and not yet received.  They are different members of     *)
(* testCases \X 1..SampleCount, and so is the one a test is about to send: *)
(* hence there is room for it.  The wait group counts the goroutines at    *)
(* work, so none is left when the channel is closed.                       *)
(***************************************************************************)
EXTENDS TestSuiteRun, FiniteSetTheorems, TLAPS

Result == [name : testCases, error : BOOLEAN, n : 1..SampleCount]

\* Numbers of the results of t that were sent and not received.
Underway(t) == (Len(results[t]) + 1)..Len(sent[t])

ChannelSound ==
    \A i \in DOMAIN ch :
        /\ ch[i].n \in Underway(ch[i].name)
        /\ sent[ch[i].name][ch[i].n] = ch[i]

ChannelComplete ==
    \A t \in testCases : \A k \in Underway(t) :
        \E i \in DOMAIN ch : ch[i].name = t /\ ch[i].n = k

ChannelOrdered ==
    \A i, j \in DOMAIN ch : i < j /\ ch[i].name = ch[j].name => ch[i].n < ch[j].n

ResultsAreSent ==
    \A t \in testCases :
        /\ Len(results[t]) <= Len(sent[t])
        /\ \A k \in 1..Len(results[t]) : results[t][k] = sent[t][k]

ChannelInv == ChannelSound /\ ChannelComplete /\ ChannelOrdered /\ ResultsAreSent

InSample(t) == IF wpc[t] \in {"setup", "test", "send"} THEN 1 ELSE 0

Counting ==
    \A t \in testCases :
        Len(sent[t]) + skipped[t] + left[t] + InSample(t) = SampleCount

AtWork == {t \in testCases : wpc[t] \notin {"none", "done"}}

WaitGroup ==
    /\ wg = Cardinality(AtWork)
    /\ lpc \in {"wait", "done"} => \A t \in testCases : wpc[t] # "none"
    /\ lpc = "done" <=> closed
    /\ closed => AtWork = {}
    /\ \A t \in testCases : wpc[t] # "panic"

Callbacks ==
    /\ pc = "before" => callback <= BeforeAll /\ lpc = "none"
    /\ lpc = "none" => \A t \in testCases : wpc[t] = "none"
    /\ pc = "collect" => callback = 0
    /\ pc \in {"before", "collect"} => ~timedOut
    /\ pc = "after" => callback <= AfterAll

Types ==
    /\ pc \in {"before", "collect", "after", "returned", "exited"}
    /\ callback \in 0..(BeforeAll + AfterAll)
    /\ lpc \in {"none", "launch", "wait", "done"}
    /\ wpc \in [testCases -> {"none", "next", "setup", "test", "send", "teardown",
                              "done", "panic"}]
    /\ left \in [testCases -> 0..SampleCount]
    /\ outcome \in [testCases -> Outcomes]
    /\ ch \in Seq(Result) /\ closed \in BOOLEAN
    /\ results \in [testCases -> Seq(Result)] /\ timedOut \in BOOLEAN
    /\ sent \in [testCases -> Seq(Result)]
    /\ skipped \in [testCases -> 0..SampleCount]

Leftover == \A t \in testCases : wpc[t] = "done" => left[t] = 0

IInv == Types /\ ChannelInv /\ Counting /\ Leftover /\ WaitGroup /\ Callbacks

-----------------------------------------------------------------------------
LEMMA TestCasesFinite == IsFiniteSet(testCases) /\ Cardinality(testCases) \in Nat
<1>1. testCases \subseteq Names
  BY ConstantsAssumption DEF testCases
<1>2. IsFiniteSet(Names)
  BY ConstantsAssumption
<1>3. IsFiniteSet(testCases)
  BY <1>1, <1>2, FS_Subset
<1> QED
  BY <1>3, FS_CardinalityType

LEMMA AtWorkFinite == IsFiniteSet(AtWork)
BY TestCasesFinite, FS_Subset DEF AtWork

\* Results with different numbers fit into the channel.
LEMMA DistinctResultsFit ==
    ASSUME NEW q \in Seq(Result),
           \A i, j \in DOMAIN q : i < j => <<q[i].name, q[i].n>> # <<q[j].name, q[j].n>>
    PROVE  Len(q) <= Capacity
<1> DEFINE D == 1..Len(q)
           T == testCases \X (1..SampleCount)
           f == [i \in D |-> <<q[i].name, q[i].n>>]
<1>0. Len(q) \in Nat /\ DOMAIN q = D /\ SampleCount \in Nat
  BY ConstantsAssumption
<1>a. \A i \in D : q[i] \in Result
  BY <1>0
<1>b. \A r \in Result : r.name \in testCases /\ r.n \in 1..SampleCount
  BY DEF Result
<1>1. f \in [D -> T]
  BY <1>a, <1>b
<1>2. \A i, j \in D : i < j => f[i] # f[j]
  BY <1>0
<1>3. \A i, j \in D : i # j => i < j \/ j < i
  BY <1>0
<1>4. \A i, j \in D : f[i] = f[j] => i = j
  BY <1>2, <1>3
<1>5. f \in Injection(D, T)
  BY <1>1, <1>4 DEF Injection, IsInjective
<1>6. IsFiniteSet(1..SampleCount) /\ Cardinality(1..SampleCount) = SampleCount
  BY <1>0, FS_Interval, SMTT(30)
<1>7. IsFiniteSet(T) /\ Cardinality(T) = Cardinality(testCases) * SampleCount
  BY <1>6, TestCasesFinite, FS_Product
<1>8. Cardinality(D) <= Cardinality(T)
  BY <1>5, <1>7, FS_Injection
<1>9. Cardinality(D) = Len(q)
  BY <1>0, FS_Interval
<1> QED
  BY <1>7, <1>8, <1>9 DEF Capacity

-----------------------------------------------------------------------------
(* Type correctness and counting, action by action.                        *)

LEMMA SendMakesResult ==
    ASSUME IInv, NEW t \in testCases, At(t, "send")
    PROVE  /\ NewResult(t) \in Result /\ NewResult(t).name = t
           /\ NewResult(t).n = Len(sent[t]) + 1
           /\ Len(sent[t]) \in Nat /\ Len(sent[t]) + 1 <= SampleCount
<1>1. Len(sent[t]) \in Nat /\ left[t] \in Nat /\ skipped[t] \in Nat /\ SampleCount \in Nat
  BY ConstantsAssumption DEF IInv, Types
<1>2. Len(sent[t]) + 1 <= SampleCount
  BY <1>1 DEF IInv, Counting, InSample, At
<1> QED
  BY <1>1, <1>2 DEF NewResult, Result

LEMMA TypesInit == Init => Types
<1> SUFFICES ASSUME Init PROVE Types
  OBVIOUS
<1>1. SampleCount \in Nat /\ BeforeAll \in Nat /\ AfterAll \in Nat
  BY ConstantsAssumption
<1>2. <<>> \in Seq(Result)
  OBVIOUS
<1>3. NoOutcome \in Outcomes
  BY DEF Outcomes
<1>4. results \in [testCases -> Seq(Result)] /\ sent \in [testCases -> Seq(Result)] /\ ch \in Seq(Result)
  BY <1>2 DEF Init
<1>5. left \in [testCases -> 0..SampleCount] /\ skipped \in [testCases -> 0..SampleCount]
  BY <1>1 DEF Init
<1>6. outcome \in [testCases -> Outcomes]
  BY <1>3 DEF Init
<1>7. wpc \in [testCases -> {"none", "next", "setup", "test", "send", "teardown",
                              "done", "panic"}]
  BY DEF Init
<1>8. callback \in 0..(BeforeAll + AfterAll)
  BY <1>1 DEF Init
<1> QED
  BY <1>4, <1>5, <1>6, <1>7, <1>8 DEF Init, Types

LEMMA TypesStep == IInv /\ [Next]_vars => Types'
<1> SUFFICES ASSUME IInv, [Next]_vars PROVE Types'
  OBVIOUS
<1>0. /\ SampleCount \in Nat /\ BeforeAll \in Nat /\ AfterAll \in Nat
      /\ Types /\ Callbacks /\ Counting
  BY ConstantsAssumption DEF IInv
<1>1. ASSUME BeforeCallback \/ StartLauncher \/ ReceiveClosed \/ AfterCallback \/ Return \/ Timeout
      PROVE  Types'
  <2>1. callback' \in 0..(BeforeAll + AfterAll)
    BY <1>0, <1>1 DEF Types, BeforeCallback, StartLauncher, ReceiveClosed,
                      AfterCallback, Return, Timeout
  <2>2. /\ pc' \in {"before", "collect", "after", "returned", "exited"}
        /\ lpc' \in {"none", "launch", "wait", "done"} /\ timedOut' \in BOOLEAN
    BY <1>0, <1>1 DEF Types, BeforeCallback, StartLauncher, ReceiveClosed,
                      AfterCallback, Return, Timeout, launcher
  <2>3. UNCHANGED <<workers, channel, results>>
    BY <1>1 DEF BeforeCallback, StartLauncher, ReceiveClosed,
                      AfterCallback, Return, Timeout
  <2> QED
    BY <1>0, <2>1, <2>2, <2>3 DEF Types, workers, channel
<1>2. CASE Receive
  <2>1. Head(ch) \in Result /\ Tail(ch) \in Seq(Result)
    BY <1>0, <1>2 DEF Types, Receive
  <2>a. PICK r \in Result : results' = [results EXCEPT ![r.name] = Append(@, r)]
    BY <1>2, <2>1 DEF Receive
  <2>b. r.name \in testCases
    BY DEF Result
  <2>2. results' \in [testCases -> Seq(Result)]
    BY <1>0, <2>a, <2>b DEF Types
  <2> QED
    BY <1>0, <1>2, <2>1, <2>2 DEF Types, Receive, launcher, workers
<1>3. CASE LauncherStep
  BY <1>0, <1>3 DEF Types, LauncherStep, Launch, AllLaunched, CloseChannel, run, workers, channel
<1>4. ASSUME NEW t \in testCases, WorkerStep(t) PROVE Types'
  <2>1. CASE NextSample(t)
    BY <1>0, <2>1 DEF Types, NextSample, At, GoTo, run, launcher, channel
  <2>2. CASE NoMoreSamples(t)
    BY <1>0, <2>2 DEF Types, NoMoreSamples, At, GoTo, run, channel
  <2>3. CASE Setup(t)
    <3>1. ASSUME skipped' = [skipped EXCEPT ![t] = @ + 1] PROVE skipped' \in [testCases -> 0..SampleCount]
      BY <1>0, <2>3, <3>1 DEF Types, Setup, At, Counting, InSample
    <3> QED
      BY <1>0, <2>3, <3>1 DEF Types, Setup, At, GoTo, run, launcher, channel
  <2>4. CASE Test(t)
    BY <1>0, <2>4 DEF Types, Test, At, GoTo, run, launcher, channel
  <2>5. CASE Send(t)
    <3>1. NewResult(t) \in Result
      BY <2>5, SendMakesResult DEF Send
    <3>2. ch' \in Seq(Result) /\ sent' \in [testCases -> Seq(Result)]
      BY <1>0, <2>5, <3>1 DEF Types, Send
    <3>3. outcome' \in [testCases -> Outcomes]
      BY <1>0, <2>5 DEF Types, Send, Outcomes
    <3>4. wpc' \in [testCases -> {"none", "next", "setup", "test", "send", "teardown",
                                  "done", "panic"}]
      BY <1>0, <2>5 DEF Types, Send, GoTo, AfterSend
    <3> QED
      BY <1>0, <2>5, <3>2, <3>3, <3>4 DEF Types, Send, run, launcher
  <2>6. CASE Teardown(t)
    BY <1>0, <2>6 DEF Types, Teardown, At, GoTo, run, launcher, channel
  <2> QED
    BY <1>4, <2>1, <2>2, <2>3, <2>4, <2>5, <2>6 DEF WorkerStep
<1>5. CASE UNCHANGED vars
  BY <1>0, <1>5 DEF Types, vars, run, launcher, workers, channel
<1> QED
  BY <1>1, <1>2, <1>3, <1>4, <1>5 DEF Next, RunStep

LEMMA CountingStep == IInv /\ [Next]_vars => Counting'
<1> SUFFICES ASSUME IInv, [Next]_vars, NEW t \in testCases
             PROVE  (Len(sent[t]) + skipped[t] + left[t] + InSample(t) = SampleCount)'
  BY DEF Counting
<1>0. /\ Len(sent[t]) + skipped[t] + left[t] + InSample(t) = SampleCount
      /\ Len(sent[t]) \in Nat /\ skipped[t] \in Nat /\ left[t] \in Nat /\ SampleCount \in Nat
      /\ Types
  BY ConstantsAssumption DEF IInv, Counting, Types
<1>1. CASE UNCHANGED workers
  BY <1>0, <1>1 DEF workers, InSample
<1>2. ASSUME NEW u \in testCases, Launch(u)
      PROVE  (Len(sent[t]) + skipped[t] + left[t] + InSample(t) = SampleCount)'
  BY <1>0, <1>2 DEF Types, Launch, InSample
<1>3. ASSUME NEW u \in testCases, WorkerStep(u)
      PROVE  (Len(sent[t]) + skipped[t] + left[t] + InSample(t) = SampleCount)'
  <2>1. CASE NextSample(u)
    BY <1>0, <2>1, SMTT(30) DEF Types, NextSample, InSample, At, GoTo
  <2>2. CASE NoMoreSamples(u) \/ Test(u) \/ Teardown(u)
    BY <1>0, <2>2 DEF Types, NoMoreSamples, Test, Teardown, InSample, At, GoTo
  <2>3. CASE Setup(u)
    BY <1>0, <2>3, SMTT(30) DEF Types, Setup, InSample, At, GoTo
  <2>4. CASE Send(u)
    <3>1. NewResult(u) \in Result
      BY <2>4, SendMakesResult DEF Send
    <3>2. Len(sent'[t]) = IF u = t THEN Len(sent[t]) + 1 ELSE Len(sent[t])
      BY <1>0, <2>4, <3>1 DEF Types, Send
    <3>3. ~closed
      BY <2>4 DEF IInv, WaitGroup, Send, At, AtWork
    <3>4. /\ wpc[u] = "send" /\ wpc' = [wpc EXCEPT ![u] = AfterSend(u)]
          /\ AfterSend(u) \in {"teardown", "next"}
      BY <2>4, <3>3 DEF Send, At, GoTo, AfterSend
    <3>5. InSample(t)' = IF u = t THEN 0 ELSE InSample(t)
      BY <1>0, <3>4 DEF Types, InSample
    <3> QED
      BY <1>0, <2>4, <3>2, <3>4, <3>5 DEF Send, InSample
  <2> QED
    BY <1>3, <2>1, <2>2, <2>3, <2>4 DEF WorkerStep
<1> QED
  BY <1>1, <1>2, <1>3 DEF Next, RunStep, LauncherStep, BeforeCallback, StartLauncher, Receive,
       ReceiveClosed, AfterCallback, Return, Timeout, AllLaunched, CloseChannel, vars

-----------------------------------------------------------------------------
(* The wait group and the callbacks.                                       *)

LEMMA WaitGroupStep == IInv /\ [Next]_vars => WaitGroup'
<1> SUFFICES ASSUME IInv, [Next]_vars PROVE WaitGroup'
  OBVIOUS
<1>0. Types /\ WaitGroup /\ wg \in Nat
  BY AtWorkFinite, FS_CardinalityType DEF IInv, WaitGroup
<1>1. CASE UNCHANGED <<wpc, wg, closed>> /\ (UNCHANGED lpc \/ (lpc = "none" /\ lpc' = "launch"))
  <2>1. AtWork' = AtWork
    BY <1>1 DEF AtWork
  <2> QED
    BY <1>0, <1>1, <2>1 DEF WaitGroup
<1>2. ASSUME NEW t \in testCases, Launch(t) PROVE WaitGroup'
  <2>1. AtWork' = AtWork \cup {t} /\ t \notin AtWork
    BY <1>0, <1>2 DEF Launch, AtWork, Types
  <2>2. wg' = Cardinality(AtWork')
    BY <1>0, <1>2, <2>1, AtWorkFinite, FS_AddElement DEF WaitGroup, Launch
  <2> QED
    BY <1>0, <1>2, <2>2 DEF WaitGroup, Launch, Types, channel
<1>3. CASE AllLaunched
  <2>1. AtWork' = AtWork
    BY <1>3 DEF AtWork, AllLaunched, workers
  <2> QED
    BY <1>0, <1>3, <2>1 DEF WaitGroup, AllLaunched, workers, channel
<1>4. CASE CloseChannel
  <2>1. AtWork' = AtWork
    BY <1>4 DEF AtWork, CloseChannel, workers
  <2>2. AtWork = {}
    BY <1>0, <1>4, AtWorkFinite, FS_EmptySet DEF WaitGroup, CloseChannel
  <2> QED
    BY <1>0, <1>4, <2>1, <2>2 DEF WaitGroup, CloseChannel, workers
<1>5. ASSUME NEW t \in testCases, WorkerStep(t) PROVE WaitGroup'
  <2>0. /\ UNCHANGED <<lpc, closed>> /\ wpc[t] \notin {"none", "done"}
    BY <1>5 DEF WorkerStep, NextSample, NoMoreSamples, Setup, Test, Send, Teardown, At, launcher, channel
  <2>1. t \in AtWork /\ ~closed
    BY <1>0, <2>0 DEF AtWork, WaitGroup
  <2>2. CASE NoMoreSamples(t)
    <3>1. wpc' = [wpc EXCEPT ![t] = "done"] /\ wg' = wg - 1
      BY <2>2 DEF NoMoreSamples, GoTo
    <3>2. AtWork' = AtWork \ {t}
      BY <1>0, <3>1 DEF AtWork, Types
    <3>3. wg' = Cardinality(AtWork')
      BY <1>0, <2>1, <3>1, <3>2, AtWorkFinite, FS_RemoveElement DEF WaitGroup
    <3> QED
      BY <1>0, <2>0, <2>1, <3>1, <3>3 DEF WaitGroup, Types
  <2>3. CASE NextSample(t) \/ Setup(t) \/ Test(t) \/ Send(t) \/ Teardown(t)
    <3>1. PICK l \in {"next", "setup", "test", "send", "teardown"} :
              wpc' = [wpc EXCEPT ![t] = l] /\ wg' = wg
      BY <2>1, <2>3 DEF NextSample, Setup, Test, Send, Teardown, GoTo, AfterSend, launcher
    <3>2. AtWork' = AtWork
      BY <1>0, <2>1, <3>1 DEF AtWork, Types
    <3> QED
      BY <1>0, <2>0, <2>1, <3>1, <3>2 DEF WaitGroup, Types
  <2> QED
    BY <1>5, <2>2, <2>3 DEF WorkerStep
<1>6. CASE RunStep \/ Timeout \/ UNCHANGED vars
  BY <1>0, <1>1, <1>6 DEF RunStep, Timeout, BeforeCallback, StartLauncher, Receive, ReceiveClosed,
       AfterCallback, Return, vars, run, launcher, workers, channel, IInv, Callbacks
<1> QED
  BY <1>2, <1>3, <1>4, <1>5, <1>6 DEF Next, LauncherStep

LEMMA LeftoverStep == IInv /\ [Next]_vars => Leftover'
<1> SUFFICES ASSUME IInv, [Next]_vars, NEW t \in testCases
             PROVE  (wpc[t] = "done" => left[t] = 0)'
  BY DEF Leftover
<1>0. Types /\ (wpc[t] = "done" => left[t] = 0)
  BY DEF IInv, Leftover
<1>1. CASE UNCHANGED workers
  BY <1>0, <1>1 DEF workers
<1>2. ASSUME NEW u \in testCases, Launch(u) PROVE (wpc[t] = "done" => left[t] = 0)'
  BY <1>0, <1>2 DEF Launch, Types
<1>3. ASSUME NEW u \in testCases, WorkerStep(u) PROVE (wpc[t] = "done" => left[t] = 0)'
  <2>1. CASE NoMoreSamples(u)
    BY <1>0, <2>1 DEF NoMoreSamples, At, GoTo, Types
  <2>2. CASE NextSample(u) \/ Setup(u) \/ Test(u) \/ Send(u) \/ Teardown(u)
    BY <1>0, <2>2 DEF NextSample, Setup, Test, Send, Teardown, At, GoTo, AfterSend, Types
  <2> QED
    BY <1>3, <2>1, <2>2 DEF WorkerStep
<1> QED
  BY <1>1, <1>2, <1>3 DEF Next, RunStep, LauncherStep, BeforeCallback, StartLauncher, Receive,
       ReceiveClosed, AfterCallback, Return, Timeout, AllLaunched, CloseChannel, vars

LEMMA CallbacksStep == IInv /\ [Next]_vars => Callbacks'
<1> SUFFICES ASSUME IInv, [Next]_vars PROVE Callbacks'
  OBVIOUS
<1>0. /\ Types /\ Callbacks
      /\ BeforeAll \in Nat /\ AfterAll \in Nat
  BY ConstantsAssumption DEF IInv
<1>1. CASE RunStep \/ Timeout
  BY <1>0, <1>1 DEF Types, Callbacks, RunStep, Timeout, BeforeCallback, StartLauncher, Receive,
       ReceiveClosed, AfterCallback, Return, launcher, workers
<1>2. CASE LauncherStep
  BY <1>0, <1>2 DEF Types, Callbacks, LauncherStep, Launch, AllLaunched, CloseChannel, run, workers
<1>3. ASSUME NEW t \in testCases, WorkerStep(t) PROVE Callbacks'
  BY <1>0, <1>3 DEF Callbacks, WorkerStep, NextSample, NoMoreSamples, Setup, Test, Send, Teardown,
       At, run, launcher
<1>4. CASE UNCHANGED vars
  BY <1>0, <1>4 DEF Callbacks, vars, run, launcher, workers
<1> QED
  BY <1>1, <1>2, <1>3, <1>4 DEF Next

-----------------------------------------------------------------------------
(* The channel.                                                            *)

\* What a receive takes out is the next result of its test.
LEMMA HeadIsNext ==
    ASSUME Types, ChannelInv, ch # <<>>
    PROVE  LET r == Head(ch) IN
           /\ r \in Result /\ r.name \in testCases /\ r = ch[1]
           /\ r.n = Len(results[r.name]) + 1 /\ r.n <= Len(sent[r.name])
           /\ sent[r.name][r.n] = r
<1> DEFINE r == Head(ch)
<1>1. /\ ch \in Seq(Result) /\ 1 \in DOMAIN ch /\ r = ch[1] /\ r \in Result
      /\ \A i \in DOMAIN ch : i \in Nat /\ (i = 1 \/ 1 < i)
  BY DEF Types
<1>2. r.name \in testCases /\ r.n \in Nat
  BY <1>1 DEF Result
<1>3. Len(results[r.name]) \in Nat /\ Len(sent[r.name]) \in Nat
  BY <1>2 DEF Types
<1>4. r.n \in Underway(r.name) /\ sent[r.name][r.n] = r
  BY <1>1 DEF ChannelInv, ChannelSound
<1>5. Len(results[r.name]) + 1 \in Underway(r.name)
  BY <1>3, <1>4 DEF Underway
<1>6. PICK i \in DOMAIN ch : ch[i].name = r.name /\ ch[i].n = Len(results[r.name]) + 1
  BY <1>2, <1>5 DEF ChannelInv, ChannelComplete
<1>7. i = 1 \/ r.n < ch[i].n
  BY <1>1, <1>6 DEF ChannelInv, ChannelOrdered
<1>8. r.n = Len(results[r.name]) + 1
  BY <1>1, <1>2, <1>3, <1>4, <1>6, <1>7 DEF Underway
<1> QED
  BY <1>1, <1>2, <1>3, <1>4, <1>8 DEF Underway

LEMMA ReceiveKeepsChannel == ASSUME IInv, Receive PROVE ChannelInv'
<1> DEFINE r == Head(ch)
<1>0. Types /\ ChannelInv /\ ch # <<>>
  BY DEF IInv, Receive
<1>1. /\ r \in Result /\ r.name \in testCases /\ r = ch[1]
      /\ r.n = Len(results[r.name]) + 1 /\ r.n <= Len(sent[r.name])
      /\ sent[r.name][r.n] = r
  BY <1>0, HeadIsNext
<1>2. /\ ch \in Seq(Result) /\ ch' = Tail(ch) /\ sent' = sent /\ Len(ch) \in Nat \ {0}
      /\ DOMAIN ch = 1..Len(ch) /\ DOMAIN ch' = 1..(Len(ch) - 1)
      /\ \A i \in DOMAIN ch' : i + 1 \in DOMAIN ch /\ ch'[i] = ch[i + 1]
  BY <1>0 DEF Receive, Types, workers
<1>3. /\ results' = [results EXCEPT ![r.name] = Append(@, r)]
      /\ \A t \in testCases : results[t] \in Seq(Result) /\ sent[t] \in Seq(Result)
      /\ \A t \in testCases : Len(results[t]) \in Nat /\ Len(sent[t]) \in Nat
  BY <1>0 DEF Receive, Types
<1>4. \A t \in testCases : Len(results'[t]) = IF t = r.name THEN Len(results[t]) + 1 ELSE Len(results[t])
  BY <1>0, <1>1, <1>3 DEF Types
<1>5. ASSUME NEW i \in DOMAIN ch, i # 1
      PROVE  /\ ch[i].name \in testCases
             /\ ch[i].name = r.name => r.n < ch[i].n
             /\ ch[i].n \in Underway(ch[i].name) /\ sent[ch[i].name][ch[i].n] = ch[i]
  <2>1. 1 < i /\ 1 \in DOMAIN ch /\ ch[i] \in Result
    BY <1>2, <1>5
  <2> QED
    BY <1>0, <1>1, <2>1 DEF ChannelInv, ChannelOrdered, ChannelSound, Result
<1>6. ChannelSound'
  <2> SUFFICES ASSUME NEW i \in DOMAIN ch'
               PROVE  /\ ch'[i].n \in (Len(results'[ch'[i].name]) + 1)..Len(sent'[ch'[i].name])
                      /\ sent'[ch'[i].name][ch'[i].n] = ch'[i]
    BY DEF ChannelSound, Underway
  <2>1. i + 1 \in DOMAIN ch /\ i + 1 # 1 /\ ch'[i] = ch[i + 1]
    BY <1>2
  <2> DEFINE e == ch[i + 1]
  <2>2. /\ e.name \in testCases /\ (e.name = r.name => r.n < e.n)
        /\ e.n \in (Len(results[e.name]) + 1)..Len(sent[e.name]) /\ sent[e.name][e.n] = e
    BY <1>5, <2>1 DEF Underway
  <2> HIDE DEF e
  <2>3. Len(results[e.name]) \in Nat /\ Len(sent[e.name]) \in Nat
    BY <1>3, <2>2
  <2>4. e.n \in (Len(results'[e.name]) + 1)..Len(sent[e.name])
    <3>1. CASE e.name = r.name
      BY <1>1, <1>4, <2>2, <2>3, <3>1, SMTT(30)
    <3>2. CASE e.name # r.name
      BY <1>4, <2>2, <3>2
    <3> QED
      BY <3>1, <3>2
  <2>5. ch'[i] = e /\ sent' = sent
    BY <1>2, <2>1 DEF e
  <2> QED
    BY <2>2, <2>4, <2>5
<1>7. ChannelComplete'
  <2> SUFFICES ASSUME NEW t \in testCases, NEW k \in (Len(results'[t]) + 1)..Len(sent'[t])
               PROVE  \E i \in DOMAIN ch' : ch'[i].name = t /\ ch'[i].n = k
    BY DEF ChannelComplete, Underway
  <2>1. k \in Underway(t) /\ (t = r.name => k # r.n)
    BY <1>1, <1>2, <1>3, <1>4 DEF Underway
  <2>2. PICK j \in DOMAIN ch : ch[j].name = t /\ ch[j].n = k
    BY <1>0, <2>1 DEF ChannelInv, ChannelComplete
  <2>3. j # 1
    BY <1>1, <2>1, <2>2
  <2>4. j - 1 \in DOMAIN ch' /\ ch'[j - 1] = ch[j]
    BY <1>2, <2>3
  <2> QED
    BY <2>2, <2>4
<1>8. ChannelOrdered'
  <2> SUFFICES ASSUME NEW i \in DOMAIN ch', NEW j \in DOMAIN ch', i < j, ch'[i].name = ch'[j].name
               PROVE  ch'[i].n < ch'[j].n
    BY DEF ChannelOrdered
  <2>1. /\ i + 1 \in DOMAIN ch /\ j + 1 \in DOMAIN ch /\ i + 1 < j + 1
        /\ ch'[i] = ch[i + 1] /\ ch'[j] = ch[j + 1]
    BY <1>2
  <2> QED
    BY <1>0, <2>1 DEF ChannelInv, ChannelOrdered
<1>9. ResultsAreSent'
  <2> SUFFICES ASSUME NEW t \in testCases
               PROVE  /\ Len(results'[t]) <= Len(sent'[t])
                      /\ \A k \in 1..Len(results'[t]) : results'[t][k] = sent'[t][k]
    BY DEF ResultsAreSent
  <2>1. CASE t # r.name
    BY <1>0, <1>1, <1>2, <1>3, <2>1 DEF ChannelInv, ResultsAreSent, Types
  <2>2. CASE t = r.name
    <3>1. results'[t] = Append(results[t], r)
      BY <1>0, <1>3, <2>2 DEF Types
    <3>2. \A k \in 1..Len(results'[t]) : results'[t][k] = IF k = r.n THEN r ELSE results[t][k]
      BY <1>1, <1>3, <2>2, <3>1
    <3> QED
      BY <1>0, <1>1, <1>2, <1>3, <1>4, <2>2, <3>2 DEF ChannelInv, ResultsAreSent
  <2> QED
    BY <2>1, <2>2
<1> QED
  BY <1>6, <1>7, <1>8, <1>9 DEF ChannelInv

LEMMA SendKeepsChannel == ASSUME IInv, NEW u \in testCases, Send(u) PROVE ChannelInv'
<1> DEFINE r == NewResult(u)
           m == Len(ch) + 1
<1>0. Types /\ ChannelInv
  BY DEF IInv
<1>1. /\ r \in Result /\ r.name = u /\ r.n = Len(sent[u]) + 1 /\ Len(sent[u]) \in Nat
  BY SendMakesResult DEF Send
<1>2. /\ ch' = Append(ch, r) /\ sent' = [sent EXCEPT ![u] = Append(@, r)] /\ results' = results
  BY DEF Send, run
<1>3. /\ ch \in Seq(Result) /\ Len(ch) \in Nat /\ DOMAIN ch = 1..Len(ch) /\ DOMAIN ch' = 1..m
      /\ \A i \in DOMAIN ch : ch'[i] = ch[i] /\ ch[i] \in Result /\ ch[i].name \in testCases
      /\ ch'[m] = r
  <2>1. ch \in Seq(Result) /\ \A i \in DOMAIN ch : ch[i] \in Result
    BY <1>0 DEF Types
  <2>2. \A x \in Result : x.name \in testCases
    BY DEF Result
  <2> QED
    BY <1>1, <1>2, <2>1, <2>2
<1>4. /\ \A t \in testCases : Len(results[t]) \in Nat /\ Len(sent[t]) \in Nat /\ sent[t] \in Seq(Result)
      /\ \A t \in testCases \ {u} : sent'[t] = sent[t]
      /\ sent'[u] = Append(sent[u], r) /\ Len(sent'[u]) = Len(sent[u]) + 1
      /\ \A k \in 1..Len(sent[u]) : sent'[u][k] = sent[u][k]
      /\ sent'[u][Len(sent[u]) + 1] = r
  BY <1>0, <1>1, <1>2 DEF Types
<1>5. \A i \in DOMAIN ch :
        /\ ch[i].n \in Underway(ch[i].name) /\ sent[ch[i].name][ch[i].n] = ch[i]
        /\ ch[i].name = u => ch[i].n < r.n
  BY <1>0, <1>1, <1>3, <1>4 DEF ChannelInv, ChannelSound, Underway
<1>6. ChannelSound'
  <2> SUFFICES ASSUME NEW i \in DOMAIN ch'
               PROVE  /\ ch'[i].n \in (Len(results[ch'[i].name]) + 1)..Len(sent'[ch'[i].name])
                      /\ sent'[ch'[i].name][ch'[i].n] = ch'[i]
    BY <1>2 DEF ChannelSound, Underway
  <2>1. CASE i = m
    BY <1>0, <1>1, <1>3, <1>4, <2>1, SMTT(30) DEF ChannelInv, ResultsAreSent
  <2>2. CASE i # m
    <3>1. i \in DOMAIN ch /\ ch'[i] = ch[i]
      BY <1>3, <2>2
    <3>2. CASE ch[i].name = u
      <4>1. ch[i].n \in (Len(results[u]) + 1)..Len(sent[u]) /\ sent[u][ch[i].n] = ch[i]
        BY <1>5, <3>1, <3>2 DEF Underway
      <4>2. ch[i].n \in 1..Len(sent[u]) /\ ch[i].n \in (Len(results[u]) + 1)..Len(sent'[u])
        BY <1>4, <4>1
      <4> QED
        BY <1>4, <3>1, <3>2, <4>1, <4>2
    <3>3. CASE ch[i].name # u
      BY <1>3, <1>4, <1>5, <3>1, <3>3, SMTT(30) DEF Underway
    <3> QED
      BY <3>2, <3>3
  <2> QED
    BY <2>1, <2>2
<1>7. ChannelComplete'
  <2> SUFFICES ASSUME NEW t \in testCases, NEW k \in (Len(results[t]) + 1)..Len(sent'[t])
               PROVE  \E i \in DOMAIN ch' : ch'[i].name = t /\ ch'[i].n = k
    BY <1>2 DEF ChannelComplete, Underway
  <2>1. CASE t = u /\ k = Len(sent[u]) + 1
    BY <1>1, <1>3, <2>1
  <2>2. CASE ~(t = u /\ k = Len(sent[u]) + 1)
    <3>1. k \in Underway(t)
      BY <1>4, <2>2 DEF Underway
    <3>2. PICK j \in DOMAIN ch : ch[j].name = t /\ ch[j].n = k
      BY <1>0, <3>1 DEF ChannelInv, ChannelComplete
    <3> QED
      BY <1>3, <3>2
  <2> QED
    BY <2>1, <2>2
<1>8. ChannelOrdered'
  <2> SUFFICES ASSUME NEW i \in DOMAIN ch', NEW j \in DOMAIN ch', i < j, ch'[i].name = ch'[j].name
               PROVE  ch'[i].n < ch'[j].n
    BY DEF ChannelOrdered
  <2>1. i \in DOMAIN ch /\ ch'[i] = ch[i]
    BY <1>3
  <2>2. CASE j = m
    BY <1>1, <1>3, <1>5, <2>1, <2>2
  <2>3. CASE j # m
    BY <1>0, <1>3, <2>1, <2>3 DEF ChannelInv, ChannelOrdered
  <2> QED
    BY <2>2, <2>3
<1>9. ResultsAreSent'
  <2> SUFFICES ASSUME NEW t \in testCases
               PROVE  /\ Len(results[t]) <= Len(sent'[t])
                      /\ \A k \in 1..Len(results[t]) : results[t][k] = sent'[t][k]
    BY <1>2 DEF ResultsAreSent
  <2>1. CASE t = u
    <3>1. /\ Len(results[u]) \in Nat /\ Len(results[u]) <= Len(sent[u])
          /\ \A k \in 1..Len(results[u]) : results[u][k] = sent[u][k]
      BY <1>0, <1>4 DEF ChannelInv, ResultsAreSent
    <3>2. \A k \in 1..Len(results[u]) : k \in 1..Len(sent[u])
      BY <1>1, <3>1
    <3>3. \A k \in 1..Len(results[u]) : results[u][k] = sent'[u][k]
      BY <1>4, <3>1, <3>2
    <3>4. Len(results[u]) <= Len(sent'[u])
      BY <1>1, <1>4, <3>1
    <3> QED
      BY <2>1, <3>3, <3>4
  <2>2. CASE t # u
    BY <1>0, <1>4, <2>2 DEF ChannelInv, ResultsAreSent
  <2> QED
    BY <2>1, <2>2
<1> QED
  BY <1>6, <1>7, <1>8, <1>9 DEF ChannelInv

LEMMA ChannelStep == IInv /\ [Next]_vars => ChannelInv'
<1> SUFFICES ASSUME IInv, [Next]_vars PROVE ChannelInv'
  OBVIOUS
<1>1. CASE UNCHANGED <<ch, sent, results>>
  BY <1>1 DEF IInv, ChannelInv, ChannelSound, ChannelComplete, ChannelOrdered, ResultsAreSent, Underway
<1>2. CASE Receive
  BY <1>2, ReceiveKeepsChannel
<1>3. ASSUME NEW t \in testCases, Send(t) PROVE ChannelInv'
  BY <1>3, SendKeepsChannel
<1>4. ASSUME NEW t \in testCases,
             NextSample(t) \/ NoMoreSamples(t) \/ Setup(t) \/ Test(t) \/ Teardown(t)
      PROVE  ChannelInv'
  BY <1>1, <1>4 DEF NextSample, NoMoreSamples, Setup, Test, Teardown, run, channel
<1>5. CASE \/ BeforeCallback \/ StartLauncher \/ ReceiveClosed \/ AfterCallback \/ Return
           \/ Timeout \/ LauncherStep \/ UNCHANGED vars
  BY <1>1, <1>5 DEF BeforeCallback, StartLauncher, ReceiveClosed, AfterCallback, Return, Timeout,
       LauncherStep, Launch, AllLaunched, CloseChannel, vars, run, launcher, workers, channel
<1> QED
  BY <1>2, <1>3, <1>4, <1>5 DEF Next, RunStep, WorkerStep

-----------------------------------------------------------------------------
(* The inductive invariant and what follows from it.                       *)

LEMMA Initially == Init => IInv
<1> SUFFICES ASSUME Init PROVE IInv
  OBVIOUS
<1>1. Types
  BY TypesInit
<1>2. ChannelInv
  BY DEF Init, ChannelInv, ChannelSound, ChannelComplete, ChannelOrdered, ResultsAreSent, Underway
<1>3. Counting
  BY ConstantsAssumption DEF Init, Counting, InSample
<1>4. AtWork = {}
  BY DEF Init, AtWork
<1>5. WaitGroup
  BY <1>4, FS_EmptySet DEF Init, WaitGroup
<1>6. Callbacks
  BY ConstantsAssumption DEF Init, Callbacks
<1>7. Leftover
  BY DEF Init, Leftover
<1> QED
  BY <1>1, <1>2, <1>3, <1>5, <1>6, <1>7 DEF IInv

THEOREM Invariance == Spec => []IInv
<1>1. IInv /\ [Next]_vars => IInv'
  BY TypesStep, ChannelStep, CountingStep, LeftoverStep, WaitGroupStep,
     CallbacksStep DEF IInv
<1> QED
  BY <1>1, Initially, PTL DEF Spec

\* The results in the channel, in order of arrival, are all different.
LEMMA ChannelDistinct ==
    ASSUME IInv, NEW i \in DOMAIN ch, NEW j \in DOMAIN ch, i < j
    PROVE  <<ch[i].name, ch[i].n>> # <<ch[j].name, ch[j].n>>
<1>1. ch[i] \in Result /\ ch[j] \in Result
  BY DEF IInv, Types
<1>2. ch[i].n \in Int /\ ch[j].n \in Int
  BY <1>1, ConstantsAssumption DEF Result
<1> QED
  BY <1>2 DEF IInv, ChannelInv, ChannelOrdered

\* There is room in the channel for every result that is about to be sent,
\* for any number of tests and samples.
LEMMA RoomForEachSend == IInv => SendsNeverBlock
<1> SUFFICES ASSUME IInv, NEW t \in testCases, wpc[t] = "send" PROVE Len(ch) < Capacity
  BY DEF SendsNeverBlock
<1> DEFINE r == [name |-> t, error |-> TRUE, n |-> Len(sent[t]) + 1]
           q == Append(ch, r)
<1>0. /\ Types /\ ch \in Seq(Result) /\ Len(ch) \in Nat /\ SampleCount \in Nat
      /\ Len(sent[t]) \in Nat /\ Len(results[t]) \in Nat
  BY ConstantsAssumption DEF IInv, Types
<1>1. Len(sent[t]) + 1 <= SampleCount
  BY <1>0 DEF IInv, Types, Counting, InSample
<1>2. r \in Result
  BY <1>0, <1>1 DEF Result
<1>3. /\ q \in Seq(Result) /\ Len(q) = Len(ch) + 1 /\ DOMAIN q = 1..(Len(ch) + 1)
      /\ DOMAIN ch = 1..Len(ch)
      /\ \A i \in DOMAIN ch : q[i] = ch[i] /\ ch[i] \in Result
      /\ q[Len(ch) + 1] = r
  BY <1>0, <1>2
<1>4. \A i \in DOMAIN ch : ch[i].name = t => ch[i].n \in Int /\ ch[i].n < r.n
  BY <1>0 DEF IInv, ChannelInv, ChannelSound, Underway
<1>5. ASSUME NEW i \in DOMAIN q, NEW j \in DOMAIN q, i < j
      PROVE  <<q[i].name, q[i].n>> # <<q[j].name, q[j].n>>
  <2>1. i \in DOMAIN ch /\ q[i] = ch[i]
    BY <1>0, <1>3, <1>5
  <2>2. CASE j = Len(ch) + 1
    BY <1>0, <1>3, <1>4, <2>1, <2>2
  <2>3. CASE j # Len(ch) + 1
    BY <1>0, <1>3, <1>5, <2>1, <2>3, ChannelDistinct
  <2> QED
    BY <2>2, <2>3
<1>6. Len(q) <= Capacity
  BY <1>3, <1>5, DistinctResultsFit
<1>7. Capacity \in Int
  BY <1>0, TestCasesFinite DEF Capacity
<1> QED
  BY <1>0, <1>3, <1>6, <1>7

\* TypeOK: with room for each send the channel never holds more than fits.
LEMMA ChannelFits == IInv => Len(ch) <= Capacity
<1> SUFFICES ASSUME IInv PROVE Len(ch) <= Capacity
  OBVIOUS
<1>1. ch \in Seq(Result)
  BY DEF IInv, Types
<1> QED
  BY <1>1, ChannelDistinct, DistinctResultsFit

\* The variables stay in their types, for any number of tests.
THEOREM TypeCorrect == Spec => []TypeOK
<1>1. ASSUME IInv PROVE TypeOK
  <2>1. Sent = Seq(Result)
    BY DEF Sent, Result
  <2>2. wg \in 0..Cardinality(testCases)
    <3>1. AtWork \in SUBSET testCases
      BY DEF AtWork
    <3>2. wg = Cardinality(AtWork) /\ Cardinality(AtWork) <= Cardinality(testCases)
      BY <1>1, <3>1, TestCasesFinite, FS_Subset DEF IInv, WaitGroup
    <3>3. Cardinality(AtWork) \in Nat
      BY AtWorkFinite, FS_CardinalityType
    <3> QED
      BY <3>2, <3>3, TestCasesFinite
  <2> QED
    BY <1>1, <2>1, <2>2, ChannelFits DEF IInv, Types, TypeOK
<1> QED
  BY <1>1, Invariance, PTL

\* No goroutine ever waits to send its result: the channel has room for all
\* samples of all tests, whether or not Run still receives.
THEOREM SendsHaveRoom == Spec => []SendsNeverBlock
BY Invariance, RoomForEachSend, PTL

\* Nobody sends on the closed channel, which would be a panic: the launcher
\* closes it when the wait group is back at zero, and by then all are done.
THEOREM NoSendAfterClose == Spec => []ClosedAfterLastSend
<1>1. ASSUME IInv PROVE ClosedAfterLastSend
  <2> SUFFICES ASSUME closed, NEW t \in testCases PROVE wpc[t] = "done"
    BY DEF ClosedAfterLastSend
  <2>1. wpc[t] \in {"none", "done"}
    BY <1>1 DEF IInv, WaitGroup, AtWork
  <2>2. wpc[t] # "none"
    BY <1>1 DEF IInv, WaitGroup
  <2> QED
    BY <2>1, <2>2
<1> QED
  BY <1>1, Invariance, PTL

-----------------------------------------------------------------------------
(* Run implements its contract.                                            *)

LEMMA ContractInit == Init => Contract!Init
BY DEF Init, Contract!Init, status

LEMMA StepsOfTests ==
    ASSUME IInv, NEW t \in testCases, WorkerStep(t)
    PROVE  Contract!Produce(t) \/ Contract!Skip(t) \/ UNCHANGED Contract!vars
<1>0. /\ Types /\ pc # "exited" /\ UNCHANGED <<pc, timedOut, results>> /\ status' = status
      /\ Len(sent[t]) \in Nat /\ skipped[t] \in Nat /\ left[t] \in Nat /\ SampleCount \in Nat
  BY ConstantsAssumption DEF IInv, Types, WorkerStep, NextSample, NoMoreSamples, Setup, Test, Send,
       Teardown, At, Alive, run, status
<1>1. status # "exited"
  BY <1>0 DEF status
<1>2. wpc[t] \in {"setup", "send"} => Contract!Taken(t) < SampleCount
  BY <1>0 DEF IInv, Counting, InSample, Contract!Taken
<1>3. CASE Send(t)
  <2>1. sent' = [sent EXCEPT ![t] = Append(@, [name |-> t, error |-> outcome[t].text = "some",
                                               n |-> Len(@) + 1])]
    BY <1>0, <1>3 DEF Send, NewResult, Types
  <2>2. (outcome[t].text = "some") \in BOOLEAN
    OBVIOUS
  <2> QED
    BY <1>0, <1>1, <1>2, <1>3, <2>1, <2>2 DEF Send, At, Contract!Produce
<1>4. CASE Setup(t)
  BY <1>0, <1>1, <1>2, <1>4 DEF Setup, At, Contract!Skip, Contract!vars
<1>5. CASE NextSample(t) \/ NoMoreSamples(t) \/ Test(t) \/ Teardown(t)
  BY <1>0, <1>5 DEF NextSample, NoMoreSamples, Test, Teardown, Contract!vars
<1> QED
  BY <1>3, <1>4, <1>5 DEF WorkerStep

LEMMA ReceiveCollects ==
    ASSUME IInv, Receive
    PROVE  \E t \in testCases : Contract!Collect(t)
<1> DEFINE r == Head(ch)
<1>0. Types /\ ChannelInv /\ ch # <<>>
  BY DEF IInv, Receive
<1>1. /\ r.name \in testCases /\ r.n = Len(results[r.name]) + 1 /\ r.n <= Len(sent[r.name])
      /\ sent[r.name][r.n] = r
  BY <1>0, HeadIsNext
<1>2. Len(results[r.name]) \in Nat /\ Len(sent[r.name]) \in Nat
  BY <1>0, <1>1 DEF Types
<1>3. results' = [results EXCEPT ![r.name] = Append(@, sent[r.name][Len(@) + 1])]
  BY <1>0, <1>1 DEF Receive, Types
<1>4. status = "running" /\ status' = "running" /\ UNCHANGED <<sent, skipped>>
  BY DEF Receive, status, workers
<1>5. Len(results[r.name]) < Len(sent[r.name])
  BY <1>1, <1>2
<1> QED
  BY <1>1, <1>3, <1>4, <1>5 DEF Contract!Collect

\* A closed and empty channel means that every result has been received.
LEMMA ClosedIsComplete == ASSUME IInv, ReceiveClosed PROVE Contract!Complete
<1>0. Types /\ ChannelInv /\ ch = <<>> /\ closed
  BY DEF IInv, ReceiveClosed
<1>1. ASSUME NEW t \in testCases
      PROVE  results[t] = sent[t] /\ Len(sent[t]) + skipped[t] = SampleCount
  <2>1. /\ results[t] \in Seq(Result) /\ sent[t] \in Seq(Result)
        /\ Len(results[t]) \in Nat /\ Len(sent[t]) \in Nat
        /\ skipped[t] \in Nat /\ left[t] \in Nat /\ SampleCount \in Nat
    BY <1>0, ConstantsAssumption DEF Types
  <2>2. Underway(t) = {}
    BY <1>0 DEF ChannelInv, ChannelComplete
  <2>3. Len(results[t]) = Len(sent[t])
    <3>1. ~(Len(results[t]) < Len(sent[t]))
      <4>1. Len(results[t]) < Len(sent[t]) => Len(sent[t]) \in Underway(t)
        BY <2>1 DEF Underway
      <4> QED
        BY <2>2, <4>1
    <3> QED
      BY <1>0, <2>1, <3>1 DEF ChannelInv, ResultsAreSent
  <2>4. results[t] = sent[t]
    <3>1. /\ results[t] = [k \in 1..Len(results[t]) |-> results[t][k]]
          /\ sent[t] = [k \in 1..Len(sent[t]) |-> sent[t][k]]
      BY <2>1
    <3>2. \A k \in 1..Len(results[t]) : results[t][k] = sent[t][k]
      BY <1>0 DEF ChannelInv, ResultsAreSent
    <3> QED
      BY <2>3, <3>1, <3>2
  <2>5. wpc[t] = "done"
    BY <1>0 DEF IInv, WaitGroup, AtWork
  <2>6. left[t] = 0
    BY <2>5 DEF IInv, Leftover
  <2> QED
    BY <2>1, <2>4, <2>5, <2>6 DEF IInv, Counting, InSample
<1>2. results = sent
  BY <1>0, <1>1 DEF Types
<1>3. \A t \in testCases : Contract!Taken(t) = SampleCount
  BY <1>1 DEF Contract!Taken
<1>4. status = "running" /\ status' = "complete" /\ UNCHANGED <<sent, skipped, results>>
  <2>1. pc = "collect" /\ pc' = "after" /\ timedOut' = timedOut
    BY DEF ReceiveClosed
  <2>2. ~timedOut
    BY <2>1 DEF IInv, Callbacks
  <2> QED
    BY <2>1, <2>2 DEF status, ReceiveClosed, workers
<1> QED
  BY <1>2, <1>3, <1>4 DEF Contract!Complete

LEMMA ContractStep == IInv /\ [Next]_vars => [Contract!Next]_Contract!vars
<1> SUFFICES ASSUME IInv, [Next]_vars PROVE Contract!Next \/ UNCHANGED Contract!vars
  OBVIOUS
<1>0. Types
  BY DEF IInv
<1>1. ASSUME NEW t \in testCases, WorkerStep(t) PROVE Contract!Next \/ UNCHANGED Contract!vars
  BY <1>1, StepsOfTests DEF Contract!Next
<1>2. CASE Receive
  BY <1>2, ReceiveCollects DEF Contract!Next
<1>3. CASE ReceiveClosed
  BY <1>3, ClosedIsComplete DEF Contract!Next
<1>4. CASE Timeout
  <2>1. status = "running" /\ status' = "partial" /\ UNCHANGED <<sent, skipped, results>>
    BY <1>4 DEF Timeout, status, workers
  <2> QED
    BY <2>1 DEF Contract!Next, Contract!Partial
<1>5. CASE BeforeCallback \/ AfterCallback
  <2>1. UNCHANGED <<sent, skipped, results>> /\ (status' = status \/ (status # "exited" /\ status' = "exited"))
    BY <1>5 DEF BeforeCallback, AfterCallback, status, workers
  <2> QED
    BY <2>1 DEF Contract!Next, Contract!Exit, Contract!vars
<1>6. CASE StartLauncher \/ Return \/ LauncherStep \/ UNCHANGED vars
  BY <1>6 DEF StartLauncher, Return, LauncherStep, Launch, AllLaunched, CloseChannel, status,
       vars, run, workers, Contract!vars
<1> QED
  BY <1>1, <1>2, <1>3, <1>4, <1>5, <1>6 DEF Next, RunStep

\* Run implements TestRunContract, but for its liveness: results reach the
\* caller once, in order, all of them unless a timeout is reported, for any
\* number of tests, labels, samples and callbacks.
THEOREM ImplementsTestRunContract == Spec => Contract!SafeSpec
BY ContractInit, ContractStep, Invariance, PTL DEF Spec, Contract!SafeSpec

=============================================================================
