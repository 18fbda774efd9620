------------------------- MODULE ContinuousRunProofs -------------------------
(***************************************************************************)
(* Proofs about TestRegistration and ContinuousRun, for any suites,        *)
(* specifications and tests, and any number of calls.                      *)
(***************************************************************************)
EXTENDS ContinuousRun, SequenceTheorems, TLAPS

\* The provers do not know that "all" is a string.
Labels == STRING \cup {"all"}

RegistryTyped ==
    /\ ended \in BOOLEAN /\ calls \in 0..MaxCalls
    /\ builtFrom \in [Suites -> Specs \cup {None}]
    /\ tests \in [Suites -> Maps \cup {NoMap}]
    /\ entries \in [Maps -> SUBSET (Labels \X Cases)]
    /\ before \in [Suites -> Nat] /\ after \in [Suites -> Nat]
    /\ added \in [Suites -> SUBSET Cases]

\* A suite has the map of its specification, or one of its own, which is empty
\* until the suite refers to it.
Referenced ==
    \A s \in Suites :
        /\ tests[s] \in Specs => tests[s] = builtFrom[s] /\ Given[tests[s]] # NoMap
        /\ tests[s] \in Suites => tests[s] = s /\ Given[builtFrom[s]] = NoMap
        /\ builtFrom[s] = None => tests[s] = NoMap
        /\ tests[s] = NoMap => added[s] = {} /\ entries[s] = {}
        /\ tests[s] = NoMap /\ builtFrom[s] # None => Given[builtFrom[s]] = NoMap
        /\ tests[s] \in Specs => entries[s] = {}

\* The maps that Given can be at odds with are left out.
Sound(m) == m \in Suites \/ Given[m] = NoMap \/ Coherent(Given[m])

Agreeing(m) ==
    /\ \A e \in m : e[2].name # ErrorTest => <<"all", e[2]>> \in m
    /\ \A d, e \in m : d[2].name = e[2].name /\ d[2].name # ErrorTest => d[2] = e[2]

MapsAgree == \A m \in Maps : Sound(m) => Agreeing(entries[m])

\* What "all" selects of a map, and what has been put there.
UnderAll(m) == {e[2] : e \in {f \in m : f[1] = "all"}}

AddedTo(m) == UNION {added[u] : u \in {v \in Suites : tests[v] = m}}

ForAll(c) == c.name # ErrorTest \/ "all" \in {c.labels[i] : i \in DOMAIN c.labels}

AllKept ==
    \A m \in Maps :
        /\ m \in Suites =>
              UnderAll(entries[m]) = {c \in AddedTo(m) : ForAll(c)}
        /\ m \in Specs /\ Given[m] # NoMap =>
              UnderAll(entries[m]) = UnderAll(Given[m]) \cup {c \in AddedTo(m) : ForAll(c)}

MapsKeyed == \A m \in Maps : OnePerKey(entries[m])

RegistryInv == RegistryTyped /\ Referenced /\ MapsAgree /\ AllKept /\ MapsKeyed

-----------------------------------------------------------------------------
(* Registration.                                                           *)

LEMMA PlacesOf ==
    ASSUME NEW c \in Cases
    PROVE  /\ \A i \in DOMAIN Places(c) : Places(c)[i] \in Labels
           /\ (\E i \in DOMAIN Places(c) : Places(c)[i] = "all") <=> ForAll(c)
<1>1. c.labels \in Seq(STRING)
  BY RegistrationAssumption
<1>2. CASE c.name = ErrorTest
  BY <1>1, <1>2, ElementOfSeq DEF Places, ForAll, Labels
<1>3. CASE c.name # ErrorTest
  <2> DEFINE p == <<"all">> \o c.labels
  <2>1. <<"all">> \in Seq(Labels) /\ c.labels \in Seq(Labels)
    BY <1>1, SeqMonotonic DEF Labels
  <2>2. p \in Seq(Labels) /\ Len(p) = 1 + Len(c.labels) /\ p[1] = "all" /\ Len(c.labels) \in Nat
    BY <1>1, <2>1
  <2> HIDE DEF p
  <2>3. \A i \in DOMAIN p : p[i] \in Labels
    BY <2>2, ElementOfSeq
  <2>4. 1 \in DOMAIN p
    BY <2>2
  <2>5. Places(c) = p
    BY <1>3 DEF Places, p
  <2> QED BY <1>3, <2>2, <2>3, <2>4, <2>5 DEF ForAll
<1> QED BY <1>2, <1>3

\* What a test that is not refused does to the map it is put into: nothing
\* that is in the map gives way.
LEMMA AddGrows ==
    ASSUME RegistryInv, NEW s \in Suites, NEW c \in Cases, Add(s, c)
    PROVE  \E m \in Maps :
              LET put == {<<Places(c)[i], c>> : i \in DOMAIN Places(c)}
              IN  /\ m = IF tests[s] = NoMap THEN s ELSE tests[s]
                  /\ tests' = [tests EXCEPT ![s] = m]
                  /\ entries[m] = Contents(s)
                  /\ entries' = [entries EXCEPT ![m] = entries[m] \cup put]
                  /\ \A i \in DOMAIN Places(c) : ~Has(entries[m], Places(c)[i], c.name)
                  /\ ~Has(entries[m], "all", c.name)
<1> DEFINE m == IF tests[s] = NoMap THEN s ELSE tests[s]
           put == {<<Places(c)[i], c>> : i \in DOMAIN Places(c)}
<1>1. m \in Maps
  BY DEF RegistryInv, RegistryTyped, Maps
<1>2. entries[m] = Contents(s)
  BY DEF RegistryInv, Referenced, Contents
<1>3. /\ \A i \in DOMAIN Places(c) : ~Has(entries[m], Places(c)[i], c.name)
      /\ ~Has(entries[m], "all", c.name)
  BY <1>2 DEF Add, Refused
<1>4. /\ tests' = [tests EXCEPT ![s] = m]
      /\ entries' = [entries EXCEPT ![m] =
            {e \in @ : \A p \in put : e[1] # p[1] \/ e[2].name # c.name} \cup put]
  BY DEF Add
<1>5. {e \in entries[m] : \A p \in put : e[1] # p[1] \/ e[2].name # c.name} = entries[m]
  BY <1>3 DEF Has
<1>6. entries' = [entries EXCEPT ![m] = entries[m] \cup put]
  BY <1>1, <1>4, <1>5 DEF RegistryInv, RegistryTyped
<1> HIDE DEF put
<1> QED BY <1>1, <1>2, <1>3, <1>4, <1>6 DEF put

\* A suite that refers to no map was built from a specification without one,
\* if it was built at all.
LEMMA NewMapIsOwn ==
    ASSUME RegistryInv, NEW s \in Suites, tests[s] = NoMap, builtFrom[s] # None
    PROVE  Given[builtFrom[s]] = NoMap
BY DEF RegistryInv, Referenced

LEMMA RegistryStarts == RegistryInit => RegistryInv
<1> SUFFICES ASSUME RegistryInit PROVE RegistryInv
  OBVIOUS
<1> USE RegistrationAssumption DEF RegistryInit, Maps
<1>1. RegistryTyped
  <2>1. entries \in [Maps -> SUBSET (Labels \X Cases)]
    BY DEF Labels
  <2>2. ended \in BOOLEAN
    OBVIOUS
  <2>5. calls \in 0..MaxCalls
    OBVIOUS
  <2>3. builtFrom \in [Suites -> Specs \cup {None}] /\ tests \in [Suites -> Maps \cup {NoMap}]
    OBVIOUS
  <2>4. /\ before \in [Suites -> Nat] /\ after \in [Suites -> Nat]
        /\ added \in [Suites -> SUBSET Cases]
    OBVIOUS
  <2> QED BY <2>1, <2>2, <2>3, <2>4, <2>5 DEF RegistryTyped
<1>2. Referenced
  BY DEF Referenced
<1>3. \A m \in Maps : entries[m] = IF m \in Specs /\ Given[m] # NoMap THEN Given[m] ELSE {}
  OBVIOUS
<1>4. MapsAgree
  BY <1>3 DEF MapsAgree, Agreeing, Sound, Coherent
<1>5. \A m \in Maps : AddedTo(m) = {}
  BY DEF AddedTo
<1>6. AllKept
  BY <1>3, <1>5 DEF AllKept, UnderAll
<1>7. MapsKeyed
  BY <1>3 DEF MapsKeyed, OnePerKey
<1> QED BY <1>1, <1>2, <1>4, <1>6, <1>7 DEF RegistryInv

LEMMA BuildKeeps ==
    ASSUME RegistryInv, NEW s \in Suites, NEW spec \in Specs, BuildTestSuite(s, spec)
    PROVE  RegistryInv'
<1> USE RegistrationAssumption DEF RegistryInv, RegistryTyped, BuildTestSuite, Maps
<1>1. RegistryTyped'
  OBVIOUS
<1>2. tests[s] = NoMap /\ added[s] = {} /\ entries[s] = {}
  BY DEF Referenced
<1>3. Referenced'
  BY <1>2 DEF Referenced
<1>4. MapsAgree'
  BY DEF MapsAgree
<1>5. \A m \in Maps : AddedTo(m)' = AddedTo(m)
  <2> SUFFICES ASSUME NEW m \in Maps PROVE AddedTo(m)' = AddedTo(m)
    OBVIOUS
  <2>1. \A u \in Suites : u # s => tests'[u] = tests[u]
    OBVIOUS
  <2>2. tests[s] # m
    BY <1>2
  <2> QED BY <1>2, <2>1, <2>2 DEF AddedTo
<1>6. AllKept'
  BY <1>5 DEF AllKept
<1>7. MapsKeyed'
  BY DEF MapsKeyed
<1> QED BY <1>1, <1>3, <1>4, <1>6, <1>7

LEMMA AddKeeps ==
    ASSUME RegistryInv, NEW s \in Suites, NEW c \in Cases, Add(s, c)
    PROVE  RegistryInv'
<1> DEFINE put == {<<Places(c)[i], c>> : i \in DOMAIN Places(c)}
<1>1. PICK m \in Maps :
          /\ m = IF tests[s] = NoMap THEN s ELSE tests[s]
          /\ tests' = [tests EXCEPT ![s] = m]
          /\ entries' = [entries EXCEPT ![m] = entries[m] \cup put]
          /\ \A i \in DOMAIN Places(c) : ~Has(entries[m], Places(c)[i], c.name)
          /\ ~Has(entries[m], "all", c.name)
  BY AddGrows
<1>2. /\ ended' = ended /\ builtFrom' = builtFrom /\ before' = before /\ after' = after
      /\ added' = [added EXCEPT ![s] = @ \cup {c}] /\ calls' = calls + 1 /\ calls < MaxCalls
      /\ builtFrom[s] # None
  BY DEF Add, Counted, Built
<1>3. put \in SUBSET (Labels \X Cases)
  BY PlacesOf
<1>4. \A p \in put : p[2] = c /\ ~Has(entries[m], p[1], c.name)
  BY <1>1
<1>5. ForAll(c) <=> <<"all", c>> \in put
  BY PlacesOf
<1>6. c.name # ErrorTest => <<"all", c>> \in put
  BY <1>5 DEF ForAll
<1>7. \A d, e \in put : d[1] = e[1] => d = e
  OBVIOUS
<1>14. (\E p \in put : p[1] = "all") => ForAll(c)
  BY PlacesOf
<1> HIDE DEF put
<1>8. /\ entries'[m] = entries[m] \cup put
      /\ \A n \in Maps : n # m => entries'[n] = entries[n]
  BY <1>1 DEF RegistryInv, RegistryTyped
<1>9. RegistryTyped'
  BY RegistrationAssumption, <1>1, <1>2, <1>3, <1>8 DEF RegistryInv, RegistryTyped
<1>10. Referenced'
  <2> SUFFICES ASSUME NEW u \in Suites
               PROVE  /\ tests'[u] \in Specs => tests'[u] = builtFrom'[u] /\ Given[tests'[u]] # NoMap
                      /\ tests'[u] \in Suites => tests'[u] = u /\ Given[builtFrom'[u]] = NoMap
                      /\ builtFrom'[u] = None => tests'[u] = NoMap
                      /\ tests'[u] = NoMap => added'[u] = {} /\ entries'[u] = {}
                      /\ tests'[u] = NoMap /\ builtFrom'[u] # None =>
                            Given[builtFrom'[u]] = NoMap
                      /\ tests'[u] \in Specs => entries'[u] = {}
    BY DEF Referenced
  <2>1. m = tests[s] \/ (m = s /\ tests[s] = NoMap /\ Given[builtFrom[s]] = NoMap)
    BY <1>1, <1>2, NewMapIsOwn
  <2>2. CASE u = s
    BY <1>1, <1>2, <1>8, <2>1, <2>2, RegistrationAssumption DEF RegistryInv, RegistryTyped, Referenced, Maps
  <2>3. CASE u # s
    <3>1. m # u \/ tests[u] = u
      BY <2>1, <2>3, RegistrationAssumption DEF RegistryInv, RegistryTyped, Referenced, Maps
    <3> QED BY <1>1, <1>2, <1>8, <2>3, <3>1, RegistrationAssumption DEF RegistryInv, RegistryTyped, Referenced, Maps
  <2> QED BY <2>2, <2>3
<1>11. MapsAgree'
  <2> SUFFICES ASSUME NEW n \in Maps, Sound(n) PROVE Agreeing(entries'[n])
    BY DEF MapsAgree, Sound
  <2>1. Agreeing(entries[n])
    BY DEF RegistryInv, MapsAgree
  <2>2. CASE n = m
    <3>1. \A e \in entries[m] : e[2].name # ErrorTest => e[2].name # c.name
      BY <1>1, <2>1, <2>2 DEF Agreeing, Has
    <3> QED BY <1>4, <1>6, <1>8, <2>1, <2>2, <3>1 DEF Agreeing
  <2> QED BY <1>8, <2>1, <2>2
<1>12. AllKept'
  <2>1. AddedTo(m)' = AddedTo(m) \cup {c}
    <3>1. \A u \in Suites \ {s} : added'[u] = added[u] /\ tests'[u] = tests[u]
      BY <1>1, <1>2 DEF RegistryInv, RegistryTyped
    <3>2. added'[s] = added[s] \cup {c} /\ tests'[s] = m
      BY <1>1, <1>2 DEF RegistryInv, RegistryTyped
    <3>3. tests[s] = m \/ added[s] = {}
      BY <1>1 DEF RegistryInv, Referenced
    <3>4. \A d : d \in AddedTo(m)' <=> \E u \in Suites : tests'[u] = m /\ d \in added'[u]
      BY DEF AddedTo
    <3>5. \A d : d \in AddedTo(m) <=> \E u \in Suites : tests[u] = m /\ d \in added[u]
      BY DEF AddedTo
    <3> QED BY <3>1, <3>2, <3>3, <3>4, <3>5
  <2>2. \A n \in Maps : n # m => AddedTo(n)' = AddedTo(n)
    BY <1>1, <1>2, RegistrationAssumption DEF AddedTo, RegistryInv, RegistryTyped, Maps
  <2>3. UnderAll(entries'[m]) = UnderAll(entries[m]) \cup (IF ForAll(c) THEN {c} ELSE {})
    <3>1. \A d : d \in UnderAll(entries'[m]) <=> \E e \in entries'[m] : e[1] = "all" /\ d = e[2]
      BY DEF UnderAll
    <3>2. \A d : d \in UnderAll(entries[m]) <=> \E e \in entries[m] : e[1] = "all" /\ d = e[2]
      BY DEF UnderAll
    <3>3. ForAll(c) => \E e \in put : e[1] = "all" /\ e[2] = c
      BY <1>5
    <3>4. (\E e \in put : e[1] = "all") => ForAll(c)
      BY <1>14
    <3>5. \A d : d \in UnderAll(entries'[m]) <=>
                d \in UnderAll(entries[m]) \/ (ForAll(c) /\ d = c)
      <4>1. \A e : e \in entries'[m] <=> e \in entries[m] \/ e \in put
        BY <1>8
      <4>2. \A e \in put : e[2] = c
        BY <1>4
      <4> SUFFICES ASSUME NEW d
                   PROVE  d \in UnderAll(entries'[m]) <=>
                            d \in UnderAll(entries[m]) \/ (ForAll(c) /\ d = c)
        OBVIOUS
      <4>3. ASSUME d \in UnderAll(entries'[m]) PROVE d \in UnderAll(entries[m]) \/ (ForAll(c) /\ d = c)
        <5>1. PICK e \in entries'[m] : e[1] = "all" /\ d = e[2]
          BY <3>1, <4>3
        <5>2. CASE e \in entries[m]
          BY <3>2, <5>1, <5>2
        <5>3. CASE e \in put
          BY <3>4, <4>2, <5>1, <5>3
        <5> QED BY <4>1, <5>2, <5>3
      <4>4. ASSUME d \in UnderAll(entries[m]) PROVE d \in UnderAll(entries'[m])
        BY <3>1, <3>2, <4>1, <4>4
      <4>5. ASSUME ForAll(c) PROVE c \in UnderAll(entries'[m])
        BY <3>1, <3>3, <4>1, <4>5
      <4> QED BY <4>3, <4>4, <4>5
    <3> QED BY <3>5
  <2>4. \A n \in Maps : n # m => UnderAll(entries'[n]) = UnderAll(entries[n])
    BY <1>8
  <2>5. AllKept
    BY DEF RegistryInv
  <2> SUFFICES ASSUME NEW n \in Maps
               PROVE  /\ n \in Suites =>
                            UnderAll(entries'[n]) = {d \in AddedTo(n)' : ForAll(d)}
                      /\ n \in Specs /\ Given[n] # NoMap =>
                            UnderAll(entries'[n])
                              = UnderAll(Given[n]) \cup {d \in AddedTo(n)' : ForAll(d)}
    BY DEF AllKept
  <2>6. CASE n = m
    BY <2>1, <2>3, <2>5, <2>6 DEF AllKept
  <2>7. CASE n # m
    BY <2>2, <2>4, <2>5, <2>7 DEF AllKept
  <2> QED BY <2>6, <2>7
<1>13. MapsKeyed'
  <2>1. \A n \in Maps : OnePerKey(entries[n])
    BY DEF RegistryInv, MapsKeyed
  <2>2. OnePerKey(entries'[m])
    BY <1>4, <1>7, <1>8, <2>1 DEF OnePerKey, Has
  <2> QED BY <1>8, <2>1, <2>2 DEF MapsKeyed
<1> QED BY <1>9, <1>10, <1>11, <1>12, <1>13 DEF RegistryInv

LEMMA RegisterKeeps == RegistryInv /\ Register => RegistryInv'
<1> SUFFICES ASSUME RegistryInv, Register PROVE RegistryInv'
  OBVIOUS
<1>1. PICK s \in Suites :
          \/ \E spec \in Specs : BuildTestSuite(s, spec)
          \/ \E c \in Cases : Add(s, c) \/ AddFatal(s, c)
          \/ AddBeforeSuite(s) \/ AddAfterSuite(s)
  BY DEF Register
<1>2. ASSUME UNCHANGED <<builtFrom, tests, entries, added>>, RegistryTyped'
      PROVE  RegistryInv'
  <2>1. \A m : AddedTo(m)' = AddedTo(m)
    BY <1>2 DEF AddedTo
  <2>2. Referenced' /\ MapsAgree' /\ AllKept' /\ MapsKeyed'
    BY <1>2, <2>1 DEF RegistryInv, Referenced, MapsAgree, AllKept, MapsKeyed
  <2> QED BY <1>2, <2>2 DEF RegistryInv
<1>3. CASE \E spec \in Specs : BuildTestSuite(s, spec)
  BY <1>3, BuildKeeps
<1>4. CASE \E c \in Cases : Add(s, c)
  BY <1>4, AddKeeps
<1>5. CASE \E c \in Cases : AddFatal(s, c)
  BY <1>2, <1>5 DEF AddFatal, registry, RegistryInv, RegistryTyped
<1>6. CASE AddBeforeSuite(s) \/ AddAfterSuite(s)
  <2>1. RegistryTyped /\ MaxCalls \in Nat
    BY RegistrationAssumption DEF RegistryInv
  <2>2. UNCHANGED <<builtFrom, tests, entries, added>> /\ ended' = ended
    BY <1>6 DEF AddBeforeSuite, AddAfterSuite
  <2>3. calls' \in 0..MaxCalls
    BY <1>6, <2>1 DEF AddBeforeSuite, AddAfterSuite, Counted, RegistryTyped
  <2>4. before' \in [Suites -> Nat] /\ after' \in [Suites -> Nat]
    BY <1>6, <2>1 DEF AddBeforeSuite, AddAfterSuite, RegistryTyped
  <2>5. RegistryTyped'
    BY <2>1, <2>2, <2>3, <2>4 DEF RegistryTyped
  <2> QED BY <1>2, <2>2, <2>5
<1> QED BY <1>1, <1>3, <1>4, <1>5, <1>6

LEMMA RegistryStill ==
    ASSUME RegistryInv, UNCHANGED registry, ended' \in BOOLEAN
    PROVE  RegistryInv'
<1>1. \A m : AddedTo(m)' = AddedTo(m)
  BY DEF AddedTo, registry
<1>2. RegistryTyped' /\ Referenced' /\ MapsAgree' /\ AllKept' /\ MapsKeyed'
  BY <1>1 DEF RegistryInv, RegistryTyped, Referenced, MapsAgree, AllKept, MapsKeyed, registry
<1> QED BY <1>2 DEF RegistryInv

-----------------------------------------------------------------------------
(* The run.                                                                *)

Names == {c.name : c \in Cases}

Stations == {"none", "setup", "test", "sendError", "sendResult", "teardown", "done"}

RunTyped ==
    /\ suite \in Suites \cup {None} /\ testCases \subseteq Cases /\ room \in Nat
    /\ pc \in {"idle", "before", "after", "returned"} /\ callback \in Nat
    /\ pc # "idle" => suite \in Suites
    /\ launched \in BOOLEAN /\ receiving \in BOOLEAN
    /\ wpc \in [testCases -> Stations]
    /\ ch \in Seq(Names) /\ received \in Seq(Names)

WellTyped == RegistryTyped /\ RunTyped

\* Nothing is selected or sent before the call.
NothingYet == pc = "idle" => testCases = {} /\ ch = <<>> /\ received = <<>>

\* The tests selected have names of their own.
OneTestPerResult == \A t, u \in testCases : t.name = u.name => t = u

WithinRoom == Len(ch) <= room

RunInv ==
    /\ RunTyped /\ NothingYet /\ OneTestPerResult /\ WithinRoom
    /\ OneResultPerTest

\* Of tests of one name, Flattened takes the one under the first label.
LEMMA FlattenedDistinct ==
    ASSUME NEW s \in Suites, NEW labels \in Seq(STRING), OnePerKey(Contents(s)),
           NEW c \in Flattened(s, labels), NEW d \in Flattened(s, labels), c.name = d.name
    PROVE  c = d
<1>1. PICK i \in DOMAIN labels :
          /\ <<labels[i], c>> \in Contents(s)
          /\ \A j \in 1..(i - 1) : ~Has(Contents(s), labels[j], c.name)
  BY DEF Flattened
<1>2. PICK j \in DOMAIN labels :
          /\ <<labels[j], d>> \in Contents(s)
          /\ \A k \in 1..(j - 1) : ~Has(Contents(s), labels[k], d.name)
  BY DEF Flattened
<1>3. i \in Nat \ {0} /\ j \in Nat \ {0}
  OBVIOUS
<1>4. Has(Contents(s), labels[i], d.name) /\ Has(Contents(s), labels[j], c.name)
  BY <1>1, <1>2 DEF Has
<1>5. ~(j < i) /\ ~(i < j)
  BY <1>1, <1>2, <1>3, <1>4
<1>6. i = j
  BY <1>3, <1>5
<1> QED BY <1>1, <1>2, <1>6 DEF OnePerKey

LEMMA ContentsKeyed ==
    ASSUME RegistryInv, NEW s \in Suites
    PROVE  OnePerKey(Contents(s))
BY DEF RegistryInv, RegistryTyped, MapsKeyed, Contents, OnePerKey

\* A step that only moves goroutines that have not sent yet, or have, to where
\* that is still so, keeps what has been said of the results.
LEMMA ResultsStay ==
    ASSUME RunInv, RunTyped', UNCHANGED <<testCases, ch, received, room>>, pc' = "idle" => pc = "idle",
           \A t \in testCases : wpc[t] \in {"teardown", "done"} => wpc'[t] \in {"teardown", "done"}
    PROVE  RunInv'
<1>1. NothingYet' /\ OneTestPerResult' /\ WithinRoom'
  BY DEF RunInv, NothingYet, OneTestPerResult, WithinRoom
<1>2. OneResultPerTest'
  BY DEF RunInv, OneResultPerTest
<1> QED BY <1>1, <1>2 DEF RunInv

\* A test whose goroutine is about to send has sent nothing: its name joins
\* the results of the others.
LEMMA ResultJoins ==
    ASSUME RunInv, NEW t \in testCases, wpc[t] \in {"sendError", "sendResult"},
           wpc'[t] \in {"teardown", "done"}, \A u \in testCases : u # t => wpc'[u] = wpc[u],
           testCases' = testCases, received' \o ch' = Append(received \o ch, t.name)
    PROVE  OneResultPerTest'
<1> DEFINE all == received \o ch
           n == Len(all)
<1>1. all \in Seq(Names) /\ t.name \in Names /\ n \in Nat
  BY DEF RunInv, RunTyped, Names
<1>2. PICK a : a = Append(all, t.name)
  OBVIOUS
<1>3. Len(a) = n + 1 /\ a[n + 1] = t.name /\ \A i \in 1..n : a[i] = all[i]
  BY <1>1, <1>2
<1>4. /\ \A i, j \in 1..n : all[i] = all[j] => i = j
      /\ \A i \in 1..n : \E u \in testCases : u.name = all[i] /\ wpc[u] \in {"teardown", "done"}
  BY DEF RunInv, OneResultPerTest
<1>5. \A i \in 1..n : all[i] # t.name
  <2> SUFFICES ASSUME NEW i \in 1..n, all[i] = t.name PROVE FALSE
    OBVIOUS
  <2>1. PICK u \in testCases : u.name = all[i] /\ wpc[u] \in {"teardown", "done"}
    BY <1>4
  <2>2. u = t
    BY <2>1 DEF RunInv, OneTestPerResult
  <2> QED BY <2>1, <2>2
<1>6. PICK k : k = n /\ k \in Nat
  BY <1>1
<1>7. PICK b : b = all
  OBVIOUS
<1>8. received' \o ch' = a
  BY <1>2
<1> HIDE DEF all, n
<1>9. \A i, j \in 1..Len(a) : a[i] = a[j] => i = j
  <2>1. \A i, j \in 1..k : a[i] = a[j] => i = j
    BY <1>3, <1>4, <1>6
  <2>2. \A i \in 1..k : a[i] # a[k + 1]
    BY <1>3, <1>5, <1>6
  <2>3. \A i \in 1..(k + 1) : i \in 1..k \/ i = k + 1
    BY <1>6
  <2> QED BY <1>3, <1>6, <2>1, <2>2, <2>3
<1>10. \A i \in 1..Len(a) : \E u \in testCases : u.name = a[i] /\ wpc'[u] \in {"teardown", "done"}
  <2> SUFFICES ASSUME NEW i \in 1..Len(a)
               PROVE  \E u \in testCases : u.name = a[i] /\ wpc'[u] \in {"teardown", "done"}
    OBVIOUS
  <2>1. CASE i \in 1..k
    <3>1. PICK u \in testCases : u.name = a[i] /\ wpc[u] \in {"teardown", "done"}
      BY <1>3, <1>4, <1>6, <2>1
    <3> QED BY <3>1
  <2>2. CASE i = k + 1
    BY <1>3, <1>6, <2>2
  <2> QED BY <1>3, <1>6, <2>1, <2>2
<1> QED BY <1>8, <1>9, <1>10 DEF OneResultPerTest

LEMMA CallKeeps ==
    ASSUME RegistryInv, RunInv, NEW s \in Suites, NEW l \in LabelLists, NEW r \in Rooms,
           RunContinuous(s, l, r)
    PROVE  RunInv'
<1> USE RunAssumption DEF RunInv
<1>1. /\ testCases' = Flattened(s, l) /\ suite' = s /\ room' = r /\ pc' = "before" /\ pc = "idle"
      /\ wpc' = [t \in testCases' |-> "none"]
      /\ UNCHANGED <<callback, launched, ch, received, receiving>>
  BY DEF RunContinuous
<1>2. ch = <<>> /\ received = <<>> /\ r \in Nat /\ l \in Seq(STRING)
  BY <1>1 DEF NothingYet
<1>3. RunTyped'
  <2>1. testCases' \subseteq Cases
    BY <1>1 DEF Flattened
  <2>2. PICK w : w = testCases'
    OBVIOUS
  <2>3. wpc' \in [w -> Stations]
    BY <1>1, <2>2 DEF Stations
  <2>4. wpc' \in [testCases' -> Stations]
    BY <2>2, <2>3
  <2>5. /\ ch' \in Seq(Names) /\ received' \in Seq(Names) /\ callback' \in Nat
        /\ launched' \in BOOLEAN /\ receiving' \in BOOLEAN
    BY <1>1 DEF RunTyped
  <2>6. suite' \in Suites /\ room' \in Nat /\ pc' = "before"
    BY <1>1, <1>2
  <2> QED BY <2>1, <2>4, <2>5, <2>6 DEF RunTyped
<1>4. OneTestPerResult'
  BY <1>1, <1>2, ContentsKeyed, FlattenedDistinct DEF OneTestPerResult
<1>5. NothingYet' /\ WithinRoom'
  BY <1>1, <1>2 DEF NothingYet, WithinRoom
<1>6. OneResultPerTest'
  <2>1. Len(received' \o ch') = 0
    BY <1>1, <1>2
  <2> QED BY <2>1 DEF OneResultPerTest
<1> QED BY <1>3, <1>4, <1>5, <1>6

LEMMA RunStepKeeps == RunInv /\ RunStep => RunInv'
<1> SUFFICES ASSUME RunInv, RunStep PROVE RunInv'
  OBVIOUS
<1> USE DEF RunStep, BeforeCallback, AfterCallback, Callback, Fatal, StartLauncher, Return, call
<1>2. UNCHANGED <<suite, testCases, ch, received, room, wpc, receiving>> /\ pc' # "idle"
  OBVIOUS
<1>3. /\ pc \in {"before", "after"} /\ pc' \in {"before", "after", "returned"}
      /\ callback' = callback + 1 \/ callback' = callback \/ callback' = 0
      /\ launched' = launched \/ launched' = TRUE
  OBVIOUS
<1> HIDE DEF RunStep, BeforeCallback, AfterCallback, Callback, Fatal, StartLauncher, Return, call
<1>1. RunTyped'
  <2>1. RunTyped
    BY DEF RunInv
  <2>2. callback' \in Nat
    BY <1>3, <2>1 DEF RunTyped
  <2>4. launched' \in BOOLEAN
    BY <1>3, <2>1 DEF RunTyped
  <2>3. suite' \in Suites /\ pc' \in {"idle", "before", "after", "returned"}
    BY <1>2, <1>3, <2>1 DEF RunTyped
  <2> QED BY <1>2, <2>1, <2>2, <2>3, <2>4 DEF RunTyped
<1> QED BY <1>1, <1>2, ResultsStay

LEMMA SendKeeps == ASSUME RunInv, NEW t \in Cases, Send(t) PROVE RunInv'
<1>1. /\ t \in testCases /\ wpc[t] \in {"sendError", "sendResult"}
      /\ wpc' = [wpc EXCEPT ![t] = IF wpc[t] = "sendResult" /\ t.teardown THEN "teardown" ELSE "done"]
      /\ UNCHANGED <<suite, testCases, room, pc, callback, launched, receiving>>
  BY DEF Send, At, GoTo, Runner, call
<1>2. /\ wpc'[t] \in {"teardown", "done"} /\ \A u \in testCases : u # t => wpc'[u] = wpc[u]
      /\ wpc' \in [testCases -> Stations]
  BY <1>1 DEF RunInv, RunTyped, Stations
<1>3. ch \in Seq(Names) /\ received \in Seq(Names) /\ t.name \in Names /\ Len(ch) <= room /\ room \in Nat
  BY DEF RunInv, RunTyped, WithinRoom, Names
<1>4. /\ ch' \in Seq(Names) /\ received' \in Seq(Names) /\ Len(ch') <= room
      /\ received' \o ch' = Append(received \o ch, t.name)
  <2>1. CASE Len(ch) < room /\ ch' = Append(ch, t.name) /\ received' = received
    <3>1. PICK k : k = t.name
      OBVIOUS
    <3>2. ch' = Append(ch, k) /\ k \in Names
      BY <1>3, <2>1, <3>1
    <3>3. Len(ch') = Len(ch) + 1 /\ ch' \in Seq(Names) /\ Len(ch) \in Nat
      BY <1>3, <3>2
    <3>4. received \o Append(ch, k) = Append(received \o ch, k)
      BY <1>3, <3>2
    <3> QED BY <1>3, <2>1, <3>1, <3>2, <3>3, <3>4
  <2>2. CASE room = 0 /\ received' = Append(received, t.name) /\ ch' = ch
    <3>1. ch = <<>>
      BY <1>3, <2>2
    <3>2. received' \in Seq(Names)
      BY <1>3, <2>2
    <3>3. received \o <<>> = received /\ received' \o <<>> = received'
      BY <1>3, <3>2
    <3> QED BY <1>3, <2>2, <3>1, <3>2, <3>3
  <2> QED BY <2>1, <2>2 DEF Send
<1>5. OneResultPerTest'
  BY <1>1, <1>2, <1>4, ResultJoins
<1>6. RunTyped' /\ OneTestPerResult' /\ WithinRoom'
  BY <1>1, <1>2, <1>4 DEF RunInv, RunTyped, OneTestPerResult, WithinRoom
<1>7. NothingYet'
  BY <1>1 DEF RunInv, NothingYet
<1> QED BY <1>5, <1>6, <1>7 DEF RunInv

LEMMA WorkerKeeps == ASSUME RunInv, NEW t \in Cases, WorkerStep(t) PROVE RunInv'
<1>1. CASE Send(t)
  BY <1>1, SendKeeps
<1>2. CASE Launch(t) \/ Setup(t) \/ Test(t) \/ Teardown(t)
  <2>1. /\ t \in testCases /\ UNCHANGED <<suite, testCases, room, pc, callback, launched, receiving, ch, received>>
        /\ \E l \in Stations : wpc' = [wpc EXCEPT ![t] = l]
        /\ wpc[t] \in {"teardown", "done"} => wpc' = [wpc EXCEPT ![t] = "done"]
    BY <1>2 DEF Launch, Setup, Test, Teardown, At, GoTo, Runner, call, Stations
  <2>2. RunTyped'
    BY <2>1 DEF RunInv, RunTyped
  <2>3. \A u \in testCases : wpc[u] \in {"teardown", "done"} => wpc'[u] \in {"teardown", "done"}
    BY <2>1 DEF RunInv, RunTyped
  <2> QED BY <2>1, <2>2, <2>3, ResultsStay
<1> QED BY <1>1, <1>2 DEF WorkerStep

LEMMA ReceiveKeeps == RunInv /\ CallerReceives => RunInv'
<1> SUFFICES ASSUME RunInv, CallerReceives PROVE RunInv'
  OBVIOUS
<1>1. /\ ch # <<>> /\ received' = Append(received, Head(ch)) /\ ch' = Tail(ch)
      /\ UNCHANGED <<suite, testCases, room, pc, callback, launched, receiving, wpc>>
  BY DEF CallerReceives, Runner, call
<1>2. ch \in Seq(Names) /\ received \in Seq(Names) /\ Len(ch) <= room /\ room \in Nat
  BY DEF RunInv, RunTyped, WithinRoom
<1>3. /\ ch' \in Seq(Names) /\ received' \in Seq(Names) /\ Len(ch') <= room
  <2>1. Head(ch) \in Names /\ Tail(ch) \in Seq(Names) /\ Len(Tail(ch)) = Len(ch) - 1 /\ Len(ch) \in Nat
    BY <1>1, <1>2, HeadTailProperties
  <2> QED BY <1>1, <1>2, <2>1
<1>4. received' \o ch' = received \o ch
  <2>1. PICK h, q, r, c : h = Head(ch) /\ q = Tail(ch) /\ r = received /\ c = ch
    OBVIOUS
  <2>2. /\ h \in Names /\ q \in Seq(Names) /\ r \in Seq(Names) /\ c \in Seq(Names)
        /\ Len(q) = Len(c) - 1 /\ Len(c) \in Nat \ {0} /\ h = c[1]
        /\ \A i \in 1..Len(q) : q[i] = c[i + 1]
    BY <1>1, <1>2, <2>1, HeadTailProperties
  <2>3. /\ Append(r, h) \in Seq(Names) /\ Len(Append(r, h)) = Len(r) + 1 /\ Len(r) \in Nat
        /\ Append(r, h)[Len(r) + 1] = h /\ \A i \in 1..Len(r) : Append(r, h)[i] = r[i]
    BY <2>2
  <2>4. /\ r \o c \in Seq(Names) /\ Len(r \o c) = Len(r) + Len(c)
        /\ \A i \in 1..(Len(r) + Len(c)) :
              (r \o c)[i] = IF i <= Len(r) THEN r[i] ELSE c[i - Len(r)]
    BY <2>2, ConcatProperties
  <2>5. PICK a : a = Append(r, h)
    OBVIOUS
  <2>9. /\ a \in Seq(Names) /\ Len(a) = Len(r) + 1 /\ Len(r) \in Nat
        /\ a[Len(r) + 1] = h /\ \A i \in 1..Len(r) : a[i] = r[i]
    BY <2>3, <2>5
  <2>6. /\ a \o q \in Seq(Names) /\ Len(a \o q) = Len(a) + Len(q)
        /\ \A i \in 1..(Len(a) + Len(q)) :
              (a \o q)[i] = IF i <= Len(a) THEN a[i] ELSE q[i - Len(a)]
    BY <2>2, <2>9, ConcatProperties
  <2>7. ASSUME NEW i \in 1..(Len(r) + Len(c))
        PROVE  (a \o q)[i] = (r \o c)[i]
    <3>1. CASE i <= Len(r)
      BY <2>2, <2>4, <2>6, <2>9, <3>1
    <3>2. CASE i = Len(r) + 1
      BY <2>2, <2>4, <2>6, <2>9, <3>2
    <3>3. CASE i > Len(r) + 1
      <4>1. /\ i - (Len(r) + 1) \in 1..Len(q)
            /\ (i - (Len(r) + 1)) + 1 = i - Len(r)
        BY <2>2, <2>9, <3>3
      <4>2. q[i - (Len(r) + 1)] = c[i - Len(r)]
        BY <2>2, <4>1
      <4> QED BY <2>2, <2>4, <2>6, <2>9, <3>3, <4>2
    <3> QED BY <2>2, <2>9, <3>1, <3>2, <3>3
  <2>8. a \o q = r \o c
    <3>1. Len(a \o q) = Len(r \o c) /\ Len(r \o c) = Len(r) + Len(c)
      BY <2>2, <2>4, <2>6, <2>9
    <3>2. PICK x, y : x = a \o q /\ y = r \o c
      OBVIOUS
    <3>3. x \in Seq(Names) /\ y \in Seq(Names) /\ Len(x) = Len(y)
      BY <2>4, <2>6, <3>1, <3>2
    <3>4. \A i \in 1..Len(x) : x[i] = y[i]
      BY <2>7, <3>1, <3>2
    <3> QED BY <3>2, <3>3, <3>4, SeqEqual
  <2> QED BY <1>1, <2>1, <2>5, <2>8
<1>5. OneResultPerTest'
  <2>1. PICK all : all = received \o ch /\ all = received' \o ch'
    BY <1>4
  <2>2. wpc' = wpc /\ testCases' = testCases
    BY <1>1
  <2>3. /\ \A i, j \in 1..Len(all) : all[i] = all[j] => i = j
        /\ \A i \in 1..Len(all) :
              \E t \in testCases : t.name = all[i] /\ wpc[t] \in {"teardown", "done"}
    BY <2>1 DEF RunInv, OneResultPerTest
  <2> QED BY <2>1, <2>2, <2>3 DEF OneResultPerTest
<1>6. RunTyped' /\ OneTestPerResult' /\ WithinRoom'
  BY <1>1, <1>3 DEF RunInv, RunTyped, OneTestPerResult, WithinRoom
<1>7. NothingYet'
  BY <1>1 DEF RunInv, NothingYet
<1> QED BY <1>5, <1>6, <1>7 DEF RunInv

LEMMA Starts == Init => RegistryInv /\ RunInv
<1> SUFFICES ASSUME Init PROVE RegistryInv /\ RunInv
  OBVIOUS
<1>1. RegistryInv
  BY RegistryStarts DEF Init
<1>2. RunTyped
  <2>1. ch \in Seq(Names) /\ received \in Seq(Names)
    BY DEF Init
  <2>2. wpc \in [{} -> Stations] /\ testCases = {}
    BY DEF Init
  <2>3. testCases \subseteq Cases /\ room \in Nat /\ callback \in Nat
    BY DEF Init
  <2>4. suite = None /\ pc = "idle" /\ launched = FALSE /\ receiving = TRUE
    BY DEF Init
  <2>5. launched \in BOOLEAN /\ receiving \in BOOLEAN
    BY <2>4
  <2> QED BY <2>1, <2>2, <2>3, <2>4, <2>5 DEF RunTyped
<1>3. NothingYet /\ OneTestPerResult /\ WithinRoom
  BY DEF Init, NothingYet, OneTestPerResult, WithinRoom
<1>4. OneResultPerTest
  <2>1. Len(received \o ch) = 0
    BY DEF Init
  <2> QED BY <2>1 DEF OneResultPerTest
<1> QED BY <1>1, <1>2, <1>3, <1>4 DEF RunInv

\* A step of the call leaves the registry alone, but it may end the process.
LEMMA RegistryUntouched ==
    ASSUME RegistryInv,
           RunStep \/ CallerReceives \/ CallerStops \/ (\E t \in Cases : WorkerStep(t))
             \/ (\E s \in Suites, l \in LabelLists, r \in Rooms : RunContinuous(s, l, r))
    PROVE  RegistryInv'
<1>1. UNCHANGED registry /\ (ended' = ended \/ ended' = TRUE)
  BY DEF RunStep, BeforeCallback, AfterCallback, Callback, Fatal, StartLauncher, Return,
         CallerReceives, CallerStops, WorkerStep, Launch, Setup, Test, Send, Teardown, Runner,
         RunContinuous
<1>2. ended' \in BOOLEAN
  BY <1>1 DEF RegistryInv, RegistryTyped
<1> QED BY <1>1, <1>2, RegistryStill

LEMMA Steps == RegistryInv /\ RunInv /\ [Next]_vars => RegistryInv' /\ RunInv'
<1> SUFFICES ASSUME RegistryInv, RunInv, [Next]_vars PROVE RegistryInv' /\ RunInv'
  OBVIOUS
<1>1. CASE Registration
  <2>1. RegistryInv'
    BY <1>1, RegisterKeeps DEF Registration
  <2>2. RunTyped' /\ UNCHANGED <<testCases, ch, received, room, wpc, pc>>
    BY <1>1 DEF Registration, call, RunInv, RunTyped
  <2> QED BY <2>1, <2>2, ResultsStay
<1>2. CASE \E s \in Suites, l \in LabelLists, r \in Rooms : RunContinuous(s, l, r)
  BY <1>2, CallKeeps, RegistryUntouched
<1>3. CASE RunStep
  BY <1>3, RunStepKeeps, RegistryUntouched
<1>4. CASE CallerReceives
  BY <1>4, ReceiveKeeps, RegistryUntouched
<1>5. CASE CallerStops
  <2>1. RunTyped' /\ UNCHANGED <<testCases, ch, received, room, wpc, pc>>
    BY <1>5 DEF CallerStops, call, RunInv, RunTyped
  <2> QED BY <1>5, <2>1, ResultsStay, RegistryUntouched
<1>6. CASE \E t \in Cases : WorkerStep(t)
  BY <1>6, WorkerKeeps, RegistryUntouched
<1>7. CASE UNCHANGED vars
  <2>1. RegistryInv'
    BY <1>7, RegistryStill DEF vars, RegistryInv, RegistryTyped
  <2>2. RunTyped' /\ UNCHANGED <<testCases, ch, received, room, wpc, pc>>
    BY <1>7 DEF vars, call, RunInv, RunTyped
  <2> QED BY <2>1, <2>2, ResultsStay
<1> QED BY <1>1, <1>2, <1>3, <1>4, <1>5, <1>6, <1>7 DEF Next, CallerStep

-----------------------------------------------------------------------------
(* Theorems.                                                               *)

LEMMA Invariant == Spec => [](RegistryInv /\ RunInv)
BY Starts, Steps, PTL DEF Spec

\* Registration and RunContinuous keep their state well typed: maps of labels
\* and tests, a goroutine for each test selected, results that are names.
THEOREM TypeCorrect == Spec => []WellTyped
<1>1. RegistryInv /\ RunInv => WellTyped
  BY DEF WellTyped, RegistryInv, RunInv
<1> QED BY <1>1, Invariant, PTL

\* However suites are built and tests are added, to maps of their own or to
\* shared ones: in a suite, tests of one name are the same test, unless its
\* specification was at odds with itself or it is the error test.
THEOREM NamesLeadToOneTest == Spec => []OneTestPerName
<1>1. RegistryInv => OneTestPerName
  <2> SUFFICES ASSUME RegistryInv, NEW s \in Suites, NEW d \in Contents(s), NEW e \in Contents(s),
                      Given[builtFrom[s]] = NoMap \/ Coherent(Given[builtFrom[s]]),
                      d[2].name = e[2].name, d[2].name # ErrorTest
               PROVE  d[2] = e[2]
    BY DEF OneTestPerName
  <2>1. tests[s] # NoMap /\ Contents(s) = entries[tests[s]] /\ tests[s] \in Maps
    BY DEF Contents, RegistryInv, RegistryTyped
  <2>2. Sound(tests[s])
    BY <2>1 DEF Sound, RegistryInv, Referenced, Maps
  <2>3. Agreeing(entries[tests[s]])
    BY <2>1, <2>2 DEF RegistryInv, MapsAgree
  <2> QED BY <2>1, <2>3 DEF Agreeing
<1> QED BY <1>1, Invariant, PTL

\* "all" selects what the specification put there and every test added to a
\* suite that shares the map, and nothing else.
THEOREM AllIsComplete == Spec => []AllSelectsAll
<1>1. RegistryInv => AllSelectsAll
  <2> SUFFICES ASSUME RegistryInv, NEW s \in Suites, tests[s] # NoMap
               PROVE  UnderAll(Contents(s))
                        = UnderAll(IF tests[s] \in Specs THEN Given[tests[s]] ELSE {})
                            \cup {c \in AddedTo(tests[s]) : ForAll(c)}
    BY DEF AllSelectsAll, UnderAll, AddedTo, ForAll
  <2>1. Contents(s) = entries[tests[s]] /\ tests[s] \in Maps
    BY DEF Contents, RegistryInv, RegistryTyped
  <2>2. CASE tests[s] \in Specs
    BY <2>1, <2>2 DEF RegistryInv, AllKept, Referenced
  <2>3. CASE tests[s] \in Suites
    <3>1. tests[s] \notin Specs
      BY <2>3, RegistrationAssumption
    <3>2. UnderAll({}) = {}
      BY DEF UnderAll
    <3> QED BY <2>1, <2>3, <3>1, <3>2 DEF RegistryInv, AllKept
  <2> QED BY <2>1, <2>2, <2>3 DEF Maps
<1> QED BY <1>1, Invariant, PTL

\* For any tests, labels and capacity of the channel, and however goroutines,
\* callbacks and the receiver interleave: a name gives at most one result, and
\* only a test that has sent it.
THEOREM ResultsAreSingle == Spec => []OneResultPerTest
<1>1. RunInv => OneResultPerTest
  BY DEF RunInv
<1> QED BY <1>1, Invariant, PTL

==============================================================================
