-------------------------- MODULE TestRegistration --------------------------
(***************************************************************************)
(* pkg/test/framework.go, the part that collects tests: BuildTestSuite     *)
(* makes suites from specifications, Add puts a test under "all" and under *)
(* its labels, AddBeforeSuite and AddAfterSuite collect callbacks.         *)
(*                                                                         *)
(* TestSuite.tests is a map from labels to maps from names to tests.  Maps *)
(* are references: a suite has the one of its specification, which other   *)
(* suites may have as well, or one that Add made for it.  A map is the set *)
(* of its pairs of a label and a test.                                     *)
(***************************************************************************)
EXTENDS Integers, Sequences, FiniteSets

CONSTANTS
    Suites, Specs,   \* variables of the caller
    Cases,           \* test cases: name, labels, setup, teardown
    ErrorTest,       \* ERRORTEST
    Given,           \* TestSuiteSpec.Tests, under the names of the tests as in
                     \* the maps of Add; NoMap is a nil map
    NoMap, None,
    MaxCalls         \* bound: tests and callbacks that are added

\* A map leads from a label and a name to one test.
OnePerKey(m) == \A d, e \in m : d[1] = e[1] /\ d[2].name = e[2].name => d = e

ASSUME RegistrationAssumption ==
    /\ \A c \in Cases : c.labels \in Seq(STRING)
    /\ \A s \in Specs :
          Given[s] = NoMap \/ (Given[s] \subseteq STRING \X Cases /\ OnePerKey(Given[s]))
    /\ Suites \cap Specs = {} /\ NoMap \notin Suites \cup Specs /\ None \notin Specs
    /\ MaxCalls \in Nat

VARIABLES
    ended,            \* glog.Fatalf has ended the process
    builtFrom,        \* per suite: its specification
    tests,            \* per suite: the map it refers to
    entries,          \* per map: what is in it
    before, after,    \* per suite: numbers of callbacks
    added,            \* history: the tests added to each suite
    calls             \* for the bound

registry == <<builtFrom, tests, entries, before, after, added, calls>>

Maps == Specs \cup Suites

RegistryInit ==
    /\ ended = FALSE
    /\ builtFrom = [s \in Suites |-> None]
    /\ tests = [s \in Suites |-> NoMap]
    /\ entries = [m \in Maps |-> IF m \in Specs /\ Given[m] # NoMap THEN Given[m] ELSE {}]
    /\ before = [s \in Suites |-> 0] /\ after = [s \in Suites |-> 0]
    /\ added = [s \in Suites |-> {}] /\ calls = 0

Built(s) == ~ended /\ builtFrom[s] # None

\* The callbacks of the specification are not taken over.
BuildTestSuite(s, spec) ==
    /\ ~ended /\ builtFrom[s] = None
    /\ builtFrom' = [builtFrom EXCEPT ![s] = spec]
    /\ tests' = [tests EXCEPT ![s] = IF Given[spec] = NoMap THEN NoMap ELSE spec]
    /\ UNCHANGED <<ended, entries, before, after, added, calls>>

Has(m, label, name) == \E e \in m : e[1] = label /\ e[2].name = name

\* Mutant: a test with labels of its own is left out of "all".
PlacesUnlessLabelled(c) == IF c.labels # <<>> THEN c.labels ELSE <<"all">>

\* The labels under which Add puts a test, in order.
Places(c) == IF c.name = ErrorTest THEN c.labels ELSE <<"all">> \o c.labels

Contents(s) == IF tests[s] = NoMap THEN {} ELSE entries[tests[s]]

\* Mutant: only the labels of the test are looked at.
RefusedUnderLabels(s, c) == \E i \in DOMAIN c.labels : Has(Contents(s), c.labels[i], c.name)

\* "TestCase[%s/%s] already exists": under "all", under one of the labels, or
\* because a label comes twice.
Refused(s, c) ==
    \/ Has(Contents(s), "all", c.name)
    \/ \E i \in DOMAIN Places(c) :
          \/ Has(Contents(s), Places(c)[i], c.name)
          \/ \E j \in 1..(i - 1) : Places(c)[j] = Places(c)[i]

Counted == calls < MaxCalls /\ calls' = calls + 1

\* A nil map is made first; AddTestCases adds one test after another.
Add(s, c) ==
    /\ Built(s) /\ ~Refused(s, c) /\ Counted
    /\ LET m == IF tests[s] = NoMap THEN s ELSE tests[s]
           put == {<<Places(c)[i], c>> : i \in DOMAIN Places(c)}
       IN  /\ tests' = [tests EXCEPT ![s] = m]
           /\ entries' = [entries EXCEPT ![m] =
                             {e \in @ : \A p \in put : e[1] # p[1] \/ e[2].name # c.name} \cup put]
    /\ added' = [added EXCEPT ![s] = @ \cup {c}]
    /\ UNCHANGED <<ended, builtFrom, before, after>>

AddFatal(s, c) ==
    /\ Built(s) /\ Refused(s, c)
    /\ ended' = TRUE
    /\ UNCHANGED registry

AddBeforeSuite(s) ==
    /\ Built(s) /\ Counted
    /\ before' = [before EXCEPT ![s] = @ + 1]
    /\ UNCHANGED <<ended, builtFrom, tests, entries, after, added>>

AddAfterSuite(s) ==
    /\ Built(s) /\ Counted
    /\ after' = [after EXCEPT ![s] = @ + 1]
    /\ UNCHANGED <<ended, builtFrom, tests, entries, before, added>>

Register ==
    \E s \in Suites :
        \/ \E spec \in Specs : BuildTestSuite(s, spec)
        \/ \E c \in Cases : Add(s, c) \/ AddFatal(s, c)
        \/ AddBeforeSuite(s) \/ AddAfterSuite(s)

\* Mutant: the name is not looked for among the tests found.
FlattenedAll(s, labels) ==
    {c \in Cases : \E i \in DOMAIN labels : <<labels[i], c>> \in Contents(s)}

\* The two levels flattened: of tests of one name, the one under the label
\* that comes first.
Flattened(s, labels) ==
    {c \in Cases :
        \E i \in DOMAIN labels :
            /\ <<labels[i], c>> \in Contents(s)
            /\ \A j \in 1..(i - 1) : ~Has(Contents(s), labels[j], c.name)}

-----------------------------------------------------------------------------
(* Properties.                                                             *)

\* Within a map given by a specification: every test is under "all", and
\* tests of one name are one test.
Coherent(m) ==
    /\ \A e \in m : e[2].name # ErrorTest => <<"all", e[2]>> \in m
    /\ \A d, e \in m : d[2].name = e[2].name => d[2] = e[2]

\* Tests of one name under several labels are the same test, so that what
\* runs depends neither on the order of the labels of a run nor on the order
\* of Go's maps, although suites share the maps of their specification.
\* (Not so for a specification that is itself at odds, and for the error
\* test, which Add does not find under "all".)
OneTestPerName ==
    \A s \in Suites : \A d, e \in Contents(s) :
        /\ Given[builtFrom[s]] = NoMap \/ Coherent(Given[builtFrom[s]])
        /\ d[2].name = e[2].name
        /\ d[2].name # ErrorTest
        => d[2] = e[2]

\* "all" selects every test of the specification and every one that was
\* added, except the error test, and no other.  Suites that were built from
\* one specification with tests add to the same map, and so select the tests
\* of each other; suites built from one without do not.
AllSelectsAll ==
    \A s \in Suites : tests[s] # NoMap =>
        {e[2] : e \in {f \in Contents(s) : f[1] = "all"}}
          = {e[2] : e \in {f \in (IF tests[s] \in Specs THEN Given[tests[s]] ELSE {}) : f[1] = "all"}}
              \cup {c \in UNION {added[u] : u \in {v \in Suites : tests[v] = tests[s]}} :
                        c.name # ErrorTest \/ "all" \in {c.labels[i] : i \in DOMAIN c.labels}}

=============================================================================
