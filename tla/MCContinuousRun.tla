--------------------------- MODULE MCContinuousRun ---------------------------
(***************************************************************************)
(* Small instances of ContinuousRun: two tests of one name, another that a *)
(* specification has as well, and error tests under two labels.            *)
(***************************************************************************)
EXTENDS ContinuousRun

CONSTANTS shared, fresh, s1, s2

TestCase(name, labels, setup, teardown) ==
    [name |-> name, labels |-> labels, setup |-> setup, teardown |-> teardown]

listed == TestCase("list", <<"slow">>, TRUE, FALSE)
created == TestCase("create", <<>>, FALSE, TRUE)
createdAgain == TestCase("create", <<"slow">>, FALSE, FALSE)
failing == TestCase("error", <<"slow">>, FALSE, FALSE)
failingFast == TestCase("error", <<"fast">>, FALSE, FALSE)

MCCases == {listed, created, createdAgain, failing, failingFast}

MCGiven == [p \in {shared, fresh} |->
    IF p = shared THEN {<<"all", listed>>, <<"slow", listed>>} ELSE NoMap]

MCLabelLists == {<<"all">>, <<"slow", "fast", "all">>}

=============================================================================
