--------------------------- MODULE MCTestSuiteRun ---------------------------
(***************************************************************************)
(* Small instances of TestSuiteRun: the two tests come under the label     *)
(* "all", one of them under a second label as well.                        *)
(***************************************************************************)
EXTENDS TestSuiteRun

CONSTANTS t1, t2

MCSuite == [all |-> {t1, t2}, slow |-> {t1}]

=============================================================================
