---------------------------- MODULE PolicyReplay ----------------------------
(***************************************************************************)
(* What the refreshers of pkg/middleware/token_validation.go promise about *)
(* the restrictions they maintain: the org list and the enforcement flag   *)
(* are each a copy of something AMS said, and each only moves forward in   *)
(* AMS's history.  Nothing ties the two to the same moment.                *)
(***************************************************************************)
EXTENDS Integers, Sequences

CONSTANT AmsStates

VARIABLES log, orgs, flag, listAt, flagAt

replayVars == <<log, orgs, flag, listAt, flagAt>>

Init ==
    /\ log \in {<<a>> : a \in AmsStates}
    /\ orgs = {} /\ listAt = 0
    /\ flag = FALSE /\ flagAt = 0

Say ==
    /\ \E a \in AmsStates : log' = Append(log, a)
    /\ UNCHANGED <<orgs, flag, listAt, flagAt>>

CopyOrgs ==
    /\ listAt' \in listAt..Len(log) /\ listAt' > 0
    /\ orgs' = log[listAt'].orgs
    /\ UNCHANGED <<log, flag, flagAt>>

CopyFlag ==
    /\ flagAt' \in flagAt..Len(log) /\ flagAt' > 0
    /\ flag' = log[flagAt'].flag
    /\ UNCHANGED <<log, orgs, listAt>>

Next == Say \/ CopyOrgs \/ CopyFlag

Spec == Init /\ [][Next]_replayVars

=============================================================================
