-------------------------- MODULE MCSegmentTracking --------------------------
(***************************************************************************)
(* Small instances of SegmentTracking: calls for users named, found in the *)
(* context, standing in for a service account, and unknown.                *)
(***************************************************************************)
EXTENDS SegmentTracking, TLC

CONSTANTS alice, bob

ByContext(kind) ==
    [kind |-> kind, named |-> Absent, webUser |-> alice, serviceAccount |-> FALSE,
     rhitUser |-> NoUser]

MCCalls ==
    {ByContext("event"), ByContext("account"), ByContext("noAccount"),
     [ByContext("event") EXCEPT !.named = bob],
     [ByContext("account") EXCEPT !.named = NoUser],
     [ByContext("event") EXCEPT !.webUser = NoUser],
     [ByContext("event") EXCEPT !.webUser = NoUser, !.serviceAccount = TRUE, !.rhitUser = bob]}

OneCall == {ByContext("event")}

=============================================================================
