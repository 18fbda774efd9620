-------------------------- MODULE MCTokenValidation --------------------------
(***************************************************************************)
(* Small instances of TokenValidation: two organisations, and the tokens   *)
(* that take each branch of the handler once.                              *)
(***************************************************************************)
EXTENDS TokenValidation

CONSTANTS o1, o2, offline, api

MCOrgs == {o1, o2}
MCScopes == {offline, api}

\* Restricted or not, enforced or not, and a list in which o1 is replaced,
\* by o2 and by an organisation without an external id.
MCAmsStates ==
    {[orgs |-> {}, flag |-> TRUE], [orgs |-> {o1}, flag |-> TRUE],
     [orgs |-> {o2, NoOrgId}, flag |-> TRUE], [orgs |-> {o1, o2}, flag |-> FALSE]}

\* One organisation restricted and released, with and without enforcement.
FewAmsStates ==
    {[orgs |-> {}, flag |-> TRUE], [orgs |-> {o1}, flag |-> TRUE], [orgs |-> {o1}, flag |-> FALSE]}

User(org, scope) ==
    [kind |-> "claims", serviceAccount |-> FALSE, hasScope |-> TRUE, scope |-> scope,
     hasOrgId |-> TRUE, orgId |-> org, organization |-> "absent", orgClaimId |-> NoOrgId]

Fallback(claim) ==
    [User(NoOrgId, {offline}) EXCEPT !.hasOrgId = FALSE, !.organization = claim,
                                     !.orgClaimId = o1]

Robot == [User(o1, {offline}) EXCEPT !.serviceAccount = TRUE]

OneToken == {User(o1, {offline})}

\* Offline users named by either claim or by none, tokens that end the
\* offline check early, and one for each outcome of the scope check.
MCTokens ==
    {User(o1, {offline, api}), Fallback("id"), Fallback("badId"), User(o2, {api}), Robot, NoToken}

=============================================================================
