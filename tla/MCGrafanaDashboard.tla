------------------------- MODULE MCGrafanaDashboard -------------------------
(***************************************************************************)
(* Small instances of GrafanaDashboard: one item of each type, and the     *)
(* ways in which an exception or a field can be missing.                   *)
(***************************************************************************)
EXTENDS GrafanaDashboard

\* Two plain paths, one with a parameter, and one with "SA" in it.
MCPathOrder == <<"/SAML", "/a", "/a/{id}", "/b">>

MCNormalized ==
    [p \in {"/SAML", "/a", "/a/{id}", "/b"} |-> IF p = "/a/{id}" THEN "/a/-" ELSE p]

\* One that holds for all paths below "/a", and the ways to leave it out.
Exception ==
    [given |-> TRUE, contained |-> {"/a", "/a/-"}, hasText |-> TRUE, method |-> "GET",
     text |-> <<"grafana.service", "%path", "%method", "SA", "grafana.service", "%path">>]

NoException == [Exception EXCEPT !.given = FALSE]
EmptyException == [Exception EXCEPT !.contained = {"$route", "/b"}, !.hasText = FALSE]

Texts == [requests |-> <<"grafana.service", "/x">>, errors3 |-> <<"grafana.service", "4xx">>]

Item ==
    [type |-> "5items", complete |-> TRUE, exception |-> Exception, texts |-> Texts,
     panels |-> <<>>, document |-> {}]

OpenApi == [Item EXCEPT !.type = "openapi", !.document = {"/b", "/a/{id}", "/a", "/SAML"}]

MCItems ==
    {Item, OpenApi,
     [Item EXCEPT !.complete = FALSE],
     [Item EXCEPT !.type = "unknown"],
     [Item EXCEPT !.type = "routes"],
     [Item EXCEPT !.type = "routes", !.exception = NoException],
     [OpenApi EXCEPT !.exception = EmptyException],
     [OpenApi EXCEPT !.document = {}, !.exception = NoException],
     [Item EXCEPT !.type = "custom", !.panels = <<>>],
     [Item EXCEPT !.type = "custom", !.panels = <<<<"grafana.service">>, <<"up">>>>]}

=============================================================================
