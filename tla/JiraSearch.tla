----------------------------- MODULE JiraSearch -----------------------------
(***************************************************************************)
(* pkg/client/jira/client.go, GetAllIssues: asks page after page, each     *)
(* with the token of the one before, until there is no next page.  Jira is *)
(* external: a token is a place in the list of issues, which may change    *)
(* between two pages.                                                      *)
(***************************************************************************)
EXTENDS Integers, SequencesExt

CONSTANTS
    Found,              \* lists of issues that a search may match
    Newcomers,          \* issues that may join them
    maxResults

ASSUME SearchAssumption ==
    /\ maxResults \in Nat \ {0}
    /\ \A l \in Found : l \in Seq(Range(l))

VARIABLES
    matching,                   \* the issues that match, in the order of Jira
    spc, nextPageToken, issues, \* the search; token 0 is the empty one
    joined, left                \* since the search began

search == <<spc, nextPageToken, issues>>
searchVars == <<matching, search, joined, left>>

SearchInit ==
    /\ matching \in Found
    /\ spc = "idle" /\ nextPageToken = 0 /\ issues = <<>>
    /\ joined = {} /\ left = FALSE

StartSearch ==
    /\ spc = "idle" /\ spc' = "asking"
    /\ UNCHANGED <<matching, nextPageToken, issues, joined, left>>

Upto == Min({nextPageToken + maxResults, Len(matching)})

\* Mutant: the page without a next one is not kept.
PageUnlessLast ==
    /\ spc = "asking"
    /\ nextPageToken' = IF Upto < Len(matching) THEN Upto ELSE 0
    /\ issues' = IF nextPageToken' = 0 THEN issues
                 ELSE issues \o SubSeq(matching, nextPageToken + 1, Upto)
    /\ spc' = IF nextPageToken' = 0 THEN "found" ELSE "asking"
    /\ UNCHANGED <<matching, joined, left>>

Page ==
    /\ spc = "asking"
    /\ issues' = issues \o SubSeq(matching, nextPageToken + 1, Upto)
    /\ nextPageToken' = IF Upto < Len(matching) THEN Upto ELSE 0
    /\ spc' = IF nextPageToken' = 0 THEN "found" ELSE "asking"
    /\ UNCHANGED <<matching, joined, left>>

\* An error, of the rate limit or another, leaves nothing of the pages before.
SearchFails ==
    /\ spc = "asking" /\ spc' \in {"rate", "error"}
    /\ issues' = <<>>
    /\ UNCHANGED <<matching, nextPageToken, joined, left>>

Join(i) ==
    /\ spc = "asking" /\ i \notin Range(matching) \cup joined
    /\ matching' = <<i>> \o matching /\ joined' = joined \cup {i}
    /\ UNCHANGED <<search, left>>

Leave(i) ==
    /\ spc = "asking" /\ i \in Range(matching) /\ ~left
    /\ matching' = Remove(matching, i) /\ left' = TRUE
    /\ UNCHANGED <<search, joined>>

SearchStep == Page \/ SearchFails

JiraStep ==
    \/ \E i \in Newcomers : Join(i)
    \/ \E i \in Range(matching) : Leave(i)

-----------------------------------------------------------------------------
\* A search that ends well has every issue that matched from its beginning,
\* unless one left and moved the others into pages already read; without any
\* change it has just the issues, in order.  One that fails has none.
SearchComplete ==
    /\ spc = "found" /\ ~left => Range(matching) \ joined \subseteq Range(issues)
    /\ spc = "found" /\ ~left /\ joined = {} => issues = matching
    /\ spc \in {"rate", "error"} => issues = <<>>

=============================================================================
