------------------------------- MODULE Service -------------------------------
(***************************************************************************)
(* A service that uses this library: a request passes the middlewares of   *)
(* RequestChain, and its handler makes a call of a client inside a Retry   *)
(* with the context of the request (ClientCalls), or searches Jira         *)
(* (JiraSearch).  The context ends when the client of the service leaves.  *)
(***************************************************************************)
EXTENDS RequestChain, ClientCalls, JiraSearch

vars == <<chainVars, callVars, searchVars>>

Init == ChainInit /\ CallsInit /\ SearchInit

\* A new request has a context of its own.
ChainPart ==
    /\ ChainStep(cancelled)
    /\ cancelled' = (hpc # "idle" /\ cancelled)
    /\ UNCHANGED <<retry, op, opc, exchange, searchVars>>

Cancel ==
    /\ hpc # "idle" /\ ~cancelled /\ cancelled' = TRUE
    /\ UNCHANGED <<chainVars, retry, op, opc, exchange, searchVars>>

\* The handler: one of the requests that are served makes a call or a search.
HandlerPart ==
    /\ hpc = "handler"
    /\ \/ /\ \/ spc = "idle" /\ \E c \in Calls : StartCall(c)
             \/ CallStep
          /\ UNCHANGED <<chainVars, searchVars>>
       \/ /\ \/ told = "idle" /\ StartSearch
             \/ SearchStep
          /\ UNCHANGED <<chainVars, callVars>>
       \/ /\ told # "pending" /\ spc # "asking"
          /\ Finish /\ UNCHANGED <<callVars, searchVars>>

NetworkPart == WireStep /\ UNCHANGED <<chainVars, searchVars>>

JiraPart == JiraStep /\ UNCHANGED <<chainVars, callVars>>

Next == ChainPart \/ Cancel \/ HandlerPart \/ NetworkPart \/ JiraPart

Spec == Init /\ [][Next]_vars

\* Handlers run, services answer in the end or the connection breaks, timers
\* fire.
FairSpec == Spec /\ WF_vars(HandlerPart)

=============================================================================
