---------------------------- MODULE RegionRouting ----------------------------
(***************************************************************************)
(* What pkg/middleware/region_proxy.go promises to the client of a         *)
(* request about a cluster: an answer, from a place where the cluster is   *)
(* or was (a cached place may be a day old), or an error.  excused names   *)
(* the clusters for which a lookup has failed: for those, and only those,  *)
(* the request may be served locally wherever the cluster is.              *)
(***************************************************************************)
CONSTANTS Clusters, NoCluster, Places, Local, Requests, Pending, Error

VARIABLES home, past, excused, asked, answer

routingVars == <<home, past, excused, asked, answer>>

Init ==
    /\ home \in [Clusters -> Places]
    /\ past = [c \in Clusters |-> {home[c]}]
    /\ excused = {}
    /\ asked = [r \in Requests |-> NoCluster]
    /\ answer = [r \in Requests |-> Error]

Move(c) ==
    /\ \E p \in Places :
          /\ home' = [home EXCEPT ![c] = p]
          /\ past' = [past EXCEPT ![c] = @ \cup {p}]
    /\ UNCHANGED <<excused, asked, answer>>

Excuse(c) ==
    /\ excused' = excused \cup {c}
    /\ UNCHANGED <<home, past, asked, answer>>

Ask(r) ==
    /\ answer[r] # Pending
    /\ \E c \in Clusters \cup {NoCluster} : asked' = [asked EXCEPT ![r] = c]
    /\ answer' = [answer EXCEPT ![r] = Pending]
    /\ UNCHANGED <<home, past, excused>>

\* A request about no cluster is served locally.
MayServe(c) ==
    CASE c = NoCluster -> {Local}
      [] c # NoCluster /\ c \in excused -> past[c] \cup {Local}
      [] OTHER -> past[c]

Answer(r) ==
    /\ answer[r] = Pending
    /\ \E a \in MayServe(asked[r]) \cup {Error} : answer' = [answer EXCEPT ![r] = a]
    /\ UNCHANGED <<home, past, excused, asked>>

Next ==
    \/ \E c \in Clusters : Move(c) \/ Excuse(c)
    \/ \E r \in Requests : Ask(r) \/ Answer(r)

Spec ==
    /\ Init /\ [][Next]_routingVars
    /\ \A r \in Requests : WF_routingVars(Answer(r))

=============================================================================
