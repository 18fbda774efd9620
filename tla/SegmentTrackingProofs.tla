------------------------ MODULE SegmentTrackingProofs ------------------------
(***************************************************************************)
(* Proofs about SegmentTracking, for any number of trackers, clients and   *)
(* resets, and any calls.                                                  *)
(*                                                                         *)
(* What a tracker is at tells what it knows of its call: past the lookup   *)
(* of the user there is a user, and a connection is open from connecting   *)
(* to Close.  That a request is counted once rests on the layers of the    *)
(* transport: with one client there is one from the first tracker on, and  *)
(* a request in the layers is one that is answered and not counted.        *)
(***************************************************************************)
EXTENDS SegmentTracking, FiniteSetTheorems, SequenceTheorems, TLAPS

-----------------------------------------------------------------------------
(* Sequences of two messages.                                              *)

LEMMA PairsEqual ==
    ASSUME NEW S, NEW s \in Seq(S), NEW t \in Seq(S), Len(s) = 2, Len(t) = 2, s[1] = t[1], s[2] = t[2]
    PROVE  s = t
<1>1. \A i \in 1..2 : s[i] = t[i]
  OBVIOUS
<1> QED BY <1>1, SeqEqual

LEMMA SecondMessage ==
    ASSUME NEW M, NEW s \in Seq(M), NEW a \in M, NEW b \in M, s = <<a>>
    PROVE  Append(s, b) = <<a, b>>
<1>1. Len(s) = 1 /\ s[1] = a
  OBVIOUS
<1> DEFINE p == Append(s, b)
<1>2. p \in Seq(M) /\ Len(p) = Len(s) + 1 /\ p[Len(s) + 1] = b
  OBVIOUS
<1>3. p[1] = a
  BY <1>1
<1> HIDE DEF p
<1>4. Len(s) + 1 = 2
  BY <1>1
<1>5. Len(p) = 2 /\ p[2] = b
  BY <1>2, <1>4
<1>6. <<a, b>> \in Seq(M) /\ Len(<<a, b>>) = 2 /\ <<a, b>>[1] = a /\ <<a, b>>[2] = b
  OBVIOUS
<1>7. p = <<a, b>>
  BY <1>2, <1>3, <1>5, <1>6, PairsEqual
<1> QED BY <1>7 DEF p
LEMMA GroupAfterIdentify ==
    ASSUME NEW s, s = <<"identify">>
    PROVE  Append(s, "group") = <<"identify", "group">>
<1> DEFINE M == {"identify", "group"}
<1>1. s \in Seq(M) /\ "identify" \in M /\ "group" \in M
  OBVIOUS
<1> QED BY <1>1, SecondMessage

-----------------------------------------------------------------------------
Messages == {"track", "identify", "group"}
Positions == {"idle", "connect", "track", "identify", "group", "request", "count", "observe",
              "close", "done"}

TrackerTypes ==
    /\ tpc \in [Trackers -> Positions] /\ call \in [Trackers -> Calls \cup {NoCall}]
    /\ messages \in [Trackers -> Seq(Messages)]
    /\ open \in [Trackers -> BOOLEAN] /\ failed \in [Trackers -> BOOLEAN]
    /\ code \in [Trackers -> Codes]

Known(t) == getUserId(call[t]) # NoUser

\* Connections are open between Connect and Close.
Connected == \A t \in Trackers : tpc[t] \in {"idle", "connect", "done"} => ~open[t]

\* The user is known where something is reported.
UserFound ==
    \A t \in Trackers :
        /\ tpc[t] = "connect" => call[t].kind \in {"event", "account"}
        /\ tpc[t] \in {"connect", "track", "request", "count", "observe"}
              /\ call[t].kind = "event" => Known(t)
        /\ tpc[t] \in {"track", "request", "count", "observe"} => call[t].kind = "event"
        /\ tpc[t] \in {"identify", "group"} => call[t].kind = "account" /\ Known(t)
        /\ messages[t] # <<>> => Known(t)

\* The messages of an account.
InOrder ==
    \A t \in Trackers :
        /\ tpc[t] \in {"idle", "connect", "track", "identify"} => messages[t] = <<>>
        /\ tpc[t] = "group" => messages[t] = <<"identify">>
        /\ call[t].kind = "account" =>
              /\ messages[t] \in {<<>>, <<"identify">>, <<"identify", "group">>}
              /\ tpc[t] \in {"close", "done"} /\ ~failed[t] /\ Key /\ Known(t) =>
                    messages[t] = <<"identify", "group">>

TrackerInv == TrackerTypes /\ Connected /\ UserFound /\ InOrder

LEMMA TrackersInitially == Init => TrackerInv
<1> SUFFICES ASSUME Init PROVE TrackerInv
  OBVIOUS
<1>1. TrackerTypes
  BY DEF Init, TrackerTypes, Positions, Codes
<1>2. Connected
  BY DEF Init, Connected
<1>3. \A t \in Trackers : tpc[t] = "idle" /\ messages[t] = <<>> /\ call[t] = NoCall
  BY DEF Init
<1>4. UserFound /\ InOrder
  BY <1>3 DEF UserFound, InOrder, NoCall
<1> QED BY <1>1, <1>2, <1>4 DEF TrackerInv

\* Only a tracker changes what it keeps, and it leaves the others alone.
LEMMA TrackersKeepApart ==
    ASSUME TrackerTypes, NEW t \in Trackers, Start(t) \/ TrackerStep(t)
    PROVE  \A u \in Trackers \ {t} :
              /\ tpc'[u] = tpc[u] /\ call'[u] = call[u] /\ messages'[u] = messages[u]
              /\ open'[u] = open[u] /\ failed'[u] = failed[u]
BY DEF TrackerTypes, Start, TrackerStep, Connect, EnqueueTrack, EnqueueIdentify, EnqueueGroup, Enqueue,
   Request, Count, Observe, Close, GoTo

LEMMA TrackerTypesKept ==
    ASSUME TrackerTypes, NEW t \in Trackers, Start(t) \/ TrackerStep(t)
    PROVE  TrackerTypes'
<1> USE DEF TrackerTypes, Positions
<1>1. CASE Start(t)
  BY <1>1 DEF Start, GoTo
<1>2. CASE Connect(t)
  <2>1. AfterConnect(t) \in Positions
    BY DEF AfterConnect
  <2>2. tpc' \in [Trackers -> Positions] /\ UNCHANGED <<call, messages, code>>
    BY <1>2, <2>1 DEF Connect, GoTo
  <2>3. open' \in [Trackers -> BOOLEAN]
    BY <1>2 DEF Connect
  <2>4. failed' \in [Trackers -> BOOLEAN]
    BY <1>2 DEF Connect
  <2> QED BY <2>2, <2>3, <2>4
<1>3. CASE EnqueueTrack(t) \/ EnqueueIdentify(t) \/ EnqueueGroup(t)
  <2>1. PICK m \in Messages, n \in Positions :
           /\ messages' = [messages EXCEPT ![t] = Append(@, m)] \/ messages' = messages
           /\ failed' = [failed EXCEPT ![t] = TRUE] \/ failed' = failed
           /\ tpc' = [tpc EXCEPT ![t] = n] /\ UNCHANGED <<call, open, code>>
    BY <1>3 DEF EnqueueTrack, EnqueueIdentify, EnqueueGroup, Enqueue, GoTo, Messages
  <2>2. messages' \in [Trackers -> Seq(Messages)]
    <3>1. messages[t] \in Seq(Messages)
      OBVIOUS
    <3>2. Append(messages[t], m) \in Seq(Messages)
      BY <3>1
    <3> QED BY <2>1, <3>2
  <2>3. failed' \in [Trackers -> BOOLEAN]
    BY <2>1
  <2>4. tpc' \in [Trackers -> Positions]
    BY <2>1
  <2> QED BY <2>1, <2>2, <2>3, <2>4
<1>4. CASE Request(t)
  BY <1>4 DEF Request, GoTo, Codes
<1>5. CASE Count(t) \/ Observe(t) \/ Close(t)
  BY <1>5 DEF Count, Observe, Close, GoTo
<1> QED BY <1>1, <1>2, <1>3, <1>4, <1>5 DEF TrackerStep

LEMMA TrackersKeep ==
    ASSUME TrackerInv, NEW t \in Trackers, Start(t) \/ TrackerStep(t)
    PROVE  TrackerInv'
<1> USE DEF TrackerInv
<1>0. TrackerTypes'
  BY TrackerTypesKept
<1>1. \A u \in Trackers \ {t} :
         /\ tpc'[u] = tpc[u] /\ call'[u] = call[u] /\ messages'[u] = messages[u]
         /\ open'[u] = open[u] /\ failed'[u] = failed[u]
  BY TrackersKeepApart
<1>2. Connected'
  <2>1. tpc'[t] \in {"idle", "connect", "done"} => ~open'[t]
    BY DEF TrackerTypes, Connected, Start, TrackerStep, Connect, AfterConnect, EnqueueTrack,
       EnqueueIdentify, EnqueueGroup, Enqueue, Request, Count, Observe, Close, GoTo
  <2> QED BY <1>1, <2>1 DEF Connected
<1>3. UserFound' /\ InOrder'
  <2> DEFINE Sound(u) ==
        /\ tpc[u] = "connect" => call[u].kind \in {"event", "account"}
        /\ tpc[u] \in {"connect", "track", "request", "count", "observe"}
              /\ call[u].kind = "event" => Known(u)
        /\ tpc[u] \in {"track", "request", "count", "observe"} => call[u].kind = "event"
        /\ tpc[u] \in {"identify", "group"} => call[u].kind = "account" /\ Known(u)
        /\ messages[u] # <<>> => Known(u)
        /\ tpc[u] \in {"idle", "connect", "track", "identify"} => messages[u] = <<>>
        /\ tpc[u] = "group" => messages[u] = <<"identify">>
        /\ call[u].kind = "account" =>
              /\ messages[u] \in {<<>>, <<"identify">>, <<"identify", "group">>}
              /\ tpc[u] \in {"close", "done"} /\ ~failed[u] /\ Key /\ Known(u) =>
                    messages[u] = <<"identify", "group">>
  <2>1. UserFound /\ InOrder <=> \A u \in Trackers : Sound(u)
    BY DEF UserFound, InOrder
  <2>2. (UserFound /\ InOrder)' <=> \A u \in Trackers : Sound(u)'
    BY DEF UserFound, InOrder
  <2>3. \A u \in Trackers \ {t} : Sound(u)'
    BY <1>1, <2>1 DEF Known, getUserId, ContextUser
  <2> SUFFICES Sound(t)'
    BY <2>2, <2>3
  <2>4. Sound(t)
    BY <2>1
  <2> USE DEF TrackerTypes, GoTo
  <2>5. CASE Start(t)
    <3>1. PICK c \in Calls :
             /\ call'[t] = c
             /\ tpc'[t] = IF ~Key \/ c.kind = "noAccount" \/ (c.kind = "event" /\ getUserId(c) = NoUser)
                          THEN "done" ELSE "connect"
             /\ messages'[t] = <<>> /\ failed'[t] = failed[t]
      BY <2>4, <2>5 DEF Start
    <3>2. c.kind \in {"event", "account", "noAccount"}
      BY ConstantsAssumption DEF CallType
    <3>3. Known(t)' <=> getUserId(c) # NoUser
      BY <3>1 DEF Known, getUserId, ContextUser
    <3> QED BY <3>1, <3>2, <3>3
  <2>6. ASSUME call'[t] = call[t] PROVE Known(t)' <=> Known(t)
    BY <2>6 DEF Known, getUserId, ContextUser
  <2>7. CASE Connect(t)
    <3>1. /\ tpc[t] = "connect" /\ call'[t] = call[t] /\ messages'[t] = messages[t]
          /\ \/ tpc'[t] = AfterConnect(t) /\ failed'[t] = failed[t]
             \/ tpc'[t] = "done" /\ failed'[t]
      BY <2>7 DEF Connect
    <3>2. call[t].kind \in {"event", "account"}
      BY <2>4, <3>1
    <3>3. Known(t)' <=> Known(t)
      BY <2>6, <3>1
    <3>4. CASE call[t].kind = "event"
      BY <2>4, <3>1, <3>3, <3>4 DEF AfterConnect
    <3>5. CASE call[t].kind = "account"
      BY <2>4, <3>1, <3>3, <3>5 DEF AfterConnect, Known
    <3> QED BY <3>2, <3>4, <3>5
  <2>8. CASE EnqueueTrack(t)
    <3>1. /\ tpc[t] = "track" /\ call'[t] = call[t] /\ tpc'[t] = "request"
      BY <2>8 DEF EnqueueTrack, Enqueue
    <3> QED BY <2>4, <2>6, <3>1
  <2>9. CASE EnqueueIdentify(t)
    <3>1. /\ tpc[t] = "identify" /\ call'[t] = call[t] /\ messages[t] = <<>>
          /\ \/ tpc'[t] = "group" /\ messages'[t] = Append(messages[t], "identify")
             \/ tpc'[t] = "close" /\ messages'[t] = messages[t] /\ failed'[t]
      BY <2>4, <2>9 DEF EnqueueIdentify, Enqueue
    <3>2. Append(messages[t], "identify") = <<"identify">>
      BY <3>1
    <3> QED BY <2>4, <2>6, <3>1, <3>2
  <2>10. CASE EnqueueGroup(t)
    <3>1. /\ tpc[t] = "group" /\ call'[t] = call[t] /\ messages[t] = <<"identify">> /\ tpc'[t] = "close"
          /\ \/ messages'[t] = Append(messages[t], "group")
             \/ messages'[t] = messages[t] /\ failed'[t]
      BY <2>4, <2>10 DEF EnqueueGroup, Enqueue
    <3>2. Append(messages[t], "group") = <<"identify", "group">>
      BY <3>1, GroupAfterIdentify
    <3> QED BY <2>4, <2>6, <3>1, <3>2
  <2>11. CASE Request(t) \/ Count(t) \/ Observe(t) \/ Close(t)
    <3>1. /\ call'[t] = call[t] /\ messages'[t] = messages[t] /\ failed'[t] = failed[t]
          /\ \/ tpc[t] \in {"request", "count", "observe"} /\ tpc'[t] \in {"count", "observe", "close"}
             \/ tpc[t] = "close" /\ tpc'[t] = "done"
      BY <2>11 DEF Request, Count, Observe, Close
    <3> QED BY <2>4, <2>6, <3>1
  <2> QED
    BY <2>5, <2>7, <2>8, <2>9, <2>10, <2>11 DEF TrackerStep
<1> QED BY <1>0, <1>2, <1>3

LEMMA TrackersInvariant == Spec => []TrackerInv
<1>1. TrackerInv /\ [Next]_vars => TrackerInv'
  <2> SUFFICES ASSUME TrackerInv, [Next]_vars PROVE TrackerInv'
    OBVIOUS
  <2>1. ASSUME UNCHANGED trackers PROVE TrackerInv'
    BY <2>1 DEF TrackerInv, TrackerTypes, Connected, UserFound, InOrder, Known, getUserId, ContextUser, trackers
  <2>2. ASSUME NEW m \in Makers, MakerStep(m) PROVE UNCHANGED trackers
    BY <2>2 DEF MakerStep, NewClient, WrapTransport
  <2>3. ASSUME NEW r \in Resetters, ResetterStep(r) PROVE UNCHANGED trackers
    BY <2>3 DEF ResetterStep, ResetCounts, ResetDurations
  <2> QED BY <2>1, <2>2, <2>3, TrackersKeep DEF Next, vars
<1> QED BY TrackersInitially, <1>1, PTL DEF Spec

\* Every tracker that is done has closed its connection.
THEOREM EveryConnectionClosed == Spec => []ConnectionsClosed
<1>1. TrackerInv => ConnectionsClosed
  BY DEF TrackerInv, Connected, ConnectionsClosed
<1> QED BY TrackersInvariant, <1>1, PTL

\* Nothing is reported for a call whose user is unknown.
THEOREM OnlyKnownUsersTracked == Spec => []TracksKnownUsers
<1>1. TrackerInv => TracksKnownUsers
  BY DEF TrackerInv, UserFound, Known, TracksKnownUsers
<1> QED BY TrackersInvariant, <1>1, PTL

\* Accounts are identified before they join their organisation.
THEOREM AccountsInOrder == Spec => []AccountInOrder
<1>1. TrackerInv => AccountInOrder
  BY DEF TrackerInv, InOrder, Known, AccountInOrder
<1> QED BY TrackersInvariant, <1>1, PTL

-----------------------------------------------------------------------------
(* The layers of the transport and the metrics.                            *)

Done == {m \in Makers : mpc[m] = "done"}

\* No more layers than clients that were made, and one once there is any.
LayersInv ==
    /\ mpc \in [Makers -> {"idle", "wrap", "done"}]
    /\ layers \in Nat /\ layers <= Cardinality(Done)
    /\ Done # {} => layers >= 1
    /\ seen \in [Makers -> Nat] /\ \A m \in Makers : seen[m] <= Cardinality(Done)

\* A request that is in the layers has some to leave.
ThroughInv ==
    /\ through \in [Trackers -> 0..Cardinality(Makers)]
    /\ \A t \in Trackers :
          /\ tpc[t] \in {"count", "observe"} => through[t] >= 1
          /\ tpc[t] # "idle" => Done # {}

MetricsTypes ==
    /\ counts \in [Codes -> Nat] /\ durations \in [Codes -> Nat] /\ answered \in [Codes -> Nat]
    /\ torn \in BOOLEAN /\ rpc \in [Resetters -> {"idle", "durations", "done"}]

TypeInv == TrackerTypes /\ LayersInv /\ ThroughInv /\ MetricsTypes

LEMMA Finite ==
    /\ IsFiniteSet(Done) /\ Cardinality(Done) \in Nat /\ Cardinality(Makers) \in Nat
    /\ Cardinality(Done) <= Cardinality(Makers)
    /\ \A c : IsFiniteSet(Uncounted(c)) /\ Cardinality(Uncounted(c)) \in Nat
<1>1. Done \subseteq Makers /\ \A c : Uncounted(c) \subseteq Trackers
  BY DEF Done, Uncounted
<1> QED BY <1>1, ConstantsAssumption, FS_Subset, FS_CardinalityType

LEMMA TypesInitially == Init => TypeInv
<1> SUFFICES ASSUME Init PROVE TypeInv
  OBVIOUS
<1>1. TrackerTypes
  BY TrackersInitially DEF TrackerInv
<1>2. LayersInv
  <2>1. Done = {}
    BY DEF Init, Done
  <2>2. layers = 0 /\ \A m \in Makers : seen[m] = 0
    BY DEF Init
  <2>3. mpc \in [Makers -> {"idle", "wrap", "done"}] /\ seen \in [Makers -> Nat]
    BY DEF Init
  <2>4. Cardinality(Done) \in Nat /\ layers <= Cardinality(Done)
    BY <2>2, Finite
  <2> QED BY <2>1, <2>2, <2>3, <2>4 DEF LayersInv
<1>3. ThroughInv
  BY Finite DEF Init, ThroughInv
<1>4. MetricsTypes
  BY DEF Init, MetricsTypes
<1> QED BY <1>1, <1>2, <1>3, <1>4 DEF TypeInv

LEMMA MakersKeepTypes ==
    ASSUME TypeInv, NEW m \in Makers, MakerStep(m)
    PROVE  TypeInv'
<1>1. TrackerTypes' /\ MetricsTypes'
  BY DEF TypeInv, TrackerTypes, MetricsTypes, MakerStep, NewClient, WrapTransport, trackers, metrics
<1>2. CASE NewClient(m)
  <2>1. Done' = Done
    BY <1>2 DEF NewClient, Done, TypeInv, LayersInv
  <2>2. LayersInv'
    BY <1>2, <2>1 DEF NewClient, TypeInv, LayersInv
  <2>3. ThroughInv'
    BY <1>2, <2>1 DEF NewClient, TypeInv, ThroughInv, trackers
  <2> QED BY <1>1, <2>2, <2>3 DEF TypeInv
<1>3. CASE WrapTransport(m)
  <2>1. Done' = Done \cup {m} /\ m \notin Done
    BY <1>3 DEF WrapTransport, Done, TypeInv, LayersInv
  <2>2. Cardinality(Done') = Cardinality(Done) + 1
    BY <2>1, Finite, FS_AddElement
  <2>3. LayersInv'
    BY <1>3, <2>1, <2>2, Finite DEF WrapTransport, TypeInv, LayersInv
  <2>4. ThroughInv'
    BY <1>3, <2>1 DEF WrapTransport, TypeInv, ThroughInv, trackers
  <2> QED BY <1>1, <2>3, <2>4 DEF TypeInv
<1> QED BY <1>2, <1>3 DEF MakerStep

LEMMA TrackersKeepTypes ==
    ASSUME TypeInv, NEW t \in Trackers, Start(t) \/ TrackerStep(t)
    PROVE  TypeInv'
<1> USE DEF TypeInv
<1>1. TrackerTypes'
  BY TrackerTypesKept
<1>2. LayersInv' /\ Done' = Done
  <2>1. UNCHANGED clients
    BY DEF Start, TrackerStep, Connect, EnqueueTrack, EnqueueIdentify, EnqueueGroup, Request, Count,
       Observe, Close
  <2> QED BY <2>1 DEF clients, LayersInv, Done
<1>3. ThroughInv' /\ MetricsTypes'
  <2> USE DEF TrackerTypes, ThroughInv, MetricsTypes
  <2>1. ASSUME UNCHANGED <<through, metrics, rpc>>, tpc[t] \notin {"count", "observe"},
               tpc[t] # "idle" \/ Done # {},
               NEW p \in Positions \ {"count", "observe"}, tpc' = [tpc EXCEPT ![t] = p]
        PROVE  ThroughInv' /\ MetricsTypes'
    BY <1>2, <2>1 DEF metrics
  <2>2. CASE Start(t)
    <3>1. Done # {}
      BY <2>2 DEF Start, Done
    <3> QED BY <2>1, <2>2, <3>1 DEF Start, GoTo, Positions
  <2>3. CASE Connect(t)
    BY <2>1, <2>3 DEF Connect, GoTo, AfterConnect, Positions
  <2>4. CASE EnqueueTrack(t) \/ EnqueueIdentify(t) \/ EnqueueGroup(t) \/ Close(t)
    BY <2>1, <2>4 DEF EnqueueTrack, EnqueueIdentify, EnqueueGroup, Close, Enqueue, GoTo, Positions
  <2>5. CASE Request(t)
    <3>1. layers \in 1..Cardinality(Makers)
      <4>1. Done # {}
        BY <2>5 DEF Request
      <4>2. layers \in Nat /\ layers >= 1 /\ layers <= Cardinality(Done)
        BY <4>1 DEF LayersInv
      <4> QED BY <4>2, Finite
    <3>2. ThroughInv'
      BY <1>2, <2>5, <3>1 DEF Request, GoTo
    <3>3. PICK c \in Codes : answered' = [answered EXCEPT ![c] = @ + 1]
      BY <2>5 DEF Request, Codes
    <3>4. answered' \in [Codes -> Nat]
      BY <3>3
    <3>5. MetricsTypes'
      BY <2>5, <3>4 DEF Request
    <3> QED BY <3>2, <3>5
  <2>6. CASE Count(t)
    <3>1. ThroughInv'
      BY <1>2, <2>6 DEF Count, GoTo
    <3>2. counts' \in [Codes -> Nat]
      BY <2>6 DEF Count
    <3>3. torn' \in BOOLEAN
      BY <2>6 DEF Count, Resetting
    <3> QED BY <2>6, <3>1, <3>2, <3>3 DEF Count
  <2>7. CASE Observe(t)
    <3>1. through[t] \in 1..Cardinality(Makers)
      BY <2>7, Finite DEF Observe
    <3>2. ThroughInv'
      BY <1>2, <2>7, <3>1, Finite DEF Observe, GoTo
    <3>3. MetricsTypes'
      BY <2>7 DEF Observe
    <3> QED BY <3>2, <3>3
  <2> QED BY <2>2, <2>3, <2>4, <2>5, <2>6, <2>7 DEF TrackerStep
<1> QED BY <1>1, <1>2, <1>3

LEMMA ResettersKeepTypes ==
    ASSUME TypeInv, NEW r \in Resetters, ResetterStep(r)
    PROVE  TypeInv'
<1>1. TrackerTypes' /\ LayersInv' /\ ThroughInv'
  BY DEF TypeInv, TrackerTypes, LayersInv, ThroughInv, Done, ResetterStep, ResetCounts,
     ResetDurations, clients, trackers
<1>2. CASE ResetCounts(r)
  <2>1. answered' \in [Codes -> Nat] /\ counts' \in [Codes -> Nat]
    BY <1>2, Finite DEF ResetCounts
  <2>2. torn' \in BOOLEAN
    BY <1>2 DEF ResetCounts, Updating, TypeInv, MetricsTypes
  <2> QED BY <1>1, <1>2, <2>1, <2>2 DEF ResetCounts, TypeInv, MetricsTypes
<1>3. CASE ResetDurations(r)
  BY <1>1, <1>3 DEF ResetDurations, TypeInv, MetricsTypes
<1> QED BY <1>2, <1>3 DEF ResetterStep

LEMMA TypesInvariant == Spec => []TypeInv
<1>1. TypeInv /\ [Next]_vars => TypeInv'
  <2> SUFFICES ASSUME TypeInv, [Next]_vars PROVE TypeInv'
    OBVIOUS
  <2>1. CASE UNCHANGED vars
    BY <2>1 DEF vars, clients, trackers, metrics, TypeInv, TrackerTypes, LayersInv, ThroughInv,
       MetricsTypes, Done
  <2> QED BY <2>1, MakersKeepTypes, TrackersKeepTypes, ResettersKeepTypes DEF Next
<1> QED BY TypesInitially, <1>1, PTL DEF Spec

\* The variables stay in their types.
THEOREM TypeCorrect == Spec => []TypeOK
<1>1. TypeInv => TypeOK
  <2> SUFFICES ASSUME TypeInv PROVE TypeOK
    OBVIOUS
  <2>1. layers \in 0..Cardinality(Makers) /\ seen \in [Makers -> 0..Cardinality(Makers)]
    BY Finite DEF TypeInv, LayersInv
  <2> QED BY <2>1 DEF TypeInv, TrackerTypes, LayersInv, ThroughInv, MetricsTypes, Positions, Messages,
             TypeOK
<1> QED BY TypesInvariant, <1>1, PTL

-----------------------------------------------------------------------------
(* Counting.                                                               *)

\* A request is counted once for each layer: with one client, once.
LEMMA CountedOnceKept ==
    ASSUME Cardinality(Makers) = 1, TypeInv, CountedOnce, [Next]_vars
    PROVE  CountedOnce'
<1> USE DEF TypeInv
<1>0. \A c \in Codes : /\ counts[c] \in Nat /\ answered[c] \in Nat /\ Cardinality(Uncounted(c)) \in Nat
                      /\ counts[c] + Cardinality(Uncounted(c)) = answered[c]
  BY Finite DEF MetricsTypes, CountedOnce
<1>1. ASSUME UNCHANGED <<counts, answered>>, \A c \in Codes : Uncounted(c)' = Uncounted(c)
      PROVE  CountedOnce'
  BY <1>1 DEF CountedOnce
<1>2. ASSUME UNCHANGED <<tpc, code, counts, answered>> PROVE CountedOnce'
  BY <1>1, <1>2 DEF Uncounted
<1>3. ASSUME NEW t \in Trackers, Start(t) \/ TrackerStep(t) PROVE CountedOnce'
  <2> USE DEF TrackerTypes
  <2>1. CASE Request(t)
    <3>1. PICK c \in Codes : /\ code' = [code EXCEPT ![t] = c]
                             /\ answered' = [answered EXCEPT ![c] = @ + 1]
      BY <2>1 DEF Request, Codes
    <3>2. /\ t \notin Uncounted(c) /\ Uncounted(c)' = Uncounted(c) \cup {t}
          /\ \A d \in Codes \ {c} : Uncounted(d)' = Uncounted(d)
      BY <2>1, <3>1 DEF Request, GoTo, Uncounted
    <3>3. Cardinality(Uncounted(c)') = Cardinality(Uncounted(c)) + 1
      BY <3>2, Finite, FS_AddElement
    <3>4. \A d \in Codes : counts'[d] = counts[d]
      BY <2>1 DEF Request
    <3>5. answered'[c] = answered[c] + 1 /\ \A d \in Codes \ {c} : answered'[d] = answered[d]
      BY <3>1 DEF MetricsTypes
    <3>6. counts'[c] + Cardinality(Uncounted(c)') = answered'[c]
      <4>1. /\ counts[c] \in Nat /\ answered[c] \in Nat /\ Cardinality(Uncounted(c)) \in Nat
            /\ answered[c] = counts[c] + Cardinality(Uncounted(c))
        BY <1>0
      <4>2. counts'[c] = counts[c] /\ answered'[c] = answered[c] + 1
        BY <3>4, <3>5
      <4> HIDE DEF TypeInv, TrackerTypes
      <4> QED BY <3>3, <4>1, <4>2
    <3>7. \A d \in Codes \ {c} : counts'[d] + Cardinality(Uncounted(d)') = answered'[d]
      BY <1>0, <3>2, <3>4, <3>5
    <3> QED BY <3>6, <3>7 DEF CountedOnce
  <2>2. CASE Count(t)
    <3>1. PICK c \in Codes : code[t] = c
      OBVIOUS
    <3>2. /\ t \in Uncounted(c) /\ Uncounted(c)' = Uncounted(c) \ {t}
          /\ \A d \in Codes \ {c} : Uncounted(d)' = Uncounted(d)
      BY <2>2, <3>1 DEF Count, GoTo, Uncounted
    <3>3. Cardinality(Uncounted(c)') = Cardinality(Uncounted(c)) - 1
      BY <3>2, Finite, FS_RemoveElement
    <3>4. \A d \in Codes : answered'[d] = answered[d]
      BY <2>2 DEF Count
    <3>5. counts'[c] = counts[c] + 1 /\ \A d \in Codes \ {c} : counts'[d] = counts[d]
      BY <2>2, <3>1 DEF Count, MetricsTypes
    <3>6. counts'[c] + Cardinality(Uncounted(c)') = answered'[c]
      <4>1. /\ counts[c] \in Nat /\ answered[c] \in Nat /\ Cardinality(Uncounted(c)) \in Nat
            /\ answered[c] = counts[c] + Cardinality(Uncounted(c))
        BY <1>0
      <4>2. counts'[c] = counts[c] + 1 /\ answered'[c] = answered[c]
        BY <3>4, <3>5
      <4> HIDE DEF TypeInv, TrackerTypes
      <4> QED BY <3>3, <4>1, <4>2
    <3>7. \A d \in Codes \ {c} : counts'[d] + Cardinality(Uncounted(d)') = answered'[d]
      BY <1>0, <3>2, <3>4, <3>5
    <3> QED BY <3>6, <3>7 DEF CountedOnce
  <2>3. CASE Observe(t)
    <3>1. through[t] = 1
      BY <2>3 DEF Observe, ThroughInv
    <3>2. \A c \in Codes : Uncounted(c)' = Uncounted(c)
      BY <2>3, <3>1 DEF Observe, GoTo, Uncounted
    <3> QED BY <1>1, <2>3, <3>2 DEF Observe
  <2>4. ASSUME NEW p \in Positions \ {"count"}, tpc[t] # "count", tpc' = [tpc EXCEPT ![t] = p],
               UNCHANGED <<code, counts, answered>>
        PROVE  CountedOnce'
    <3>1. \A c \in Codes : Uncounted(c)' = Uncounted(c)
      BY <2>4 DEF Uncounted
    <3> QED BY <1>1, <2>4, <3>1
  <2>5. CASE Start(t)
    BY <2>4, <2>5 DEF Start, GoTo, Positions, metrics
  <2>6. CASE Connect(t)
    BY <2>4, <2>6 DEF Connect, GoTo, AfterConnect, Positions, metrics
  <2>7. CASE EnqueueTrack(t) \/ EnqueueIdentify(t) \/ EnqueueGroup(t) \/ Close(t)
    BY <2>4, <2>7 DEF EnqueueTrack, EnqueueIdentify, EnqueueGroup, Close, Enqueue, GoTo, Positions, metrics
  <2> QED BY <1>3, <2>1, <2>2, <2>3, <2>5, <2>6, <2>7 DEF TrackerStep
<1>4. ASSUME NEW r \in Resetters, ResetCounts(r) PROVE CountedOnce'
  <2>1. \A c \in Codes : Uncounted(c)' = Uncounted(c)
    BY <1>4 DEF ResetCounts, trackers, Uncounted
  <2>2. \A c \in Codes : counts'[c] = 0 /\ answered'[c] = Cardinality(Uncounted(c))
    BY <1>4 DEF ResetCounts
  <2> QED BY <2>1, <2>2, Finite DEF CountedOnce
<1> QED
  BY <1>2, <1>3, <1>4
  DEF Next, MakerStep, NewClient, WrapTransport, ResetterStep, ResetDurations, vars, trackers, metrics

\* With one client, as in a process that makes only one, every request is
\* counted once, whatever trackers and resets come between its answer and its
\* count.
THEOREM OneClientCountsOnce == ASSUME Cardinality(Makers) = 1 PROVE Spec => []CountedOnce
<1>1. Init => CountedOnce
  <2> SUFFICES ASSUME Init PROVE CountedOnce
    OBVIOUS
  <2>1. \A c \in Codes : Uncounted(c) = {}
    BY DEF Init, Uncounted
  <2>2. \A c \in Codes : counts[c] = 0 /\ answered[c] = 0
    BY DEF Init
  <2>3. \A c \in Codes : Cardinality(Uncounted(c)) = 0
    BY <2>1, FS_EmptySet
  <2> QED BY <2>2, <2>3 DEF CountedOnce
<1>2. TypeInv /\ CountedOnce /\ [Next]_vars => CountedOnce'
  BY CountedOnceKept
<1> QED BY <1>1, <1>2, TypesInvariant, PTL DEF Spec

-----------------------------------------------------------------------------
Observing(c) == {t \in Trackers : tpc[t] = "observe" /\ code[t] = c}

\* The counts are ahead of the histogram by the updates half done; between the
\* halves of a reset there is nothing counted yet, or an update was torn.
AgreeInv ==
    ~torn =>
        IF Resetting THEN ~Updating /\ counts = [c \in Codes |-> 0]
        ELSE \A c \in Codes : counts[c] = durations[c] + Cardinality(Observing(c))

LEMMA ObservingFinite == \A c : IsFiniteSet(Observing(c)) /\ Cardinality(Observing(c)) \in Nat
<1>1. \A c : Observing(c) \subseteq Trackers
  BY DEF Observing
<1> QED BY <1>1, ConstantsAssumption, FS_Subset, FS_CardinalityType

LEMMA AgreeKept == ASSUME TypeInv, AgreeInv, [Next]_vars PROVE AgreeInv'
<1> USE DEF TypeInv
<1>0. \A c \in Codes :
         /\ counts[c] \in Nat /\ durations[c] \in Nat /\ Cardinality(Observing(c)) \in Nat
         /\ ~torn /\ ~Resetting => counts[c] = durations[c] + Cardinality(Observing(c))
  BY ObservingFinite DEF MetricsTypes, AgreeInv
<1>1. ASSUME UNCHANGED <<counts, durations, torn, rpc>>, Updating' <=> Updating,
             \A c \in Codes : Observing(c)' = Observing(c)
      PROVE  AgreeInv'
  BY <1>1 DEF AgreeInv, Resetting
<1>2. ASSUME UNCHANGED <<tpc, code, counts, durations, torn, rpc>> PROVE AgreeInv'
  BY <1>1, <1>2 DEF Observing, Updating
<1>3. ASSUME NEW t \in Trackers, Start(t) \/ TrackerStep(t) PROVE AgreeInv'
  <2> USE DEF TrackerTypes
  <2>1. ASSUME tpc[t] # "observe", tpc'[t] # "observe", UNCHANGED <<counts, durations, torn, rpc>>,
               \A u \in Trackers \ {t} : tpc'[u] = tpc[u] /\ code'[u] = code[u]
        PROVE  AgreeInv'
    <3>1. \A c \in Codes : Observing(c)' = Observing(c)
      BY <2>1 DEF Observing
    <3>2. Updating' <=> Updating
      BY <2>1 DEF Updating
    <3> QED BY <1>1, <2>1, <3>1, <3>2
  <2>2. CASE Count(t)
    <3> SUFFICES ASSUME ~torn' PROVE AgreeInv'
      BY DEF AgreeInv
    <3>1. ~torn /\ ~Resetting /\ ~Resetting'
      BY <2>2 DEF Count, Resetting
    <3>2. PICK c \in Codes : code[t] = c
      OBVIOUS
    <3>3. /\ t \notin Observing(c) /\ Observing(c)' = Observing(c) \cup {t}
          /\ \A d \in Codes \ {c} : Observing(d)' = Observing(d)
      BY <2>2, <3>2 DEF Count, GoTo, Observing
    <3>4. Cardinality(Observing(c)') = Cardinality(Observing(c)) + 1
      BY <3>3, ObservingFinite, FS_AddElement
    <3>5. \A d \in Codes : durations'[d] = durations[d]
      BY <2>2 DEF Count
    <3>6. counts'[c] = counts[c] + 1 /\ \A d \in Codes \ {c} : counts'[d] = counts[d]
      BY <2>2, <3>2 DEF Count, MetricsTypes
    <3>7. counts'[c] = durations'[c] + Cardinality(Observing(c)')
      <4>1. /\ counts[c] \in Nat /\ durations[c] \in Nat /\ Cardinality(Observing(c)) \in Nat
            /\ counts[c] = durations[c] + Cardinality(Observing(c))
        BY <1>0, <3>1
      <4>2. counts'[c] = counts[c] + 1 /\ durations'[c] = durations[c]
        BY <3>5, <3>6
      <4> HIDE DEF TypeInv, TrackerTypes
      <4> QED BY <3>4, <4>1, <4>2
    <3>8. \A d \in Codes \ {c} : counts'[d] = durations'[d] + Cardinality(Observing(d)')
      BY <1>0, <3>1, <3>3, <3>5, <3>6
    <3> QED BY <3>1, <3>7, <3>8 DEF AgreeInv
  <2>3. CASE Observe(t)
    <3> SUFFICES ASSUME ~torn' PROVE AgreeInv'
      BY DEF AgreeInv
    <3>1. ~torn /\ Updating /\ (Resetting' <=> Resetting)
      BY <2>3 DEF Observe, Resetting, Updating
    <3>2. ~Resetting /\ ~Resetting'
      BY <3>1 DEF AgreeInv
    <3>3. PICK c \in Codes : code[t] = c
      OBVIOUS
    <3>4. /\ t \in Observing(c) /\ Observing(c)' = Observing(c) \ {t}
          /\ \A d \in Codes \ {c} : Observing(d)' = Observing(d)
      BY <2>3, <3>3 DEF Observe, GoTo, Observing
    <3>5. Cardinality(Observing(c)') = Cardinality(Observing(c)) - 1
      BY <3>4, ObservingFinite, FS_RemoveElement
    <3>6. \A d \in Codes : counts'[d] = counts[d]
      BY <2>3 DEF Observe
    <3>7. durations'[c] = durations[c] + 1 /\ \A d \in Codes \ {c} : durations'[d] = durations[d]
      BY <2>3, <3>3 DEF Observe, MetricsTypes
    <3>8. counts'[c] = durations'[c] + Cardinality(Observing(c)')
      <4>1. /\ counts[c] \in Nat /\ durations[c] \in Nat /\ Cardinality(Observing(c)) \in Nat
            /\ counts[c] = durations[c] + Cardinality(Observing(c))
        BY <1>0, <3>1, <3>2
      <4>2. counts'[c] = counts[c] /\ durations'[c] = durations[c] + 1
        BY <3>6, <3>7
      <4> HIDE DEF TypeInv, TrackerTypes
      <4> QED BY <3>5, <4>1, <4>2
    <3>9. \A d \in Codes \ {c} : counts'[d] = durations'[d] + Cardinality(Observing(d)')
      BY <1>0, <3>1, <3>2, <3>4, <3>6, <3>7
    <3> QED BY <3>2, <3>8, <3>9 DEF AgreeInv
  <2>4. CASE Start(t)
    BY <2>1, <2>4 DEF Start, GoTo, metrics
  <2>5. CASE Connect(t)
    BY <2>1, <2>5 DEF Connect, GoTo, AfterConnect, metrics
  <2>6. CASE EnqueueTrack(t) \/ EnqueueIdentify(t) \/ EnqueueGroup(t) \/ Close(t)
    BY <2>1, <2>6 DEF EnqueueTrack, EnqueueIdentify, EnqueueGroup, Close, Enqueue, GoTo, metrics
  <2>7. CASE Request(t)
    BY <2>1, <2>7 DEF Request, GoTo
  <2> QED BY <1>3, <2>2, <2>3, <2>4, <2>5, <2>6, <2>7 DEF TrackerStep
<1>4. ASSUME NEW r \in Resetters, ResetCounts(r) PROVE AgreeInv'
  <2> SUFFICES ASSUME ~torn' PROVE AgreeInv'
    BY DEF AgreeInv
  <2>1. ~torn /\ ~Updating /\ ~Updating'
    BY <1>4 DEF ResetCounts, Updating, trackers
  <2>2. Resetting'
    BY <1>4 DEF ResetCounts, Resetting, MetricsTypes
  <2> QED BY <1>4, <2>1, <2>2 DEF ResetCounts, AgreeInv
<1>5. ASSUME NEW r \in Resetters, ResetDurations(r) PROVE AgreeInv'
  <2> SUFFICES ASSUME ~torn' PROVE AgreeInv'
    BY DEF AgreeInv
  <2>1. ~torn /\ Resetting
    BY <1>5 DEF ResetDurations, Resetting
  <2>2. ~Updating /\ ~Updating' /\ counts' = [c \in Codes |-> 0] /\ durations' = [c \in Codes |-> 0]
    BY <1>5, <2>1 DEF ResetDurations, AgreeInv, Updating, trackers
  <2>3. \A c \in Codes : Observing(c)' = {}
    BY <2>2 DEF Updating, Observing
  <2>4. \A c \in Codes : counts'[c] = durations'[c] + Cardinality(Observing(c)')
    BY <2>2, <2>3, FS_EmptySet
  <2> QED BY <2>2, <2>4 DEF AgreeInv
<1> QED
  BY <1>2, <1>3, <1>4, <1>5
  DEF Next, MakerStep, NewClient, WrapTransport, ResetterStep, vars, trackers, metrics

\* The histogram agrees with the counter when nothing is under way, unless a
\* reset has come in the middle of an update.
THEOREM HistogramAgrees == Spec => []MetricsAgree
<1>1. Init => AgreeInv
  <2> SUFFICES ASSUME Init PROVE AgreeInv
    OBVIOUS
  <2>1. ~Resetting /\ \A c \in Codes : Observing(c) = {}
    BY DEF Init, Resetting, Observing
  <2>2. \A c \in Codes : counts[c] = 0 /\ durations[c] = 0
    BY DEF Init
  <2>3. \A c \in Codes : Cardinality(Observing(c)) = 0
    BY <2>1, FS_EmptySet
  <2> QED BY <2>1, <2>2, <2>3 DEF AgreeInv
<1>2. TypeInv /\ AgreeInv /\ [Next]_vars => AgreeInv'
  BY AgreeKept
<1>3. TypeInv /\ AgreeInv => MetricsAgree
  <2> SUFFICES ASSUME TypeInv, AgreeInv, ~torn, ~Updating, ~Resetting PROVE counts = durations
    BY DEF MetricsAgree
  <2>1. \A c \in Codes : Observing(c) = {}
    BY DEF Updating, Observing
  <2>2. \A c \in Codes : counts[c] = durations[c]
    BY <2>1, FS_EmptySet DEF AgreeInv, TypeInv, MetricsTypes
  <2> QED BY <2>2 DEF TypeInv, MetricsTypes
<1> QED BY <1>1, <1>2, <1>3, TypesInvariant, PTL DEF Spec

=============================================================================
