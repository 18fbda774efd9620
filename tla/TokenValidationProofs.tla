------------------------ MODULE TokenValidationProofs ------------------------
(***************************************************************************)
(* Proofs about TokenValidation, for any organisations, tokens, requests,  *)
(* configuration and number of changes in AMS.                             *)
(*                                                                         *)
(* Two inductive invariants.  Grounded holds for any number of polling     *)
(* loops: the list, the flag and every answer in flight are copies of      *)
(* something AMS said.  Ordered needs the loop to be the only one (the     *)
(* code asks for StartPolling to be called once): then answers arrive in   *)
(* the order AMS gave them, so that what a handler reads in its second and *)
(* third critical section is never older than what was known when its      *)
(* request arrived.                                                        *)
(***************************************************************************)
EXTENDS TokenValidation, TLAPS

OnePoller == \A p, q \in Pollers : p = q

ListOf(i) == IF i = 0 THEN {} ELSE amsLog[i].orgs
FlagOf(i) == IF i = 0 THEN FALSE ELSE amsLog[i].flag

\* What the middleware knows, and what refreshers are about to install, are
\* copies of what AMS said.
Copied ==
    /\ restricted = ListOf(listAt) /\ enforce = FlagOf(flagAt)
    /\ \A t \in Threads :
          /\ tpc[t] \in {"orgs", "install"} =>
                gotAt[t] > 0 /\ heldAt[t] <= gotAt[t] /\ got[t] = ListOf(gotAt[t])
          /\ tpc[t] = "setFlag" =>
                gotAt[t] > 0 /\ heldAt[t] <= gotAt[t] /\ gotFlag[t] = FlagOf(gotAt[t])

\* A handler has no verdict while it reads.
Undecided(r) == rpc[r] \in {"idle", "flag", "count", "lookup"} => verdict[r] = "none"

Grounded == TypeOK /\ Copied /\ \A r \in Requests : Undecided(r)

\* The constructor comes first, and an answer is no older than what it replaces.
RefreshersOrdered ==
    /\ ~Constructed =>
          /\ \A p \in Pollers : tpc[p] = "idle"
          /\ \A r \in Requests : rpc[r] = "idle"
    /\ \A t \in Threads :
          /\ tpc[t] \in {"orgs", "install"} => listAt <= gotAt[t]
          /\ tpc[t] = "setFlag" => flagAt <= gotAt[t]

HandlerOrdered(r) ==
    /\ rpc[r] # "idle" => arrivedList[r] <= listAt /\ arrivedFlag[r] <= flagAt
    /\ rpc[r] \in {"count", "lookup"} => \E i \in Since(arrivedFlag[r]) : amsLog[i].flag
    /\ verdict[r] = "restricted" =>
          /\ \E i \in Since(arrivedList[r]) : OrgOf(token[r]) \in amsLog[i].orgs
          /\ \E i \in Since(arrivedFlag[r]) : amsLog[i].flag
    /\ Decided(r) /\ Guarded(r) => verdict[r] = "restricted"

Ordered == RefreshersOrdered /\ \A r \in Requests : HandlerOrdered(r)

-----------------------------------------------------------------------------
\* AMS going on leaves what it said before where it was.
LEMMA LogGrows ==
    ASSUME TypeOK, AmsChange
    PROVE  /\ amsLog' \in Seq(AmsStates) /\ Len(amsLog') = Len(amsLog) + 1
           /\ \A i \in 1..Len(amsLog) : amsLog'[i] = amsLog[i]
           /\ Len(amsLog) \in Nat /\ Len(amsLog) > 0
<1>1. PICK a \in AmsStates : amsLog' = Append(amsLog, a)
  BY DEF AmsChange
<1>2. amsLog \in Seq(AmsStates) /\ amsLog # <<>>
  BY DEF TypeOK
<1> QED BY <1>1, <1>2

\* What AMS says now is the last thing it said, and well typed.
LEMMA NowIsLast ==
    ASSUME TypeOK
    PROVE  /\ Len(amsLog) \in 1..Len(amsLog) /\ Len(amsLog) > 0
           /\ AmsNow \in AmsStates /\ AmsNow.orgs \subseteq OrgIds /\ AmsNow.flag \in BOOLEAN
           /\ AmsNow.orgs = ListOf(Len(amsLog)) /\ AmsNow.flag = FlagOf(Len(amsLog))
<1>1. amsLog \in Seq(AmsStates) /\ amsLog # <<>>
  BY DEF TypeOK
<1>2. Len(amsLog) \in 1..Len(amsLog) /\ Len(amsLog) > 0 /\ AmsNow \in AmsStates
  BY <1>1 DEF AmsNow
<1>3. AmsStates \subseteq [orgs : SUBSET OrgIds, flag : BOOLEAN]
  BY ConstantsAssumption
<1>4. AmsNow.orgs \subseteq OrgIds /\ AmsNow.flag \in BOOLEAN
  BY <1>2, <1>3
<1>5. Len(amsLog) # 0
  BY <1>2
<1>6. AmsNow.orgs = ListOf(Len(amsLog)) /\ AmsNow.flag = FlagOf(Len(amsLog))
  BY <1>5, Zenon DEF AmsNow, ListOf, FlagOf
<1> QED BY <1>2, <1>4, <1>6

\* The verdicts that a token gets whatever AMS says: never "restricted".
TokenVerdicts == {"ok", "badToken", "badOrg", "missingScopes", "deniedScopes"}

\* The claims alone never give the verdict "restricted".
LEMMA ScopesVerdictType ==
    /\ \A k : ScopesVerdict(k) \in TokenVerdicts
    /\ "badToken" \in TokenVerdicts /\ "badOrg" \in TokenVerdicts
BY DEF ScopesVerdict, ClaimsVerdict, TokenVerdicts

\* The variables have their types at the start.
LEMMA TypeInit == Init => TypeOK
<1> SUFFICES ASSUME Init PROVE TypeOK
  OBVIOUS
<1>1. PICK a \in AmsStates : amsLog = <<a>>
  BY DEF Init
<1>2. amsLog \in Seq(AmsStates) /\ amsLog # <<>> /\ Len(amsLog) = 1
  BY <1>1
<1>3. tpc \in [Threads -> {"idle", "labels", "orgs", "install", "flag", "setFlag",
                            "wait", "stopped"}]
  BY DEF Init
<1>4. /\ got \in [Threads -> SUBSET OrgIds] /\ gotFlag \in [Threads -> BOOLEAN]
      /\ cancellable \in [Threads -> BOOLEAN] /\ cancelled \in [Threads -> BOOLEAN]
      /\ gotAt \in [Threads -> 0..Len(amsLog)] /\ heldAt \in [Threads -> 0..Len(amsLog)]
  BY <1>2 DEF Init
<1>5. /\ rpc \in [Requests -> {"idle", "flag", "count", "lookup", "respond", "done"}]
      /\ token \in [Requests -> Tokens \cup {NoToken}]
      /\ verdict \in [Requests -> {"none", "ok", "badToken", "badOrg", "restricted",
                                   "missingScopes", "deniedScopes"}]
      /\ status \in [Requests -> {"none", "next", "callback", "unauthorized"}]
      /\ served \in [Requests -> BOOLEAN]
  BY DEF Init
<1>6. /\ arrivedList \in [Requests -> 0..Len(amsLog)]
      /\ arrivedFlag \in [Requests -> 0..Len(amsLog)]
      /\ listAt \in 0..Len(amsLog) /\ flagAt \in 0..Len(amsLog)
  BY <1>2 DEF Init
<1>7. amsUp \in BOOLEAN /\ restricted \in SUBSET OrgIds /\ enforce \in BOOLEAN
  BY DEF Init
<1> QED BY <1>2, <1>3, <1>4, <1>5, <1>6, <1>7 DEF TypeOK

\* Steps of refreshers keep the types.
LEMMA TypeRefresh ==
    ASSUME TypeOK, NEW t \in Threads,
           StartPolling(t) \/ Start(t) \/ Cancel(t) \/ Select(t) \/ RefreshStep(t)
    PROVE  TypeOK'
<1> USE DEF TypeOK, ams, fields, refreshers, handlers, RoundEnds, Forget
<1>1. CASE StartPolling(t) \/ Start(t) \/ Cancel(t)
  <2>1. CASE StartPolling(t)
    BY <2>1 DEF StartPolling
  <2>2. CASE Start(t)
    BY <2>2 DEF Start
  <2>3. CASE Cancel(t)
    BY <2>3 DEF Cancel
  <2> QED BY <1>1, <2>1, <2>2, <2>3
<1>2. CASE Select(t)
  BY <1>2 DEF Select, Tick, ContextDone
<1>3. CASE LabelsAnswer(t)
  <2>1. \E l \in {"orgs", "install"} : tpc' = [tpc EXCEPT ![t] = l]
    BY <1>3 DEF LabelsAnswer, AfterLabels
  <2>2. tpc' \in [Threads -> {"idle", "labels", "orgs", "install", "flag", "setFlag",
                             "wait", "stopped"}]
    BY <2>1
  <2>3. /\ got' \in [Threads -> SUBSET OrgIds] /\ gotAt' \in [Threads -> 0..Len(amsLog)]
        /\ heldAt' \in [Threads -> 0..Len(amsLog)]
    BY <1>3, NowIsLast DEF LabelsAnswer
  <2>4. UNCHANGED <<ams, fields, gotFlag, cancellable, cancelled, handlers>>
    BY <1>3 DEF LabelsAnswer
  <2> QED BY <2>2, <2>3, <2>4
<1>4. CASE OrgsAnswer(t)
  BY <1>4 DEF OrgsAnswer
<1>5. CASE PopulateFails(t)
  BY <1>5 DEF PopulateFails
<1>6. CASE InstallOrgs(t)
  BY <1>6 DEF InstallOrgs
<1>7. CASE FlagAnswer(t)
  BY <1>7, NowIsLast DEF FlagAnswer
<1>8. CASE FlagFails(t)
  BY <1>8 DEF FlagFails
<1>9. CASE InstallFlag(t)
  BY <1>9 DEF InstallFlag
<1> QED BY <1>1, <1>2, <1>3, <1>4, <1>5, <1>6, <1>7, <1>8, <1>9 DEF RefreshStep

\* Steps of handlers keep the types.
LEMMA TypeHandle ==
    ASSUME TypeOK, NEW r \in Requests, Arrive(r) \/ RequestStep(r)
    PROVE  TypeOK'
<1> USE DEF TypeOK, ams, fields, refreshers, handlers, GoTo, Decide
<1>1. CASE Arrive(r)
  <2>1. \/ Decide(r, "ok")
        \/ GoTo(r, "flag")
    BY <1>1 DEF Arrive
  <2>2. token' \in [Requests -> Tokens \cup {NoToken}]
    BY <1>1 DEF Arrive
  <2> QED BY <1>1, <2>1, <2>2 DEF Arrive
<1>2. CASE ReadFlag(r)
  <2>1. \/ GoTo(r, "count")
        \/ \E v \in TokenVerdicts : Decide(r, v)
    BY <1>2, ScopesVerdictType, Zenon DEF ReadFlag
  <2>2. UNCHANGED <<ams, fields, refreshers, token, status, served, arrivedList, arrivedFlag>>
    BY <1>2 DEF ReadFlag
  <2>3. CASE GoTo(r, "count")
    BY <2>2, <2>3
  <2>4. ASSUME NEW v \in TokenVerdicts, Decide(r, v) PROVE TypeOK'
    BY <2>2, <2>4 DEF TokenVerdicts
  <2> QED BY <2>1, <2>3, <2>4
<1>3. CASE ReadCount(r)
  <2>1. \/ GoTo(r, "lookup")
        \/ \E v \in TokenVerdicts : Decide(r, v)
    BY <1>3, ScopesVerdictType, Zenon DEF ReadCount
  <2>2. UNCHANGED <<ams, fields, refreshers, token, status, served, arrivedList, arrivedFlag>>
    BY <1>3 DEF ReadCount
  <2>3. CASE GoTo(r, "lookup")
    BY <2>2, <2>3
  <2>4. ASSUME NEW v \in TokenVerdicts, Decide(r, v) PROVE TypeOK'
    BY <2>2, <2>4 DEF TokenVerdicts
  <2> QED BY <2>1, <2>3, <2>4
<1>4. CASE Lookup(r)
  BY <1>4, ScopesVerdictType DEF Lookup, TokenVerdicts
<1>5. CASE Respond(r)
  BY <1>5 DEF Respond
<1> QED BY <1>1, <1>2, <1>3, <1>4, <1>5 DEF RequestStep

\* Every step keeps the types.
LEMMA TypeStep == TypeOK /\ [Next]_vars => TypeOK'
<1> SUFFICES ASSUME TypeOK, [Next]_vars PROVE TypeOK'
  OBVIOUS
<1>1. CASE AmsChange
  <2>1. amsLog' \in Seq(AmsStates) /\ amsLog' # <<>>
    BY <1>1, LogGrows
  <2>2. \A i \in 0..Len(amsLog) : i \in 0..Len(amsLog')
    BY <1>1, LogGrows
  <2> QED BY <1>1, <2>1, <2>2 DEF TypeOK, AmsChange, fields, refreshers, handlers
<1>2. CASE AmsOutage
  BY <1>2 DEF TypeOK, AmsOutage, fields, refreshers, handlers
<1>3. CASE UNCHANGED vars
  BY <1>3 DEF TypeOK, vars, ams, fields, refreshers, handlers
<1> QED BY <1>1, <1>2, <1>3, TypeRefresh, TypeHandle DEF Next

\* The variables keep their types, and positions stay within AMS's history
\* (TypeOK), for any number of polling loops.
THEOREM TypeCorrect == Spec => []TypeOK
BY TypeInit, TypeStep, PTL DEF Spec

-----------------------------------------------------------------------------
(* Grounded, for any number of polling loops.                              *)

\* Nothing is known at the start, and nothing has been refused.
LEMMA GroundedInit == Init => Grounded
<1> SUFFICES ASSUME Init PROVE Grounded
  OBVIOUS
<1>1. Copied
  BY DEF Init, Copied, ListOf, FlagOf
<1>2. \A r \in Requests : Undecided(r)
  BY DEF Init, Undecided
<1> QED BY <1>1, <1>2, TypeInit DEF Grounded

\* What AMS said at a position stays what it said there, and Since grows.
LEMMA AmsChangeKeeps ==
    ASSUME TypeOK, AmsChange
    PROVE  /\ \A i \in 0..Len(amsLog) : ListOf(i)' = ListOf(i) /\ FlagOf(i)' = FlagOf(i)
           /\ \A i \in Nat : \A j \in Since(i) : j \in Since(i)' /\ amsLog'[j] = amsLog[j]
<1>1. /\ \A i \in 1..Len(amsLog) : amsLog'[i] = amsLog[i]
      /\ Len(amsLog') = Len(amsLog) + 1 /\ Len(amsLog) \in Nat
  BY LogGrows
<1>2. \A i \in Nat : \A j \in Since(i) : j \in Since(i)' /\ amsLog'[j] = amsLog[j]
  BY <1>1 DEF Since
<1>3. \A i \in 0..Len(amsLog) : i # 0 => i \in 1..Len(amsLog)
  BY <1>1
<1> QED BY <1>1, <1>2, <1>3, Zenon DEF ListOf, FlagOf

\* A change of AMS leaves every copy a copy of what AMS said.
LEMMA GroundedAmsChange == Grounded /\ AmsChange => Grounded'
<1> SUFFICES ASSUME Grounded, AmsChange PROVE Grounded'
  OBVIOUS
<1>0. TypeOK /\ TypeOK'
  BY TypeStep DEF Grounded, Next
<1>1. Copied'
  <2>1. listAt \in 0..Len(amsLog) /\ flagAt \in 0..Len(amsLog)
    BY <1>0 DEF TypeOK
  <2>2. restricted' = ListOf(listAt)' /\ enforce' = FlagOf(flagAt)'
    BY <1>0, <2>1, AmsChangeKeeps DEF Grounded, Copied, AmsChange, fields
  <2>3. ASSUME NEW t \in Threads
        PROVE  /\ tpc'[t] \in {"orgs", "install"} =>
                      gotAt'[t] > 0 /\ heldAt'[t] <= gotAt'[t] /\ got'[t] = ListOf(gotAt[t])'
               /\ tpc'[t] = "setFlag" =>
                      gotAt'[t] > 0 /\ heldAt'[t] <= gotAt'[t] /\ gotFlag'[t] = FlagOf(gotAt[t])'
    <3>1. gotAt[t] \in 0..Len(amsLog)
      BY <1>0 DEF TypeOK
    <3> QED BY <1>0, <3>1, AmsChangeKeeps DEF Grounded, Copied, AmsChange, refreshers
  <2> QED BY <2>2, <2>3 DEF Copied
<1>2. ASSUME NEW r \in Requests PROVE Undecided(r)'
  BY DEF Grounded, Undecided, AmsChange, handlers
<1> QED BY <1>0, <1>1, <1>2 DEF Grounded

\* A refresher copies what AMS says, and installs what it copied.
LEMMA CopiedRefresh ==
    ASSUME Grounded, NEW t \in Threads,
           StartPolling(t) \/ Start(t) \/ Cancel(t) \/ Select(t) \/ RefreshStep(t)
    PROVE  Copied'
<1> USE DEF Grounded, Copied, TypeOK, ListOf, FlagOf, ams, fields, refreshers, RoundEnds, Forget
<1>0. ASSUME StartPolling(t) \/ Start(t) \/ Cancel(t) \/ Select(t)
      PROVE  /\ UNCHANGED <<amsLog, restricted, enforce, listAt, flagAt, got, gotFlag, gotAt,
                           heldAt>>
             /\ \A u \in Threads : tpc'[u] \in {"orgs", "install", "setFlag"} => tpc'[u] = tpc[u]
  BY <1>0, ZenonT(30) DEF StartPolling, Start, Cancel, Select, Tick, ContextDone
<1>1. CASE StartPolling(t) \/ Start(t) \/ Cancel(t) \/ Select(t)
  BY <1>0, <1>1, ZenonT(30)
<1>2. Len(amsLog) > 0 /\ listAt <= Len(amsLog) /\ flagAt <= Len(amsLog)
  BY NowIsLast
<1>3. CASE LabelsAnswer(t)
  <2>1. /\ UNCHANGED <<amsLog, restricted, enforce, listAt, flagAt, gotFlag>>
        /\ gotAt'[t] > 0 /\ heldAt'[t] <= gotAt'[t] /\ tpc'[t] \in {"orgs", "install"}
    BY <1>2, <1>3 DEF LabelsAnswer, AfterLabels
  <2>2. got'[t] = ListOf(gotAt[t])'
    <3>1. gotAt'[t] = Len(amsLog) /\ got'[t] = AmsNow.orgs
      BY <1>3 DEF LabelsAnswer
    <3> QED BY <2>1, <3>1, NowIsLast
  <2>3. ASSUME NEW u \in Threads, u # t
        PROVE  /\ tpc'[u] = tpc[u] /\ got'[u] = got[u] /\ gotFlag'[u] = gotFlag[u]
               /\ gotAt'[u] = gotAt[u] /\ heldAt'[u] = heldAt[u]
    BY <1>3, <2>3, Zenon DEF LabelsAnswer, AfterLabels
  <2> QED BY <2>1, <2>2, <2>3, ZenonT(30)
<1>4. CASE OrgsAnswer(t)
  <2>1. /\ UNCHANGED <<amsLog, restricted, enforce, listAt, flagAt, got, gotFlag, gotAt, heldAt>>
        /\ tpc[t] = "orgs" /\ tpc' = [tpc EXCEPT ![t] = "install"]
    BY <1>4 DEF OrgsAnswer
  <2> QED BY <2>1
<1>5. CASE PopulateFails(t)
  BY <1>5 DEF PopulateFails
<1>6. CASE InstallOrgs(t)
  BY <1>6 DEF InstallOrgs
<1>7. CASE FlagAnswer(t)
  <2>1. /\ UNCHANGED <<amsLog, restricted, enforce, listAt, flagAt, got>>
        /\ gotAt'[t] > 0 /\ heldAt'[t] <= gotAt'[t] /\ tpc'[t] = "setFlag"
    BY <1>2, <1>7 DEF FlagAnswer
  <2>2. gotFlag'[t] = FlagOf(gotAt[t])'
    <3>1. gotAt'[t] = Len(amsLog) /\ gotFlag'[t] = AmsNow.flag
      BY <1>7 DEF FlagAnswer
    <3> QED BY <2>1, <3>1, NowIsLast
  <2>3. ASSUME NEW u \in Threads, u # t
        PROVE  /\ tpc'[u] = tpc[u] /\ gotFlag'[u] = gotFlag[u]
               /\ gotAt'[u] = gotAt[u] /\ heldAt'[u] = heldAt[u]
    BY <1>7, <2>3, Zenon DEF FlagAnswer
  <2> QED BY <2>1, <2>2, <2>3, ZenonT(30)
<1>8. CASE FlagFails(t)
  BY <1>8 DEF FlagFails
<1>9. CASE InstallFlag(t)
  BY <1>9 DEF InstallFlag
<1> QED BY <1>1, <1>3, <1>4, <1>5, <1>6, <1>7, <1>8, <1>9 DEF RefreshStep

\* A refresher does not touch the handlers, nor forget that it knew anything.
LEMMA RefreshFrame ==
    ASSUME Grounded, NEW t \in Threads,
           StartPolling(t) \/ Start(t) \/ Cancel(t) \/ Select(t) \/ RefreshStep(t)
    PROVE  /\ UNCHANGED <<ams, handlers>>
           /\ \/ UNCHANGED <<listAt, flagAt>>
              \/ tpc[t] = "install" /\ listAt' = gotAt[t] /\ gotAt[t] > 0 /\ UNCHANGED flagAt
              \/ tpc[t] = "setFlag" /\ flagAt' = gotAt[t] /\ gotAt[t] > 0 /\ UNCHANGED listAt
BY DEF Grounded, Copied, fields, StartPolling, Start, Cancel, Select, Tick, ContextDone,
       RefreshStep, LabelsAnswer, OrgsAnswer, PopulateFails, InstallOrgs, FlagAnswer,
       FlagFails, InstallFlag

\* A refresher keeps copies copies and disturbs no handler.
LEMMA GroundedRefresh ==
    ASSUME Grounded, NEW t \in Threads,
           StartPolling(t) \/ Start(t) \/ Cancel(t) \/ Select(t) \/ RefreshStep(t)
    PROVE  Grounded'
<1>1. TypeOK'
  BY TypeRefresh DEF Grounded
<1>2. Copied'
  BY CopiedRefresh
<1>3. ASSUME NEW r \in Requests PROVE Undecided(r)'
  BY RefreshFrame DEF Grounded, Undecided, handlers
<1> QED BY <1>1, <1>2, <1>3 DEF Grounded

\* What a handler reads is what AMS said.
LEMMA ReadGrounded ==
    ASSUME Grounded
    PROVE  /\ enforce => flagAt \in Since(1) /\ amsLog[flagAt].flag
           /\ \A o \in restricted : listAt \in Since(1) /\ o \in amsLog[listAt].orgs
<1>1. listAt \in 0..Len(amsLog) /\ flagAt \in 0..Len(amsLog)
  BY DEF Grounded, TypeOK
<1>2. enforce => flagAt # 0 /\ amsLog[flagAt].flag
  BY DEF Grounded, Copied, FlagOf
<1>3. \A o \in restricted : listAt # 0 /\ o \in amsLog[listAt].orgs
  BY DEF Grounded, Copied, ListOf
<1> QED BY <1>1, <1>2, <1>3 DEF Since

\* A handler writes no field, and decides when it has done reading.
LEMMA GroundedHandle ==
    ASSUME Grounded, NEW r \in Requests, Arrive(r) \/ RequestStep(r)
    PROVE  Grounded'
<1>1. TypeOK'
  BY TypeHandle DEF Grounded
<1>2. UNCHANGED <<ams, fields, refreshers>>
  BY DEF Arrive, RequestStep, ReadFlag, ReadCount, Lookup, Respond
<1>3. Copied'
  BY <1>2 DEF Grounded, Copied, ListOf, FlagOf, ams, fields, refreshers
<1>4. ASSUME NEW q \in Requests PROVE Undecided(q)'
  <2> USE DEF Grounded, TypeOK
  <2>1. \/ UNCHANGED verdict
        \/ \E v : Decide(r, v)
    BY Zenon DEF Arrive, RequestStep, ReadFlag, ReadCount, Lookup, Respond, GoTo
  <2>2. CASE \E v : Decide(r, v)
    BY <2>2 DEF Decide, Undecided
  <2>3. CASE UNCHANGED verdict
    <3>1. rpc'[q] = rpc[q] \/ rpc'[q] = "done" \/ rpc[q] \in {"idle", "flag", "count", "lookup"}
      BY DEF Arrive, RequestStep, ReadFlag, ReadCount, Lookup, Respond, GoTo, Decide
    <3> QED BY <2>3, <3>1 DEF Undecided
  <2> QED BY <2>1, <2>2, <2>3
<1> QED BY <1>1, <1>3, <1>4 DEF Grounded

\* Every step keeps Grounded.
LEMMA GroundedStep == Grounded /\ [Next]_vars => Grounded'
<1> SUFFICES ASSUME Grounded, [Next]_vars PROVE Grounded'
  OBVIOUS
<1>1. CASE AmsOutage \/ UNCHANGED vars
  <2>1. TypeOK'
    BY <1>1, TypeStep DEF Grounded, Next
  <2> QED BY <1>1, <2>1 DEF Grounded, Copied, Undecided, ListOf, FlagOf, Since,
                            AmsOutage, vars, ams, fields, refreshers, handlers
<1> QED BY <1>1, GroundedAmsChange, GroundedRefresh, GroundedHandle DEF Next

\* The list, the flag and the answers in flight are always copies of something
\* AMS said, for any number of polling loops.
THEOREM AlwaysGrounded == Spec => []Grounded
BY GroundedInit, GroundedStep, PTL DEF Spec

\* A round ends with the whole of an answer that AMS gave when the field held
\* nothing newer, and no step but the end of a round touches the fields.
LEMMA StepIsRecent ==
    ASSUME Grounded, [Next]_vars
    PROVE  /\ \A t \in Threads :
                 /\ tpc[t] = "install" /\ tpc'[t] # "install" =>
                       \E i \in Since(heldAt[t]) : restricted' = amsLog[i].orgs
                 /\ tpc[t] = "setFlag" /\ tpc'[t] # "setFlag" =>
                       \E i \in Since(heldAt[t]) : enforce' = amsLog[i].flag
           /\ restricted' # restricted =>
                 \E t \in Threads : tpc[t] = "install" /\ tpc'[t] # "install"
           /\ enforce' # enforce =>
                 \E t \in Threads : tpc[t] = "setFlag" /\ tpc'[t] # "setFlag"
<1> DEFINE Recent ==
      /\ \A t \in Threads :
            /\ tpc[t] = "install" /\ tpc'[t] # "install" =>
                  \E i \in Since(heldAt[t]) : restricted' = amsLog[i].orgs
            /\ tpc[t] = "setFlag" /\ tpc'[t] # "setFlag" =>
                  \E i \in Since(heldAt[t]) : enforce' = amsLog[i].flag
      /\ restricted' # restricted =>
            \E t \in Threads : tpc[t] = "install" /\ tpc'[t] # "install"
      /\ enforce' # enforce =>
            \E t \in Threads : tpc[t] = "setFlag" /\ tpc'[t] # "setFlag"
<1> SUFFICES Recent
  OBVIOUS
<1>1. ASSUME UNCHANGED <<tpc, restricted, enforce>> PROVE Recent
  BY <1>1
<1>2. CASE AmsChange \/ AmsOutage \/ UNCHANGED vars
  BY <1>1, <1>2 DEF AmsChange, AmsOutage, vars, fields, refreshers
<1>3. ASSUME NEW r \in Requests, Arrive(r) \/ RequestStep(r) PROVE Recent
  BY <1>1, <1>3 DEF Arrive, RequestStep, ReadFlag, ReadCount, Lookup, Respond, fields, refreshers
<1>4. ASSUME NEW t \in Threads,
             StartPolling(t) \/ Start(t) \/ Cancel(t) \/ Select(t) \/ RefreshStep(t)
      PROVE  Recent
  <2>1. /\ TypeOK /\ tpc \in [Threads -> {"idle", "labels", "orgs", "install", "flag", "setFlag",
                                          "wait", "stopped"}]
        /\ heldAt[t] \in Nat /\ gotAt[t] \in 0..Len(amsLog) /\ Len(amsLog) \in Nat
    BY NowIsLast DEF Grounded, TypeOK
  <2>2. \A u \in Threads \ {t} : tpc'[u] = tpc[u]
    BY <1>4, <2>1 DEF StartPolling, Start, Cancel, Select, Tick, ContextDone, RefreshStep,
          LabelsAnswer, AfterLabels, OrgsAnswer, PopulateFails, InstallOrgs, FlagAnswer, FlagFails,
          InstallFlag, RoundEnds, refreshers
  <2>3. CASE InstallOrgs(t)
    <3>1. /\ tpc[t] = "install" /\ tpc'[t] = "flag" /\ restricted' = got[t]
          /\ UNCHANGED enforce
      BY <2>1, <2>3 DEF InstallOrgs
    <3>2. gotAt[t] > 0 /\ heldAt[t] <= gotAt[t] /\ got[t] = amsLog[gotAt[t]].orgs
      BY <2>1, <3>1 DEF Grounded, Copied, ListOf
    <3>3. gotAt[t] \in Since(heldAt[t]) /\ restricted' = amsLog[gotAt[t]].orgs
      BY <2>1, <3>1, <3>2 DEF Since
    <3> QED BY <2>2, <3>1, <3>3
  <2>4. CASE InstallFlag(t)
    <3>1. /\ tpc[t] = "setFlag" /\ tpc'[t] # "setFlag" /\ enforce' = gotFlag[t]
          /\ UNCHANGED restricted
      BY <2>1, <2>4 DEF InstallFlag, RoundEnds
    <3>2. gotAt[t] > 0 /\ heldAt[t] <= gotAt[t] /\ gotFlag[t] = FlagOf(gotAt[t])
      BY <2>1, <3>1 DEF Grounded, Copied
    <3>3. gotFlag[t] = amsLog[gotAt[t]].flag
      <4>1. gotAt[t] # 0
        BY <2>1, <3>2
      <4> QED BY <3>2, <4>1, Zenon DEF FlagOf
    <3>4. gotAt[t] \in Since(heldAt[t]) /\ enforce' = amsLog[gotAt[t]].flag
      BY <2>1, <3>1, <3>2, <3>3 DEF Since
    <3> QED BY <2>2, <3>1, <3>4
  <2>5. CASE /\ ~InstallOrgs(t) /\ ~InstallFlag(t)
    <3>1. UNCHANGED <<restricted, enforce>>
      BY <1>4, <2>5 DEF StartPolling, Start, Cancel, Select, Tick, ContextDone, RefreshStep,
            LabelsAnswer, OrgsAnswer, PopulateFails, FlagAnswer, FlagFails, fields
    <3>2. tpc'[t] = tpc[t] \/ tpc[t] \notin {"install", "setFlag"}
      BY <1>4, <2>5 DEF StartPolling, Start, Cancel, Select, Tick, ContextDone, RefreshStep,
            LabelsAnswer, OrgsAnswer, PopulateFails, FlagAnswer, FlagFails, refreshers
    <3> QED BY <2>2, <3>1, <3>2
  <2> QED BY <2>3, <2>4, <2>5
<1> QED BY <1>2, <1>3, <1>4 DEF Next

\* Polling loops may overtake each other, but a round installs a whole answer
\* of AMS, no older than what was in force when AMS gave it, and nothing else
\* touches the list and the flag (RefreshesAreRecent), for any number of loops.
THEOREM RefreshesStayRecent == Spec => RefreshesAreRecent
<1>1. Grounded /\ [Next]_vars =>
        [LET Ends(t, l) == tpc[t] = l /\ tpc'[t] # l
         IN
         /\ \A t \in Threads :
               /\ Ends(t, "install") => \E i \in Since(heldAt[t]) : restricted' = amsLog[i].orgs
               /\ Ends(t, "setFlag") => \E i \in Since(heldAt[t]) : enforce' = amsLog[i].flag
         /\ restricted' # restricted => \E t \in Threads : Ends(t, "install")
         /\ enforce' # enforce => \E t \in Threads : Ends(t, "setFlag")]_vars
  BY StepIsRecent
<1> QED BY <1>1, AlwaysGrounded, PTL DEF Spec, RefreshesAreRecent

-----------------------------------------------------------------------------
(* The scope check, for any number of polling loops.                       *)

\* A request is accepted only by the scope check of its own token, or because
\* there is no validation at all.
HandlerChecked(r) ==
    /\ served[r] => verdict[r] = "ok"
    /\ verdict[r] = "ok" => DisableAllValidation \/ ScopesVerdict(token[r]) = "ok"
    /\ rpc[r] = "idle" => verdict[r] = "none"
    /\ rpc[r] # "done" => ~served[r]

Checked == \A r \in Requests : HandlerChecked(r)

\* Wherever a handler decides, it decides by the token, or refuses.
LEMMA DecidedByToken ==
    ASSUME TypeOK, NEW r \in Requests, NEW v, Decide(r, v), rpc[r] \notin {"idle", "done"},
           v = "ok" => ScopesVerdict(token[r]) = "ok",
           HandlerChecked(r), UNCHANGED <<token, served>>
    PROVE  HandlerChecked(r)'
<1>1. verdict'[r] = v /\ rpc'[r] = "respond" /\ token'[r] = token[r] /\ ~served'[r]
  BY DEF Decide, TypeOK, HandlerChecked
<1>2. ScopesVerdict(token[r])' = ScopesVerdict(token[r])
  BY DEF ScopesVerdict, ClaimsVerdict
<1> QED BY <1>1, <1>2 DEF HandlerChecked

LEMMA CheckedHandle ==
    ASSUME TypeOK, Checked, NEW r \in Requests, Arrive(r) \/ RequestStep(r)
    PROVE  Checked'
<1> SUFFICES ASSUME NEW q \in Requests PROVE HandlerChecked(q)'
  BY DEF Checked
<1>1. HandlerChecked(q) /\ HandlerChecked(r)
  BY DEF Checked
<1>2. CASE q # r
  <2>1. verdict'[q] = verdict[q] /\ rpc'[q] = rpc[q] /\ token'[q] = token[q] /\ served'[q] = served[q]
    BY <1>2 DEF Arrive, RequestStep, ReadFlag, ReadCount, Lookup, Respond, Decide, GoTo, TypeOK
  <2> QED BY <1>1, <2>1 DEF HandlerChecked, ScopesVerdict, ClaimsVerdict
<1>3. ASSUME NEW l \in {"flag", "count", "lookup"}, GoTo(r, l), UNCHANGED <<token, served>>,
             rpc[r] # "done"
      PROVE  HandlerChecked(r)'
  BY <1>1, <1>3 DEF GoTo, HandlerChecked, TypeOK, ScopesVerdict, ClaimsVerdict
<1>4. CASE Arrive(r)
  <2>1. /\ rpc[r] = "idle" /\ verdict[r] = "none" /\ ~served[r] /\ served' = served
        /\ IF DisableAllValidation THEN Decide(r, "ok") ELSE GoTo(r, "flag")
    BY <1>1, <1>4 DEF Arrive, HandlerChecked
  <2>2. ASSUME DisableAllValidation PROVE HandlerChecked(r)'
    <3>1. rpc'[r] = "respond" /\ ~served'[r]
      BY <2>1, <2>2 DEF Decide, TypeOK
    <3> QED BY <2>2, <3>1 DEF HandlerChecked
  <2>3. ASSUME ~DisableAllValidation PROVE HandlerChecked(r)'
    <3>1. rpc'[r] = "flag" /\ verdict'[r] = "none" /\ ~served'[r]
      BY <2>1, <2>3 DEF GoTo, TypeOK
    <3> QED BY <3>1 DEF HandlerChecked
  <2> QED BY <1>2, <2>2, <2>3
<1>5. CASE ReadFlag(r)
  <2>1. rpc[r] = "flag" /\ UNCHANGED <<token, served>>
    BY <1>5 DEF ReadFlag
  <2>2. CASE GoTo(r, "count")
    BY <1>2, <1>3, <2>1, <2>2
  <2>3. CASE Decide(r, ScopesVerdict(token[r]))
    BY <1>1, <1>2, <2>1, <2>3, DecidedByToken
  <2> QED BY <1>5, <2>2, <2>3 DEF ReadFlag
<1>6. CASE ReadCount(r)
  <2>1. rpc[r] = "count" /\ UNCHANGED <<token, served>>
    BY <1>6 DEF ReadCount
  <2>2. CASE GoTo(r, "lookup")
    BY <1>2, <1>3, <2>1, <2>2
  <2>3. ASSUME NEW v \in {ScopesVerdict(token[r]), "badToken", "badOrg"}, Decide(r, v)
        PROVE  HandlerChecked(q)'
    BY <1>1, <1>2, <2>1, <2>3, DecidedByToken
  <2>4. GoTo(r, "lookup") \/ \E v \in {ScopesVerdict(token[r]), "badToken", "badOrg"} : Decide(r, v)
    BY <1>6, Zenon DEF ReadCount
  <2> QED BY <2>2, <2>3, <2>4
<1>7. CASE Lookup(r)
  <2>1. rpc[r] = "lookup" /\ UNCHANGED <<token, served>>
    BY <1>7 DEF Lookup
  <2>2. PICK v \in {ScopesVerdict(token[r]), "restricted"} : Decide(r, v)
    BY <1>7 DEF Lookup
  <2> QED BY <1>1, <1>2, <2>1, <2>2, DecidedByToken
<1>8. CASE Respond(r)
  <2>1. /\ served'[r] = (verdict[r] = "ok") /\ rpc'[r] = "done" /\ UNCHANGED <<token, verdict>>
    BY <1>8 DEF Respond, TypeOK
  <2> QED BY <1>1, <1>2, <2>1 DEF HandlerChecked, ScopesVerdict, ClaimsVerdict
<1> QED BY <1>4, <1>5, <1>6, <1>7, <1>8 DEF RequestStep

LEMMA AlwaysChecked == Spec => [](TypeOK /\ Checked)
<1>1. Init => Checked
  BY DEF Init, Checked, HandlerChecked
<1>2. TypeOK /\ Checked /\ [Next]_vars => Checked'
  <2> SUFFICES ASSUME TypeOK, Checked, [Next]_vars PROVE Checked'
    OBVIOUS
  <2>1. ASSUME UNCHANGED handlers PROVE Checked'
    BY <2>1 DEF handlers, Checked, HandlerChecked, ScopesVerdict, ClaimsVerdict
  <2>2. AmsChange \/ AmsOutage \/ UNCHANGED vars => UNCHANGED handlers
    BY DEF AmsChange, AmsOutage, vars
  <2>3. ASSUME NEW t \in Threads,
               StartPolling(t) \/ Start(t) \/ Cancel(t) \/ Select(t) \/ RefreshStep(t)
        PROVE  UNCHANGED handlers
    BY <2>3 DEF StartPolling, Start, Cancel, Select, Tick, ContextDone, RefreshStep, LabelsAnswer,
       OrgsAnswer, PopulateFails, InstallOrgs, FlagAnswer, FlagFails, InstallFlag
  <2> QED BY <2>1, <2>2, <2>3, CheckedHandle DEF Next
<1> QED BY <1>1, <1>2, TypeCorrect, PTL DEF Spec

\* No timing of the refreshes lets a token with a denied scope, or without a
\* required one, through (ScopesEnforcedOnEveryPath).
THEOREM ScopesAlwaysEnforced == Spec => []ScopesEnforcedOnEveryPath
<1>1. Checked => ScopesEnforcedOnEveryPath
  <2> SUFFICES ASSUME Checked, NEW r \in Requests, served[r], ~DisableAllValidation,
                      token[r].kind = "claims", token[r].hasScope,
                      token[r].serviceAccount => EnforceServiceAccountScopes
               PROVE  RequiredScopes \subseteq token[r].scope /\ DenyScopes \cap token[r].scope = {}
    BY DEF ScopesEnforcedOnEveryPath
  <2>1. ScopesVerdict(token[r]) = "ok"
    BY DEF Checked, HandlerChecked
  <2>2. ClaimsVerdict(token[r]) = "ok"
    BY DEF ClaimsVerdict
  <2>3. \/ DenyScopes = {} /\ RequiredScopes = {}
        \/ RequiredScopes \subseteq token[r].scope /\ DenyScopes \cap token[r].scope = {}
    BY <2>1, <2>2 DEF ScopesVerdict
  <2> QED BY <2>3
<1> QED BY <1>1, AlwaysChecked, PTL

\* With scopes to check, a request without a token is never served when the
\* configuration asks for a token (MissingTokenRefused).
THEOREM MissingTokensRefused == Spec => []MissingTokenRefused
<1>1. Checked => MissingTokenRefused
  <2> SUFFICES ASSUME Checked, NEW r \in Requests, ErrorOnMissingToken, ~DisableAllValidation,
                      RequiredScopes \cup DenyScopes # {}, token[r].kind = "missing"
               PROVE  ~served[r]
    BY DEF MissingTokenRefused
  <2>1. ClaimsVerdict(token[r]) = "badToken"
    BY DEF ClaimsVerdict
  <2>2. ScopesVerdict(token[r]) = "badToken"
    BY <2>1 DEF ScopesVerdict
  <2> QED BY <2>2 DEF Checked, HandlerChecked
<1> QED BY <1>1, AlwaysChecked, PTL

-----------------------------------------------------------------------------
(* Ordered, when there is one polling loop at most.                        *)

\* Only the constructor may run at the start.
LEMMA OrderedInit == Init => Ordered
<1> SUFFICES ASSUME Init PROVE Ordered
  OBVIOUS
<1>1. Main \notin Pollers /\ Pollers \subseteq Threads
  BY ConstantsAssumption DEF Threads
<1>2. /\ \A t \in Threads : tpc[t] \notin {"orgs", "install", "setFlag"}
      /\ \A p \in Pollers : tpc[p] = "idle"
  BY <1>1 DEF Init
<1>3. RefreshersOrdered
  BY <1>2 DEF RefreshersOrdered, Init
<1>4. \A r \in Requests : rpc[r] = "idle" /\ verdict[r] = "none"
  BY DEF Init
<1>5. \A r \in Requests : HandlerOrdered(r)
  BY <1>4 DEF HandlerOrdered, Decided
<1> QED BY <1>3, <1>5 DEF Ordered

\* AMS may lift a restriction, which only weakens what Guarded asks.
LEMMA OrderedAmsChange == Grounded /\ Ordered /\ AmsChange => Ordered'
<1> SUFFICES ASSUME Grounded, Ordered, AmsChange PROVE Ordered'
  OBVIOUS
<1>0. UNCHANGED <<fields, refreshers, handlers>>
  BY DEF AmsChange
<1>1. RefreshersOrdered'
  BY <1>0 DEF Ordered, RefreshersOrdered, Constructed, fields, refreshers, handlers
<1>2. ASSUME NEW r \in Requests PROVE HandlerOrdered(r)'
  <2>1. arrivedList[r] \in Nat /\ arrivedFlag[r] \in Nat
    BY LogGrows DEF Grounded, TypeOK
  <2>2. /\ \A j \in Since(arrivedList[r]) : j \in Since(arrivedList[r])' /\ amsLog'[j] = amsLog[j]
        /\ \A j \in Since(arrivedFlag[r]) : j \in Since(arrivedFlag[r])' /\ amsLog'[j] = amsLog[j]
    <3>1. \A i \in Nat : \A j \in Since(i) : j \in Since(i)' /\ amsLog'[j] = amsLog[j]
      BY AmsChangeKeeps DEF Grounded
    <3> QED BY <1>0, <2>1, <3>1 DEF Since, handlers
  <2>3. Guarded(r)' => Guarded(r)
    BY <1>0, <2>2 DEF Guarded, handlers
  <2> QED BY <1>0, <2>2, <2>3 DEF Ordered, HandlerOrdered, Decided, handlers, fields
<1> QED BY <1>1, <1>2 DEF Ordered

\* With one polling loop a refresher runs alone: the constructor's preSteps
\* first, the poller after it.
LEMMA RefreshAlone ==
    ASSUME OnePoller, Grounded, RefreshersOrdered, NEW t \in Threads, RefreshStep(t)
    PROVE  \A u \in Threads \ {t} : tpc[u] \notin {"orgs", "install", "setFlag"}
<1>1. tpc[t] \notin {"idle", "stopped"}
  BY DEF RefreshStep, LabelsAnswer, OrgsAnswer, PopulateFails, InstallOrgs, FlagAnswer,
         FlagFails, InstallFlag
<1>2. CASE t = Main
  BY <1>1, <1>2 DEF RefreshersOrdered, Constructed, Threads
<1>3. CASE t \in Pollers
  <2>1. tpc[Main] = "stopped"
    BY <1>1, <1>3 DEF RefreshersOrdered, Constructed
  <2>2. \A u \in Threads \ {t} : u = Main
    BY <1>3 DEF OnePoller, Threads
  <2> QED BY <2>1, <2>2
<1> QED BY <1>2, <1>3 DEF Threads

\* Answers are stored in the order AMS gave them: positions only grow.
LEMMA RefreshersStayOrdered ==
    ASSUME OnePoller, Grounded, Ordered, NEW t \in Threads,
           StartPolling(t) \/ Start(t) \/ Cancel(t) \/ Select(t) \/ RefreshStep(t)
    PROVE  RefreshersOrdered' /\ listAt <= listAt' /\ flagAt <= flagAt'
<1> USE DEF ams, fields, refreshers, handlers, RoundEnds, Forget, AfterLabels
<1>0. /\ listAt \in 0..Len(amsLog) /\ flagAt \in 0..Len(amsLog) /\ Len(amsLog) \in Nat
      /\ \A u \in Threads : gotAt[u] \in 0..Len(amsLog)
      /\ DOMAIN tpc = Threads /\ DOMAIN gotAt = Threads
  BY NowIsLast DEF Grounded, TypeOK
<1>1. RefreshersOrdered /\ Main \in Threads /\ Main \notin Pollers /\ Pollers \subseteq Threads
  BY ConstantsAssumption DEF Ordered, Threads
<1>2. CASE StartPolling(t) \/ Start(t) \/ Cancel(t) \/ Select(t)
  <2>1. UNCHANGED <<listAt, flagAt, gotAt, rpc>>
    BY <1>2 DEF StartPolling, Start, Cancel, Select, Tick, ContextDone
  <2>2. \A u \in Threads : tpc'[u] \in {"orgs", "install", "setFlag"} => tpc'[u] = tpc[u]
    BY <1>2, <1>0 DEF StartPolling, Start, Cancel, Select, Tick, ContextDone
  <2>3. ~Constructed' => ~Constructed /\ UNCHANGED tpc
    BY <1>2, <1>0, <1>1 DEF StartPolling, Start, Cancel, Select, Tick, ContextDone,
                            Constructed, RefreshersOrdered
  <2> QED BY <1>0, <1>1, <2>1, <2>2, <2>3 DEF RefreshersOrdered
<1>3. CASE RefreshStep(t)
  <2>1. \A u \in Threads \ {t} : tpc[u] \notin {"orgs", "install", "setFlag"}
    BY <1>1, <1>3, RefreshAlone
  <2>2. \A u \in Threads \ {t} : tpc'[u] = tpc[u]
    BY <1>3, <1>0 DEF RefreshStep, LabelsAnswer, OrgsAnswer, PopulateFails, InstallOrgs,
                      FlagAnswer, FlagFails, InstallFlag
  <2>3. ~Constructed' => ~Constructed
    BY <1>3, <1>0, <1>1 DEF RefreshStep, LabelsAnswer, OrgsAnswer, PopulateFails,
          InstallOrgs, FlagAnswer, FlagFails, InstallFlag, Constructed
  <2>4. ASSUME ~Constructed
        PROVE  /\ \A p \in Pollers : tpc'[p] = "idle"
               /\ \A r \in Requests : rpc'[r] = "idle"
    <3>1. \A p \in Pollers : tpc[p] = "idle"
      BY <1>1, <2>4 DEF RefreshersOrdered
    <3>2. tpc[t] # "idle" /\ UNCHANGED rpc
      BY <1>3 DEF RefreshStep, LabelsAnswer, OrgsAnswer, PopulateFails, InstallOrgs,
                  FlagAnswer, FlagFails, InstallFlag
    <3> QED BY <1>1, <2>2, <2>4, <3>1, <3>2 DEF RefreshersOrdered
  <2>5. /\ tpc'[t] \in {"orgs", "install"} => listAt' <= gotAt'[t]
        /\ tpc'[t] = "setFlag" => flagAt' <= gotAt'[t]
        /\ listAt <= listAt' /\ flagAt <= flagAt'
    <3>1. CASE LabelsAnswer(t)
      BY <1>0, <3>1 DEF LabelsAnswer, AfterLabels
    <3>2. CASE OrgsAnswer(t)
      BY <1>0, <1>1, <3>2 DEF OrgsAnswer, RefreshersOrdered
    <3>3. CASE PopulateFails(t) \/ FlagFails(t)
      BY <1>0, <3>3 DEF PopulateFails, FlagFails
    <3>4. CASE InstallOrgs(t)
      BY <1>0, <1>1, <3>4 DEF InstallOrgs, RefreshersOrdered
    <3>5. CASE FlagAnswer(t)
      BY <1>0, <3>5 DEF FlagAnswer
    <3>6. CASE InstallFlag(t)
      BY <1>0, <1>1, <3>6 DEF InstallFlag, RefreshersOrdered
    <3> QED BY <1>3, <3>1, <3>2, <3>3, <3>4, <3>5, <3>6 DEF RefreshStep
  <2> QED BY <2>1, <2>2, <2>3, <2>4, <2>5 DEF RefreshersOrdered
<1> QED BY <1>2, <1>3

\* A refresher takes nothing away from what handlers have established.
LEMMA OrderedRefresh ==
    ASSUME OnePoller, Grounded, Ordered, NEW t \in Threads,
           StartPolling(t) \/ Start(t) \/ Cancel(t) \/ Select(t) \/ RefreshStep(t)
    PROVE  Ordered'
<1>1. RefreshersOrdered' /\ listAt <= listAt' /\ flagAt <= flagAt'
  BY RefreshersStayOrdered
<1>2. ASSUME NEW r \in Requests PROVE HandlerOrdered(r)'
  <2>1. UNCHANGED <<amsLog, rpc, token, verdict, arrivedList, arrivedFlag>>
    BY RefreshFrame DEF ams, handlers
  <2>2. TypeOK /\ TypeOK'
    BY TypeRefresh DEF Grounded
  <2>3. /\ listAt \in Int /\ listAt' \in Int /\ flagAt \in Int /\ flagAt' \in Int
        /\ arrivedList[r] \in Int /\ arrivedFlag[r] \in Int
    BY <2>2 DEF TypeOK
  <2>4. Guarded(r)' = Guarded(r)
    BY <2>1 DEF Guarded, Since
  <2> QED BY <1>1, <2>1, <2>3, <2>4 DEF Ordered, HandlerOrdered, Decided, Since
<1> QED BY <1>1, <1>2 DEF Ordered

\* A handler that reads the flag or the list reads what AMS said when it
\* arrived or later; so, if it is guarded, it finds what it must find.
LEMMA ReadOrdered ==
    ASSUME Grounded, Ordered, NEW r \in Requests, rpc[r] # "idle"
    PROVE  /\ enforce => flagAt \in Since(arrivedFlag[r]) /\ amsLog[flagAt].flag
           /\ \A o \in restricted : listAt \in Since(arrivedList[r]) /\ o \in amsLog[listAt].orgs
           /\ Guarded(r) => enforce /\ OrgOf(token[r]) \in restricted
<1>1. /\ arrivedList[r] <= listAt /\ arrivedFlag[r] <= flagAt
      /\ listAt \in 0..Len(amsLog) /\ flagAt \in 0..Len(amsLog)
      /\ arrivedList[r] \in Nat /\ arrivedFlag[r] \in Nat
  BY NowIsLast DEF Ordered, HandlerOrdered, Grounded, TypeOK
<1>2. /\ enforce => flagAt \in Since(arrivedFlag[r]) /\ amsLog[flagAt].flag
      /\ \A o \in restricted : listAt \in Since(arrivedList[r]) /\ o \in amsLog[listAt].orgs
  BY <1>1, ReadGrounded DEF Since
<1>3. ASSUME Guarded(r) PROVE enforce /\ OrgOf(token[r]) \in restricted
  <2>1. listAt # 0 /\ flagAt # 0 /\ listAt \in Since(arrivedList[r]) /\ flagAt \in Since(arrivedFlag[r])
    BY <1>1, <1>3 DEF Guarded, Since
  <2> QED BY <1>3, <2>1 DEF Guarded, Grounded, Copied, ListOf, FlagOf
<1> QED BY <1>2, <1>3

\* A handler establishes, read by read, what its verdict rests on.
LEMMA OrderedHandle ==
    ASSUME Grounded, Ordered, NEW r \in Requests, Arrive(r) \/ RequestStep(r)
    PROVE  Ordered'
<1>1. /\ UNCHANGED <<ams, fields, refreshers>> /\ Constructed
      /\ \A q \in Requests \ {r} :
            /\ rpc'[q] = rpc[q] /\ token'[q] = token[q] /\ verdict'[q] = verdict[q]
            /\ arrivedList'[q] = arrivedList[q] /\ arrivedFlag'[q] = arrivedFlag[q]
  <2>1. Constructed
    BY DEF Ordered, RefreshersOrdered, Arrive, RequestStep, ReadFlag, ReadCount, Lookup, Respond
  <2> QED BY <2>1 DEF Grounded, TypeOK, GoTo, Decide, Arrive, RequestStep, ReadFlag,
                      ReadCount, Lookup, Respond
<1>2. /\ UNCHANGED <<amsLog, restricted, enforce, listAt, flagAt, tpc, gotAt>>
      /\ \A i : Since(i)' = Since(i)
  BY <1>1 DEF ams, fields, refreshers, Since
<1>3. RefreshersOrdered'
  BY <1>1, <1>2 DEF Ordered, RefreshersOrdered, Constructed
<1>4. ASSUME NEW q \in Requests, q # r PROVE HandlerOrdered(q)'
  <2>1. q \in Requests \ {r} /\ HandlerOrdered(q)
    BY <1>4 DEF Ordered
  <2>2. Guarded(q)' = Guarded(q)
    BY <1>1, <1>2, <2>1 DEF Guarded
  <2> QED BY <1>1, <1>2, <2>1, <2>2 DEF HandlerOrdered, Decided, Since
<1>5. HandlerOrdered(r)'
  <2> USE DEF GoTo, Decide
  <2>0. TypeOK /\ HandlerOrdered(r) /\ Undecided(r)
    BY DEF Grounded, Ordered
  <2>1. CASE Arrive(r)
    <3>1. /\ arrivedList'[r] = listAt /\ arrivedFlag'[r] = flagAt
          /\ rpc'[r] = "flag" \/ DisableAllValidation
          /\ rpc'[r] \in {"flag", "respond"}
          /\ verdict'[r] # "restricted"
      BY <2>0, <2>1 DEF Arrive, TypeOK, Undecided
    <3>2. listAt \in Nat /\ flagAt \in Nat
      BY <2>0, NowIsLast DEF TypeOK
    <3> QED BY <1>2, <3>1, <3>2 DEF HandlerOrdered, Decided, Guarded
  <2>2. ASSUME RequestStep(r)
        PROVE  /\ token'[r] = token[r] /\ rpc[r] # "idle" /\ rpc'[r] # "idle"
               /\ arrivedList'[r] = arrivedList[r] /\ arrivedFlag'[r] = arrivedFlag[r]
               /\ arrivedList'[r] <= listAt' /\ arrivedFlag'[r] <= flagAt'
               /\ Guarded(r)' = Guarded(r)
    <3>1. /\ token'[r] = token[r] /\ rpc[r] # "idle" /\ rpc'[r] # "idle"
          /\ arrivedList'[r] = arrivedList[r] /\ arrivedFlag'[r] = arrivedFlag[r]
      BY <2>0, <2>2 DEF RequestStep, ReadFlag, ReadCount, Lookup, Respond, TypeOK
    <3> QED BY <1>2, <2>0, <3>1 DEF HandlerOrdered, Guarded
  <2>3. CASE ReadFlag(r)
    <3>1. CASE enforce /\ GoTo(r, "count")
      <4>1. rpc'[r] = "count" /\ verdict'[r] = "none"
        BY <2>0, <2>3, <3>1 DEF ReadFlag, Undecided, TypeOK
      <4>2. \E i \in Since(arrivedFlag[r]) : amsLog[i].flag
        BY <2>2, <2>3, <3>1, ReadOrdered DEF RequestStep
      <4> QED BY <1>2, <2>2, <2>3, <4>1, <4>2 DEF HandlerOrdered, Decided, RequestStep
    <3>2. CASE ~enforce /\ Decide(r, ScopesVerdict(token[r]))
      <4>1. rpc'[r] = "respond" /\ verdict'[r] # "restricted"
        BY <2>0, <3>2, ScopesVerdictType DEF TypeOK, TokenVerdicts
      <4>2. ~Guarded(r)
        BY <2>2, <2>3, <3>2, ReadOrdered DEF RequestStep
      <4> QED BY <2>2, <2>3, <4>1, <4>2 DEF HandlerOrdered, RequestStep
    <3> QED BY <2>3, <3>1, <3>2 DEF ReadFlag
  <2>4. CASE ReadCount(r)
    <3>1. CASE GoTo(r, "lookup")
      <4>1. rpc'[r] = "lookup" /\ verdict'[r] = "none"
        BY <2>0, <2>4, <3>1 DEF ReadCount, Undecided, TypeOK
      <4>2. \E i \in Since(arrivedFlag[r]) : amsLog[i].flag
        BY <2>0, <2>4 DEF ReadCount, HandlerOrdered
      <4> QED BY <1>2, <2>2, <2>4, <4>1, <4>2 DEF HandlerOrdered, Decided, RequestStep
    <3>2. CASE ~Guarded(r) /\ \E v \in TokenVerdicts : Decide(r, v)
      <4>1. rpc'[r] = "respond" /\ verdict'[r] # "restricted"
        BY <2>0, <3>2 DEF TypeOK, TokenVerdicts
      <4> QED BY <2>2, <2>4, <3>2, <4>1 DEF HandlerOrdered, RequestStep
    <3>3. Guarded(r) => restricted # {} /\ ClaimsVerdict(token[r]) # "badToken"
                        /\ NeedsLookup(token[r]) /\ ~HasBadOrg(token[r])
      <4>1. Guarded(r) => restricted # {}
        BY <2>2, <2>4, ReadOrdered DEF RequestStep
      <4> QED BY <4>1 DEF Guarded, NeedsLookup
    <3>4. \/ GoTo(r, "lookup")
          \/ ~Guarded(r) /\ \E v \in TokenVerdicts : Decide(r, v)
      BY <2>4, <3>3, ScopesVerdictType, Zenon DEF ReadCount
    <3> QED BY <3>1, <3>2, <3>4
  <2>5. CASE Lookup(r)
    <3>1. CASE OrgOf(token[r]) \in restricted
      <4>1. rpc'[r] = "respond" /\ verdict'[r] = "restricted"
        BY <2>0, <2>5, <3>1 DEF Lookup, TypeOK
      <4>2. \E i \in Since(arrivedFlag[r]) : amsLog[i].flag
        BY <2>0, <2>5 DEF Lookup, HandlerOrdered
      <4>3. \E i \in Since(arrivedList[r]) : OrgOf(token[r]) \in amsLog[i].orgs
        BY <2>2, <2>5, <3>1, ReadOrdered DEF RequestStep
      <4> QED BY <1>2, <2>2, <2>5, <4>1, <4>2, <4>3 DEF HandlerOrdered, RequestStep
    <3>2. CASE OrgOf(token[r]) \notin restricted
      <4>1. rpc'[r] = "respond" /\ verdict'[r] # "restricted"
        BY <2>0, <2>5, <3>2, ScopesVerdictType DEF Lookup, TypeOK, TokenVerdicts
      <4>2. ~Guarded(r)
        BY <2>2, <2>5, <3>2, ReadOrdered DEF RequestStep
      <4> QED BY <2>2, <2>5, <4>1, <4>2 DEF HandlerOrdered, RequestStep
    <3> QED BY <3>1, <3>2
  <2>6. CASE Respond(r)
    <3>1. rpc[r] = "respond" /\ rpc'[r] = "done" /\ verdict'[r] = verdict[r]
      BY <2>0, <2>6 DEF Respond, TypeOK
    <3> QED BY <1>2, <2>0, <2>2, <2>6, <3>1 DEF HandlerOrdered, Decided, RequestStep
  <2> QED BY <2>1, <2>3, <2>4, <2>5, <2>6 DEF RequestStep
<1> QED BY <1>3, <1>4, <1>5 DEF Ordered

\* Every step keeps Ordered while there is one polling loop at most.
LEMMA OrderedStep ==
    ASSUME OnePoller
    PROVE  Grounded /\ Ordered /\ [Next]_vars => Ordered'
<1> SUFFICES ASSUME Grounded, Ordered, [Next]_vars PROVE Ordered'
  OBVIOUS
<1>1. CASE AmsOutage \/ UNCHANGED vars
  <2>1. UNCHANGED <<amsLog, fields, refreshers, handlers>>
    BY <1>1 DEF AmsOutage, vars, ams
  <2> QED BY <2>1 DEF Ordered, RefreshersOrdered, HandlerOrdered, Constructed, Decided,
                      Guarded, Since, fields, refreshers, handlers
<1> QED BY <1>1, OrderedAmsChange, OrderedRefresh, OrderedHandle DEF Next

\* With one polling loop at most, answers are installed in the order AMS gave
\* them, and no handler reads less than was known when its request arrived.
THEOREM AlwaysOrdered == ASSUME OnePoller PROVE Spec => []Ordered
BY OrderedInit, OrderedStep, AlwaysGrounded, PTL DEF Spec

\* With one polling loop at most, a restriction that was learnt and never
\* lifted refuses every offline request of the organisation (RestrictionHolds).
THEOREM RestrictionsHold == ASSUME OnePoller PROVE Spec => []RestrictionHolds
<1>1. Ordered => RestrictionHolds
  BY DEF Ordered, HandlerOrdered, RestrictionHolds
<1> QED BY <1>1, AlwaysOrdered, PTL

\* With one polling loop at most, no request is refused for a restriction that
\* the middleware knew to be lifted when it arrived (RefusalJustified).
THEOREM RefusalsJustified == ASSUME OnePoller PROVE Spec => []RefusalJustified
<1>1. Ordered => RefusalJustified
  BY DEF Ordered, HandlerOrdered, RefusalJustified
<1> QED BY <1>1, AlwaysOrdered, PTL

\* Every step of the middleware is a step of the promise, or none at all.
LEMMA StepReplays ==
    ASSUME OnePoller
    PROVE  Grounded /\ Ordered /\ [Next]_vars => [Replay!Next]_(Replay!replayVars)
<1> SUFFICES ASSUME Grounded, Ordered, [Next]_vars
             PROVE  Replay!Next \/ UNCHANGED Replay!replayVars
  OBVIOUS
<1> USE DEF Replay!replayVars, fields
<1>1. CASE AmsChange
  <2>1. Replay!Say
    BY <1>1 DEF AmsChange, Replay!Say
  <2> QED BY <2>1 DEF Replay!Next
<1>2. CASE AmsOutage \/ UNCHANGED vars
  BY <1>2 DEF AmsOutage, vars, ams
<1>3. ASSUME NEW t \in Threads, StartPolling(t) \/ Start(t) \/ Cancel(t) \/ Select(t)
      PROVE  UNCHANGED Replay!replayVars
  BY <1>3 DEF StartPolling, Start, Cancel, Select, Tick, ContextDone, ams
<1>4. ASSUME NEW t \in Threads, RefreshStep(t)
      PROVE  Replay!Next \/ UNCHANGED Replay!replayVars
  <2>1. /\ gotAt[t] \in 0..Len(amsLog) /\ Len(amsLog) \in Nat
        /\ listAt \in 0..Len(amsLog) /\ flagAt \in 0..Len(amsLog)
    BY NowIsLast DEF Grounded, TypeOK
  <2>2. CASE InstallOrgs(t)
    <3>1. /\ gotAt[t] > 0 /\ got[t] = amsLog[gotAt[t]].orgs /\ listAt <= gotAt[t]
      BY <2>1, <2>2 DEF InstallOrgs, Grounded, Copied, ListOf, Ordered, RefreshersOrdered
    <3>2. Replay!CopyOrgs
      BY <2>1, <2>2, <3>1 DEF InstallOrgs, ams, Replay!CopyOrgs
    <3> QED BY <3>2 DEF Replay!Next
  <2>3. CASE InstallFlag(t)
    <3>1. gotAt[t] > 0 /\ gotFlag[t] = FlagOf(gotAt[t]) /\ flagAt <= gotAt[t]
      BY <2>1, <2>3 DEF InstallFlag, Grounded, Copied, Ordered, RefreshersOrdered
    <3>2. gotAt[t] # 0 /\ gotAt[t] \in flagAt..Len(amsLog)
      BY <2>1, <3>1
    <3>3. gotFlag[t] = amsLog[gotAt[t]].flag
      BY <3>1, <3>2, Zenon DEF FlagOf
    <3>4. flagAt' = gotAt[t] /\ enforce' = gotFlag[t] /\ UNCHANGED <<amsLog, restricted, listAt>>
      BY <2>3 DEF InstallFlag, ams
    <3>5. enforce' = amsLog[flagAt'].flag
      BY <3>3, <3>4, Zenon
    <3>6. Replay!CopyFlag
      BY <3>1, <3>2, <3>4, <3>5 DEF Replay!CopyFlag
    <3> QED BY <3>6 DEF Replay!Next
  <2>4. CASE LabelsAnswer(t) \/ OrgsAnswer(t) \/ PopulateFails(t) \/ FlagAnswer(t) \/ FlagFails(t)
    BY <2>4 DEF LabelsAnswer, OrgsAnswer, PopulateFails, FlagAnswer, FlagFails, ams
  <2> QED BY <1>4, <2>2, <2>3, <2>4 DEF RefreshStep
<1>5. ASSUME NEW r \in Requests, Arrive(r) \/ RequestStep(r)
      PROVE  UNCHANGED Replay!replayVars
  BY <1>5 DEF Arrive, RequestStep, ReadFlag, ReadCount, Lookup, Respond, ams
<1> QED BY <1>1, <1>2, <1>3, <1>4, <1>5 DEF Next

\* With one polling loop at most, the middleware keeps the refreshers' promise
\* (ReplaysAms): list and flag replay what AMS said, each in AMS's order.
THEOREM ImplementsReplay == ASSUME OnePoller PROVE Spec => ReplaysAms
<1>1. Init => Replay!Init
  BY DEF Init, Replay!Init
<1> QED BY <1>1, StepReplays, AlwaysGrounded, AlwaysOrdered, PTL DEF Spec, ReplaysAms, Replay!Spec

=============================================================================
