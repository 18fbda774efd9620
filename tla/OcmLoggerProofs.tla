--------------------------- MODULE OcmLoggerProofs ---------------------------
(***************************************************************************)
(* Proofs about OcmLogger, for any goroutines, loggers, keys and slices.   *)
(***************************************************************************)
EXTENDS OcmLogger, FiniteSetTheorems, SequenceTheorems, WellFoundedInduction, TLAPS

\* The items that slices are made of: those of callers, the keys and values
\* of callbacks, and the id of an event.
ArgItems == UNION {{s[i] : i \in DOMAIN s} : s \in ArgLists \cup {SharedArgs}}

ItemSet ==
    ArgItems \cup ({"string"} \X (Keys \cup {SentryEventID}))
             \cup ({"value"} \X (Goroutines \cup {NoValue, EventID}))

Extras == {contextToLegacyExtra(s) : s \in Seq(ItemSet)} \cup {<<>>}

Roots == [level : 0..7, out : Outputs]

Frames ==
    [api : {"none", "contextual", "legacy", "sdk"}, level : 0..4, loaded : BOOLEAN,
     capture : BOOLEAN, map : Maps \cup {NoMap}, due : SUBSET Keys, visited : SUBSET Keys,
     key : Keys \cup {NoValue}, extras : Seq(ItemSet), kv : Seq(ItemSet),
     view : 0..(Len(SharedArgs) + Room), sent : Extras, root : Roots \cup {<<>>},
     owed : SUBSET Keys, askable : SUBSET {"default", "on", "off"}, overwritten : BOOLEAN]

Positions == {"idle", "assign", "storeRoot", "storeSet", "override", "set", "extras",
              "range", "capture", "emit"}

SharedTyped ==
    /\ override \in [Loggers \cup {Fresh} -> BOOLEAN]
    /\ overrideSet \in [Loggers \cup {Fresh} -> BOOLEAN]
    /\ current \in Maps
    /\ callbacks \in [Maps -> [Keys -> {"absent", "nil", "function"}]]
    /\ root \in Roots /\ globalLevel \in 0..7
    /\ backing \in Seq(ItemSet) /\ Len(backing) = Len(SharedArgs) + Room

FramesTyped ==
    /\ pc \in [Goroutines -> Positions]
    /\ frame \in [Goroutines -> Frames]
    /\ \A g \in Goroutines :
          /\ pc[g] \in {"assign", "range"} => frame[g].map \in Maps
          /\ pc[g] = "assign" => frame[g].key \in Keys
          /\ pc[g] = "storeRoot" => frame[g].root \in Roots
          /\ pc[g] = "idle" => frame[g].map = NoMap

TypeOK == SharedTyped /\ FramesTyped

-----------------------------------------------------------------------------
\* The slices that a caller may pass are sequences of items.
LEMMA ArgsTyped ==
    /\ \A s \in ArgLists \cup {SharedArgs} : s \in Seq(ItemSet)
    /\ Len(SharedArgs) \in Nat /\ Room \in Nat /\ <<>> \in Seq(ItemSet)
<1>1. ASSUME NEW s \in ArgLists \cup {SharedArgs} PROVE s \in Seq(ItemSet)
  <2>1. s \in Seq({s[i] : i \in DOMAIN s})
    BY ConstantsAssumption
  <2>2. {s[i] : i \in DOMAIN s} \subseteq ItemSet
    BY DEF ItemSet, ArgItems
  <2> QED BY <2>1, <2>2, SeqMonotonic
<1>2. SharedArgs \in Seq(ItemSet)
  BY <1>1
<1> QED BY <1>1, <1>2, ConstantsAssumption

\* What the pairs of a callback and of an event are made of.
LEMMA PairsTyped ==
    ASSUME NEW k, NEW v, <<"string", k>> \in ItemSet, <<"value", v>> \in ItemSet
    PROVE  /\ <<<<"string", k>>, <<"value", v>>>> \in Seq(ItemSet)
           /\ Len(<<<<"string", k>>, <<"value", v>>>>) = 2
OBVIOUS

LEMMA EmptyFrameTyped == EmptyFrame \in Frames
BY ArgsTyped, ConstantsAssumption DEF EmptyFrame, Frames, Extras

\* There is a map object that nobody holds: every goroutine but the one that
\* clears holds one at most.
LEMMA FreshMap ==
    ASSUME TypeOK, NEW g \in Goroutines, pc[g] = "idle"
    PROVE  \E m \in Maps : m \notin {frame[h].map : h \in Goroutines}
<1> DEFINE others == {frame[h].map : h \in Goroutines \ {g}}
           n == Cardinality(Goroutines)
<1>1. n \in Nat /\ IsFiniteSet(Goroutines \ {g}) /\ Cardinality(Goroutines \ {g}) = n - 1
  BY ConstantsAssumption, FS_CardinalityType, FS_RemoveElement
<1>2. IsFiniteSet(others) /\ Cardinality(others) <= n - 1 /\ Cardinality(others) \in Nat
  <2> DEFINE f == [h \in Goroutines \ {g} |-> frame[h].map]
  <2>1. f \in Surjection(Goroutines \ {g}, others)
    BY DEF Surjection
  <2>2. IsFiniteSet(others) /\ Cardinality(others) <= Cardinality(Goroutines \ {g})
    BY <1>1, <2>1, FS_Surjection
  <2> QED BY <1>1, <2>2, FS_CardinalityType
<1>3. Cardinality(Maps) = n /\ IsFiniteSet(Maps)
  <2>1. 0 \in Int /\ n - 1 \in Int /\ n >= 1
    BY <1>1, <1>2
  <2> QED BY <1>1, <2>1, FS_Interval DEF Maps
<1>4. PICK m \in Maps : m \notin others
  <2>1. ~(Maps \subseteq others)
    <3> SUFFICES ASSUME Maps \subseteq others PROVE FALSE
      OBVIOUS
    <3>1. Cardinality(Maps) <= Cardinality(others)
      BY <1>2, FS_Subset
    <3> QED BY <1>1, <1>2, <1>3, <3>1
  <2> QED BY <2>1
<1>5. frame[g].map = NoMap /\ NoMap \notin Maps
  BY <1>1 DEF TypeOK, FramesTyped, Maps, NoMap
<1> QED BY <1>4, <1>5

-----------------------------------------------------------------------------
(* Types.                                                                  *)

LEMMA TypeInit == Init => TypeOK
<1> SUFFICES ASSUME Init PROVE TypeOK
  OBVIOUS
<1>1. current \in Maps
  <2>1. Cardinality(Goroutines) \in Nat /\ Cardinality(Goroutines) # 0
    BY ConstantsAssumption, FS_CardinalityType, FS_EmptySet
  <2> QED BY <2>1 DEF Init, Maps
<1>2. backing \in Seq(ItemSet) /\ Len(backing) = Len(SharedArgs) + Room
  <2> DEFINE room == [i \in 1..Room |-> <<"value", NoValue>>]
  <2>1. <<"value", NoValue>> \in ItemSet
    BY DEF ItemSet
  <2>2. room \in Seq(ItemSet) /\ Len(room) = Room
    BY <2>1, ArgsTyped
  <2>3. SharedArgs \in Seq(ItemSet)
    BY ArgsTyped
  <2> QED BY <2>2, <2>3, ConcatProperties DEF Init
<1>3. root \in Roots /\ globalLevel \in 0..7
  BY DEF Init, Roots, DefaultLevel
<1>4. frame \in [Goroutines -> Frames] /\ \A g \in Goroutines : frame[g].map = NoMap
  BY EmptyFrameTyped DEF Init, EmptyFrame
<1> QED BY <1>1, <1>2, <1>3, <1>4 DEF Init, TypeOK, SharedTyped, FramesTyped, Positions

\* A goroutine that goes on with a frame of the right kind.
LEMMA GoTyped ==
    ASSUME FramesTyped, NEW g \in Goroutines, NEW l \in Positions, NEW f \in Frames,
           Go(g, l, f),
           l \in {"assign", "range"} => f.map \in Maps,
           l = "assign" => f.key \in Keys,
           l = "storeRoot" => f.root \in Roots,
           l = "idle" => f.map = NoMap
    PROVE  FramesTyped'
BY DEF FramesTyped, Go

LEMMA SharedStays == SharedTyped /\ UNCHANGED shared => SharedTyped'
BY DEF SharedTyped, shared

LEMMA EmptyTyped ==
    /\ EmptyFrame \in Frames /\ EmptyFrame.map = NoMap
    /\ "idle" \in Positions
BY EmptyFrameTyped DEF EmptyFrame, Positions

\* A change of the history in a frame leaves the rest alone.
LEMMA OwedTyped ==
    ASSUME NEW f \in Frames, NEW o \in SUBSET Keys
    PROVE  LET e == [f EXCEPT !.owed = o]
           IN  e \in Frames /\ e.map = f.map /\ e.key = f.key /\ e.root = f.root
BY DEF Frames

LEMMA AskableTyped ==
    ASSUME NEW f \in Frames, NEW a \in SUBSET {"default", "on", "off"}
    PROVE  LET e == [f EXCEPT !.askable = a]
           IN  e \in Frames /\ e.map = f.map /\ e.key = f.key /\ e.root = f.root
BY DEF Frames

\* Another call has appended to the shared slice: one frame at most differs in
\* more than that.
Marked(f) == [f EXCEPT !.overwritten = TRUE]

LEMMA MarkedTyped ==
    ASSUME NEW f \in Frames
    PROVE  LET e == Marked(f)
           IN  /\ e \in Frames /\ e.api = f.api /\ e.level = f.level /\ e.loaded = f.loaded
               /\ e.capture = f.capture /\ e.map = f.map /\ e.due = f.due
               /\ e.visited = f.visited /\ e.key = f.key /\ e.extras = f.extras /\ e.kv = f.kv
               /\ e.view = f.view /\ e.sent = f.sent /\ e.root = f.root /\ e.owed = f.owed
               /\ e.askable = f.askable /\ e.overwritten
BY DEF Frames, Marked

LEMMA DisownTyped ==
    ASSUME FramesTyped, NEW ks
    PROVE  /\ Disown(ks) \in [Goroutines -> Frames]
           /\ \A h \in Goroutines :
                 /\ Disown(ks)[h].map = frame[h].map
                 /\ Disown(ks)[h].key = frame[h].key
                 /\ Disown(ks)[h].root = frame[h].root
<1>1. ASSUME NEW h \in Goroutines
      PROVE  /\ Disown(ks)[h] \in Frames
             /\ Disown(ks)[h].map = frame[h].map
             /\ Disown(ks)[h].key = frame[h].key
             /\ Disown(ks)[h].root = frame[h].root
  <2>1. Disown(ks)[h] = [frame[h] EXCEPT !.owed = frame[h].owed \ ks]
    BY DEF Disown
  <2>2. frame[h] \in Frames /\ frame[h].owed \ ks \in SUBSET Keys
    BY DEF FramesTyped, Frames
  <2> QED BY <2>1, <2>2, OwedTyped
<1>2. Disown(ks) = [h \in Goroutines |-> Disown(ks)[h]]
  BY DEF Disown
<1> QED BY <1>1, <1>2

LEMMA RegistryTyped ==
    ASSUME TypeOK, NEW g \in Goroutines, RegistryStep(g)
    PROVE  TypeOK'
<1>1. CASE Register(g)
  <2>1. PICK k \in Keys : Go(g, "assign", [EmptyFrame EXCEPT !.map = current, !.key = k])
    BY <1>1 DEF Register
  <2> DEFINE f == [EmptyFrame EXCEPT !.map = current, !.key = k]
  <2>2. f \in Frames /\ f.map \in Maps /\ f.key \in Keys
    BY EmptyFrameTyped DEF TypeOK, SharedTyped, EmptyFrame, Frames
  <2>3. FramesTyped'
    BY <2>1, <2>2, GoTyped DEF TypeOK, Positions
  <2> QED BY <1>1, <2>3, SharedStays DEF Register, TypeOK
<1>2. CASE Assign(g)
  <2>1. PICK c \in {"function", "nil"} :
           /\ callbacks' = [callbacks EXCEPT ![frame[g].map][frame[g].key] = c]
           /\ frame' = [Disown(IF c = "nil" THEN {frame[g].key} ELSE {})
                           EXCEPT ![g] = EmptyFrame]
    BY <1>2 DEF Assign
  <2>2. pc' = [pc EXCEPT ![g] = "idle"]
    BY <1>2 DEF Assign
  <2>3. FramesTyped'
    <3> DEFINE ks == IF c = "nil" THEN {frame[g].key} ELSE {}
    <3>1. frame' = [Disown(ks) EXCEPT ![g] = EmptyFrame]
      BY <2>1
    <3> HIDE DEF ks
    <3>2. frame' \in [Goroutines -> Frames]
      BY <3>1, DisownTyped, EmptyTyped DEF TypeOK
    <3>3. ASSUME NEW h \in Goroutines, h # g
          PROVE  /\ pc'[h] = pc[h] /\ frame'[h].map = frame[h].map
                 /\ frame'[h].key = frame[h].key /\ frame'[h].root = frame[h].root
      BY <2>2, <3>1, <3>2, <3>3, DisownTyped DEF TypeOK, FramesTyped
    <3>4. pc'[g] = "idle" /\ frame'[g].map = NoMap
      BY <2>2, <3>1, DisownTyped, EmptyTyped DEF TypeOK, FramesTyped
    <3> QED BY <2>2, <3>2, <3>3, <3>4, EmptyTyped DEF TypeOK, FramesTyped
  <2>4. callbacks' \in [Maps -> [Keys -> {"absent", "nil", "function"}]]
    BY <2>1 DEF TypeOK, SharedTyped
  <2> QED BY <1>2, <2>3, <2>4 DEF Assign, TypeOK, SharedTyped
<1>3. CASE Clear(g)
  <2>1. current' \in Maps
    BY <1>3, FreshMap DEF Clear, At
  <2>2. callbacks' \in [Maps -> [Keys -> {"absent", "nil", "function"}]]
    BY <1>3 DEF Clear, TypeOK, SharedTyped
  <2>3. frame' = Disown(Keys) /\ pc' = pc
    BY <1>3 DEF Clear
  <2>4. FramesTyped'
    BY <2>3, DisownTyped DEF TypeOK, FramesTyped
  <2> QED BY <1>3, <2>1, <2>2, <2>4 DEF Clear, TypeOK, SharedTyped
<1> QED BY <1>1, <1>2, <1>3 DEF RegistryStep

LEMMA SettingsTyped ==
    ASSUME TypeOK, NEW g \in Goroutines, SettingsStep(g)
    PROVE  TypeOK'
<1>1. ASSUME NEW r \in Roots, Go(g, "storeRoot", [EmptyFrame EXCEPT !.root = r])
      PROVE  FramesTyped'
  <2> DEFINE f == [EmptyFrame EXCEPT !.root = r]
  <2>1. f \in Frames /\ f.root = r
    BY EmptyFrameTyped DEF EmptyFrame, Frames
  <2> QED BY <1>1, <2>1, GoTyped DEF TypeOK, Positions
<1>2. CASE SetLogLevel(g)
  <2>1. PICK l \in SetLevels :
           /\ globalLevel' = l
           /\ Go(g, "storeRoot", [EmptyFrame EXCEPT !.root = [root EXCEPT !.level = l]])
    BY <1>2 DEF SetLogLevel
  <2>2. l \in 0..7 /\ [root EXCEPT !.level = l] \in Roots
    BY ConstantsAssumption DEF TypeOK, SharedTyped, Roots
  <2>3. FramesTyped'
    BY <1>1, <2>1, <2>2
  <2> QED BY <1>2, <2>1, <2>2, <2>3 DEF SetLogLevel, TypeOK, SharedTyped
<1>3. CASE SetOutput(g)
  <2>1. PICK o \in Outputs :
           Go(g, "storeRoot", [EmptyFrame EXCEPT !.root = [root EXCEPT !.out = o]])
    BY <1>3 DEF SetOutput
  <2>2. [root EXCEPT !.out = o] \in Roots
    BY DEF TypeOK, SharedTyped, Roots
  <2> QED BY <1>1, <1>3, <2>1, <2>2, SharedStays DEF SetOutput, TypeOK
<1>4. CASE StoreRoot(g)
  <2>1. root' \in Roots
    BY <1>4 DEF StoreRoot, At, TypeOK, FramesTyped
  <2>2. FramesTyped'
    BY <1>4, EmptyTyped, GoTyped DEF StoreRoot, TypeOK
  <2> QED BY <1>4, <2>1, <2>2 DEF StoreRoot, TypeOK, SharedTyped
<1> QED BY <1>2, <1>3, <1>4 DEF SettingsStep

LEMMA OverrideTyped ==
    ASSUME TypeOK, NEW g \in Goroutines, OverrideStep(g)
    PROVE  TypeOK'
<1>0. LoggerOf[g] \in Loggers \cup {Fresh}
  BY ConstantsAssumption
<1>1. CASE CaptureSentryEvent(g)
  <2>1. PICK b \in Overrides :
          /\ override' = [override EXCEPT ![LoggerOf[g]] = b]
          /\ frame' = [h \in Goroutines |->
                IF pc[h] \in {"override", "set"} /\ Through(h) = LoggerOf[g]
                THEN [frame[h] EXCEPT !.askable = @ \cup {Named(b)}] ELSE frame[h]]
    BY <1>1 DEF CaptureSentryEvent
  <2>2. b \in BOOLEAN /\ Named(b) \in {"default", "on", "off"}
    BY ConstantsAssumption DEF Named
  <2>3. pc' = [pc EXCEPT ![g] = "storeSet"] /\ pc[g] = "idle"
    BY <1>1 DEF CaptureSentryEvent, At
  <2>4. ASSUME NEW h \in Goroutines
        PROVE  /\ frame'[h] \in Frames /\ frame'[h].map = frame[h].map
               /\ frame'[h].key = frame[h].key /\ frame'[h].root = frame[h].root
    <3>1. CASE frame'[h] = frame[h]
      BY <3>1 DEF TypeOK, FramesTyped
    <3>2. CASE frame'[h] = [frame[h] EXCEPT !.askable = @ \cup {Named(b)}]
      <4>1. /\ frame[h] \in Frames
            /\ frame[h].askable \cup {Named(b)} \in SUBSET {"default", "on", "off"}
        BY <2>2 DEF TypeOK, FramesTyped, Frames
      <4> QED BY <3>2, <4>1, AskableTyped
    <3> QED BY <2>1, <3>1, <3>2
  <2>5. FramesTyped'
    BY <2>1, <2>3, <2>4 DEF TypeOK, FramesTyped, Positions
  <2>6. override' \in [Loggers \cup {Fresh} -> BOOLEAN]
    BY <1>0, <2>1, <2>2 DEF TypeOK, SharedTyped
  <2> QED BY <1>1, <2>5, <2>6 DEF CaptureSentryEvent, TypeOK, SharedTyped
<1>2. CASE StoreSet(g)
  <2>1. FramesTyped'
    BY <1>2, EmptyTyped, GoTyped DEF StoreSet, TypeOK
  <2>2. overrideSet' \in [Loggers \cup {Fresh} -> BOOLEAN]
    BY <1>0, <1>2 DEF StoreSet, TypeOK, SharedTyped
  <2> QED BY <1>2, <2>1, <2>2 DEF StoreSet, TypeOK, SharedTyped
<1> QED BY <1>1, <1>2 DEF OverrideStep

-----------------------------------------------------------------------------
(* Slices.                                                                 *)

LEMMA ItemsTyped ==
    ASSUME SharedTyped, NEW f \in Frames
    PROVE  /\ Items(f) \in Seq(ItemSet) /\ Len(Items(f)) \in Nat
           /\ f.view \in Nat /\ f.view <= Len(backing) /\ Len(backing) \in Nat
<1>1. f.view \in Nat /\ f.view <= Len(backing) /\ Len(backing) \in Nat /\ f.kv \in Seq(ItemSet)
  BY ArgsTyped DEF SharedTyped, Frames
<1>2. CASE f.view > 0
  <2>1. SubSeq(backing, 1, f.view) \in Seq(ItemSet)
    BY <1>1, <1>2 DEF SharedTyped
  <2> QED BY <1>1, <1>2, <2>1 DEF Items
<1>3. CASE ~(f.view > 0)
  BY <1>1, <1>3 DEF Items
<1> QED BY <1>1, <1>2, <1>3

LEMMA AppendTyped ==
    ASSUME TypeOK, NEW g \in Goroutines, NEW l \in {"capture", "emit"}, NEW f \in Frames,
           NEW items \in Seq(ItemSet), AppendItems(g, l, f, items)
    PROVE  /\ FramesTyped'
           /\ backing' \in Seq(ItemSet) /\ Len(backing') = Len(SharedArgs) + Room
<1> DEFINE end == f.view + Len(items)
<1>1. f.view \in Nat /\ f.view <= Len(backing) /\ Items(f) \in Seq(ItemSet)
  BY ItemsTyped DEF TypeOK
<1>2. backing \in Seq(ItemSet) /\ Len(backing) = Len(SharedArgs) + Room /\ Len(items) \in Nat
  BY DEF TypeOK, SharedTyped
<1>3. l \in Positions /\ l \notin {"assign", "range", "storeRoot", "idle"}
  BY DEF Positions
<1>4. CASE f.view > 0 /\ end <= Len(backing)
  <2>1. backing' = [i \in DOMAIN backing |->
                      IF i \in f.view + 1..end THEN items[i - f.view] ELSE backing[i]]
    BY <1>4 DEF AppendItems
  <2>2. /\ pc' = [pc EXCEPT ![g] = l]
        /\ frame' = [Overwrite(f.view, items) EXCEPT ![g] = [f EXCEPT !.view = end]]
    BY <1>4 DEF AppendItems
  <2>3. end \in 0..(Len(SharedArgs) + Room)
    BY <1>1, <1>2, <1>4
  <2>4. [f EXCEPT !.view = end] \in Frames
    BY <2>3 DEF Frames
  <2>5. FramesTyped'
    <3>1. ASSUME NEW h \in Goroutines, h # g
          PROVE  /\ pc'[h] = pc[h] /\ frame'[h] \in Frames /\ frame'[h].map = frame[h].map
                 /\ frame'[h].key = frame[h].key /\ frame'[h].root = frame[h].root
      <4>1. frame[h] \in Frames /\ frame'[h] \in {frame[h], Marked(frame[h])}
        BY <2>2, <3>1 DEF Overwrite, Marked, TypeOK, FramesTyped
      <4>2. pc'[h] = pc[h]
        BY <2>2, <3>1 DEF TypeOK, FramesTyped
      <4> QED BY <4>1, <4>2, MarkedTyped
    <3>2. pc'[g] = l /\ frame'[g] \in Frames
      BY <2>2, <2>4 DEF Overwrite, TypeOK, FramesTyped
    <3>3. pc' \in [Goroutines -> Positions] /\ frame' \in [Goroutines -> Frames]
      BY <1>3, <2>2, <3>1, <3>2 DEF Overwrite, TypeOK, FramesTyped
    <3> QED BY <1>3, <3>1, <3>2, <3>3 DEF TypeOK, FramesTyped
  <2>6. ASSUME NEW i \in 1..Len(backing)
        PROVE  (IF i \in f.view + 1..end THEN items[i - f.view] ELSE backing[i]) \in ItemSet
    <3>1. CASE i \in f.view + 1..end
      <4>1. i - f.view \in 1..Len(items)
        BY <1>1, <1>2, <3>1
      <4> QED BY <3>1, <4>1, ElementOfSeq
    <3>2. CASE i \notin f.view + 1..end
      BY <1>2, <3>2, ElementOfSeq
    <3> QED BY <3>1, <3>2
  <2>7. backing' \in [1..Len(backing) -> ItemSet]
    BY <1>2, <2>1, <2>6
  <2>8. backing' \in Seq(ItemSet) /\ Len(backing') = Len(backing)
    BY <1>2, <2>7
  <2> QED BY <1>2, <2>5, <2>8
<1>5. CASE ~(f.view > 0 /\ end <= Len(backing))
  <2>1. Go(g, l, [f EXCEPT !.view = 0, !.kv = Items(f) \o items]) /\ UNCHANGED backing
    BY <1>5 DEF AppendItems
  <2>2. Items(f) \o items \in Seq(ItemSet)
    BY <1>1
  <2>3. [f EXCEPT !.view = 0, !.kv = Items(f) \o items] \in Frames
    <3>1. 0 \in 0..(Len(SharedArgs) + Room)
      BY ArgsTyped
    <3> QED BY <2>2, <3>1 DEF Frames
  <2> QED BY <1>2, <1>3, <2>1, <2>3, GoTyped DEF TypeOK
<1> QED BY <1>4, <1>5

\* A goroutine in a log call has a frame to work on.
LEMMA LogTyped ==
    ASSUME TypeOK, NEW g \in Goroutines, LogStep(g)
    PROVE  TypeOK'
<1> DEFINE f == frame[g]
<1>0. f \in Frames
  BY DEF TypeOK, FramesTyped
<1>1. CASE Log(g)
  <2>1. PICK api \in Apis, level \in LogLevels, args \in ArgLists \cup {<<>>},
             view \in {0, Len(SharedArgs)} :
           Go(g, "override",
              [EmptyFrame EXCEPT !.api = api, !.level = level, !.kv = args, !.view = view,
                 !.owed = {k \in Keys : callbacks[current][k] = "function"},
                 !.askable = InForce(IF api = "sdk" THEN Fresh ELSE LoggerOf[g])])
    BY <1>1 DEF Log
  <2> DEFINE owed == {k \in Keys : callbacks[current][k] = "function"}
             ask == InForce(IF api = "sdk" THEN Fresh ELSE LoggerOf[g])
             e == [EmptyFrame EXCEPT !.api = api, !.level = level, !.kv = args, !.view = view,
                                     !.owed = owed, !.askable = ask]
  <2>2. owed \in SUBSET Keys /\ ask \in SUBSET {"default", "on", "off"}
    BY DEF InForce, Named
  <2>3. /\ api \in {"none", "contextual", "legacy", "sdk"} /\ level \in 0..4
        /\ args \in Seq(ItemSet) /\ view \in 0..(Len(SharedArgs) + Room)
    <3>1. args \in Seq(ItemSet)
      BY ArgsTyped
    <3>2. view \in 0..(Len(SharedArgs) + Room)
      BY ArgsTyped
    <3> QED BY <3>1, <3>2, ConstantsAssumption
  <2> HIDE DEF owed, ask
  <2>4. e \in Frames
    BY <2>2, <2>3, EmptyFrameTyped DEF EmptyFrame, Frames
  <2>5. Go(g, "override", e)
    BY <2>1 DEF owed, ask
  <2> HIDE DEF e
  <2>6. FramesTyped'
    BY <2>4, <2>5, GoTyped DEF TypeOK, Positions
  <2> QED BY <1>1, <2>6, SharedStays DEF Log, TypeOK
<1>2. CASE LoadOverride(g)
  <2>1. override[Through(g)] \in BOOLEAN
    BY ConstantsAssumption DEF Through, TypeOK, SharedTyped
  <2>2. [f EXCEPT !.loaded = override[Through(g)]] \in Frames
    BY <1>0, <2>1 DEF Frames
  <2>3. FramesTyped'
    BY <1>2, <2>2, GoTyped DEF LoadOverride, TypeOK, Positions
  <2> QED BY <1>2, <2>3, SharedStays DEF LoadOverride, TypeOK
<1>3. CASE LoadSet(g)
  <2> DEFINE c == IF overrideSet[Through(g)] THEN f.loaded ELSE f.level >= ErrorLevel
  <2>1. c \in BOOLEAN
    <3>1. f.loaded \in BOOLEAN /\ f.level \in 0..4
      BY <1>0 DEF Frames
    <3>2. (f.level >= ErrorLevel) \in BOOLEAN
      BY <3>1 DEF ErrorLevel
    <3> QED BY <3>1, <3>2, Zenon
  <2>2. Go(g, "extras", [f EXCEPT !.loaded = FALSE, !.capture = c])
    BY <1>3 DEF LoadSet
  <2> HIDE DEF c
  <2>3. [f EXCEPT !.loaded = FALSE, !.capture = c] \in Frames
    BY <1>0, <2>1 DEF Frames
  <2>4. FramesTyped'
    BY <2>2, <2>3, GoTyped DEF TypeOK, Positions
  <2> QED BY <1>3, <2>4, SharedStays DEF LoadSet, TypeOK
<1>4. CASE BeginRange(g)
  <2> DEFINE v == IF f.level = FatalLevel THEN f.level ELSE 0
             e == [f EXCEPT !.map = current, !.due = Registered(current), !.api = "none",
                            !.askable = {}, !.level = v]
  <2>0. v \in 0..4
    BY <1>0 DEF Frames
  <2>1. Registered(current) \in SUBSET Keys /\ current \in Maps
    BY DEF Registered, TypeOK, SharedTyped
  <2>2. Go(g, "range", e)
    BY <1>0, <1>4 DEF BeginRange
  <2> HIDE DEF v
  <2>3. e \in Frames /\ e.map \in Maps
    BY <1>0, <2>0, <2>1 DEF Frames
  <2> HIDE DEF e
  <2>4. FramesTyped'
    BY <2>2, <2>3, GoTyped DEF TypeOK, Positions
  <2> QED BY <1>4, <2>4, SharedStays DEF BeginRange, TypeOK
<1>5. CASE VisitCallback(g)
  <2>1. PICK k \in Registered(f.map) \ f.visited :
           Go(g, "range", [f EXCEPT !.visited = @ \cup {k},
              !.extras = IF callbacks[f.map][k] = "nil" THEN @
                         ELSE @ \o <<<<"string", k>>, <<"value", g>>>>])
    BY <1>5 DEF VisitCallback
  <2> DEFINE x == IF callbacks[f.map][k] = "nil" THEN f.extras
                  ELSE f.extras \o <<<<"string", k>>, <<"value", g>>>>
             e == [f EXCEPT !.visited = f.visited \cup {k}, !.extras = x]
  <2>2. k \in Keys /\ f.map \in Maps
    BY <1>5 DEF Registered, VisitCallback, At, TypeOK, FramesTyped
  <2>3. x \in Seq(ItemSet)
    <3>1. f.extras \in Seq(ItemSet)
      BY <1>0 DEF Frames
    <3>2. <<<<"string", k>>, <<"value", g>>>> \in Seq(ItemSet)
      BY <2>2, PairsTyped DEF ItemSet
    <3> QED BY <3>1, <3>2, ConcatProperties
  <2>4. f.visited \cup {k} \in SUBSET Keys
    BY <1>0, <2>2 DEF Frames
  <2>5. Go(g, "range", e)
    BY <1>0, <2>1 DEF Frames
  <2> HIDE DEF x
  <2>6. e \in Frames /\ e.map \in Maps
    BY <1>0, <2>2, <2>3, <2>4 DEF Frames
  <2> HIDE DEF e
  <2>7. FramesTyped'
    BY <2>5, <2>6, GoTyped DEF TypeOK, Positions
  <2> QED BY <1>5, <2>7, SharedStays DEF VisitCallback, TypeOK
<1>6. CASE AppendExtras(g)
  <2> DEFINE e == [f EXCEPT !.extras = <<>>, !.map = NoMap, !.due = {}, !.visited = {}]
  <2>1. e \in Frames /\ f.extras \in Seq(ItemSet)
    BY <1>0, ArgsTyped DEF Frames
  <2>2. AppendItems(g, "capture", e, f.extras)
    BY <1>6 DEF AppendExtras
  <2> HIDE DEF e
  <2>3. FramesTyped' /\ backing' \in Seq(ItemSet) /\ Len(backing') = Len(SharedArgs) + Room
    BY <2>1, <2>2, AppendTyped
  <2> QED BY <1>6, <2>3 DEF AppendExtras, TypeOK, SharedTyped
<1>7. CASE SendToSentry(g)
  <2> DEFINE x == contextToLegacyExtra(Items(f))
             e == [f EXCEPT !.sent = x]
             id == <<<<"string", SentryEventID>>, <<"value", EventID>>>>
  <2>1. x \in Extras
    BY <1>0, ItemsTyped DEF Extras, TypeOK
  <2>2. id \in Seq(ItemSet) /\ <<>> \in Seq(ItemSet)
    BY PairsTyped DEF ItemSet
  <2>3. AppendItems(g, "emit", e, <<>>) \/ AppendItems(g, "emit", e, id)
    BY <1>7 DEF SendToSentry
  <2> HIDE DEF x, id
  <2>4. e \in Frames
    BY <1>0, <2>1 DEF Frames
  <2> HIDE DEF e
  <2>5. FramesTyped' /\ backing' \in Seq(ItemSet) /\ Len(backing') = Len(SharedArgs) + Room
    BY <2>2, <2>3, <2>4, AppendTyped
  <2> QED BY <1>7, <2>5 DEF SendToSentry, TypeOK, SharedTyped
<1>8. CASE SendNothing(g)
  <2>1. FramesTyped'
    BY <1>0, <1>8, GoTyped DEF SendNothing, TypeOK, Positions
  <2> QED BY <1>8, <2>1, SharedStays DEF SendNothing, TypeOK
<1>9. CASE Emit(g)
  <2>1. FramesTyped'
    BY <1>9, EmptyTyped, GoTyped DEF Emit, TypeOK
  <2> QED BY <1>9, <2>1, SharedStays DEF Emit, TypeOK
<1> QED BY <1>1, <1>2, <1>3, <1>4, <1>5, <1>6, <1>7, <1>8, <1>9 DEF LogStep

LEMMA StutterTyped == TypeOK /\ UNCHANGED <<shared, pc, frame>> => TypeOK'
BY SharedStays DEF TypeOK, FramesTyped

LEMMA TypeStep == TypeOK /\ [Next]_vars => TypeOK'
<1> SUFFICES ASSUME TypeOK, [Next]_vars PROVE TypeOK'
  OBVIOUS
<1>1. CASE BlowUp
  BY <1>1, StutterTyped DEF BlowUp
<1>2. CASE UNCHANGED vars
  BY <1>2, StutterTyped DEF vars
<1> QED BY <1>1, <1>2, RegistryTyped, SettingsTyped, OverrideTyped, LogTyped DEF Next

\* What the loggers, the registry, the shared slice and every log call under
\* way are made of: in particular a call that ranges
\* always has a map object, however often the registry is replaced meanwhile.
THEOREM TypeCorrect == Spec => []TypeOK
BY TypeInit, TypeStep, PTL DEF Spec

-----------------------------------------------------------------------------
(* Levels.  SetLogLevel sets zerolog's level and then stores a root logger *)
(* made from the one it has read: of two configurers each may undo half of *)
(* what the other has set.  One is what a service has.                     *)

OneConfigurer == \A g, h \in Configurers : g = h

\* The level to be stored, or else that of the root logger, is zerolog's.
LevelInv ==
    /\ \A g \in Goroutines : pc[g] = "storeRoot" =>
          g \in Configurers /\ frame[g].root.level = globalLevel
    /\ (\A g \in Goroutines : pc[g] # "storeRoot") => root.level = globalLevel

\* A goroutine that goes from a position to another has nothing to do with
\* the level, unless it stores the root logger.
LEMMA LevelElsewhere ==
    ASSUME TypeOK, LevelInv, UNCHANGED <<root, globalLevel>>,
           \A h \in Goroutines :
              /\ (pc'[h] = "storeRoot") <=> (pc[h] = "storeRoot")
              /\ pc[h] = "storeRoot" => frame'[h].root = frame[h].root
    PROVE  LevelInv'
BY DEF LevelInv

LEMMA GoElsewhere ==
    ASSUME TypeOK, LevelInv, UNCHANGED <<root, globalLevel>>, NEW g \in Goroutines,
           NEW l, NEW f, Go(g, l, f), pc[g] # "storeRoot", l # "storeRoot"
    PROVE  LevelInv'
<1>1. ASSUME NEW h \in Goroutines
      PROVE  /\ (pc'[h] = "storeRoot") <=> (pc[h] = "storeRoot")
             /\ pc[h] = "storeRoot" => frame'[h].root = frame[h].root
  BY DEF Go, TypeOK, FramesTyped
<1> QED BY <1>1, LevelElsewhere

LEMMA LevelSettings ==
    ASSUME OneConfigurer, TypeOK, LevelInv, NEW g \in Goroutines, SettingsStep(g)
    PROVE  LevelInv'
<1>1. ASSUME g \in Configurers, pc[g] = "idle"
      PROVE  root.level = globalLevel /\ \A h \in Goroutines : pc[h] # "storeRoot"
  BY <1>1 DEF OneConfigurer, LevelInv
<1>2. ASSUME NEW r \in Roots, Go(g, "storeRoot", [EmptyFrame EXCEPT !.root = r]),
             g \in Configurers, pc[g] = "idle", r.level = globalLevel'
      PROVE  LevelInv'
  <2>1. frame'[g].root = r /\ pc'[g] = "storeRoot"
    BY <1>2 DEF Go, TypeOK, FramesTyped, EmptyFrame
  <2>2. ASSUME NEW h \in Goroutines, h # g PROVE pc'[h] # "storeRoot"
    BY <1>1, <1>2, <2>2 DEF Go, TypeOK, FramesTyped
  <2> QED BY <1>2, <2>1, <2>2 DEF LevelInv
<1>3. root \in Roots
  BY DEF TypeOK, SharedTyped
<1>4. CASE SetLogLevel(g)
  <2>1. PICK l \in SetLevels :
           /\ globalLevel' = l
           /\ Go(g, "storeRoot", [EmptyFrame EXCEPT !.root = [root EXCEPT !.level = l]])
    BY <1>4 DEF SetLogLevel
  <2>2. [root EXCEPT !.level = l] \in Roots /\ [root EXCEPT !.level = l].level = l
    BY <1>3, ConstantsAssumption DEF Roots
  <2> QED BY <1>2, <1>4, <2>1, <2>2 DEF SetLogLevel, At
<1>5. CASE SetOutput(g)
  <2>1. PICK o \in Outputs :
           Go(g, "storeRoot", [EmptyFrame EXCEPT !.root = [root EXCEPT !.out = o]])
    BY <1>5 DEF SetOutput
  <2>2. g \in Configurers /\ pc[g] = "idle" /\ globalLevel' = globalLevel
    BY <1>5 DEF SetOutput, At, shared
  <2>3. [root EXCEPT !.out = o] \in Roots /\ [root EXCEPT !.out = o].level = root.level
    BY <1>3 DEF Roots
  <2> QED BY <1>1, <1>2, <2>1, <2>2, <2>3
<1>6. CASE StoreRoot(g)
  <2>1. pc[g] = "storeRoot" /\ root'.level = globalLevel /\ globalLevel' = globalLevel
    BY <1>6 DEF StoreRoot, At, LevelInv
  <2>2. ASSUME NEW h \in Goroutines PROVE pc'[h] # "storeRoot"
    BY <1>6, <2>1 DEF StoreRoot, Go, TypeOK, FramesTyped, LevelInv, OneConfigurer
  <2> QED BY <2>1, <2>2 DEF LevelInv
<1> QED BY <1>4, <1>5, <1>6 DEF SettingsStep

\* g goes to l with the locals f, and the others stay where they are, with
\* their locals: of these an append may have overwritten what they stand for.
GoesTo(g, l, f) ==
    /\ pc'[g] = l /\ frame'[g] = f
    /\ \A h \in Goroutines \ {g} :
          pc'[h] = pc[h] /\ frame'[h] \in {frame[h], Marked(frame[h])}

LEMMA GoGoes ==
    ASSUME TypeOK, NEW g \in Goroutines, NEW l, NEW f, Go(g, l, f)
    PROVE  GoesTo(g, l, f)
BY DEF Go, GoesTo, TypeOK, FramesTyped

LEMMA AppendGoes ==
    ASSUME TypeOK, NEW g \in Goroutines, NEW l, NEW f, NEW items, AppendItems(g, l, f, items)
    PROVE  \E e : GoesTo(g, l, e)
<1> DEFINE end == f.view + Len(items)
<1>1. CASE f.view > 0 /\ end <= Len(backing)
  <2>1. /\ pc' = [pc EXCEPT ![g] = l]
        /\ frame' = [Overwrite(f.view, items) EXCEPT ![g] = [f EXCEPT !.view = end]]
    BY <1>1 DEF AppendItems
  <2>2. frame'[g] = [f EXCEPT !.view = end] /\ pc'[g] = l
    BY <2>1 DEF Overwrite, TypeOK, FramesTyped
  <2>3. ASSUME NEW h \in Goroutines \ {g}
        PROVE  pc'[h] = pc[h] /\ frame'[h] \in {frame[h], Marked(frame[h])}
    BY <2>1 DEF Overwrite, Marked, TypeOK, FramesTyped
  <2> QED BY <2>2, <2>3 DEF GoesTo
<1>2. CASE ~(f.view > 0 /\ end <= Len(backing))
  <2>1. Go(g, l, [f EXCEPT !.view = 0, !.kv = Items(f) \o items])
    BY <1>2 DEF AppendItems
  <2> QED BY <2>1, GoGoes
<1> QED BY <1>1, <1>2

\* A step of a log call moves its own goroutine, and to no other work.
LEMMA LogGoes ==
    ASSUME TypeOK, NEW g \in Goroutines, LogStep(g)
    PROVE  \E l, f : GoesTo(g, l, f) /\ l \notin {"assign", "storeRoot", "storeSet"}
<1>1. CASE Log(g)
  BY <1>1, GoGoes DEF Log
<1>2. CASE LoadOverride(g) \/ LoadSet(g) \/ BeginRange(g)
  BY <1>2, GoGoes DEF LoadOverride, LoadSet, BeginRange
<1>3. CASE VisitCallback(g)
  BY <1>3, GoGoes DEF VisitCallback
<1>4. CASE AppendExtras(g)
  BY <1>4, AppendGoes DEF AppendExtras
<1>5. CASE SendToSentry(g)
  BY <1>5, AppendGoes DEF SendToSentry
<1>6. CASE SendNothing(g) \/ Emit(g)
  BY <1>6, GoGoes DEF SendNothing, Emit
<1> QED BY <1>1, <1>2, <1>3, <1>4, <1>5, <1>6 DEF LogStep

LEMMA LevelStep ==
    ASSUME OneConfigurer, TypeOK, LevelInv, [Next]_vars
    PROVE  LevelInv'
<1>1. ASSUME NEW g \in Goroutines, RegistryStep(g) PROVE LevelInv'
  <2>1. CASE Register(g)
    BY <2>1, GoElsewhere DEF Register, At, shared
  <2>2. ASSUME NEW ks, NEW h \in Goroutines PROVE Disown(ks)[h].root = frame[h].root
    BY DisownTyped DEF TypeOK
  <2>3. CASE Assign(g)
    <3>1. PICK ks : frame' = [Disown(ks) EXCEPT ![g] = EmptyFrame]
      BY <2>3 DEF Assign
    <3>2. ASSUME NEW h \in Goroutines
          PROVE  /\ (pc'[h] = "storeRoot") <=> (pc[h] = "storeRoot")
                 /\ pc[h] = "storeRoot" => frame'[h].root = frame[h].root
      <4>1. CASE h = g
        BY <2>3, <4>1 DEF Assign, At, TypeOK, FramesTyped
      <4>2. CASE h # g
        <5>1. frame'[h] = Disown(ks)[h]
          BY <3>1, <4>2 DEF Disown
        <5> QED BY <2>2, <2>3, <4>2, <5>1 DEF Assign, At, TypeOK, FramesTyped
      <4> QED BY <4>1, <4>2
    <3> QED BY <2>3, <3>2, LevelElsewhere DEF Assign
  <2>4. CASE Clear(g)
    <3>1. frame' = Disown(Keys) /\ pc' = pc /\ UNCHANGED <<root, globalLevel>>
      BY <2>4 DEF Clear
    <3>2. \A h \in Goroutines : frame'[h].root = frame[h].root
      BY <2>2, <3>1
    <3> QED BY <3>1, <3>2, LevelElsewhere
  <2> QED BY <1>1, <2>1, <2>3, <2>4 DEF RegistryStep
<1>2. ASSUME NEW g \in Goroutines, OverrideStep(g) PROVE LevelInv'
  <2>1. CASE CaptureSentryEvent(g)
    <3>1. PICK b \in Overrides :
            frame' = [h \in Goroutines |->
                IF pc[h] \in {"override", "set"} /\ Through(h) = LoggerOf[g]
                THEN [frame[h] EXCEPT !.askable = @ \cup {Named(b)}] ELSE frame[h]]
      BY <2>1 DEF CaptureSentryEvent
    <3>2. ASSUME NEW h \in Goroutines
          PROVE  /\ (pc'[h] = "storeRoot") <=> (pc[h] = "storeRoot")
                 /\ pc[h] = "storeRoot" => frame'[h].root = frame[h].root
      BY <2>1, <3>1 DEF CaptureSentryEvent, At, TypeOK, FramesTyped
    <3> QED BY <2>1, <3>2, LevelElsewhere DEF CaptureSentryEvent
  <2>2. CASE StoreSet(g)
    BY <2>2, GoElsewhere DEF StoreSet, At
  <2> QED BY <1>2, <2>1, <2>2 DEF OverrideStep
<1>3. ASSUME NEW g \in Goroutines, LogStep(g) PROVE LevelInv'
  <2>1. PICK l, f : GoesTo(g, l, f) /\ l # "storeRoot"
    BY <1>3, LogGoes
  <2>2. pc[g] # "storeRoot" /\ UNCHANGED <<root, globalLevel>>
    BY <1>3 DEF LogStep, Log, LoadOverride, LoadSet, BeginRange, VisitCallback, AppendExtras,
                SendToSentry, SendNothing, Emit, At, shared
  <2>3. ASSUME NEW h \in Goroutines
        PROVE  /\ (pc'[h] = "storeRoot") <=> (pc[h] = "storeRoot")
               /\ pc[h] = "storeRoot" => frame'[h].root = frame[h].root
    <3>1. frame[h] \in Frames
      BY DEF TypeOK, FramesTyped
    <3>2. CASE h = g
      BY <2>1, <2>2, <3>2 DEF GoesTo
    <3>3. CASE h # g
      BY <2>1, <3>1, <3>3, MarkedTyped DEF GoesTo
    <3> QED BY <3>2, <3>3
  <2> QED BY <2>2, <2>3, LevelElsewhere
<1>4. CASE BlowUp \/ UNCHANGED vars
  BY <1>4 DEF BlowUp, vars, shared, LevelInv
<1> QED BY <1>1, <1>2, <1>3, <1>4, LevelSettings DEF Next

\* With one configurer, whatever XxxEnabled says of a level while no setting
\* is under way is what happens to a record of that level.
THEOREM EnabledIsTold == ASSUME OneConfigurer PROVE Spec => []EnabledTellsTruth
<1>1. Init => LevelInv
  BY DEF Init, LevelInv, DefaultLevel
<1>2. TypeOK /\ LevelInv /\ [Next]_vars => LevelInv'
  BY LevelStep
<1>3. TypeOK /\ LevelInv => EnabledTellsTruth
  <2> SUFFICES ASSUME TypeOK, LevelInv, \A g \in Goroutines : pc[g] # "storeRoot",
                      NEW l \in LogLevels
               PROVE  logLevelEnabled(l) <=> Written(l)
    BY DEF EnabledTellsTruth
  <2>1. root.level = globalLevel /\ globalLevel \in 0..7 /\ l \in 0..4
    BY ConstantsAssumption DEF LevelInv, TypeOK, SharedTyped
  <2> QED BY <2>1 DEF logLevelEnabled, Written
<1> QED BY <1>1, <1>2, <1>3, TypeCorrect, PTL DEF Spec

-----------------------------------------------------------------------------
(* Capture.  Goroutines that share a logger load and store its two atomics *)
(* in any order.                                                           *)

\* Who has not stored the flag has not stored an override; a logger of one
\* call is given none.
LoggersInv ==
    \A l \in Loggers \cup {Fresh} : ~overrideSet[l] /\ ~Pending(l) => ~override[l]

\* What is said of the call at "extras".
Decided(f) ==
    \/ \E o \in f.askable : f.capture = Resolve(o, f.level)
    \/ "default" \in f.askable /\ f.askable # {"default"} /\ ~f.capture

\* While a call has still to load the flag, it may go by the default as long
\* as the flag is not set, and by the override in force from when it is under
\* way.  A value that is none of these is that from before the first override.
CallInv(g) ==
    LET l == Through(g)
        f == frame[g]
    IN  /\ pc[g] \in {"override", "set"} =>
              /\ overrideSet[l] \/ "default" \in f.askable
              /\ overrideSet[l] \/ Pending(l) => Named(override[l]) \in f.askable
        /\ pc[g] = "set" =>
              \/ Named(f.loaded) \in f.askable
              \/ "default" \in f.askable /\ ~f.loaded
        /\ pc[g] = "extras" => Decided(f)

CaptureInv == LoggersInv /\ \A g \in Goroutines : CallInv(g)

\* The locals that the decision comes from.
SameChoice(g) ==
    /\ frame'[g].api = frame[g].api /\ frame'[g].level = frame[g].level
    /\ frame'[g].loaded = frame[g].loaded /\ frame'[g].capture = frame[g].capture
    /\ frame'[g].askable = frame[g].askable

Choosing == {"override", "set", "extras"}

\* Nobody begins or ends the storing of an override.
CaptureStays ==
    /\ UNCHANGED <<override, overrideSet>>
    /\ \A h \in Goroutines : (pc'[h] = "storeSet") <=> (pc[h] = "storeSet")

LEMMA ThroughTyped ==
    ASSUME NEW g \in Goroutines
    PROVE  /\ Through(g) \in Loggers \cup {Fresh}
           /\ LoggerOf[g] \in Loggers \cup {Fresh} /\ LoggerOf[g] # Fresh
BY ConstantsAssumption DEF Through

LEMMA CaptureOthers ==
    ASSUME CaptureInv, CaptureStays, NEW S \in SUBSET Goroutines,
           \A h \in S : pc'[h] \in Choosing => pc'[h] = pc[h] /\ SameChoice(h)
    PROVE  LoggersInv' /\ \A h \in S : CallInv(h)'
<1>1. \A l : Pending(l)' <=> Pending(l)
  BY DEF CaptureStays, Pending
<1>2. LoggersInv'
  BY <1>1 DEF CaptureInv, LoggersInv, CaptureStays
<1>3. ASSUME NEW h \in S PROVE CallInv(h)'
  <2>1. CASE pc'[h] \in Choosing
    <3>1. pc'[h] = pc[h] /\ SameChoice(h) /\ CallInv(h)
      BY <2>1 DEF CaptureInv
    <3>2. PICK l : l = Through(h) /\ l = Through(h)'
      BY <3>1 DEF Through, SameChoice
    <3>3. Decided(frame[h]) => Decided(frame[h])'
      BY <3>1 DEF Decided, Resolve, SameChoice
    <3>4. /\ override'[l] = override[l] /\ overrideSet'[l] = overrideSet[l]
          /\ Pending(l)' <=> Pending(l)
      BY <1>1 DEF CaptureStays
    <3> QED BY <3>1, <3>2, <3>3, <3>4 DEF CallInv, SameChoice, Named
  <2>2. CASE pc'[h] \notin Choosing
    BY <2>2 DEF CallInv, Choosing
  <2> QED BY <2>1, <2>2
<1> QED BY <1>2, <1>3

LEMMA CaptureElsewhere ==
    ASSUME CaptureInv, CaptureStays,
           \A h \in Goroutines : pc'[h] \in Choosing => pc'[h] = pc[h] /\ SameChoice(h)
    PROVE  CaptureInv'
BY CaptureOthers DEF CaptureInv

\* A step to where nothing is decided any more.
LEMMA CaptureGo ==
    ASSUME TypeOK, CaptureInv, UNCHANGED <<override, overrideSet>>, NEW g \in Goroutines,
           NEW l, NEW f, GoesTo(g, l, f), pc[g] # "storeSet", l \notin Choosing \cup {"storeSet"}
    PROVE  CaptureInv'
<1>1. ASSUME NEW h \in Goroutines, h # g PROVE pc'[h] = pc[h] /\ SameChoice(h)
  <2>1. frame[h] \in Frames /\ frame'[h] \in {frame[h], Marked(frame[h])}
    BY <1>1 DEF GoesTo, TypeOK, FramesTyped
  <2> QED BY <1>1, <2>1, MarkedTyped DEF GoesTo, SameChoice
<1>2. pc'[g] = l
  BY DEF GoesTo
<1>3. CaptureStays
  BY <1>1, <1>2 DEF CaptureStays
<1> QED BY <1>1, <1>2, <1>3, CaptureElsewhere

LEMMA CaptureOverrides ==
    ASSUME TypeOK, CaptureInv, NEW g \in Goroutines, OverrideStep(g)
    PROVE  CaptureInv'
<1> DEFINE L == LoggerOf[g]
<1>1. CASE CaptureSentryEvent(g)
  <2>1. PICK b \in Overrides :
          /\ override' = [override EXCEPT ![L] = b]
          /\ frame' = [h \in Goroutines |->
                IF pc[h] \in {"override", "set"} /\ Through(h) = L
                THEN [frame[h] EXCEPT !.askable = @ \cup {Named(b)}] ELSE frame[h]]
    BY <1>1 DEF CaptureSentryEvent
  <2>2. /\ pc[g] = "idle" /\ overrideSet' = overrideSet
        /\ pc'[g] = "storeSet" /\ \A h \in Goroutines \ {g} : pc'[h] = pc[h]
    BY <1>1 DEF CaptureSentryEvent, At, TypeOK, FramesTyped
  <2>3. Pending(L)' /\ \A l : l # L => (Pending(l)' <=> Pending(l))
    BY <2>2 DEF Pending
  <2>4. /\ override'[L] = b
        /\ \A l \in Loggers \cup {Fresh} : l # L => override'[l] = override[l]
    BY <2>1, ThroughTyped DEF TypeOK, SharedTyped
  <2>5. LoggersInv'
    BY <2>2, <2>3, <2>4 DEF CaptureInv, LoggersInv
  <2>6. ASSUME NEW h \in Goroutines PROVE CallInv(h)'
    <3>1. CASE h = g
      BY <2>2, <3>1 DEF CallInv
    <3>2. CASE h # g
      <4>1. /\ pc'[h] = pc[h] /\ CallInv(h) /\ frame[h] \in Frames
            /\ Through(h) \in Loggers \cup {Fresh}
        BY <2>2, <3>2, ThroughTyped DEF CaptureInv, TypeOK, FramesTyped
      <4>2. CASE pc[h] \in {"override", "set"} /\ Through(h) = L
        <5>1. /\ frame'[h].api = frame[h].api /\ frame'[h].loaded = frame[h].loaded
              /\ frame'[h].askable = frame[h].askable \cup {Named(b)}
          BY <2>1, <4>1, <4>2 DEF Frames
        <5>2. Through(h)' = L
          BY <4>2, <5>1 DEF Through
        <5>3. overrideSet[L] \/ "default" \in frame[h].askable
          BY <4>1, <4>2 DEF CallInv
        <5>4. pc[h] = "set" => \/ Named(frame[h].loaded) \in frame[h].askable
                               \/ "default" \in frame[h].askable /\ ~frame[h].loaded
          BY <4>1 DEF CallInv
        <5>5. Named(override[L])' = Named(b) /\ Named(frame[h].loaded)' = Named(frame[h].loaded)
          BY <2>4, <5>1 DEF Named
        <5> HIDE DEF L
        <5> QED BY <2>2, <4>1, <4>2, <5>1, <5>2, <5>3, <5>4, <5>5 DEF CallInv
      <4>3. CASE ~(pc[h] \in {"override", "set"} /\ Through(h) = L)
        <5>1. frame'[h] = frame[h]
          BY <2>1, <4>3
        <5>2. PICK l \in Loggers \cup {Fresh} : l = Through(h) /\ l = Through(h)'
          BY <4>1, <5>1 DEF Through
        <5>3. Decided(frame[h]) => Decided(frame[h])'
          BY <5>1 DEF Decided, Resolve
        <5>4. pc[h] \in {"override", "set"} =>
                 override'[l] = override[l] /\ (Pending(l)' <=> Pending(l))
          BY <2>3, <2>4, <4>3, <5>2
        <5> QED BY <2>2, <4>1, <5>1, <5>2, <5>3, <5>4 DEF CallInv, Named
      <4> QED BY <4>2, <4>3
    <3> QED BY <3>1, <3>2
  <2> QED BY <2>5, <2>6 DEF CaptureInv
<1>2. CASE StoreSet(g)
  <2>1. /\ pc[g] = "storeSet" /\ override' = override
        /\ overrideSet' = [overrideSet EXCEPT ![L] = TRUE]
        /\ pc'[g] = "idle" /\ \A h \in Goroutines \ {g} : pc'[h] = pc[h] /\ frame'[h] = frame[h]
    BY <1>2 DEF StoreSet, At, Go, TypeOK, FramesTyped
  <2>2. Pending(L) /\ \A l : l # L => (Pending(l)' <=> Pending(l))
    BY <2>1 DEF Pending
  <2>3. /\ overrideSet'[L]
        /\ \A l \in Loggers \cup {Fresh} : l # L => overrideSet'[l] = overrideSet[l]
    BY <2>1, ThroughTyped DEF TypeOK, SharedTyped
  <2>4. LoggersInv'
    BY <2>1, <2>2, <2>3 DEF CaptureInv, LoggersInv
  <2>5. ASSUME NEW h \in Goroutines PROVE CallInv(h)'
    <3>1. CASE h = g
      BY <2>1, <3>1 DEF CallInv
    <3>2. CASE h # g
      <4>1. pc'[h] = pc[h] /\ frame'[h] = frame[h] /\ CallInv(h)
        BY <2>1, <3>2 DEF CaptureInv
      <4>2. PICK l \in Loggers \cup {Fresh} : l = Through(h) /\ l = Through(h)'
        BY <4>1, ThroughTyped DEF Through
      <4>3. Decided(frame[h]) => Decided(frame[h])'
        BY <4>1 DEF Decided, Resolve
      <4>4. /\ overrideSet[l] => overrideSet'[l]
            /\ overrideSet'[l] \/ Pending(l)' => overrideSet[l] \/ Pending(l)
        BY <2>2, <2>3
      <4> QED BY <2>1, <4>1, <4>2, <4>3, <4>4 DEF CallInv, Named
    <3> QED BY <3>1, <3>2
  <2> QED BY <2>4, <2>5 DEF CaptureInv
<1> QED BY <1>1, <1>2 DEF OverrideStep

\* A step of one call leaves the others as they are.
LEMMA CaptureOwn ==
    ASSUME TypeOK, CaptureInv, UNCHANGED shared, NEW g \in Goroutines, NEW l, NEW f,
           Go(g, l, f), pc[g] # "storeSet", l # "storeSet", CallInv(g)'
    PROVE  CaptureInv'
<1>1. ASSUME NEW h \in Goroutines \ {g} PROVE pc'[h] = pc[h] /\ SameChoice(h)
  BY <1>1 DEF Go, SameChoice, TypeOK, FramesTyped
<1>2. pc'[g] = l
  BY DEF Go, TypeOK, FramesTyped
<1>3. CaptureStays
  BY <1>1, <1>2 DEF CaptureStays, shared
<1>4. LoggersInv' /\ \A h \in Goroutines \ {g} : CallInv(h)'
  BY <1>1, <1>3, CaptureOthers
<1> QED BY <1>4 DEF CaptureInv

LEMMA CaptureCalls ==
    ASSUME TypeOK, CaptureInv, NEW g \in Goroutines, LogStep(g)
    PROVE  CaptureInv'
<1> DEFINE f == frame[g]
           T == Through(g)
<1>0. f \in Frames /\ CallInv(g) /\ T \in Loggers \cup {Fresh}
  BY ThroughTyped DEF TypeOK, FramesTyped, CaptureInv
<1>1. CASE Log(g)
  <2>1. PICK api \in Apis, level \in LogLevels, args \in ArgLists \cup {<<>>},
             view \in {0, Len(SharedArgs)} :
           Go(g, "override",
              [EmptyFrame EXCEPT !.api = api, !.level = level, !.kv = args, !.view = view,
                 !.owed = {k \in Keys : callbacks[current][k] = "function"},
                 !.askable = InForce(IF api = "sdk" THEN Fresh ELSE LoggerOf[g])])
    BY <1>1 DEF Log
  <2>2. pc[g] = "idle" /\ UNCHANGED shared
    BY <1>1 DEF Log, At
  <2>3. PICK l : l = IF api = "sdk" THEN Fresh ELSE LoggerOf[g]
    OBVIOUS
  <2>4. pc'[g] = "override" /\ frame'[g].api = api /\ frame'[g].askable = InForce(l)
    BY <2>1, <2>3 DEF Go, TypeOK, FramesTyped, EmptyFrame
  <2>5. Through(g)' = l
    BY <2>3, <2>4 DEF Through
  <2>6. Pending(l)' => Pending(l)
    BY <2>1 DEF Pending, Go, TypeOK, FramesTyped
  <2>7. CallInv(g)'
    BY <2>2, <2>4, <2>5, <2>6 DEF CallInv, InForce, Named, shared
  <2> QED BY <2>1, <2>2, <2>7, CaptureOwn
<1>2. CASE LoadOverride(g)
  <2>1. /\ pc[g] = "override" /\ UNCHANGED shared
        /\ Go(g, "set", [f EXCEPT !.loaded = override[T]])
    BY <1>2 DEF LoadOverride, At
  <2>2. /\ pc'[g] = "set" /\ frame'[g].api = f.api /\ frame'[g].askable = f.askable
        /\ frame'[g].loaded = override[T]
    BY <1>0, <2>1 DEF Go, TypeOK, FramesTyped, Frames
  <2>3. PICK l \in Loggers \cup {Fresh} : l = T
    BY <1>0
  <2>4. Through(g)' = l /\ (Pending(l)' => Pending(l))
    BY <2>1, <2>2, <2>3 DEF Through, Pending, Go, TypeOK, FramesTyped
  <2>5. /\ overrideSet[l] \/ "default" \in f.askable
        /\ overrideSet[l] \/ Pending(l) => Named(override[l]) \in f.askable
    BY <1>0, <2>1, <2>3 DEF CallInv
  <2>6. ~overrideSet[l] /\ ~Pending(l) => ~override[l]
    BY <2>3 DEF CaptureInv, LoggersInv
  <2>7. CallInv(g)'
    <3>1. override' = override /\ overrideSet' = overrideSet /\ frame'[g].loaded = override[l]
      BY <2>1, <2>2, <2>3 DEF shared
    <3> HIDE DEF T
    <3> QED BY <2>2, <2>4, <2>5, <2>6, <3>1 DEF CallInv, Named
  <2> QED BY <2>1, <2>7, CaptureOwn
<1>3. CASE LoadSet(g)
  <2> DEFINE c == IF overrideSet[T] THEN f.loaded ELSE f.level >= ErrorLevel
  <2>1. /\ pc[g] = "set" /\ UNCHANGED shared
        /\ Go(g, "extras", [f EXCEPT !.loaded = FALSE, !.capture = c])
    BY <1>3 DEF LoadSet, At
  <2>2. /\ overrideSet[T] \/ "default" \in f.askable
        /\ overrideSet[T] \/ Pending(T) => Named(override[T]) \in f.askable
        /\ Named(f.loaded) \in f.askable \/ ("default" \in f.askable /\ ~f.loaded)
    BY <1>0, <2>1 DEF CallInv
  <2>3. f.loaded \in BOOLEAN /\ Named(override[T]) # "default"
    BY <1>0 DEF Frames, Named
  <2>4. \/ \E o \in f.askable : c = Resolve(o, f.level)
        \/ "default" \in f.askable /\ f.askable # {"default"} /\ ~c
    <3>1. CASE overrideSet[T]
      <4>1. c = f.loaded
        BY <3>1
      <4>2. CASE Named(f.loaded) \in f.askable
        <5>1. Resolve(Named(f.loaded), f.level) = f.loaded
          <6>1. CASE f.loaded = TRUE
            BY <6>1 DEF Resolve, Named
          <6>2. CASE f.loaded = FALSE
            BY <6>2 DEF Resolve, Named
          <6> QED BY <2>3, <6>1, <6>2
        <5> QED BY <4>1, <4>2, <5>1
      <4>3. CASE "default" \in f.askable /\ ~f.loaded
        <5>1. f.askable # {"default"}
          BY <2>2, <2>3, <3>1
        <5> QED BY <4>1, <4>3, <5>1
      <4> QED BY <2>2, <4>2, <4>3
    <3>2. CASE ~overrideSet[T]
      <4>1. "default" \in f.askable /\ c = (f.level >= ErrorLevel)
        BY <2>2, <3>2
      <4>2. c = Resolve("default", f.level)
        BY <4>1 DEF Resolve
      <4> QED BY <4>1, <4>2
    <3> QED BY <3>1, <3>2
  <2> HIDE DEF c
  <2>5. /\ pc'[g] = "extras" /\ frame'[g].level = f.level /\ frame'[g].askable = f.askable
        /\ frame'[g].capture = c
    BY <1>0, <2>1 DEF Go, TypeOK, FramesTyped, Frames
  <2>6. Decided(frame[g])'
    BY <2>4, <2>5, Zenon DEF Decided, Resolve
  <2>7. CallInv(g)'
    BY <2>5, <2>6 DEF CallInv
  <2> QED BY <2>1, <2>7, CaptureOwn
<1>4. CASE ~(Log(g) \/ LoadOverride(g) \/ LoadSet(g))
  <2>1. PICK l, e : GoesTo(g, l, e) /\ l \notin {"assign", "storeRoot", "storeSet"}
    BY LogGoes
  <2>2. pc'[g] \notin Choosing /\ pc[g] # "storeSet"
    <3>1. CASE AppendExtras(g)
      <4>1. ASSUME NEW m, NEW e2, NEW items, AppendItems(g, m, e2, items)
            PROVE  pc'[g] = m
        BY <4>1 DEF AppendItems, Go, TypeOK, FramesTyped
      <4> QED BY <3>1, <4>1 DEF AppendExtras, At, Choosing
    <3>2. CASE SendToSentry(g)
      <4>1. ASSUME NEW m, NEW e2, NEW items, AppendItems(g, m, e2, items)
            PROVE  pc'[g] = m
        BY <4>1 DEF AppendItems, Go, TypeOK, FramesTyped
      <4> QED BY <3>2, <4>1 DEF SendToSentry, At, Choosing
    <3>3. CASE BeginRange(g) \/ VisitCallback(g) \/ SendNothing(g) \/ Emit(g)
      BY <3>3 DEF BeginRange, VisitCallback, SendNothing, Emit, At, Go, Choosing, TypeOK,
                  FramesTyped
    <3> QED BY <1>4, <3>1, <3>2, <3>3 DEF LogStep
  <2>3. UNCHANGED <<override, overrideSet>>
    BY DEF LogStep, Log, LoadOverride, LoadSet, BeginRange, VisitCallback, AppendExtras,
           SendToSentry, SendNothing, Emit, shared
  <2>4. l \notin Choosing \cup {"storeSet"}
    BY <2>1, <2>2 DEF GoesTo
  <2> QED BY <2>1, <2>2, <2>3, <2>4, CaptureGo
<1> QED BY <1>1, <1>2, <1>3, <1>4

LEMMA CaptureStep ==
    ASSUME TypeOK, CaptureInv, [Next]_vars
    PROVE  CaptureInv'
<1>0. {"idle", "assign", "storeRoot"} \cap (Choosing \cup {"storeSet"}) = {}
  BY DEF Choosing
<1>1. ASSUME NEW g \in Goroutines, RegistryStep(g) PROVE CaptureInv'
  <2>1. CASE Register(g)
    BY <1>0, <2>1, CaptureGo, GoGoes DEF Register, At, shared
  <2>2. ASSUME NEW ks, NEW h \in Goroutines, frame'[h] = Disown(ks)[h] PROVE SameChoice(h)
    BY <2>2 DEF Disown, SameChoice, TypeOK, FramesTyped, Frames
  <2>3. CASE Assign(g)
    <3>1. PICK ks : frame' = [Disown(ks) EXCEPT ![g] = EmptyFrame]
      BY <2>3 DEF Assign
    <3>2. pc[g] = "assign" /\ pc'[g] = "idle" /\ \A h \in Goroutines \ {g} : pc'[h] = pc[h]
      BY <2>3 DEF Assign, At, TypeOK, FramesTyped
    <3>3. CaptureStays
      BY <2>3, <3>2 DEF Assign, CaptureStays
    <3>4. ASSUME NEW h \in Goroutines, pc'[h] \in Choosing PROVE pc'[h] = pc[h] /\ SameChoice(h)
      <4>1. h # g
        BY <1>0, <3>2, <3>4
      <4>2. frame'[h] = Disown(ks)[h]
        BY <3>1, <4>1 DEF Disown
      <4> QED BY <2>2, <3>2, <4>1, <4>2
    <3> QED BY <3>3, <3>4, CaptureElsewhere
  <2>4. CASE Clear(g)
    <3>1. frame' = Disown(Keys) /\ pc' = pc /\ CaptureStays
      BY <2>4 DEF Clear, CaptureStays
    <3>2. \A h \in Goroutines : SameChoice(h) /\ pc'[h] = pc[h]
      BY <2>2, <3>1
    <3> QED BY <3>1, <3>2, CaptureElsewhere
  <2> QED BY <1>1, <2>1, <2>3, <2>4 DEF RegistryStep
<1>2. ASSUME NEW g \in Goroutines, SettingsStep(g) PROVE CaptureInv'
  <2>1. pc[g] # "storeSet" /\ UNCHANGED <<override, overrideSet>>
    BY <1>2 DEF SettingsStep, SetLogLevel, SetOutput, StoreRoot, At, shared
  <2>2. ASSUME NEW l \in {"idle", "storeRoot"}, NEW f, Go(g, l, f) PROVE CaptureInv'
    BY <1>0, <2>1, <2>2, CaptureGo, GoGoes
  <2> QED BY <1>2, <2>2 DEF SettingsStep, SetLogLevel, SetOutput, StoreRoot
<1>3. CASE BlowUp \/ UNCHANGED vars
  <2>1. CaptureStays /\ pc' = pc /\ frame' = frame
    BY <1>3 DEF BlowUp, vars, shared, CaptureStays
  <2>2. \A h \in Goroutines : pc'[h] = pc[h] /\ SameChoice(h)
    BY <2>1 DEF SameChoice
  <2> QED BY <2>1, <2>2, CaptureElsewhere
<1> QED BY <1>1, <1>2, <1>3, CaptureOverrides, CaptureCalls DEF Next

\* However many goroutines log through a logger and override its capture, a
\* call is captured as an override in force during it says, or by its level
\* if none was in force at some time of it.  Only a call beside which the first
\* override of its logger is being stored may find neither, and then it is
\* not captured.
THEOREM CapturedAsAsked == Spec => []CaptureAsAsked
<1>1. Init => CaptureInv
  BY DEF Init, CaptureInv, LoggersInv, CallInv
<1>2. TypeOK /\ CaptureInv /\ [Next]_vars => CaptureInv'
  BY CaptureStep
<1>3. CaptureInv => CaptureAsAsked
  BY DEF CaptureInv, CallInv, CaptureAsAsked, Decided
<1> QED BY <1>1, <1>2, <1>3, TypeCorrect, PTL DEF Spec

-----------------------------------------------------------------------------
(* Extras.                                                                 *)

\* A set of positions has a last one.
LEMMA LastPosition ==
    ASSUME NEW n \in Nat, NEW T \in SUBSET (1..n), T # {}
    PROVE  \E x \in T : \A y \in T : y <= x
<1> DEFINE D == {n - x : x \in T}
<1>1. D \subseteq Nat /\ D # {}
  <2>1. \A x \in T : n - x \in Nat
    OBVIOUS
  <2>2. PICK x \in T : TRUE
    OBVIOUS
  <2>3. n - x \in D
    OBVIOUS
  <2> QED BY <2>1, <2>3
<1> DEFINE R == OpToRel(<, Nat)
<1>2. IsWellFoundedOn(R, Nat)
  BY NatLessThanWellFounded
<1>3. \A x, y \in Nat : <<x, y>> \in R <=> x < y
  BY DEF OpToRel
<1> HIDE DEF R, D
<1>4. PICK d \in D : \A e \in D : ~(<<e, d>> \in R)
  BY <1>1, <1>2, WFMin
<1>5. PICK x \in T : d = n - x
  BY DEF D
<1>6. ASSUME NEW y \in T PROVE y <= x
  <2>1. n - y \in D
    BY DEF D
  <2>2. ~(n - y < n - x)
    BY <1>1, <1>3, <1>4, <1>5, <2>1
  <2> QED BY <2>2
<1> QED BY <1>6

\* The last of the pairs with a key gives its value.
Pairs(s) == {i \in DOMAIN s : i % 2 = 1}

LEMMA ExtraOfKey ==
    ASSUME NEW s \in Seq(ItemSet), NEW i \in Pairs(s)
    PROVE  LET x == contextToLegacyExtra(s)
           IN  /\ KeyAt(s, i) \in DOMAIN x
               /\ \E m \in Pairs(s) :
                     /\ m >= i /\ KeyAt(s, m) = KeyAt(s, i)
                     /\ \A j \in Pairs(s) : KeyAt(s, j) = KeyAt(s, i) => j <= m
                     /\ x[KeyAt(s, i)] = IF m = Len(s) THEN Missing ELSE s[m + 1][2]
<1> DEFINE positions == Pairs(s)
           k == KeyAt(s, i)
           same == {j \in positions : KeyAt(s, j) = k}
           last(q) == CHOOSE p \in positions :
                         KeyAt(s, p) = q /\ \A j \in positions : KeyAt(s, j) = q => j <= p
           value(p) == IF p = Len(s) THEN Missing ELSE s[p + 1][2]
           x == contextToLegacyExtra(s)
<1>1. x = [q \in {KeyAt(s, p) : p \in positions} |-> value(last(q))]
  BY DEF contextToLegacyExtra, Pairs
<1>2. \E m \in same : \A j \in same : j <= m
  <2>1. same \in SUBSET (1..Len(s)) /\ same # {} /\ Len(s) \in Nat
    BY DEF Pairs
  <2> HIDE DEF same
  <2> QED BY <2>1, LastPosition
<1>3. /\ last(k) \in positions /\ KeyAt(s, last(k)) = k
      /\ \A j \in positions : KeyAt(s, j) = k => j <= last(k)
  <2> DEFINE Q(p) == KeyAt(s, p) = k /\ \A j \in positions : KeyAt(s, j) = k => j <= p
  <2>1. \E p \in positions : Q(p)
    BY <1>2
  <2> HIDE DEF k
  <2> QED BY <2>1
<1>4. k \in DOMAIN x /\ x[k] = value(last(k))
  BY <1>1
<1>5. last(k) >= i
  BY <1>3
<1> QED BY <1>3, <1>4, <1>5

\* The items of h are what they were, unless an append has marked them.
Kept(h) ==
    ~frame'[h].overwritten =>
        ~frame[h].overwritten /\ Items(frame[h])' = Items(frame[h])

\* What append gives, whether in place or not: nothing changes before the end
\* of the slice, nor in the slices of others that are not marked.
LEMMA Appended ==
    ASSUME TypeOK, NEW g \in Goroutines, NEW l \in {"capture", "emit"}, NEW f \in Frames,
           NEW items \in Seq(ItemSet), AppendItems(g, l, f, items),
           f.view = 0 \/ f.view >= Len(SharedArgs)
    PROVE  /\ \E e \in Frames :
                 /\ GoesTo(g, l, e) /\ Items(e)' = Items(f) \o items
                 /\ e.owed = f.owed /\ e.sent = f.sent /\ e.capture = f.capture
                 /\ e.overwritten = f.overwritten
                 /\ e.view = 0 \/ e.view >= Len(SharedArgs)
           /\ \A j \in 1..Len(SharedArgs) : backing'[j] = backing[j]
           /\ \A h \in Goroutines \ {g} : Kept(h)
<1> DEFINE end == f.view + Len(items)
<1>1. /\ f.view \in Nat /\ f.view <= Len(backing) /\ Items(f) \in Seq(ItemSet)
      /\ backing \in Seq(ItemSet) /\ Len(backing) = Len(SharedArgs) + Room /\ Len(items) \in Nat
      /\ Len(SharedArgs) \in Nat /\ Room \in Nat
  BY ItemsTyped, ArgsTyped DEF TypeOK, SharedTyped
<1>2. CASE f.view > 0 /\ end <= Len(backing)
  <2> DEFINE e == [f EXCEPT !.view = end]
  <2>1. /\ backing' = [i \in DOMAIN backing |->
                          IF i \in f.view + 1..end THEN items[i - f.view] ELSE backing[i]]
        /\ pc' = [pc EXCEPT ![g] = l]
        /\ frame' = [Overwrite(f.view, items) EXCEPT ![g] = e]
    BY <1>2 DEF AppendItems
  <2>2. end \in 0..(Len(SharedArgs) + Room)
    BY <1>1, <1>2
  <2>3. /\ e \in Frames /\ e.owed = f.owed /\ e.sent = f.sent /\ e.capture = f.capture
        /\ e.overwritten = f.overwritten /\ e.view = end
    BY <2>2 DEF Frames
  <2>4. \A j \in 1..Len(backing) :
           backing'[j] = IF j \in f.view + 1..end THEN items[j - f.view] ELSE backing[j]
    BY <1>1, <2>1
  <2>5. backing' \in Seq(ItemSet) /\ Len(backing') = Len(backing)
    BY <1>1, AppendTyped
  <2>6. Items(e)' = Items(f) \o items
    <3>1. Items(f) = SubSeq(backing, 1, f.view)
      BY <1>2 DEF Items
    <3>2. Items(e)' = SubSeq(backing', 1, end)
      BY <1>1, <1>2, <2>3 DEF Items
    <3>3. /\ Len(Items(f)) = f.view
          /\ \A j \in 1..f.view : Items(f)[j] = backing[j]
      BY <1>1, <1>2, <3>1
    <3>4. /\ SubSeq(backing', 1, end) \in Seq(ItemSet) /\ Len(SubSeq(backing', 1, end)) = end
          /\ \A i \in 1..end : SubSeq(backing', 1, end)[i] = backing'[i]
      BY <1>1, <1>2, <2>5
    <3>5. /\ Items(f) \o items \in Seq(ItemSet) /\ Len(Items(f) \o items) = end
          /\ \A i \in 1..end : (Items(f) \o items)[i] =
                               IF i <= f.view THEN Items(f)[i] ELSE items[i - f.view]
      BY <1>1, <3>3, ConcatProperties, SMTT(30)
    <3>6. ASSUME NEW i \in 1..end
          PROVE  backing'[i] = IF i <= f.view THEN Items(f)[i] ELSE items[i - f.view]
      BY <1>1, <1>2, <2>4, <3>3
    <3>7. \A i \in 1..end : SubSeq(backing', 1, end)[i] = (Items(f) \o items)[i]
      BY <3>4, <3>5, <3>6
    <3>8. SubSeq(backing', 1, end) = Items(f) \o items
      <4> HIDE DEF end
      <4> QED BY <3>4, <3>5, <3>7, SeqEqual
    <3> QED BY <3>2, <3>8
  <2>7. \A j \in 1..Len(SharedArgs) : backing'[j] = backing[j]
    <3> SUFFICES ASSUME NEW j \in 1..Len(SharedArgs) PROVE backing'[j] = backing[j]
      OBVIOUS
    <3>1. j \in 1..Len(backing) /\ j \notin f.view + 1..end
      BY <1>1, <1>2
    <3> QED BY <2>4, <3>1
  <2>8. GoesTo(g, l, e)
    <3>1. frame'[g] = e /\ pc'[g] = l
      BY <2>1 DEF Overwrite, TypeOK, FramesTyped
    <3>2. ASSUME NEW h \in Goroutines \ {g}
          PROVE  pc'[h] = pc[h] /\ frame'[h] \in {frame[h], Marked(frame[h])}
      <4>1. pc'[h] = pc[h]
        BY <2>1 DEF TypeOK, FramesTyped
      <4>2. frame'[h] = Overwrite(f.view, items)[h]
        BY <2>1 DEF Overwrite
      <4> QED BY <4>1, <4>2 DEF Overwrite, Marked
    <3> QED BY <3>1, <3>2 DEF GoesTo
  <2>9. ASSUME NEW h \in Goroutines \ {g}, ~frame'[h].overwritten
        PROVE  ~frame[h].overwritten /\ Items(frame[h])' = Items(frame[h])
    <3>1. frame[h] \in Frames
      BY DEF TypeOK, FramesTyped
    <3>2. frame'[h] = IF items # <<>> /\ frame[h].view > f.view
                      THEN Marked(frame[h]) ELSE frame[h]
      BY <2>1 DEF Overwrite, Marked, TypeOK, FramesTyped
    <3>3. frame'[h] = frame[h] /\ (items = <<>> \/ ~(frame[h].view > f.view))
      BY <2>9, <3>1, <3>2, MarkedTyped
    <3> DEFINE n == frame[h].view
    <3>4. n \in Nat /\ n <= Len(backing)
      BY <3>1, ItemsTyped DEF TypeOK
    <3>5. ASSUME NEW j \in 1..n PROVE backing'[j] = backing[j]
      <4>1. f.view \in Nat /\ end \in Nat /\ j \in Nat /\ j <= n
        BY <1>1, <3>4
      <4>2. CASE items = <<>>
        <5>1. Len(items) = 0
          BY <4>2
        <5>2. end = f.view
          BY <4>1, <5>1
        <5>3. f.view + 1..end = {}
          BY <4>1, <5>2
        <5>4. j \in 1..Len(backing)
          BY <3>4, <4>1
        <5> QED BY <2>4, <5>3, <5>4
      <4>3. CASE n <= f.view
        <5>1. j \in 1..Len(backing) /\ j \notin f.view + 1..end
          BY <3>4, <4>1, <4>3
        <5> QED BY <2>4, <5>1
      <4> QED BY <3>3, <3>4, <4>1, <4>2, <4>3
    <3>6. CASE n > 0
      <4>1. /\ SubSeq(backing, 1, n) \in Seq(ItemSet) /\ SubSeq(backing', 1, n) \in Seq(ItemSet)
            /\ Len(SubSeq(backing, 1, n)) = n /\ Len(SubSeq(backing', 1, n)) = n
            /\ \A j \in 1..n : /\ SubSeq(backing, 1, n)[j] = backing[j]
                               /\ SubSeq(backing', 1, n)[j] = backing'[j]
        BY <1>1, <2>5, <3>4, <3>6
      <4>2. SubSeq(backing', 1, n) = SubSeq(backing, 1, n)
        <5> HIDE DEF n
        <5> QED BY <3>5, <4>1, SeqEqual
      <4> QED BY <2>9, <3>3, <3>6, <4>2 DEF Items
    <3>7. CASE ~(n > 0)
      BY <2>9, <3>3, <3>7 DEF Items
    <3> QED BY <3>6, <3>7
  <2>10. e.view >= Len(SharedArgs)
    BY <1>1, <1>2, <2>3
  <2> HIDE DEF e
  <2> QED BY <2>3, <2>6, <2>7, <2>8, <2>9, <2>10 DEF Kept
<1>3. CASE ~(f.view > 0 /\ end <= Len(backing))
  <2>0. PICK s : s = Items(f) \o items
    OBVIOUS
  <2> DEFINE e == [f EXCEPT !.view = 0, !.kv = s]
  <2>1. Go(g, l, e) /\ backing' = backing
    BY <1>3, <2>0 DEF AppendItems
  <2>2. s \in Seq(ItemSet) /\ 0 \in 0..(Len(SharedArgs) + Room)
    BY <1>1, <2>0
  <2>3. /\ e \in Frames /\ e.owed = f.owed /\ e.sent = f.sent /\ e.capture = f.capture
        /\ e.overwritten = f.overwritten /\ e.view = 0 /\ e.kv = s
    BY <2>2 DEF Frames
  <2> HIDE DEF e
  <2>4. Items(e)' = s
    BY <2>3 DEF Items
  <2>5. ASSUME NEW h \in Goroutines \ {g} PROVE Kept(h)
    BY <2>1 DEF Kept, Items, Go, TypeOK, FramesTyped
  <2> QED BY <2>0, <2>1, <2>3, <2>4, <2>5, GoGoes
<1> QED BY <1>2, <1>3

-----------------------------------------------------------------------------
(* What the extras of a call depend on.  A slice of odd length shifts the  *)
(* keys and values appended to it, a callback under "" or under the key of *)
(* the event's id is not told from others, and calls that append to one    *)
(* slice with room behind it overwrite each other's extras.                *)

EvenArgs == \A s \in ArgLists \cup {SharedArgs} : Len(s) % 2 = 0

NamedKeys == EmptyText \notin Keys /\ SentryEventID \notin Keys

Pairing == {"override", "set", "extras"}

Calling == Pairing \cup {"range", "capture", "emit"}

\* Extras gathered from the context of g.
Gathered(x, g) ==
    /\ Len(x) % 2 = 0
    /\ \A i \in Pairs(x) : x[i] \in {"string"} \X Keys /\ x[i + 1] = <<"value", g>>

\* From some pair on, every pair with the key of callback k has what it finds
\* in the context of g.
Bears(s, k, g) ==
    \E i \in Pairs(s) :
       /\ KeyAt(s, i) = <<k, 0>>
       /\ \A j \in Pairs(s) : j >= i /\ KeyAt(s, j) = <<k, 0>> => s[j + 1] = <<"value", g>>

SliceInv(g) ==
    /\ pc[g] \in Pairing \cup {"range"} =>
          frame[g].kv \in ArgLists \cup {<<>>} /\ frame[g].view \in {0, Len(SharedArgs)}
    /\ pc[g] \in Pairing => frame[g].extras = <<>> /\ frame[g].visited = {}
    /\ pc[g] = "range" => Gathered(frame[g].extras, g)
    /\ pc[g] \in {"capture", "emit"} =>
          /\ frame[g].view = 0 \/ frame[g].view >= Len(SharedArgs)
          /\ ~frame[g].overwritten => Len(Items(frame[g])) % 2 = 0

\* Nobody writes before the end of the shared slice.
SlicesInv ==
    /\ \A j \in 1..Len(SharedArgs) : backing[j] = SharedArgs[j]
    /\ \A g \in Goroutines : SliceInv(g)

OwedInv(g) ==
    /\ pc[g] \in Pairing => \A k \in frame[g].owed : callbacks[current][k] = "function"
    /\ pc[g] = "range" => \A k \in frame[g].owed :
          /\ k \in frame[g].due /\ callbacks[frame[g].map][k] = "function"
          /\ k \in frame[g].visited =>
                \E i \in Pairs(frame[g].extras) : frame[g].extras[i] = <<"string", k>>
    /\ pc[g] \in {"capture", "emit"} /\ ~frame[g].overwritten =>
          \A k \in frame[g].owed : Bears(Items(frame[g]), k, g)

CompleteInv == \A g \in Goroutines : OwedInv(g)

\* The key of the event's id is used for nothing else.
Plain(s) == \A i \in Pairs(s) : KeyAt(s, i) # <<SentryEventID, 0>>

IdReserved ==
    /\ \A s \in ArgLists \cup {SharedArgs} : Plain(s)
    /\ SentryEventID \notin Keys \cup {EmptyText, MissingKey}

\* The extras x are those of the items s, without the event's id.
SentAs(x, s) ==
    LET e == contextToLegacyExtra(s)
    IN  x = [k \in DOMAIN e \ {<<SentryEventID, 0>>} |-> e[k]]

SentInv(g) ==
    /\ pc[g] = "capture" /\ ~frame[g].overwritten => Plain(Items(frame[g]))
    /\ pc[g] = "emit" /\ frame[g].capture /\ ~frame[g].overwritten =>
          SentAs(frame[g].sent, Items(frame[g]))

MatchInv == \A g \in Goroutines : SentInv(g)

-----------------------------------------------------------------------------
\* Sums and differences of positions.
LEMMA Parity ==
    ASSUME NEW m \in Int, NEW n \in Int, n % 2 = 0
    PROVE  (m + n) % 2 = m % 2 /\ (m - n) % 2 = m % 2 /\ (m % 2 = 1 => m # n)
OBVIOUS

\* The pairs of a slice and of one appended to it.
LEMMA PairsOfConcat ==
    ASSUME NEW s \in Seq(ItemSet), NEW x \in Seq(ItemSet), Len(s) % 2 = 0
    PROVE  /\ \A i \in Pairs(s) :
                 /\ i \in Pairs(s \o x) /\ KeyAt(s \o x, i) = KeyAt(s, i)
                 /\ (s \o x)[i] = s[i] /\ i + 1 \in DOMAIN s /\ (s \o x)[i + 1] = s[i + 1]
           /\ \A i \in Pairs(x) :
                 Len(s) + i \in Pairs(s \o x) /\ (s \o x)[Len(s) + i] = x[i]
           /\ \A j \in Pairs(s \o x) : j \notin Pairs(s) =>
                 j - Len(s) \in Pairs(x) /\ (s \o x)[j] = x[j - Len(s)]
<1>1. /\ Len(s) \in Nat /\ Len(x) \in Nat /\ DOMAIN s = 1..Len(s) /\ DOMAIN x = 1..Len(x)
      /\ s \o x \in Seq(ItemSet) /\ Len(s \o x) = Len(s) + Len(x)
      /\ DOMAIN (s \o x) = 1..(Len(s) + Len(x))
      /\ \A i \in 1..(Len(s) + Len(x)) :
            (s \o x)[i] = IF i <= Len(s) THEN s[i] ELSE x[i - Len(s)]
  BY ConcatProperties
<1>2. ASSUME NEW i \in Pairs(s)
      PROVE  /\ i \in Pairs(s \o x) /\ KeyAt(s \o x, i) = KeyAt(s, i)
             /\ (s \o x)[i] = s[i] /\ i + 1 \in DOMAIN s /\ (s \o x)[i + 1] = s[i + 1]
  <2>1. i \in 1..Len(s) /\ i % 2 = 1
    BY <1>1 DEF Pairs
  <2>2. i # Len(s)
    BY <2>1
  <2>3. i + 1 \in 1..Len(s) /\ i \in Pairs(s \o x)
    BY <1>1, <2>1, <2>2 DEF Pairs
  <2>4. (s \o x)[i] = s[i] /\ (s \o x)[i + 1] = s[i + 1]
    BY <1>1, <2>1, <2>3
  <2> QED BY <1>1, <2>3, <2>4 DEF KeyAt
<1>3. ASSUME NEW i \in Pairs(x)
      PROVE  Len(s) + i \in Pairs(s \o x) /\ (s \o x)[Len(s) + i] = x[i]
  <2>1. i \in 1..Len(x) /\ i % 2 = 1
    BY <1>1 DEF Pairs
  <2>2. (Len(s) + i) % 2 = 1
    BY <1>1, <2>1, Parity
  <2> QED BY <1>1, <2>1, <2>2 DEF Pairs
<1>4. ASSUME NEW j \in Pairs(s \o x), j \notin Pairs(s)
      PROVE  j - Len(s) \in Pairs(x) /\ (s \o x)[j] = x[j - Len(s)]
  <2>1. j \in 1..(Len(s) + Len(x)) /\ j % 2 = 1
    BY <1>1 DEF Pairs
  <2>2. j > Len(s)
    BY <1>1, <1>4, <2>1 DEF Pairs
  <2>3. (j - Len(s)) % 2 = 1
    BY <1>1, <2>1, Parity, SMTT(30)
  <2>4. j - Len(s) \in 1..Len(x) /\ (s \o x)[j] = x[j - Len(s)]
    BY <1>1, <2>1, <2>2
  <2> QED BY <1>1, <2>3, <2>4 DEF Pairs
<1> QED BY <1>2, <1>3, <1>4

LEMMA BearsGathered ==
    ASSUME NamedKeys, NEW s \in Seq(ItemSet), NEW x \in Seq(ItemSet), NEW g,
           Len(s) % 2 = 0, Gathered(x, g), NEW k \in Keys, NEW i \in Pairs(x),
           x[i] = <<"string", k>>
    PROVE  Bears(s \o x, k, g)
<1> DEFINE n == Len(s) + i
<1>1. n \in Pairs(s \o x) /\ (s \o x)[n] = <<"string", k>>
  BY PairsOfConcat
<1>2. KeyAt(s \o x, n) = <<k, 0>>
  BY <1>1 DEF KeyAt, NamedKeys
<1>3. ASSUME NEW j \in Pairs(s \o x), j >= n PROVE (s \o x)[j + 1] = <<"value", g>>
  <2>1. j \notin Pairs(s) /\ j \in Nat /\ Len(s) \in Nat /\ i \in Nat
    BY <1>3, SMTT(30) DEF Pairs
  <2>2. j - Len(s) \in Pairs(x)
    BY <2>1, PairsOfConcat
  <2>3. x[(j - Len(s)) + 1] = <<"value", g>>
    BY <2>2 DEF Gathered
  <2>4. (j - Len(s)) + 1 \in 1..Len(x)
    <3> DEFINE p == j - Len(s)
    <3>1. p \in 1..Len(x) /\ p % 2 = 1
      BY <2>2 DEF Pairs
    <3>0. Len(x) % 2 = 0 /\ Len(x) \in Nat
      BY DEF Gathered
    <3> HIDE DEF p
    <3>2. p # Len(x)
      BY <3>0, <3>1
    <3>3. p + 1 \in 1..Len(x)
      BY <3>0, <3>1, <3>2
    <3> QED BY <3>3 DEF p
  <2>5. (s \o x)[j + 1] = x[(j - Len(s)) + 1]
    BY <2>1, <2>4, ConcatProperties
  <2> QED BY <2>3, <2>5
<1> QED BY <1>1, <1>2, <1>3 DEF Bears

\* What is appended when an event has been sent.
EventIDItems == {<<>>, <<<<"string", SentryEventID>>, <<"value", EventID>>>>}

LEMMA IdPairs ==
    ASSUME NEW x \in EventIDItems
    PROVE  /\ x \in Seq(ItemSet) /\ Len(x) % 2 = 0
           /\ \A i \in Pairs(x) : i = 1 /\ x[i] = <<"string", SentryEventID>>
<1>1. CASE x = <<>>
  BY <1>1 DEF Pairs
<1>2. CASE x = <<<<"string", SentryEventID>>, <<"value", EventID>>>>
  <2>1. x \in Seq(ItemSet) /\ Len(x) = 2
    BY <1>2, PairsTyped DEF ItemSet
  <2>2. ASSUME NEW i \in Pairs(x) PROVE i = 1
    BY <2>1 DEF Pairs
  <2> QED BY <1>2, <2>1, <2>2
<1> QED BY <1>1, <1>2 DEF EventIDItems

LEMMA BearsWithId ==
    ASSUME NamedKeys, NEW s \in Seq(ItemSet), NEW g, NEW k \in Keys, NEW x \in EventIDItems,
           Len(s) % 2 = 0, Bears(s, k, g)
    PROVE  Bears(s \o x, k, g)
<1>0. x \in Seq(ItemSet)
  BY IdPairs
<1>1. PICK i \in Pairs(s) :
        /\ KeyAt(s, i) = <<k, 0>>
        /\ \A j \in Pairs(s) : j >= i /\ KeyAt(s, j) = <<k, 0>> => s[j + 1] = <<"value", g>>
  BY DEF Bears
<1>2. i \in Pairs(s \o x) /\ KeyAt(s \o x, i) = <<k, 0>>
  BY <1>0, <1>1, PairsOfConcat
<1>3. ASSUME NEW j \in Pairs(s \o x), j >= i, KeyAt(s \o x, j) = <<k, 0>>
      PROVE  (s \o x)[j + 1] = <<"value", g>>
  <2>1. CASE j \in Pairs(s)
    BY <1>0, <1>1, <1>3, <2>1, PairsOfConcat
  <2>2. CASE j \notin Pairs(s)
    <3>1. j - Len(s) \in Pairs(x) /\ (s \o x)[j] = x[j - Len(s)]
      BY <1>0, <2>2, PairsOfConcat
    <3>2. (s \o x)[j] = <<"string", SentryEventID>>
      BY <3>1, IdPairs
    <3>3. i \in Nat /\ j \in Nat /\ Len(s) \in Nat /\ i >= 1 /\ i <= Len(s)
      BY DEF Pairs
    <3>4. j - 1 # 0
      BY <2>2, <3>3, <1>3
    <3>5. KeyAt(s \o x, j) \in {<<MissingKey, j - 1>>, <<SentryEventID, 0>>}
      BY <3>2 DEF KeyAt
    <3> QED BY <1>3, <3>4, <3>5 DEF NamedKeys
  <2> QED BY <2>1, <2>2
<1> QED BY <1>2, <1>3 DEF Bears

\* What the record of such items says of callback k.
LEMMA BearsExtra ==
    ASSUME NEW s \in Seq(ItemSet), NEW g, NEW k, Len(s) % 2 = 0, Bears(s, k, g)
    PROVE  LET x == contextToLegacyExtra(s)
           IN  <<k, 0>> \in DOMAIN x /\ x[<<k, 0>>] = g
<1> DEFINE x == contextToLegacyExtra(s)
<1>1. PICK i \in Pairs(s) :
        /\ KeyAt(s, i) = <<k, 0>>
        /\ \A j \in Pairs(s) : j >= i /\ KeyAt(s, j) = <<k, 0>> => s[j + 1] = <<"value", g>>
  BY DEF Bears
<1>2. <<k, 0>> \in DOMAIN x
  BY <1>1, ExtraOfKey
<1>3. PICK m \in Pairs(s) :
        /\ m >= i /\ KeyAt(s, m) = <<k, 0>>
        /\ x[<<k, 0>>] = IF m = Len(s) THEN Missing ELSE s[m + 1][2]
  BY <1>1, ExtraOfKey
<1>4. m # Len(s)
  BY DEF Pairs
<1>5. s[m + 1] = <<"value", g>>
  BY <1>1, <1>3
<1> HIDE DEF x
<1>6. x[<<k, 0>>] = g
  BY <1>3, <1>4, <1>5
<1> QED BY <1>2, <1>6 DEF x

-----------------------------------------------------------------------------
\* The slice of a call before the extras is one that its caller has passed.
LEMMA ItemsBegun ==
    ASSUME TypeOK, SlicesInv, NEW f \in Frames, f.kv \in ArgLists \cup {<<>>},
           f.view \in {0, Len(SharedArgs)}
    PROVE  Items(f) \in ArgLists \cup {<<>>, SharedArgs}
<1>1. CASE f.view > 0
  <2>1. f.view = Len(SharedArgs) /\ Len(SharedArgs) \in Nat /\ SharedArgs \in Seq(ItemSet)
    BY <1>1, ArgsTyped
  <2>2. /\ SubSeq(backing, 1, f.view) \in Seq(ItemSet) /\ Len(SubSeq(backing, 1, f.view)) = f.view
        /\ \A i \in 1..f.view : SubSeq(backing, 1, f.view)[i] = backing[i]
    BY <1>1, ItemsTyped DEF TypeOK, SharedTyped
  <2>3. SubSeq(backing, 1, f.view) = SharedArgs
    BY <2>1, <2>2, SeqEqual DEF SlicesInv
  <2> QED BY <1>1, <2>3 DEF Items
<1>2. CASE ~(f.view > 0)
  BY <1>2 DEF Items
<1> QED BY <1>1, <1>2

\* The locals that extras come from, and those that say what has come of them.
SameSlices(h) ==
    /\ frame'[h].kv = frame[h].kv /\ frame'[h].view = frame[h].view
    /\ frame'[h].extras = frame[h].extras /\ frame'[h].visited = frame[h].visited
    /\ frame'[h].due = frame[h].due /\ frame'[h].map = frame[h].map
    /\ frame'[h].sent = frame[h].sent /\ frame'[h].capture = frame[h].capture

\* Registration and settings leave the slices of a call alone.
LEMMA OutsideCalls ==
    ASSUME TypeOK, NEW g \in Goroutines, RegistryStep(g) \/ SettingsStep(g) \/ OverrideStep(g)
    PROVE  \A h \in Goroutines :
              pc'[h] \in Calling => pc'[h] = pc[h] /\ SameSlices(h) /\ Kept(h)
<1>0. ASSUME NEW h \in Goroutines, SameSlices(h), backing' = backing,
             frame'[h].overwritten = frame[h].overwritten
      PROVE  Kept(h)
  BY <1>0 DEF Kept, Items, SameSlices
<1>1. backing' = backing
  BY DEF RegistryStep, SettingsStep, OverrideStep, Register, Assign, Clear, SetLogLevel,
         SetOutput, StoreRoot, CaptureSentryEvent, StoreSet, shared
<1>2. ASSUME NEW l, l \notin Calling, NEW f, Go(g, l, f), NEW h \in Goroutines, pc'[h] \in Calling
      PROVE  pc'[h] = pc[h] /\ SameSlices(h) /\ Kept(h)
  <2>1. pc'[h] = pc[h] /\ frame'[h] = frame[h]
    BY <1>2 DEF Go, TypeOK, FramesTyped
  <2> QED BY <1>0, <1>1, <2>1 DEF SameSlices
<1>3. {"idle", "assign", "storeRoot", "storeSet"} \cap Calling = {}
  BY DEF Calling, Pairing
<1>4. ASSUME NEW ks, NEW h \in Goroutines, frame'[h] = Disown(ks)[h]
      PROVE  SameSlices(h) /\ Kept(h)
  <2>1. SameSlices(h) /\ frame'[h].overwritten = frame[h].overwritten
    BY <1>4 DEF Disown, SameSlices, TypeOK, FramesTyped, Frames
  <2> QED BY <1>0, <1>1, <2>1
<1>5. ASSUME NEW h \in Goroutines, pc'[h] \in Calling
      PROVE  pc'[h] = pc[h] /\ SameSlices(h) /\ Kept(h)
  <2>1. CASE Register(g)
    BY <1>2, <1>3, <1>5, <2>1 DEF Register
  <2>2. CASE Assign(g)
    <3>1. PICK ks : frame' = [Disown(ks) EXCEPT ![g] = EmptyFrame]
      BY <2>2 DEF Assign
    <3>2. h # g /\ pc'[h] = pc[h]
      BY <1>3, <1>5, <2>2 DEF Assign, TypeOK, FramesTyped
    <3>3. frame'[h] = Disown(ks)[h]
      BY <3>1, <3>2 DEF Disown
    <3> QED BY <1>4, <3>2, <3>3
  <2>3. CASE Clear(g)
    BY <1>4, <2>3 DEF Clear
  <2>4. CASE SettingsStep(g)
    BY <1>2, <1>3, <1>5, <2>4 DEF SettingsStep, SetLogLevel, SetOutput, StoreRoot
  <2>5. CASE CaptureSentryEvent(g)
    <3>1. PICK b \in Overrides :
            frame' = [q \in Goroutines |->
                IF pc[q] \in {"override", "set"} /\ Through(q) = LoggerOf[g]
                THEN [frame[q] EXCEPT !.askable = @ \cup {Named(b)}] ELSE frame[q]]
      BY <2>5 DEF CaptureSentryEvent
    <3>2. SameSlices(h) /\ frame'[h].overwritten = frame[h].overwritten
      BY <3>1 DEF SameSlices, TypeOK, FramesTyped, Frames
    <3>3. h # g /\ pc'[h] = pc[h]
      BY <1>3, <1>5, <2>5 DEF CaptureSentryEvent, TypeOK, FramesTyped
    <3> QED BY <1>0, <1>1, <3>2, <3>3
  <2>6. CASE StoreSet(g)
    BY <1>2, <1>3, <1>5, <2>6 DEF StoreSet
  <2> QED BY <2>1, <2>2, <2>3, <2>4, <2>5, <2>6 DEF RegistryStep, OverrideStep
<1> QED BY <1>5

LEMMA SliceKept ==
    ASSUME NEW h \in Goroutines, SliceInv(h), pc'[h] = pc[h], SameSlices(h), Kept(h)
    PROVE  SliceInv(h)'
BY DEF SliceInv, SameSlices, Kept, Gathered, Pairs

LEMMA SlicesElsewhere ==
    ASSUME SlicesInv, backing' = backing,
           \A h \in Goroutines :
              pc'[h] \in Calling => pc'[h] = pc[h] /\ SameSlices(h) /\ Kept(h)
    PROVE  SlicesInv'
<1>1. ASSUME NEW h \in Goroutines PROVE SliceInv(h)'
  <2>1. CASE pc'[h] \in Calling
    BY <2>1, SliceKept DEF SlicesInv
  <2>2. CASE pc'[h] \notin Calling
    BY <2>2 DEF SliceInv, Calling
  <2> QED BY <2>1, <2>2
<1> QED BY <1>1 DEF SlicesInv

\* A step of a call, and the slices of the others.
LEMMA LogAlone ==
    ASSUME TypeOK, SlicesInv, NEW g \in Goroutines, LogStep(g)
    PROVE  /\ \A j \in 1..Len(SharedArgs) : backing'[j] = backing[j]
           /\ \A h \in Goroutines \ {g} :
                 /\ pc'[h] = pc[h] /\ SameSlices(h) /\ Kept(h)
                 /\ frame'[h].owed = frame[h].owed
<1> DEFINE f == frame[g]
<1>1. ASSUME NEW h \in Goroutines \ {g}
      PROVE  pc'[h] = pc[h] /\ SameSlices(h) /\ frame'[h].owed = frame[h].owed
  <2>1. /\ frame[h] \in Frames /\ pc'[h] = pc[h]
        /\ frame'[h] \in {frame[h], Marked(frame[h])}
    BY LogGoes DEF GoesTo, TypeOK, FramesTyped
  <2> QED BY <2>1, MarkedTyped DEF SameSlices
<1>2. CASE AppendExtras(g)
  <2> DEFINE e == [f EXCEPT !.extras = <<>>, !.map = NoMap, !.due = {}, !.visited = {}]
  <2>1. f \in Frames /\ pc[g] = "range"
    BY <1>2 DEF AppendExtras, At, TypeOK, FramesTyped
  <2>2. f.view = 0 \/ f.view >= Len(SharedArgs)
    BY <2>1, ArgsTyped DEF SlicesInv, SliceInv
  <2>3. e \in Frames /\ f.extras \in Seq(ItemSet) /\ e.view = f.view
    BY <2>1, ArgsTyped DEF Frames
  <2>4. AppendItems(g, "capture", e, f.extras)
    BY <1>2 DEF AppendExtras
  <2> HIDE DEF e
  <2> QED BY <1>1, <2>2, <2>3, <2>4, Appended
<1>3. CASE SendToSentry(g)
  <2> DEFINE x == contextToLegacyExtra(Items(f))
             e == [f EXCEPT !.sent = x]
  <2>1. f \in Frames /\ pc[g] = "capture"
    BY <1>3 DEF SendToSentry, At, TypeOK, FramesTyped
  <2>2. f.view = 0 \/ f.view >= Len(SharedArgs)
    BY <2>1 DEF SlicesInv, SliceInv
  <2>3. PICK y \in EventIDItems : AppendItems(g, "emit", e, y)
    BY <1>3 DEF SendToSentry, EventIDItems
  <2>4. x \in Extras /\ y \in Seq(ItemSet)
    BY <2>1, ItemsTyped, IdPairs DEF Extras, TypeOK
  <2> HIDE DEF x
  <2>5. e \in Frames /\ e.view = f.view
    BY <2>1, <2>4 DEF Frames
  <2> HIDE DEF e
  <2> QED BY <1>1, <2>2, <2>3, <2>4, <2>5, Appended
<1>4. CASE ~(AppendExtras(g) \/ SendToSentry(g))
  <2>1. backing' = backing
    BY <1>4 DEF LogStep, Log, LoadOverride, LoadSet, BeginRange, VisitCallback, SendNothing, Emit,
                shared
  <2>2. \E l, e : Go(g, l, e)
    BY <1>4 DEF LogStep, Log, LoadOverride, LoadSet, BeginRange, VisitCallback, SendNothing, Emit
  <2>3. ASSUME NEW h \in Goroutines \ {g} PROVE Kept(h)
    <3>1. frame'[h] = frame[h]
      BY <2>2 DEF Go, TypeOK, FramesTyped
    <3> QED BY <2>1, <3>1 DEF Kept, Items
  <2> QED BY <1>1, <2>1, <2>3
<1> QED BY <1>2, <1>3, <1>4

\* A callback is visited: a pair more, or none when it is nil.
LEMMA VisitGives ==
    ASSUME TypeOK, NEW g \in Goroutines, VisitCallback(g)
    PROVE  \E k \in Keys :
              /\ frame'[g].visited = frame[g].visited \cup {k}
              /\ frame'[g].extras = IF callbacks[frame[g].map][k] = "nil" THEN frame[g].extras
                                    ELSE frame[g].extras \o <<<<"string", k>>, <<"value", g>>>>
              /\ frame'[g].kv = frame[g].kv /\ frame'[g].view = frame[g].view
              /\ frame'[g].owed = frame[g].owed /\ frame'[g].due = frame[g].due
              /\ frame'[g].map = frame[g].map /\ pc'[g] = "range" /\ pc[g] = "range"
<1> DEFINE f == frame[g]
<1>1. PICK k \in Registered(f.map) \ f.visited :
         Go(g, "range", [f EXCEPT !.visited = @ \cup {k},
            !.extras = IF callbacks[f.map][k] = "nil" THEN @
                       ELSE @ \o <<<<"string", k>>, <<"value", g>>>>])
  BY DEF VisitCallback
<1>2. k \in Keys /\ pc[g] = "range"
  BY DEF Registered, VisitCallback, At
<1>3. /\ pc'[g] = "range"
      /\ frame'[g] = [f EXCEPT !.visited = @ \cup {k},
            !.extras = IF callbacks[f.map][k] = "nil" THEN @
                       ELSE @ \o <<<<"string", k>>, <<"value", g>>>>]
  BY <1>1 DEF Go, TypeOK, FramesTyped
<1>4. f \in Frames
  BY DEF TypeOK, FramesTyped
<1>5. /\ frame'[g].visited = f.visited \cup {k}
      /\ frame'[g].extras = IF callbacks[f.map][k] = "nil" THEN f.extras
                            ELSE f.extras \o <<<<"string", k>>, <<"value", g>>>>
      /\ frame'[g].kv = f.kv /\ frame'[g].view = f.view
      /\ frame'[g].owed = f.owed /\ frame'[g].due = f.due
      /\ frame'[g].map = f.map
  BY <1>3, <1>4 DEF Frames
<1> QED BY <1>2, <1>3, <1>5

\* What a call passes on to Sentry and to the writer of the record.
LEMMA ExtrasGive ==
    ASSUME TypeOK, SlicesInv, NEW g \in Goroutines, AppendExtras(g)
    PROVE  /\ pc[g] = "range" /\ pc'[g] = "capture" /\ frame[g].due \subseteq frame[g].visited
           /\ Items(frame[g]) \in ArgLists \cup {<<>>, SharedArgs}
           /\ frame[g].extras \in Seq(ItemSet)
           /\ Items(frame[g])' = Items(frame[g]) \o frame[g].extras
           /\ frame'[g].owed = frame[g].owed /\ frame'[g].overwritten = frame[g].overwritten
           /\ frame'[g].view = 0 \/ frame'[g].view >= Len(SharedArgs)
<1> DEFINE f == frame[g]
<1>1. f \in Frames /\ pc[g] = "range" /\ f.due \subseteq f.visited
  BY DEF AppendExtras, At, TypeOK, FramesTyped
<1>2. /\ f.kv \in ArgLists \cup {<<>>} /\ f.view \in {0, Len(SharedArgs)}
      /\ f.view = 0 \/ f.view >= Len(SharedArgs)
  BY <1>1, ArgsTyped DEF SlicesInv, SliceInv
<1>3. Items(f) \in ArgLists \cup {<<>>, SharedArgs}
  BY <1>1, <1>2, ItemsBegun
<1>4. PICK x : x = [f EXCEPT !.extras = <<>>, !.map = NoMap, !.due = {}, !.visited = {}]
  OBVIOUS
<1>5. /\ x \in Frames /\ x.view = f.view /\ x.kv = f.kv /\ x.owed = f.owed
      /\ x.overwritten = f.overwritten /\ f.extras \in Seq(ItemSet)
  BY <1>1, <1>4, ArgsTyped DEF Frames
<1>6. AppendItems(g, "capture", x, f.extras)
  BY <1>4 DEF AppendExtras
<1>7. PICK y : y = f.extras
  OBVIOUS
<1>8. PICK e \in Frames :
         /\ GoesTo(g, "capture", e) /\ Items(e)' = Items(x) \o y /\ e.owed = x.owed
         /\ e.overwritten = x.overwritten
         /\ e.view = 0 \/ e.view >= Len(SharedArgs)
  <2>1. y \in Seq(ItemSet) /\ AppendItems(g, "capture", x, y) /\ "capture" \in {"capture", "emit"}
    BY <1>5, <1>6, <1>7
  <2>2. x.view = 0 \/ x.view >= Len(SharedArgs)
    BY <1>2, <1>5
  <2>3. x \in Frames
    BY <1>5
  <2> HIDE DEF f
  <2> QED BY <2>1, <2>2, <2>3, Appended
<1>9. Items(x) = Items(f)
  BY <1>5 DEF Items
<1>10. frame'[g] = e /\ pc'[g] = "capture"
  BY <1>8 DEF GoesTo
<1>11. Items(frame[g])' = Items(e)'
  BY <1>10 DEF Items
<1> QED BY <1>1, <1>3, <1>5, <1>7, <1>8, <1>9, <1>10, <1>11

LEMMA SendGives ==
    ASSUME TypeOK, SlicesInv, NEW g \in Goroutines, SendToSentry(g)
    PROVE  /\ pc[g] = "capture" /\ pc'[g] = "emit"
           /\ Items(frame[g]) \in Seq(ItemSet)
           /\ \E x \in EventIDItems : Items(frame[g])' = Items(frame[g]) \o x
           /\ frame'[g].sent = contextToLegacyExtra(Items(frame[g]))
           /\ frame'[g].owed = frame[g].owed /\ frame'[g].overwritten = frame[g].overwritten
           /\ frame'[g].view = 0 \/ frame'[g].view >= Len(SharedArgs)
<1> DEFINE f == frame[g]
<1>1. f \in Frames /\ pc[g] = "capture"
  BY DEF SendToSentry, At, TypeOK, FramesTyped
<1>2. f.view = 0 \/ f.view >= Len(SharedArgs)
  BY <1>1 DEF SlicesInv, SliceInv
<1>3. PICK s : s = contextToLegacyExtra(Items(f))
  OBVIOUS
<1>4. PICK x : x = [f EXCEPT !.sent = s]
  OBVIOUS
<1>5. Items(f) \in Seq(ItemSet) /\ s \in Extras
  BY <1>1, <1>3, ItemsTyped DEF Extras, TypeOK
<1>6. /\ x \in Frames /\ x.view = f.view /\ x.kv = f.kv /\ x.owed = f.owed /\ x.sent = s
      /\ x.overwritten = f.overwritten
  BY <1>1, <1>4, <1>5 DEF Frames
<1>7. PICK y \in EventIDItems : AppendItems(g, "emit", x, y)
  BY <1>3, <1>4 DEF SendToSentry, EventIDItems
<1>8. y \in Seq(ItemSet)
  BY IdPairs
<1>9. PICK e \in Frames :
         /\ GoesTo(g, "emit", e) /\ Items(e)' = Items(x) \o y /\ e.owed = x.owed
         /\ e.sent = x.sent /\ e.overwritten = x.overwritten
         /\ e.view = 0 \/ e.view >= Len(SharedArgs)
  <2>1. y \in Seq(ItemSet) /\ AppendItems(g, "emit", x, y) /\ "emit" \in {"capture", "emit"}
    BY <1>7, <1>8
  <2>2. x.view = 0 \/ x.view >= Len(SharedArgs)
    BY <1>2, <1>6
  <2>3. x \in Frames
    BY <1>6
  <2> HIDE DEF f
  <2> QED BY <2>1, <2>2, <2>3, Appended
<1>10. Items(x) = Items(f)
  BY <1>6 DEF Items
<1>11. frame'[g] = e /\ pc'[g] = "emit"
  BY <1>9 DEF GoesTo
<1>12. Items(frame[g])' = Items(e)'
  BY <1>11 DEF Items
<1>13. \E z \in EventIDItems : Items(frame[g])' = Items(frame[g]) \o z
  BY <1>9, <1>10, <1>12
<1> QED BY <1>1, <1>3, <1>5, <1>6, <1>9, <1>11, <1>13

LEMMA GatheredMore ==
    ASSUME NEW x \in Seq(ItemSet), NEW g \in Goroutines, NEW k \in Keys, Gathered(x, g)
    PROVE  LET y == x \o <<<<"string", k>>, <<"value", g>>>>
           IN  /\ Gathered(y, g)
               /\ \A i \in Pairs(x) : i \in Pairs(y) /\ y[i] = x[i]
               /\ \E i \in Pairs(y) : y[i] = <<"string", k>>
<1> DEFINE p == <<<<"string", k>>, <<"value", g>>>>
           y == x \o p
<1>1. p \in Seq(ItemSet) /\ Len(p) = 2 /\ p[1] = <<"string", k>> /\ p[2] = <<"value", g>>
  BY PairsTyped DEF ItemSet
<1> HIDE DEF p
<1>2. Len(y) = Len(x) + 2 /\ Len(y) % 2 = 0 /\ Len(x) % 2 = 0 /\ Len(x) \in Nat
  <2>1. Len(x) % 2 = 0 /\ Len(x) \in Nat
    BY DEF Gathered
  <2>2. Len(y) = Len(x) + 2
    BY <1>1, ConcatProperties
  <2> QED BY <2>1, <2>2
<1>3. \A i \in Pairs(x) : i \in Pairs(y) /\ y[i] = x[i] /\ y[i + 1] = x[i + 1]
  BY <1>1, <1>2, PairsOfConcat
<1>4. Len(x) + 1 \in Pairs(y) /\ y[Len(x) + 1] = p[1]
  <2>1. 1 \in Pairs(p)
    BY <1>1 DEF Pairs
  <2> QED BY <1>1, <1>2, <2>1, PairsOfConcat
<1>5. y[Len(x) + 2] = p[2]
  BY <1>1, <1>2, ConcatProperties
<1>6. ASSUME NEW j \in Pairs(y) PROVE y[j] \in {"string"} \X Keys /\ y[j + 1] = <<"value", g>>
  <2>1. CASE j \in Pairs(x)
    BY <1>3, <2>1 DEF Gathered
  <2>2. CASE j \notin Pairs(x)
    <3>1. j - Len(x) \in Pairs(p)
      BY <1>1, <1>2, <2>2, PairsOfConcat
    <3>2. j - Len(x) = 1 /\ j \in Nat
      <4>1. \A i \in Pairs(p) : i = 1
        BY <1>1 DEF Pairs
      <4> QED BY <3>1, <4>1 DEF Pairs
    <3>3. j = Len(x) + 1 /\ j + 1 = Len(x) + 2
      BY <1>2, <3>2
    <3>4. y[j] = <<"string", k>> /\ y[j + 1] = <<"value", g>>
      <4> HIDE DEF y
      <4> QED BY <1>1, <1>4, <1>5, <3>3
    <3> HIDE DEF y
    <3> QED BY <3>4
  <2> QED BY <2>1, <2>2
<1>7. Gathered(y, g)
  BY <1>2, <1>6 DEF Gathered
<1> HIDE DEF y
<1>8. \E i \in Pairs(y) : y[i] = <<"string", k>>
  BY <1>1, <1>4
<1> QED BY <1>3, <1>7, <1>8 DEF y, p

\* The steps of a call that leave its slice alone.
LEMMA QuietSteps ==
    ASSUME TypeOK, NEW g \in Goroutines,
           LoadOverride(g) \/ LoadSet(g) \/ BeginRange(g) \/ SendNothing(g)
    PROVE  /\ UNCHANGED shared
           /\ frame'[g].kv = frame[g].kv /\ frame'[g].view = frame[g].view
           /\ frame'[g].extras = frame[g].extras /\ frame'[g].visited = frame[g].visited
           /\ frame'[g].owed = frame[g].owed /\ Items(frame[g])' = Items(frame[g])
           /\ frame'[g].overwritten = frame[g].overwritten
           /\ \/ pc[g] \in Pairing /\ pc'[g] \in Pairing
              \/ /\ pc[g] \in Pairing /\ pc'[g] = "range"
                 /\ frame'[g].map = current /\ frame'[g].due = Registered(current)
              \/ /\ pc[g] = "capture" /\ pc'[g] = "emit" /\ ~frame[g].capture
                 /\ frame'[g].capture = frame[g].capture
<1> DEFINE f == frame[g]
<1>0. f \in Frames
  BY DEF TypeOK, FramesTyped
<1>1. UNCHANGED shared
  BY DEF LoadOverride, LoadSet, BeginRange, SendNothing
<1>2. ASSUME frame'[g].kv = f.kv, frame'[g].view = f.view
      PROVE  Items(frame[g])' = Items(frame[g])
  BY <1>1, <1>2 DEF Items, shared
<1>3. CASE LoadOverride(g)
  <2>1. pc[g] = "override" /\ pc'[g] = "set" /\ frame'[g] = [f EXCEPT !.loaded = override[Through(g)]]
    BY <1>3 DEF LoadOverride, At, Go, TypeOK, FramesTyped
  <2> QED BY <1>0, <1>1, <1>2, <2>1 DEF Frames, Pairing
<1>4. CASE LoadSet(g)
  <2>1. PICK c : c = IF overrideSet[Through(g)] THEN f.loaded ELSE f.level >= ErrorLevel
    OBVIOUS
  <2>2. pc[g] = "set" /\ pc'[g] = "extras" /\ frame'[g] = [f EXCEPT !.loaded = FALSE, !.capture = c]
    BY <1>4, <2>1 DEF LoadSet, At, Go, TypeOK, FramesTyped
  <2> QED BY <1>0, <1>1, <1>2, <2>2 DEF Frames, Pairing
<1>5. CASE BeginRange(g)
  <2>1. PICK v : v = IF f.level = FatalLevel THEN f.level ELSE 0
    OBVIOUS
  <2>2. /\ pc[g] = "extras" /\ pc'[g] = "range"
        /\ frame'[g] = [f EXCEPT !.map = current, !.due = Registered(current), !.api = "none",
                                 !.askable = {}, !.level = v]
    BY <1>0, <1>5, <2>1 DEF BeginRange, At, Go, TypeOK, FramesTyped
  <2> QED BY <1>0, <1>1, <1>2, <2>2 DEF Frames, Pairing
<1>6. CASE SendNothing(g)
  <2>1. pc[g] = "capture" /\ pc'[g] = "emit" /\ frame'[g] = f /\ ~f.capture
    BY <1>6 DEF SendNothing, At, Go, TypeOK, FramesTyped
  <2> QED BY <1>1, <1>2, <2>1
<1> QED BY <1>3, <1>4, <1>5, <1>6

LEMMA LogGives ==
    ASSUME TypeOK, NEW g \in Goroutines, Log(g)
    PROVE  /\ UNCHANGED shared /\ pc'[g] = "override"
           /\ frame'[g].kv \in ArgLists \cup {<<>>} /\ frame'[g].view \in {0, Len(SharedArgs)}
           /\ frame'[g].extras = <<>> /\ frame'[g].visited = {}
           /\ frame'[g].owed = {k \in Keys : callbacks[current][k] = "function"}
<1>1. PICK api \in Apis, level \in LogLevels, args \in ArgLists \cup {<<>>},
           view \in {0, Len(SharedArgs)} :
         Go(g, "override",
            [EmptyFrame EXCEPT !.api = api, !.level = level, !.kv = args, !.view = view,
               !.owed = {k \in Keys : callbacks[current][k] = "function"},
               !.askable = InForce(IF api = "sdk" THEN Fresh ELSE LoggerOf[g])])
  BY DEF Log
<1>2. UNCHANGED shared
  BY DEF Log
<1> QED BY <1>1, <1>2 DEF Go, TypeOK, FramesTyped, EmptyFrame

LEMMA SlicesLog ==
    ASSUME EvenArgs, TypeOK, SlicesInv, NEW g \in Goroutines, LogStep(g)
    PROVE  SlicesInv'
<1>1. ASSUME NEW h \in Goroutines \ {g} PROVE SliceInv(h)'
  BY LogAlone, SliceKept DEF SlicesInv
<1>2. SliceInv(g)'
  <2>0. SliceInv(g)
    BY DEF SlicesInv
  <2>1. CASE Log(g)
    BY <2>1, LogGives DEF SliceInv, Pairing
  <2>2. CASE LoadOverride(g) \/ LoadSet(g) \/ BeginRange(g) \/ SendNothing(g)
    <3>1. Gathered(<<>>, g)
      BY DEF Gathered, Pairs
    <3>2. CASE pc[g] \in Pairing /\ pc'[g] \in Pairing
      BY <2>0, <2>2, <3>2, QuietSteps DEF SliceInv, Calling, Pairing
    <3>3. CASE pc[g] \in Pairing /\ pc'[g] = "range"
      <4>1. frame'[g].extras = <<>>
        BY <2>0, <2>2, <3>3, QuietSteps DEF SliceInv
      <4>2. Gathered(frame'[g].extras, g)
        BY <3>1, <4>1
      <4> QED BY <2>0, <2>2, <3>3, <4>2, QuietSteps DEF SliceInv, Calling, Pairing, Gathered, Pairs
    <3>4. CASE pc[g] = "capture" /\ pc'[g] = "emit"
      BY <2>0, <2>2, <3>4, QuietSteps DEF SliceInv, Calling, Pairing
    <3> QED BY <2>2, <3>2, <3>3, <3>4, QuietSteps
  <2>3. CASE VisitCallback(g)
    <3>1. pc[g] = "range" /\ Gathered(frame[g].extras, g) /\ frame[g].extras \in Seq(ItemSet)
      BY <2>0, <2>3 DEF VisitCallback, At, SliceInv, TypeOK, FramesTyped, Frames
    <3>2. Gathered(frame'[g].extras, g)
      BY <2>3, <3>1, VisitGives, GatheredMore
    <3> QED BY <2>0, <2>3, <3>2, VisitGives DEF SliceInv, Calling, Pairing, Gathered, Pairs
  <2>4. CASE AppendExtras(g)
    <3>1. PICK s : s = Items(frame[g])
      OBVIOUS
    <3>2. PICK x : x = frame[g].extras
      OBVIOUS
    <3>3. s \in Seq(ItemSet) /\ Len(s) % 2 = 0
      <4>1. s \in ArgLists \cup {<<>>, SharedArgs}
        BY <2>4, <3>1, ExtrasGive
      <4>2. CASE s = <<>>
        BY <4>2
      <4>3. CASE s # <<>>
        BY <4>1, <4>3, ArgsTyped DEF EvenArgs
      <4> QED BY <4>2, <4>3
    <3>4. Len(x) % 2 = 0 /\ x \in Seq(ItemSet)
      BY <2>0, <2>4, <3>2, ExtrasGive DEF SliceInv, Gathered
    <3>5. Len(s \o x) % 2 = 0
      <4>1. Len(s \o x) = Len(s) + Len(x) /\ Len(s) \in Int /\ Len(x) \in Int
        BY <3>3, <3>4, ConcatProperties
      <4> QED BY <3>3, <3>4, <4>1, Parity
    <3>6. Len(Items(frame[g])') % 2 = 0
      BY <2>4, <3>1, <3>2, <3>5, ExtrasGive
    <3> QED BY <2>0, <2>4, <3>6, ExtrasGive DEF SliceInv, Calling, Pairing
  <2>5. CASE SendToSentry(g)
    <3>0. CASE frame[g].overwritten
      BY <2>0, <2>5, <3>0, SendGives DEF SliceInv, Calling, Pairing
    <3>1. PICK x \in EventIDItems : Items(frame[g])' = Items(frame[g]) \o x
      BY <2>5, SendGives
    <3>2. /\ Items(frame[g]) \in Seq(ItemSet) /\ x \in Seq(ItemSet) /\ Len(x) % 2 = 0
          /\ ~frame[g].overwritten => Len(Items(frame[g])) % 2 = 0
      BY <2>0, <2>5, SendGives, IdPairs DEF SliceInv
    <3>3. ASSUME ~frame[g].overwritten PROVE Len(Items(frame[g])') % 2 = 0
      <4>1. Len(Items(frame[g])') = Len(Items(frame[g])) + Len(x)
        BY <3>1, <3>2, ConcatProperties
      <4>2. Len(Items(frame[g])) \in Int /\ Len(x) \in Int
        BY <3>2
      <4> QED BY <3>2, <3>3, <4>1, <4>2, Parity
    <3> QED BY <2>0, <2>5, <3>0, <3>3, SendGives DEF SliceInv, Calling, Pairing
  <2>6. CASE Emit(g)
    BY <2>6 DEF Emit, Go, TypeOK, FramesTyped, SliceInv, Calling, Pairing
  <2> QED BY <2>1, <2>2, <2>3, <2>4, <2>5, <2>6 DEF LogStep
<1>3. \A j \in 1..Len(SharedArgs) : backing'[j] = SharedArgs[j]
  BY LogAlone DEF SlicesInv
<1> QED BY <1>1, <1>2, <1>3 DEF SlicesInv

LEMMA SlicesStep ==
    ASSUME EvenArgs, TypeOK, SlicesInv, [Next]_vars
    PROVE  SlicesInv'
<1>1. CASE BlowUp \/ UNCHANGED vars
  <2>1. backing' = backing /\ pc' = pc /\ frame' = frame
    BY <1>1 DEF BlowUp, vars, shared
  <2>2. \A h \in Goroutines : SameSlices(h) /\ Kept(h)
    BY <2>1 DEF SameSlices, Kept, Items
  <2> QED BY <2>1, <2>2, SlicesElsewhere
<1>2. ASSUME NEW g \in Goroutines, RegistryStep(g) \/ SettingsStep(g) \/ OverrideStep(g)
      PROVE  SlicesInv'
  <2>1. backing' = backing
    BY <1>2 DEF RegistryStep, SettingsStep, OverrideStep, Register, Assign, Clear, SetLogLevel,
                SetOutput, StoreRoot, CaptureSentryEvent, StoreSet, shared
  <2> QED BY <1>2, <2>1, OutsideCalls, SlicesElsewhere
<1> QED BY <1>1, <1>2, SlicesLog DEF Next

LEMMA SlicesInit == Init => SlicesInv
<1> SUFFICES ASSUME Init PROVE SlicesInv
  OBVIOUS
<1>1. ASSUME NEW j \in 1..Len(SharedArgs) PROVE backing[j] = SharedArgs[j]
  <2>1. [i \in 1..Room |-> <<"value", NoValue>>] \in Seq(ItemSet)
    BY ArgsTyped DEF ItemSet
  <2>2. SharedArgs \in Seq(ItemSet)
    BY ArgsTyped
  <2> QED BY <1>1, <2>1, <2>2, ConcatProperties DEF Init
<1>2. ASSUME NEW g \in Goroutines PROVE SliceInv(g)
  BY DEF Init, SliceInv, Calling, Pairing
<1> QED BY <1>1, <1>2 DEF SlicesInv

-----------------------------------------------------------------------------
\* What is owed stays registered, or is owed no more.
StillOwed(h) ==
    /\ frame'[h].owed \subseteq frame[h].owed
    /\ \A m \in Maps, k \in frame'[h].owed :
          callbacks[m][k] = "function" => callbacks'[m][k] = "function"
    /\ current' = current \/ frame'[h].owed = {}

LEMMA OwedKept ==
    ASSUME TypeOK, NEW h \in Goroutines, OwedInv(h), pc'[h] = pc[h], SameSlices(h), Kept(h),
           StillOwed(h)
    PROVE  OwedInv(h)'
<1>1. CASE pc[h] \in Pairing
  <2>1. current \in Maps
    BY DEF TypeOK, SharedTyped
  <2> QED BY <1>1, <2>1 DEF OwedInv, StillOwed, Pairing
<1>2. CASE pc[h] = "range"
  <2>1. frame[h].map \in Maps
    BY <1>2 DEF TypeOK, FramesTyped
  <2> QED BY <1>2, <2>1 DEF OwedInv, StillOwed, Pairing, SameSlices
<1>3. CASE pc[h] \in {"capture", "emit"}
  BY <1>3 DEF OwedInv, StillOwed, Pairing, Kept
<1>4. CASE pc[h] \notin Calling
  BY <1>4 DEF OwedInv, Calling
<1> QED BY <1>1, <1>2, <1>3, <1>4 DEF Calling

LEMMA OwedElsewhere ==
    ASSUME TypeOK, CompleteInv,
           \A h \in Goroutines :
              pc'[h] \in Calling => pc'[h] = pc[h] /\ SameSlices(h) /\ Kept(h) /\ StillOwed(h)
    PROVE  CompleteInv'
<1>1. ASSUME NEW h \in Goroutines PROVE OwedInv(h)'
  <2>1. CASE pc'[h] \in Calling
    BY <2>1, OwedKept DEF CompleteInv
  <2>2. CASE pc'[h] \notin Calling
    BY <2>2 DEF OwedInv, Calling
  <2> QED BY <2>1, <2>2
<1> QED BY <1>1 DEF CompleteInv

LEMMA OwedOutside ==
    ASSUME TypeOK, NEW g \in Goroutines, RegistryStep(g) \/ SettingsStep(g) \/ OverrideStep(g),
           NEW h \in Goroutines, pc'[h] \in Calling
    PROVE  StillOwed(h)
<1>1. ASSUME callbacks' = callbacks, current' = current, frame'[h].owed = frame[h].owed
      PROVE  StillOwed(h)
  BY <1>1 DEF StillOwed
<1>2. ASSUME NEW l, l \notin Calling, NEW f, Go(g, l, f) PROVE frame'[h].owed = frame[h].owed
  BY <1>2 DEF Go, TypeOK, FramesTyped
<1>3. {"idle", "assign", "storeRoot", "storeSet"} \cap Calling = {}
  BY DEF Calling, Pairing
<1>4. ASSUME NEW ks PROVE Disown(ks)[h].owed = frame[h].owed \ ks
  BY DEF Disown, TypeOK, FramesTyped, Frames
<1>5. CASE Register(g)
  BY <1>1, <1>2, <1>3, <1>5 DEF Register, shared
<1>6. CASE Assign(g)
  <2> DEFINE f == frame[g]
  <2>1. PICK c \in {"function", "nil"} :
          /\ callbacks' = [callbacks EXCEPT ![f.map][f.key] = c]
          /\ frame' = [Disown(IF c = "nil" THEN {f.key} ELSE {}) EXCEPT ![g] = EmptyFrame]
    BY <1>6 DEF Assign
  <2>2. h # g /\ current' = current
    BY <1>3, <1>6 DEF Assign, TypeOK, FramesTyped
  <2>3. frame'[h] = Disown(IF c = "nil" THEN {f.key} ELSE {})[h]
    BY <2>1, <2>2 DEF Disown
  <2>4. frame'[h].owed = frame[h].owed \ (IF c = "nil" THEN {f.key} ELSE {})
    BY <1>4, <2>3
  <2>5. frame[h].owed \subseteq Keys
    BY DEF TypeOK, FramesTyped, Frames
  <2>6. ASSUME NEW m \in Maps, NEW k \in frame'[h].owed, callbacks[m][k] = "function"
        PROVE  callbacks'[m][k] = "function"
    <3>1. k \in Keys /\ (c = "nil" => k # f.key)
      BY <2>4, <2>5
    <3>2. callbacks'[m][k] = IF m = f.map /\ k = f.key THEN c ELSE callbacks[m][k]
      BY <2>1, <3>1 DEF TypeOK, SharedTyped
    <3> QED BY <2>6, <3>1, <3>2
  <2> QED BY <2>2, <2>4, <2>6 DEF StillOwed
<1>7. CASE Clear(g)
  <2>1. frame'[h].owed = frame[h].owed \ Keys
    BY <1>4, <1>7 DEF Clear
  <2>2. frame[h].owed \subseteq Keys
    BY DEF TypeOK, FramesTyped, Frames
  <2> QED BY <2>1, <2>2 DEF StillOwed
<1>8. CASE SettingsStep(g)
  BY <1>1, <1>2, <1>3, <1>8 DEF SettingsStep, SetLogLevel, SetOutput, StoreRoot, shared
<1>9. CASE CaptureSentryEvent(g)
  <2>1. PICK b \in Overrides :
          frame' = [q \in Goroutines |->
              IF pc[q] \in {"override", "set"} /\ Through(q) = LoggerOf[g]
              THEN [frame[q] EXCEPT !.askable = @ \cup {Named(b)}] ELSE frame[q]]
    BY <1>9 DEF CaptureSentryEvent
  <2>2. frame'[h].owed = frame[h].owed
    BY <2>1 DEF TypeOK, FramesTyped, Frames
  <2> QED BY <1>1, <1>9, <2>2 DEF CaptureSentryEvent
<1>10. CASE StoreSet(g)
  BY <1>1, <1>2, <1>3, <1>10 DEF StoreSet
<1> QED BY <1>5, <1>6, <1>7, <1>8, <1>9, <1>10 DEF RegistryStep, OverrideStep

LEMMA OwedLog ==
    ASSUME EvenArgs, NamedKeys, TypeOK, SlicesInv, CompleteInv,
           NEW g \in Goroutines, LogStep(g)
    PROVE  CompleteInv'
<1> DEFINE f == frame[g]
<1>0. /\ f \in Frames /\ OwedInv(g) /\ SliceInv(g)
      /\ callbacks' = callbacks /\ current' = current
  BY DEF TypeOK, FramesTyped, CompleteInv, SlicesInv, LogStep, Log, LoadOverride, LoadSet,
         BeginRange, VisitCallback, AppendExtras, SendToSentry, SendNothing, Emit, shared
<1>1. ASSUME NEW h \in Goroutines \ {g} PROVE OwedInv(h)'
  <2>1. StillOwed(h)
    BY <1>0, LogAlone DEF StillOwed
  <2> QED BY <2>1, LogAlone, OwedKept DEF CompleteInv
<1>2. SUFFICES OwedInv(g)'
  BY <1>1 DEF CompleteInv
<1>3. CASE Log(g)
  <2>1. pc'[g] = "override" /\ \A k \in frame'[g].owed : callbacks[current][k] = "function"
    BY <1>3, LogGives
  <2> QED BY <1>0, <2>1 DEF OwedInv, Pairing
<1>4. CASE LoadOverride(g) \/ LoadSet(g) \/ BeginRange(g) \/ SendNothing(g)
  <2>1. CASE pc[g] \in Pairing /\ pc'[g] \in Pairing
    BY <1>0, <1>4, <2>1, QuietSteps DEF OwedInv, Pairing
  <2>2. CASE /\ pc[g] \in Pairing /\ pc'[g] = "range"
             /\ frame'[g].map = current /\ frame'[g].due = Registered(current)
    <3>1. frame'[g].visited = {} /\ frame'[g].owed = f.owed
      BY <1>0, <1>4, <2>2, QuietSteps DEF SliceInv
    <3>2. \A k \in f.owed : k \in Registered(current) /\ callbacks[current][k] = "function"
      BY <1>0, <2>2 DEF OwedInv, Frames, Registered
    <3> QED BY <1>0, <2>2, <3>1, <3>2 DEF OwedInv, Pairing
  <2>3. CASE pc[g] = "capture" /\ pc'[g] = "emit"
    BY <1>0, <1>4, <2>3, QuietSteps DEF OwedInv, Pairing
  <2> QED BY <1>4, <2>1, <2>2, <2>3, QuietSteps
<1>5. CASE VisitCallback(g)
  <2>1. PICK k \in Keys :
           /\ frame'[g].visited = f.visited \cup {k}
           /\ frame'[g].extras = IF callbacks[f.map][k] = "nil" THEN f.extras
                                 ELSE f.extras \o <<<<"string", k>>, <<"value", g>>>>
           /\ frame'[g].owed = f.owed /\ frame'[g].due = f.due
           /\ frame'[g].map = f.map /\ pc'[g] = "range" /\ pc[g] = "range"
    BY <1>5, VisitGives
  <2>2. Gathered(f.extras, g) /\ f.extras \in Seq(ItemSet)
    BY <1>0, <2>1 DEF SliceInv, Frames
  <2>3. PICK x : x = f.extras
    OBVIOUS
  <2>4. PICK y : y = frame'[g].extras
    OBVIOUS
  <2>5. ASSUME callbacks[f.map][k] = "nil" PROVE OwedInv(g)'
    <3>1. y = x
      BY <2>1, <2>3, <2>4, <2>5
    <3>2. ASSUME NEW q \in f.owed
          PROVE  /\ q \in f.due /\ callbacks[f.map][q] = "function"
                 /\ q \in f.visited \cup {k} => \E i \in Pairs(y) : y[i] = <<"string", q>>
      BY <1>0, <2>1, <2>3, <2>5, <3>1 DEF OwedInv
    <3> QED BY <1>0, <2>1, <2>4, <3>2 DEF OwedInv, Pairing
  <2>6. ASSUME callbacks[f.map][k] # "nil" PROVE OwedInv(g)'
    <3>1. y = x \o <<<<"string", k>>, <<"value", g>>>>
      BY <2>1, <2>3, <2>4, <2>6
    <3>2. /\ \A i \in Pairs(x) : i \in Pairs(y) /\ y[i] = x[i]
          /\ \E i \in Pairs(y) : y[i] = <<"string", k>>
      <4>1. x \in Seq(ItemSet) /\ Gathered(x, g)
        BY <2>2, <2>3
      <4>2. LET z == x \o <<<<"string", k>>, <<"value", g>>>>
            IN  /\ \A i \in Pairs(x) : i \in Pairs(z) /\ z[i] = x[i]
                /\ \E i \in Pairs(z) : z[i] = <<"string", k>>
        BY <4>1, GatheredMore
      <4> QED BY <3>1, <4>2
    <3>3. ASSUME NEW q \in f.owed
          PROVE  /\ q \in f.due /\ callbacks[f.map][q] = "function"
                 /\ q \in f.visited \cup {k} => \E i \in Pairs(y) : y[i] = <<"string", q>>
      <4>1. /\ q \in f.due /\ callbacks[f.map][q] = "function"
            /\ q \in f.visited => \E i \in Pairs(x) : x[i] = <<"string", q>>
        BY <1>0, <2>1, <2>3 DEF OwedInv
      <4> QED BY <3>2, <4>1
    <3> QED BY <1>0, <2>1, <2>4, <3>3 DEF OwedInv, Pairing
  <2> QED BY <2>5, <2>6
<1>6. CASE AppendExtras(g)
  <2>1. PICK s, x : s = Items(f) /\ x = f.extras
    OBVIOUS
  <2>2. /\ pc[g] = "range" /\ pc'[g] = "capture" /\ f.due \subseteq f.visited
        /\ s \in ArgLists \cup {<<>>, SharedArgs} /\ x \in Seq(ItemSet)
        /\ Items(frame[g])' = s \o x /\ frame'[g].owed = f.owed
    BY <1>6, <2>1, ExtrasGive
  <2>3. s \in Seq(ItemSet) /\ Len(s) % 2 = 0
    <3>1. CASE s = <<>>
      BY <3>1
    <3>2. CASE s # <<>>
      BY <2>2, <3>2, ArgsTyped DEF EvenArgs
    <3> QED BY <3>1, <3>2
  <2>4. Gathered(x, g)
    BY <1>0, <2>1, <2>2 DEF SliceInv
  <2>5. ASSUME NEW k \in f.owed PROVE Bears(s \o x, k, g)
    <3>1. k \in Keys /\ k \in f.visited
      BY <1>0, <2>2 DEF OwedInv, Frames
    <3>2. PICK i \in Pairs(x) : x[i] = <<"string", k>>
      BY <1>0, <2>1, <2>2, <3>1 DEF OwedInv
    <3> QED BY <2>2, <2>3, <2>4, <3>1, <3>2, BearsGathered
  <2> QED BY <2>2, <2>5 DEF OwedInv, Pairing
<1>7. CASE SendToSentry(g)
  <2>1. PICK s : s = Items(f)
    OBVIOUS
  <2>2. PICK x \in EventIDItems : Items(frame[g])' = s \o x
    BY <1>7, <2>1, SendGives
  <2>3. /\ pc[g] = "capture" /\ pc'[g] = "emit" /\ s \in Seq(ItemSet)
        /\ frame'[g].owed = f.owed /\ frame'[g].overwritten = f.overwritten
    BY <1>7, <2>1, SendGives
  <2>4. ASSUME ~f.overwritten, NEW k \in f.owed PROVE Bears(s \o x, k, g)
    <3>1. k \in Keys /\ Bears(s, k, g) /\ Len(s) % 2 = 0
      BY <1>0, <2>1, <2>3, <2>4 DEF OwedInv, SliceInv, Frames
    <3> QED BY <2>3, <3>1, BearsWithId
  <2> QED BY <2>2, <2>3, <2>4 DEF OwedInv, Pairing
<1>8. CASE Emit(g)
  BY <1>8 DEF Emit, Go, TypeOK, FramesTyped, OwedInv, Pairing
<1> QED BY <1>3, <1>4, <1>5, <1>6, <1>7, <1>8 DEF LogStep

LEMMA OwedStep ==
    ASSUME EvenArgs, NamedKeys, TypeOK, SlicesInv, CompleteInv, [Next]_vars
    PROVE  CompleteInv'
<1>1. CASE BlowUp \/ UNCHANGED vars
  <2>1. UNCHANGED <<backing, pc, frame, callbacks, current>>
    BY <1>1 DEF BlowUp, vars, shared
  <2>2. \A h \in Goroutines : SameSlices(h) /\ Kept(h) /\ StillOwed(h)
    BY <2>1 DEF SameSlices, Kept, Items, StillOwed
  <2> QED BY <2>1, <2>2, OwedElsewhere
<1>2. ASSUME NEW g \in Goroutines, RegistryStep(g) \/ SettingsStep(g) \/ OverrideStep(g)
      PROVE  CompleteInv'
  BY <1>2, OutsideCalls, OwedOutside, OwedElsewhere
<1> QED BY <1>1, <1>2, OwedLog DEF Next

\* When slices of pairs are whole and callbacks have names of their own, what
\* is about to be written has the value from its caller's own context under
\* the key of each callback that stayed registered, whatever registrations,
\* resets and other calls came between, whatever keys the caller uses itself
\* and whoever appends to the same slice, unless over what this call appended.
THEOREM ExtrasAreComplete ==
    ASSUME EvenArgs, NamedKeys
    PROVE  Spec => []ExtrasComplete
<1>1. Init => CompleteInv
  BY DEF Init, CompleteInv, OwedInv, Pairing
<1>2. TypeOK /\ SlicesInv /\ [Next]_vars => SlicesInv'
  BY SlicesStep
<1>3. TypeOK /\ SlicesInv /\ CompleteInv /\ [Next]_vars => CompleteInv'
  BY OwedStep
<1>4. TypeOK /\ SlicesInv /\ CompleteInv => ExtrasComplete
  <2> SUFFICES ASSUME TypeOK, SlicesInv, CompleteInv, NEW g \in Goroutines, pc[g] = "emit",
                      ~frame[g].overwritten, NEW k \in frame[g].owed
               PROVE  LET extra == createLogEvent(g)
                      IN  <<k, 0>> \in DOMAIN extra /\ extra[<<k, 0>>] = g
    BY DEF ExtrasComplete
  <2>1. PICK s : s = Items(frame[g])
    OBVIOUS
  <2>2. s \in Seq(ItemSet) /\ Len(s) % 2 = 0 /\ Bears(s, k, g)
    BY <2>1, ItemsTyped DEF TypeOK, FramesTyped, SlicesInv, SliceInv, CompleteInv, OwedInv
  <2> QED BY <2>1, <2>2, BearsExtra DEF createLogEvent
<1> QED BY <1>1, <1>2, <1>3, <1>4, SlicesInit, TypeCorrect, PTL DEF Spec

-----------------------------------------------------------------------------
LEMMA PlainGathered ==
    ASSUME IdReserved, NEW s \in Seq(ItemSet), NEW x \in Seq(ItemSet), NEW g,
           Len(s) % 2 = 0, Gathered(x, g), Plain(s)
    PROVE  Plain(s \o x)
<1> SUFFICES ASSUME NEW j \in Pairs(s \o x) PROVE KeyAt(s \o x, j) # <<SentryEventID, 0>>
  BY DEF Plain
<1>1. CASE j \in Pairs(s)
  BY <1>1, PairsOfConcat DEF Plain
<1>2. CASE j \notin Pairs(s)
  <2>1. j - Len(s) \in Pairs(x) /\ (s \o x)[j] = x[j - Len(s)]
    BY <1>2, PairsOfConcat
  <2>2. PICK k \in Keys : (s \o x)[j] = <<"string", k>>
    BY <2>1 DEF Gathered
  <2>3. KeyAt(s \o x, j) \in {<<MissingKey, j - 1>>, <<k, 0>>}
    BY <2>2 DEF KeyAt
  <2> QED BY <2>3 DEF IdReserved
<1> QED BY <1>1, <1>2

\* The id that is added to the items changes no other extra.
LEMMA ExtraWithId ==
    ASSUME IdReserved, NEW s \in Seq(ItemSet), NEW x \in EventIDItems, Len(s) % 2 = 0, Plain(s)
    PROVE  SentAs(contextToLegacyExtra(s), s \o x)
<1> DEFINE d == contextToLegacyExtra(s)
           y == s \o x
           e == contextToLegacyExtra(y)
           ID == <<SentryEventID, 0>>
<1>0. x \in Seq(ItemSet) /\ y \in Seq(ItemSet)
  BY IdPairs, ConcatProperties
<1>1. /\ DOMAIN d = {KeyAt(s, i) : i \in Pairs(s)} /\ DOMAIN e = {KeyAt(y, i) : i \in Pairs(y)}
      /\ d = [k \in DOMAIN d |-> d[k]]
  BY DEF contextToLegacyExtra, Pairs
<1>2. \A i \in Pairs(s) : i \in Pairs(y) /\ KeyAt(y, i) = KeyAt(s, i) /\ i + 1 \in DOMAIN s
                         /\ y[i + 1] = s[i + 1]
  BY <1>0, PairsOfConcat
<1>3. ASSUME NEW j \in Pairs(y), j \notin Pairs(s) PROVE KeyAt(y, j) = ID
  <2>1. y[j] = <<"string", SentryEventID>>
    <3>1. j - Len(s) \in Pairs(x) /\ y[j] = x[j - Len(s)]
      BY <1>0, <1>3, PairsOfConcat
    <3> QED BY <3>1, IdPairs
  <2> HIDE DEF y
  <2> QED BY <2>1 DEF KeyAt, IdReserved
<1> HIDE DEF d, e, y
<1>4. DOMAIN e \ {ID} = DOMAIN d
  BY <1>1, <1>2, <1>3 DEF Plain
<1>5. ASSUME NEW k \in DOMAIN d PROVE e[k] = d[k]
  <2>1. PICK i \in Pairs(s) : k = KeyAt(s, i)
    BY <1>1
  <2>2. PICK m \in Pairs(s) :
           /\ KeyAt(s, m) = k /\ \A j \in Pairs(s) : KeyAt(s, j) = k => j <= m
           /\ d[k] = IF m = Len(s) THEN Missing ELSE s[m + 1][2]
    BY <2>1, ExtraOfKey DEF d
  <2>3. PICK n \in Pairs(y) :
           /\ KeyAt(y, n) = k /\ \A j \in Pairs(y) : KeyAt(y, j) = k => j <= n
           /\ e[k] = IF n = Len(y) THEN Missing ELSE y[n + 1][2]
    BY <1>0, <1>2, <2>1, ExtraOfKey DEF e
  <2>4. k # ID
    BY <2>1 DEF Plain
  <2>5. n \in Pairs(s)
    BY <1>3, <2>3, <2>4
  <2>6. m = n
    <3>1. n <= m /\ m <= n
      BY <1>2, <2>2, <2>3, <2>5
    <3> QED BY <3>1 DEF Pairs
  <2>7. m # Len(s) /\ n # Len(y)
    <3>1. m + 1 \in DOMAIN s /\ m \in Nat
      BY <1>2 DEF Pairs
    <3>2. Len(y) = Len(s) + Len(x) /\ Len(x) \in Nat /\ Len(s) \in Nat
      BY <1>0, ConcatProperties DEF y
    <3> QED BY <2>6, <3>1, <3>2
  <2> QED BY <1>2, <2>2, <2>3, <2>6, <2>7
<1>6. d = [k \in DOMAIN e \ {ID} |-> e[k]]
  BY <1>1, <1>4, <1>5
<1> QED BY <1>6 DEF SentAs, d, e, y

LEMMA SentKept ==
    ASSUME NEW h \in Goroutines, SentInv(h), pc'[h] = pc[h], SameSlices(h), Kept(h)
    PROVE  SentInv(h)'
BY DEF SentInv, SameSlices, Kept

LEMMA MatchElsewhere ==
    ASSUME MatchInv,
           \A h \in Goroutines :
              pc'[h] \in Calling => pc'[h] = pc[h] /\ SameSlices(h) /\ Kept(h)
    PROVE  MatchInv'
<1>1. ASSUME NEW h \in Goroutines PROVE SentInv(h)'
  <2>1. CASE pc'[h] \in Calling
    BY <2>1, SentKept DEF MatchInv
  <2>2. CASE pc'[h] \notin Calling
    BY <2>2 DEF SentInv, Calling
  <2> QED BY <2>1, <2>2
<1> QED BY <1>1 DEF MatchInv

LEMMA MatchLog ==
    ASSUME EvenArgs, IdReserved, TypeOK, SlicesInv, MatchInv, NEW g \in Goroutines, LogStep(g)
    PROVE  MatchInv'
<1> DEFINE f == frame[g]
<1>0. f \in Frames /\ SentInv(g) /\ SliceInv(g)
  BY DEF TypeOK, FramesTyped, MatchInv, SlicesInv
<1>1. ASSUME NEW h \in Goroutines \ {g} PROVE SentInv(h)'
  BY LogAlone, SentKept DEF MatchInv
<1>2. SUFFICES SentInv(g)'
  BY <1>1 DEF MatchInv
<1>3. CASE AppendExtras(g)
  <2>1. PICK s, x : s = Items(f) /\ x = f.extras
    OBVIOUS
  <2>2. /\ pc[g] = "range" /\ pc'[g] = "capture"
        /\ s \in ArgLists \cup {<<>>, SharedArgs} /\ x \in Seq(ItemSet)
        /\ Items(frame[g])' = s \o x
    BY <1>3, <2>1, ExtrasGive
  <2>3. s \in Seq(ItemSet) /\ Len(s) % 2 = 0 /\ Plain(s)
    <3>1. CASE s = <<>>
      BY <3>1 DEF Plain, Pairs
    <3>2. CASE s # <<>>
      BY <2>2, <3>2, ArgsTyped DEF EvenArgs, IdReserved
    <3> QED BY <3>1, <3>2
  <2>4. Gathered(x, g)
    BY <1>0, <2>1, <2>2 DEF SliceInv
  <2>5. Plain(s \o x)
    BY <2>2, <2>3, <2>4, PlainGathered
  <2> QED BY <2>2, <2>5 DEF SentInv
<1>4. CASE SendToSentry(g)
  <2>1. PICK s : s = Items(f)
    OBVIOUS
  <2>2. PICK x \in EventIDItems : Items(frame[g])' = s \o x
    BY <1>4, <2>1, SendGives
  <2>3. /\ pc[g] = "capture" /\ pc'[g] = "emit" /\ s \in Seq(ItemSet)
        /\ frame'[g].sent = contextToLegacyExtra(s) /\ frame'[g].overwritten = f.overwritten
    BY <1>4, <2>1, SendGives
  <2>4. ASSUME ~f.overwritten PROVE SentAs(contextToLegacyExtra(s), s \o x)
    <3>1. Len(s) % 2 = 0 /\ Plain(s)
      BY <1>0, <2>1, <2>3, <2>4 DEF SliceInv, SentInv
    <3> QED BY <2>3, <3>1, ExtraWithId
  <2> QED BY <2>2, <2>3, <2>4 DEF SentInv
<1>5. CASE SendNothing(g)
  <2>1. pc[g] = "capture" /\ pc'[g] = "emit" /\ ~frame'[g].capture
    BY <1>5 DEF SendNothing, At, Go, TypeOK, FramesTyped
  <2> QED BY <2>1 DEF SentInv
<1>6. CASE Log(g) \/ LoadOverride(g) \/ LoadSet(g) \/ BeginRange(g) \/ VisitCallback(g) \/ Emit(g)
  <2>1. pc'[g] \notin {"capture", "emit"}
    BY <1>6 DEF Log, LoadOverride, LoadSet, BeginRange, VisitCallback, Emit, Go, TypeOK, FramesTyped
  <2> QED BY <2>1 DEF SentInv
<1> QED BY <1>3, <1>4, <1>5, <1>6 DEF LogStep

LEMMA MatchStep ==
    ASSUME EvenArgs, IdReserved, TypeOK, SlicesInv, MatchInv, [Next]_vars
    PROVE  MatchInv'
<1>1. CASE BlowUp \/ UNCHANGED vars
  <2>1. UNCHANGED <<backing, pc, frame>>
    BY <1>1 DEF BlowUp, vars, shared
  <2>2. \A h \in Goroutines : SameSlices(h) /\ Kept(h)
    BY <2>1 DEF SameSlices, Kept, Items
  <2> QED BY <2>1, <2>2, MatchElsewhere
<1>2. ASSUME NEW g \in Goroutines, RegistryStep(g) \/ SettingsStep(g) \/ OverrideStep(g)
      PROVE  MatchInv'
  BY <1>2, OutsideCalls, MatchElsewhere
<1> QED BY <1>1, <1>2, MatchLog DEF Next

\* When slices of pairs are whole and nobody else uses the key of the event's
\* id, Sentry gets just the extras that are about to be written: neither a
\* registration nor a call comes between the two, unless it appends over what
\* this call appended to a slice they share.
THEOREM SentryGetsTheExtras ==
    ASSUME EvenArgs, IdReserved
    PROVE  Spec => []SentryMatchesLog
<1>1. Init => MatchInv
  BY DEF Init, MatchInv, SentInv
<1>2. TypeOK /\ SlicesInv /\ [Next]_vars => SlicesInv'
  BY SlicesStep
<1>3. TypeOK /\ SlicesInv /\ MatchInv /\ [Next]_vars => MatchInv'
  BY MatchStep
<1>4. MatchInv => SentryMatchesLog
  BY DEF MatchInv, SentInv, SentAs, SentryMatchesLog, createLogEvent
<1> QED BY <1>1, <1>2, <1>3, <1>4, SlicesInit, TypeCorrect, PTL DEF Spec

=============================================================================
