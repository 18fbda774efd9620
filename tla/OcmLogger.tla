------------------------------ MODULE OcmLogger ------------------------------
(***************************************************************************)
(* pkg/ocmlogger: structured logging with extras from the context, capture *)
(* by Sentry, and settings that are global to the process.                 *)
(*                                                                         *)
(* Goroutines share, without locks: the loggers some of them log through   *)
(* (two atomics hold the capture override), the map of callbacks that      *)
(* fetch extras from a context, the root logger, and possibly the slice of *)
(* key/value pairs they pass.  What a callback finds in the context of     *)
(* goroutine g is g itself.                                                *)
(*                                                                         *)
(* An item of a key/value slice is <<"string", x>> or <<"value", x>>; a    *)
(* key of the extras is <<x, 0>>, or <<marker, i>> where contextToLegacy-  *)
(* Extra makes one up for position i.                                      *)
(***************************************************************************)
EXTENDS Integers, Sequences, FiniteSets

CONSTANTS
    Goroutines,
    Loggers, LoggerOf,     \* the logger each goroutine logs through
    Fresh,                 \* a logger that a wrapper makes for one call
    Apis,                  \* ways in, of "contextual", "legacy", "sdk"
    LogLevels,             \* levels logged at, 0 (debug) to 4 (fatal)
    SetLevels,             \* levels SetLogLevel is given, 6 being NoLevel
    Outputs,               \* writers SetOutput is given
    Keys,                  \* keys of callbacks
    ArgLists,              \* key/value slices a goroutine makes for itself
    SharedArgs, Room,      \* a slice all may pass, and the room behind it
    Callers,               \* goroutines that log, and ask for capture
    Registrars,            \* goroutines that register and clear callbacks
    Configurers,           \* goroutines that change level and output
    Overrides,             \* what may be passed to CaptureSentryEvent
    NoValue, Missing, SentryEventID, EventID, NotAString, MissingKey, EmptyText

FatalLevel == 4
ErrorLevel == 3
DefaultLevel == 2

\* Map objects.  A goroutine that installs a new one holds none itself, so
\* there is always one that nobody holds; the number of such a map is used
\* again.
Maps == 0..Cardinality(Goroutines) - 1
NoMap == -1

ASSUME ConstantsAssumption ==
    /\ IsFiniteSet(Goroutines) /\ Goroutines # {}
    /\ LoggerOf \in [Goroutines -> Loggers] /\ Fresh \notin Loggers
    /\ Apis \subseteq {"contextual", "legacy", "sdk"}
    /\ LogLevels \subseteq 0..4 /\ SetLevels \subseteq 0..7 /\ Outputs # {}
    /\ Room \in Nat /\ Overrides \subseteq BOOLEAN
    /\ \A s \in ArgLists \cup {SharedArgs} : s \in Seq({s[i] : i \in DOMAIN s})
    /\ Callers \cup Registrars \cup Configurers \subseteq Goroutines

VARIABLES
    alive,                   \* "running", "crashed" or "exited"
    override, overrideSet,   \* of each logger
    current, callbacks,      \* which map is current, the contents of each
    root, globalLevel,       \* the root logger and zerolog's own level
    backing,                 \* the shared slice with the room behind it
    pc, frame                \* goroutines: position and locals

shared == <<override, overrideSet, current, callbacks, root, globalLevel, backing>>
vars == <<alive, shared, pc, frame>>

EmptyFrame ==
    [api |-> "none", level |-> 0, loaded |-> FALSE, capture |-> FALSE, map |-> NoMap,
     due |-> {}, visited |-> {}, key |-> NoValue, extras |-> <<>>,
     kv |-> <<>>, view |-> 0,        \* own items, or the length of a view of backing
     sent |-> <<>>,                  \* the extras of the event sent to Sentry
     root |-> <<>>,                  \* the root logger to be stored
     \* History: callbacks owed, overrides to go by, and whether another call
     \* has appended to the shared slice over what this one had appended.
     owed |-> {}, askable |-> {}, overwritten |-> FALSE]

Init ==
    /\ alive = "running"
    /\ override = [l \in Loggers \cup {Fresh} |-> FALSE]
    /\ overrideSet = [l \in Loggers \cup {Fresh} |-> FALSE]
    /\ current = 0
    /\ callbacks = [m \in Maps |-> [k \in Keys |-> "absent"]]
    /\ \E o \in Outputs : root = [level |-> DefaultLevel, out |-> o]
    /\ globalLevel = DefaultLevel
    /\ backing = SharedArgs \o [i \in 1..Room |-> <<"value", NoValue>>]
    /\ pc = [g \in Goroutines |-> "idle"]
    /\ frame = [g \in Goroutines |-> EmptyFrame]

At(g, l) == alive = "running" /\ pc[g] = l

\* Goroutine g goes to l with the locals f.
Go(g, l, f) ==
    /\ pc' = [pc EXCEPT ![g] = l]
    /\ frame' = [frame EXCEPT ![g] = f]

-----------------------------------------------------------------------------
(* Registration.  An assignment to a Go map takes time; while it lasts the *)
(* runtime may notice another goroutine in the same map and end the        *)
(* process, or may not.                                                    *)

Registered(m) == {k \in Keys : callbacks[m][k] # "absent"}

Register(g) ==
    /\ At(g, "idle") /\ g \in Registrars
    /\ \E k \in Keys : Go(g, "assign", [EmptyFrame EXCEPT !.map = current, !.key = k])
    /\ UNCHANGED <<alive, shared>>

\* Frames of log calls that are owed nothing any more under the keys ks.
Disown(ks) == [h \in Goroutines |-> [frame[h] EXCEPT !.owed = @ \ ks]]

\* A callback is a function or nil.
Assign(g) ==
    LET f == frame[g] IN
    /\ At(g, "assign")
    /\ \E c \in {"function", "nil"} :
          /\ callbacks' = [callbacks EXCEPT ![f.map][f.key] = c]
          /\ frame' = [Disown(IF c = "nil" THEN {f.key} ELSE {}) EXCEPT ![g] = EmptyFrame]
    /\ pc' = [pc EXCEPT ![g] = "idle"]
    /\ UNCHANGED <<alive, override, overrideSet, current, root, globalLevel, backing>>

\* ClearExtraDataCallbacks installs a new map; ranges go on over the old one,
\* and what nobody holds any more is collected.
Clear(g) ==
    LET m == CHOOSE x \in Maps : x \notin {frame[h].map : h \in Goroutines}
    IN  /\ At(g, "idle") /\ g \in Registrars
        /\ current' = m
        /\ callbacks' = [x \in Maps |-> IF \E h \in Goroutines : x = frame[h].map
                                        THEN callbacks[x] ELSE [k \in Keys |-> "absent"]]
        /\ frame' = Disown(Keys)
        /\ UNCHANGED <<alive, override, overrideSet, root, globalLevel, backing, pc>>

BlowUp ==
    /\ \E g, h \in Goroutines :
          /\ g # h /\ At(g, "assign") /\ (At(h, "assign") \/ At(h, "range"))
          /\ frame[g].map = frame[h].map
    /\ alive' = "crashed"
    /\ UNCHANGED <<shared, pc, frame>>

-----------------------------------------------------------------------------
(* Settings.                                                               *)

\* Mutant: the level of zerolog itself is left alone.
SetLogLevelOfRoot(g) ==
    /\ At(g, "idle") /\ g \in Configurers
    /\ \E l \in SetLevels :
          Go(g, "storeRoot", [EmptyFrame EXCEPT !.root = [root EXCEPT !.level = l]])
    /\ UNCHANGED <<alive, shared>>

\* SetLogLevel sets zerolog's level, and replaces the root logger by a copy.
SetLogLevel(g) ==
    /\ At(g, "idle") /\ g \in Configurers
    /\ \E l \in SetLevels :
          /\ globalLevel' = l
          /\ Go(g, "storeRoot", [EmptyFrame EXCEPT !.root = [root EXCEPT !.level = l]])
    /\ UNCHANGED <<alive, override, overrideSet, current, callbacks, root, backing>>

SetOutput(g) ==
    /\ At(g, "idle") /\ g \in Configurers
    /\ \E o \in Outputs :
          Go(g, "storeRoot", [EmptyFrame EXCEPT !.root = [root EXCEPT !.out = o]])
    /\ UNCHANGED <<alive, shared>>

StoreRoot(g) ==
    /\ At(g, "storeRoot")
    /\ root' = frame[g].root
    /\ Go(g, "idle", EmptyFrame)
    /\ UNCHANGED <<alive, override, overrideSet, current, callbacks, globalLevel, backing>>

logLevelEnabled(l) == root.level \notin {6, 7} /\ root.level <= l

\* zerolog writes an event that neither level rules out.
Written(l) == root.level <= l /\ globalLevel <= l

-----------------------------------------------------------------------------
(* The capture override of a logger: two atomics, stored one by one.       *)

\* The logger of the call that g makes.
Through(g) == IF frame[g].api = "sdk" THEN Fresh ELSE LoggerOf[g]

Named(b) == IF b THEN "on" ELSE "off"

\* The flag of l is still to be stored.
Pending(l) == \E g \in Goroutines : pc[g] = "storeSet" /\ LoggerOf[g] = l

\* The overrides in force for l, of which there are two while the first one
\* is being stored.
InForce(l) ==
    (IF overrideSet[l] THEN {} ELSE {"default"})
        \cup (IF overrideSet[l] \/ Pending(l) THEN {Named(override[l])} ELSE {})

CaptureSentryEvent(g) ==
    /\ At(g, "idle") /\ g \in Callers
    /\ \E b \in Overrides :
          /\ override' = [override EXCEPT ![LoggerOf[g]] = b]
          /\ pc' = [pc EXCEPT ![g] = "storeSet"]
          /\ frame' = [h \in Goroutines |->
                IF pc[h] \in {"override", "set"} /\ Through(h) = LoggerOf[g]
                THEN [frame[h] EXCEPT !.askable = @ \cup {Named(b)}] ELSE frame[h]]
    /\ UNCHANGED <<alive, overrideSet, current, callbacks, root, globalLevel, backing>>

StoreSet(g) ==
    /\ At(g, "storeSet")
    /\ overrideSet' = [overrideSet EXCEPT ![LoggerOf[g]] = TRUE]
    /\ Go(g, "idle", EmptyFrame)
    /\ UNCHANGED <<alive, override, current, callbacks, root, globalLevel, backing>>

-----------------------------------------------------------------------------
(* Key/value slices.                                                       *)

Items(f) == IF f.view > 0 THEN SubSeq(backing, 1, f.view) ELSE f.kv

\* The frames of calls whose view of the shared slice goes on after position p,
\* where items are stored.
Overwrite(p, items) ==
    [h \in Goroutines |->
        IF items # <<>> /\ frame[h].view > p
        THEN [frame[h] EXCEPT !.overwritten = TRUE] ELSE frame[h]]

\* append: in place when the slice has room behind it, whoever else uses that
\* room, and into a new slice otherwise.
AppendItems(g, l, f, items) ==
    LET end == f.view + Len(items) IN
    IF f.view > 0 /\ end <= Len(backing)
    THEN /\ backing' = [i \in DOMAIN backing |->
               IF i \in f.view + 1..end THEN items[i - f.view] ELSE backing[i]]
         /\ pc' = [pc EXCEPT ![g] = l]
         /\ frame' = [Overwrite(f.view, items) EXCEPT ![g] = [f EXCEPT !.view = end]]
    ELSE /\ Go(g, l, [f EXCEPT !.view = 0, !.kv = Items(f) \o items])
         /\ UNCHANGED backing

KeyAt(s, i) ==
    CASE s[i][1] # "string" -> <<NotAString, i - 1>>
      [] s[i] = <<"string", EmptyText>> -> <<MissingKey, i - 1>>
      [] OTHER -> <<s[i][2], 0>>

\* Keys and values alternate; of equal keys the last counts, and a key
\* without a value is marked.
contextToLegacyExtra(s) ==
    LET positions == {i \in DOMAIN s : i % 2 = 1}
        last(k) == CHOOSE i \in positions :
                      KeyAt(s, i) = k /\ \A j \in positions : KeyAt(s, j) = k => j <= i
        value(i) == IF i = Len(s) THEN Missing ELSE s[i + 1][2]
    IN  [k \in {KeyAt(s, i) : i \in positions} |-> value(last(k))]

-----------------------------------------------------------------------------
(* A log call.                                                             *)

\* The pairs of a contextual call are its own or the shared slice; the other
\* ways in have none.
Log(g) ==
    /\ At(g, "idle") /\ g \in Callers
    /\ \E api \in Apis, level \in LogLevels,
          args \in ArgLists \cup {<<>>}, view \in {0, Len(SharedArgs)} :
          /\ IF api = "contextual" /\ view = 0 THEN args \in ArgLists ELSE args = <<>>
          /\ api # "contextual" => view = 0
          /\ Go(g, "override",
                [EmptyFrame EXCEPT !.api = api, !.level = level, !.kv = args, !.view = view,
                 !.owed = {k \in Keys : callbacks[current][k] = "function"},
                 !.askable = InForce(IF api = "sdk" THEN Fresh ELSE LoggerOf[g])])
    /\ UNCHANGED <<alive, shared>>

\* getCaptureSentryEvent loads the override first.
LoadOverride(g) ==
    /\ At(g, "override")
    /\ Go(g, "set", [frame[g] EXCEPT !.loaded = override[Through(g)]])
    /\ UNCHANGED <<alive, shared>>

\* Mutant: an override can add levels to capture and take none away.
LoadSetOr(g) ==
    LET f == frame[g] IN
    /\ At(g, "set")
    /\ Go(g, "extras", [f EXCEPT !.capture =
             f.level >= ErrorLevel \/ (overrideSet[Through(g)] /\ f.loaded)])
    /\ UNCHANGED <<alive, shared>>

LoadSet(g) ==
    LET f == frame[g] IN
    /\ At(g, "set")
    /\ Go(g, "extras", [f EXCEPT !.loaded = FALSE, !.capture =
             IF overrideSet[Through(g)] THEN f.loaded ELSE f.level >= ErrorLevel])
    /\ UNCHANGED <<alive, shared>>

\* extrasFromContext ranges over the map that is current: in any order, over
\* what was in it and perhaps over what is added meanwhile.  Locals that are
\* not used any more are forgotten.
BeginRange(g) ==
    /\ At(g, "extras")
    /\ Go(g, "range", [frame[g] EXCEPT !.map = current, !.due = Registered(current),
                                      !.api = "none", !.askable = {},
                                      !.level = IF @ = FatalLevel THEN @ ELSE 0])
    /\ UNCHANGED <<alive, shared>>

VisitCallback(g) ==
    LET f == frame[g] IN
    /\ At(g, "range")
    /\ \E k \in Registered(f.map) \ f.visited :
          Go(g, "range", [f EXCEPT !.visited = @ \cup {k},
             !.extras = IF callbacks[f.map][k] = "nil" THEN @
                        ELSE @ \o <<<<"string", k>>, <<"value", g>>>>])
    /\ UNCHANGED <<alive, shared>>

\* Mutant: the pairs of the call come after the extras.
AppendExtrasFirst(g) ==
    LET f == frame[g] IN
    /\ At(g, "range") /\ f.due \subseteq f.visited
    /\ Go(g, "capture", [f EXCEPT !.kv = f.extras \o Items(f), !.view = 0,
                                  !.extras = <<>>, !.map = NoMap, !.due = {}, !.visited = {}])
    /\ UNCHANGED <<alive, shared>>

AppendExtras(g) ==
    LET f == frame[g] IN
    /\ At(g, "range") /\ f.due \subseteq f.visited
    /\ AppendItems(g, "capture",
                   [f EXCEPT !.extras = <<>>, !.map = NoMap, !.due = {}, !.visited = {}], f.extras)
    /\ UNCHANGED <<alive, override, overrideSet, current, callbacks, root, globalLevel>>

\* Mutant: the event leaves without extras.
SendToSentryBare(g) ==
    LET f == frame[g]
        id == <<<<"string", SentryEventID>>, <<"value", EventID>>>>
    IN  /\ At(g, "capture") /\ f.capture
        /\ AppendItems(g, "emit", f, <<>>) \/ AppendItems(g, "emit", f, id)
        /\ UNCHANGED <<alive, override, overrideSet, current, callbacks, root, globalLevel>>

\* tryCaptureSentryEvent: the hub may drop the event, and then gives no id.
SendToSentry(g) ==
    LET f == frame[g]
        sent == [f EXCEPT !.sent = contextToLegacyExtra(Items(f))]
        id == <<<<"string", SentryEventID>>, <<"value", EventID>>>>
    IN  /\ At(g, "capture") /\ f.capture
        /\ AppendItems(g, "emit", sent, <<>>) \/ AppendItems(g, "emit", sent, id)
        /\ UNCHANGED <<alive, override, overrideSet, current, callbacks, root, globalLevel>>

SendNothing(g) ==
    /\ At(g, "capture") /\ ~frame[g].capture
    /\ Go(g, "emit", frame[g])
    /\ UNCHANGED <<alive, shared>>

\* The extras that createLogEvent gives the record.
createLogEvent(g) == contextToLegacyExtra(Items(frame[g]))

\* The record is created and written; a fatal call ends the process, whether
\* anything was written or not.
Emit(g) ==
    /\ At(g, "emit")
    /\ alive' = IF frame[g].level = FatalLevel THEN "exited" ELSE alive
    /\ Go(g, "idle", EmptyFrame)
    /\ UNCHANGED shared

-----------------------------------------------------------------------------
RegistryStep(g) == Register(g) \/ Assign(g) \/ Clear(g)

SettingsStep(g) == SetLogLevel(g) \/ SetOutput(g) \/ StoreRoot(g)

OverrideStep(g) == CaptureSentryEvent(g) \/ StoreSet(g)

LogStep(g) ==
    \/ Log(g) \/ LoadOverride(g) \/ LoadSet(g) \/ BeginRange(g) \/ VisitCallback(g)
    \/ AppendExtras(g) \/ SendToSentry(g) \/ SendNothing(g) \/ Emit(g)

Next ==
    \/ \E g \in Goroutines : RegistryStep(g) \/ SettingsStep(g) \/ OverrideStep(g) \/ LogStep(g)
    \/ BlowUp

Spec == Init /\ [][Next]_vars

-----------------------------------------------------------------------------
(* Properties.                                                             *)

\* "The values returned by those functions will be added to the log as Extra
\* fields under the provided key": what is about to be written has, under the
\* key of each callback registered all through the call, the value of the
\* caller's own context, whatever the caller's own keys are and whoever else
\* logs with the same slice, unless that one has appended over its extras.
ExtrasComplete ==
    \A g \in Goroutines : pc[g] = "emit" /\ ~frame[g].overwritten =>
        LET extra == createLogEvent(g)
        IN  \A k \in frame[g].owed : <<k, 0>> \in DOMAIN extra /\ extra[<<k, 0>>] = g

\* "make sure we have all the extras from the context before trying to
\* capture the sentry event": Sentry has got the extras of the log record,
\* which names the event besides.
SentryMatchesLog ==
    \A g \in Goroutines : pc[g] = "emit" /\ frame[g].capture /\ ~frame[g].overwritten =>
        LET extra == createLogEvent(g)
        IN  frame[g].sent = [k \in DOMAIN extra \ {<<SentryEventID, 0>>} |-> extra[k]]

\* By default errors and fatal errors are captured; "if caller explicitly
\* overrides the captureSentryEvent, use that instead".
Resolve(o, level) == o = "on" \/ (o = "default" /\ level >= ErrorLevel)

\* Whoever shares the logger, the decision is that of an override, or the
\* default, in force at some time of the call.  The two atomics allow one
\* exception: beside the first override of its logger a call may find the flag
\* of that override and the value from before it, and is not captured then.
CaptureAsAsked ==
    \A g \in Goroutines : pc[g] = "extras" =>
        LET f == frame[g]
        IN  \/ \E o \in f.askable : f.capture = Resolve(o, f.level)
            \/ "default" \in f.askable /\ f.askable # {"default"} /\ ~f.capture

\* When no setting is under way, what the functions XxxEnabled say of a level
\* is what happens to a record of that level.
EnabledTellsTruth ==
    (\A g \in Goroutines : pc[g] # "storeRoot") =>
        \A l \in LogLevels : logLevelEnabled(l) <=> Written(l)

=============================================================================
