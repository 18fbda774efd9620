-------------------------- MODULE GrafanaDashboard --------------------------
(***************************************************************************)
(* pkg/grafana/generate_grafana.go, GenerateGrafana: reads a configuration *)
(* and builds a dashboard, one collapsed row of panels per "5items",       *)
(* "routes" or "custom" item and one per path of an "openapi" item, with   *)
(* three counters for the positions of the rows, their ids and the ids of  *)
(* the panels inside them.                                                 *)
(*                                                                         *)
(* A PromQL expression is the sequence of its words: the service, a path,  *)
(* a filter on status codes, a placeholder.  What panels look like is left *)
(* out: positions inside a row, legends, units and colours are constants   *)
(* of the program.                                                         *)
(***************************************************************************)
EXTENDS Integers, Sequences, FiniteSetsExt

CONSTANTS
    Service,      \* Config.Grafana.Service
    SkipAccount,  \* Config.Grafana.SkipServiceAccount
    PathOrder,    \* the paths documents may have, in the order of their bytes
    Normalized,   \* normalizePath: each path with its parameters as "-"
    HasSA,        \* the words in which the letters "SA" occur
    Items,        \* what Config.Panels may hold
    MaxItems      \* bound: items of a configuration

Paths == {PathOrder[i] : i \in DOMAIN PathOrder}

\* The words the generator fills in, and those it leaves in an expression.
Placeholders == {"grafana.service", "%path", "%method", "SA"}

ASSUME ConstantsAssumption ==
    /\ PathOrder \in Seq(STRING)
    /\ Normalized \in [Paths -> STRING]
    /\ SkipAccount \in BOOLEAN /\ MaxItems \in Nat
    /\ \A it \in Items : it.panels \in Seq(Seq(STRING))

VARIABLES
    pc,                     \* where GenerateGrafana is, or how it ended
    taken,                  \* items of the configuration so far
    item, paths,            \* the openapi item in work, its paths to come
    rowNum, panelId, fldId, \* the counters
    rows                    \* grafana.Panels

counters == <<rowNum, panelId, fldId>>
vars == <<pc, taken, item, paths, counters, rows>>

NoItem == [type |-> "none"]

Init ==
    /\ pc = "load" /\ taken = 0
    /\ item = NoItem /\ paths = {}
    /\ rowNum = -1 /\ panelId = 0 /\ fldId = 1
    /\ rows = <<>>

-----------------------------------------------------------------------------
(* Expressions.                                                            *)

\* strings.Replace of one word by another, in every place.
Replaced(q, old, new) == [i \in DOMAIN q |-> IF q[i] = old THEN new ELSE q[i]]

\* The last step of prepareExpressions replaces "SA" wherever it occurs, in
\* the service and in the path as well: such a word is spoiled.
Filtered(q, skip) ==
    [i \in DOMAIN q |->
        CASE q[i] = "SA" -> IF skip THEN "" ELSE "account"
          [] q[i] \in HasSA \ {"SA"} -> "spoiled"
          [] OTHER -> q[i]]

\* fmt.Sprintf of the exception's text, which names path and method.
Formatted(ex, path) ==
    Replaced(Replaced(Replaced(ex.text, "grafana.service", Service), "%path", path),
             "%method", ex.method)

Applies(ex, path) == path \in ex.contained

\* prepareExpressions; the exception is a copy of the configuration's.
prepareExpressions(skip, path, ex) ==
    LET selector(codes) == <<Service, path, codes, "SA">>
        queries ==
            [availability |-> selector("not 5xx") \o selector("any"),
             requests     |-> selector("any"),
             errors1      |-> selector("not 2xx") \o selector("any"),
             errors2      |-> selector("5xx") \o selector("any"),
             errors3      |-> IF Applies(ex, path) THEN Formatted(ex, path)
                                                   ELSE selector("4xx") \o selector("any"),
             duration     |-> selector("not 5xx") \o selector("not 5xx"),
             latency      |-> selector("not 5xx, 1s") \o selector("not 5xx")]
    IN  [n \in DOMAIN queries |-> Filtered(queries[n], skip)]

\* updateGrafanaService; the third error query is optional.
updateGrafanaService(texts) ==
    [n \in DOMAIN texts |-> Replaced(texts[n], "grafana.service", Service)]

\* *panelItem.Exception and, where it applies, *exception.Errors3.
NilException(ex, path) == ~ex.given \/ (Applies(ex, path) /\ ~ex.hasText)

-----------------------------------------------------------------------------
(* Rows.  A row has the ids first, first + 1, ... for the panels inside.   *)

Row(kind, path, size, queries) ==
    [kind |-> kind, path |-> path, y |-> rowNum', id |-> panelId',
     first |-> fldId, size |-> size, queries |-> queries]

AppendRow(row) == rows' = Append(rows, row) /\ fldId' = fldId + row.size

\* rowNum++ and panelId++, before a row of five panels is built.
Advance == rowNum' = rowNum + 1 /\ panelId' = panelId + 1

createRegular(kind, path, queries) == Advance /\ AppendRow(Row(kind, path, 5, queries))

\* Mutant: the row of the routes is built before the counters are advanced.
createRoutesLate(queries) ==
    /\ Advance
    /\ AppendRow([Row("routes", "$route", 5, queries) EXCEPT !.y = rowNum, !.id = panelId])

createRoutes(queries) == Advance /\ AppendRow(Row("routes", "$route", 5, queries))

\* Mutant: the panels of a custom row do not count.
createCustomUncounted(panels) ==
    /\ Advance
    /\ rows' = Append(rows, [Row("custom", "", Len(panels), updateGrafanaService(panels))
                                EXCEPT !.y = rowNum, !.id = panelId])
    /\ fldId' = fldId + 1

\* The counters are advanced after a custom row is built.
createCustom(panels) ==
    /\ Advance
    /\ AppendRow([Row("custom", "", Len(panels), updateGrafanaService(panels))
                   EXCEPT !.y = rowNum, !.id = panelId])

-----------------------------------------------------------------------------
\* loadConfig; a configuration without the parts every run reads is a nil
\* pointer.
LoadConfig ==
    /\ pc = "load"
    /\ pc' \in {"items", "exited", "panicked"}
    /\ UNCHANGED <<taken, item, paths, counters, rows>>

Take(it) ==
    /\ pc = "items" /\ taken < MaxItems
    /\ taken' = taken + 1

\* A field the item's case reads is missing: a nil pointer.
Panic(it) ==
    /\ Take(it)
    /\ \/ ~it.complete
       \/ it.type = "routes" /\ NilException(it.exception, "$route")
    /\ pc' = "panicked"
    /\ UNCHANGED <<item, paths, counters, rows>>

FiveItems(it) ==
    /\ Take(it) /\ it.complete /\ it.type = "5items"
    /\ createRegular("5items", "", updateGrafanaService(it.texts))
    /\ UNCHANGED <<pc, item, paths>>

\* The account filter is never skipped here.
Routes(it) ==
    /\ Take(it) /\ it.complete /\ it.type = "routes"
    /\ ~NilException(it.exception, "$route")
    /\ createRoutes(prepareExpressions(FALSE, "$route", it.exception))
    /\ UNCHANGED <<pc, item, paths>>

Custom(it) ==
    /\ Take(it) /\ it.complete /\ it.type = "custom"
    /\ createCustom(it.panels)
    /\ UNCHANGED <<pc, item, paths>>

\* A type the switch does not know is passed over.
Unknown(it) ==
    /\ Take(it) /\ it.complete /\ it.type = "unknown"
    /\ UNCHANGED <<pc, item, paths, counters, rows>>

OpenDocument(it) ==
    /\ Take(it) /\ it.complete /\ it.type = "openapi"
    /\ pc' = "paths" /\ item' = it
    /\ paths' = Paths \cap it.document
    /\ UNCHANGED <<counters, rows>>

\* The document cannot be read or is not valid: os.Exit(1).
BadDocument(it) ==
    /\ Take(it) /\ it.complete /\ it.type = "openapi"
    /\ pc' = "exited"
    /\ UNCHANGED <<item, paths, counters, rows>>

\* The paths of a document are the keys of a map; they are sorted and taken
\* in that order.
FirstPath == PathOrder[Min({i \in DOMAIN PathOrder : PathOrder[i] \in paths})]

\* Mutant: the exception's text is formatted in place, for the paths to come
\* as well.
PathRowInPlace ==
    LET path == Normalized[FirstPath] ex == item.exception IN
    /\ pc = "paths" /\ paths # {} /\ ~NilException(ex, path)
    /\ createRegular("openapi", FirstPath, prepareExpressions(SkipAccount, path, ex))
    /\ item' = [item EXCEPT !.exception.text = IF Applies(ex, path) THEN Formatted(ex, path)
                                                                    ELSE @]
    /\ paths' = paths \ {FirstPath}
    /\ UNCHANGED <<pc, taken>>

PathRow ==
    LET path == Normalized[FirstPath] IN
    /\ pc = "paths" /\ paths # {} /\ ~NilException(item.exception, path)
    /\ createRegular("openapi", FirstPath,
                     prepareExpressions(SkipAccount, path, item.exception))
    /\ paths' = paths \ {FirstPath}
    /\ UNCHANGED <<pc, taken, item>>

PathPanic ==
    /\ pc = "paths" /\ paths # {} /\ NilException(item.exception, Normalized[FirstPath])
    /\ pc' = "panicked"
    /\ UNCHANGED <<taken, item, paths, counters, rows>>

EndOfPaths ==
    /\ pc = "paths" /\ paths = {}
    /\ pc' = "items" /\ item' = NoItem
    /\ UNCHANGED <<taken, paths, counters, rows>>

\* printGrafana, which reads the metadata, again a nil pointer if there are
\* none; the error of os.Create is dropped, and then all is lost.
printGrafana ==
    /\ pc = "items"
    /\ pc' \in {"printed", "lost", "panicked"}
    /\ UNCHANGED <<taken, item, paths, counters, rows>>

-----------------------------------------------------------------------------
ItemStep(it) ==
    \/ Panic(it) \/ FiveItems(it) \/ Routes(it) \/ Custom(it) \/ Unknown(it)
    \/ OpenDocument(it) \/ BadDocument(it)

Next ==
    \/ LoadConfig \/ PathRow \/ PathPanic \/ EndOfPaths \/ printGrafana
    \/ \E it \in Items : ItemStep(it)

Spec == Init /\ [][Next]_vars

-----------------------------------------------------------------------------
(* Properties.                                                             *)

PanelIds(row) == row.first .. (row.first + row.size - 1)

\* Grafana tells the panels of a dashboard apart by their ids: no two panels
\* inside rows have the same one, however the kinds of items are mixed.
PanelIdsUnique ==
    \A i, j \in DOMAIN rows : i < j => PanelIds(rows[i]) \cap PanelIds(rows[j]) = {}

\* Rows come one below the other, each with an id of its own, except that a
\* custom row takes the place and the id of the row before it, unless that is
\* a custom row too.
RowsCollideAtCustomOnly ==
    \A i, j \in DOMAIN rows :
        i < j /\ (rows[i].id >= rows[j].id \/ rows[i].y >= rows[j].y) =>
            /\ j = i + 1 /\ rows[j].kind = "custom" /\ rows[i].kind # "custom"
            /\ rows[i].id = rows[j].id

Words(q) == {q[k] : k \in DOMAIN q}

\* The queries of a generated row are about its own path, whatever rows and
\* exceptions came before it; no placeholder is left in them; and they are
\* filtered by account unless the configuration says otherwise.  (Not where
\* the path or the service has the letters of the placeholder in it.)
QueriesOfOwnPath ==
    \A i \in DOMAIN rows :
        LET row  == rows[i]
            path == IF row.kind = "routes" THEN "$route" ELSE Normalized[row.path]
            others == ({Normalized[p] : p \in Paths} \cup {"$route"}) \ {path}
        IN  row.kind \in {"routes", "openapi"} /\ {path, Service} \cap HasSA = {} =>
                \A n \in DOMAIN row.queries :
                    LET words == Words(row.queries[n]) IN
                    /\ {path, Service} \subseteq words
                    /\ words \cap (others \cup Placeholders) = {}
                    /\ "account" \in words <=> ~(SkipAccount /\ row.kind = "openapi")

=============================================================================
