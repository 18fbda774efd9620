----------------------- MODULE GrafanaDashboardProofs -----------------------
(***************************************************************************)
(* Proofs about GrafanaDashboard, for configurations of any length with    *)
(* any items.                                                              *)
(*                                                                         *)
(* The counters never fall, and all that was given out lies below them:    *)
(* the ids of the panels below fldId; the ids of the rows below panelId,   *)
(* except that of a last row that is not a custom one, which is panelId.   *)
(***************************************************************************)
EXTENDS GrafanaDashboard, SequenceTheorems, WellFoundedInduction, NaturalsInduction, TLAPS

CountersOK ==
    /\ rowNum \in Int /\ panelId \in Int /\ fldId \in Int
    /\ rowNum = panelId - 1
    /\ \E S : rows \in Seq(S)

RowTyped(i) ==
    /\ rows[i].first \in Int /\ rows[i].size \in Nat
    /\ rows[i].id \in Int /\ rows[i].y = rows[i].id - 1

BelowCounters(i) ==
    /\ rows[i].first + rows[i].size <= fldId
    /\ rows[i].id <= panelId
    /\ i < Len(rows) \/ rows[i].kind = "custom" => rows[i].id < panelId

RowsBelowCounters == \A i \in DOMAIN rows : RowTyped(i) /\ BelowCounters(i)

PanelsInOrder ==
    \A i, j \in DOMAIN rows : i < j => rows[i].first + rows[i].size <= rows[j].first

IInv == CountersOK /\ RowsBelowCounters /\ PanelsInOrder /\ RowsCollideAtCustomOnly

-----------------------------------------------------------------------------
\* A row that starts at the counters, of either kind, keeps the invariant.
LEMMA RowAppended ==
    ASSUME IInv, NEW row, Advance, AppendRow(row),
           row.first = fldId, row.size \in Nat, row.y = row.id - 1,
           \/ row.id = panelId + 1 /\ row.kind # "custom"
           \/ row.id = panelId /\ row.kind = "custom"
    PROVE  IInv'
<1> DEFINE n == Len(rows)
<1>1. PICK S : rows \in Seq(S)
  BY DEF IInv, CountersOK
<1>2. rows \in Seq(S \cup {row})
  BY <1>1
<1>3. /\ rows' \in Seq(S \cup {row}) /\ n \in Nat
      /\ DOMAIN rows = 1..n /\ DOMAIN rows' = 1..(n + 1) /\ Len(rows') = n + 1
      /\ \A i \in 1..n : rows'[i] = rows[i]
      /\ rows'[n + 1] = row
  BY <1>2 DEF AppendRow
<1>4. /\ fldId' = fldId + row.size /\ panelId' = panelId + 1 /\ rowNum' = rowNum + 1
      /\ fldId \in Int /\ panelId \in Int /\ rowNum \in Int /\ rowNum = panelId - 1
  BY DEF AppendRow, Advance, IInv, CountersOK
<1>5. CountersOK'
  BY <1>3, <1>4 DEF CountersOK
<1>6. \A i \in 1..n : RowTyped(i) /\ BelowCounters(i)
  BY <1>3 DEF IInv, RowsBelowCounters
<1>7. RowsBelowCounters'
  <2> SUFFICES ASSUME NEW i \in 1..(n + 1) PROVE (RowTyped(i) /\ BelowCounters(i))'
    BY <1>3 DEF RowsBelowCounters
  <2>1. CASE i \in 1..n
    <3>1. rows'[i] = rows[i] /\ RowTyped(i) /\ BelowCounters(i)
      BY <1>3, <1>6, <2>1
    <3>2. RowTyped(i)'
      BY <3>1 DEF RowTyped
    <3>3. rows[i].first + rows[i].size <= fldId + row.size /\ rows[i].id < panelId + 1
      <4> DEFINE f == rows[i].first  z == rows[i].size  d == rows[i].id
      <4>1. f \in Int /\ z \in Nat /\ d \in Int /\ f + z <= fldId /\ d <= panelId
        BY <3>1 DEF RowTyped, BelowCounters
      <4>2. row.size \in Nat
        OBVIOUS
      <4> HIDE DEF f, z, d
      <4>3. f + z <= fldId + row.size /\ d < panelId + 1
        BY <1>4, <4>1, <4>2
      <4> QED BY <4>3 DEF f, z, d
    <3>4. BelowCounters(i)'
      BY <1>4, <3>1, <3>3 DEF RowTyped, BelowCounters
    <3> QED BY <3>2, <3>4
  <2>2. CASE i = n + 1
    BY <1>3, <1>4, <2>2, SMTT(30) DEF RowTyped, BelowCounters
  <2> QED BY <1>3, <2>1, <2>2
<1>8. PanelsInOrder'
  <2> SUFFICES ASSUME NEW i \in 1..(n + 1), NEW j \in 1..(n + 1), i < j
               PROVE (rows[i].first + rows[i].size <= rows[j].first)'
    BY <1>3 DEF PanelsInOrder
  <2>1. CASE j \in 1..n
    BY <1>3, <2>1 DEF IInv, PanelsInOrder
  <2>2. CASE j = n + 1
    BY <1>3, <1>4, <1>6, <2>2 DEF BelowCounters
  <2> QED BY <1>3, <2>1, <2>2
<1>9. RowsCollideAtCustomOnly'
  <2> SUFFICES ASSUME NEW i \in 1..(n + 1), NEW j \in 1..(n + 1), i < j,
                      (rows[i].id >= rows[j].id \/ rows[i].y >= rows[j].y)'
               PROVE (/\ j = i + 1 /\ rows[j].kind = "custom" /\ rows[i].kind # "custom"
                      /\ rows[i].id = rows[j].id)'
    BY <1>3 DEF RowsCollideAtCustomOnly
  <2>1. CASE j \in 1..n
    BY <1>3, <2>1 DEF IInv, RowsCollideAtCustomOnly
  <2>2. CASE j = n + 1
    BY <1>3, <1>4, <1>6, <2>2, SMTT(30) DEF RowTyped, BelowCounters
  <2> QED BY <1>3, <2>1, <2>2
<1> QED BY <1>5, <1>7, <1>8, <1>9 DEF IInv

LEMMA Initially == Init => IInv
<1> SUFFICES ASSUME Init PROVE IInv
  OBVIOUS
<1>1. rows = <<>> /\ rows \in Seq({}) /\ DOMAIN rows = {}
  BY DEF Init
<1>2. CountersOK
  BY <1>1 DEF Init, CountersOK
<1> QED BY <1>1, <1>2 DEF IInv, RowsBelowCounters, PanelsInOrder, RowsCollideAtCustomOnly

LEMMA Inductive == IInv /\ [Next]_vars => IInv'
<1> SUFFICES ASSUME IInv, [Next]_vars PROVE IInv'
  OBVIOUS
<1> USE DEF counters
<1>0. fldId \in Int /\ panelId \in Int /\ rowNum = panelId - 1
  BY DEF IInv, CountersOK
<1>1. ASSUME UNCHANGED <<counters, rows>> PROVE IInv'
  BY <1>1 DEF IInv, CountersOK, RowsBelowCounters, RowTyped, BelowCounters,
              PanelsInOrder, RowsCollideAtCustomOnly
<1>2. ASSUME NEW kind, NEW path, NEW queries, kind # "custom",
             Advance, AppendRow(Row(kind, path, 5, queries))
      PROVE  IInv'
  <2> DEFINE row == Row(kind, path, 5, queries)
  <2>1. /\ row.first = fldId /\ row.size = 5 /\ row.kind = kind
        /\ row.id = panelId + 1 /\ row.y = rowNum + 1
    BY <1>2 DEF Row, Advance
  <2> HIDE DEF row
  <2> QED BY <1>0, <1>2, <2>1, RowAppended DEF row
<1>3. ASSUME NEW it \in Items, FiveItems(it) PROVE IInv'
  BY <1>2, <1>3 DEF FiveItems, createRegular
<1>4. ASSUME NEW it \in Items, Routes(it) PROVE IInv'
  BY <1>2, <1>4 DEF Routes, createRoutes
<1>5. ASSUME PathRow PROVE IInv'
  BY <1>2, <1>5 DEF PathRow, createRegular
<1>6. ASSUME NEW it \in Items, Custom(it) PROVE IInv'
  <2> DEFINE queries == updateGrafanaService(it.panels)
             row == [Row("custom", "", Len(it.panels), queries)
                        EXCEPT !.y = rowNum, !.id = panelId]
  <2>1. Len(it.panels) \in Nat
    BY ConstantsAssumption
  <2>2. Advance /\ AppendRow(row)
    BY <1>6 DEF Custom, createCustom
  <2>3. /\ row.first = fldId /\ row.size = Len(it.panels) /\ row.kind = "custom"
        /\ row.id = panelId /\ row.y = rowNum
    BY DEF Row
  <2> HIDE DEF row
  <2> QED BY <1>0, <2>1, <2>2, <2>3, RowAppended
<1>7. ASSUME NEW it \in Items, ItemStep(it) PROVE IInv'
  BY <1>1, <1>3, <1>4, <1>6, <1>7
     DEF ItemStep, Panic, Unknown, OpenDocument, BadDocument
<1>8. CASE Next
  BY <1>1, <1>5, <1>7, <1>8 DEF Next, LoadConfig, PathPanic, EndOfPaths, printGrafana
<1>9. CASE UNCHANGED vars
  BY <1>1, <1>9 DEF vars
<1> QED BY <1>8, <1>9

\* What was given out stays below the counters.
THEOREM Invariance == Spec => []IInv
BY Initially, Inductive, PTL DEF Spec

\* No two panels of a dashboard have the same id, whatever the configuration.
THEOREM PanelIdsNeverShared == Spec => []PanelIdsUnique
<1>1. IInv => PanelIdsUnique
  <2> SUFFICES ASSUME IInv, NEW i \in DOMAIN rows, NEW j \in DOMAIN rows, i < j
               PROVE PanelIds(rows[i]) \cap PanelIds(rows[j]) = {}
    BY DEF PanelIdsUnique
  <2>1. rows[i].first + rows[i].size <= rows[j].first
    BY DEF IInv, PanelsInOrder
  <2>2. RowTyped(i) /\ RowTyped(j)
    BY DEF IInv, RowsBelowCounters
  <2> QED BY <2>1, <2>2 DEF PanelIds, RowTyped
<1> QED BY <1>1, Invariance, PTL

\* Rows share a place or an id only where a custom row follows another kind.
THEOREM RowsCollideNowhereElse == Spec => []RowsCollideAtCustomOnly
<1>1. IInv => RowsCollideAtCustomOnly
  BY DEF IInv
<1> QED BY <1>1, Invariance, PTL

-----------------------------------------------------------------------------
(* The queries.                                                            *)

\* The paths a query may be about, and what the program itself puts into one.
PathWords == {Normalized[p] : p \in Paths} \cup {"$route"}

FixedWords ==
    {"not 5xx", "any", "not 2xx", "5xx", "4xx", "not 5xx, 1s", "account", "", "spoiled"}

\* No path and no service looks like such a word.
WordsApart ==
    /\ PathWords \cap (FixedWords \cup Placeholders) = {}
    /\ Service \notin PathWords \cup FixedWords \cup Placeholders

\* The text of an exception has the placeholders of a query, the service as
\* one or as itself, and no path of its own.
Templated(ex) ==
    LET words == Words(ex.text) IN
    /\ "%path" \in words /\ "SA" \in words
    /\ "grafana.service" \in words \/ Service \in words
    /\ words \cap (PathWords \cup {"account"}) = {}
    /\ ex.method \notin PathWords \cup Placeholders \cup {"account"}

ExceptionsTemplated ==
    \A it \in Items :
        it.type \in {"routes", "openapi"} /\ it.exception.given /\ it.exception.hasText =>
            Templated(it.exception)

Own(path, skip, q) ==
    /\ {path, Service} \subseteq Words(q)
    /\ Words(q) \cap ((PathWords \ {path}) \cup Placeholders) = {}
    /\ "account" \in Words(q) <=> ~skip

LEMMA ReplacedWords ==
    ASSUME NEW q, NEW old, NEW new
    PROVE  /\ \A w \in Words(q) : w # old => w \in Words(Replaced(q, old, new))
           /\ old \in Words(q) => new \in Words(Replaced(q, old, new))
           /\ \A w \in Words(Replaced(q, old, new)) : w = new \/ (w \in Words(q) /\ w # old)
<1>1. PICK r : r = Replaced(q, old, new)
  OBVIOUS
<1>2. DOMAIN r = DOMAIN q /\ \A i \in DOMAIN q : r[i] = IF q[i] = old THEN new ELSE q[i]
  BY <1>1 DEF Replaced
<1> QED BY <1>1, <1>2 DEF Words

\* A query before its filter: about the service and the path, and with
\* nothing in it that the filter must leave alone.
Unfiltered(path, q) ==
    /\ {path, Service, "SA"} \subseteq Words(q)
    /\ Words(q) \cap ((PathWords \ {path}) \cup (Placeholders \ {"SA"}) \cup {"account"}) = {}

LEMMA FilterMakesOwn ==
    ASSUME WordsApart, NEW path \in PathWords, {path, Service} \cap HasSA = {},
           NEW skip \in BOOLEAN, NEW q, Unfiltered(path, q)
    PROVE  Own(path, skip, Filtered(q, skip))
<1> DEFINE F(w) == CASE w = "SA" -> IF skip THEN "" ELSE "account"
                     [] w \in HasSA \ {"SA"} -> "spoiled"
                     [] OTHER -> w
<1>1. PICK r : r = Filtered(q, skip)
  OBVIOUS
<1>2. DOMAIN r = DOMAIN q /\ \A i \in DOMAIN q : r[i] = F(q[i])
  BY <1>1 DEF Filtered
<1>3. F("SA") = (IF skip THEN "" ELSE "account") /\ F(path) = path /\ F(Service) = Service
  BY DEF WordsApart, Placeholders
<1>4. \A w : F(w) \in {"", "account", "spoiled"} \/ (F(w) = w /\ w # "SA")
  OBVIOUS
<1>5. \A w : w # "account" /\ F(w) = "account" => w = "SA" /\ ~skip
  OBVIOUS
<1> HIDE DEF F
<1>6. \A w \in Words(q) : F(w) \in Words(r)
  BY <1>2 DEF Words
<1>7. \A v \in Words(r) : \E w \in Words(q) : v = F(w)
  BY <1>2 DEF Words
<1>8. {path, Service} \subseteq Words(r)
  BY <1>3, <1>6 DEF Unfiltered
<1>9. Words(r) \cap ((PathWords \ {path}) \cup Placeholders) = {}
  <2> SUFFICES ASSUME NEW v \in Words(r) PROVE v \notin (PathWords \ {path}) \cup Placeholders
    OBVIOUS
  <2>1. PICK w \in Words(q) : v = F(w)
    BY <1>7
  <2>2. CASE v \in {"", "account", "spoiled"}
    BY <2>2 DEF WordsApart, FixedWords, Placeholders
  <2>3. CASE v = w /\ w # "SA"
    BY <2>3 DEF Unfiltered
  <2> QED BY <1>4, <2>1, <2>2, <2>3
<1>10. "account" \in Words(r) <=> ~skip
  <2>1. ASSUME "account" \in Words(r) PROVE ~skip
    <3>1. PICK w \in Words(q) : "account" = F(w)
      BY <1>7, <2>1
    <3> QED BY <1>5, <3>1 DEF Unfiltered
  <2>2. ASSUME ~skip PROVE "account" \in Words(r)
    <3>1. F("SA") = "account"
      BY <1>3, <2>2
    <3> QED BY <1>6, <3>1 DEF Unfiltered
  <2> QED BY <2>1, <2>2
<1> QED BY <1>1, <1>8, <1>9, <1>10 DEF Own

LEMMA SelectorWords ==
    ASSUME NEW path, NEW c, NEW d
    PROVE  /\ Words(<<Service, path, c, "SA">>) = {Service, path, c, "SA"}
           /\ Words(<<Service, path, c, "SA">> \o <<Service, path, d, "SA">>)
                = {Service, path, c, d, "SA"}
<1>1. PICK s, u : s = <<Service, path, c, "SA">> /\ u = <<Service, path, d, "SA">>
  OBVIOUS
<1>2. \A e : Range(<<Service, path, e, "SA">>) = {Service, path, e, "SA"}
  BY DEF Range
<1> DEFINE S == {Service, path, c, d, "SA"}
<1>3. s \in Seq(S) /\ u \in Seq(S)
  BY <1>1
<1>4. Range(s \o u) = Range(s) \cup Range(u)
  BY <1>3, RangeConcatenation
<1>5. \A q : Words(q) = Range(q)
  BY DEF Words, Range
<1> QED BY <1>1, <1>2, <1>4, <1>5

\* Every query of a row of the routes, or of a path, is about that path.
LEMMA QueriesAreOwn ==
    ASSUME WordsApart, NEW path \in PathWords, {path, Service} \cap HasSA = {},
           NEW skip \in BOOLEAN, NEW ex, Applies(ex, path) => Templated(ex)
    PROVE  \A n \in DOMAIN prepareExpressions(skip, path, ex) :
               Own(path, skip, prepareExpressions(skip, path, ex)[n])
<1> DEFINE selector(codes) == <<Service, path, codes, "SA">>
           queries ==
            [availability |-> selector("not 5xx") \o selector("any"),
             requests     |-> selector("any"),
             errors1      |-> selector("not 2xx") \o selector("any"),
             errors2      |-> selector("5xx") \o selector("any"),
             errors3      |-> IF Applies(ex, path) THEN Formatted(ex, path)
                                                   ELSE selector("4xx") \o selector("any"),
             duration     |-> selector("not 5xx") \o selector("not 5xx"),
             latency      |-> selector("not 5xx, 1s") \o selector("not 5xx")]
<1>1. \A c, d \in FixedWords \ {"account"} :
          Unfiltered(path, selector(c)) /\ Unfiltered(path, selector(c) \o selector(d))
  <2> SUFFICES ASSUME NEW c \in FixedWords \ {"account"}, NEW d \in FixedWords \ {"account"}
               PROVE  Unfiltered(path, selector(c)) /\ Unfiltered(path, selector(c) \o selector(d))
    OBVIOUS
  <2>1. ASSUME NEW W, W \subseteq {Service, path, c, d, "SA"}
        PROVE  W \cap ((PathWords \ {path}) \cup (Placeholders \ {"SA"}) \cup {"account"}) = {}
    <3>1. c \notin PathWords \cup Placeholders /\ d \notin PathWords \cup Placeholders
      <4>1. FixedWords \cap Placeholders = {}
        BY DEF FixedWords, Placeholders
      <4> QED BY <4>1 DEF WordsApart
    <3>2. Service \notin PathWords \cup Placeholders \cup {"account"}
      BY DEF WordsApart, FixedWords
    <3>3. path \notin Placeholders \cup {"account"}
      BY DEF WordsApart, FixedWords
    <3>4. "SA" \notin PathWords \cup {"account"}
      BY DEF WordsApart, Placeholders
    <3> QED BY <2>1, <3>1, <3>2, <3>3, <3>4
  <2> QED BY <2>1, SelectorWords DEF Unfiltered
<1>2. ASSUME Applies(ex, path) PROVE Unfiltered(path, Formatted(ex, path))
  <2>1. PICK q0, q1, q2, q3 :
            /\ q0 = ex.text /\ q1 = Replaced(q0, "grafana.service", Service)
            /\ q2 = Replaced(q1, "%path", path) /\ q3 = Replaced(q2, "%method", ex.method)
    OBVIOUS
  <2>2. Formatted(ex, path) = q3
    BY <2>1 DEF Formatted
  <2>3. PICK method : method = ex.method
    OBVIOUS
  <2>4. /\ "%path" \in Words(q0) /\ "SA" \in Words(q0)
        /\ "grafana.service" \in Words(q0) \/ Service \in Words(q0)
        /\ Words(q0) \cap (PathWords \cup {"account"}) = {}
        /\ method \notin PathWords \cup Placeholders \cup {"account"}
    BY <1>2, <2>1, <2>3 DEF Templated
  <2>5. /\ Service \notin Placeholders \cup {"account"} \cup PathWords
        /\ path \notin Placeholders \cup {"account"}
    BY DEF WordsApart, FixedWords
  <2> USE DEF Placeholders
  <2>6. {Service, "%path", "SA"} \subseteq Words(q1)
    BY <2>1, <2>4, <2>5, ReplacedWords
  <2>7. \A w \in Words(q1) : w = Service \/ (w \in Words(q0) /\ w # "grafana.service")
    BY <2>1, ReplacedWords
  <2>8. {Service, path, "SA"} \subseteq Words(q2)
    BY <2>1, <2>5, <2>6, ReplacedWords
  <2>9. \A w \in Words(q2) : w = path \/ (w \in Words(q1) /\ w # "%path")
    BY <2>1, ReplacedWords
  <2>10. {Service, path, "SA"} \subseteq Words(q3)
    BY <2>1, <2>5, <2>8, ReplacedWords
  <2>11. \A w \in Words(q3) : w = method \/ (w \in Words(q2) /\ w # "%method")
    BY <2>1, <2>3, ReplacedWords
  <2>12. \A w \in Words(q3) :
            w \in {Service, path, method}
              \/ (w \in Words(q0) /\ w \notin {"grafana.service", "%path", "%method"})
    BY <2>7, <2>9, <2>11
  <2>13. Words(q3) \cap ((PathWords \ {path}) \cup (Placeholders \ {"SA"}) \cup {"account"}) = {}
    BY <2>4, <2>5, <2>12
  <2> QED BY <2>2, <2>10, <2>13 DEF Unfiltered
<1>3. {"not 5xx", "any", "not 2xx", "5xx", "4xx", "not 5xx, 1s"} \subseteq FixedWords \ {"account"}
  BY DEF FixedWords
<1>4. Unfiltered(path, IF Applies(ex, path) THEN Formatted(ex, path)
                                            ELSE selector("4xx") \o selector("any"))
  BY <1>1, <1>2, <1>3
<1> HIDE DEF selector
<1>5. \A n \in DOMAIN queries : Unfiltered(path, queries[n])
  <2> DEFINE errors3 == IF Applies(ex, path) THEN Formatted(ex, path)
                                             ELSE selector("4xx") \o selector("any")
  <2> HIDE DEF errors3
  <2>1. /\ DOMAIN queries = {"availability", "requests", "errors1", "errors2", "errors3",
                             "duration", "latency"}
        /\ queries["availability"] = selector("not 5xx") \o selector("any")
        /\ queries["requests"] = selector("any")
        /\ queries["errors1"] = selector("not 2xx") \o selector("any")
        /\ queries["errors2"] = selector("5xx") \o selector("any")
        /\ queries["errors3"] = errors3
        /\ queries["duration"] = selector("not 5xx") \o selector("not 5xx")
        /\ queries["latency"] = selector("not 5xx, 1s") \o selector("not 5xx")
    BY DEF errors3
  <2>2. Unfiltered(path, errors3)
    BY <1>4 DEF errors3
  <2> HIDE DEF queries
  <2> QED BY <1>1, <1>3, <2>1, <2>2
<1>6. prepareExpressions(skip, path, ex) = [n \in DOMAIN queries |-> Filtered(queries[n], skip)]
  BY DEF prepareExpressions, selector
<1> HIDE DEF queries
<1> QED BY <1>5, <1>6, FilterMakesOwn

\* The first of the paths to come is one of them.
LEMMA LeastIs ==
    ASSUME NEW T \in SUBSET Nat, T # {}
    PROVE  Min(T) \in T
<1> DEFINE R == OpToRel(<, Nat)
<1>1. IsWellFoundedOn(R, Nat)
  BY NatLessThanWellFounded
<1>2. \A x, y \in Nat : <<x, y>> \in R <=> x < y
  BY DEF OpToRel
<1> HIDE DEF R
<1>3. PICK x \in T : \A y \in T : ~(<<y, x>> \in R)
  BY <1>1, WFMin
<1>4. \A y \in T : x <= y
  <2> SUFFICES ASSUME NEW y \in T PROVE x <= y
    OBVIOUS
  <2>1. x \in Nat /\ y \in Nat
    OBVIOUS
  <2>2. ~(y < x)
    BY <1>2, <1>3, <2>1
  <2> QED BY <2>1, <2>2
<1> QED BY <1>4 DEF Min

LEMMA FirstPathIs ==
    ASSUME paths \subseteq Paths, paths # {}
    PROVE  FirstPath \in paths
<1> DEFINE T == {i \in DOMAIN PathOrder : PathOrder[i] \in paths}
<1>1. T \subseteq Nat
  BY ConstantsAssumption
<1>2. T # {}
  BY DEF Paths
<1>3. Min(T) \in T
  BY <1>1, <1>2, LeastIs
<1> QED BY <1>3 DEF FirstPath

PathsInv ==
    /\ paths \subseteq Paths
    /\ pc = "paths" => item \in Items /\ item.type = "openapi"

RowPath(row) == IF row.kind = "routes" THEN "$route" ELSE Normalized[row.path]

OwnRow(row) ==
    row.kind \in {"routes", "openapi"} =>
        /\ RowPath(row) \in PathWords
        /\ {RowPath(row), Service} \cap HasSA = {} =>
              \A n \in DOMAIN row.queries :
                  Own(RowPath(row), SkipAccount /\ row.kind = "openapi", row.queries[n])

RowsOwn == \A i \in DOMAIN rows : OwnRow(rows[i])

OwnInv == PathsInv /\ RowsOwn

\* Rows are appended and never written to again.
LEMMA OwnRowAppended ==
    ASSUME IInv, RowsOwn, NEW row, rows' = Append(rows, row), OwnRow(row)
    PROVE  RowsOwn'
<1>1. PICK S : rows \in Seq(S)
  BY DEF IInv, CountersOK
<1>2. rows \in Seq(S \cup {row})
  BY <1>1
<1>3. /\ Len(rows) \in Nat /\ DOMAIN rows = 1..Len(rows) /\ DOMAIN rows' = 1..(Len(rows) + 1)
      /\ \A i \in 1..Len(rows) : rows'[i] = rows[i]
      /\ rows'[Len(rows) + 1] = row
  BY <1>2
<1> SUFFICES ASSUME NEW i \in DOMAIN rows' PROVE OwnRow(rows'[i])
  BY DEF RowsOwn
<1>4. CASE i \in 1..Len(rows)
  BY <1>3, <1>4 DEF RowsOwn
<1>5. CASE i = Len(rows) + 1
  BY <1>3, <1>5
<1> QED BY <1>3, <1>4, <1>5

LEMMA OwnSteps ==
    ASSUME WordsApart, ExceptionsTemplated, IInv, OwnInv, [Next]_vars
    PROVE  OwnInv'
<1> USE DEF OwnInv
<1>1. SkipAccount \in BOOLEAN /\ FALSE \in BOOLEAN
  BY ConstantsAssumption
<1>2. ASSUME UNCHANGED rows PROVE RowsOwn'
  BY <1>2 DEF RowsOwn
<1>3. ASSUME NEW it \in Items, FiveItems(it) PROVE OwnInv'
  <2>1. PICK row : row = Row("5items", "", 5, updateGrafanaService(it.texts))
    OBVIOUS
  <2>2. row.kind = "5items"
    BY <2>1 DEF Row
  <2>3. rows' = Append(rows, row)
    BY <1>3, <2>1 DEF FiveItems, createRegular, AppendRow
  <2>4. OwnRow(row)
    BY <2>2 DEF OwnRow
  <2> QED BY <1>3, <2>3, <2>4, OwnRowAppended DEF FiveItems, PathsInv
<1>4. ASSUME NEW it \in Items, Custom(it) PROVE OwnInv'
  <2>1. PICK row : row = [Row("custom", "", Len(it.panels), updateGrafanaService(it.panels))
                             EXCEPT !.y = rowNum, !.id = panelId]
    OBVIOUS
  <2>2. row.kind = "custom"
    BY <2>1 DEF Row
  <2>3. rows' = Append(rows, row)
    BY <1>4, <2>1 DEF Custom, createCustom, AppendRow
  <2>4. OwnRow(row)
    BY <2>2 DEF OwnRow
  <2> QED BY <1>4, <2>3, <2>4, OwnRowAppended DEF Custom, PathsInv
<1>5. ASSUME NEW it \in Items, Routes(it) PROVE OwnInv'
  <2>1. PICK q : q = prepareExpressions(FALSE, "$route", it.exception)
    OBVIOUS
  <2>2. PICK row : row = Row("routes", "$route", 5, q)
    OBVIOUS
  <2>3. row.kind = "routes" /\ row.queries = q /\ RowPath(row) = "$route"
    BY <2>2 DEF Row, RowPath
  <2>4. rows' = Append(rows, row)
    BY <1>5, <2>1, <2>2 DEF Routes, createRoutes, AppendRow
  <2>5. Applies(it.exception, "$route") => Templated(it.exception)
    BY <1>5 DEF Routes, NilException, ExceptionsTemplated
  <2>6. "$route" \in PathWords
    BY DEF PathWords
  <2>7. {"$route", Service} \cap HasSA = {} => \A n \in DOMAIN q : Own("$route", FALSE, q[n])
    BY <1>1, <2>1, <2>5, <2>6, QueriesAreOwn
  <2>8. (SkipAccount /\ row.kind = "openapi") = FALSE
    BY <2>3
  <2>9. OwnRow(row)
    BY <2>3, <2>6, <2>7, <2>8 DEF OwnRow
  <2> QED BY <1>5, <2>4, <2>9, OwnRowAppended DEF Routes, PathsInv
<1>6. CASE PathRow
  <2>1. PICK p, path, ex : p = FirstPath /\ path = Normalized[FirstPath] /\ ex = item.exception
    OBVIOUS
  <2>2. p \in Paths /\ path = Normalized[p] /\ path \in PathWords
    BY <1>6, <2>1, FirstPathIs DEF PathRow, PathsInv, PathWords
  <2>3. PICK q : q = prepareExpressions(SkipAccount, path, ex)
    OBVIOUS
  <2>4. PICK row : row = Row("openapi", p, 5, q)
    OBVIOUS
  <2>5. row.kind = "openapi" /\ row.queries = q /\ RowPath(row) = path
    BY <2>2, <2>4 DEF Row, RowPath
  <2>6. rows' = Append(rows, row) /\ ~NilException(ex, path)
    BY <1>6, <2>1, <2>3, <2>4 DEF PathRow, createRegular, AppendRow
  <2>7. item \in Items /\ item.type = "openapi"
    BY <1>6 DEF PathRow, PathsInv
  <2>8. Applies(ex, path) => Templated(ex)
    BY <2>1, <2>6, <2>7 DEF NilException, ExceptionsTemplated
  <2>9. {path, Service} \cap HasSA = {} => \A n \in DOMAIN q : Own(path, SkipAccount, q[n])
    BY <1>1, <2>2, <2>3, <2>8, QueriesAreOwn
  <2>10. OwnRow(row)
    BY <1>1, <2>2, <2>5, <2>9 DEF OwnRow
  <2> QED BY <1>6, <2>6, <2>10, OwnRowAppended DEF PathRow, PathsInv
<1>7. ASSUME NEW it \in Items, OpenDocument(it) PROVE OwnInv'
  BY <1>2, <1>7 DEF OpenDocument, Take, PathsInv
<1>8. ASSUME NEW it \in Items, Panic(it) \/ Unknown(it) \/ BadDocument(it) PROVE OwnInv'
  BY <1>2, <1>8 DEF Panic, Unknown, BadDocument, PathsInv
<1>9. CASE LoadConfig \/ PathPanic \/ EndOfPaths \/ printGrafana
  BY <1>2, <1>9 DEF LoadConfig, PathPanic, EndOfPaths, printGrafana, PathsInv
<1>10. CASE UNCHANGED vars
  BY <1>2, <1>10 DEF vars, PathsInv
<1> QED BY <1>3, <1>4, <1>5, <1>6, <1>7, <1>8, <1>9, <1>10 DEF Next, ItemStep

\* For any configuration whose exceptions are written with placeholders, of
\* any length and with any paths: no row has a query about the path of another
\* row or a placeholder that nobody fills in, and the account is filtered as
\* the configuration says.
THEOREM QueriesStayOwn ==
    ASSUME WordsApart, ExceptionsTemplated
    PROVE  Spec => []QueriesOfOwnPath
<1>1. Init => OwnInv
  BY DEF Init, OwnInv, PathsInv, RowsOwn
<1>2. IInv /\ OwnInv /\ [Next]_vars => OwnInv'
  BY OwnSteps
<1>3. OwnInv => QueriesOfOwnPath
  <2> SUFFICES ASSUME OwnInv, NEW i \in DOMAIN rows, rows[i].kind \in {"routes", "openapi"},
                      {RowPath(rows[i]), Service} \cap HasSA = {},
                      NEW n \in DOMAIN rows[i].queries
               PROVE  LET path == RowPath(rows[i])
                          words == Words(rows[i].queries[n])
                      IN  /\ {path, Service} \subseteq words
                          /\ words \cap
                               ((({Normalized[p] : p \in Paths} \cup {"$route"}) \ {path})
                                   \cup Placeholders) = {}
                          /\ "account" \in words <=> ~(SkipAccount /\ rows[i].kind = "openapi")
    BY DEF QueriesOfOwnPath, RowPath
  <2>1. Own(RowPath(rows[i]), SkipAccount /\ rows[i].kind = "openapi", rows[i].queries[n])
    BY DEF OwnInv, RowsOwn, OwnRow
  <2> QED BY <2>1 DEF Own, PathWords
<1> QED BY <1>1, <1>2, <1>3, Invariance, PTL DEF Spec

==============================================================================
