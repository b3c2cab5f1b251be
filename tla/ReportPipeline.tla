--------------------------- MODULE ReportPipeline ---------------------------
(***************************************************************************)
(* Building a report, dynamic-report/internal/pipeline: the data source    *)
(* (internal/datahub) hands over its rows in the order of the definition,  *)
(* the engine lays them out (ReportLayout), the style rules are applied to *)
(* every cell (StyleEngine), the conditional formats are spread over their *)
(* ranges (internal/schema), and the workbook is written (internal/render) *)
(* or a window of its rows is returned for the preview.                    *)
(*                                                                         *)
(* A step is a step of the layout or of the style engine, or one of the    *)
(* calls that build makes between them.  There is one metric column, the   *)
(* last one.  What varies from report to report is bounded by Scopes: each *)
(* scope is a record of the sets that a definition and its data are chosen *)
(* from, and says whether its reports are followed beyond the layout.      *)
(***************************************************************************)
EXTENDS ReportLayout, StyleEngine

CONSTANTS
    Scopes,       \* the families of reports
    Metric,       \* the field of the metric column
    DimFields,    \* the fields of the dimensions
    GroupLimit    \* cfGroupLimit (200 in the code)

ASSUME ReportPipelineAssumption ==
    /\ GroupLimit \in Nat \ {0}
    /\ Keys \subseteq Int
    /\ \A s \in Scopes :
         /\ s.ndims \subseteq Depths
         /\ s.aggs \subseteq Aggs
         /\ s.tops \subseteq BOOLEAN
         /\ s.values \subseteq Values
         /\ s.ords \subseteq Keys
         /\ s.gaps \in BOOLEAN
         /\ s.gaps => "db" \notin s.sources
         /\ s.sorts \subseteq Sorting
         /\ s.maxRows <= MaxRows
         /\ s.windows \subseteq Int \X Int
         /\ \A list \in s.docs \cup s.overrides \cup s.formats : IsList(list)
         /\ \A doc \in s.docs : \A i \in DOMAIN doc : IsRule(doc[i])
         /\ \A list \in s.overrides : \A i \in DOMAIN list :
              IsOverride(list[i]) /\ ValidOverride(list[i], DimFields)

VARIABLES
    plan,         \* the rest of the definition, and what is asked of it
    stage,        \* how far build has come
    pending,      \* the records of the source; sorted, the rows not yet fed
    current,      \* the number of the cell that is resolved, row by row
    heights,      \* the rows' heights, 0 where none is set
    formats,      \* RenderSchema.ConditionalFormats
    sheet,        \* the conditional formats of the workbook, by range
    window        \* the lines of the preview's window

pipelineVars == <<plan, stage, pending, current, heights, formats, sheet, window>>
vars == <<layoutVars, styleVars, pipelineVars>>

-----------------------------------------------------------------------------
(* In a scope with gaps a record may lack the columns of some sort keys. *)
SortKeys(s, ndim) ==
    UNION {[dims -> s.ords] : dims \in IF s.gaps THEN SUBSET (1..ndim) ELSE {1..ndim}}

Record(s, ndim) ==
    [keys : [1..ndim -> Keys], ords : SortKeys(s, ndim), value : s.values]

PlanOf(s, ndim) ==
    [sort : {[d \in 1..ndim |-> o] : o \in s.sorts}, source : s.sources,
     numeric : s.numerics, rowCap : s.rowCaps, doc : s.docs,
     overrides : s.overrides, formats : s.formats, windows : {s.windows},
     followed : {s.followed}]

Init ==
    /\ \E s \in Scopes :
         /\ def \in [ndim : s.ndims, agg : s.aggs, top : s.tops]
         /\ plan \in PlanOf(s, def.ndim)
         /\ \E n \in 0..s.maxRows : pending \in [1..n -> Record(s, def.ndim)]
    /\ LayoutInit
    /\ StyleInit
    /\ stage = "load"
    /\ current = 0
    /\ heights = <<>>
    /\ formats = <<>>
    /\ sheet = <<>>
    /\ window = <<>>
-----------------------------------------------------------------------------
(* The source *)

(* A number column of a CSV file holds numbers or cannot be read; the other  *)
(* columns are text.  Databases and slices hand over what they hold.         *)
Unreadable(v) == plan.source = "csv" /\ plan.numeric /\ v[1] = "text"

Parsed(v) ==
    IF plan.source # "csv" \/ v[1] # "digits" \/ ~plan.numeric THEN v
    ELSE <<"number", v[2]>>

(* DBSource numbers the rows of the table, the other sources number nothing. *)
RowNo(i) == IF plan.source = "db" THEN i ELSE 0

Orders ==
    IF plan.source = "db" THEN DBOrders(plan.sort, pending)
    ELSE FileOrders(plan.sort, pending)

OverCap == plan.rowCap > 0 /\ Len(pending) > plan.rowCap

Load ==
    /\ stage = "load"
    /\ \A i \in DOMAIN pending : ~Unreadable(pending[i].value)
    /\ ~OverCap
    /\ \E p \in Orders :
         pending' = [i \in DOMAIN p |->
                       LET r == pending[p[i]]
                       IN [keys |-> r.keys, ords |-> r.ords,
                           value |-> Parsed(r.value), no |-> RowNo(p[i])]]
    /\ stage' = "rows"
    /\ UNCHANGED <<layoutVars, styleVars, plan, current, heights, formats, sheet, window>>

LoadFails ==
    /\ stage = "load"
    /\ OverCap \/ \E i \in DOMAIN pending : Unreadable(pending[i].value)
    /\ stage' = "failed"
    /\ UNCHANGED <<layoutVars, styleVars, plan, pending, current, heights, formats,
                   sheet, window>>

FeedRow ==
    /\ stage = "rows"
    /\ pending # <<>>
    /\ Feed(Head(pending))
    /\ pending' = Tail(pending)
    /\ UNCHANGED <<styleVars, plan, stage, current, heights, formats, sheet, window>>

LayOut ==
    /\ stage = "rows"
    /\ pending = <<>>
    /\ LayoutPass
    /\ UNCHANGED <<styleVars, pipelineVars>>
-----------------------------------------------------------------------------
(* The styles *)

ValidStyles ==
    /\ ValidRules(plan.doc)
    /\ \A i \in DOMAIN plan.overrides : ValidStyle(plan.overrides[i].patch)

ReadRules ==
    /\ stage = "rows"
    /\ phase = "done"
    /\ plan.followed
    /\ ValidStyles
    /\ Rank(plan.doc \o CompileOverrides(plan.overrides))
    /\ stage' = "cells"
    /\ heights' = [p \in DOMAIN rows |-> 0]
    /\ UNCHANGED <<layoutVars, plan, pending, current, formats, sheet, window>>

RulesInvalid ==
    /\ stage = "rows"
    /\ phase = "done"
    /\ plan.followed
    /\ ~ValidStyles
    /\ stage' = "failed"
    /\ UNCHANGED <<layoutVars, styleVars, plan, pending, current, heights, formats,
                   sheet, window>>

Columns == def.ndim + 1
Cells == Len(rows) * Columns
RowOf(n) == ((n - 1) \div Columns) + 1
ColumnOf(n) == ((n - 1) % Columns) + 1

(* GroupFirstRow and GroupLastRow: the edge of the innermost group the row   *)
(* belongs to, the sheet's edge for a row that belongs to none.              *)
RowEdge(edges, p, sheetEdge) ==
    IF rows[p].path = <<>> THEN p = sheetEdge
    ELSE <<p, Len(rows[p].path)>> \in edges

Context(p, c) ==
    LET row == rows[p]
        dim == c <= def.ndim
    IN [row_type |-> row.type,
        col_role |-> IF dim THEN "dimension" ELSE "metric",
        dim_depth |-> IF dim THEN <<c - 1, 1>> ELSE <<-1, 1>>,
        seq_in_group |-> <<row.seq, 1>>,
        group_path |-> row.path,
        value |-> CASE dim -> None
                    [] ~dim /\ row.type # "detail" -> row.value
                    [] OTHER -> IF row.value[1] = "number" THEN <<row.value[2], 1>>
                                ELSE None,
        metric_key |-> IF dim THEN "" ELSE Metric,
        dim_key |-> "",
        is_group_first_row |-> IF dim THEN <<p, c>> \in first ELSE RowEdge(first, p, 1),
        is_group_last_row |-> IF dim THEN <<p, c>> \in last
                              ELSE RowEdge(last, p, Len(rows)),
        is_group_first_col |-> c = 1,
        is_group_last_col |-> c = Columns,
        is_sheet_first_row |-> p = 1,
        is_sheet_last_row |-> p = Len(rows)]

(* The row's height is that of its first cell whose style has one. *)
Heightened ==
    IF current = 0 \/ style.row_height = 0 \/ heights[RowOf(current)] > 0 THEN heights
    ELSE [heights EXCEPT ![RowOf(current)] = style.row_height]

CellDone == current = 0 \/ tried = Len(order)

NextCell ==
    /\ stage = "cells"
    /\ CellDone
    /\ current < Cells
    /\ current' = current + 1
    /\ heights' = Heightened
    /\ StartCell(Context(RowOf(current + 1), ColumnOf(current + 1)))
    /\ UNCHANGED <<layoutVars, plan, stage, pending, formats, sheet, window>>

ApplyRule ==
    /\ stage = "cells"
    /\ current > 0
    /\ TryRule
    /\ UNCHANGED <<layoutVars, pipelineVars>>

RuleStops ==
    /\ stage = "cells"
    /\ current > 0
    /\ RuleFails
    /\ stage' = "failed"
    /\ UNCHANGED <<layoutVars, styleVars, plan, pending, current, heights, formats,
                   sheet, window>>
-----------------------------------------------------------------------------
(* The conditional formats *)

(* Fault: a band ends at the subtotal of its group. *)
LeafBandsWithSubtotal ==
    {<<p, Min({q \in p..Len(rows) : <<q, def.ndim>> \in last})>> :
       p \in {q \in DOMAIN rows : def.ndim > 0 /\ <<q, def.ndim>> \in first}}

(* The detail rows of each innermost group: from its first row to the one    *)
(* before its last, the subtotal.                                            *)
LeafBands ==
    {<<p, Min({q \in p..Len(rows) : <<q, def.ndim>> \in last}) - 1>> :
       p \in {q \in DOMAIN rows : def.ndim > 0 /\ <<q, def.ndim>> \in first}}

Bands(perGroup) ==
    IF perGroup /\ Cardinality(LeafBands) \in 1..GroupLimit THEN LeafBands
    ELSE {<<1, Len(rows)>>}

(* Only a format of the metric of a column has a range. *)
BuildFormats ==
    /\ stage = "cells"
    /\ current = Cells
    /\ CellDone
    /\ heights' = Heightened
    /\ formats' =
         IF rows = <<>> THEN <<>>
         ELSE LET shown == Kept(plan.formats, {j \in DOMAIN plan.formats :
                                                 plan.formats[j].metric = Metric})
              IN [i \in DOMAIN shown |->
                    [id |-> shown[i].id,
                     ranges |-> {<<PrintedLine(b[1]), PrintedLine(b[2])>> :
                                   b \in Bands(shown[i].perGroup)}]]
    /\ stage' = "built"
    /\ UNCHANGED <<layoutVars, styleVars, plan, pending, current, sheet, window>>

Ranges == UNION {formats[i].ranges : i \in DOMAIN formats}

(* Fault: each format is set by a call of its own, which replaces the last. *)
OptionsOfLast(range) ==
    LET on == {i \in DOMAIN formats : range \in formats[i].ranges}
    IN {formats[Max(on)].id}

(* The formats of one range go into one call: another replaces them. *)
Options(range) == {formats[i].id : i \in {j \in DOMAIN formats : range \in formats[j].ranges}}

Render ==
    /\ stage = "built"
    /\ plan.windows = {}
    /\ sheet' = [range \in Ranges |-> Options(range)]
    /\ stage' = "rendered"
    /\ UNCHANGED <<layoutVars, styleVars, plan, pending, current, heights, formats, window>>
-----------------------------------------------------------------------------
(* The preview *)

(* Fault: the window includes the row it ends before. *)
PageInclusive(from, to) ==
    LET f == Min({Max({from, 0}), Len(rows)})
        t == Min({Max({to, f}), Len(rows)})
    IN [i \in 1..(t - f + 1) |-> f + i]

(* PageRows: the lines of a window [from, to) of the rows under the header.  *)
Page(from, to) ==
    LET f == Min({Max({from, 0}), Len(rows)})
        t == Min({Max({to, f}), Len(rows)})
    IN <<1>> \o [i \in 1..(t - f) |-> PrintedLine(f + i)]

ShowWindow(from, to) ==
    /\ stage = "built"
    /\ window' = Page(from, to)
    /\ plan' = [plan EXCEPT !.windows = {<<from, to>>}]
    /\ stage' = "shown"
    /\ UNCHANGED <<layoutVars, styleVars, pending, current, heights, formats, sheet>>
-----------------------------------------------------------------------------
(* The report is finished, or not followed further. *)
Finished ==
    /\ \/ stage \in {"rendered", "shown", "failed"}
       \/ phase = "done" /\ ~plan.followed
    /\ UNCHANGED vars

Next ==
    \/ Load \/ LoadFails \/ FeedRow \/ LayOut
    \/ ReadRules \/ RulesInvalid \/ NextCell \/ ApplyRule \/ RuleStops
    \/ BuildFormats \/ Render
    \/ \E w \in plan.windows : ShowWindow(w[1], w[2])
    \/ Finished

Spec == Init /\ [][Next]_vars
-----------------------------------------------------------------------------
(* Properties *)

Column(r, d) ==
    IF plan.source = "db" THEN OrderColumn(plan.sort, r, d)
    ELSE SortValue(plan.sort, r, d)

(* A group appears twice only if two values of its own dimension, or of one  *)
(* around it, share the column the rows are sorted by, or one value has two: *)
(* otherwise equal values are brought together at every depth, whatever the  *)
(* directions, and however the dimensions inside it are sorted.              *)
GroupsAppearOnce ==
    \A p, q \in SubtotalRows :
        (rows[p].path = rows[q].path /\ Separated(input, Column, 1..Len(rows[p].path)))
            => p = q

(* The scope of an override, read from the document and not from the rule it *)
(* is compiled to.  One that names a dimension covers nothing: contexts are  *)
(* built without dim_key.                                                    *)
Covers(scope, c) ==
    /\ DOMAIN scope # {}
    /\ "dim" \notin DOMAIN scope
    /\ "path" \in DOMAIN scope =>
         \A d \in DOMAIN scope.path :
            d <= Len(c.group_path) /\ c.group_path[d] = scope.path[d]
    /\ "row_type" \in DOMAIN scope => c.row_type = scope.row_type
    /\ "metric" \in DOMAIN scope =>
         c.col_role = "metric" /\ c.metric_key = scope.metric

NoHigherRule == \A i \in DOMAIN plan.doc : plan.doc[i].priority <= OverridePriority

(* An override has the last word: in every cell its scope covers, the fields *)
(* it sets are the last such override's, over any rule of a priority up to   *)
(* 10000, and its row height is the height of the rows it covers whole.      *)
OverrideWins ==
    NoHigherRule =>
        /\ Resolved =>
             \A f \in Fields :
               LET over == {j \in DOMAIN plan.overrides :
                              /\ Covers(plan.overrides[j].scope, context)
                              /\ f \in DOMAIN plan.overrides[j].patch}
               IN over # {} =>
                    style[f] = Setting(plan.overrides[Max(over)].patch, f, context)
        /\ stage \in {"built", "rendered", "shown"} =>
             \A p \in DOMAIN rows :
               LET over == {j \in DOMAIN plan.overrides :
                              /\ Covers(plan.overrides[j].scope, Context(p, 1))
                              /\ "row_height" \in DOMAIN plan.overrides[j].patch}
               IN over # {} => heights[p] = plan.overrides[Max(over)].patch.row_height

(* An operator that the engine does not have for this part of the context.   *)
Unfit(leaf) ==
    \/ leaf.ctx \in Texts /\ leaf.op \notin TextOps
    \/ leaf.ctx = "group_path" /\ leaf.op # "prefix"
    \/ leaf.ctx \in Flags /\ leaf.op \notin FlagOps
    \/ leaf.ctx \in Numbers /\ leaf.op \notin NumberOps
    \/ leaf.ctx \in Numbers /\ leaf.op = "between" /\ Len(leaf.values) # 2

(* A report that was loaded fails for its style document only: one that does *)
(* not validate, or that validates and applies an operator to a part of the  *)
(* context that has no such operator.  Valid overrides never stop a report.  *)
FailuresExplained ==
    (stage = "failed" /\ phase = "done") =>
        \/ ~ValidStyles
        \/ \E i \in DOMAIN plan.doc : \E n \in DOMAIN plan.doc[i].when :
             plan.doc[i].when[n].node = "leaf" /\ Unfit(plan.doc[i].when[n])

Within(p, range) == PrintedLine(p) \in range[1]..range[2]

(* A format per group looks at one group at a time: as long as there are not *)
(* too many groups, every detail row is in exactly one of its ranges, the    *)
(* rows of a range are of one group, and no range has a subtotal or a total. *)
BandsAreGroups ==
    \A i \in DOMAIN formats :
        (/\ \A j \in DOMAIN plan.formats :
              plan.formats[j].id = formats[i].id => plan.formats[j].perGroup
         /\ def.ndim > 0
         /\ Cardinality({p \in SubtotalRows : Level(p) = def.ndim}) <= GroupLimit) =>
            /\ \A p \in DetailRows :
                 Cardinality({r \in formats[i].ranges : Within(p, r)}) = 1
            /\ \A r \in formats[i].ranges, p, q \in DOMAIN rows :
                 Within(p, r) /\ Within(q, r) =>
                    p \in DetailRows /\ rows[p].path = rows[q].path

(* The workbook has every format on every of its ranges, although formats    *)
(* may share a range and one call replaces what an earlier one set there.    *)
NoFormatLost ==
    stage = "rendered" =>
        /\ \A i \in DOMAIN formats : \A r \in formats[i].ranges :
             formats[i].id \in sheet[r]
        /\ \A f \in {plan.formats[j] : j \in DOMAIN plan.formats} :
             f.metric = Metric /\ rows # <<>> => \E r \in DOMAIN sheet : f.id \in sheet[r]

(* A window of the preview is the header and then the rows it asks for, as   *)
(* far as there are any, in their order: windows that follow each other show *)
(* every row once.                                                           *)
WindowIsSlice ==
    stage = "shown" =>
        \A w \in plan.windows :
            LET asked == {p \in DOMAIN rows : w[1] <= p - 1 /\ p - 1 < w[2]}
            IN /\ window[1] = 1
               /\ {window[i] : i \in 2..Len(window)} = {PrintedLine(p) : p \in asked}
               /\ \A i, j \in DOMAIN window : i < j => window[i] < window[j]
=============================================================================
