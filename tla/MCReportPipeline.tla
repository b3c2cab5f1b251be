-------------------------- MODULE MCReportPipeline --------------------------
(* Small reports: each scope varies what one group of properties is about.  *)
EXTENDS ReportPipeline

MCMixed == {<<"number", 2>>, <<"number", -1>>, <<"digits", 3>>, <<"text", 0>>,
            <<"nil", 0>>}
One == {<<"number", 2>>}

ByValue == [by |-> "value", dir |-> "asc", keyed |-> FALSE]
BySortKey == [by |-> "sort_key", dir |-> "asc", keyed |-> TRUE]

(* One shared sort key: the rows arrive in any order. *)
Shapes ==
    [ndims |-> {0, 1, 2}, aggs |-> {"sum"}, tops |-> BOOLEAN, values |-> One,
     ords |-> {1}, gaps |-> FALSE, sorts |-> {BySortKey}, sources |-> {"slice"}, maxRows |-> 4,
     numerics |-> {FALSE}, rowCaps |-> {0}, docs |-> {<<>>}, overrides |-> {<<>>},
     formats |-> {<<>>}, windows |-> {}, followed |-> FALSE]

Deep == [Shapes EXCEPT !.ndims = {3}, !.tops = {TRUE}]

Amounts ==
    [Shapes EXCEPT !.ndims = {0, 1}, !.aggs = {"sum", "avg", "count", "max", "min"},
                   !.values = MCMixed, !.maxRows = 3]

NestedAmounts ==
    [Amounts EXCEPT !.ndims = {2}, !.values = {<<"number", 2>>, <<"number", -1>>},
                    !.sorts = {ByValue}]

OneSort ==
    [Shapes EXCEPT !.ndims = {1}, !.tops = {FALSE}, !.ords = {1, 2}, !.sorts = Sorting,
                   !.sources = {"slice", "db"}, !.maxRows = 3]

TwoSorts ==
    [OneSort EXCEPT !.ndims = {2}, !.sources = {"slice"},
                    !.sorts = {[BySortKey EXCEPT !.dir = "desc"]}]

(* Records without the column of the sort key, beside others that have it. *)
Gaps ==
    [OneSort EXCEPT !.gaps = TRUE, !.sources = {"slice"},
                    !.sorts = {BySortKey, [BySortKey EXCEPT !.dir = "desc"]}]

Files ==
    [Shapes EXCEPT !.ndims = {1}, !.values = MCMixed, !.sources = {"csv"}, !.maxRows = 2,
                   !.tops = {FALSE}, !.numerics = BOOLEAN, !.rowCaps = {0, 1}]

Leaf(ctx, op, v) ==
    [node |-> "leaf", subs |-> <<>>, ctx |-> ctx, op |-> op, value |-> v,
     values |-> <<>>, mod |-> 0]
Node(node, subs) == [node |-> node, subs |-> subs]
Text(v) == <<"string", v>>
Number(n) == <<"number", n>>
Flag(b) == <<"bool", b>>
Rule(id, priority, when, s) ==
    [id |-> id, priority |-> priority, when |-> when, style |-> s]
Side(where, s, else) == [at |-> where, style |-> s, else |-> else]

Zebra ==
    Rule("zebra", 20,
         <<Node("all", <<2, 3>>), Leaf("row_type", "eq", Text("detail")),
           [Leaf("seq_in_group", "eq", Number(0)) EXCEPT !.mod = 2]>>,
         [fill |-> "grey", bold |-> TRUE])
Negative ==
    Rule("negative", 10, <<Leaf("value", "lt", Number(0))>>,
         [fill |-> "pink", font_color |-> "red"])
Edges ==
    Rule("edges", 20,
         <<Node("any", <<2, 3>>), Leaf("col_role", "ne", Text("metric")),
           [Leaf("value", "between", <<"nil", 0>>)
              EXCEPT !.values = <<Number(0), Number(2)>>]>>,
         [border_top |-> Side("group_first_row", "thin", "hair"),
          border_bottom |-> Side("sheet_last_row", "double", ""),
          indent |-> [expr |-> "dim_depth", value |-> 3]])
Sums ==
    Rule("sums", 10000,
         <<Node("not", <<2>>), Node("any", <<3, 4>>),
           [Leaf("row_type", "in", <<"nil", 0>>)
              EXCEPT !.values = <<Text("detail"), Number(1)>>],
           Leaf("is_group_last_row", "ne", Flag(TRUE))>>,
         [fill |-> "blue", row_height |-> 20, bold |-> TRUE])
(* Validates, and fails in the cells of totals only. *)
BadOp ==
    Rule("bad", 5,
         <<Node("all", <<2, 3>>), Leaf("row_type", "eq", Text("total")),
           Leaf("metric_key", "prefix", Text("m"))>>, [bold |-> TRUE])

Rowwise ==
    [id |-> "a", scope |-> [row_type |-> "subtotal"],
     patch |-> [row_height |-> 30, fill |-> "gold"]]
Group ==
    [id |-> "b", scope |-> [path |-> <<1>>, row_type |-> "detail"],
     patch |-> [fill |-> "green", border_top |-> Side("always", "thick", "")]]
Amount ==
    [id |-> "c", scope |-> [path |-> <<1>>, metric |-> "m"], patch |-> [fill |-> "white"]]
Nowhere == [id |-> "d", scope |-> <<>>, patch |-> [fill |-> "black"]]
Dimension == [id |-> "e", scope |-> [dim |-> "d1"], patch |-> [fill |-> "brown"]]
NoLine ==
    [id |-> "f", scope |-> <<>>,
     patch |-> [border_left |-> Side("always", "dotted", "")]]

Styled ==
    [Shapes EXCEPT !.ndims = {0, 1, 2}, !.values = {<<"number", 2>>, <<"number", -1>>},
                   !.maxRows = 2, !.followed = TRUE,
                   !.docs = {<<Zebra, Negative, Edges>>,
                             <<Sums, [Negative EXCEPT !.priority = 10001], Zebra>>},
                   !.overrides = {<<>>, <<Amount, Rowwise, Group, Nowhere, Dimension>>}]

Misstyled ==
    [Styled EXCEPT !.maxRows = 1, !.ndims = {1},
                   !.docs = {<<BadOp>>, <<Zebra, Zebra>>, <<>>},
                   !.overrides = {<<>>, <<Group, Rowwise>>, <<NoLine>>}]

PerGroup(id) == [id |-> id, metric |-> "m", perGroup |-> TRUE]
Whole(id) == [id |-> id, metric |-> "m", perGroup |-> FALSE]
Elsewhere == [id |-> "z", metric |-> "other", perGroup |-> FALSE]

Formatted ==
    [Shapes EXCEPT !.ndims = {0, 1, 2}, !.maxRows = 3, !.followed = TRUE,
                   !.formats = {<<PerGroup("x"), Elsewhere, Whole("y"), PerGroup("w")>>}]

Windowed ==
    [Formatted EXCEPT !.ndims = {0, 1}, !.formats = {<<>>}, !.tops = {TRUE},
                      !.windows = {<<f, t>> : f \in {-1, 0, 1, 3, 9}, t \in {0, 1, 3, 4, 9}}]

MCScopes ==
    {Shapes, Deep, Amounts, NestedAmounts, OneSort, TwoSorts, Gaps, Files, Styled, Misstyled,
     Formatted, Windowed}
MCMetric == "m"
MCDimFields == {"d1", "d2", "d3"}
=============================================================================
