---------------------------- MODULE ReportLayout ----------------------------
(***************************************************************************)
(* The layout of a report, dynamic-report/internal/engine: GroupStack      *)
(* turns the detail rows into rows with subtotals and a total, the         *)
(* position pass finds the group boundaries and the cells to merge, the    *)
(* assembly pass writes the SUBTOTAL formulas.                             *)
(*                                                                         *)
(* The report has one metric column: the columns never meet.  Positions    *)
(* and depths count from 1 (the code's index or depth, plus one), and      *)
(* position p is printed on sheet line p + 1, under the header.  The code  *)
(* runs the passes in sequence; a step here is a call of Feed or Finish,   *)
(* one iteration of the loop of PositionPass, or AssemblyPass.             *)
(***************************************************************************)
EXTENDS Integers, Sequences, FiniteSets, FiniteSetsExt

CONSTANTS
    Keys,         \* the values of a dimension field
    Values,       \* the metric values: <<kind, n>>, see Kinds
    Depths,       \* the numbers of dimensions a definition may have
    Aggs,         \* the aggregation functions a definition may use
    SampleCap,    \* how many source rows a trace lists (5 in the code)
    MaxRows       \* bound on the detail rows

(* A number, a string that parses as a number, another string, no value. *)
Kinds == {"number", "digits", "text", "nil"}

ASSUME ReportLayoutAssumption ==
    /\ Values \subseteq Kinds \X Int
    /\ Depths \subseteq Nat
    /\ Aggs \subseteq {"sum", "avg", "count", "max", "min"}
    /\ SampleCap \in Nat
    /\ MaxRows \in Nat

VARIABLES
    def,          \* the definition: dimensions, aggregation, total position
    input,        \* the detail rows fed so far
    phase,        \* the pass that runs
    stack,        \* g.stack: the open groups, outermost first
    root,         \* g.root: the grand total
    seq,          \* g.seq
    rows,         \* the layout rows
    at,           \* the row the position pass is at
    spans,        \* its open spans: the position each depth's began at
    first,        \* FirstOfDepth: <<position, depth>>
    last,         \* LastOfDepth
    merges,       \* the merged ranges
    blank,        \* the dimension cells whose value was cleared
    formulas      \* formulas[p]: the sheet lines the formula of p refers to

groupVars == <<input, stack, root, seq, rows>>
positionVars == <<at, spans, first, last, merges, blank>>
layoutVars == <<def, phase, groupVars, positionVars, formulas>>
-----------------------------------------------------------------------------
(* The aggregator.  A result is a fraction <<n, d>>, None when it is nil.    *)

ZeroAgg == [sum |-> 0, count |-> 0, min |-> 0, max |-> 0, empty |-> TRUE]
None == <<0, 0>>

ParsesAsNumber(v) == v[1] \in {"number", "digits"}

(* COUNT counts every value; the others skip what is not a number. *)
Update(a, v) ==
    IF v[1] = "nil" \/ (def.agg # "count" /\ ~ParsesAsNumber(v)) THEN a
    ELSE IF def.agg = "count" THEN [a EXCEPT !.count = @ + 1]
    ELSE [sum |-> a.sum + v[2],
          count |-> a.count + 1,
          min |-> IF a.empty \/ v[2] < a.min THEN v[2] ELSE a.min,
          max |-> IF a.empty \/ v[2] > a.max THEN v[2] ELSE a.max,
          empty |-> FALSE]

AggValue(a) ==
    CASE def.agg = "sum"   -> <<a.sum, 1>>
      [] def.agg = "count" -> <<a.count, 1>>
      [] def.agg = "avg"   -> IF a.count = 0 THEN <<0, 1>> ELSE <<a.sum, a.count>>
      [] def.agg = "max"   -> IF a.empty THEN None ELSE <<a.max, 1>>
      [] def.agg = "min"   -> IF a.empty THEN None ELSE <<a.min, 1>>
-----------------------------------------------------------------------------
(* GroupStack *)

(* A tally is what a group and the root keep of the rows they have seen. *)
ZeroTally == [agg |-> ZeroAgg, count |-> 0, samples |-> <<>>]

(* Fault: the samples are not capped. *)
TalliedUncapped(t, r) ==
    [agg |-> Update(t.agg, r.value), count |-> t.count + 1,
     samples |-> Append(t.samples, r.no)]

Tallied(t, r) ==
    [agg |-> Update(t.agg, r.value),
     count |-> t.count + 1,
     samples |-> IF Len(t.samples) < SampleCap THEN Append(t.samples, r.no)
                 ELSE t.samples]

DetailRow(r, n) ==
    [type |-> "detail", path |-> r.keys, seq |-> n, value |-> r.value,
     from |-> 0, to |-> 0, count |-> 1, samples |-> <<r.no>>]

TallyRow(type, path, t, from, to) ==
    [type |-> type, path |-> path, seq |-> 0, value |-> AggValue(t.agg),
     from |-> from, to |-> to, count |-> t.count, samples |-> t.samples]

Shares(keys, d) == stack[d].key = keys[d]

(* A row with these keys shares the k outermost open groups. *)
Shared(keys, k) ==
    /\ \A d \in 1..k : Shares(keys, d)
    /\ k < Len(stack) => ~Shares(keys, k + 1)

(* Fault: the range of an outer group begins where the innermost one began. *)
SubtotalOfInnermost(d, lastRow) ==
    TallyRow("subtotal", [e \in 1..d |-> stack[e].key], stack[d].tally,
             stack[Len(stack)].start, lastRow)

(* closeTop: the subtotal of the group at depth d, the innermost open one,   *)
(* covers the rows from its first detail row to the last row so far.         *)
Subtotal(d, lastRow) ==
    TallyRow("subtotal", [e \in 1..d |-> stack[e].key], stack[d].tally,
             stack[d].start, lastRow)

(* The rows once every group deeper than k is closed, innermost first. *)
Closed(k) ==
    rows \o [j \in 1..(Len(stack) - k) |->
               Subtotal(Len(stack) + 1 - j, Len(rows) + j - 1)]

(* A row of the source: keys, value and no are all the layout looks at. *)
Feed(r) ==
    /\ phase = "feed"
    /\ Len(input) < MaxRows
    /\ \E k \in 0..Len(stack) :
       LET opened == [d \in 1..(def.ndim - k) |->
                        [key |-> r.keys[k + d], start |-> Len(Closed(k)) + 1,
                         tally |-> ZeroTally]]
           open == SubSeq(stack, 1, k) \o opened
           n == IF def.ndim = 0 THEN Len(rows) + 1
                ELSE IF k < def.ndim THEN 1 ELSE seq + 1
       IN /\ Shared(r.keys, k)
          /\ stack' = [d \in DOMAIN open |->
                         [open[d] EXCEPT !.tally = Tallied(@, r)]]
          /\ root' = Tallied(root, r)
          /\ seq' = n
          /\ rows' = Append(Closed(k), DetailRow(r, n))
    /\ input' = Append(input, r)
    /\ UNCHANGED <<def, phase, positionVars, formulas>>

(* Fault: the ranges are not shifted. *)
Unshifted(row) == row

(* Inserting the total at the top shifts every range by one row. *)
Shift(row) ==
    IF row.type = "detail" THEN row
    ELSE [row EXCEPT !.from = @ + 1, !.to = @ + 1]

Finish ==
    /\ phase = "feed"
    /\ LET closed == Closed(0)
           total == TallyRow("total", <<>>, root, 1, Len(closed))
           all == IF def.top THEN <<total>> \o closed ELSE Append(closed, total)
       IN rows' = IF closed = <<>> THEN closed
                  ELSE IF def.top THEN [p \in DOMAIN all |-> Shift(all[p])]
                  ELSE all
    /\ stack' = <<>>
    /\ phase' = "position"
    /\ UNCHANGED <<def, input, root, seq, positionVars, formulas>>
-----------------------------------------------------------------------------
(* PositionPass *)

(* Fault: a subtotal row ends the span of its own group. *)
ContinuesAbove(row, d) ==
    /\ d <= Len(row.path) - (IF row.type = "subtotal" THEN 1 ELSE 0)
    /\ rows[spans[d]].path[d] = row.path[d]

(* A total row has an empty path and continues no span. *)
Continues(row, d) ==
    /\ d <= Len(row.path)
    /\ rows[spans[d]].path[d] = row.path[d]

(* The row continues the k outermost open spans. *)
Continued(row, k) ==
    /\ \A d \in 1..k : Continues(row, d)
    /\ k < Len(spans) => ~Continues(row, k + 1)

(* Fault: a span ends at the row that ended it. *)
CloseSpansHere(k) ==
    LET ending == (k + 1)..Len(spans)
    IN /\ last' = last \cup {<<at, d>> : d \in ending}
       /\ merges' = merges \cup
            {[depth |-> d, from |-> spans[d], to |-> at] : d \in ending}
       /\ blank' = blank \cup
            UNION {{<<p, d>> : p \in (spans[d] + 1)..at} : d \in ending}

(* Fault: the last row of a merged range keeps its value. *)
CloseSpansShort(k) ==
    LET end == at - 1
        ending == (k + 1)..Len(spans)
    IN /\ last' = last \cup {<<end, d>> : d \in ending}
       /\ merges' = merges \cup
            {[depth |-> d, from |-> spans[d], to |-> end] :
               d \in {e \in ending : end > spans[e]}}
       /\ blank' = blank \cup
            UNION {{<<p, d>> : p \in (spans[d] + 1)..(end - 1)} : d \in ending}

(* Every span deeper than k ends at the row before the current one. *)
CloseSpans(k) ==
    LET end == at - 1
        ending == (k + 1)..Len(spans)
    IN /\ last' = last \cup {<<end, d>> : d \in ending}
       /\ merges' = merges \cup
            {[depth |-> d, from |-> spans[d], to |-> end] :
               d \in {e \in ending : end > spans[e]}}
       /\ blank' = blank \cup
            UNION {{<<p, d>> : p \in (spans[d] + 1)..end} : d \in ending}

(* Only a detail row opens spans, for every depth that it does not continue. *)
PositionRow ==
    /\ phase = "position"
    /\ at <= Len(rows)
    /\ \E k \in 0..Len(spans) :
       LET row == rows[at]
           opening == IF row.type = "detail" THEN def.ndim - k ELSE 0
       IN /\ Continued(row, k)
          /\ CloseSpans(k)
          /\ spans' = SubSeq(spans, 1, k) \o [j \in 1..opening |-> at]
          /\ first' = first \cup {<<at, k + j>> : j \in 1..opening}
    /\ at' = at + 1
    /\ UNCHANGED <<def, phase, groupVars, formulas>>

(* The spans that are still open when the rows end: with the total on top,   *)
(* the outermost group's.                                                    *)
PositionEnd ==
    /\ phase = "position"
    /\ at = Len(rows) + 1
    /\ CloseSpans(0)
    /\ spans' = <<>>
    /\ phase' = "assembly"
    /\ UNCHANGED <<def, groupVars, at, first, formulas>>
-----------------------------------------------------------------------------
(* AssemblyPass *)

Ranged == {p \in DOMAIN rows : rows[p].type # "detail"}

(* Fault: the header line is forgotten. *)
LineWithoutHeader(p) == p

Line(p) == p + 1

(* schema.Build prints the row at position p on this sheet line. *)
PrintedLine(p) == p + 1

Assemble ==
    /\ phase = "assembly"
    /\ formulas' = [p \in Ranged |-> [from |-> Line(rows[p].from),
                                      to |-> Line(rows[p].to)]]
    /\ phase' = "done"
    /\ UNCHANGED <<def, groupVars, positionVars>>
-----------------------------------------------------------------------------
LayoutInit ==
    /\ input = <<>>
    /\ phase = "feed"
    /\ stack = <<>>
    /\ root = ZeroTally
    /\ seq = 0
    /\ rows = <<>>
    /\ at = 1
    /\ spans = <<>>
    /\ first = {}
    /\ last = {}
    /\ merges = {}
    /\ blank = {}
    /\ formulas = <<>>

LayoutPass == Finish \/ PositionRow \/ PositionEnd \/ Assemble
-----------------------------------------------------------------------------
(* Properties *)

DetailRows == {p \in DOMAIN rows : rows[p].type = "detail"}
SubtotalRows == {p \in DOMAIN rows : rows[p].type = "subtotal"}

(* The depths of the groups a row belongs to. *)
Level(p) == Len(rows[p].path)

SamePath(p, q, d) ==
    /\ Level(p) >= d
    /\ Level(q) >= d
    /\ \A e \in 1..d : rows[p].path[e] = rows[q].path[e]

Covered(p) == rows[p].from..rows[p].to

(* A subtotal covers its group, all of it and nothing else: it ends just     *)
(* above the subtotal row, holds rows of this group and subtotals of deeper  *)
(* groups only, and the row before it belongs to another group or is the     *)
(* subtotal of a group this one is not nested in.                            *)
SubtotalCoversGroup ==
    \A p \in SubtotalRows :
        LET r == rows[p]
            d == Level(p)
        IN /\ r.to = p - 1
           /\ r.from \in DetailRows
           /\ \A q \in Covered(p) :
                SamePath(q, p, d) /\ (q \in SubtotalRows => Level(q) > d)
           /\ r.from - 1 \in DOMAIN rows =>
                \/ ~SamePath(r.from - 1, p, d)
                \/ r.from - 1 \in SubtotalRows /\ Level(r.from - 1) <= d

(* Once the layout is finished every detail row is in one subtotal of each   *)
(* depth and in the total, which covers every other row and not itself.      *)
EveryRowIsTotalled ==
    phase # "feed" =>
        /\ \A p \in DetailRows, d \in 1..def.ndim :
             Cardinality({q \in SubtotalRows : Level(q) = d /\ p \in Covered(q)}) = 1
        /\ \A p \in Ranged \ SubtotalRows : Covered(p) = DOMAIN rows \ {p}
        /\ Cardinality(DetailRows) = Len(input)

(* What Excel computes for a SUBTOTAL formula: cells that hold a SUBTOTAL    *)
(* are ignored, COUNTA counts any value, the others look at numbers only.    *)
Operands(from, to) ==
    {p \in DetailRows : PrintedLine(p) \in from..to /\ rows[p].value[1] # "nil"}

SumOf(S) == MapThenSumSet(LAMBDA p : rows[p].value[2], S)

SubtotalOf(from, to) ==
    LET cells == Operands(from, to)
        numbers == {p \in cells : rows[p].value[1] = "number"}
        ns == {rows[p].value[2] : p \in numbers}
    IN CASE def.agg = "sum"   -> <<SumOf(numbers), 1>>
         [] def.agg = "count" -> <<Cardinality(cells), 1>>
         [] def.agg = "avg"   -> <<SumOf(numbers), Cardinality(numbers)>>
         [] def.agg = "max"   -> IF ns = {} THEN <<0, 1>> ELSE <<Max(ns), 1>>
         [] def.agg = "min"   -> IF ns = {} THEN <<0, 1>> ELSE <<Min(ns), 1>>

HasNumbers(f) ==
    \E p \in Operands(f.from, f.to) : rows[p].value[1] = "number"

AgreesAt(p) ==
    SubtotalOf(formulas[p].from, formulas[p].to) = rows[p].value

HasDigits == \E p \in DetailRows : rows[p].value[1] = "digits"

(* The cached value beside a formula is what the formula evaluates to, for   *)
(* every subtotal, nested or not, and the total, at the top or the bottom:   *)
(* a count always, a sum over a field that holds no digits as strings, the   *)
(* others moreover where there is a number to aggregate.                     *)
FormulaAgrees ==
    phase = "done" =>
        \A p \in Ranged :
            CASE def.agg = "count" -> AgreesAt(p)
              [] def.agg = "sum" -> HasDigits \/ AgreesAt(p)
              [] OTHER -> HasDigits \/ ~HasNumbers(formulas[p]) \/ AgreesAt(p)

MergedLines(m) == m.from..m.to

(* The merged ranges of one column never overlap, and a range of an inner    *)
(* column lies within one of the column to its left or outside all of them.  *)
MergesNest ==
    \A m, n \in merges :
        /\ m.depth = n.depth /\ m # n => MergedLines(m) \cap MergedLines(n) = {}
        /\ m.depth < n.depth =>
             \/ MergedLines(n) \subseteq MergedLines(m)
             \/ MergedLines(m) \cap MergedLines(n) = {}

(* A cell is cleared when, and only when, a merged range shows the value of  *)
(* its first row over it: no value is lost, none is left under a merge.      *)
MergeKeepsValue ==
    phase \in {"assembly", "done"} =>
        /\ blank = UNION {{<<p, m.depth>> : p \in m.from + 1..m.to} : m \in merges}
        /\ \A m \in merges, p \in DOMAIN rows :
             p \in MergedLines(m) => SamePath(p, m.from, m.depth)

(* Each group has one first and one last row at its depth: its first detail  *)
(* row and its own subtotal row; the rows of an innermost group number from  *)
(* 1 without a gap.                                                          *)
GroupEdges ==
    phase \in {"assembly", "done"} =>
        /\ \A p \in DetailRows :
             rows[p].seq =
               IF p - 1 \in DetailRows /\ rows[p - 1].path = rows[p].path
               THEN rows[p - 1].seq + 1 ELSE 1
        /\ first = {<<rows[p].from, Level(p)>> : p \in SubtotalRows}
        /\ last = {<<p, Level(p)>> : p \in SubtotalRows}

(* A trace names rows of the data source, the first few of those the cell    *)
(* was computed from, and counts all of them.                                *)
TraceNamesRows ==
    \A p \in Ranged :
        LET n == Cardinality(DetailRows \cap Covered(p))
        IN /\ rows[p].count = n
           /\ Len(rows[p].samples) = Min({n, SampleCap})
           /\ \A i \in DOMAIN rows[p].samples :
                \E q \in DetailRows \cap Covered(p) :
                    /\ rows[q].samples = <<rows[p].samples[i]>>
                    /\ Cardinality({s \in DetailRows \cap Covered(p) : s < q}) = i - 1
=============================================================================
