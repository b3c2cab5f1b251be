------------------------ MODULE ReportPipelineProofs ------------------------
(***************************************************************************)
(* Theorems about ReportPipeline, for reports of any size: the order of    *)
(* the rows brings every group together, unless values share a sort key;   *)
(* subtotals cover their groups and total every row once, as the formulas  *)
(* of the workbook do; traces name the rows, the edges of groups are       *)
(* marked, the merged ranges nest and hide no value; the styles follow the *)
(* priorities, overrides have the last word, and a failure has its reason  *)
(* in the document; formats keep to their groups and none is lost; windows *)
(* are slices of the rows.                                                 *)
(***************************************************************************)
EXTENDS ReportPipeline, ReportLayoutProofs, StyleEngineProofs, SequenceTheorems, TLAPS

(* What a step is to the layout, and to the style engine. *)
LEMMA LayoutStep ==
    ASSUME [Next]_vars
    PROVE  \/ FeedRow
           \/ LayoutPass
           \/ UNCHANGED layoutVars
  BY DEF Next, vars, Load, LoadFails, LayOut, ReadRules, RulesInvalid, NextCell,
         ApplyRule, RuleStops, BuildFormats, Render, ShowWindow, Finished
-----------------------------------------------------------------------------
(* The merged ranges.                                                        *)

LEMMA SpansStayFit ==
    ASSUME SpansFit, Nest, [Next]_vars
    PROVE  SpansFit' /\ Nest'
  <1>1. CASE FeedRow \/ Finish \/ Assemble \/ UNCHANGED layoutVars
    <2>1. UNCHANGED <<def, positionVars>>
      BY <1>1 DEF FeedRow, Feed, Finish, Assemble, layoutVars
    <2> QED  BY <2>1 DEF positionVars, SpansFit, Nest
  <1> QED  BY <1>1, LayoutStep, PositionRowNests, PositionEndNests DEF LayoutPass

LEMMA SpansFitInit ==
    ASSUME Init
    PROVE  SpansFit /\ Nest
  <1>1. PICK s \in Scopes : def \in [ndim : s.ndims, agg : s.aggs, top : s.tops]
    BY DEF Init
  <1>2. def.ndim \in Nat
    <2>1. s.ndims \subseteq Nat
      BY ReportLayoutAssumption, ReportPipelineAssumption
    <2> QED  BY <1>1, <2>1
  <1>3. at = 1 /\ spans = <<>> /\ merges = {}
    BY DEF Init, LayoutInit
  <1> QED  BY <1>2, <1>3 DEF SpansFit, Nest

(* The merged ranges of the columns nest, in every report.                   *)
THEOREM MergedRangesNest == Spec => []MergesNest
  <1>1. Init => SpansFit /\ Nest
    BY SpansFitInit
  <1>2. SpansFit /\ Nest => MergesNest
    BY DEF SpansFit, Nest, MergesNest, MergedLines
  <1> QED  BY <1>1, <1>2, SpansStayFit, PTL DEF Spec
-----------------------------------------------------------------------------
(* The styles.                                                               *)

Unstyled == stage \in {"load", "rows"}

StylesRanked == Ranked /\ ByPriority /\ (Unstyled => Untouched)

(* What a step is to the style engine. *)
LEMMA StyleStep ==
    ASSUME [Next]_vars
    PROVE  \/ ReadRules
           \/ NextCell
           \/ ApplyRule
           \/ UNCHANGED styleVars /\ (Unstyled' => Unstyled)
  BY DEF Next, vars, pipelineVars, Load, LoadFails, FeedRow, LayOut, RulesInvalid,
         RuleStops, BuildFormats, Render, ShowWindow, Finished, Unstyled

LEMMA StylesStayRanked ==
    ASSUME StylesRanked, [Next]_vars
    PROVE  StylesRanked'
  <1>1. CASE ReadRules
    <2>1. Untouched
      BY <1>1 DEF ReadRules, StylesRanked, Unstyled
    <2>2. Ranked' /\ Untouched'
      BY <1>1, <2>1, RankedByRank DEF ReadRules
    <2>3. ByPriority'
      BY <2>2, UntouchedByPriority, PTL
    <2> QED  BY <2>2, <2>3 DEF StylesRanked
  <1>2. CASE NextCell
    <2>1. Ranked' /\ Untouched'
      BY <1>2, StartedUntouched DEF NextCell, StylesRanked
    <2>2. ByPriority'
      BY <2>1, UntouchedByPriority, PTL
    <2> QED  BY <2>1, <2>2 DEF StylesRanked
  <1>3. CASE ApplyRule
    <2>1. Ranked' /\ ByPriority'
      BY <1>3, TriedByPriority DEF ApplyRule, StylesRanked
    <2>2. ~Unstyled'
      BY <1>3 DEF ApplyRule, pipelineVars, Unstyled
    <2> QED  BY <2>1, <2>2 DEF StylesRanked
  <1>4. CASE UNCHANGED styleVars /\ (Unstyled' => Unstyled)
    <2>1. ByPriority'
      BY <1>4 DEF StylesRanked, styleVars, ByPriority
    <2> QED
      BY <1>4, <2>1 DEF StylesRanked, styleVars, Ranked, Outranks, Untouched
  <1> QED  BY <1>1, <1>2, <1>3, <1>4, StyleStep

LEMMA StylesRankedInit ==
    ASSUME Init
    PROVE  StylesRanked
  <1>1. Untouched /\ order = <<>> /\ rules = <<>>
    BY DEF Init, StyleInit, Untouched
  <1>2. ByPriority
    BY <1>1, UntouchedByPriority
  <1> QED  BY <1>1, <1>2 DEF StylesRanked, Ranked, Untouched

(* In every report, whatever its rules and overrides, each field of a cell's *)
(* style is set by the highest of the rules tried so far that hold.          *)
THEOREM StylesFollowPriorities == Spec => []ByPriority
  <1>1. Init => StylesRanked
    BY StylesRankedInit
  <1>2. StylesRanked => ByPriority
    BY DEF StylesRanked
  <1> QED  BY <1>1, <1>2, StylesStayRanked, PTL DEF Spec
-----------------------------------------------------------------------------
(* The source and its rows.                                                  *)

SameColumns(r, s) == r.keys = s.keys /\ r.ords = s.ords

(* Two records are compared by their columns. *)
LEMMA PrecedesByColumns ==
    ASSUME NEW sort, NEW r, NEW s, NEW t, NEW u, SameColumns(r, s), SameColumns(t, u)
    PROVE  Precedes(sort, r, t) <=> Precedes(sort, s, u)
  <1>1. \A d : SortValue(sort, r, d) = SortValue(sort, s, d)
    BY DEF SortValue, SameColumns
  <1>2. \A d : SortValue(sort, t, d) = SortValue(sort, u, d)
    BY DEF SortValue, SameColumns
  <1> QED  BY <1>1, <1>2 DEF Precedes

LEMMA FileOrdersRespect ==
    ASSUME NEW sort, NEW records, NEW p \in FileOrders(sort, records)
    PROVE  /\ p \in Seq(1..Len(records))
           /\ \A i, j \in DOMAIN p :
                i < j => ~Precedes(sort, records[p[j]], records[p[i]])
  BY DEF FileOrders, Arrangements

LEMMA DBOrdersRespect ==
    ASSUME NEW sort, NEW records, NEW p \in DBOrders(sort, records)
    PROVE  /\ p \in Seq(1..Len(records))
           /\ \A i, j \in DOMAIN p :
                i < j => ~DBPrecedes(sort, records[p[j]], records[p[i]])
  BY DEF DBOrders, Arrangements

SourceFits ==
    /\ def.ndim \in Nat
    /\ {"sort", "source"} \subseteq DOMAIN plan
    /\ DOMAIN plan.sort = 1..def.ndim
    /\ \E S : input \in Seq(S) /\ pending \in Seq(S)
    /\ stage = "load" => input = <<>>

(* The rows fed and those to come. *)
Loaded == input \o pending

(* Only the source, FeedRow and a failure concern the order. *)
LEMMA OrderStep ==
    ASSUME [Next]_vars, SourceFits
    PROVE  \/ Load
           \/ LoadFails
           \/ FeedRow
           \/ /\ UNCHANGED <<def, input, pending>>
              /\ plan'.sort = plan.sort
              /\ plan'.source = plan.source
              /\ DOMAIN plan' = DOMAIN plan
              /\ stage' = "load" <=> stage = "load"
              /\ stage = "failed" => stage' = "failed"
  <1>1. CASE \E w \in plan.windows : ShowWindow(w[1], w[2])
    <2>1. PICK w \in plan.windows : ShowWindow(w[1], w[2])
      BY <1>1
    <2>2. /\ UNCHANGED <<def, input, pending>> /\ stage = "built" /\ stage' = "shown"
          /\ plan' = [plan EXCEPT !.windows = {<<w[1], w[2]>>}]
      BY <2>1 DEF ShowWindow, layoutVars, groupVars
    <2>3. DOMAIN plan' = DOMAIN plan
      BY <2>2, Zenon
    <2>4. plan'.sort = plan.sort /\ plan'.source = plan.source
      BY <2>2, Zenon DEF SourceFits
    <2> QED  BY <2>2, <2>3, <2>4
  <1>2. CASE LayOut \/ ReadRules \/ RulesInvalid \/ NextCell \/ ApplyRule \/ RuleStops
             \/ BuildFormats \/ Render \/ Finished \/ UNCHANGED vars
    <2>1. UNCHANGED <<def, input, pending, plan>>
      BY <1>2 DEF LayOut, LayoutPass, Finish, PositionRow, PositionEnd, Assemble,
         ReadRules, RulesInvalid, NextCell, ApplyRule, RuleStops, BuildFormats, Render,
         Finished, vars, layoutVars, groupVars, pipelineVars
    <2>2. (stage' = "load" <=> stage = "load") /\ (stage = "failed" => stage' = "failed")
      BY <1>2 DEF LayOut, ReadRules, RulesInvalid, NextCell, ApplyRule, RuleStops,
         BuildFormats, Render, Finished, vars, pipelineVars
    <2> QED  BY <2>1, <2>2
  <1> QED  BY <1>1, <1>2 DEF Next

LEMMA LoadFits ==
    ASSUME SourceFits, Load
    PROVE  SourceFits'
  <1>1. PICK p \in Orders :
          pending' = [i \in DOMAIN p |->
                        [keys |-> pending[p[i]].keys, ords |-> pending[p[i]].ords,
                         value |-> Parsed(pending[p[i]].value), no |-> RowNo(p[i])]]
    BY DEF Load
  <1>2. /\ stage' = "rows" /\ UNCHANGED <<def, input, plan>> /\ input = <<>>
    BY DEF Load, layoutVars, groupVars, SourceFits
  <1>3. p \in Seq(1..Len(pending))
    BY <1>1, FileOrdersRespect, DBOrdersRespect DEF Orders
  <1> DEFINE S == {pending'[i] : i \in DOMAIN p}
  <1>4. DOMAIN p = 1..Len(p) /\ Len(p) \in Nat
    BY <1>3
  <1>5. pending' \in Seq(S) /\ input' \in Seq(S)
    <2>1. pending' \in [1..Len(p) -> S]
      BY <1>1, <1>4
    <2> QED  BY <2>1, <1>2, <1>4
  <1> QED  BY <1>2, <1>5 DEF SourceFits

LEMMA FeedKeepsLoaded ==
    ASSUME SourceFits, FeedRow
    PROVE  /\ Loaded' = Loaded
           /\ \E S : input' \in Seq(S) /\ pending' \in Seq(S)
  <1>1. PICK S : input \in Seq(S) /\ pending \in Seq(S)
    BY DEF SourceFits
  <1>2. /\ pending # <<>> /\ pending' = Tail(pending)
        /\ input' = Append(input, Head(pending))
    BY DEF FeedRow, Feed
  <1>3. Head(pending) \in S /\ Tail(pending) \in Seq(S) /\ pending = <<Head(pending)>> \o Tail(pending)
    BY <1>1, <1>2, HeadTailProperties
  <1>4. input' = input \o <<Head(pending)>> /\ input' \in Seq(S)
    BY <1>1, <1>2, <1>3, AppendIsConcat, AppendProperties
  <1>5. (input \o <<Head(pending)>>) \o Tail(pending) = input \o (<<Head(pending)>> \o Tail(pending))
    BY <1>1, <1>3, ConcatAssociative
  <1> QED  BY <1>1, <1>2, <1>3, <1>4, <1>5 DEF Loaded

LEMMA SourceStaysFit ==
    ASSUME SourceFits, [Next]_vars
    PROVE  SourceFits'
  <1>1. CASE Load
    BY <1>1, LoadFits
  <1>2. CASE LoadFails
    BY <1>2 DEF LoadFails, SourceFits, layoutVars, groupVars
  <1>3. CASE FeedRow
    <2>1. UNCHANGED <<def, plan, stage>> /\ stage = "rows"
      BY <1>3 DEF FeedRow, Feed
    <2> QED  BY <1>3, <2>1, FeedKeepsLoaded DEF SourceFits
  <1>4. CASE /\ UNCHANGED <<def, input, pending>>
             /\ plan'.sort = plan.sort
             /\ plan'.source = plan.source
             /\ DOMAIN plan' = DOMAIN plan
             /\ stage' = "load" <=> stage = "load"
             /\ stage = "failed" => stage' = "failed"
    BY <1>4 DEF SourceFits
  <1> QED  BY <1>1, <1>2, <1>3, <1>4, OrderStep

LEMMA SourceFitsInit ==
    ASSUME Init
    PROVE  SourceFits
  <1>1. PICK s \in Scopes :
          /\ def \in [ndim : s.ndims, agg : s.aggs, top : s.tops]
          /\ plan \in PlanOf(s, def.ndim)
          /\ \E n \in 0..s.maxRows : pending \in [1..n -> Record(s, def.ndim)]
    BY DEF Init
  <1>2. def.ndim \in Nat
    <2>1. s.ndims \subseteq Nat
      BY ReportLayoutAssumption, ReportPipelineAssumption
    <2> QED  BY <1>1, <2>1
  <1>3. PICK o \in s.sorts : plan.sort = [d \in 1..def.ndim |-> o]
    BY <1>1 DEF PlanOf
  <1>4. {"sort", "source"} \subseteq DOMAIN plan
    BY <1>1 DEF PlanOf
  <1>5. pending \in Seq(Record(s, def.ndim)) /\ input = <<>> /\ stage = "load"
    <2>1. PICK n \in 0..s.maxRows : pending \in [1..n -> Record(s, def.ndim)]
      BY <1>1
    <2>2. n \in Nat
      OBVIOUS
    <2> QED  BY <2>1, <2>2 DEF Init, LayoutInit
  <1>6. input \in Seq(Record(s, def.ndim))
    BY <1>5
  <1> QED  BY <1>2, <1>3, <1>4, <1>5, <1>6 DEF SourceFits
-----------------------------------------------------------------------------
(* The groups.                                                               *)

(* A record of the source has a key for every dimension and, in a table, a   *)
(* sort key, and a value.                                                    *)
FitRecord(r, ndim, source) ==
    /\ r.keys \in [1..ndim -> Keys]
    /\ \A d \in DOMAIN r.ords : r.ords[d] \in Keys
    /\ source = "db" => DOMAIN r.ords = 1..ndim
    /\ r.value \in Kinds \X Int

(* So do those that are still to be fed. *)
RecordsFit ==
    /\ "source" \in DOMAIN plan
    /\ \E S : pending \in Seq(S) /\ \A r \in S : FitRecord(r, def.ndim, plan.source)

LEMMA SourceStays ==
    ASSUME "source" \in DOMAIN plan, [Next]_vars
    PROVE  plan'.source = plan.source /\ "source" \in DOMAIN plan'
  <1>1. ASSUME NEW w, ShowWindow(w[1], w[2])
        PROVE  plan'.source = plan.source /\ "source" \in DOMAIN plan'
    <2>1. plan' = [plan EXCEPT !.windows = {<<w[1], w[2]>>}]
      BY <1>1 DEF ShowWindow
    <2> QED  BY <2>1, Zenon
  <1>2. CASE UNCHANGED plan
    BY <1>2
  <1>3. \/ UNCHANGED plan
        \/ \E w \in plan.windows : ShowWindow(w[1], w[2])
    BY DEF Next, vars, pipelineVars, Load, LoadFails, FeedRow, LayOut, ReadRules,
       RulesInvalid, NextCell, ApplyRule, RuleStops, BuildFormats, Render, Finished
  <1> QED  BY <1>1, <1>2, <1>3

LEMMA ParsedValue ==
    ASSUME NEW v \in Kinds \X Int
    PROVE  Parsed(v) \in Kinds \X Int
  BY DEF Parsed, Kinds

(* The record that is fed next. *)
LEMMA FedRecord ==
    ASSUME RecordsFit, FeedRow
    PROVE  FitRecord(Head(pending), def.ndim, plan.source) /\ Feed(Head(pending))
  <1>1. PICK S : pending \in Seq(S) /\ \A r \in S : FitRecord(r, def.ndim, plan.source)
    BY DEF RecordsFit
  <1>2. pending # <<>> /\ Feed(Head(pending))
    BY DEF FeedRow
  <1> QED  BY <1>1, <1>2, HeadTailProperties

LEMMA RecordsStep ==
    ASSUME RecordsFit, [Next]_vars
    PROVE  RecordsFit'
  <1>1. PICK S : pending \in Seq(S) /\ \A r \in S : FitRecord(r, def.ndim, plan.source)
    BY DEF RecordsFit
  <1>6. plan'.source = plan.source /\ "source" \in DOMAIN plan'
    BY SourceStays DEF RecordsFit
  <1>2. CASE Load
    <2>1. PICK p \in Orders :
            pending' = [i \in DOMAIN p |->
                          [keys |-> pending[p[i]].keys, ords |-> pending[p[i]].ords,
                           value |-> Parsed(pending[p[i]].value), no |-> RowNo(p[i])]]
      BY <1>2 DEF Load
    <2>2. p \in Seq(1..Len(pending)) /\ def' = def
      BY <1>2, <2>1, FileOrdersRespect, DBOrdersRespect DEF Orders, Load, layoutVars
    <2>3. DOMAIN p = 1..Len(p) /\ Len(p) \in Nat /\ \A i \in 1..Len(p) : pending[p[i]] \in S
      BY <1>1, <2>2
    <2> DEFINE S2 == {pending'[i] : i \in 1..Len(p)}
    <2>4. ASSUME NEW r \in S2
          PROVE  FitRecord(r, def'.ndim, plan'.source)
      <3>1. PICK i \in 1..Len(p) : r = pending'[i]
        OBVIOUS
      <3>2. FitRecord(pending[p[i]], def.ndim, plan.source)
        BY <1>1, <2>3
      <3>3. /\ r.keys = pending[p[i]].keys
            /\ r.ords = pending[p[i]].ords
            /\ r.value = Parsed(pending[p[i]].value)
        BY <2>1, <2>3, <3>1
      <3> QED  BY <1>6, <2>2, <3>2, <3>3, ParsedValue DEF FitRecord
    <2>5. pending' \in Seq(S2)
      <3>1. pending' \in [1..Len(p) -> S2]
        BY <2>1, <2>3
      <3> HIDE DEF S2
      <3> QED  BY <2>3, <3>1
    <2> QED  BY <1>6, <2>4, <2>5 DEF RecordsFit
  <1>3. CASE FeedRow
    <2>1. pending # <<>> /\ pending' = Tail(pending) /\ def' = def
      BY <1>3 DEF FeedRow, Feed
    <2>2. pending' \in Seq(S)
      BY <1>1, <2>1, HeadTailProperties
    <2> QED  BY <1>1, <1>6, <2>1, <2>2 DEF RecordsFit
  <1>4. CASE UNCHANGED <<def, pending>>
    BY <1>1, <1>4, <1>6 DEF RecordsFit
  <1>5. Load \/ FeedRow \/ UNCHANGED <<def, pending>>
    BY DEF Next, vars, layoutVars, pipelineVars, LoadFails, LayOut, LayoutPass, Finish,
       PositionRow, PositionEnd, Assemble, ReadRules, RulesInvalid, NextCell, ApplyRule,
       RuleStops, BuildFormats, Render, ShowWindow, Finished
  <1> QED  BY <1>2, <1>3, <1>4, <1>5

LEMMA GroupsStayFit ==
    ASSUME GroupsFit, RecordsFit, [Next]_vars
    PROVE  GroupsFit'
  <1>1. CASE FeedRow
    <2>1. FitRecord(Head(pending), def.ndim, plan.source) /\ Feed(Head(pending))
      BY <1>1, FedRecord
    <2> QED  BY <2>1, FeedKeepsGroups DEF FitRecord
  <1>2. CASE Finish
    BY <1>2, FinishKeepsGroups
  <1>3. CASE PositionRow \/ PositionEnd \/ Assemble
    <2>1. UNCHANGED <<def, rows>> /\ phase' # "feed"
      BY <1>3 DEF PositionRow, PositionEnd, Assemble, groupVars
    <2> QED  BY <2>1 DEF GroupsFit
  <1>4. CASE UNCHANGED layoutVars
    BY <1>4 DEF layoutVars, groupVars, GroupsFit, GroupsOpen, OpenPath
  <1> QED  BY <1>1, <1>2, <1>3, <1>4, LayoutStep DEF LayoutPass

LEMMA GroupsFitInit ==
    ASSUME Init
    PROVE  GroupsFit /\ RecordsFit /\ RowsDeep
  <1>1. PICK s \in Scopes :
          /\ def \in [ndim : s.ndims, agg : s.aggs, top : s.tops]
          /\ plan \in PlanOf(s, def.ndim)
          /\ \E n \in 0..s.maxRows : pending \in [1..n -> Record(s, def.ndim)]
    BY DEF Init
  <1>2. def.ndim \in Nat
    <2>1. s.ndims \subseteq Nat
      BY ReportLayoutAssumption, ReportPipelineAssumption
    <2> QED  BY <1>1, <2>1
  <1>3. rows = <<>> /\ stack = <<>>
    BY DEF Init, LayoutInit
  <1>4. GroupsFit
    <2>1. rows \in Seq({}) /\ stack \in Seq({}) /\ Len(rows) = 0 /\ Len(stack) = 0
      BY <1>3
    <2>2. GroupsOpen
      BY <1>3, <2>1 DEF GroupsOpen
    <2> QED  BY <1>2, <2>1, <2>2 DEF GroupsFit, Lawful
  <1>5. pending \in Seq(Record(s, def.ndim))
    <2>1. PICK n \in 0..s.maxRows : pending \in [1..n -> Record(s, def.ndim)]
      BY <1>1
    <2>2. n \in Nat
      OBVIOUS
    <2> QED  BY <2>1, <2>2
  <1>8. "source" \in DOMAIN plan /\ plan.source \in s.sources
    BY <1>1 DEF PlanOf
  <1>6. \A r \in Record(s, def.ndim) : FitRecord(r, def.ndim, plan.source)
    <2> SUFFICES ASSUME NEW r \in Record(s, def.ndim)
                 PROVE  FitRecord(r, def.ndim, plan.source)
      OBVIOUS
    <2>1. /\ s.values \subseteq Kinds \X Int /\ s.ords \subseteq Keys
          /\ plan.source = "db" => s.gaps = FALSE
      BY <1>8, ReportLayoutAssumption, ReportPipelineAssumption
    <2>2. /\ r.keys \in [1..def.ndim -> Keys] /\ r.ords \in SortKeys(s, def.ndim)
          /\ r.value \in s.values
      BY DEF Record
    <2>3. PICK dims \in IF s.gaps THEN SUBSET (1..def.ndim) ELSE {1..def.ndim} :
            r.ords \in [dims -> s.ords]
      BY <2>2 DEF SortKeys
    <2>4. plan.source = "db" => dims = 1..def.ndim
      BY <2>1, <2>3
    <2> QED  BY <2>1, <2>2, <2>3, <2>4 DEF FitRecord
  <1>7. RowsDeep
    <2>1. rows \in Seq({})
      BY <1>3
    <2> QED  BY <2>1 DEF RowsDeep
  <1> QED  BY <1>4, <1>5, <1>6, <1>7, <1>8 DEF RecordsFit

(* Every subtotal of every report covers its group and nothing else.         *)
THEOREM SubtotalsCoverGroups == Spec => []SubtotalCoversGroup
  <1>1. Init => GroupsFit /\ RecordsFit
    BY GroupsFitInit
  <1>2. GroupsFit => SubtotalCoversGroup
    BY LawfulSubtotalsCover
  <1> QED  BY <1>1, <1>2, RecordsStep, GroupsStayFit, PTL DEF Spec

(* Rows are totalled one by one as they are fed. *)
LEMMA TotalsStayFit ==
    ASSUME GroupsFit, RecordsFit, TotalsFit, [Next]_vars
    PROVE  TotalsFit'
  <1>1. CASE FeedRow
    <2>1. FitRecord(Head(pending), def.ndim, plan.source) /\ Feed(Head(pending))
      BY <1>1, FedRecord
    <2> QED  BY <2>1, FeedKeepsTotals DEF FitRecord
  <1>2. CASE Finish
    BY <1>2, FinishKeepsTotals
  <1>3. CASE PositionRow \/ PositionEnd \/ Assemble
    <2>1. UNCHANGED <<def, input, rows>> /\ phase # "feed" /\ phase' # "feed"
      BY <1>3 DEF PositionRow, PositionEnd, Assemble, groupVars
    <2> QED  BY <2>1 DEF TotalsFit, Details, Totalled
  <1>4. CASE UNCHANGED layoutVars
    BY <1>4 DEF layoutVars, groupVars, TotalsFit, Details, Totalled
  <1> QED  BY <1>1, <1>2, <1>3, <1>4, LayoutStep DEF LayoutPass

LEMMA TotalsFitInit ==
    ASSUME Init
    PROVE  TotalsFit
  <1>1. rows = <<>> /\ input = <<>> /\ phase = "feed"
    BY DEF Init, LayoutInit
  <1>2. input \in Seq({}) /\ Len(input) = 0 /\ Len(rows) = 0
    BY <1>1
  <1>3. Details(rows) = {}
    BY <1>2 DEF Details
  <1> QED  BY <1>1, <1>2, <1>3, FS_EmptySet DEF TotalsFit

(* Whatever the rows, each is in one subtotal of every depth and in the      *)
(* total: no number is left out of a total, none is counted twice.           *)
THEOREM RowsAreTotalled == Spec => []EveryRowIsTotalled
  <1>1. Init => GroupsFit /\ RecordsFit /\ TotalsFit
    BY GroupsFitInit, TotalsFitInit
  <1>2. GroupsFit /\ TotalsFit => EveryRowIsTotalled
    BY FittingTotalsCount
  <1> QED  BY <1>1, <1>2, RecordsStep, GroupsStayFit, TotalsStayFit, PTL DEF Spec

(* The tallies count, sample and aggregate the rows as they are fed. *)
LEMMA TalliesStayFit ==
    ASSUME GroupsFit, RecordsFit, TotalsFit, TalliesFit, [Next]_vars
    PROVE  TalliesFit'
  <1>1. CASE FeedRow
    <2>1. FitRecord(Head(pending), def.ndim, plan.source) /\ Feed(Head(pending))
      BY <1>1, FedRecord
    <2> QED  BY <2>1, FeedKeepsTallies DEF FitRecord
  <1>2. CASE Finish
    BY <1>2, FinishKeepsTallies
  <1>3. CASE PositionRow \/ PositionEnd \/ Assemble
    <2>1. UNCHANGED <<def, rows>> /\ phase' # "feed"
      BY <1>3 DEF PositionRow, PositionEnd, Assemble, groupVars
    <2> QED  BY <2>1 DEF TalliesFit
  <1>4. CASE UNCHANGED layoutVars
    BY <1>4 DEF layoutVars, groupVars, TalliesFit
  <1> QED  BY <1>1, <1>2, <1>3, <1>4, LayoutStep DEF LayoutPass

LEMMA TalliesFitInit ==
    ASSUME Init
    PROVE  TalliesFit
  <1>1. /\ rows = <<>> /\ stack = <<>> /\ root = ZeroTally
        /\ Len(rows) = 0 /\ Len(stack) = 0
    BY DEF Init, LayoutInit
  <1>2. Details(rows) = {}
    BY <1>1 DEF Details
  <1>3. TallyFits(def.agg, rows, ZeroTally, {})
    BY NothingTallied
  <1>4. TallyFits(def.agg, rows, root, Details(rows))
    BY <1>1, <1>2, <1>3
  <1> QED  BY <1>1, <1>4 DEF TalliesFit

(* The trace of every subtotal and total names the first of the rows that it *)
(* was computed from, and counts all of them, in every report.               *)
THEOREM TracesNameRows == Spec => []TraceNamesRows
  <1>1. Init => GroupsFit /\ RecordsFit /\ TotalsFit
    BY GroupsFitInit, TotalsFitInit
  <1>2. Init => TalliesFit
    BY TalliesFitInit
  <1>3. GroupsFit /\ TalliesFit => TraceNamesRows
    BY FittingTraces
  <1> QED
    BY <1>1, <1>2, <1>3, RecordsStep, GroupsStayFit, TotalsStayFit, TalliesStayFit,
       PTL DEF Spec

LEMMA FormulasStayFit ==
    ASSUME FormulasFit, [Next]_vars
    PROVE  FormulasFit'
  <1>1. CASE FeedRow \/ Finish \/ PositionRow \/ PositionEnd
    <2>1. def' = def /\ phase' # "done"
      BY <1>1 DEF FeedRow, Feed, Finish, PositionRow, PositionEnd
    <2> QED  BY <2>1 DEF FormulasFit
  <1>2. CASE Assemble
    BY <1>2 DEF Assemble, groupVars, FormulasFit, Ranged
  <1>3. CASE UNCHANGED layoutVars
    BY <1>3 DEF layoutVars, groupVars, FormulasFit, Ranged
  <1> QED  BY <1>1, <1>2, <1>3, LayoutStep DEF LayoutPass

(* In every report, the value that is written beside a SUBTOTAL formula is   *)
(* what the formula evaluates to: no row is aggregated twice or left out,    *)
(* and the formula's range is that of the rows in the sheet.                 *)
THEOREM FormulasAgree == Spec => []FormulaAgrees
  <1>1. Init => GroupsFit /\ RecordsFit /\ TotalsFit /\ TalliesFit
    BY GroupsFitInit, TotalsFitInit, TalliesFitInit
  <1>2. Init => FormulasFit
    <2> SUFFICES ASSUME Init
                 PROVE  FormulasFit
      OBVIOUS
    <2>1. PICK s \in Scopes : def \in [ndim : s.ndims, agg : s.aggs, top : s.tops]
      BY DEF Init
    <2>2. s.aggs \subseteq {"sum", "avg", "count", "max", "min"}
      BY ReportLayoutAssumption, ReportPipelineAssumption
    <2>3. phase = "feed"
      BY DEF Init, LayoutInit
    <2> QED  BY <2>1, <2>2, <2>3 DEF FormulasFit
  <1>3. GroupsFit /\ TotalsFit /\ TalliesFit /\ FormulasFit => FormulaAgrees
    BY FittingFormulas
  <1> QED
    BY <1>1, <1>2, <1>3, RecordsStep, GroupsStayFit, TotalsStayFit, TalliesStayFit,
       FormulasStayFit, PTL DEF Spec
-----------------------------------------------------------------------------
(* The merged cells.                                                         *)

LEMMA RowsStayDeep ==
    ASSUME GroupsFit, RecordsFit, RowsDeep, [Next]_vars
    PROVE  RowsDeep'
  <1>1. CASE FeedRow
    <2>1. FitRecord(Head(pending), def.ndim, plan.source) /\ Feed(Head(pending))
      BY <1>1, FedRecord
    <2> QED  BY <2>1, FeedKeepsRowsDeep DEF FitRecord
  <1>2. CASE Finish
    BY <1>2, FinishKeepsRowsDeep
  <1>3. CASE PositionRow \/ PositionEnd \/ Assemble \/ UNCHANGED layoutVars
    <2>1. UNCHANGED <<def, rows>>
      BY <1>3 DEF PositionRow, PositionEnd, Assemble, groupVars, layoutVars
    <2> QED  BY <2>1 DEF RowsDeep, DeepRow
  <1> QED  BY <1>1, <1>2, <1>3, LayoutStep DEF LayoutPass

LEMMA ValueStaysKept ==
    ASSUME SpansFit, RowsDeep, ValueKept, [Next]_vars
    PROVE  ValueKept'
  <1>1. CASE FeedRow \/ Finish
    <2>1. UNCHANGED positionVars /\ phase = "feed"
      BY <1>1 DEF FeedRow, Feed, Finish
    <2>2. spans = <<>> /\ merges = {} /\ Len(spans) = 0
      BY <2>1 DEF ValueKept
    <2> QED  BY <2>1, <2>2 DEF ValueKept, positionVars, Hidden
  <1>2. CASE PositionRow
    BY <1>2, PositionRowKeepsValue
  <1>3. CASE PositionEnd
    BY <1>3, PositionEndKeepsValue
  <1>4. CASE Assemble \/ UNCHANGED layoutVars
    <2>1. UNCHANGED <<rows, positionVars>> /\ (phase' = "feed" => phase = "feed")
      BY <1>4 DEF Assemble, layoutVars, groupVars
    <2> QED  BY <2>1 DEF ValueKept, positionVars, Under, Hidden
  <1> QED  BY <1>1, <1>2, <1>3, <1>4, LayoutStep DEF LayoutPass

(* No merged range of any report hides a value it does not show.             *)
THEOREM MergedCellsKeepValue == Spec => []MergeKeepsValue
  <1>1. Init => GroupsFit /\ RecordsFit /\ RowsDeep
    BY GroupsFitInit
  <1>2. Init => SpansFit /\ Nest /\ ValueKept
    <2>1. Init => spans = <<>> /\ merges = {} /\ blank = {}
      BY DEF Init, LayoutInit
    <2> QED  BY <2>1, SpansFitInit DEF ValueKept, Hidden
  <1>3. SpansFit /\ ValueKept => MergeKeepsValue
    BY KeptIsShown
  <1> QED
    BY <1>1, <1>2, <1>3, RecordsStep, GroupsStayFit, RowsStayDeep, SpansStayFit, ValueStaysKept,
       PTL DEF Spec
-----------------------------------------------------------------------------
(* The edges of groups.                                                      *)

LEMMA NumbersStayFit ==
    ASSUME GroupsFit, RecordsFit, TotalsFit, NumbersFit, [Next]_vars
    PROVE  NumbersFit'
  <1>1. CASE FeedRow
    <2>1. FitRecord(Head(pending), def.ndim, plan.source) /\ Feed(Head(pending))
      BY <1>1, FedRecord
    <2> QED  BY <2>1, FeedKeepsNumbers DEF FitRecord
  <1>2. CASE Finish
    BY <1>2, FinishKeepsNumbers
  <1>3. CASE PositionRow \/ PositionEnd \/ Assemble
    <2>1. UNCHANGED <<def, rows>> /\ phase' # "feed"
      BY <1>3 DEF PositionRow, PositionEnd, Assemble, groupVars
    <2> QED  BY <2>1 DEF NumbersFit, Numbered, GroupsEnd, Details, Under, IsSubtotal
  <1>4. CASE UNCHANGED layoutVars
    BY <1>4 DEF layoutVars, groupVars, NumbersFit, Numbered, GroupsEnd, Details, Under,
       IsSubtotal
  <1> QED  BY <1>1, <1>2, <1>3, <1>4, LayoutStep DEF LayoutPass

LEMMA EdgesStayFit ==
    ASSUME GroupsFit, RowsDeep, TotalsFit, NumbersFit, SpansFit, EdgesFit, [Next]_vars
    PROVE  EdgesFit'
  <1>1. CASE FeedRow
    BY <1>1 DEF FeedRow, Feed, EdgesFit, positionVars
  <1>2. CASE Finish
    <2>1. /\ spans' = <<>> /\ first' = {} /\ last' = {} /\ at' = 1 /\ Len(spans') = 0
          /\ phase' = "position"
      BY <1>2 DEF Finish, EdgesFit, positionVars
    <2>2. GroupsFit'
      BY <1>2, FinishKeepsGroups
    <2>3. Len(rows') \in Nat
      BY <2>2 DEF GroupsFit
    <2>4. ASSUME NEW t \in 1..Len(rows'), IsSubtotal(rows', t)
          PROVE  ~(rows'[t].from < 1) /\ ~(t < 0)
      <3>1. Covers1(rows', t)
        BY <2>2, <2>4 DEF GroupsFit, Lawful
      <3> QED  BY <2>3, <3>1 DEF Covers1, IsGroup
    <2>5. ASSUME NEW t \in SubtotalRows'
          PROVE  ~(rows'[t].from < 1) /\ ~(t < 0)
      <3>1. t \in 1..Len(rows') /\ IsSubtotal(rows', t)
        BY <2>2 DEF SubtotalRows, IsSubtotal, GroupsFit
      <3> QED  BY <2>4, <3>1
    <2>6. \A t, d : Closes(t, d)' => ~(rows'[t].from < 1)
      BY <2>4 DEF Closes
    <2>7. /\ {t \in SubtotalRows : rows[t].from < at}' = {}
          /\ {t \in SubtotalRows : t < at - 1}' = {}
      BY <2>1, <2>5
    <2>8. /\ first' = Firsts({t \in SubtotalRows : rows[t].from < at})'
          /\ last' = Lasts({t \in SubtotalRows : t < at - 1})'
      BY <2>1, <2>7 DEF Firsts, Lasts
    <2>9. /\ at' <= Len(rows') + 1
          /\ \A t, d : ~(Closes(t, d)' /\ rows'[t].from < at' /\ at' - 1 <= t)
      BY <2>1, <2>3, <2>6
    <2> QED  BY <2>1, <2>8, <2>9 DEF EdgesFit
  <1>3. CASE PositionRow
    BY <1>3, PositionRowKeepsEdges DEF NumbersFit
  <1>4. CASE PositionEnd
    BY <1>4, PositionEndKeepsEdges
  <1>5. CASE Assemble
    BY <1>5 DEF Assemble, groupVars, positionVars, EdgesFit, Firsts, Lasts, SubtotalRows, Level
  <1>6. CASE UNCHANGED layoutVars
    BY <1>6 DEF layoutVars, groupVars, positionVars, EdgesFit, Firsts, Lasts, SubtotalRows,
       Level, Closes, IsSubtotal
  <1> QED  BY <1>1, <1>2, <1>3, <1>4, <1>5, <1>6, LayoutStep DEF LayoutPass

LEMMA NumbersFitInit ==
    ASSUME Init
    PROVE  NumbersFit /\ EdgesFit
  <1>1. /\ rows = <<>> /\ phase = "feed" /\ spans = <<>> /\ first = {} /\ last = {}
        /\ at = 1 /\ Len(rows) = 0
    BY DEF Init, LayoutInit
  <1>2. Details(rows) = {}
    BY <1>1 DEF Details
  <1> QED  BY <1>1, <1>2 DEF NumbersFit, Numbered, GroupsEnd, EdgesFit

(* The first and last rows that the engine marks are those of the groups,    *)
(* and rows are numbered within their innermost group.                       *)
THEOREM EdgesAreGroups == Spec => []GroupEdges
  <1>1. Init => GroupsFit /\ RecordsFit /\ RowsDeep /\ TotalsFit
    BY GroupsFitInit, TotalsFitInit
  <1>2. Init => SpansFit /\ Nest
    BY SpansFitInit
  <1>3. Init => NumbersFit /\ EdgesFit
    BY NumbersFitInit
  <1>4. GroupsFit /\ NumbersFit /\ EdgesFit => GroupEdges
    BY FittingEdges
  <1> QED
    BY <1>1, <1>2, <1>3, <1>4, RecordsStep, GroupsStayFit, RowsStayDeep, TotalsStayFit,
       NumbersStayFit, SpansStayFit, EdgesStayFit, PTL DEF Spec
-----------------------------------------------------------------------------
(* The preview.                                                              *)

(* The bounds of a window are integers, and what was shown is its page. *)
WindowFits ==
    /\ "windows" \in DOMAIN plan
    /\ plan.windows \subseteq Int \X Int
    /\ stage = "shown" =>
         \E from, to \in Int : plan.windows = {<<from, to>>} /\ window = Page(from, to)

Greater(m, n) == IF m >= n THEN m ELSE n
Lesser(m, n) == IF m <= n THEN m ELSE n

LEMMA GreaterOfTwo ==
    ASSUME NEW m \in Int, NEW n \in Int
    PROVE  Max({m, n}) = Greater(m, n) /\ Greater(m, n) \in Int
  <1>1. CASE m >= n
    <2>1. m \in {m, n} /\ {m, n} \subseteq Int /\ \A x \in {m, n} : x <= m
      BY <1>1
    <2> QED  BY <1>1, <2>1, GreatestIsMax DEF Greater
  <1>2. CASE ~(m >= n)
    <2>1. n \in {m, n} /\ {m, n} \subseteq Int /\ \A x \in {m, n} : x <= n
      BY <1>2
    <2> QED  BY <1>2, <2>1, GreatestIsMax DEF Greater
  <1> QED  BY <1>1, <1>2

LEMMA LesserOfTwo ==
    ASSUME NEW m \in Int, NEW n \in Int
    PROVE  Min({m, n}) = Lesser(m, n) /\ Lesser(m, n) \in Int
  <1>1. CASE m <= n
    <2>1. m \in {m, n} /\ {m, n} \subseteq Int /\ \A x \in {m, n} : m <= x
      BY <1>1
    <2> QED  BY <1>1, <2>1, LeastIsMin DEF Lesser
  <1>2. CASE ~(m <= n)
    <2>1. n \in {m, n} /\ {m, n} \subseteq Int /\ \A x \in {m, n} : n <= x
      BY <1>2
    <2> QED  BY <1>2, <2>1, LeastIsMin DEF Lesser
  <1> QED  BY <1>1, <1>2

(* Rows f + 1 to t are those of the window [from, to). *)
SameRows(from, to, f, t, n) ==
    \A p \in 1..n : from <= p - 1 /\ p - 1 < to <=> f < p /\ p <= t

(* Clipping the bounds of a window to n rows keeps the rows between them. *)
LEMMA Clipped ==
    ASSUME NEW from \in Int, NEW to \in Int, NEW n \in Nat,
           NEW f, f = Lesser(Greater(from, 0), n),
           NEW t, t = Lesser(Greater(to, f), n)
    PROVE  /\ f \in 0..n
           /\ t \in f..n
           /\ SameRows(from, to, f, t, n)
  <1>1. f \in Int /\ 0 <= f /\ f <= n
    BY DEF Lesser, Greater
  <1>2. t \in Int /\ f <= t /\ t <= n
    BY <1>1 DEF Lesser, Greater
  <1>3. ASSUME NEW p \in 1..n
        PROVE  from <= p - 1 /\ p - 1 < to <=> f < p /\ p <= t
    <2>1. p \in Int /\ 1 <= p /\ p <= n
      OBVIOUS
    <2>2. from <= p - 1 <=> f < p
      BY <2>1 DEF Lesser, Greater
    <2>3. f < p => (p - 1 < to <=> p <= t)
      BY <1>1, <2>1 DEF Lesser, Greater
    <2> QED  BY <2>2, <2>3
  <1> QED  BY <1>1, <1>2, <1>3 DEF SameRows

(* What WindowIsSlice asks of a page. *)
IsSlice(page, from, to) ==
    LET asked == {p \in DOMAIN rows : from <= p - 1 /\ p - 1 < to}
    IN /\ page[1] = 1
       /\ {page[i] : i \in 2..Len(page)} = {PrintedLine(p) : p \in asked}
       /\ \A i, j \in DOMAIN page : i < j => page[i] < page[j]

(* A page is the header and the rows from its one bound to the other. *)
LEMMA PageIsSlice ==
    ASSUME NEW from \in Int, NEW to \in Int, Len(rows) \in Nat, DOMAIN rows = 1..Len(rows)
    PROVE  IsSlice(Page(from, to), from, to)
  <1> DEFINE f == Min({Max({from, 0}), Len(rows)})
             t == Min({Max({to, f}), Len(rows)})
             lines == [i \in 1..(t - f) |-> PrintedLine(f + i)]
             asked == {p \in DOMAIN rows : from <= p - 1 /\ p - 1 < to}
  <1>1. f = Lesser(Greater(from, 0), Len(rows))
    <2>1. PICK zero \in Int : zero = 0
      OBVIOUS
    <2>2. Max({from, zero}) = Greater(from, zero) /\ Greater(from, zero) \in Int
      BY GreaterOfTwo
    <2>3. Len(rows) \in Int
      OBVIOUS
    <2>4. Min({Greater(from, zero), Len(rows)}) = Lesser(Greater(from, zero), Len(rows))
      BY <2>2, <2>3, LesserOfTwo
    <2> QED  BY <2>1, <2>2, <2>4
  <1>2. f \in Int
    BY <1>1 DEF Lesser, Greater
  <1> HIDE DEF f
  <1>3. t = Lesser(Greater(to, f), Len(rows))
    <2>1. Max({to, f}) = Greater(to, f) /\ Greater(to, f) \in Int
      BY <1>2, GreaterOfTwo
    <2>2. Len(rows) \in Int
      OBVIOUS
    <2> QED  BY <2>1, <2>2, LesserOfTwo
  <1> HIDE DEF t
  <1>4. f \in 0..Len(rows)
    BY <1>1, <1>3, Clipped
  <1>5. f \in Int
    BY <1>2
  <1>9. t \in f..Len(rows)
    BY <1>1, <1>3, Clipped
  <1>10. \A p \in 1..Len(rows) : p \in asked <=> f < p /\ p <= t
    <2>1. SameRows(from, to, f, t, Len(rows))
      BY <1>1, <1>3, Clipped
    <2> QED  BY <2>1 DEF SameRows
  <1>11. asked = f + 1..t
    <2>1. asked \subseteq 1..Len(rows)
      OBVIOUS
    <2>2. \A p \in f + 1..t : p \in 1..Len(rows) /\ f < p /\ p <= t
      BY <1>4, <1>9
    <2>3. \A p \in 1..Len(rows) : f < p /\ p <= t => p \in f + 1..t
      BY <1>4, <1>9
    <2> HIDE DEF asked
    <2> QED  BY <1>10, <2>1, <2>2, <2>3, Zenon
  <1> HIDE DEF asked
  <1>12. /\ lines \in Seq(Int) /\ Len(lines) = t - f
         /\ \A i \in 1..t - f : lines[i] = f + i + 1
    <2>1. t - f \in Nat
      BY <1>4, <1>9
    <2>2. lines \in [1..t - f -> Int] /\ \A i \in 1..t - f : lines[i] = f + i + 1
      BY <1>5 DEF PrintedLine
    <2> QED  BY <2>1, <2>2
  <1> HIDE DEF lines
  <1> DEFINE page == <<1>> \o lines
  <1>13. /\ Len(page) = t - f + 1 /\ page[1] = 1
         /\ \A i \in 2..t - f + 1 : page[i] = f + i
         /\ DOMAIN page = 1..t - f + 1
    <2>1. <<1>> \in Seq(Int) /\ Len(<<1>>) = 1 /\ <<1>>[1] = 1
      OBVIOUS
    <2>2. /\ page \in Seq(Int) /\ Len(page) = 1 + Len(lines)
          /\ \A i \in 1..1 + Len(lines) :
               page[i] = IF i <= 1 THEN <<1>>[i] ELSE lines[i - 1]
      BY <1>12, <2>1, ConcatProperties
    <2>3. Len(page) = t - f + 1 /\ DOMAIN page = 1..t - f + 1 /\ t - f \in Nat
      BY <1>4, <1>9, <1>12, <2>2
    <2>4. page[1] = 1
      BY <1>12, <2>1, <2>2, <2>3
    <2>5. ASSUME NEW i \in 2..t - f + 1
          PROVE  page[i] = f + i
      <3>1. i \in 1..1 + Len(lines) /\ ~(i <= 1) /\ i - 1 \in 1..t - f
        BY <1>12, <2>3
      <3>2. page[i] = lines[i - 1] /\ lines[i - 1] = f + (i - 1) + 1
        BY <1>12, <2>2, <3>1
      <3> QED  BY <1>5, <3>1, <3>2
    <2> QED  BY <2>3, <2>4, <2>5
  <1>14. page = Page(from, to)
    BY DEF Page, f, t, lines
  <1> HIDE DEF page
  <1>15. ASSUME NEW i \in DOMAIN page, NEW j \in DOMAIN page, i < j
         PROVE  page[i] < page[j]
    <2>1. i \in Nat /\ j \in 2..t - f + 1 /\ f \in Nat /\ page[j] = f + j
      BY <1>4, <1>9, <1>13, <1>15
    <2>2. CASE i = 1
      BY <1>13, <2>1, <2>2
    <2>3. CASE i # 1
      <3>1. page[i] = f + i
        BY <1>13, <2>3
      <3> QED  BY <1>15, <2>1, <3>1
    <2> QED  BY <2>2, <2>3
  <1>16. {page[i] : i \in 2..Len(page)} = {PrintedLine(p) : p \in asked}
    <2>1. \A i \in 2..Len(page) : i + f - 1 \in asked /\ page[i] = PrintedLine(i + f - 1)
      BY <1>4, <1>9, <1>11, <1>13 DEF PrintedLine
    <2>2. \A p \in asked : p - f + 1 \in 2..Len(page) /\ page[p - f + 1] = PrintedLine(p)
      BY <1>4, <1>9, <1>11, <1>13 DEF PrintedLine
    <2> QED  BY <2>1, <2>2
  <1> QED  BY <1>13, <1>14, <1>15, <1>16 DEF asked, IsSlice

LEMMA WindowStep ==
    ASSUME WindowFits, [Next]_vars
    PROVE  WindowFits'
  <1>1. CASE \E w \in plan.windows : ShowWindow(w[1], w[2])
    <2>1. PICK w \in plan.windows : ShowWindow(w[1], w[2])
      BY <1>1
    <2>2. w[1] \in Int /\ w[2] \in Int
      BY <2>1 DEF WindowFits
    <2>3. /\ UNCHANGED rows
          /\ plan' = [plan EXCEPT !.windows = {<<w[1], w[2]>>}]
          /\ window' = Page(w[1], w[2])
      BY <2>1 DEF ShowWindow, layoutVars, groupVars
    <2>4. DOMAIN plan' = DOMAIN plan /\ plan'.windows = {<<w[1], w[2]>>}
      BY <2>3, Zenon DEF WindowFits
    <2>5. window' = Page(w[1], w[2])'
      BY <2>3 DEF Page, PrintedLine
    <2> QED  BY <2>2, <2>4, <2>5 DEF WindowFits
  <1>2. CASE /\ plan' = plan
             /\ stage' = "shown" => stage = "shown" /\ UNCHANGED <<rows, window>>
    BY <1>2 DEF WindowFits, Page, PrintedLine
  <1>3. ASSUME ~\E w \in plan.windows : ShowWindow(w[1], w[2])
        PROVE  /\ plan' = plan
               /\ stage' = "shown" => stage = "shown" /\ UNCHANGED <<rows, window>>
    BY <1>3 DEF Next, vars, layoutVars, groupVars, pipelineVars, Load, LoadFails, FeedRow,
         LayOut, ReadRules, RulesInvalid, NextCell, ApplyRule, RuleStops, BuildFormats,
         Render, Finished
  <1> QED  BY <1>1, <1>2, <1>3 DEF SameRows

(* Whatever window is asked for, the preview shows the header and then       *)
(* exactly the rows of the window that there are, in their order.            *)
THEOREM WindowsAreSlices == Spec => []WindowIsSlice
  <1>1. Init => GroupsFit /\ RecordsFit
    BY GroupsFitInit
  <1>2. Init => WindowFits
    <2> SUFFICES ASSUME Init
                 PROVE  WindowFits
      OBVIOUS
    <2>1. PICK s \in Scopes : plan \in PlanOf(s, def.ndim)
      BY DEF Init
    <2>2. "windows" \in DOMAIN plan /\ plan.windows = s.windows
      BY <2>1 DEF PlanOf
    <2>3. s.windows \subseteq Int \X Int
      BY ReportPipelineAssumption
    <2>4. stage = "load"
      BY DEF Init
    <2> QED  BY <2>2, <2>3, <2>4 DEF WindowFits
  <1>3. GroupsFit /\ WindowFits => WindowIsSlice
    <2> SUFFICES ASSUME GroupsFit, WindowFits, stage = "shown", NEW w \in plan.windows
                 PROVE  IsSlice(window, w[1], w[2])
      BY DEF WindowIsSlice, IsSlice
    <2>1. PICK from \in Int, to \in Int :
            plan.windows = {<<from, to>>} /\ window = Page(from, to)
      BY DEF WindowFits
    <2>2. w[1] = from /\ w[2] = to
      BY <2>1
    <2>3. Len(rows) \in Nat /\ DOMAIN rows = 1..Len(rows)
      BY DEF GroupsFit
    <2> QED  BY <2>1, <2>2, <2>3, PageIsSlice
  <1> QED
    BY <1>1, <1>2, <1>3, RecordsStep, GroupsStayFit, WindowStep, PTL DEF Spec
-----------------------------------------------------------------------------
(* The conditional formats.                                                  *)

(* What BuildFormats gives a format as its ranges. *)
RangesOf(perGroup) ==
    {<<PrintedLine(b[1]), PrintedLine(b[2])>> : b \in Bands(perGroup)}

(* The format of the definition is the one that was built. *)
SameFormat(f, built) ==
    /\ f.metric = Metric
    /\ built.id = f.id
    /\ built.ranges = RangesOf(f.perGroup)

Built == stage \in {"built", "rendered", "shown"}

FormatsFit ==
    /\ "formats" \in DOMAIN plan
    /\ IsList(plan.formats)
    /\ Built \/ stage = "cells" => phase = "done"
    /\ ~Built => formats = <<>>
    /\ Built =>
         /\ \A i \in DOMAIN formats :
              rows # <<>> /\ \E j \in DOMAIN plan.formats :
                               SameFormat(plan.formats[j], formats[i])
         /\ \A j \in DOMAIN plan.formats :
              plan.formats[j].metric = Metric /\ rows # <<>> =>
                 \E i \in DOMAIN formats : SameFormat(plan.formats[j], formats[i])
    /\ stage = "rendered" => sheet = [range \in Ranges |-> Options(range)]

(* The ranges depend on the layout only. *)
LEMMA SameRanges ==
    ASSUME UNCHANGED <<def, rows, first, last>>, NEW perGroup
    PROVE  RangesOf(perGroup)' = RangesOf(perGroup)
  BY DEF RangesOf, Bands, LeafBands, PrintedLine

LEMMA BuiltFormats ==
    ASSUME FormatsFit, BuildFormats, rows # <<>>
    PROVE  /\ \A i \in DOMAIN formats' :
                \E j \in DOMAIN plan.formats : SameFormat(plan.formats[j], formats'[i])
           /\ \A j \in DOMAIN plan.formats :
                plan.formats[j].metric = Metric =>
                   \E i \in DOMAIN formats' : SameFormat(plan.formats[j], formats'[i])
  <1> DEFINE list == plan.formats
             S == {list[i] : i \in DOMAIN list}
             wanted == {j \in DOMAIN list : list[j].metric = Metric}
             shown == Kept(list, wanted)
  <1>1. formats' = [i \in DOMAIN shown |-> [id |-> shown[i].id,
                                            ranges |-> RangesOf(shown[i].perGroup)]]
    BY DEF BuildFormats, RangesOf
  <1>2. list \in Seq(S) /\ DOMAIN list = 1..Len(list)
    BY DEF FormatsFit, IsList
  <1>3. Keeps(S, list, wanted, Len(list), shown)
    <2> HIDE DEF S, list, wanted
    <2> QED  BY <1>2, KeptKeeps
  <1> HIDE DEF S, shown
  <1>4. PICK places : KeepsAt(S, list, wanted, Len(list), shown, places)
    BY <1>3 DEF Keeps
  <1>5. /\ DOMAIN shown = 1..Len(shown)
        /\ \A k \in 1..Len(shown) : /\ places[k] \in wanted
                                    /\ shown[k] = list[places[k]]
        /\ \A j \in wanted : \E k \in 1..Len(shown) : places[k] = j
    <2>1. wanted \cap (1..Len(list)) = wanted
      BY <1>2
    <2> HIDE DEF wanted
    <2> QED  BY <1>4, <2>1 DEF KeepsAt
  <1>6. \A k \in 1..Len(shown) : SameFormat(list[places[k]], formats'[k])
    BY <1>1, <1>5 DEF SameFormat
  <1>7. DOMAIN formats' = 1..Len(shown)
    BY <1>1, <1>5
  <1>8. \A k \in 1..Len(shown) : places[k] \in DOMAIN list
    BY <1>5
  <1>9. \A j \in DOMAIN list : list[j].metric = Metric =>
            \E k \in 1..Len(shown) : places[k] = j
    BY <1>5
  <1> HIDE DEF wanted
  <1> QED  BY <1>6, <1>7, <1>8, <1>9

LEMMA FormatsStep ==
    ASSUME [Next]_vars, FormatsFit
    PROVE  \/ BuildFormats
           \/ Render
           \/ /\ "formats" \in DOMAIN plan' /\ plan'.formats = plan.formats
              /\ formats' = formats
              /\ Built' <=> Built
              /\ Built => UNCHANGED <<def, phase, rows, first, last, sheet>>
              /\ stage' = "cells" => phase' = "done"
              /\ stage' = "rendered" => stage = "rendered"
  <1>1. CASE \E w \in plan.windows : ShowWindow(w[1], w[2])
    <2>1. PICK w \in plan.windows : ShowWindow(w[1], w[2])
      BY <1>1
    <2>2. /\ UNCHANGED <<layoutVars, formats, sheet>> /\ Built /\ Built'
          /\ stage' = "shown"
          /\ plan' = [plan EXCEPT !.windows = {<<w[1], w[2]>>}]
      BY <2>1 DEF ShowWindow, Built
    <2>3. "formats" \in DOMAIN plan' /\ plan'.formats = plan.formats
      BY <2>2, Zenon DEF FormatsFit
    <2> QED  BY <2>2, <2>3 DEF layoutVars, groupVars, positionVars
  <1>2. CASE Load \/ LoadFails \/ FeedRow \/ LayOut
    <2>1. /\ UNCHANGED <<plan, formats>> /\ ~Built /\ ~Built'
          /\ stage' # "cells"
      BY <1>2 DEF Load, LoadFails, FeedRow, LayOut, pipelineVars, Built
    <2> QED  BY <2>1 DEF FormatsFit, Built
  <1>3. CASE ReadRules \/ RulesInvalid \/ NextCell \/ ApplyRule \/ RuleStops \/ Finished
             \/ UNCHANGED vars
    <2>1. /\ UNCHANGED <<layoutVars, plan, formats, sheet>>
          /\ stage' = "rendered" => stage = "rendered"
          /\ Built' <=> Built
          /\ stage' = "cells" => stage = "cells" \/ phase = "done"
      BY <1>3 DEF ReadRules, RulesInvalid, NextCell, ApplyRule, RuleStops, Finished, vars,
                  pipelineVars, Built
    <2> QED  BY <2>1 DEF FormatsFit, layoutVars, groupVars, positionVars
  <1> QED  BY <1>1, <1>2, <1>3 DEF Next

LEMMA FormatsStayFit ==
    ASSUME FormatsFit, [Next]_vars
    PROVE  FormatsFit'
  <1>1. CASE BuildFormats
    <2>1. /\ stage = "cells" /\ stage' = "built" /\ UNCHANGED <<layoutVars, plan>>
          /\ rows = <<>> => formats' = <<>>
      BY <1>1 DEF BuildFormats
    <2>2. UNCHANGED <<def, phase, rows, first, last>>
      BY <2>1 DEF layoutVars, groupVars, positionVars
    <2>4. /\ \A i \in DOMAIN formats' :
               rows # <<>> /\ \E j \in DOMAIN plan.formats :
                                SameFormat(plan.formats[j], formats'[i])
          /\ rows # <<>> => \A j \in DOMAIN plan.formats :
               plan.formats[j].metric = Metric =>
                  \E i \in DOMAIN formats' : SameFormat(plan.formats[j], formats'[i])
      BY <1>1, <2>1, BuiltFormats
    <2>5. Built' /\ phase' = "done"
      BY <2>1, <2>2 DEF FormatsFit, Built
    <2> QED  BY <2>1, <2>2, <2>4, <2>5, SameRanges DEF FormatsFit, SameFormat
  <1>2. CASE Render
    <2>1. /\ Built /\ Built' /\ stage' = "rendered" /\ UNCHANGED <<layoutVars, plan, formats>>
          /\ sheet' = [range \in Ranges |-> Options(range)]
      BY <1>2 DEF Render, Built
    <2>2. UNCHANGED <<def, phase, rows, first, last>>
      BY <2>1 DEF layoutVars, groupVars, positionVars
    <2>3. sheet' = [range \in Ranges |-> Options(range)]'
      BY <2>1 DEF Ranges, Options
    <2>4. \A j \in DOMAIN plan.formats, i \in DOMAIN formats :
             SameFormat(plan.formats[j], formats[i])' <=> SameFormat(plan.formats[j], formats[i])
      BY <2>1, <2>2, SameRanges DEF SameFormat
    <2> QED  BY <2>1, <2>2, <2>3, <2>4 DEF FormatsFit
  <1>3. CASE /\ "formats" \in DOMAIN plan' /\ plan'.formats = plan.formats
             /\ formats' = formats
             /\ Built' <=> Built
             /\ Built => UNCHANGED <<def, phase, rows, first, last, sheet>>
             /\ stage' = "cells" => phase' = "done"
             /\ stage' = "rendered" => stage = "rendered"
    <2>1. CASE ~Built
      BY <1>3, <2>1 DEF FormatsFit, Built, IsList
    <2>2. CASE Built
      <3>1. IsList(plan.formats)' /\ phase' = "done" /\ Built'
        BY <1>3, <2>2 DEF FormatsFit, IsList
      <3>2. stage' = "rendered" => sheet' = [range \in Ranges |-> Options(range)]'
        BY <1>3, <2>2 DEF FormatsFit, Ranges, Options
      <3>3. UNCHANGED rows /\ plan'.formats = plan.formats /\ formats' = formats
        BY <1>3, <2>2
      <3>4. \A j \in DOMAIN plan.formats, i \in DOMAIN formats :
               SameFormat(plan.formats[j], formats[i])' <=> SameFormat(plan.formats[j], formats[i])
        BY <1>3, <2>2, SameRanges DEF SameFormat
      <3> QED  BY <1>3, <2>2, <3>1, <3>2, <3>3, <3>4 DEF FormatsFit
    <2> QED  BY <2>1, <2>2
  <1> QED  BY <1>1, <1>2, <1>3, FormatsStep

(* There is no total without rows. *)
RowsCome == input = <<>> => rows = <<>> /\ stack = <<>>

LEMMA RowsStillCome ==
    ASSUME RowsCome, GroupsFit, TotalsFit, [Next]_vars
    PROVE  RowsCome'
  <1>1. CASE FeedRow
    <2>1. input' = Append(input, Head(pending))
      BY <1>1 DEF FeedRow, Feed
    <2>2. PICK S : input \in Seq(S)
      BY DEF TotalsFit
    <2>3. input \in Seq(S \cup {Head(pending)}) /\ Head(pending) \in S \cup {Head(pending)}
      BY <2>2
    <2>4. input' # <<>>
      BY <2>1, <2>3, AppendProperties
    <2> QED  BY <2>4 DEF RowsCome
  <1>2. CASE Finish
    <2>1. CASE input = <<>>
      <3>1. rows = <<>> /\ stack = <<>>
        BY <2>1 DEF RowsCome
      <3>2. Closed(0) = <<>>
        BY <3>1 DEF Closed
      <3> QED  BY <1>2, <3>2 DEF Finish, RowsCome
    <2>2. CASE input # <<>>
      BY <1>2, <2>2 DEF Finish, RowsCome
    <2> QED  BY <2>1, <2>2
  <1>3. CASE PositionRow \/ PositionEnd \/ Assemble \/ UNCHANGED layoutVars
    BY <1>3 DEF PositionRow, PositionEnd, Assemble, layoutVars, groupVars, RowsCome
  <1> QED  BY <1>1, <1>2, <1>3, LayoutStep DEF LayoutPass

(* The innermost groups. *)
LeafSubtotals == {t \in SubtotalRows : Level(t) = def.ndim}

(* The rows of an innermost group are detail rows, all of its path.          *)
LEMMA LeafRows ==
    ASSUME GroupsFit, RowsDeep, NumbersFit, def.ndim > 0, NEW t \in LeafSubtotals
    PROVE  /\ t \in 1..Len(rows) /\ Closes(t, def.ndim)
           /\ rows[t].from \in 1..t - 1
           /\ \A q \in rows[t].from..t - 1 :
                /\ q \in 1..Len(rows)
                /\ rows[q].type = "detail"
                /\ rows[q].path = [e \in 1..def.ndim |-> rows[t].path[e]]
  <1>1. Closes(t, def.ndim)
    BY DEF LeafSubtotals, SubtotalRows, Closes, IsSubtotal, Level, GroupsFit
  <1>2. /\ t \in 1..Len(rows) /\ t \in Nat /\ Len(rows) \in Nat
        /\ IsGroup(rows, rows[t].from, t - 1, rows[t].path, def.ndim)
        /\ rows[t].from \in 1..t - 1
    BY <1>1, SubtotalIsLawful DEF GroupsFit
  <1>3. PICK T : rows \in Seq(T) /\ \A r \in T : DeepRow(r)
    BY DEF RowsDeep
  <1>4. ASSUME NEW q \in rows[t].from..t - 1
        PROVE  /\ q \in 1..Len(rows)
               /\ rows[q].type = "detail"
               /\ rows[q].path = [e \in 1..def.ndim |-> rows[t].path[e]]
    <2>1. q \in 1..Len(rows) /\ rows[q] \in T
      BY <1>2, <1>3
    <2>2. Under(rows, q, rows[t].path, def.ndim) /\ ~IsSubtotal(rows, q)
      <3>1. IsSubtotal(rows, q) => Len(rows[q].path) > def.ndim
        BY <1>2 DEF IsGroup
      <3>2. Under(rows, q, rows[t].path, def.ndim)
        BY <1>2 DEF IsGroup
      <3>3. ASSUME IsSubtotal(rows, q)
            PROVE  FALSE
        <4>1. Closes(q, Len(rows[q].path)) /\ Len(rows[q].path) > def.ndim
          BY <2>1, <3>1, <3>3 DEF Closes
        <4>2. /\ IsGroup(rows, rows[q].from, q - 1, rows[q].path, Len(rows[q].path))
              /\ rows[q].from \in 1..q - 1 /\ q \in Nat
          BY <4>1, SubtotalIsLawful
        <4>3. rows[q].from \in rows[q].from..q - 1 /\ rows[q].from \in 1..Len(rows)
          BY <2>1, <4>2
        <4>4. /\ rows[rows[q].from].type = "detail"
              /\ Len(rows[rows[q].from].path) >= Len(rows[q].path)
          BY <4>2, <4>3 DEF IsGroup, Under
        <4>5. Len(rows[rows[q].from].path) = def.ndim
          BY <1>3, <4>3, <4>4 DEF DeepRow
        <4>6. Len(rows[q].path) \in Nat /\ def.ndim \in Nat
          BY <2>1 DEF GroupsFit, Lawful
        <4> QED  BY <4>1, <4>4, <4>5, <4>6
      <3> QED  BY <3>2, <3>3
    <2>3. rows[q].type = "detail"
      <3>1. rows[q].type \notin {"detail", "subtotal"} => Len(rows[q].path) = 0
        BY <1>3, <2>1 DEF DeepRow
      <3>2. Len(rows[q].path) >= def.ndim /\ rows[q].type # "subtotal"
        BY <2>2 DEF Under, IsSubtotal
      <3>3. def.ndim \in Nat
        BY DEF GroupsFit
      <3> QED  BY <3>1, <3>2, <3>3
    <2>4. rows[q].path \in [1..def.ndim -> Keys]
      BY <2>1, <2>3 DEF NumbersFit, Numbered, Details
    <2>5. \A e \in 1..def.ndim : rows[q].path[e] = rows[t].path[e]
      BY <2>2 DEF Under
    <2> QED  BY <2>1, <2>3, <2>4, <2>5
  <1> QED  BY <1>1, <1>2, <1>4

(* The bands of the innermost groups are the rows that their subtotals cover. *)
LEMMA LeafBandsAreGroups ==
    ASSUME GroupsFit, RowsDeep, NumbersFit, EdgesFit, phase = "done", def.ndim > 0
    PROVE  LeafBands = {<<rows[t].from, t - 1>> : t \in LeafSubtotals}
  <1>1. /\ Len(rows) \in Nat /\ DOMAIN rows = 1..Len(rows) /\ def.ndim \in Nat
        /\ LeafSubtotals \subseteq 1..Len(rows)
    BY DEF GroupsFit, LeafSubtotals, SubtotalRows
  <1>2. \A q : <<q, def.ndim>> \in last <=> q \in LeafSubtotals
    BY DEF EdgesFit, Lasts, LeafSubtotals
  <1>3. \A p : <<p, def.ndim>> \in first <=> \E t \in LeafSubtotals : p = rows[t].from
    BY DEF EdgesFit, Firsts, LeafSubtotals
  <1>4. ASSUME NEW t \in LeafSubtotals
        PROVE  /\ rows[t].from \in DOMAIN rows
               /\ Min({q \in rows[t].from..Len(rows) : <<q, def.ndim>> \in last}) = t
    <2> DEFINE ends == {q \in rows[t].from..Len(rows) : <<q, def.ndim>> \in last}
    <2>1. t \in 1..Len(rows) /\ rows[t].from \in 1..t - 1
      BY LeafRows
    <2>2. t \in ends /\ ends \subseteq Int
      BY <1>1, <1>2, <2>1
    <2>3. ASSUME NEW q \in ends
          PROVE  t <= q
      <3>1. q \in LeafSubtotals /\ q \in rows[t].from..Len(rows)
        BY <1>2
      <3>2. rows[q].type # "detail"
        BY <3>1 DEF LeafSubtotals, SubtotalRows
      <3>3. q \notin rows[t].from..t - 1
        BY <3>2, LeafRows
      <3> QED  BY <1>1, <2>1, <3>1, <3>3
    <2> HIDE DEF ends
    <2>4. Min(ends) = t
      BY <2>2, <2>3, LeastIsMin
    <2> QED  BY <1>1, <2>1, <2>4 DEF ends
  <1>5. \A p : p \in DOMAIN rows /\ def.ndim > 0 /\ <<p, def.ndim>> \in first
                <=> \E t \in LeafSubtotals : p = rows[t].from
    BY <1>3, <1>4
  <1> DEFINE End(p) == Min({q \in p..Len(rows) : <<q, def.ndim>> \in last})
             firsts == {q \in DOMAIN rows : def.ndim > 0 /\ <<q, def.ndim>> \in first}
  <1>6. LeafBands = {<<p, End(p) - 1>> : p \in firsts}
    BY DEF LeafBands
  <1>7. \A t \in LeafSubtotals : rows[t].from \in firsts /\ End(rows[t].from) = t
    BY <1>4, <1>5
  <1>8. \A p \in firsts : \E t \in LeafSubtotals : p = rows[t].from
    BY <1>5
  <1> HIDE DEF End, firsts
  <1> QED  BY <1>6, <1>7, <1>8

(* Where there are rows there is an innermost group. *)
LEMMA SomeLeaf ==
    ASSUME GroupsFit, TotalsFit, RowsCome, phase = "done", def.ndim > 0, rows # <<>>
    PROVE  /\ LeafSubtotals # {}
           /\ \A p \in DetailRows : \E t \in LeafSubtotals : p \in rows[t].from..t - 1
  <1>1. /\ Len(rows) \in Nat /\ DOMAIN rows = 1..Len(rows) /\ def.ndim \in Nat
    BY DEF GroupsFit
  <1>2. ASSUME NEW p \in DetailRows
        PROVE  \E t \in LeafSubtotals : p \in rows[t].from..t - 1
    <2>1. p \in Details(rows) /\ def.ndim \in 1..def.ndim
      BY <1>1 DEF DetailRows, Details
    <2>2. PICK t \in 1..Len(rows) : /\ IsSubtotal(rows, t)
                                    /\ Len(rows[t].path) = def.ndim
                                    /\ p \in rows[t].from..rows[t].to
      BY <2>1 DEF TotalsFit, Totalled
    <2>3. rows[t].to = t - 1 /\ t \in LeafSubtotals
      BY <1>1, <2>2 DEF GroupsFit, Lawful, Covers1, LeafSubtotals, SubtotalRows, IsSubtotal,
                        Level
    <2> QED  BY <2>2, <2>3
  <1>3. DetailRows # {}
    <2>1. PICK S : input \in Seq(S)
      BY DEF TotalsFit
    <2>2. input # <<>> /\ Len(input) # 0
      BY <2>1 DEF RowsCome
    <2>3. Cardinality(Details(rows)) # 0 /\ Details(rows) = DetailRows
      BY <1>1, <2>2 DEF TotalsFit, Details, DetailRows
    <2> QED  BY <2>3, FS_EmptySet
  <1> QED  BY <1>2, <1>3

(* Up to the limit, the ranges of a format per group are those bands. *)
LEMMA RangesPerGroup ==
    ASSUME GroupsFit, TotalsFit, RowsDeep, NumbersFit, EdgesFit, RowsCome, phase = "done",
           def.ndim > 0, rows # <<>>, Cardinality(LeafSubtotals) <= GroupLimit
    PROVE  RangesOf(TRUE) = {<<PrintedLine(rows[t].from), PrintedLine(t - 1)>> :
                               t \in LeafSubtotals}
  <1> DEFINE f == [t \in LeafSubtotals |-> <<rows[t].from, t - 1>>]
  <1>1. LeafBands = {<<rows[t].from, t - 1>> : t \in LeafSubtotals}
    BY LeafBandsAreGroups
  <1>2. f \in Surjection(LeafSubtotals, LeafBands)
    <2>1. LeafBands = {f[t] : t \in LeafSubtotals}
      BY <1>1
    <2>2. f \in [LeafSubtotals -> LeafBands]
      BY <1>1
    <2> HIDE DEF f
    <2> QED  BY <2>1, <2>2 DEF Surjection
  <1>3. IsFiniteSet(LeafSubtotals) /\ LeafSubtotals # {}
    <2>1. IsFiniteSet(1..Len(rows)) /\ LeafSubtotals \subseteq 1..Len(rows)
      <3>1. Len(rows) \in Int /\ DOMAIN rows = 1..Len(rows)
        BY DEF GroupsFit
      <3>2. IsFiniteSet(1..Len(rows))
        BY <3>1, FS_Interval
      <3> QED  BY <3>1, <3>2 DEF LeafSubtotals, SubtotalRows
    <2> QED  BY <2>1, SomeLeaf, FS_Subset
  <1>4. IsFiniteSet(LeafBands) /\ Cardinality(LeafBands) <= Cardinality(LeafSubtotals)
    <2> HIDE DEF f
    <2> QED  BY <1>2, <1>3, FS_Surjection
  <1>5. Cardinality(LeafBands) \in 1..GroupLimit
    <2>1. LeafBands # {}
      BY <1>1, <1>3
    <2>2. Cardinality(LeafBands) # 0 /\ Cardinality(LeafBands) \in Nat
      BY <1>4, <2>1, FS_EmptySet, FS_CardinalityType
    <2>3. Cardinality(LeafSubtotals) \in Nat /\ GroupLimit \in Nat
      BY <1>3, FS_CardinalityType, ReportPipelineAssumption
    <2> QED  BY <1>4, <2>2, <2>3
  <1>6. Bands(TRUE) = {<<rows[t].from, t - 1>> : t \in LeafSubtotals}
    BY <1>1, <1>5 DEF Bands
  <1> DEFINE Lines(b) == <<PrintedLine(b[1]), PrintedLine(b[2])>>
             band(t) == <<rows[t].from, t - 1>>
             range(t) == <<PrintedLine(rows[t].from), PrintedLine(t - 1)>>
  <1>7. RangesOf(TRUE) = {Lines(b) : b \in Bands(TRUE)}
    BY DEF RangesOf
  <1>8. \A t \in LeafSubtotals : Lines(band(t)) = range(t)
    OBVIOUS
  <1>9. Bands(TRUE) = {band(t) : t \in LeafSubtotals}
    BY <1>6
  <1>10. RangesOf(TRUE) = {range(t) : t \in LeafSubtotals}
    <2> HIDE DEF f, Lines, band, range
    <2> QED  BY <1>7, <1>8, <1>9
  <1> QED  BY <1>10

(* Each detail row is in one of the ranges, and each range in one group. *)
LEMMA FittingFormats ==
    /\ GroupsFit /\ TotalsFit /\ RowsDeep /\ NumbersFit /\ EdgesFit /\ RowsCome
    /\ FormatsFit
    => BandsAreGroups
  <1> SUFFICES ASSUME GroupsFit, TotalsFit, RowsDeep, NumbersFit, EdgesFit, RowsCome, FormatsFit,
                      NEW i \in DOMAIN formats,
                      \A j \in DOMAIN plan.formats :
                         plan.formats[j].id = formats[i].id => plan.formats[j].perGroup,
                      def.ndim > 0,
                      Cardinality({p \in SubtotalRows : Level(p) = def.ndim}) <= GroupLimit
               PROVE  /\ \A p \in DetailRows :
                            Cardinality({r \in formats[i].ranges : Within(p, r)}) = 1
                      /\ \A r \in formats[i].ranges, p, q \in DOMAIN rows :
                            Within(p, r) /\ Within(q, r) =>
                               p \in DetailRows /\ rows[p].path = rows[q].path
    BY DEF BandsAreGroups
  <1>1. /\ Built /\ phase = "done" /\ rows # <<>>
        /\ \E j \in DOMAIN plan.formats : SameFormat(plan.formats[j], formats[i])
    BY DEF FormatsFit
  <1>2. formats[i].ranges = RangesOf(TRUE)
    BY <1>1 DEF SameFormat, RangesOf, Bands
  <1> DEFINE R(t) == <<PrintedLine(rows[t].from), PrintedLine(t - 1)>>
  <1>3. formats[i].ranges = {R(t) : t \in LeafSubtotals}
    BY <1>1, <1>2, RangesPerGroup DEF LeafSubtotals
  <1>4. ASSUME NEW t \in LeafSubtotals
        PROVE  /\ t \in 1..Len(rows) /\ Closes(t, def.ndim)
               /\ rows[t].from \in 1..t - 1
               /\ \A q \in rows[t].from..t - 1 :
                    /\ q \in 1..Len(rows)
                    /\ rows[q].type = "detail"
                    /\ rows[q].path = [e \in 1..def.ndim |-> rows[t].path[e]]
    BY LeafRows
  <1>5. Len(rows) \in Nat /\ DOMAIN rows = 1..Len(rows)
    BY DEF GroupsFit
  <1>6. ASSUME NEW t \in LeafSubtotals, NEW p \in DOMAIN rows
        PROVE  Within(p, R(t)) <=> p \in rows[t].from..t - 1
    <2>1. t \in Int /\ rows[t].from \in Int /\ p \in Int
      BY <1>4, <1>5
    <2> QED  BY <2>1 DEF Within, PrintedLine
  <1> HIDE DEF R
  <1>7. ASSUME NEW p \in DetailRows
        PROVE  Cardinality({r \in formats[i].ranges : Within(p, r)}) = 1
    <2>1. p \in DOMAIN rows
      BY DEF DetailRows
    <2>2. PICK t \in LeafSubtotals : p \in rows[t].from..t - 1
      BY <1>1, SomeLeaf
    <2>3. ASSUME NEW u \in LeafSubtotals, Within(p, R(u))
          PROVE  u = t
      <3>1. p \in rows[u].from..u - 1
        BY <1>6, <2>1, <2>3
      <3> QED  BY <1>4, <2>2, <3>1, SameSubtotal
    <2>4. {r \in formats[i].ranges : Within(p, r)} = {R(t)}
      <3>1. Within(p, R(t))
        BY <1>6, <2>1, <2>2
      <3> QED  BY <1>3, <2>3, <3>1
    <2> QED  BY <2>4, FS_Singleton
  <1>8. ASSUME NEW r \in formats[i].ranges, NEW p \in DOMAIN rows, NEW q \in DOMAIN rows,
               Within(p, r), Within(q, r)
        PROVE  p \in DetailRows /\ rows[p].path = rows[q].path
    <2>1. PICK t \in LeafSubtotals : r = R(t)
      BY <1>3
    <2>2. p \in rows[t].from..t - 1 /\ q \in rows[t].from..t - 1
      BY <1>6, <1>8, <2>1
    <2> QED  BY <1>4, <2>2 DEF DetailRows
  <1> QED  BY <1>7, <1>8

(* A range has every format that was built for it. *)
LEMMA FormatsAreKept ==
    FormatsFit => NoFormatLost
  <1> SUFFICES ASSUME FormatsFit, stage = "rendered"
               PROVE  /\ \A i \in DOMAIN formats : \A r \in formats[i].ranges :
                           formats[i].id \in sheet[r]
                      /\ \A f \in {plan.formats[j] : j \in DOMAIN plan.formats} :
                           f.metric = Metric /\ rows # <<>> =>
                              \E r \in DOMAIN sheet : f.id \in sheet[r]
    BY DEF NoFormatLost
  <1>1. sheet = [range \in Ranges |-> Options(range)] /\ Built
    BY DEF FormatsFit, Built
  <1>2. ASSUME NEW i \in DOMAIN formats, NEW r \in formats[i].ranges
        PROVE  r \in DOMAIN sheet /\ formats[i].id \in sheet[r]
    <2>1. r \in Ranges
      BY DEF Ranges
    <2> QED  BY <1>1, <2>1 DEF Options
  <1>3. ASSUME NEW j \in DOMAIN plan.formats, plan.formats[j].metric = Metric, rows # <<>>
        PROVE  \E r \in DOMAIN sheet : plan.formats[j].id \in sheet[r]
    <2>1. PICK i \in DOMAIN formats : SameFormat(plan.formats[j], formats[i])
      BY <1>1, <1>3 DEF FormatsFit
    <2>2. Bands(plan.formats[j].perGroup) # {}
      <3>1. Cardinality(LeafBands) \in 1..GroupLimit => LeafBands # {}
        <4>1. 0 \notin 1..GroupLimit
          BY ReportPipelineAssumption
        <4> QED  BY <4>1, FS_EmptySet
      <3> QED  BY <3>1 DEF Bands
    <2>3. formats[i].ranges # {} /\ formats[i].id = plan.formats[j].id
      BY <2>1, <2>2 DEF SameFormat, RangesOf
    <2> QED  BY <1>2, <2>3
  <1> QED  BY <1>2, <1>3

LEMMA FormatsFitInit ==
    ASSUME Init
    PROVE  FormatsFit /\ RowsCome
  <1>1. PICK s \in Scopes : plan \in PlanOf(s, def.ndim)
    BY DEF Init
  <1>2. "formats" \in DOMAIN plan /\ plan.formats \in s.formats
    BY <1>1 DEF PlanOf
  <1>3. IsList(plan.formats)
    BY <1>2, ReportPipelineAssumption
  <1>4. stage = "load" /\ formats = <<>> /\ rows = <<>> /\ stack = <<>>
    BY DEF Init, LayoutInit
  <1> QED  BY <1>2, <1>3, <1>4 DEF FormatsFit, RowsCome, Built

(* In every report with up to GroupLimit innermost groups, a format per      *)
(* group compares the detail rows of one group at a time, and all of them.   *)
THEOREM BandsKeepToGroups == Spec => []BandsAreGroups
  <1>1. Init => GroupsFit /\ RecordsFit /\ RowsDeep /\ TotalsFit
    BY GroupsFitInit, TotalsFitInit
  <1>2. Init => SpansFit /\ Nest
    BY SpansFitInit
  <1>3. Init => NumbersFit /\ EdgesFit
    BY NumbersFitInit
  <1>4. Init => FormatsFit /\ RowsCome
    BY FormatsFitInit
  <1> QED
    BY <1>1, <1>2, <1>3, <1>4, FittingFormats, RecordsStep, GroupsStayFit, RowsStayDeep,
       TotalsStayFit, NumbersStayFit, SpansStayFit, EdgesStayFit, RowsStillCome, FormatsStayFit,
       PTL DEF Spec

(* No call that sets the formats of a range takes another format off it, and *)
(* every format of the metric's is in the workbook.                          *)
THEOREM FormatsAreSet == Spec => []NoFormatLost
  <1>1. Init => FormatsFit
    BY FormatsFitInit
  <1> QED  BY <1>1, FormatsAreKept, FormatsStayFit, PTL DEF Spec
-----------------------------------------------------------------------------
(* Every group appears once.                                                 *)

(* The rows that were fed are records of the source. *)
FedFit == \E S : input \in Seq(S) /\ \A r \in S : FitRecord(r, def.ndim, plan.source)

LEMMA FedStayFit ==
    ASSUME RecordsFit, FedFit, [Next]_vars
    PROVE  FedFit'
  <1>1. PICK S : input \in Seq(S) /\ \A r \in S : FitRecord(r, def.ndim, plan.source)
    BY DEF FedFit
  <1>4. plan'.source = plan.source
    BY SourceStays DEF RecordsFit
  <1>2. CASE FeedRow
    <2> DEFINE r == Head(pending)
               S2 == S \cup {r}
    <2>1. FitRecord(r, def.ndim, plan.source) /\ input' = Append(input, r) /\ def' = def
      BY <1>2, FedRecord DEF Feed
    <2>2. input \in Seq(S2) /\ r \in S2 /\ \A t \in S2 : FitRecord(t, def.ndim, plan.source)
      BY <1>1, <2>1
    <2> HIDE DEF r, S2
    <2>3. input' \in Seq(S2)
      BY <2>1, <2>2, AppendProperties
    <2> QED  BY <1>4, <2>1, <2>2, <2>3 DEF FedFit
  <1>3. CASE LayoutPass \/ UNCHANGED layoutVars
    <2>1. UNCHANGED <<def, input>>
      BY <1>3 DEF LayoutPass, Finish, PositionRow, PositionEnd, Assemble, layoutVars,
         groupVars
    <2> QED  BY <1>1, <1>4, <2>1 DEF FedFit
  <1> QED  BY <1>2, <1>3, LayoutStep

(* The order that the source puts its records in. *)
Before(r, s) ==
    IF plan.source = "db" THEN DBPrecedes(plan.sort, r, s) ELSE Precedes(plan.sort, r, s)

Sorted(list) == \A i, j \in DOMAIN list : i < j => ~Before(list[j], list[i])

SortedOnceLoaded ==
    stage = "load" \/ (stage = "failed" /\ input = <<>>) \/ Sorted(Loaded)

LEMMA DBPrecedesByColumns ==
    ASSUME NEW sort, NEW r, NEW s, NEW t, NEW u, SameColumns(r, s), SameColumns(t, u)
    PROVE  DBPrecedes(sort, r, t) <=> DBPrecedes(sort, s, u)
  <1>1. \A d : OrderColumn(sort, r, d) = OrderColumn(sort, s, d)
    BY DEF OrderColumn, SameColumns
  <1>2. \A d : OrderColumn(sort, t, d) = OrderColumn(sort, u, d)
    BY DEF OrderColumn, SameColumns
  <1> QED  BY <1>1, <1>2 DEF DBPrecedes

LEMMA LoadSorts ==
    ASSUME SourceFits, Load
    PROVE  Sorted(Loaded)'
  <1>1. PICK p \in Orders :
          pending' = [i \in DOMAIN p |->
                        [keys |-> pending[p[i]].keys, ords |-> pending[p[i]].ords,
                         value |-> Parsed(pending[p[i]].value), no |-> RowNo(p[i])]]
    BY DEF Load
  <1>2. UNCHANGED <<input, plan>> /\ input = <<>>
    BY DEF Load, layoutVars, groupVars, SourceFits
  <1>3. /\ p \in Seq(1..Len(pending))
        /\ \A i, j \in DOMAIN p : i < j => ~Before(pending[p[j]], pending[p[i]])
    BY <1>1, FileOrdersRespect, DBOrdersRespect DEF Orders, Before
  <1> DEFINE S == {pending'[i] : i \in DOMAIN p}
  <1>4. DOMAIN p = 1..Len(p) /\ Len(p) \in Nat
    BY <1>3
  <1>5. DOMAIN pending' = DOMAIN p /\ pending' \in Seq(S)
    <2>1. pending' \in [1..Len(p) -> S]
      BY <1>1, <1>4
    <2> QED  BY <2>1, <1>4
  <1>6. Loaded' = pending'
    <2>1. Loaded' = <<>> \o pending'
      BY <1>2 DEF Loaded
    <2> QED  BY <2>1, <1>5, ConcatEmptySeq
  <1>7. \A i \in DOMAIN p : SameColumns(pending'[i], pending[p[i]])
    BY <1>1 DEF SameColumns
  <1>8. ASSUME NEW i \in DOMAIN p, NEW j \in DOMAIN p, i < j
        PROVE  IF plan'.source = "db" THEN ~DBPrecedes(plan'.sort, pending'[j], pending'[i])
               ELSE ~Precedes(plan'.sort, pending'[j], pending'[i])
    <2>1. ~Before(pending[p[j]], pending[p[i]])
      BY <1>3, <1>8
    <2>2. SameColumns(pending'[i], pending[p[i]]) /\ SameColumns(pending'[j], pending[p[j]])
      BY <1>7
    <2>3. plan.source = "db" => ~DBPrecedes(plan.sort, pending'[j], pending'[i])
      BY <2>1, <2>2, DBPrecedesByColumns DEF Before
    <2>4. plan.source # "db" => ~Precedes(plan.sort, pending'[j], pending'[i])
      BY <2>1, <2>2, PrecedesByColumns DEF Before
    <2> QED  BY <1>2, <2>3, <2>4
  <1> QED  BY <1>5, <1>6, <1>8 DEF Sorted, Before

LEMMA StaysSorted ==
    ASSUME SourceFits, SortedOnceLoaded, [Next]_vars
    PROVE  SortedOnceLoaded'
  <1>1. CASE Load
    BY <1>1, LoadSorts DEF SortedOnceLoaded
  <1>2. CASE LoadFails
    BY <1>2 DEF LoadFails, SourceFits, SortedOnceLoaded, layoutVars, groupVars
  <1>3. CASE FeedRow
    <2>1. UNCHANGED plan /\ stage = "rows" /\ Loaded' = Loaded
      BY <1>3, FeedKeepsLoaded DEF FeedRow, Feed
    <2> QED  BY <2>1 DEF SortedOnceLoaded, Sorted, Before
  <1>4. CASE /\ UNCHANGED <<def, input, pending>>
             /\ plan'.sort = plan.sort
             /\ plan'.source = plan.source
             /\ DOMAIN plan' = DOMAIN plan
             /\ stage' = "load" <=> stage = "load"
             /\ stage = "failed" => stage' = "failed"
    <2>1. Sorted(Loaded) => Sorted(Loaded)'
      BY <1>4 DEF Sorted, Before, Loaded
    <2> QED  BY <1>4, <2>1 DEF SortedOnceLoaded
  <1> QED  BY <1>1, <1>2, <1>3, <1>4, OrderStep

LEMMA OrderStaysFit ==
    ASSUME GroupsFit, RecordsFit, TotalsFit, OrderFits, [Next]_vars
    PROVE  OrderFits'
  <1>1. CASE FeedRow
    <2>1. FitRecord(Head(pending), def.ndim, plan.source) /\ Feed(Head(pending))
      BY <1>1, FedRecord
    <2> QED  BY <2>1, FeedKeepsOrder DEF FitRecord
  <1>2. CASE Finish
    BY <1>2, FinishKeepsOrder
  <1>3. CASE PositionRow \/ PositionEnd \/ Assemble \/ UNCHANGED layoutVars
    <2>1. UNCHANGED <<input, rows>>
      BY <1>3 DEF PositionRow, PositionEnd, Assemble, groupVars, layoutVars
    <2>2. rows' = rows /\ input' = input
      BY <2>1
    <2>3. InFeedOrder(rows', input') /\ TotalAtEnd(rows')
      BY <2>2 DEF OrderFits
    <2> QED  BY <2>2, <2>3 DEF OrderFits
  <1> QED  BY <1>1, <1>2, <1>3, LayoutStep DEF LayoutPass

(* The columns the source orders by are integers. *)
LEMMA ColumnsAreIntegers ==
    ASSUME FedFit, NEW i \in DOMAIN input, NEW d \in 1..def.ndim
    PROVE  /\ Column(input[i], d) \in Int
           /\ plan.source = "db" => Column(input[i], d) = OrderColumn(plan.sort, input[i], d)
           /\ plan.source # "db" => Column(input[i], d) = SortValue(plan.sort, input[i], d)
  <1>1. FitRecord(input[i], def.ndim, plan.source)
    BY DEF FedFit
  <1>2. /\ input[i].keys[d] \in Int
        /\ d \in DOMAIN input[i].ords => input[i].ords[d] \in Int
        /\ plan.source = "db" => d \in DOMAIN input[i].ords
    BY <1>1, ReportPipelineAssumption DEF FitRecord
  <1> QED  BY <1>2 DEF Column, OrderColumn, SortValue

(* Of two rows in order that first differ in one column, that column says    *)
(* which is which.                                                           *)
LEMMA FirstDifference ==
    ASSUME SourceFits, FedFit, Sorted(Loaded),
           NEW i \in DOMAIN input, NEW j \in DOMAIN input, i < j,
           NEW e \in 1..def.ndim,
           \A c \in 1..e - 1 : Column(input[i], c) = Column(input[j], c),
           Column(input[i], e) # Column(input[j], e)
    PROVE  IF plan.source # "db" /\ plan.sort[e].dir = "desc"
           THEN Column(input[j], e) < Column(input[i], e)
           ELSE Column(input[i], e) < Column(input[j], e)
  <1>1. /\ i \in DOMAIN Loaded /\ Loaded[i] = input[i]
        /\ j \in DOMAIN Loaded /\ Loaded[j] = input[j]
    <2>1. PICK S : input \in Seq(S) /\ pending \in Seq(S)
      BY DEF SourceFits
    <2> QED  BY <2>1, ConcatProperties DEF Loaded
  <1>2. ~Before(input[j], input[i])
    BY <1>1 DEF Sorted
  <1>3. DOMAIN plan.sort = 1..def.ndim /\ e \in DOMAIN plan.sort /\ def.ndim \in Nat
    BY DEF SourceFits
  <1>4. \A c \in 1..e - 1 : c \in 1..def.ndim
    BY <1>3
  <1> DEFINE x(c) == Column(input[i], c)
             y(c) == Column(input[j], c)
  <1>5. x(e) \in Int /\ y(e) \in Int /\ x(e) # y(e) /\ \A c \in 1..e - 1 : y(c) = x(c)
    BY ColumnsAreIntegers
  <1>6. CASE plan.source = "db"
    <2>1. \A c \in 1..def.ndim : /\ x(c) = OrderColumn(plan.sort, input[i], c)
                                 /\ y(c) = OrderColumn(plan.sort, input[j], c)
      BY <1>6, ColumnsAreIntegers
    <2> HIDE DEF x, y
    <2>2. ~(y(e) < x(e))
      <3> SUFFICES ASSUME y(e) < x(e) PROVE FALSE
        OBVIOUS
      <3>1. /\ OrderColumn(plan.sort, input[j], e) < OrderColumn(plan.sort, input[i], e)
            /\ \A c \in 1..e - 1 : OrderColumn(plan.sort, input[j], c)
                                     = OrderColumn(plan.sort, input[i], c)
        BY <1>4, <1>5, <2>1
      <3>2. DBPrecedes(plan.sort, input[j], input[i])
        BY <1>3, <3>1 DEF DBPrecedes
      <3> QED  BY <1>2, <1>6, <3>2 DEF Before
    <2>3. x(e) < y(e)
      BY <1>5, <2>2
    <2> QED  BY <1>6, <2>3 DEF x, y
  <1>7. CASE plan.source # "db"
    <2>1. \A c \in 1..def.ndim : /\ x(c) = SortValue(plan.sort, input[i], c)
                                 /\ y(c) = SortValue(plan.sort, input[j], c)
      BY <1>7, ColumnsAreIntegers
    <2> HIDE DEF x, y
    <2>2. ~(IF plan.sort[e].dir = "desc" THEN y(e) > x(e) ELSE y(e) < x(e))
      <3> SUFFICES ASSUME IF plan.sort[e].dir = "desc" THEN y(e) > x(e) ELSE y(e) < x(e)
                   PROVE  FALSE
        OBVIOUS
      <3>1. /\ IF plan.sort[e].dir = "desc"
               THEN SortValue(plan.sort, input[j], e) > SortValue(plan.sort, input[i], e)
               ELSE SortValue(plan.sort, input[j], e) < SortValue(plan.sort, input[i], e)
            /\ \A c \in 1..e - 1 : SortValue(plan.sort, input[j], c)
                                     = SortValue(plan.sort, input[i], c)
        BY <1>4, <1>5, <2>1
      <3>2. Precedes(plan.sort, input[j], input[i])
        BY <1>3, <3>1 DEF Precedes
      <3> QED  BY <1>2, <1>7, <3>2 DEF Before
    <2>3. IF plan.sort[e].dir = "desc" THEN y(e) < x(e) ELSE x(e) < y(e)
      BY <1>5, <2>2
    <2> QED  BY <1>7, <2>3 DEF x, y
  <1> QED  BY <1>6, <1>7

(* A row of another group does not come between two rows of one group.       *)
LEMMA NothingBetween ==
    ASSUME SourceFits, FedFit, Sorted(Loaded), OrderFits, GroupsFit, NumbersFit,
           NEW d \in 1..def.ndim, NEW path, Separated(input, Column, 1..d),
           NEW f \in Details(rows), NEW s \in Details(rows), NEW g \in Details(rows),
           f < s, s < g, Under(rows, f, path, d), Under(rows, g, path, d)
    PROVE  Under(rows, s, path, d)
  <1> SUFFICES ASSUME ~Under(rows, s, path, d)
               PROVE  FALSE
    OBVIOUS
  <1>1. def.ndim \in Nat /\ rows[s].path \in [1..def.ndim -> Keys] /\ d \in Nat
    BY DEF NumbersFit, Numbered, GroupsFit
  <1>2. Len(rows[s].path) >= d
    <2>1. Len(rows[s].path) = def.ndim
      BY <1>1
    <2> QED  BY <1>1, <2>1
  <1> DEFINE differing == {c \in 1..d : rows[s].path[c] # path[c]}
  <1>3. differing \subseteq Nat /\ differing # {}
    BY <1>2 DEF Under
  <1>4. PICK e \in differing : \A c \in differing : e <= c
    BY <1>3, LeastNatural
  <1>5. /\ e \in 1..d /\ e \in 1..def.ndim /\ rows[s].path[e] # path[e]
        /\ \A c \in 1..e - 1 : c \in 1..d /\ c \in 1..def.ndim /\ rows[s].path[c] = path[c]
    BY <1>1, <1>4
  <1>6. PICK i \in 1..Len(input), j \in 1..Len(input) :
          i < j /\ input[i].keys = rows[f].path /\ input[j].keys = rows[s].path
    BY DEF OrderFits, InFeedOrder
  <1>7. PICK k \in 1..Len(input), m \in 1..Len(input) :
          k < m /\ input[k].keys = rows[s].path /\ input[m].keys = rows[g].path
    BY DEF OrderFits, InFeedOrder
  <1>8. i \in DOMAIN input /\ j \in DOMAIN input /\ k \in DOMAIN input /\ m \in DOMAIN input
    BY DEF FedFit
  <1> DEFINE col(n, c) == Column(input[n], c)
  <1>9. \A n, o \in DOMAIN input, c \in 1..d :
          col(n, c) = col(o, c) <=> input[n].keys[c] = input[o].keys[c]
    BY DEF Separated
  <1>10. \A c \in 1..d : input[i].keys[c] = path[c] /\ input[m].keys[c] = path[c]
    BY <1>6, <1>7 DEF Under
  <1>11. \A n \in DOMAIN input : col(n, e) \in Int
    BY <1>5, ColumnsAreIntegers
  <1>12. /\ \A c \in 1..e - 1 : col(i, c) = col(j, c)
         /\ \A c \in 1..e - 1 : col(k, c) = col(m, c)
    <2> SUFFICES ASSUME NEW c \in 1..e - 1
                 PROVE  col(i, c) = col(j, c) /\ col(k, c) = col(m, c)
      OBVIOUS
    <2> HIDE DEF col
    <2>1. c \in 1..d /\ c \in 1..def.ndim /\ rows[s].path[c] = path[c]
      BY <1>5
    <2>2. /\ input[i].keys[c] = input[j].keys[c]
          /\ input[k].keys[c] = input[m].keys[c]
      BY <1>6, <1>7, <1>10, <2>1
    <2> QED  BY <1>8, <1>9, <2>1, <2>2
  <1>13. col(i, e) # col(j, e) /\ col(j, e) = col(k, e) /\ col(m, e) = col(i, e)
    <2> HIDE DEF col
    <2> QED  BY <1>5, <1>6, <1>7, <1>8, <1>9, <1>10
  <1>14. IF plan.source # "db" /\ plan.sort[e].dir = "desc"
         THEN col(j, e) < col(i, e) ELSE col(i, e) < col(j, e)
    BY <1>5, <1>6, <1>8, <1>12, <1>13, FirstDifference
  <1>15. IF plan.source # "db" /\ plan.sort[e].dir = "desc"
         THEN col(m, e) < col(k, e) ELSE col(k, e) < col(m, e)
    BY <1>5, <1>7, <1>8, <1>12, <1>13, FirstDifference
  <1> HIDE DEF col
  <1> QED  BY <1>8, <1>11, <1>13, <1>14, <1>15

LEMMA SortedGroups ==
    ASSUME SourceFits, FedFit, SortedOnceLoaded, OrderFits, GroupsFit,
           NumbersFit, RowsCome
    PROVE  GroupsAppearOnce
  <1> SUFFICES ASSUME NEW p \in SubtotalRows, NEW q \in SubtotalRows,
                      rows[p].path = rows[q].path, p < q,
                      Separated(input, Column, 1..Len(rows[p].path))
               PROVE  FALSE
    <2>1. SubtotalRows \subseteq Int
      BY DEF SubtotalRows, GroupsFit
    <2> QED  BY <2>1 DEF GroupsAppearOnce
  <1>1. Sorted(Loaded)
    <2>1. input # <<>>
      BY DEF RowsCome, SubtotalRows
    <2>2. stage # "load"
      BY <2>1 DEF SourceFits
    <2> QED  BY <2>1, <2>2 DEF SortedOnceLoaded
  <1> DEFINE d == Len(rows[p].path)
  <1>2. Closes(p, d) /\ Closes(q, d)
    BY DEF Closes, SubtotalRows, IsSubtotal, GroupsFit
  <1>3. /\ p \in 1..Len(rows) /\ q \in 1..Len(rows) /\ d \in Nat \ {0}
        /\ rows[p].from \in 1..(p - 1) /\ rows[q].from \in 1..(q - 1)
        /\ IsGroup(rows, rows[p].from, p - 1, rows[p].path, d)
        /\ IsGroup(rows, rows[q].from, q - 1, rows[q].path, d)
    BY <1>2, SubtotalIsLawful
  <1>4. PICK s \in Details(rows) :
          /\ rows[p].from < s /\ s < rows[q].from
          /\ ~Under(rows, s, rows[p].path, d)
    BY <1>2, GroupsApart DEF OrderFits
  <1>5. /\ rows[p].from \in Details(rows) /\ Under(rows, rows[p].from, rows[p].path, d)
        /\ rows[q].from \in Details(rows) /\ Under(rows, rows[q].from, rows[p].path, d)
    <2>1. /\ rows[p].from \in rows[p].from..p - 1 /\ rows[q].from \in rows[q].from..q - 1
          /\ rows[p].from \in 1..Len(rows) /\ rows[q].from \in 1..Len(rows)
      BY <1>3 DEF GroupsFit
    <2> HIDE DEF d
    <2> QED  BY <1>3, <2>1 DEF IsGroup, Details
  <1>6. d \in 1..def.ndim
    <2> HIDE DEF d
    <2>1. rows[rows[p].from].path \in [1..def.ndim -> Keys] /\ def.ndim \in Nat
      BY <1>5 DEF NumbersFit, Numbered, GroupsFit
    <2>2. Len(rows[rows[p].from].path) = def.ndim
      BY <2>1
    <2> QED  BY <1>3, <1>5, <2>1, <2>2 DEF Under
  <1>7. Separated(input, Column, 1..d)
    OBVIOUS
  <1> HIDE DEF d
  <1> QED  BY <1>1, <1>4, <1>5, <1>6, <1>7, NothingBetween

LEMMA SortedInit ==
    ASSUME Init
    PROVE  FedFit /\ SortedOnceLoaded /\ OrderFits
  <1>1. input = <<>> /\ rows = <<>> /\ stage = "load"
    BY DEF Init, LayoutInit
  <1>2. input \in Seq({}) /\ Len(rows) = 0
    BY <1>1
  <1>3. Details(rows) = {}
    BY <1>2 DEF Details
  <1> QED
    BY <1>1, <1>2, <1>3 DEF FedFit, SortedOnceLoaded, OrderFits, InFeedOrder, TotalAtEnd

(* In every report every group appears once, if no two values of its         *)
(* dimension and those around it share the column the rows are sorted by,    *)
(* whatever the directions of the sorting.                                   *)
THEOREM GroupsAreTogether == Spec => []GroupsAppearOnce
  <1>1. Init => GroupsFit /\ RecordsFit /\ TotalsFit
    BY GroupsFitInit, TotalsFitInit
  <1>2. Init => NumbersFit /\ RowsCome
    BY NumbersFitInit DEF Init, LayoutInit, RowsCome
  <1>3. Init => FedFit /\ SortedOnceLoaded /\ OrderFits
    BY SortedInit
  <1>4. Init => SourceFits
    BY SourceFitsInit
  <1>5. SourceFits /\ FedFit /\ SortedOnceLoaded /\ OrderFits /\ GroupsFit
          /\ NumbersFit /\ RowsCome => GroupsAppearOnce
    BY SortedGroups
  <1> QED
    BY <1>1, <1>2, <1>3, <1>4, <1>5, RecordsStep, GroupsStayFit, TotalsStayFit, NumbersStayFit,
       RowsStillCome, SourceStaysFit, FedStayFit, StaysSorted, OrderStaysFit,
       PTL DEF Spec
-----------------------------------------------------------------------------
(* The failures.                                                             *)

DocumentsFit ==
    /\ {"doc", "overrides"} \subseteq DOMAIN plan
    /\ IsList(plan.doc)
    /\ \A i \in DOMAIN plan.doc : IsRule(plan.doc[i])
    /\ IsList(plan.overrides)
    /\ \A i \in DOMAIN plan.overrides :
         IsOverride(plan.overrides[i]) /\ ValidOverride(plan.overrides[i], DimFields)

Compiled == plan.doc \o CompileOverrides(plan.overrides)

(* The engine has the rules of the document and of its overrides once cells  *)
(* are resolved.                                                             *)
RulesFit ==
    /\ DocumentsFit
    /\ stage = "load" => phase = "feed"
    /\ context # NoContext \/ stage = "cells" => rules = Compiled

LEMMA RulesFitInit ==
    ASSUME Init
    PROVE  RulesFit
  <1>1. PICK s \in Scopes :
          def \in [ndim : s.ndims, agg : s.aggs, top : s.tops] /\ plan \in PlanOf(s, def.ndim)
    BY DEF Init
  <1>2. /\ plan.doc \in s.docs /\ plan.overrides \in s.overrides
        /\ {"doc", "overrides"} \subseteq DOMAIN plan
    BY <1>1 DEF PlanOf
  <1>3. /\ IsList(plan.doc) /\ \A i \in DOMAIN plan.doc : IsRule(plan.doc[i])
        /\ IsList(plan.overrides)
    BY <1>1, <1>2, ReportPipelineAssumption
  <1>4. \A i \in DOMAIN plan.overrides :
          IsOverride(plan.overrides[i]) /\ ValidOverride(plan.overrides[i], DimFields)
    BY <1>1, <1>2, ReportPipelineAssumption
  <1>5. phase = "feed" /\ context = NoContext /\ stage = "load"
    BY DEF Init, LayoutInit, StyleInit
  <1> QED  BY <1>2, <1>3, <1>4, <1>5 DEF RulesFit, DocumentsFit

(* What a step is to the rules. *)
LEMMA RulesStep ==
    ASSUME [Next]_vars, DocumentsFit
    PROVE  /\ plan'.doc = plan.doc
           /\ plan'.overrides = plan.overrides
           /\ DOMAIN plan' = DOMAIN plan
           /\ \/ ReadRules
              \/ NextCell
              \/ ApplyRule
              \/ UNCHANGED <<rules, order, context>> /\ (stage' = "cells" => stage = "cells")
           /\ stage' = "load" => stage = "load" /\ UNCHANGED phase
  <1>1. CASE \E w \in plan.windows : ShowWindow(w[1], w[2])
    <2>1. PICK w \in plan.windows : ShowWindow(w[1], w[2])
      BY <1>1
    <2>2. /\ UNCHANGED <<rules, order, context>> /\ stage = "built" /\ stage' = "shown"
          /\ plan' = [plan EXCEPT !.windows = {<<w[1], w[2]>>}]
      BY <2>1 DEF ShowWindow, styleVars
    <2>3. DOMAIN plan' = DOMAIN plan
      BY <2>2, Zenon
    <2>4. plan'.doc = plan.doc /\ plan'.overrides = plan.overrides
      BY <2>2, Zenon DEF DocumentsFit
    <2> QED  BY <2>2, <2>3, <2>4
  <1>2. CASE ReadRules \/ NextCell \/ ApplyRule
    <2>1. UNCHANGED plan /\ stage' = "cells"
      BY <1>2 DEF ReadRules, NextCell, ApplyRule, pipelineVars
    <2> QED  BY <1>2, <2>1
  <1>3. CASE Load \/ LoadFails \/ FeedRow \/ LayOut \/ RulesInvalid \/ RuleStops
             \/ BuildFormats \/ Render \/ Finished \/ UNCHANGED vars
    <2>1. UNCHANGED <<rules, order, context, plan>>
      BY <1>3 DEF Load, LoadFails, FeedRow, LayOut, RulesInvalid, RuleStops, BuildFormats,
         Render, Finished, vars, styleVars, pipelineVars
    <2>2. stage' = "cells" => stage = "cells"
      BY <1>3 DEF Load, LoadFails, FeedRow, LayOut, RulesInvalid, RuleStops, BuildFormats,
         Render, Finished, vars, pipelineVars
    <2>3. stage' = "load" => stage = "load" /\ UNCHANGED phase
      BY <1>3 DEF Load, LoadFails, FeedRow, LayOut, RulesInvalid, RuleStops, BuildFormats,
         Render, Finished, vars, pipelineVars, layoutVars
    <2> QED  BY <2>1, <2>2, <2>3
  <1> QED  BY <1>1, <1>2, <1>3 DEF Next

LEMMA RulesStayFit ==
    ASSUME RulesFit, [Next]_vars
    PROVE  RulesFit'
  <1>1. DocumentsFit
    BY DEF RulesFit
  <1>2. /\ plan'.doc = plan.doc
        /\ plan'.overrides = plan.overrides
        /\ DOMAIN plan' = DOMAIN plan
        /\ \/ ReadRules
           \/ NextCell
           \/ ApplyRule
           \/ UNCHANGED <<rules, order, context>> /\ (stage' = "cells" => stage = "cells")
        /\ stage' = "load" => stage = "load" /\ UNCHANGED phase
    BY <1>1, RulesStep
  <1>3. DocumentsFit'
    BY <1>1, <1>2 DEF DocumentsFit
  <1>4. Compiled' = Compiled
    BY <1>2 DEF Compiled
  <1>5. context' # NoContext \/ stage' = "cells" => rules' = Compiled
    <2>1. CASE ReadRules
      BY <2>1 DEF ReadRules, Rank, Compiled
    <2>2. CASE NextCell
      BY <2>2 DEF NextCell, StartCell, RulesFit
    <2>3. CASE ApplyRule
      BY <2>3 DEF ApplyRule, TryRule, RulesFit
    <2>4. CASE UNCHANGED <<rules, order, context>> /\ (stage' = "cells" => stage = "cells")
      BY <2>4 DEF RulesFit
    <2> QED  BY <1>2, <2>1, <2>2, <2>3, <2>4
  <1>6. stage' = "load" => phase' = "feed"
    BY <1>2 DEF RulesFit
  <1> QED  BY <1>3, <1>4, <1>5, <1>6 DEF RulesFit

(* A rule that fails is one of the document's, and has an unfit leaf. *)
LEMMA FailingRule ==
    ASSUME RulesFit, Ranked, RuleStops, ValidStyles
    PROVE  \E i \in DOMAIN plan.doc : \E n \in DOMAIN plan.doc[i].when :
             plan.doc[i].when[n].node = "leaf" /\ Unfit(plan.doc[i].when[n])
  <1> DEFINE k == order[tried + 1]
             doc == plan.doc
             list == plan.overrides
  <1>1. /\ stage = "cells" /\ tried < Len(order) /\ Verdict(rules[k].when, context) = "error"
    BY DEF RuleStops, RuleFails, CurrentRule
  <1>2. k \in 1..Len(rules)
    <2>1. tried + 1 \in 1..Len(order) /\ order \in Seq(1..Len(rules))
      <3>1. Len(order) \in Nat /\ tried \in 0..Len(order) /\ order \in Seq(1..Len(rules))
        BY DEF Ranked
      <3> QED  BY <1>1, <3>1
    <2> QED  BY <2>1
  <1>3. rules = doc \o CompileOverrides(list) /\ IsList(doc) /\ IsList(list)
    BY <1>1 DEF RulesFit, DocumentsFit, Compiled
  <1>4. PICK m, nth : IsCompiled(doc, list, rules, m, nth)
    BY <1>3, CompiledRules
  <1>5. /\ m \in Nat /\ Len(rules) = Len(doc) + m
        /\ \A i \in 1..Len(doc) : rules[i] = doc[i]
        /\ \A j \in 1..m : rules[Len(doc) + j] = OverrideRule(list[nth[j]])
    BY <1>4 DEF IsCompiled
  <1>6. Len(doc) \in Nat /\ DOMAIN doc = 1..Len(doc)
    BY <1>3, ListIsSequence
  <1> HIDE DEF k
  <1>7. CASE k \in 1..Len(doc)
    <2>1. rules[k] = doc[k] /\ k \in DOMAIN doc
      BY <1>5, <1>6, <1>7
    <2>2. IsCond(doc[k].when)
      BY <2>1 DEF RulesFit, DocumentsFit, IsRule
    <2>3. PICK n \in DOMAIN doc[k].when :
            doc[k].when[n].node = "leaf" /\ LeafVerdict(doc[k].when[n], context) = "error"
      BY <1>1, <2>1, <2>2, ErrorsComeFromLeaves
    <2>4. ValidNode(doc[k].when[n])
      BY <2>1, <2>3 DEF ValidStyles, ValidRules
    <2>5. Unfit(doc[k].when[n])
      BY <2>3, <2>4, LeafErrors DEF Unfit
    <2> QED  BY <2>1, <2>3, <2>5
  <1>8. CASE k \notin 1..Len(doc)
    <2>1. k - Len(doc) \in 1..m /\ Len(doc) + (k - Len(doc)) = k
      BY <1>2, <1>5, <1>6, <1>8
    <2>2. rules[k] = OverrideRule(list[nth[k - Len(doc)]])
      BY <1>5, <2>1
    <2>3. rules[k].when = All(Anchors(list[nth[k - Len(doc)]].scope))
      BY <2>2 DEF OverrideRule
    <2> QED  BY <1>1, <2>3, OverrideNeverFails
  <1> QED  BY <1>7, <1>8

(* How a report comes to fail. *)
LEMMA FailureStep ==
    ASSUME [Next]_vars, stage' = "failed"
    PROVE  LoadFails \/ RulesInvalid \/ RuleStops \/ UNCHANGED vars
  <1>1. CASE Load \/ FeedRow \/ LayOut \/ ReadRules \/ NextCell \/ ApplyRule \/ BuildFormats
             \/ Render \/ \E w \in plan.windows : ShowWindow(w[1], w[2])
    BY <1>1 DEF Load, FeedRow, LayOut, ReadRules, NextCell, ApplyRule, BuildFormats, Render,
       ShowWindow, pipelineVars
  <1>2. Finished => UNCHANGED vars
    BY DEF Finished
  <1> QED  BY <1>1, <1>2 DEF Next

LEMMA FailuresStayExplained ==
    ASSUME FailuresExplained, RulesFit, Ranked, [Next]_vars
    PROVE  FailuresExplained'
  <1> SUFFICES ASSUME stage' = "failed", phase' = "done", ValidStyles'
               PROVE  \E i \in DOMAIN plan'.doc : \E n \in DOMAIN plan'.doc[i].when :
                        /\ plan'.doc[i].when[n].node = "leaf"
                        /\ Unfit(plan'.doc[i].when[n])
    BY DEF FailuresExplained, Unfit
  <1>1. CASE LoadFails
    BY <1>1 DEF LoadFails, RulesFit, layoutVars
  <1>2. CASE RulesInvalid
    BY <1>2 DEF RulesInvalid, ValidStyles
  <1>3. CASE RuleStops
    <2>1. UNCHANGED plan
      BY <1>3 DEF RuleStops
    <2>2. ValidStyles
      BY <2>1 DEF ValidStyles
    <2> QED  BY <1>3, <2>1, <2>2, FailingRule
  <1>4. CASE UNCHANGED vars
    <2>1. UNCHANGED <<plan, stage, phase>>
      BY <1>4 DEF vars, pipelineVars, layoutVars
    <2>2. ValidStyles
      BY <2>1 DEF ValidStyles
    <2> QED  BY <2>1, <2>2 DEF FailuresExplained
  <1> QED  BY <1>1, <1>2, <1>3, <1>4, FailureStep

(* Every report that was loaded and failed has a style document that does    *)
(* not validate or asks for an operator the engine does not have there.      *)
THEOREM FailuresHaveAReason == Spec => []FailuresExplained
  <1>1. Init => StylesRanked /\ RulesFit /\ FailuresExplained
    <2>1. Init => FailuresExplained
      BY DEF Init, FailuresExplained
    <2> QED  BY <2>1, StylesRankedInit, RulesFitInit
  <1>2. StylesRanked => Ranked
    BY DEF StylesRanked
  <1> QED
    BY <1>1, <1>2, StylesStayRanked, RulesStayFit, FailuresStayExplained, PTL DEF Spec
-----------------------------------------------------------------------------
(* The overrides.                                                            *)

LEMMA LargestNumber ==
    ASSUME NEW n \in Nat, NEW T, T \subseteq 1..n, T # {}
    PROVE  Max(T) \in T /\ \A k \in T : k <= Max(T)
  <1> DEFINE below == {n - k : k \in T}
  <1>1. below \subseteq Nat /\ below # {}
    OBVIOUS
  <1> HIDE DEF below
  <1>2. PICK b \in below : \A c \in below : b <= c
    BY <1>1, LeastNatural
  <1>3. PICK m \in T : b = n - m
    BY <1>2 DEF below
  <1>4. \A k \in T : k <= m
    <2> SUFFICES ASSUME NEW k \in T
                 PROVE  k <= m
      OBVIOUS
    <2>1. b <= n - k
      BY <1>2 DEF below
    <2> QED  BY <1>3, <2>1
  <1>5. T \subseteq Int
    OBVIOUS
  <1>6. Max(T) = m
    BY <1>4, <1>5, GreatestIsMax
  <1> QED  BY <1>3, <1>4, <1>6

LEMMA AtMost ==
    ASSUME NEW n \in Nat, NEW g \in Nat
    PROVE  n <= g <=> \A d \in 1..n : d <= g
  <1>1. n # 0 => n \in 1..n
    OBVIOUS
  <1> QED  BY <1>1

(* The overrides that cover a cell and set a field. *)
Over(f, c) ==
    {j \in DOMAIN plan.overrides : /\ Covers(plan.overrides[j].scope, c)
                                   /\ f \in DOMAIN plan.overrides[j].patch}

(* A context is built without dim_key, its path is the row's. *)
ContextFits ==
    context # NoContext => context.dim_key = "" /\ Len(context.group_path) \in Nat

(* Every rule is ranked. *)
OrderFull ==
    context # NoContext \/ stage = "cells" =>
        1..Len(rules) \subseteq {order[k] : k \in DOMAIN order}

(* An override's condition says what its scope covers. *)
LEMMA CoversIsVerdict ==
    ASSUME NEW o, IsOverride(o), Anchors(o.scope) # <<>>,
           NEW c, c.dim_key = "", Len(c.group_path) \in Nat
    PROVE  Verdict(All(Anchors(o.scope)), c) = "true" <=> Covers(o.scope, c)
  <1> DEFINE scope == o.scope
             D == DOMAIN scope
             Prefixed == /\ Len(HasPrefix(scope.path).values) <= Len(c.group_path)
                         /\ \A i \in DOMAIN scope.path : scope.path[i] = c.group_path[i]
             Within1 == \A d \in DOMAIN scope.path :
                          d <= Len(c.group_path) /\ c.group_path[d] = scope.path[d]
  <1>1. D # {}
    BY AnchoredScopes
  <1>2. Verdict(All(Anchors(scope)), c) = "true" <=>
          /\ "path" \in D => Prefixed
          /\ "row_type" \in D => scope.row_type = c.row_type
          /\ "metric" \in D => "metric" = c.col_role /\ scope.metric = c.metric_key
          /\ "dim" \in D => "dimension" = c.col_role /\ scope.dim = c.dim_key
    BY AnchorsVerdict
  <1>3. ASSUME "path" \in D
        PROVE  Prefixed <=> Within1
    <2>1. IsList(scope.path)
      BY <1>3 DEF IsOverride
    <2> DEFINE path == scope.path
               n == Len(path)
    <2>2. n \in Nat /\ DOMAIN path = 1..n
      BY <2>1, ListIsSequence
    <2>3. Len(HasPrefix(path).values) = n
      <3> DEFINE values == [i \in 1..n |-> <<"string", path[i]>>]
      <3>1. HasPrefix(path).values = values
        BY <2>2 DEF HasPrefix
      <3>2. DOMAIN values = 1..n /\ values = [i \in 1..n |-> values[i]]
        OBVIOUS
      <3> HIDE DEF values, n
      <3>3. Len(values) = n
        BY <2>2, <3>2, SequenceIsList
      <3> QED  BY <3>1, <3>3
    <2> HIDE DEF n
    <2> DEFINE g == Len(c.group_path)
    <2>4. n <= g <=> \A d \in 1..n : d <= g
      <3>1. g \in Nat
        OBVIOUS
      <3>2. n \in Nat
        BY <2>2
      <3> HIDE DEF g, n
      <3> QED  BY <3>1, <3>2, AtMost
    <2>5. Prefixed <=> n <= g /\ \A i \in 1..n : path[i] = c.group_path[i]
      BY <2>2, <2>3, Zenon
    <2>6. Within1 <=> \A d \in 1..n : d <= g /\ c.group_path[d] = path[d]
      BY <2>2, Zenon
    <2> HIDE DEF Prefixed, Within1, g
    <2>7. (\A i \in 1..n : path[i] = c.group_path[i]) <=> \A d \in 1..n : c.group_path[d] = path[d]
      OBVIOUS
    <2> HIDE DEF path, n
    <2> QED  BY <2>4, <2>5, <2>6, <2>7
  <1>4. "dim" \in D => scope.dim # ""
    BY DEF IsOverride
  <1>5. Covers(scope, c) <=>
          /\ D # {}
          /\ "dim" \notin D
          /\ "path" \in D => Within1
          /\ "row_type" \in D => c.row_type = scope.row_type
          /\ "metric" \in D => c.col_role = "metric" /\ c.metric_key = scope.metric
    BY DEF Covers
  <1> HIDE DEF Prefixed, Within1, D, scope
  <1>6. Verdict(All(Anchors(scope)), c) = "true" <=> Covers(scope, c)
    BY <1>1, <1>2, <1>3, <1>4, <1>5
  <1> QED  BY <1>6 DEF scope

(* Of the rules that hold, that of the last override is the highest.         *)
LEMMA OverrideHasTheLastWord ==
    ASSUME RulesFit, Ranked, ByPriority, OrderFull, ContextFits, NoHigherRule, Resolved,
           NEW f \in Fields, Over(f, context) # {}
    PROVE  style[f] = Setting(plan.overrides[Max(Over(f, context))].patch, f, context)
  <1> DEFINE doc == plan.doc
             list == plan.overrides
             over == Over(f, context)
             j == Max(over)
  <1>1. /\ IsList(doc) /\ IsList(list)
        /\ \A i \in DOMAIN doc : IsRule(doc[i])
        /\ \A i \in DOMAIN list : IsOverride(list[i])
    BY DEF RulesFit, DocumentsFit
  <1>2. /\ context # NoContext /\ tried = Len(order)
        /\ context.dim_key = "" /\ Len(context.group_path) \in Nat
    BY DEF Resolved, ContextFits
  <1>3. rules = doc \o CompileOverrides(list)
    BY <1>2 DEF RulesFit, Compiled
  <1>4. PICK m, nth : IsCompiled(doc, list, rules, m, nth)
    BY <1>1, <1>3, CompiledRules
  <1>5. /\ m \in Nat /\ Len(rules) = Len(doc) + m
        /\ \A i \in 1..Len(doc) : rules[i] = doc[i]
        /\ nth \in [1..m -> DOMAIN list]
        /\ \A i \in 1..m : rules[Len(doc) + i] = OverrideRule(list[nth[i]])
        /\ \A i \in DOMAIN list : Anchors(list[i].scope) # <<>> => \E k \in 1..m : nth[k] = i
        /\ \A i \in 1..m : Anchors(list[nth[i]].scope) # <<>>
        /\ \A i, k \in 1..m : i < k => nth[i] < nth[k]
    BY <1>4 DEF IsCompiled
  <1>6. /\ Len(doc) \in Nat /\ DOMAIN doc = 1..Len(doc)
        /\ Len(list) \in Nat /\ DOMAIN list = 1..Len(list)
    BY <1>1, ListIsSequence
  <1>7. j \in over /\ \A i \in over : i <= j
    <2>1. over \subseteq 1..Len(list)
      BY <1>6 DEF Over
    <2> HIDE DEF over
    <2> QED  BY <1>6, <2>1, LargestNumber DEF over
  <1>8. j \in DOMAIN list /\ Covers(list[j].scope, context) /\ f \in DOMAIN list[j].patch
    BY <1>7 DEF Over
  <1>9. Anchors(list[j].scope) # <<>>
    <2>1. DOMAIN list[j].scope # {}
      BY <1>8 DEF Covers
    <2> QED  BY <1>1, <1>8, <2>1, AnchoredScopes
  <1> HIDE DEF j
  <1>10. PICK k \in 1..m : nth[k] = j
    BY <1>5, <1>8, <1>9
  <1> DEFINE n == Len(doc) + k
             setting == {i \in hits : f \in DOMAIN rules[i].style}
  <1>11. /\ n \in 1..Len(rules) /\ rules[n] = OverrideRule(list[j])
    BY <1>5, <1>6, <1>10
  <1> HIDE DEF n
  <1>12. DOMAIN order = 1..Len(order) /\ \A l \in 1..Len(order) : order[l] \in 1..Len(rules)
    <2> DEFINE S == 1..Len(rules)
    <2>1. order \in Seq(S)
      BY DEF Ranked
    <2> HIDE DEF S
    <2>2. DOMAIN order = 1..Len(order) /\ \A l \in 1..Len(order) : order[l] \in S
      BY <2>1
    <2> QED  BY <2>2 DEF S
  <1>13. \A i \in 1..Len(rules) :
           i \in hits <=> Verdict(rules[i].when, context) = "true"
    <2>1. hits = {i \in {order[l] : l \in 1..tried} : Verdict(rules[i].when, context) = "true"}
      BY DEF ByPriority
    <2>2. DOMAIN order = 1..tried
      BY <1>2, <1>12
    <2>3. 1..Len(rules) \subseteq {order[l] : l \in 1..tried}
      BY <1>2, <2>2 DEF OrderFull
    <2> QED  BY <2>1, <2>3
  <1>14. n \in setting
    <2>1. /\ rules[n].when = All(Anchors(list[j].scope)) /\ rules[n].style = list[j].patch
      BY <1>11 DEF OverrideRule
    <2>2. Verdict(rules[n].when, context) = "true"
      BY <1>1, <1>2, <1>8, <1>9, <2>1, CoversIsVerdict
    <2> QED  BY <1>8, <1>11, <1>13, <2>1, <2>2
  <1>15. PICK w \in setting : /\ style[f] = Setting(rules[w].style, f, context)
                              /\ \A i \in setting \ {w} : Outranks(rules, w, i)
    <2> HIDE DEF setting
    <2>1. IF setting = {} THEN style[f] = Plain[f]
          ELSE \E x \in setting :
                 /\ style[f] = Setting(rules[x].style, f, context)
                 /\ \A i \in setting \ {x} : Outranks(rules, x, i)
      BY DEF ByPriority, setting
    <2> QED  BY <1>14, <2>1
  <1>16. w = n
    <2> SUFFICES ASSUME w # n
                 PROVE  FALSE
      OBVIOUS
    <2>1. Outranks(rules, w, n)
      BY <1>14, <1>15
    <2>2. rules[n].priority = OverridePriority
      BY <1>11 DEF OverrideRule
    <2>3. w \in 1..Len(rules)
      <3>1. hits \subseteq {order[l] : l \in 1..tried}
        BY DEF ByPriority
      <3>2. \A l \in 1..tried : order[l] \in 1..Len(rules)
        BY <1>2, <1>12
      <3> QED  BY <3>1, <3>2
    <2>4. CASE w \in 1..Len(doc)
      <3>1. rules[w] = doc[w] /\ w \in DOMAIN doc
        BY <1>5, <1>6, <2>4
      <3>2. doc[w].priority \in Int /\ doc[w].priority <= OverridePriority
        BY <1>1, <3>1 DEF IsRule, NoHigherRule
      <3>3. w < n
        BY <1>6, <1>10, <2>4 DEF n
      <3>4. n \in Int /\ w \in Int
        BY <1>11, <2>3
      <3> QED  BY <2>1, <2>2, <3>1, <3>2, <3>3, <3>4 DEF Outranks, OverridePriority
    <2>5. CASE w \notin 1..Len(doc)
      <3> DEFINE l == w - Len(doc)
      <3>1. l \in 1..m /\ w = Len(doc) + l /\ rules[w] = OverrideRule(list[nth[l]])
        <4>1. l \in 1..m /\ w = Len(doc) + l
          BY <1>5, <1>6, <2>3, <2>5
        <4> HIDE DEF l
        <4> QED  BY <1>5, <4>1
      <3> HIDE DEF l
      <3>2. rules[w].priority = OverridePriority
        BY <3>1 DEF OverrideRule
      <3>3. k < l
        <4>1. w > n
          BY <2>1, <2>2, <3>2 DEF Outranks, OverridePriority
        <4> QED  BY <1>6, <1>10, <3>1, <4>1 DEF n
      <3>4. j < nth[l] /\ nth[l] \in DOMAIN list
        BY <1>5, <1>10, <3>1, <3>3
      <3>5. /\ rules[w].when = All(Anchors(list[nth[l]].scope))
            /\ rules[w].style = list[nth[l]].patch
        BY <3>1 DEF OverrideRule
      <3>6. Verdict(rules[w].when, context) = "true" /\ f \in DOMAIN rules[w].style
        BY <1>13, <1>15, <2>3
      <3>7. Covers(list[nth[l]].scope, context)
        <4>1. IsOverride(list[nth[l]]) /\ Anchors(list[nth[l]].scope) # <<>>
          BY <1>1, <1>5, <3>1, <3>4
        <4> QED  BY <1>2, <3>5, <3>6, <4>1, CoversIsVerdict
      <3>8. nth[l] \in over
        BY <3>4, <3>5, <3>6, <3>7 DEF Over
      <3> HIDE DEF over
      <3>9. nth[l] <= j
        BY <1>7, <3>8
      <3>10. j \in Int /\ nth[l] \in Int
        BY <1>6, <1>8, <3>4
      <3> QED  BY <3>4, <3>9, <3>10
    <2> QED  BY <2>4, <2>5
  <1>17. rules[n].style = list[j].patch
    BY <1>11 DEF OverrideRule
  <1> QED  BY <1>15, <1>16, <1>17 DEF j

(* The place of cell n among lines of k cells. *)
LEMMA CellPlace ==
    ASSUME NEW k \in Nat \ {0}, NEW lines \in Nat, NEW n \in 1..lines * k
    PROVE  /\ ((n - 1) \div k) + 1 \in 1..lines
           /\ ((n - 1) % k) + 1 \in 1..k
           /\ n = ((n - 1) \div k) * k + ((n - 1) % k) + 1
  <1> DEFINE q == (n - 1) \div k
             c == (n - 1) % k
  <1>1. n - 1 \in Nat /\ n - 1 < lines * k
    OBVIOUS
  <1>2. n - 1 = k * q + c /\ c \in 0..k - 1 /\ q \in Nat
    BY <1>1
  <1> HIDE DEF q, c
  <1>3. q < lines
    <2> SUFFICES ASSUME lines <= q
                 PROVE  FALSE
      BY <1>2
    <2>1. PICK e \in Nat : q = lines + e
      <3>1. q - lines \in Nat /\ q = lines + (q - lines)
        BY <1>2
      <3> QED  BY <3>1
    <2>2. k * q = lines * k + k * e /\ k * e >= 0
      BY <2>1
    <2> QED  BY <1>1, <1>2, <2>2
  <1>4. q + 1 \in 1..lines /\ c + 1 \in 1..k /\ n = q * k + c + 1
    BY <1>2, <1>3
  <1> QED  BY <1>4 DEF q, c

(* The first cell of a line. *)
LEMMA FirstCell ==
    ASSUME NEW k \in Nat \ {0}, NEW q \in Nat, NEW c \in 1..k, NEW p \in Nat \ {0},
           (p - 1) * k + 1 = q * k + c
    PROVE  p = q + 1 /\ c = 1
  <1>1. c - 1 = (p - 1 - q) * k
    OBVIOUS
  <1>2. CASE p - 1 - q = 0
    BY <1>1, <1>2
  <1>3. CASE p - 1 - q > 0
    <2>1. PICK e \in Nat : p - 1 - q = e + 1
      <3>1. p - 1 - q - 1 \in Nat
        BY <1>3
      <3> QED  BY <3>1
    <2>2. (e + 1) * k = e * k + k /\ e * k >= 0
      OBVIOUS
    <2> QED  BY <1>1, <2>1, <2>2
  <1>4. CASE p - 1 - q < 0
    <2>1. PICK e \in Nat : p - 1 - q = -(e + 1)
      <3>1. q - p \in Nat /\ p - 1 - q = -(q - p + 1)
        BY <1>4
      <3> QED  BY <3>1
    <2>2. (-(e + 1)) * k = -(e * k + k) /\ e * k >= 0
      OBVIOUS
    <2> QED  BY <1>1, <2>1, <2>2
  <1> QED  BY <1>2, <1>3, <1>4

LEMMA FirstCellIsCell ==
    ASSUME NEW k \in Nat \ {0}, NEW lines \in Nat, NEW p \in 1..lines
    PROVE  (p - 1) * k + 1 <= lines * k
  <1>1. PICK e \in Nat : lines = p + e
    <2>1. lines - p \in Nat
      OBVIOUS
    <2> QED  BY <2>1
  <1>2. lines * k = (p - 1) * k + k + e * k /\ e * k >= 0
    BY <1>1
  <1> QED  BY <1>2

(* The cell that is resolved. *)
CellsFit ==
    /\ Unstyled => current = 0
    /\ stage = "cells" =>
         /\ DOMAIN heights = DOMAIN rows
         /\ current \in 0..Cells
         /\ current > 0 => context = Context(RowOf(current), ColumnOf(current))

(* The height of row p in h is that of the last override that covers it. *)
StyledIn(h, p) ==
    LET over == Over("row_height", Context(p, 1))
    IN over # {} => h[p] = plan.overrides[Max(over)].patch.row_height

(* The rows whose first cell is resolved have their heights. *)
HeightsFit ==
    /\ stage = "cells" =>
         \A p \in DOMAIN rows :
            IF (p - 1) * Columns + 1 < current THEN NoHigherRule => StyledIn(heights, p)
            ELSE heights[p] = 0
    /\ stage \in {"built", "rendered", "shown"} /\ NoHigherRule =>
         \A p \in DOMAIN rows : StyledIn(heights, p)

LEMMA PathLengths ==
    ASSUME GroupsFit, RowsDeep, NumbersFit, NEW p \in DOMAIN rows
    PROVE  Len(rows[p].path) \in Nat
  <1>1. p \in 1..Len(rows) /\ def.ndim \in Nat
    BY DEF GroupsFit
  <1>2. CASE rows[p].type = "detail"
    <2>1. rows[p].path \in [1..def.ndim -> Keys]
      BY <1>1, <1>2 DEF NumbersFit, Numbered, Details
    <2> QED  BY <1>1, <2>1
  <1>3. CASE rows[p].type = "subtotal"
    <2>1. Closes(p, Len(rows[p].path))
      BY <1>1, <1>3 DEF Closes, IsSubtotal
    <2> QED  BY <2>1, SubtotalIsLawful
  <1>4. CASE rows[p].type \notin {"detail", "subtotal"}
    <2>1. PICK T : rows \in Seq(T) /\ \A r \in T : DeepRow(r)
      BY DEF RowsDeep
    <2>2. DeepRow(rows[p])
      BY <1>1, <2>1
    <2> QED  BY <1>4, <2>2 DEF DeepRow
  <1> QED  BY <1>2, <1>3, <1>4

LEMMA RowsAndColumns ==
    ASSUME GroupsFit
    PROVE  /\ Columns \in Nat \ {0}
           /\ Len(rows) \in Nat
           /\ DOMAIN rows = 1..Len(rows)
  BY DEF GroupsFit, Columns

LEMMA CellInRows ==
    ASSUME GroupsFit, NEW n \in 1..Cells
    PROVE  /\ RowOf(n) \in DOMAIN rows
           /\ ColumnOf(n) \in 1..Columns
           /\ n = (RowOf(n) - 1) * Columns + ColumnOf(n)
  <1> DEFINE k == Columns
             q == (n - 1) \div k
             c == (n - 1) % k
  <1>1. k \in Nat \ {0} /\ Len(rows) \in Nat /\ DOMAIN rows = 1..Len(rows)
    BY RowsAndColumns
  <1>2. n \in 1..Len(rows) * k
    BY DEF Cells
  <1> HIDE DEF k
  <1>3. /\ q + 1 \in 1..Len(rows) /\ c + 1 \in 1..k
        /\ n = q * k + c + 1
    BY <1>1, <1>2, CellPlace
  <1>4. RowOf(n) = q + 1 /\ ColumnOf(n) = c + 1
    BY DEF RowOf, ColumnOf, k
  <1>5. q \in Int /\ c \in Int
    <2>1. n \in Int
      BY <1>2
    <2> QED  BY <1>1, <2>1
  <1> HIDE DEF q, c
  <1>6. RowOf(n) - 1 = q
    BY <1>4, <1>5
  <1>7. n = (RowOf(n) - 1) * k + ColumnOf(n)
    <2>1. q * k + c + 1 = q * k + (c + 1)
      <3> DEFINE z == q * k
      <3>1. z \in Int
        BY <1>1, <1>5
      <3> HIDE DEF z
      <3>2. z + c + 1 = z + (c + 1)
        BY <1>5, <3>1
      <3> QED  BY <3>2 DEF z
    <2>2. n = q * k + (c + 1)
      BY <1>3, <2>1, Zenon
    <2> DEFINE r == RowOf(n) - 1
    <2>3. r = q
      BY <1>6
    <2> HIDE DEF r
    <2>4. n = r * k + ColumnOf(n)
      BY <1>4, <2>2, <2>3
    <2> QED  BY <2>4 DEF r
  <1> QED  BY <1>1, <1>3, <1>4, <1>7 DEF k

LEMMA ContextFields ==
    ASSUME NEW p, NEW c
    PROVE  /\ Context(p, c) # NoContext
           /\ Context(p, c).dim_key = ""
           /\ Context(p, c).group_path = rows[p].path
  <1>1. "dim_key" \in DOMAIN Context(p, c)
    BY Zenon DEF Context
  <1>2. "dim_key" \notin DOMAIN NoContext
    BY DEF NoContext
  <1>3. Context(p, c).dim_key = "" /\ Context(p, c).group_path = rows[p].path
    BY DEF Context
  <1> QED  BY <1>1, <1>2, <1>3, Zenon

(* The height an override sets is one. *)
LEMMA HeightOfOverride ==
    ASSUME RulesFit, NEW c, Over("row_height", c) # {}
    PROVE  plan.overrides[Max(Over("row_height", c))].patch.row_height \in Nat \ {0}
  <1> DEFINE over == Over("row_height", c)
             list == plan.overrides
  <1>1. IsList(list) /\ \A i \in DOMAIN list : IsOverride(list[i])
    BY DEF RulesFit, DocumentsFit
  <1>2. Len(list) \in Nat /\ DOMAIN list = 1..Len(list)
    BY <1>1, ListIsSequence
  <1>3. over \subseteq 1..Len(list)
    BY <1>2 DEF Over
  <1>4. Max(over) \in over
    <2> HIDE DEF over
    <2> QED  BY <1>2, <1>3, LargestNumber DEF over
  <1>5. Max(over) \in DOMAIN list /\ "row_height" \in DOMAIN list[Max(over)].patch
    BY <1>4 DEF Over
  <1>6. IsSpec(list[Max(over)].patch)
    BY <1>1, <1>5 DEF IsOverride
  <1> QED  BY <1>5, <1>6 DEF IsSpec

(* A row gets its height when its first cell is resolved, and keeps it. *)
LEMMA HeightenedRows ==
    ASSUME GroupsFit, RulesFit, Ranked, ByPriority, OrderFull, ContextFits, CellsFit,
           HeightsFit, stage = "cells", CellDone, NEW p \in DOMAIN rows
    PROVE  IF (p - 1) * Columns + 1 <= current THEN NoHigherRule => StyledIn(Heightened, p)
           ELSE Heightened[p] = 0
  <1> DEFINE k == Columns
             place(q) == (q - 1) * k + 1
             r == RowOf(current)
             h == Heightened
  <1>1. /\ k \in Nat \ {0} /\ Len(rows) \in Nat /\ DOMAIN rows = 1..Len(rows)
        /\ p \in 1..Len(rows) /\ p \in Nat \ {0}
    BY RowsAndColumns
  <1>2. /\ current \in 0..Cells /\ current \in Nat /\ DOMAIN heights = DOMAIN rows
        /\ current > 0 => context = Context(RowOf(current), ColumnOf(current))
    BY DEF CellsFit
  <1>3. IF place(p) < current THEN NoHigherRule => StyledIn(heights, p) ELSE heights[p] = 0
    BY DEF HeightsFit
  <1>4. place(p) \in Int /\ place(p) >= 1
    <2>1. p - 1 \in Nat /\ (p - 1) * k \in Nat
      BY <1>1
    <2> QED  BY <2>1
  <1>5. CASE current = 0
    <2>1. h = heights
      BY <1>5 DEF Heightened
    <2>2. ~(place(p) < current) /\ ~(place(p) <= current)
      BY <1>4, <1>5
    <2> HIDE DEF place, h
    <2> QED  BY <1>3, <2>1, <2>2 DEF place, h
  <1>6. CASE current # 0
    <2> DEFINE c == ColumnOf(current)
    <2>1. /\ r \in DOMAIN rows /\ r \in Nat \ {0} /\ c \in 1..k
          /\ current = (r - 1) * k + c
      <3>1. current \in 1..Cells
        BY <1>2, <1>6
      <3> QED  BY <1>1, <3>1, CellInRows
    <2>2. context = Context(r, c)
      BY <1>2, <1>6
    <2>3. tried = Len(order)
      BY <1>6 DEF CellDone
    <2>4. Resolved
      BY <2>2, <2>3, ContextFields DEF Resolved
    <2>5. /\ p # r => h[p] = heights[p]
          /\ heights[r] > 0 => h[p] = heights[p]
          /\ p = r /\ style.row_height # 0 /\ ~(heights[r] > 0) => h[p] = style.row_height
      BY <1>2, <1>6, <2>1 DEF Heightened
    <2> HIDE DEF h
    <2>6. CASE place(p) < current
      <3> SUFFICES ASSUME NoHigherRule, Over("row_height", Context(p, 1)) # {}
                   PROVE  h[p] = plan.overrides[Max(Over("row_height", Context(p, 1)))].patch.row_height
        <4>1. place(p) <= current
          BY <1>2, <1>4, <2>6
        <4> HIDE DEF place
        <4> QED  BY <4>1 DEF StyledIn, place, h
      <3>1. heights[p] = plan.overrides[Max(Over("row_height", Context(p, 1)))].patch.row_height
        BY <1>3, <2>6 DEF StyledIn
      <3>2. heights[p] \in Nat \ {0}
        BY <3>1, HeightOfOverride
      <3>3. heights[p] > 0
        BY <3>2
      <3>4. h[p] = heights[p]
        BY <2>5, <3>3
      <3> QED  BY <3>1, <3>4
    <2>7. CASE place(p) = current
      <3> SUFFICES ASSUME NoHigherRule, Over("row_height", Context(p, 1)) # {}
                   PROVE  h[p] = plan.overrides[Max(Over("row_height", Context(p, 1)))].patch.row_height
        <4>1. place(p) <= current
          BY <1>2, <1>4, <2>7
        <4> HIDE DEF place
        <4> QED  BY <4>1 DEF StyledIn, place, h
      <3>1. p = r /\ c = 1
        <4> DEFINE q == r - 1
        <4>1. q \in Nat /\ (p - 1) * k + 1 = q * k + c
          BY <2>1, <2>7
        <4>2. r = q + 1
          BY <2>1
        <4> HIDE DEF q, c, r, k
        <4>3. p = q + 1 /\ c = 1
          BY <1>1, <2>1, <4>1, FirstCell
        <4> QED  BY <4>2, <4>3
      <3>2. heights[p] = 0
        <4>1. ~(place(p) < current)
          BY <1>2, <2>7
        <4> HIDE DEF place
        <4> QED  BY <1>3, <4>1
      <3>3. context = Context(p, 1)
        BY <2>2, <3>1
      <3> DEFINE j == Max(Over("row_height", context))
      <3>4. "row_height" \in Fields
        BY DEF Fields
      <3>5. style.row_height = Setting(plan.overrides[j].patch, "row_height", context)
        BY <2>4, <3>3, <3>4, OverrideHasTheLastWord
      <3>6. Setting(plan.overrides[j].patch, "row_height", context)
              = plan.overrides[j].patch.row_height
        <4>1. "row_height" \notin Borders
          BY DEF Borders
        <4> QED  BY <4>1 DEF Setting
      <3>7. plan.overrides[j].patch.row_height \in Nat \ {0}
        BY <3>3, HeightOfOverride
      <3>8. style.row_height # 0 /\ ~(heights[r] > 0)
        BY <3>1, <3>2, <3>5, <3>6, <3>7
      <3>9. h[p] = style.row_height
        BY <2>5, <3>1, <3>8
      <3> QED  BY <3>3, <3>5, <3>6, <3>9
    <2>8. CASE place(p) > current
      <3>1. p # r
        <4> SUFFICES ASSUME p = r PROVE FALSE
          OBVIOUS
        <4> DEFINE z == (r - 1) * k
        <4>1. z \in Int
          BY <1>1, <2>1
        <4>2. current = z + c /\ place(p) = z + 1
          BY <2>1
        <4> HIDE DEF z, place, c
        <4> QED  BY <2>1, <2>8, <4>1, <4>2
      <3>2. ~(place(p) < current) /\ ~(place(p) <= current)
        BY <1>2, <1>4, <2>8
      <3> HIDE DEF place
      <3> QED  BY <1>3, <2>5, <3>1, <3>2 DEF place, h
    <2>9. place(p) < current \/ place(p) = current \/ place(p) > current
      BY <1>2, <1>4
    <2> QED  BY <2>6, <2>7, <2>8, <2>9
  <1> QED  BY <1>5, <1>6

(* What a step is to the cells. *)
LEMMA CellStep ==
    ASSUME [Next]_vars
    PROVE  \/ ReadRules
           \/ NextCell
           \/ BuildFormats
           \/ UNCHANGED <<layoutVars, heights, current>> /\ stage = "cells" /\ ApplyRule
           \/ /\ UNCHANGED current
              /\ Unstyled' => Unstyled
              /\ stage' = "cells" => UNCHANGED vars
              /\ stage' \in {"built", "rendered", "shown"} =>
                   stage \in {"built", "rendered", "shown"} /\ UNCHANGED <<layoutVars, heights>>
  <1>1. CASE Load \/ LoadFails \/ FeedRow \/ RulesInvalid \/ RuleStops
    BY <1>1 DEF Load, LoadFails, FeedRow, RulesInvalid, RuleStops, Unstyled
  <1>2. CASE Render \/ \E w \in plan.windows : ShowWindow(w[1], w[2])
    BY <1>2 DEF Render, ShowWindow, Unstyled
  <1>3. CASE Finished \/ UNCHANGED vars
    <2>1. UNCHANGED vars
      BY <1>3 DEF Finished
    <2> QED  BY <2>1 DEF vars, pipelineVars, Unstyled
  <1>4. CASE LayOut
    BY <1>4 DEF LayOut, pipelineVars, Unstyled
  <1>5. CASE ApplyRule
    BY <1>5 DEF ApplyRule, pipelineVars
  <1> QED  BY <1>1, <1>2, <1>3, <1>4, <1>5 DEF Next

(* A cell's context is about the rows, which do not change any more. *)
LEMMA SameContext ==
    ASSUME UNCHANGED layoutVars, NEW p, NEW c
    PROVE  Context(p, c)' = Context(p, c)
  <1>1. def' = def /\ rows' = rows /\ first' = first /\ last' = last
    BY DEF layoutVars, groupVars, positionVars
  <1> QED  BY <1>1, SMT DEF Context, RowEdge, Columns

LEMMA SamePlaces ==
    ASSUME UNCHANGED layoutVars
    PROVE  /\ rows' = rows
           /\ Columns' = Columns
           /\ Cells' = Cells
  <1>1. def' = def /\ rows' = rows
    BY DEF layoutVars, groupVars
  <1>2. Columns' = Columns
    BY <1>1 DEF Columns
  <1>3. Cells' = Cells
    BY <1>1, <1>2 DEF Cells
  <1> QED  BY <1>1, <1>2, <1>3

CellContext == Context(RowOf(current), ColumnOf(current))

LEMMA CellAt ==
    ASSUME def' = def, rows' = rows, first' = first, last' = last, NEW n, current' = n
    PROVE  CellContext' = Context(RowOf(n), ColumnOf(n))
  BY SMT DEF CellContext, Context, RowEdge, Columns, RowOf, ColumnOf

LEMMA NextContext ==
    ASSUME UNCHANGED layoutVars, current' = current + 1
    PROVE  CellContext' = Context(RowOf(current + 1), ColumnOf(current + 1))
  <1>1. def' = def /\ rows' = rows /\ first' = first /\ last' = last
    BY DEF layoutVars, groupVars, positionVars
  <1>2. PICK n : n = current + 1
    OBVIOUS
  <1>3. CellContext' = Context(RowOf(n), ColumnOf(n))
    BY <1>1, <1>2, CellAt
  <1> QED  BY <1>2, <1>3

LEMMA CellsStayFit ==
    ASSUME GroupsFit, RulesFit, CellsFit, [Next]_vars
    PROVE  CellsFit'
  <1>1. CASE ReadRules
    <2>1. /\ current = 0 /\ current' = current /\ UNCHANGED layoutVars /\ stage' = "cells"
          /\ heights' = [p \in DOMAIN rows |-> 0]
      BY <1>1 DEF ReadRules, CellsFit, Unstyled
    <2>2. rows' = rows /\ DOMAIN heights' = DOMAIN rows /\ Cells' = Cells
      BY <2>1, SamePlaces
    <2>3. 0 \in 0..Cells
      <3>1. Cells \in Nat
        <4>1. Columns \in Nat /\ Len(rows) \in Nat
          BY RowsAndColumns
        <4> QED  BY <4>1 DEF Cells
      <3> QED  BY <3>1
    <2> QED  BY <2>1, <2>2, <2>3 DEF CellsFit, Unstyled
  <1>2. CASE NextCell
    <2>1. /\ stage = "cells" /\ stage' = "cells" /\ UNCHANGED layoutVars
          /\ current' = current + 1 /\ current < Cells /\ heights' = Heightened
          /\ context' = Context(RowOf(current + 1), ColumnOf(current + 1))
      BY <1>2 DEF NextCell, StartCell
    <2>2. DOMAIN heights = DOMAIN rows /\ current \in 0..Cells
      BY <2>1 DEF CellsFit
    <2>3. DOMAIN heights' = DOMAIN rows'
      <3>1. rows' = rows
        BY <2>1, SamePlaces
      <3>2. DOMAIN Heightened = DOMAIN heights
        BY DEF Heightened
      <3> QED  BY <2>1, <2>2, <3>1, <3>2
    <2>4. current' \in 0..Cells'
      <3>1. Cells' = Cells
        BY <2>1, SamePlaces
      <3>2. Cells \in Nat
        <4>1. Columns \in Nat /\ Len(rows) \in Nat
          BY RowsAndColumns
        <4> QED  BY <4>1 DEF Cells
      <3> QED  BY <2>1, <2>2, <3>1, <3>2
    <2>5. context' = CellContext'
      BY <2>1, NextContext
    <2> QED  BY <2>1, <2>3, <2>4, <2>5 DEF CellsFit, CellContext, Unstyled
  <1>3. CASE BuildFormats
    BY <1>3 DEF BuildFormats, CellsFit, Unstyled
  <1>4. CASE UNCHANGED <<layoutVars, heights, current>> /\ stage = "cells" /\ ApplyRule
    <2>1. context' = context /\ stage' = "cells" /\ UNCHANGED <<layoutVars, heights, current>>
      BY <1>4 DEF ApplyRule, TryRule, pipelineVars
    <2>2. CellContext' = CellContext
      <3>1. def' = def /\ rows' = rows /\ first' = first /\ last' = last /\ current' = current
        BY <2>1 DEF layoutVars, groupVars, positionVars
      <3> QED  BY <3>1 DEF CellContext, Context, RowEdge, Columns, RowOf, ColumnOf
    <2>3. rows' = rows /\ Cells' = Cells
      BY <2>1, SamePlaces
    <2> QED  BY <1>4, <2>1, <2>2, <2>3 DEF CellsFit, CellContext, Unstyled
  <1>5. CASE /\ UNCHANGED current
             /\ Unstyled' => Unstyled
             /\ stage' = "cells" => UNCHANGED vars
    <2>1. CASE stage' = "cells"
      <3>1. UNCHANGED <<layoutVars, heights, current, context, stage>>
        BY <1>5, <2>1 DEF vars, pipelineVars, styleVars
      <3>2. CellContext' = CellContext
        <4>1. def' = def /\ rows' = rows /\ first' = first /\ last' = last /\ current' = current
          BY <3>1 DEF layoutVars, groupVars, positionVars
        <4> QED  BY <4>1 DEF CellContext, Context, RowEdge, Columns, RowOf, ColumnOf
      <3>3. rows' = rows /\ Cells' = Cells
        BY <3>1, SamePlaces
      <3> QED  BY <3>1, <3>2, <3>3 DEF CellsFit, CellContext, Unstyled
    <2>2. CASE stage' # "cells"
      BY <1>5, <2>2 DEF CellsFit
    <2> QED  BY <2>1, <2>2
  <1> QED  BY <1>1, <1>2, <1>3, <1>4, <1>5, CellStep

LEMMA OrderStaysFull ==
    ASSUME RulesFit, OrderFull, [Next]_vars
    PROVE  OrderFull'
  <1>1. \/ ReadRules
        \/ NextCell
        \/ ApplyRule
        \/ UNCHANGED <<rules, order, context>> /\ (stage' = "cells" => stage = "cells")
    BY RulesStep DEF RulesFit
  <1>2. CASE ReadRules
    <2> DEFINE list == plan.doc \o CompileOverrides(plan.overrides)
    <2>1. /\ rules' = list
          /\ order' \in Arrangements(Len(list), LAMBDA m, n : Outranks(list, n, m))
      BY <1>2 DEF ReadRules, Rank
    <2> HIDE DEF list
    <2>2. 1..Len(list) \subseteq {order'[k] : k \in DOMAIN order'}
      BY <2>1 DEF Arrangements
    <2> QED  BY <2>1, <2>2 DEF OrderFull
  <1>3. CASE NextCell
    BY <1>3 DEF NextCell, StartCell, OrderFull
  <1>4. CASE ApplyRule
    BY <1>4 DEF ApplyRule, TryRule, OrderFull
  <1>5. CASE UNCHANGED <<rules, order, context>> /\ (stage' = "cells" => stage = "cells")
    BY <1>5 DEF OrderFull
  <1> QED  BY <1>1, <1>2, <1>3, <1>4, <1>5

LEMMA ContextStaysFit ==
    ASSUME GroupsFit, RowsDeep, NumbersFit, RulesFit, CellsFit, ContextFits, [Next]_vars
    PROVE  ContextFits'
  <1>1. \/ ReadRules
        \/ NextCell
        \/ ApplyRule
        \/ UNCHANGED <<rules, order, context>> /\ (stage' = "cells" => stage = "cells")
    BY RulesStep DEF RulesFit
  <1>2. CASE NextCell
    <2>1. /\ stage = "cells" /\ current < Cells
          /\ context' = Context(RowOf(current + 1), ColumnOf(current + 1))
      BY <1>2 DEF NextCell, StartCell
    <2>2. current + 1 \in 1..Cells
      <3>1. current \in 0..Cells
        BY <2>1 DEF CellsFit
      <3>2. Cells \in Nat
        BY RowsAndColumns DEF Cells
      <3> QED  BY <2>1, <3>1, <3>2
    <2>3. RowOf(current + 1) \in DOMAIN rows
      BY <2>2, CellInRows
    <2>4. /\ context'.dim_key = ""
          /\ context'.group_path = rows[RowOf(current + 1)].path
      BY <2>1, ContextFields
    <2>5. Len(rows[RowOf(current + 1)].path) \in Nat
      BY <2>3, PathLengths
    <2> QED  BY <2>4, <2>5 DEF ContextFits
  <1>3. CASE ReadRules \/ ApplyRule \/ UNCHANGED context
    <2>1. context' = context
      BY <1>3 DEF ReadRules, Rank, ApplyRule, TryRule
    <2> QED  BY <2>1 DEF ContextFits
  <1> QED  BY <1>1, <1>2, <1>3

LEMMA SameStyled ==
    ASSUME plan'.doc = plan.doc, plan'.overrides = plan.overrides, UNCHANGED layoutVars,
           NEW p, NEW h, heights' = h
    PROVE  /\ NoHigherRule' = NoHigherRule
           /\ StyledIn(heights, p)' = StyledIn(h, p)
  <1>1. NoHigherRule' = NoHigherRule
    BY DEF NoHigherRule
  <1>2. PICK c : c = Context(p, 1)
    OBVIOUS
  <1>3. Context(p, 1)' = c
    BY <1>2, SameContext
  <1>4. PICK over : over = Over("row_height", c)
    OBVIOUS
  <1>5. Over("row_height", Context(p, 1))' = over
    BY <1>3, <1>4 DEF Over, Covers
  <1>6. StyledIn(h, p) = (over # {} => h[p] = plan.overrides[Max(over)].patch.row_height)
    BY <1>2, <1>4 DEF StyledIn
  <1>7. StyledIn(heights, p)' = (over # {} => h[p] = plan.overrides[Max(over)].patch.row_height)
    BY <1>5 DEF StyledIn
  <1> QED  BY <1>1, <1>6, <1>7

LEMMA HeightsStayFit ==
    ASSUME GroupsFit, RulesFit, Ranked, ByPriority, OrderFull, ContextFits, CellsFit,
           HeightsFit, [Next]_vars
    PROVE  HeightsFit'
  <1>1. plan'.doc = plan.doc /\ plan'.overrides = plan.overrides
    BY RulesStep DEF RulesFit
  <1> DEFINE k == Columns
             place(p) == (p - 1) * k + 1
  <1>2. /\ k \in Nat \ {0} /\ Len(rows) \in Nat /\ DOMAIN rows = 1..Len(rows)
        /\ \A p \in DOMAIN rows : place(p) \in Nat \ {0} /\ place(p) <= Cells
    <2>1. k \in Nat \ {0} /\ Len(rows) \in Nat /\ DOMAIN rows = 1..Len(rows)
      BY RowsAndColumns
    <2>2. ASSUME NEW p \in DOMAIN rows
          PROVE  place(p) \in Nat \ {0} /\ place(p) <= Cells
      <3>1. p - 1 \in Nat /\ (p - 1) * k \in Nat
        BY <2>1, <2>2
      <3>2. (p - 1) * k + 1 <= Len(rows) * k
        <4> HIDE DEF k
        <4> QED  BY <2>1, <2>2, FirstCellIsCell
      <3> QED  BY <3>1, <3>2 DEF Cells
    <2> QED  BY <2>1, <2>2
  <1>3. CASE ReadRules
    <2>1. /\ current = 0 /\ current' = 0 /\ UNCHANGED layoutVars /\ stage' = "cells"
          /\ heights' = [p \in DOMAIN rows |-> 0]
      BY <1>3 DEF ReadRules, CellsFit, Unstyled
    <2>2. rows' = rows /\ Columns' = k
      BY <2>1, SamePlaces
    <2>3. \A p \in DOMAIN rows : ~(place(p) < current') /\ heights'[p] = 0
      BY <1>2, <2>1
    <2> HIDE DEF k
    <2> QED  BY <2>1, <2>2, <2>3 DEF HeightsFit
  <1>4. CASE NextCell
    <2>1. /\ stage = "cells" /\ stage' = "cells" /\ UNCHANGED layoutVars
          /\ current' = current + 1 /\ heights' = Heightened /\ CellDone
      BY <1>4 DEF NextCell
    <2>2. rows' = rows /\ Columns' = k
      BY <2>1, SamePlaces
    <2>3. current \in Nat
      BY <2>1 DEF CellsFit
    <2>4. ASSUME NEW p \in DOMAIN rows
          PROVE  IF place(p) < current' THEN NoHigherRule' => StyledIn(heights, p)'
                 ELSE heights'[p] = 0
      <3>1. PICK h : h = Heightened
        OBVIOUS
      <3>2. IF place(p) <= current THEN NoHigherRule => StyledIn(h, p) ELSE h[p] = 0
        BY <2>1, <2>4, <3>1, HeightenedRows
      <3>3. place(p) < current' <=> place(p) <= current
        <4>1. place(p) \in Nat
          BY <1>2, <2>4
        <4> HIDE DEF place
        <4> QED  BY <2>1, <2>3, <4>1
      <3>4. NoHigherRule' = NoHigherRule /\ StyledIn(heights, p)' = StyledIn(h, p)
        BY <1>1, <2>1, <3>1, SameStyled
      <3>5. heights' = h
        BY <2>1, <3>1
      <3> HIDE DEF place
      <3> QED  BY <3>2, <3>3, <3>4, <3>5
    <2> QED  BY <2>1, <2>2, <2>4 DEF HeightsFit
  <1>5. CASE BuildFormats
    <2>1. /\ stage = "cells" /\ stage' = "built" /\ UNCHANGED layoutVars
          /\ current = Cells /\ heights' = Heightened /\ CellDone
      BY <1>5 DEF BuildFormats
    <2>2. rows' = rows
      BY <2>1, SamePlaces
    <2>3. ASSUME NEW p \in DOMAIN rows
          PROVE  NoHigherRule' => StyledIn(heights, p)'
      <3>1. PICK h : h = Heightened
        OBVIOUS
      <3>2. IF place(p) <= current THEN NoHigherRule => StyledIn(h, p) ELSE h[p] = 0
        BY <2>1, <2>3, <3>1, HeightenedRows
      <3>3. place(p) <= current
        BY <1>2, <2>1, <2>3
      <3>4. NoHigherRule' = NoHigherRule /\ StyledIn(heights, p)' = StyledIn(h, p)
        BY <1>1, <2>1, <3>1, SameStyled
      <3> HIDE DEF place
      <3> QED  BY <3>2, <3>3, <3>4
    <2> QED  BY <2>1, <2>2, <2>3 DEF HeightsFit
  <1>6. ASSUME UNCHANGED <<layoutVars, heights, current>>, stage' = "cells" => stage = "cells",
               stage' \in {"built", "rendered", "shown"} => stage \in {"built", "rendered", "shown"}
        PROVE  HeightsFit'
    <2>1. rows' = rows /\ Columns' = k
      BY <1>6, SamePlaces
    <2>2. PICK h : h = heights
      OBVIOUS
    <2>3. \A p : NoHigherRule' = NoHigherRule /\ StyledIn(heights, p)' = StyledIn(h, p)
      BY <1>1, <1>6, <2>2, SameStyled
    <2>4. NoHigherRule' = NoHigherRule /\ \A p : StyledIn(heights, p)' = StyledIn(heights, p)
      BY <2>2, <2>3
    <2> HIDE DEF k
    <2> QED  BY <1>6, <2>1, <2>4 DEF HeightsFit, k
  <1>7. CASE UNCHANGED <<layoutVars, heights, current>> /\ stage = "cells" /\ ApplyRule
    <2>1. stage' = stage
      BY <1>7 DEF ApplyRule, pipelineVars
    <2> QED  BY <1>6, <1>7, <2>1
  <1>8. CASE /\ UNCHANGED current
             /\ stage' = "cells" => UNCHANGED vars
             /\ stage' \in {"built", "rendered", "shown"} =>
                  stage \in {"built", "rendered", "shown"} /\ UNCHANGED <<layoutVars, heights>>
    <2>1. CASE stage' = "cells" \/ stage' \in {"built", "rendered", "shown"}
      <3>1. UNCHANGED <<layoutVars, heights, current>>
        BY <1>8, <2>1 DEF vars, pipelineVars
      <3>2. stage' = "cells" => stage = "cells"
        BY <1>8 DEF vars, pipelineVars
      <3> QED  BY <1>6, <1>8, <3>1, <3>2
    <2>2. CASE ~(stage' = "cells" \/ stage' \in {"built", "rendered", "shown"})
      BY <2>2 DEF HeightsFit
    <2> QED  BY <2>1, <2>2
  <1> QED  BY <1>3, <1>4, <1>5, <1>7, <1>8, CellStep

LEMMA HeightsFitInit ==
    ASSUME Init
    PROVE  CellsFit /\ HeightsFit /\ ContextFits /\ OrderFull
  BY DEF Init, StyleInit, CellsFit, HeightsFit, ContextFits, OrderFull

LEMMA FittingOverrides ==
    ASSUME RulesFit, Ranked, ByPriority, OrderFull, ContextFits, HeightsFit
    PROVE  OverrideWins
  <1> SUFFICES ASSUME NoHigherRule
               PROVE  /\ Resolved => \A f \in Fields : Over(f, context) # {} =>
                           style[f] = Setting(plan.overrides[Max(Over(f, context))].patch, f, context)
                      /\ stage \in {"built", "rendered", "shown"} =>
                           \A p \in DOMAIN rows : StyledIn(heights, p)
    BY DEF OverrideWins, Over, StyledIn
  <1>1. ASSUME Resolved, NEW f \in Fields, Over(f, context) # {}
        PROVE  style[f] = Setting(plan.overrides[Max(Over(f, context))].patch, f, context)
    BY <1>1, OverrideHasTheLastWord
  <1>2. ASSUME stage \in {"built", "rendered", "shown"}
        PROVE  \A p \in DOMAIN rows : StyledIn(heights, p)
    BY <1>2 DEF HeightsFit
  <1> QED  BY <1>1, <1>2

(* In every cell of every report the fields an override sets are those of    *)
(* the last override that covers the cell, over any rule of the document of  *)
(* a priority up to theirs, and rows have the heights their overrides set.   *)
THEOREM OverridesHaveTheLastWord == Spec => []OverrideWins
  <1>1. Init => GroupsFit /\ RecordsFit /\ RowsDeep /\ TotalsFit /\ NumbersFit
    BY GroupsFitInit, TotalsFitInit, NumbersFitInit
  <1>2. Init => StylesRanked /\ RulesFit
    BY StylesRankedInit, RulesFitInit
  <1>3. Init => CellsFit /\ HeightsFit /\ ContextFits /\ OrderFull
    BY HeightsFitInit
  <1>4. StylesRanked => Ranked /\ ByPriority
    BY DEF StylesRanked
  <1>5. RulesFit /\ Ranked /\ ByPriority /\ OrderFull /\ ContextFits /\ HeightsFit => OverrideWins
    BY FittingOverrides
  <1> QED
    BY <1>1, <1>2, <1>3, <1>4, <1>5, RecordsStep, GroupsStayFit, RowsStayDeep, TotalsStayFit,
       NumbersStayFit, StylesStayRanked, RulesStayFit, CellsStayFit, ContextStaysFit,
       OrderStaysFull, HeightsStayFit, PTL DEF Spec
=============================================================================
