---------------------------- MODULE StyleEngine ----------------------------
(***************************************************************************)
(* The style rules of dynamic-report/internal/style and the overrides that *)
(* internal/pipeline compiles into rules.  The engine sorts the rules by   *)
(* priority once; for a cell it tries them in that order and merges the    *)
(* styles of those whose condition holds.  A step is one iteration of the  *)
(* loop of Resolve (ResolveTraced is the same loop).                       *)
(*                                                                         *)
(* A context is a record whose fields are the names a condition may use.   *)
(* A JSON value is <<type, v>>, a number <<n, d>> the fraction n/d, None   *)
(* where the cell holds no number.  A condition is the sequence of the     *)
(* nodes of its tree, the root first; the nodes below a node come later    *)
(* and are named by their places.  A style is a function from the fields   *)
(* it sets, an override's scope one from the anchors it has.               *)
(***************************************************************************)
EXTENDS RowOrder, FiniteSets, FiniteSetsExt

VARIABLES
    rules,        \* the document's rules, then the overrides'
    order,        \* Engine.rules: the numbers of the rules by priority
    context,      \* the context of the cell being resolved
    tried,        \* how many of the rules were tried on it
    hits,         \* the rules that matched
    style         \* the style merged so far

styleVars == <<rules, order, context, tried, hits, style>>

NoContext == [row_type |-> "none"]
-----------------------------------------------------------------------------
(* The documents *)

IsList(list) == list \in Seq({list[i] : i \in DOMAIN list})

(* A tree: what is below a node comes after it, and under a "not" is one.    *)
IsCond(when) ==
    /\ IsList(when)
    /\ when # <<>>
    /\ \A n \in DOMAIN when :
         LET node == when[n]
         IN /\ node.node \in {"leaf", "all", "any", "not"}
            /\ IsList(node.subs)
            /\ \A i \in DOMAIN node.subs : node.subs[i] \in n + 1..Len(when)
            /\ node.node = "not" => Len(node.subs) = 1

(* A height that is not positive is none. *)
IsSpec(s) == "row_height" \in DOMAIN s => s.row_height \in Nat \ {0}

IsRule(r) == r.priority \in Int /\ IsCond(r.when) /\ IsSpec(r.style)

(* An anchor whose string is empty is none. *)
IsOverride(o) ==
    /\ DOMAIN o.scope \subseteq {"path", "row_type", "metric", "dim"}
    /\ "path" \in DOMAIN o.scope => IsList(o.scope.path)
    /\ "dim" \in DOMAIN o.scope => o.scope.dim # ""
    /\ IsSpec(o.patch)
-----------------------------------------------------------------------------
(* The vocabulary of the rules *)

LineStyles == {"hair", "thin", "medium", "thick", "double", "dashed"}

Borders == {"border_top", "border_right", "border_bottom", "border_left"}

Fields == Borders \cup {"fill", "font_color", "bold", "row_height", "indent"}

(* The style of a cell that no rule touches. *)
Plain == [f \in Fields |-> CASE f = "bold" -> FALSE
                             [] f \in {"row_height", "indent"} -> 0
                             [] OTHER -> ""]

(* The flag of the context that a border's position asks for. *)
FlagAt == [group_first_row |-> "is_group_first_row",
           group_last_row  |-> "is_group_last_row",
           group_first_col |-> "is_group_first_col",
           group_last_col  |-> "is_group_last_col",
           sheet_first_row |-> "is_sheet_first_row",
           sheet_last_row  |-> "is_sheet_last_row"]

Flags == {FlagAt[at] : at \in DOMAIN FlagAt}
Texts == {"row_type", "col_role", "metric_key", "dim_key"}
Numbers == {"dim_depth", "seq_in_group", "value"}

TextOps == {"eq", "ne", "in"}
FlagOps == {"eq", "ne"}
NumberOps == {"odd", "even", "eq", "ne", "gt", "gte", "lt", "lte", "between"}

ValidNode(n) ==
    n.node = "leaf" =>
        /\ n.ctx \in Texts \cup Numbers \cup Flags \cup {"group_path"}
        /\ n.op \in TextOps \cup NumberOps \cup {"prefix"}

ValidSide(s) ==
    /\ s.style \in LineStyles
    /\ s.else \in LineStyles \cup {""}
    /\ s.at \in DOMAIN FlagAt \cup {"", "always"}

ValidStyle(s) ==
    /\ \A f \in DOMAIN s \cap Borders : ValidSide(s[f])
    /\ "indent" \in DOMAIN s => s.indent.expr \in {"", "dim_depth"}

(* RulesDoc.Validate *)
ValidRules(doc) ==
    /\ \A i, j \in DOMAIN doc : doc[i].id = doc[j].id => i = j
    /\ \A i \in DOMAIN doc :
         /\ \A n \in DOMAIN doc[i].when : ValidNode(doc[i].when[n])
         /\ ValidStyle(doc[i].style)
-----------------------------------------------------------------------------
(* Conditions.  A verdict is "true", "false" or "error". *)

Holds(p) == IF p THEN "true" ELSE "false"

TextVerdict(s, leaf) ==
    CASE leaf.op = "eq" -> Holds(leaf.value = <<"string", s>>)
      [] leaf.op = "ne" -> Holds(leaf.value[1] = "string" /\ leaf.value[2] # s)
      [] leaf.op = "in" -> Holds(\E i \in DOMAIN leaf.values :
                                    leaf.values[i] = <<"string", s>>)
      [] OTHER -> "error"

PathVerdict(path, leaf) ==
    IF leaf.op # "prefix" THEN "error"
    ELSE Holds(/\ Len(leaf.values) <= Len(path)
               /\ \A i \in DOMAIN leaf.values :
                    leaf.values[i] = <<"string", path[i]>>)

Magnitude(n) == IF n < 0 THEN -n ELSE n

(* math.Mod keeps the sign of its first argument. *)
Modulo(n, m) == IF n < 0 THEN -(Magnitude(n) % m) ELSE n % m

NumberVerdict(x, leaf) ==
    LET d == x[2]
        n == IF leaf.mod > 0 THEN Modulo(x[1], leaf.mod * d) ELSE x[1]
        Compared(p) == Holds(leaf.value[1] = "number" /\ p)
        v == IF leaf.value[1] = "number" THEN leaf.value[2] * d ELSE 0
        bounds == leaf.values
    IN CASE leaf.op = "odd"  -> Holds(Magnitude(n) % (2 * d) = d)
         [] leaf.op = "even" -> Holds(Magnitude(n) % (2 * d) = 0)
         [] leaf.op = "eq"   -> Compared(n = v)
         [] leaf.op = "ne"   -> Compared(n # v)
         [] leaf.op = "gt"   -> Compared(n > v)
         [] leaf.op = "gte"  -> Compared(n >= v)
         [] leaf.op = "lt"   -> Compared(n < v)
         [] leaf.op = "lte"  -> Compared(n <= v)
         [] leaf.op = "between" ->
              IF Len(bounds) # 2 THEN "error"
              ELSE Holds(/\ bounds[1][1] = "number" /\ bounds[2][1] = "number"
                         /\ bounds[1][2] * d <= n /\ n <= bounds[2][2] * d)
         [] OTHER -> "error"

(* A value that is no flag (the strings "true" and "false" are) is found     *)
(* before the operator is looked at.                                         *)
FlagVerdict(flag, leaf) ==
    CASE leaf.value[1] # "bool" -> "false"
      [] leaf.value[1] = "bool" /\ leaf.op = "eq" -> Holds(flag = leaf.value[2])
      [] leaf.value[1] = "bool" /\ leaf.op = "ne" -> Holds(flag # leaf.value[2])
      [] OTHER -> "error"

LeafVerdict(leaf, c) ==
    CASE leaf.ctx \in Texts -> TextVerdict(c[leaf.ctx], leaf)
      [] leaf.ctx = "group_path" -> PathVerdict(c.group_path, leaf)
      [] leaf.ctx \in Flags -> FlagVerdict(c[leaf.ctx], leaf)
      [] leaf.ctx \in Numbers ->
           IF c[leaf.ctx][2] = 0 THEN "false"
           ELSE NumberVerdict(c[leaf.ctx], leaf)

(* The first verdict that differs from the neutral one decides. *)
Decided(verdicts, neutral) ==
    LET others == {i \in DOMAIN verdicts : verdicts[i] # neutral}
    IN IF others = {} THEN neutral ELSE verdicts[Min(others)]

Verdict(when, c) ==
    LET v[n \in DOMAIN when] ==
          LET node == when[n]
              below == [i \in DOMAIN node.subs |-> v[node.subs[i]]]
          IN CASE node.node = "leaf" -> LeafVerdict(node, c)
               [] node.node = "all"  -> Decided(below, "true")
               [] node.node = "any"  -> Decided(below, "false")
               [] node.node = "not"  -> IF below[1] = "error" THEN "error"
                                        ELSE Holds(below[1] = "false")
    IN v[1]
-----------------------------------------------------------------------------
(* Styles *)

Setting(s, f, c) ==
    CASE f \in Borders ->
           IF s[f].at \in {"", "always"} \/ (s[f].at \in DOMAIN FlagAt /\ c[FlagAt[s[f].at]])
           THEN s[f].style ELSE s[f].else
      [] f = "indent" ->
           IF s[f].expr = "dim_depth" /\ c.dim_depth[1] >= 0
           THEN c.dim_depth[1] ELSE s[f].value
      [] OTHER -> s[f]

(* Fault: a field that is set is not set again. *)
AppliedOnce(rs, s, c) ==
    [f \in Fields |-> IF f \in DOMAIN s /\ rs[f] = Plain[f]
                      THEN Setting(s, f, c) ELSE rs[f]]

(* applySpec *)
Applied(rs, s, c) ==
    [f \in Fields |-> IF f \in DOMAIN s THEN Setting(s, f, c) ELSE rs[f]]
-----------------------------------------------------------------------------
(* Overrides *)

OverridePriority == 10000

Is(name, v) ==
    [node |-> "leaf", subs |-> <<>>, ctx |-> name, op |-> "eq",
     value |-> <<"string", v>>, values |-> <<>>, mod |-> 0]

HasPrefix(path) ==
    [node |-> "leaf", subs |-> <<>>, ctx |-> "group_path", op |-> "prefix",
     value |-> <<"nil", 0>>, mod |-> 0,
     values |-> [i \in DOMAIN path |-> <<"string", path[i]>>]]

(* Fault: the prefix is compared as a text. *)
AnchorsOfText(scope) ==
    (IF "path" \in DOMAIN scope
     THEN <<[HasPrefix(scope.path) EXCEPT !.op = "eq"]>> ELSE <<>>)
    \o (IF "row_type" \in DOMAIN scope THEN <<Is("row_type", scope.row_type)>> ELSE <<>>)
    \o (IF "metric" \in DOMAIN scope
        THEN <<Is("col_role", "metric"), Is("metric_key", scope.metric)>> ELSE <<>>)
    \o (IF "dim" \in DOMAIN scope
        THEN <<Is("col_role", "dimension"), Is("dim_key", scope.dim)>> ELSE <<>>)

Anchors(scope) ==
    (IF "path" \in DOMAIN scope THEN <<HasPrefix(scope.path)>> ELSE <<>>)
    \o (IF "row_type" \in DOMAIN scope THEN <<Is("row_type", scope.row_type)>> ELSE <<>>)
    \o (IF "metric" \in DOMAIN scope
        THEN <<Is("col_role", "metric"), Is("metric_key", scope.metric)>> ELSE <<>>)
    \o (IF "dim" \in DOMAIN scope
        THEN <<Is("col_role", "dimension"), Is("dim_key", scope.dim)>> ELSE <<>>)

All(leaves) ==
    <<[node |-> "all", subs |-> [i \in DOMAIN leaves |-> i + 1]]>> \o leaves

(* What a loop that skips the unwanted entries of a list appends.            *)
Kept(list, wanted) ==
    LET kept[n \in 0..Len(list)] ==
          IF n = 0 THEN <<>>
          ELSE IF n \in wanted THEN Append(kept[n - 1], list[n])
          ELSE kept[n - 1]
    IN kept[Len(list)]

(* Fault: an override ranks with the rules that have no priority. *)
OverrideRuleUnranked(o) ==
    [id |-> <<"override", o.id>>, priority |-> 0,
     when |-> All(Anchors(o.scope)), style |-> o.patch]

OverrideRule(o) ==
    [id |-> <<"override", o.id>>, priority |-> OverridePriority,
     when |-> All(Anchors(o.scope)), style |-> o.patch]

(* CompileOverrides: one that is anchored nowhere is left out. *)
CompileOverrides(overrides) ==
    LET anchored == Kept(overrides, {i \in DOMAIN overrides :
                                       Anchors(overrides[i].scope) # <<>>})
    IN [i \in DOMAIN anchored |-> OverrideRule(anchored[i])]

(* ReportDefinition.Validate, of an override over these dimensions. *)
ValidOverride(o, dims) ==
    /\ "row_type" \in DOMAIN o.scope =>
         o.scope.row_type \in {"detail", "subtotal", "total"}
    /\ ~({"metric", "dim"} \subseteq DOMAIN o.scope)
    /\ "dim" \in DOMAIN o.scope => o.scope.dim \in dims
-----------------------------------------------------------------------------
(* The engine *)

StyleInit ==
    /\ rules = <<>>
    /\ order = <<>>
    /\ context = NoContext
    /\ tried = 0
    /\ hits = {}
    /\ style = Plain

Outranks(list, m, n) ==
    \/ list[m].priority > list[n].priority
    \/ list[m].priority = list[n].priority /\ m > n

(* NewEngine: a stable sort by priority.  The document's rules were sorted  *)
(* before the overrides were appended, which changes nothing.               *)
Rank(list) ==
    /\ rules' = list
    /\ order' \in Arrangements(Len(list), LAMBDA m, n : Outranks(list, n, m))
    /\ UNCHANGED <<context, tried, hits, style>>

StartCell(c) ==
    /\ context' = c
    /\ tried' = 0
    /\ hits' = {}
    /\ style' = Plain
    /\ UNCHANGED <<rules, order>>

CurrentRule == rules[order[tried + 1]]

TryRule ==
    /\ tried < Len(order)
    /\ LET verdict == Verdict(CurrentRule.when, context)
       IN /\ verdict # "error"
          /\ IF verdict = "true"
             THEN /\ hits' = hits \cup {order[tried + 1]}
                  /\ style' = Applied(style, CurrentRule.style, context)
             ELSE UNCHANGED <<hits, style>>
    /\ tried' = tried + 1
    /\ UNCHANGED <<rules, order, context>>

RuleFails ==
    tried < Len(order) /\ Verdict(CurrentRule.when, context) = "error"

Resolved == context # NoContext /\ tried = Len(order)
-----------------------------------------------------------------------------
(* Every field of a cell's style is the one set by the highest of the rules *)
(* that were tried, hold and set it: by priority, the later of two rules of *)
(* one priority in the document.  The explanations name exactly the rules   *)
(* that hold.                                                               *)
ByPriority ==
    /\ hits = {n \in {order[k] : k \in 1..tried} :
                 Verdict(rules[n].when, context) = "true"}
    /\ \A f \in Fields :
         LET setting == {n \in hits : f \in DOMAIN rules[n].style}
         IN IF setting = {} THEN style[f] = Plain[f]
            ELSE \E n \in setting :
                   /\ style[f] = Setting(rules[n].style, f, context)
                   /\ \A m \in setting \ {n} : Outranks(rules, n, m)
=============================================================================
