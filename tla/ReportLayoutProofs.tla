------------------------- MODULE ReportLayoutProofs -------------------------
(***************************************************************************)
(* Lemmas about ReportLayout, for any rows, depths and orders: what a step *)
(* of the engine does to the open groups and the ranges of subtotals, to   *)
(* the totals, traces and aggregates of rows, to the open spans and merged *)
(* ranges, to the numbers and edges of groups, and to the order of rows.   *)
(***************************************************************************)
EXTENDS ReportLayout, FiniteSetTheorems, SequenceTheorems, WellFoundedInduction, TLAPS

(* The merged ranges.                                                        *)

(* The open spans begin before the current row, an outer one not after an    *)
(* inner one; a merged range ended before every span that was opened since,  *)
(* and lies within the spans of outer depths that were open then.            *)
SpansFit ==
    /\ def.ndim \in Nat
    /\ at \in Nat \ {0}
    /\ spans \in Seq(Nat)
    /\ \A d \in 1..Len(spans) : spans[d] < at
    /\ \A d, e \in 1..Len(spans) : d < e => spans[d] <= spans[e]
    /\ merges \subseteq [depth : Nat, from : Nat, to : Nat]
    /\ \A m \in merges : m.to < at
    /\ \A m \in merges, d \in 1..Len(spans) :
         \/ m.to < spans[d]
         \/ d < m.depth /\ spans[d] <= m.from

(* MergesNest, in terms of the ranges' ends. *)
Nest ==
    \A m, n \in merges :
        /\ m.depth = n.depth /\ m # n => m.to < n.from \/ n.to < m.from
        /\ m.depth < n.depth =>
             \/ m.from <= n.from /\ n.to <= m.to
             \/ m.to < n.from \/ n.to < m.from

(* The ranges of the spans that end now. *)
Ending(k) ==
    {[depth |-> d, from |-> spans[d], to |-> at - 1] :
        d \in {e \in (k + 1)..Len(spans) : at - 1 > spans[e]}}

LEMMA ClosedSpansNest ==
    ASSUME SpansFit, Nest, NEW k \in 0..Len(spans),
           merges' = merges \cup Ending(k)
    PROVE  /\ Nest'
           /\ merges' \subseteq [depth : Nat, from : Nat, to : Nat]
           /\ \A m \in merges' : m.to < at
           /\ \A m \in merges', d \in 1..k :
                m.to < spans[d] \/ (d < m.depth /\ spans[d] <= m.from)
  <1>1. /\ Len(spans) \in Nat /\ at \in Nat /\ k \in Nat /\ k <= Len(spans)
        /\ \A d \in 1..Len(spans) : spans[d] \in Nat
    BY DEF SpansFit
  <1>2. \A m \in merges : m.depth \in Nat /\ m.from \in Nat /\ m.to \in Nat
    BY DEF SpansFit
  <1>3. \A m \in Ending(k) :
          /\ m.depth \in (k + 1)..Len(spans) /\ m.depth \in 1..Len(spans)
          /\ m.from = spans[m.depth]
          /\ m.to = at - 1
          /\ at - 1 > spans[m.depth]
          /\ m = [depth |-> m.depth, from |-> spans[m.depth], to |-> at - 1]
    BY <1>1 DEF Ending
  <1>4. \A m \in Ending(k) : m.depth \in Nat /\ m.from \in Nat /\ m.to \in Nat
    BY <1>1, <1>3
  <1>5. /\ \A m \in merges : m.to < at
        /\ \A m \in merges, d \in 1..Len(spans) :
             m.to < spans[d] \/ (d < m.depth /\ spans[d] <= m.from)
    BY DEF SpansFit
  <1>6. \A d, e \in 1..Len(spans) : d < e => spans[d] <= spans[e]
    BY DEF SpansFit
  <1>7. Nest'
    <2> SUFFICES ASSUME NEW m \in merges', NEW n \in merges'
                 PROVE  /\ m.depth = n.depth /\ m # n => m.to < n.from \/ n.to < m.from
                        /\ m.depth < n.depth =>
                             \/ m.from <= n.from /\ n.to <= m.to
                             \/ m.to < n.from \/ n.to < m.from
      BY DEF Nest
    <2>1. CASE m \in merges /\ n \in merges
      BY <2>1 DEF Nest
    <2>2. CASE m \in Ending(k) /\ n \in Ending(k)
      <3>1. m.depth = n.depth => m = n
        BY <2>2, <1>3
      <3>2. ASSUME m.depth < n.depth
            PROVE  m.from <= n.from /\ n.to <= m.to
        <4>1. spans[m.depth] <= spans[n.depth]
          BY <2>2, <3>2, <1>3, <1>6
        <4> QED  BY <2>2, <4>1, <1>1, <1>3
      <3> QED  BY <3>1, <3>2
    <2>3. CASE m \in merges /\ n \in Ending(k)
      <3>1. m.to < spans[n.depth] \/ (n.depth < m.depth /\ spans[n.depth] <= m.from)
        BY <2>3, <1>3, <1>5
      <3>2. n.from = spans[n.depth]
        BY <2>3, <1>3
      <3>3. m.depth \in Nat /\ n.depth \in Nat
        BY <2>3, <1>2, <1>4
      <3>4. m.to < n.from \/ n.depth < m.depth
        BY <3>1, <3>2
      <3> QED  BY <3>3, <3>4
    <2>4. CASE n \in merges /\ m \in Ending(k)
      <3>1. n.to < spans[m.depth] \/ (m.depth < n.depth /\ spans[m.depth] <= n.from)
        BY <2>4, <1>3, <1>5
      <3>2. m.from = spans[m.depth] /\ m.to = at - 1 /\ n.to < at
        BY <2>4, <1>3, <1>5
      <3>3. m.depth \in Nat /\ n.depth \in Nat /\ n.to \in Nat
        BY <2>4, <1>2, <1>4
      <3>4. n.to <= m.to
        BY <3>2, <3>3, <1>1
      <3>5. n.to < m.from \/ (m.depth < n.depth /\ m.from <= n.from)
        BY <3>1, <3>2
      <3> QED  BY <3>3, <3>4, <3>5
    <2> QED  BY <2>1, <2>2, <2>3, <2>4
  <1>8. merges' \subseteq [depth : Nat, from : Nat, to : Nat]
    <2>1. Ending(k) \subseteq [depth : Nat, from : Nat, to : Nat]
      <3> SUFFICES ASSUME NEW m \in Ending(k)
                   PROVE  m \in [depth : Nat, from : Nat, to : Nat]
        OBVIOUS
      <3>1. m.depth \in Nat /\ spans[m.depth] \in Nat /\ at - 1 \in Nat
        BY <1>1, <1>3, <1>4
      <3> QED  BY <3>1, <1>3
    <2> QED  BY <2>1 DEF SpansFit
  <1>9. \A m \in merges' : m.to < at
    BY <1>1, <1>3, <1>5
  <1>10. \A m \in merges', d \in 1..k :
           m.to < spans[d] \/ (d < m.depth /\ spans[d] <= m.from)
    <2> SUFFICES ASSUME NEW m \in merges', NEW d \in 1..k
                 PROVE  m.to < spans[d] \/ (d < m.depth /\ spans[d] <= m.from)
      OBVIOUS
    <2>1. d \in 1..Len(spans)
      BY <1>1
    <2>2. CASE m \in merges
      BY <2>1, <2>2, <1>5
    <2>3. CASE m \in Ending(k)
      <3>1. d < m.depth
        BY <2>3, <1>1, <1>3
      <3>2. spans[d] <= spans[m.depth] /\ m.from = spans[m.depth]
        BY <2>1, <2>3, <3>1, <1>3, <1>6
      <3> QED  BY <3>1, <3>2
    <2> QED  BY <2>2, <2>3
  <1> QED  BY <1>7, <1>8, <1>9, <1>10

LEMMA PositionRowNests ==
    ASSUME SpansFit, Nest, PositionRow
    PROVE  SpansFit' /\ Nest'
  <1>1. PICK k \in 0..Len(spans) :
          LET opening == IF rows[at].type = "detail" THEN def.ndim - k ELSE 0
          IN CloseSpans(k) /\ spans' = SubSeq(spans, 1, k) \o [j \in 1..opening |-> at]
    BY DEF PositionRow
  <1>2. merges' = merges \cup Ending(k)
    BY <1>1 DEF CloseSpans, Ending
  <1>3. at' = at + 1 /\ def' = def
    BY DEF PositionRow
  <1>4. /\ Len(spans) \in Nat /\ at \in Nat /\ k \in Nat /\ k <= Len(spans)
        /\ \A d \in 1..Len(spans) : spans[d] \in Nat /\ spans[d] < at
        /\ \A d, e \in 1..Len(spans) : d < e => spans[d] <= spans[e]
    BY DEF SpansFit
  <1> DEFINE opening == IF rows[at].type = "detail" THEN def.ndim - k ELSE 0
             kept == SubSeq(spans, 1, k)
             opened == [j \in 1..opening |-> at]
             n == IF opening < 0 THEN 0 ELSE opening
  <1>5. kept \in Seq(Nat) /\ Len(kept) = k /\ \A d \in 1..k : kept[d] = spans[d]
    BY DEF SpansFit
  <1>6. n \in Nat /\ 1..opening = 1..n
    <2>1. opening \in Int
      BY <1>4 DEF SpansFit
    <2> HIDE DEF opening
    <2> QED  BY <2>1
  <1> HIDE DEF n, opening
  <1>7. opened \in Seq(Nat) /\ Len(opened) = n /\ \A j \in 1..n : opened[j] = at
    <2>1. opened = [j \in 1..n |-> at]
      BY <1>6
    <2>2. [j \in 1..n |-> at] \in Seq(Nat) /\ Len([j \in 1..n |-> at]) = n
      <3> HIDE DEF opened
      <3> QED  BY <1>4, <1>6
    <2> QED  BY <2>1, <2>2
  <1>8. /\ spans' \in Seq(Nat)
        /\ Len(spans') = k + n
        /\ \A d \in 1..(k + n) : spans'[d] = IF d <= k THEN spans[d] ELSE at
    <2>1. spans' = kept \o opened
      BY <1>1 DEF opening
    <2> HIDE DEF kept, opened
    <2>2. spans' \in Seq(Nat) /\ Len(spans') = k + n
      BY <2>1, <1>5, <1>7, ConcatProperties
    <2>3. ASSUME NEW d \in 1..(k + n)
          PROVE  spans'[d] = IF d <= k THEN spans[d] ELSE at
      <3>1. spans'[d] = IF d <= k THEN kept[d] ELSE opened[d - k]
        BY <2>1, <1>5, <1>7, ConcatProperties
      <3>2. CASE d <= k
        BY <3>1, <3>2, <1>5, <1>4, <1>6
      <3>3. CASE ~(d <= k)
        <4>1. d - k \in 1..n
          BY <3>3, <1>4, <1>6
        <4> QED  BY <3>1, <3>3, <4>1, <1>7
      <3> QED  BY <3>2, <3>3
    <2> QED  BY <2>2, <2>3
  <1> HIDE DEF kept, opened
  <1>9. /\ Nest'
        /\ merges' \subseteq [depth : Nat, from : Nat, to : Nat]
        /\ \A m \in merges' : m.to < at
        /\ \A m \in merges', d \in 1..k :
             m.to < spans[d] \/ (d < m.depth /\ spans[d] <= m.from)
    BY <1>2, ClosedSpansNest
  <1>10. \A d \in 1..(k + n) : spans'[d] \in Nat /\ spans'[d] < at' /\ spans'[d] <= at
    <2> SUFFICES ASSUME NEW d \in 1..(k + n)
                 PROVE  spans'[d] \in Nat /\ spans'[d] < at' /\ spans'[d] <= at
      OBVIOUS
    <2>1. CASE d <= k
      <3>1. d \in 1..Len(spans) /\ spans'[d] = spans[d]
        BY <2>1, <1>4, <1>6, <1>8
      <3> QED  BY <3>1, <1>3, <1>4
    <2>2. CASE ~(d <= k)
      BY <2>2, <1>3, <1>4, <1>6, <1>8
    <2> QED  BY <2>1, <2>2
  <1>11. \A d, e \in 1..(k + n) : d < e => spans'[d] <= spans'[e]
    <2> SUFFICES ASSUME NEW d \in 1..(k + n), NEW e \in 1..(k + n), d < e
                 PROVE  spans'[d] <= spans'[e]
      OBVIOUS
    <2>1. CASE e <= k
      <3>1. /\ d \in 1..Len(spans) /\ spans'[d] = spans[d]
            /\ e \in 1..Len(spans) /\ spans'[e] = spans[e]
        BY <2>1, <1>4, <1>6, <1>8
      <3> QED  BY <3>1, <1>4
    <2>2. CASE ~(e <= k)
      BY <2>2, <1>6, <1>8, <1>10
    <2> QED  BY <2>1, <2>2
  <1>12. \A m \in merges', d \in 1..(k + n) :
            m.to < spans'[d] \/ (d < m.depth /\ spans'[d] <= m.from)
    <2> SUFFICES ASSUME NEW m \in merges', NEW d \in 1..(k + n)
                 PROVE  m.to < spans'[d] \/ (d < m.depth /\ spans'[d] <= m.from)
      OBVIOUS
    <2>1. CASE d <= k
      <3>1. d \in 1..k /\ spans'[d] = spans[d]
        BY <2>1, <1>4, <1>6, <1>8
      <3> QED  BY <3>1, <1>9
    <2>2. CASE ~(d <= k)
      <3>1. spans'[d] = at
        BY <2>2, <1>8
      <3> QED  BY <3>1, <1>9
    <2> QED  BY <2>1, <2>2
  <1>13. at' \in Nat \ {0} /\ def'.ndim \in Nat /\ \A m \in merges' : m.to < at'
    <2>1. \A m \in merges' : m.to \in Nat /\ m.to < at
      BY <1>9
    <2> QED  BY <2>1, <1>3, <1>4 DEF SpansFit
  <1> QED  BY <1>8, <1>9, <1>10, <1>11, <1>12, <1>13 DEF SpansFit

LEMMA PositionEndNests ==
    ASSUME SpansFit, Nest, PositionEnd
    PROVE  SpansFit' /\ Nest'
  <1>1. merges' = merges \cup Ending(0) /\ spans' = <<>> /\ at' = at /\ def' = def
    BY DEF PositionEnd, CloseSpans, Ending
  <1>2. 0 \in 0..Len(spans)
    BY DEF SpansFit
  <1>3. /\ Nest'
        /\ merges' \subseteq [depth : Nat, from : Nat, to : Nat]
        /\ \A m \in merges' : m.to < at
    BY <1>1, <1>2, ClosedSpansNest
  <1> QED  BY <1>1, <1>3 DEF SpansFit
-----------------------------------------------------------------------------
(* The groups.                                                               *)

IsSubtotal(R, p) == R[p].type = "subtotal"

(* Row q of R lies in the group of this path, d deep. *)
Under(R, q, path, d) ==
    Len(R[q].path) >= d /\ \A e \in 1..d : R[q].path[e] = path[e]

(* Row p of R does not continue the group of this path: it is another's, or  *)
(* the subtotal of a group that this one is not nested in.                   *)
Outside(R, p, path, d) ==
    ~Under(R, p, path, d) \/ (IsSubtotal(R, p) /\ Len(R[p].path) <= d)

(* Rows from..to of R are the whole group of this path so far. *)
IsGroup(R, from, to, path, d) ==
    /\ from \in 1..to
    /\ R[from].type = "detail"
    /\ \A q \in from..to : Under(R, q, path, d) /\ (IsSubtotal(R, q) => Len(R[q].path) > d)
    /\ from > 1 => Outside(R, from - 1, path, d)

(* The subtotal in row p of R covers the group it closes. *)
Covers1(R, p) ==
    /\ Len(R[p].path) \in Nat \ {0}
    /\ R[p].to = p - 1
    /\ IsGroup(R, R[p].from, p - 1, R[p].path, Len(R[p].path))

RowFields == {"type", "path", "from", "to", "count", "samples", "value"}

Lawful(R) ==
    /\ Len(R) \in Nat
    /\ \A p \in 1..Len(R) :
         /\ RowFields \subseteq DOMAIN R[p]
         /\ Len(R[p].path) \in Nat
         /\ IsSubtotal(R, p) => Covers1(R, p)

(* What SMT needs to know of a group that was changed in its tally only. *)
LEMMA TallyOnly ==
    ASSUME NEW g, NEW t, {"key", "start", "tally"} \subseteq DOMAIN g
    PROVE  /\ [g EXCEPT !.tally = t].key = g.key
           /\ [g EXCEPT !.tally = t].start = g.start
           /\ [g EXCEPT !.tally = t].tally = t
           /\ DOMAIN [g EXCEPT !.tally = t] = DOMAIN g
  BY Zenon

(* A row's group is decided by the rows up to it. *)
LEMMA GroupOfPrefix ==
    ASSUME NEW R, NEW R2, NEW to \in Nat, NEW from, NEW path, NEW d,
           \A q \in 1..to : R2[q] = R[q],
           IsGroup(R, from, to, path, d)
    PROVE  IsGroup(R2, from, to, path, d)
  <1>1. from \in 1..to /\ \A q \in from..to : q \in 1..to /\ (from > 1 => from - 1 \in 1..to)
    BY DEF IsGroup
  <1> QED  BY <1>1 DEF IsGroup, Under, Outside, IsSubtotal

(* A detail row that begins a group. *)
LEMMA GroupOfOne ==
    ASSUME NEW R, NEW p \in Nat \ {0}, NEW path, NEW d,
           R[p].type = "detail", Under(R, p, path, d),
           p > 1 => Outside(R, p - 1, path, d)
    PROVE  IsGroup(R, p, p, path, d)
  <1>1. p \in 1..p /\ \A q \in p..p : q = p
    OBVIOUS
  <1> QED  BY <1>1 DEF IsGroup, IsSubtotal

(* A row that is appended to the group of a path extends it. *)
LEMMA GroupExtends ==
    ASSUME NEW R, NEW to \in Nat, NEW from, NEW path, NEW d,
           IsGroup(R, from, to, path, d),
           Under(R, to + 1, path, d), IsSubtotal(R, to + 1) => Len(R[to + 1].path) > d
    PROVE  IsGroup(R, from, to + 1, path, d)
  <1>1. from \in 1..to /\ \A q \in from..(to + 1) : q \in from..to \/ q = to + 1
    BY DEF IsGroup
  <1> QED  BY <1>1 DEF IsGroup

(* The paths of the open groups. *)
OpenPath(d) == [e \in 1..d |-> stack[e].key]

GroupsOpen ==
    /\ \E G : stack \in Seq(G)
    /\ (stack = <<>> /\ rows = <<>>) \/ Len(stack) = def.ndim
    /\ \A d \in 1..Len(stack) :
         /\ {"key", "start", "tally"} \subseteq DOMAIN stack[d]
         /\ IsGroup(rows, stack[d].start, Len(rows), OpenPath(d), d)

GroupsFit ==
    /\ def.ndim \in Nat
    /\ \E T : rows \in Seq(T)
    /\ Lawful(rows)
    /\ phase = "feed" => GroupsOpen

(* C has the rows so far and the subtotals of the groups deeper than k. *)
ClosedTo(C, k) ==
    LET L == Len(rows)
        n == Len(stack) - k
    IN /\ Len(C) = L + n
       /\ \A q \in 1..L : C[q] = rows[q]
       /\ \A j \in 1..n :
            /\ RowFields \subseteq DOMAIN C[L + j]
            /\ C[L + j].type = "subtotal"
            /\ C[L + j].path = OpenPath(Len(stack) + 1 - j)
            /\ C[L + j].from = stack[Len(stack) + 1 - j].start
            /\ C[L + j].to = L + j - 1
            /\ C[L + j].count = stack[Len(stack) + 1 - j].tally.count
            /\ C[L + j].samples = stack[Len(stack) + 1 - j].tally.samples
            /\ C[L + j].value = AggValue(stack[Len(stack) + 1 - j].tally.agg)

(* Closing groups appends their subtotals, innermost first. *)
LEMMA ClosedRows ==
    ASSUME GroupsFit, GroupsOpen, NEW k \in 0..Len(stack)
    PROVE  ClosedTo(Closed(k), k) /\ \E T : Closed(k) \in Seq(T)
  <1> DEFINE L == Len(rows)
             n == Len(stack) - k
             T2 == [j \in 1..n |-> Subtotal(Len(stack) + 1 - j, L + j - 1)]
             C == Closed(k)
  <1>1. L \in Nat /\ Len(stack) \in Nat /\ n \in Nat /\ k \in Nat /\ k <= Len(stack)
        /\ n + k = Len(stack)
    BY DEF GroupsFit, GroupsOpen
  <1>2. C = rows \o T2
    BY DEF Closed
  <1>3. PICK T : rows \in Seq(T) /\ T2 \in Seq(T)
    <2>1. PICK T1 : rows \in Seq(T1)
      BY DEF GroupsFit
    <2> DEFINE T == T1 \cup {T2[j] : j \in 1..n}
    <2>2. rows \in Seq(T)
      BY <2>1
    <2>3. T2 \in Seq(T)
      <3>1. \A j \in 1..n : T2[j] \in T
        OBVIOUS
      <3>2. T2 \in [1..n -> T]
        BY <3>1
      <3> HIDE DEF T2, T, n
      <3> QED  BY <3>2, <1>1
    <2> QED  BY <2>2, <2>3
  <1>4. Len(T2) = n
    BY <1>1
  <1>5. /\ C \in Seq(T) /\ Len(C) = L + n
        /\ \A q \in 1..(L + n) : C[q] = IF q <= L THEN rows[q] ELSE T2[q - L]
    <2> HIDE DEF T2, n
    <2> QED  BY <1>1, <1>2, <1>3, <1>4, ConcatProperties
  <1>6. \A q \in 1..L : C[q] = rows[q]
    <2> HIDE DEF C, T2, L, n
    <2> QED  BY <1>1, <1>5
  <1>7. \A j \in 1..n : C[L + j] = Subtotal(Len(stack) + 1 - j, L + j - 1)
    <2> SUFFICES ASSUME NEW j \in 1..n
                 PROVE  C[L + j] = T2[j]
      OBVIOUS
    <2> HIDE DEF C, T2, L, n
    <2>1. L + j \in 1..(L + n) /\ ~(L + j <= L) /\ L + j - L = j
      BY <1>1
    <2>2. ASSUME NEW q \in 1..(L + n), ~(q <= L)
          PROVE  C[q] = T2[q - L]
      BY <1>5, <2>2
    <2>3. C[L + j] = T2[(L + j) - L]
      BY <2>1, <2>2
    <2>4. (L + j) - L = j
      BY <1>1
    <2> QED  BY <2>3, <2>4, Zenon
  <1> HIDE DEF C, T2
  <1>8. \A j \in 1..n :
          /\ RowFields \subseteq DOMAIN C[L + j]
          /\ C[L + j].type = "subtotal"
          /\ C[L + j].path = OpenPath(Len(stack) + 1 - j)
          /\ C[L + j].from = stack[Len(stack) + 1 - j].start
          /\ C[L + j].to = L + j - 1
          /\ C[L + j].count = stack[Len(stack) + 1 - j].tally.count
          /\ C[L + j].samples = stack[Len(stack) + 1 - j].tally.samples
          /\ C[L + j].value = AggValue(stack[Len(stack) + 1 - j].tally.agg)
    <2> SUFFICES ASSUME NEW j \in 1..n
                 PROVE  /\ RowFields \subseteq DOMAIN C[L + j]
                        /\ C[L + j].type = "subtotal"
                        /\ C[L + j].path = OpenPath(Len(stack) + 1 - j)
                        /\ C[L + j].from = stack[Len(stack) + 1 - j].start
                        /\ C[L + j].to = L + j - 1
                        /\ C[L + j].count = stack[Len(stack) + 1 - j].tally.count
                        /\ C[L + j].samples = stack[Len(stack) + 1 - j].tally.samples
                        /\ C[L + j].value = AggValue(stack[Len(stack) + 1 - j].tally.agg)
      OBVIOUS
    <2>1. C[L + j] = Subtotal(Len(stack) + 1 - j, L + j - 1)
      BY <1>7
    <2> HIDE DEF L
    <2> QED  BY <2>1 DEF Subtotal, TallyRow, OpenPath, RowFields
  <1>9. C = Closed(k) /\ n = Len(stack) - k /\ \E U : C \in Seq(U)
    BY <1>5 DEF C
  <1> HIDE DEF L, n
  <1> QED  BY <1>5, <1>6, <1>8, <1>9 DEF L, n, ClosedTo

(* The subtotals cover the groups they close, the others stay open. *)
LEMMA ClosedIsLawful ==
    ASSUME GroupsFit, GroupsOpen, NEW k \in 0..Len(stack)
    PROVE  LET C == Closed(k) IN
           /\ \E T : C \in Seq(T)
           /\ Len(C) = Len(rows) + (Len(stack) - k)
           /\ Lawful(C)
           /\ \A d \in 1..k : IsGroup(C, stack[d].start, Len(C), OpenPath(d), d)
           /\ Len(stack) > k => IsSubtotal(C, Len(C)) /\ Len(C[Len(C)].path) = k + 1
  <1> DEFINE L == Len(rows)
             n == Len(stack) - k
             C == Closed(k)
  <1>1. L \in Nat /\ Len(stack) \in Nat /\ n \in Nat /\ k \in Nat /\ k <= Len(stack)
        /\ n + k = Len(stack)
    BY DEF GroupsFit, GroupsOpen
  <1>2. /\ \E T : C \in Seq(T)
        /\ Len(C) = L + n
        /\ \A q \in 1..L : C[q] = rows[q]
        /\ \A j \in 1..n :
             /\ RowFields \subseteq DOMAIN C[L + j]
             /\ C[L + j].type = "subtotal"
             /\ C[L + j].path = OpenPath(Len(stack) + 1 - j)
             /\ C[L + j].from = stack[Len(stack) + 1 - j].start
             /\ C[L + j].to = L + j - 1
    BY ClosedRows DEF ClosedTo
  <1> HIDE DEF C
  <1>3. \A d \in 1..Len(stack) : Len(OpenPath(d)) = d /\ \A e \in 1..d : OpenPath(d)[e] = stack[e].key
    BY <1>1 DEF OpenPath
  <1>4. ASSUME NEW d \in 1..Len(stack), NEW m \in 0..n, m <= Len(stack) - d
         PROVE  IsGroup(C, stack[d].start, L + m, OpenPath(d), d)
    <2> DEFINE from == stack[d].start
    <2>1. IsGroup(rows, from, L, OpenPath(d), d)
      BY DEF GroupsOpen
    <2>2. IsGroup(C, from, L, OpenPath(d), d)
      <3>1. L \in Nat /\ \A q \in 1..L : C[q] = rows[q]
        BY <1>1, <1>2
      <3> HIDE DEF L
      <3> QED  BY <2>1, <3>1, GroupOfPrefix
    <2>3. from \in 1..(L + m)
      BY <1>1, <2>1 DEF IsGroup
    <2>4. ASSUME NEW q \in from..(L + m)
          PROVE  Under(C, q, OpenPath(d), d) /\ (IsSubtotal(C, q) => Len(C[q].path) > d)
      <3>1. CASE q <= L
        BY <1>1, <2>2, <2>4, <3>1, <2>3 DEF IsGroup
      <3>2. CASE ~(q <= L)
        <4> DEFINE j == q - L
                   f == Len(stack) + 1 - j
        <4>1. j \in 1..n /\ q = L + j /\ f \in 1..Len(stack) /\ f > d
          BY <1>1, <2>3, <2>4, <3>2, <1>4
        <4>2. C[q].path = OpenPath(f)
          BY <1>2, <4>1
        <4>3. Len(C[q].path) = f /\ \A e \in 1..f : C[q].path[e] = stack[e].key
          BY <1>3, <4>1, <4>2
        <4> HIDE DEF f, j
        <4> QED  BY <1>1, <1>3, <4>1, <4>3 DEF Under
      <3> QED  BY <3>1, <3>2
    <2> QED  BY <2>2, <2>3, <2>4 DEF IsGroup
  <1>5. ASSUME NEW p \in 1..(L + n)
         PROVE  /\ RowFields \subseteq DOMAIN C[p]
                /\ Len(C[p].path) \in Nat
                /\ IsSubtotal(C, p) => Covers1(C, p)
    <2>1. CASE p <= L
      <3>1. p \in 1..L /\ C[p] = rows[p]
        BY <1>1, <1>2, <2>1
      <3>2. /\ RowFields \subseteq DOMAIN rows[p]
            /\ Len(rows[p].path) \in Nat
            /\ IsSubtotal(rows, p) => Covers1(rows, p)
        BY <3>1 DEF GroupsFit, Lawful
      <3>3. ASSUME IsSubtotal(C, p)
            PROVE  Covers1(C, p)
        <4>1. Covers1(rows, p)
          BY <3>1, <3>2, <3>3 DEF IsSubtotal
        <4>2. p - 1 \in Nat /\ \A q \in 1..(p - 1) : C[q] = rows[q]
          BY <1>1, <1>2, <3>1
        <4>3. IsGroup(C, rows[p].from, p - 1, rows[p].path, Len(rows[p].path))
          BY <4>1, <4>2, GroupOfPrefix DEF Covers1
        <4> QED  BY <3>1, <4>1, <4>3 DEF Covers1
      <3> QED  BY <3>1, <3>2, <3>3
    <2>2. CASE ~(p <= L)
      <3> DEFINE j == p - L
                 d == Len(stack) + 1 - j
      <3>1. j \in 1..n /\ p = L + j /\ d \in 1..Len(stack) /\ p - 1 = L + (j - 1)
            /\ j - 1 \in 0..n /\ j - 1 <= Len(stack) - d
        BY <1>1, <2>2
      <3>2. /\ RowFields \subseteq DOMAIN C[p]
            /\ C[p].path = OpenPath(d) /\ C[p].from = stack[d].start /\ C[p].to = p - 1
        BY <1>2, <3>1
      <3>3. Len(C[p].path) = d /\ d \in Nat \ {0}
        <4> HIDE DEF d, j, L, n
        <4> QED  BY <1>1, <1>3, <3>1, <3>2
      <3>4. IsGroup(C, stack[d].start, p - 1, OpenPath(d), d)
        BY <1>4, <3>1
      <3> HIDE DEF d, j
      <3> QED  BY <3>2, <3>3, <3>4 DEF Covers1
    <2> QED  BY <2>1, <2>2
  <1>6. Lawful(C)
    <2>1. Len(C) = L + n /\ L + n \in Nat
      BY <1>1, <1>2
    <2> HIDE DEF L, n
    <2> QED  BY <1>5, <2>1 DEF Lawful
  <1>7. \A d \in 1..k : IsGroup(C, stack[d].start, Len(C), OpenPath(d), d)
    <2> SUFFICES ASSUME NEW d \in 1..k
                 PROVE  IsGroup(C, stack[d].start, Len(C), OpenPath(d), d)
      OBVIOUS
    <2>1. d \in 1..Len(stack) /\ n \in 0..n /\ n <= Len(stack) - d
      BY <1>1
    <2> QED  BY <2>1, <1>2, <1>4
  <1>8. Len(stack) > k => IsSubtotal(C, Len(C)) /\ Len(C[Len(C)].path) = k + 1
    <2> SUFFICES ASSUME Len(stack) > k
                 PROVE  IsSubtotal(C, L + n) /\ Len(C[L + n].path) = k + 1
      BY <1>2
    <2>1. n \in 1..n /\ Len(stack) + 1 - n = k + 1 /\ k + 1 \in 1..Len(stack)
      BY <1>1
    <2>2. C[L + n].type = "subtotal" /\ C[L + n].path = OpenPath(k + 1)
      BY <1>2, <2>1
    <2> QED  BY <1>3, <2>1, <2>2 DEF IsSubtotal
  <1> HIDE DEF L, n
  <1> QED  BY <1>2, <1>6, <1>7, <1>8 DEF L, n, C

(* Appending a row that is no subtotal breaks no law. *)
LEMMA AppendIsLawful ==
    ASSUME NEW R, Lawful(R), NEW R2, Len(R2) = Len(R) + 1,
           \A q \in 1..Len(R) : R2[q] = R[q],
           RowFields \subseteq DOMAIN R2[Len(R) + 1],
           Len(R2[Len(R) + 1].path) \in Nat, ~IsSubtotal(R2, Len(R) + 1)
    PROVE  Lawful(R2)
  <1> DEFINE L == Len(R)
  <1>1. L \in Nat /\ Len(R2) = L + 1
    BY DEF Lawful
  <1>2. ASSUME NEW p \in 1..L
        PROVE  /\ RowFields \subseteq DOMAIN R2[p]
               /\ Len(R2[p].path) \in Nat /\ (IsSubtotal(R2, p) => Covers1(R2, p))
    <2>1. R2[p] = R[p] /\ p - 1 \in Nat /\ \A q \in 1..(p - 1) : R2[q] = R[q]
      BY <1>1, <1>2
    <2>2. /\ RowFields \subseteq DOMAIN R[p]
          /\ Len(R[p].path) \in Nat /\ (IsSubtotal(R, p) => Covers1(R, p))
      BY DEF Lawful
    <2>3. ASSUME IsSubtotal(R2, p)
          PROVE  Covers1(R2, p)
      <3>1. Covers1(R, p)
        BY <2>1, <2>2, <2>3 DEF IsSubtotal
      <3>2. IsGroup(R2, R[p].from, p - 1, R[p].path, Len(R[p].path))
        BY <2>1, <3>1, GroupOfPrefix DEF Covers1
      <3> QED  BY <2>1, <3>1, <3>2 DEF Covers1
    <2> QED  BY <2>1, <2>2, <2>3
  <1>3. \A p \in 1..(L + 1) : p \in 1..L \/ p = L + 1
    BY <1>1
  <1> HIDE DEF L
  <1> QED  BY <1>1, <1>2, <1>3 DEF Lawful, L

(* The number of a row that shares the k outermost groups. *)
FedSeq(k) ==
    IF def.ndim = 0 THEN Len(rows) + 1 ELSE IF k < def.ndim THEN 1 ELSE seq + 1

(* What a row does that shares the k outermost groups. *)
FedTo(r, k) ==
    LET C == Closed(k)
        LC == Len(C)
    IN /\ k <= def.ndim
       /\ Shared(r.keys, k)
       /\ seq' = FedSeq(k)
       /\ (\E G : stack' \in Seq(G)) /\ Len(stack') = def.ndim
       /\ \A d \in 1..def.ndim :
            /\ {"key", "start", "tally"} \subseteq DOMAIN stack'[d]
            /\ stack'[d].key = r.keys[d]
            /\ stack'[d].start = IF d <= k THEN stack[d].start ELSE LC + 1
            /\ stack'[d].tally = Tallied(IF d <= k THEN stack[d].tally ELSE ZeroTally, r)
       /\ (\E T : rows' \in Seq(T)) /\ Len(rows') = LC + 1
       /\ \A q \in 1..LC : rows'[q] = C[q]
       /\ rows'[LC + 1] = DetailRow(r, FedSeq(k))

(* A row is appended below the subtotals of the groups that it ends, and the *)
(* groups that it starts begin at it.                                        *)
LEMMA FedRows ==
    ASSUME GroupsFit, NEW r, r.keys \in [1..def.ndim -> Keys], Feed(r)
    PROVE  \E k \in 0..Len(stack) : FedTo(r, k)
  <1> DEFINE D == def.ndim
  <1>1. /\ D \in Nat /\ GroupsOpen
        /\ phase = "feed" /\ phase' = "feed" /\ def' = def
    BY DEF Feed, GroupsFit
  <1>2. Len(stack) \in Nat /\ (Len(stack) = D \/ (stack = <<>> /\ rows = <<>>))
    BY <1>1 DEF GroupsOpen
  <1>3. PICK k \in 0..Len(stack) :
          LET opened == [d \in 1..(D - k) |->
                           [key |-> r.keys[k + d], start |-> Len(Closed(k)) + 1,
                            tally |-> ZeroTally]]
              open == SubSeq(stack, 1, k) \o opened
          IN /\ Shared(r.keys, k)
             /\ stack' = [d \in DOMAIN open |-> [open[d] EXCEPT !.tally = Tallied(@, r)]]
             /\ seq' = FedSeq(k)
             /\ rows' = Append(Closed(k), DetailRow(r, FedSeq(k)))
    BY DEF Feed, FedSeq
  <1> DEFINE n == FedSeq(k)
  <1> DEFINE C == Closed(k)
             LC == Len(C)
             opened == [d \in 1..(D - k) |->
                          [key |-> r.keys[k + d], start |-> LC + 1, tally |-> ZeroTally]]
             kept == SubSeq(stack, 1, k)
             open == kept \o opened
  <1>4. k \in Nat /\ k <= Len(stack) /\ k <= D /\ D - k \in Nat
    <2>1. stack = <<>> => Len(stack) = 0
      OBVIOUS
    <2> QED  BY <1>1, <1>2, <2>1
  <1>5. /\ \E T : C \in Seq(T)
        /\ LC \in Nat
    BY <1>1, ClosedIsLawful DEF Lawful
  <1>6. \A d \in 1..k : stack[d].key = r.keys[d]
    BY <1>3 DEF Shared, Shares
  <1>7. /\ rows' = Append(C, DetailRow(r, n))
        /\ stack' = [d \in DOMAIN open |-> [open[d] EXCEPT !.tally = Tallied(@, r)]]
    BY <1>3
  <1>8. LC \in Nat
    BY <1>5
  <1> HIDE DEF C, LC, n
  (* The open groups. *)
  <1>9. PICK G : stack \in Seq(G)
    BY <1>1 DEF GroupsOpen
  <1>10. /\ kept \in Seq(G) /\ Len(kept) = k /\ \A d \in 1..k : kept[d] = stack[d]
    BY <1>4, <1>9, SubSeqProperties
  <1>11. /\ opened \in Seq({opened[d] : d \in 1..(D - k)}) /\ Len(opened) = D - k
         /\ \A d \in 1..(D - k) : opened[d] = [key |-> r.keys[k + d], start |-> LC + 1,
                                               tally |-> ZeroTally]
    <2> DEFINE m == D - k
               S == {opened[d] : d \in 1..m}
    <2>1. opened \in [1..m -> S] /\ m \in Nat
      BY <1>4
    <2>2. Len(opened) = m
      BY <1>4
    <2>3. \A d \in 1..m : opened[d] = [key |-> r.keys[k + d], start |-> LC + 1,
                                       tally |-> ZeroTally]
      OBVIOUS
    <2> HIDE DEF opened, S, m
    <2>4. opened \in Seq(S)
      BY <2>1
    <2> QED  BY <2>2, <2>3, <2>4 DEF S, m
  <1> HIDE DEF kept, opened
  <1>12. /\ Len(open) = D /\ DOMAIN open = 1..D
         /\ \A d \in 1..D : open[d] = IF d <= k THEN stack[d] ELSE opened[d - k]
    <2> DEFINE S == G \cup {opened[d] : d \in 1..(D - k)}
    <2>1. kept \in Seq(S) /\ opened \in Seq(S)
      BY <1>10, <1>11
    <2>2. /\ open \in Seq(S) /\ Len(open) = k + (D - k)
          /\ \A d \in 1..(k + (D - k)) :
               open[d] = IF d <= k THEN kept[d] ELSE opened[d - k]
      <3> HIDE DEF S, D
      <3>1. /\ open \in Seq(S) /\ Len(open) = Len(kept) + Len(opened)
            /\ \A d \in 1..(Len(kept) + Len(opened)) :
                 open[d] = IF d <= Len(kept) THEN kept[d] ELSE opened[d - Len(kept)]
        BY <2>1, ConcatProperties
      <3> HIDE DEF open
      <3> QED  BY <3>1, <1>10, <1>11
    <2>3. k + (D - k) = D
      BY <1>1, <1>4
    <2> HIDE DEF S, open, D
    <2>4. DOMAIN open = 1..D
      BY <2>2, <2>3
    <2>5. ASSUME NEW d \in 1..D, d <= k
          PROVE  kept[d] = stack[d]
      BY <1>1, <1>4, <1>10, <2>5
    <2> QED  BY <2>2, <2>3, <2>4, <2>5
  <1> HIDE DEF open
  <1>13. ASSUME NEW d \in 1..D
         PROVE  /\ {"key", "start", "tally"} \subseteq DOMAIN stack'[d]
                /\ stack'[d].key = r.keys[d]
                /\ stack'[d].start = IF d <= k THEN stack[d].start ELSE LC + 1
                /\ stack'[d].tally = Tallied(IF d <= k THEN stack[d].tally ELSE ZeroTally, r)
    <2>1. stack'[d] = [open[d] EXCEPT !.tally = Tallied(@, r)]
      BY <1>7, <1>12
    <2>2. CASE d <= k
      <3>1. open[d] = stack[d] /\ d \in 1..k /\ d \in 1..Len(stack)
        BY <1>1, <1>4, <1>12, <2>2
      <3>2. {"key", "start", "tally"} \subseteq DOMAIN stack[d]
        BY <1>1, <3>1 DEF GroupsOpen
      <3>3. stack'[d] = [stack[d] EXCEPT !.tally = Tallied(stack[d].tally, r)]
        BY <2>1, <3>1, Zenon
      <3>4. /\ stack'[d].key = stack[d].key
            /\ stack'[d].start = stack[d].start
            /\ stack'[d].tally = Tallied(stack[d].tally, r)
            /\ DOMAIN stack'[d] = DOMAIN stack[d]
        BY <3>2, <3>3, TallyOnly, Zenon
      <3> QED  BY <2>2, <3>1, <3>2, <3>4, <1>6
    <2>3. CASE ~(d <= k)
      <3>1. open[d] = opened[d - k] /\ d - k \in 1..(D - k) /\ k + (d - k) = d
        BY <1>1, <1>4, <1>12, <2>3
      <3>2. open[d] = [key |-> r.keys[d], start |-> LC + 1, tally |-> ZeroTally]
        BY <1>11, <3>1
      <3>3. stack'[d] = [key |-> r.keys[d], start |-> LC + 1,
                         tally |-> Tallied(ZeroTally, r)]
        BY <2>1, <3>2
      <3> QED  BY <2>3, <3>3
    <2> QED  BY <2>2, <2>3
  <1>14. stack' \in Seq({stack'[d] : d \in 1..D}) /\ Len(stack') = D
    <2> DEFINE S == {stack'[d] : d \in 1..D}
    <2>1. DOMAIN stack' = 1..D /\ \A d \in 1..D : stack'[d] \in S
      BY <1>7, <1>12
    <2>2. stack' = [d \in 1..D |-> stack'[d]]
      BY <1>7, <1>12
    <2>3. D \in Nat
      BY <1>1
    <2> HIDE DEF S, D
    <2>4. stack' \in [1..D -> S]
      BY <2>1, <2>2
    <2> QED  BY <2>3, <2>4 DEF S
  (* The rows. *)
  <1>15. /\ \E T : rows' \in Seq(T)
         /\ Len(rows') = LC + 1
         /\ \A q \in 1..LC : rows'[q] = C[q]
         /\ rows'[LC + 1] = DetailRow(r, n)
    <2>1. PICK T : C \in Seq(T)
      BY <1>5
    <2> DEFINE S == T \cup {DetailRow(r, n)}
    <2>2. C \in Seq(S) /\ DetailRow(r, n) \in S
      BY <2>1
    <2> HIDE DEF S
    <2> QED  BY <1>7, <2>2, AppendProperties DEF LC
  <1>16. k \in 0..Len(stack) /\ Shared(r.keys, k) /\ n = FedSeq(k) /\ seq' = FedSeq(k)
    BY <1>3 DEF n
  <1> QED  BY <1>4, <1>13, <1>14, <1>15, <1>16 DEF LC, C, FedTo

LEMMA FeedKeepsGroups ==
    ASSUME GroupsFit, NEW r, r.keys \in [1..def.ndim -> Keys], Feed(r)
    PROVE  GroupsFit'
  <1> DEFINE D == def.ndim
  <1>1. /\ D \in Nat /\ GroupsOpen
        /\ phase = "feed" /\ phase' = "feed" /\ def' = def
    BY DEF Feed, GroupsFit
  <1>2. Len(stack) \in Nat /\ (Len(stack) = D \/ (stack = <<>> /\ rows = <<>>))
    BY <1>1 DEF GroupsOpen
  <1>3. PICK k \in 0..Len(stack) : FedTo(r, k)
    BY FedRows
  <1> DEFINE C == Closed(k)
             LC == Len(C)
             n == FedSeq(k)
  <1>4. k \in Nat /\ k <= Len(stack) /\ k <= D /\ D - k \in Nat
    BY <1>1, <1>2, <1>3 DEF FedTo
  <1>5. /\ LC = Len(rows) + (Len(stack) - k)
        /\ Lawful(C)
        /\ \A d \in 1..k : IsGroup(C, stack[d].start, LC, OpenPath(d), d)
        /\ Len(stack) > k => IsSubtotal(C, LC) /\ Len(C[LC].path) = k + 1
    BY <1>1, ClosedIsLawful
  <1>6. \A d \in 1..k : stack[d].key = r.keys[d]
    BY <1>3 DEF FedTo, Shared, Shares
  <1>7. LC \in Nat
    BY <1>5 DEF Lawful
  <1>8. \A d \in 1..D : /\ {"key", "start", "tally"} \subseteq DOMAIN stack'[d]
                         /\ stack'[d].key = r.keys[d]
                         /\ stack'[d].start = IF d <= k THEN stack[d].start ELSE LC + 1
    BY <1>3 DEF FedTo
  <1>9. (\E G : stack' \in Seq(G)) /\ Len(stack') = D
    BY <1>3 DEF FedTo
  <1>10. /\ \E T : rows' \in Seq(T)
         /\ Len(rows') = LC + 1
         /\ \A q \in 1..LC : rows'[q] = C[q]
         /\ rows'[LC + 1] = DetailRow(r, n)
    BY <1>3 DEF FedTo
  <1> HIDE DEF C, LC, n
  <1>11. /\ rows'[LC + 1].type = "detail" /\ rows'[LC + 1].path = r.keys
         /\ RowFields \subseteq DOMAIN rows'[LC + 1]
    BY <1>10 DEF DetailRow, RowFields
  <1>12. Len(r.keys) = D
    BY <1>1
  <1>13. Lawful(rows')
    <2>1. ~IsSubtotal(rows', LC + 1)
      BY <1>11 DEF IsSubtotal
    <2> QED  BY <1>1, <1>5, <1>10, <1>11, <1>12, <2>1, AppendIsLawful DEF LC
  <1>14. ASSUME NEW d \in 1..D
         PROVE  IsGroup(rows', stack'[d].start, Len(rows'), OpenPath(d)', d)
    <2> DEFINE path == OpenPath(d)'
    <2>1. d \in Nat \ {0} /\ d <= D /\ \A e \in 1..d : e \in 1..D /\ path[e] = r.keys[e]
      BY <1>1, <1>8 DEF OpenPath
    <2> HIDE DEF path
    <2>2. Under(rows', LC + 1, path, d) /\ ~IsSubtotal(rows', LC + 1)
      BY <1>1, <1>11, <1>12, <2>1 DEF Under, IsSubtotal
    <2>3. CASE d <= k
      <3>1. path = OpenPath(d)
        <4>1. \A e \in 1..d : stack'[e].key = stack[e].key
          BY <1>4, <1>6, <1>8, <2>1, <2>3
        <4> QED  BY <4>1 DEF OpenPath, path
      <3>2. stack'[d].start = stack[d].start /\ IsGroup(C, stack[d].start, LC, path, d)
        BY <1>4, <1>5, <1>8, <2>1, <2>3, <3>1
      <3>3. IsGroup(rows', stack[d].start, LC, path, d)
        BY <1>7, <1>10, <3>2, GroupOfPrefix
      <3> QED  BY <1>7, <1>10, <2>2, <3>2, <3>3, GroupExtends DEF path
    <2>4. CASE ~(d <= k)
      <3>1. stack'[d].start = LC + 1
        BY <1>8, <2>4
      <3>2. LC + 1 > 1 => Outside(rows', LC, path, d)
        <4> SUFFICES ASSUME LC > 0
                     PROVE  Outside(rows', LC, path, d)
          BY <1>7
        <4>1. rows'[LC] = C[LC]
          BY <1>7, <1>10
        <4>2. Len(stack) > k
          <5> SUFFICES ASSUME Len(stack) = k
                       PROVE  FALSE
            BY <1>2, <1>4
          <5>1. k # D
            BY <1>1, <1>4, <2>1, <2>4
          <5>2. rows = <<>> /\ LC = Len(rows)
            BY <1>2, <1>4, <1>5, <5>1
          <5> QED  BY <5>2
        <4>3. IsSubtotal(rows', LC) /\ Len(rows'[LC].path) <= d
          BY <1>4, <1>5, <2>1, <2>4, <4>1, <4>2 DEF IsSubtotal
        <4> QED  BY <4>3 DEF Outside
      <3> DEFINE p == LC + 1
      <3>3. p \in Nat \ {0} /\ p - 1 = LC
        BY <1>7
      <3>4. rows'[p].type = "detail" /\ Under(rows', p, path, d)
        BY <1>11, <2>2
      <3>5. p > 1 => Outside(rows', p - 1, path, d)
        BY <3>2, <3>3
      <3> HIDE DEF p
      <3>6. IsGroup(rows', p, p, path, d)
        BY <3>3, <3>4, <3>5, GroupOfOne
      <3> QED  BY <1>10, <3>1, <3>6 DEF path, p
    <2> QED  BY <2>3, <2>4
  <1>15. GroupsOpen'
    <2>1. def'.ndim = D /\ (\E T : stack' \in Seq(T))
      BY <1>1, <1>9
    <2> HIDE DEF D
    <2> QED  BY <1>8, <1>9, <1>14, <2>1 DEF GroupsOpen
  <1> QED  BY <1>1, <1>10, <1>13, <1>15 DEF GroupsFit

(* Row p of R2 is row p - 1 of R, moved down by the total above it. *)
LEMMA ShiftedIsLawful ==
    ASSUME NEW R, Lawful(R), NEW R2, Len(R2) = Len(R) + 1,
           RowFields \subseteq DOMAIN R2[1], R2[1].path = <<>>, ~IsSubtotal(R2, 1),
           \A q \in 1..Len(R) : R2[q + 1] = Shift(R[q])
    PROVE  Lawful(R2)
  <1>1. Len(R) \in Nat
    BY DEF Lawful
  <1>2. ASSUME NEW q \in 1..Len(R)
        PROVE  /\ DOMAIN R2[q + 1] = DOMAIN R[q]
               /\ R2[q + 1].type = R[q].type
               /\ R2[q + 1].path = R[q].path
               /\ IsSubtotal(R, q) => /\ R2[q + 1].from = R[q].from + 1
                                      /\ R2[q + 1].to = R[q].to + 1
    <2>1. R2[q + 1] = Shift(R[q]) /\ RowFields \subseteq DOMAIN R[q]
      BY DEF Lawful
    <2>2. CASE R[q].type = "detail"
      BY <2>1, <2>2 DEF Shift, IsSubtotal
    <2>3. CASE R[q].type # "detail"
      <3>1. R2[q + 1] = [R[q] EXCEPT !.from = @ + 1, !.to = @ + 1]
        BY <2>1, <2>3 DEF Shift
      <3> QED  BY <2>1, <3>1, Zenon DEF RowFields
    <2> QED  BY <2>2, <2>3
  <1>3. ASSUME NEW q \in 1..Len(R), IsSubtotal(R2, q + 1)
        PROVE  Covers1(R2, q + 1)
    <2> DEFINE path == R[q].path
               d == Len(path)
               from == R[q].from
    <2>1. Covers1(R, q)
      BY <1>2, <1>3 DEF IsSubtotal, Lawful
    <2>2. /\ d \in Nat \ {0}
          /\ R[q].to = q - 1
          /\ IsGroup(R, from, q - 1, path, d)
      BY <2>1 DEF Covers1
    <2>3. /\ R2[q + 1].path = path
          /\ R2[q + 1].from = from + 1
          /\ R2[q + 1].to = q
      BY <1>1, <1>2, <1>3, <2>2 DEF IsSubtotal
    <2> HIDE DEF path, d, from
    <2>4. from \in 1..(q - 1) /\ q - 1 \in Nat /\ q + 1 - 1 = q
      BY <1>1, <2>2 DEF IsGroup
    <2>5. \A p \in 1..Len(R) : /\ Under(R2, p + 1, path, d) <=> Under(R, p, path, d)
                               /\ IsSubtotal(R2, p + 1) <=> IsSubtotal(R, p)
                               /\ R2[p + 1].path = R[p].path
      BY <1>2 DEF Under, IsSubtotal
    <2>6. from + 1 \in 1..q
      BY <2>4
    <2>7. R2[from + 1].type = "detail"
      BY <1>1, <1>2, <2>2, <2>4 DEF IsGroup
    <2>8. ASSUME NEW p \in (from + 1)..q
          PROVE  Under(R2, p, path, d) /\ (IsSubtotal(R2, p) => Len(R2[p].path) > d)
      <3>1. p - 1 \in from..(q - 1) /\ p - 1 \in 1..Len(R) /\ (p - 1) + 1 = p
        BY <1>1, <2>4
      <3>2. Under(R, p - 1, path, d) /\ (IsSubtotal(R, p - 1) => Len(R[p - 1].path) > d)
        BY <2>2, <3>1 DEF IsGroup
      <3> QED  BY <2>5, <3>1, <3>2
    <2>9. Outside(R2, from, path, d)
      <3>1. CASE from = 1
        <4>1. Len(R2[1].path) = 0
          OBVIOUS
        <4> QED  BY <2>2, <3>1, <4>1 DEF Outside, Under
      <3>2. CASE from > 1
        <4>1. from - 1 \in 1..Len(R) /\ (from - 1) + 1 = from
          BY <1>1, <2>4, <3>2
        <4>2. Outside(R, from - 1, path, d)
          BY <2>2, <3>2 DEF IsGroup
        <4> QED  BY <2>5, <4>1, <4>2 DEF Outside
      <3> QED  BY <2>4, <3>1, <3>2
    <2>10. (from + 1) - 1 = from
      BY <2>4
    <2>11. IsGroup(R2, from + 1, q, path, d)
      BY <2>6, <2>7, <2>8, <2>9, <2>10 DEF IsGroup
    <2> QED  BY <2>2, <2>3, <2>4, <2>11 DEF Covers1, d
  <1>4. ASSUME NEW p \in 1..Len(R2)
        PROVE  /\ RowFields \subseteq DOMAIN R2[p]
               /\ Len(R2[p].path) \in Nat
               /\ IsSubtotal(R2, p) => Covers1(R2, p)
    <2>1. CASE p = 1
      BY <2>1
    <2>2. CASE p # 1
      <3>1. p - 1 \in 1..Len(R) /\ (p - 1) + 1 = p
        BY <1>1, <2>2
      <3>2. RowFields \subseteq DOMAIN R[p - 1] /\ Len(R[p - 1].path) \in Nat
        BY <3>1 DEF Lawful
      <3> QED  BY <1>2, <1>3, <3>1, <3>2
    <2> QED  BY <2>1, <2>2
  <1>5. Len(R2) \in Nat
    BY <1>1
  <1> QED  BY <1>4, <1>5 DEF Lawful

(* The rows of a finished report: none, or those of the closed groups with   *)
(* the total below or above them.                                            *)
FinishedBelow(R, total) ==
    /\ Len(rows') = Len(R) + 1
    /\ \A q \in 1..Len(R) : rows'[q] = R[q]
    /\ rows'[Len(R) + 1] = total

FinishedAbove(R, total) ==
    /\ Len(rows') = Len(R) + 1
    /\ rows'[1] = Shift(total)
    /\ \A q \in 1..Len(R) : rows'[q + 1] = Shift(R[q])

LEMMA FinishedRows ==
    ASSUME GroupsFit, Finish
    PROVE  LET C == Closed(0)
               total == TallyRow("total", <<>>, root, 1, Len(C))
           IN /\ Lawful(C) /\ Len(C) \in Nat
              /\ \E U : rows' \in Seq(U)
              /\ \/ C = <<>> /\ rows' = C
                 \/ FinishedBelow(C, total)
                 \/ FinishedAbove(C, total)
  <1> DEFINE C == Closed(0)
             total == TallyRow("total", <<>>, root, 1, Len(C))
  <1>1. /\ GroupsOpen
        /\ rows' = IF C = <<>> THEN C
                   ELSE IF def.top
                        THEN [p \in DOMAIN (<<total>> \o C) |-> Shift((<<total>> \o C)[p])]
                        ELSE Append(C, total)
    BY DEF Finish, GroupsFit
  <1>2. 0 \in 0..Len(stack)
    BY <1>1 DEF GroupsOpen
  <1>3. (\E T : C \in Seq(T)) /\ Lawful(C) /\ Len(C) \in Nat
    BY <1>1, <1>2, ClosedIsLawful DEF Lawful
  <1> HIDE DEF C, total
  <1>4. PICK T : C \in Seq(T) /\ total \in T
    <2>1. PICK T : C \in Seq(T)
      BY <1>3
    <2>2. C \in Seq(T \cup {total}) /\ total \in T \cup {total}
      BY <2>1
    <2> QED  BY <2>2
  <1>5. CASE C = <<>>
    BY <1>1, <1>3, <1>5 DEF C
  <1>6. CASE C # <<>> /\ ~def.top
    <2>1. rows' = Append(C, total)
      BY <1>1, <1>6
    <2>2. rows' \in Seq(T) /\ FinishedBelow(C, total)
      BY <1>4, <2>1, AppendProperties DEF FinishedBelow
    <2> QED  BY <1>3, <2>2 DEF C, total
  <1>7. CASE C # <<>> /\ def.top
    <2> DEFINE all == <<total>> \o C
               L == Len(C)
    <2>1. <<total>> \in Seq(T) /\ Len(<<total>>) = 1 /\ <<total>>[1] = total
      BY <1>4
    <2>2. /\ all \in Seq(T) /\ Len(all) = 1 + L
          /\ \A q \in 1..(1 + L) : all[q] = IF q <= 1 THEN <<total>>[q] ELSE C[q - 1]
      BY <1>4, <2>1, ConcatProperties
    <2>3. rows' = [p \in DOMAIN all |-> Shift(all[p])] /\ L \in Nat
      BY <1>1, <1>3, <1>7
    <2> HIDE DEF all, L
    <2>4. DOMAIN all = 1..(L + 1)
      BY <2>2, <2>3
    <2>5. rows' \in Seq({rows'[p] : p \in 1..(L + 1)}) /\ Len(rows') = L + 1
      <3>1. rows' \in [1..(L + 1) -> {rows'[p] : p \in 1..(L + 1)}]
        BY <2>3, <2>4
      <3> QED  BY <2>3, <3>1
    <2>6. rows'[1] = Shift(total)
      BY <2>1, <2>2, <2>3, <2>4
    <2>7. ASSUME NEW q \in 1..L
          PROVE  rows'[q + 1] = Shift(C[q])
      <3>1. /\ q + 1 \in 1..(1 + L) /\ q + 1 \in 1..(L + 1)
            /\ ~(q + 1 <= 1) /\ (q + 1) - 1 = q
        BY <2>3
      <3>2. all[q + 1] = C[q]
        BY <2>2, <3>1
      <3>3. rows'[q + 1] = Shift(all[q + 1])
        BY <2>3, <2>4, <3>1, Zenon
      <3> QED  BY <3>2, <3>3, Zenon
    <2>8. FinishedAbove(C, total)
      BY <2>5, <2>6, <2>7 DEF FinishedAbove, L
    <2> QED  BY <1>3, <2>5, <2>8 DEF C, total
  <1> QED  BY <1>5, <1>6, <1>7

LEMMA FinishKeepsGroups ==
    ASSUME GroupsFit, Finish
    PROVE  GroupsFit'
  <1> DEFINE C == Closed(0)
             total == TallyRow("total", <<>>, root, 1, Len(C))
  <1>1. /\ phase' = "position" /\ def' = def /\ def.ndim \in Nat
        /\ Lawful(C)
        /\ \E U : rows' \in Seq(U)
        /\ \/ C = <<>> /\ rows' = C
           \/ FinishedBelow(C, total)
           \/ FinishedAbove(C, total)
    BY FinishedRows DEF Finish, GroupsFit
  <1>2. /\ total.type = "total" /\ total.path = <<>> /\ RowFields \subseteq DOMAIN total
        /\ Shift(total).type = "total" /\ Shift(total).path = <<>>
        /\ RowFields \subseteq DOMAIN Shift(total)
    BY DEF TallyRow, RowFields, Shift
  <1> HIDE DEF C, total
  <1>3. CASE FinishedBelow(C, total)
    <2>1. Len(<<>>) \in Nat
      OBVIOUS
    <2> QED  BY <1>1, <1>2, <1>3, <2>1, AppendIsLawful DEF FinishedBelow, IsSubtotal, GroupsFit
  <1>4. CASE FinishedAbove(C, total)
    BY <1>1, <1>2, <1>4, ShiftedIsLawful DEF FinishedAbove, IsSubtotal, GroupsFit
  <1> QED  BY <1>1, <1>3, <1>4 DEF GroupsFit

(* What moving a row down leaves as it was. *)
LEMMA ShiftedRow ==
    ASSUME NEW r, RowFields \subseteq DOMAIN r
    PROVE  /\ Shift(r).type = r.type
           /\ Shift(r).path = r.path
           /\ r.type # "detail" => Shift(r).from = r.from + 1 /\ Shift(r).to = r.to + 1
           /\ r.type = "detail" => Shift(r) = r
           /\ Shift(r).count = r.count
           /\ Shift(r).samples = r.samples
           /\ Shift(r).value = r.value
  <1>1. CASE r.type = "detail"
    BY <1>1 DEF Shift
  <1>2. CASE r.type # "detail"
    <2>1. Shift(r) = [r EXCEPT !.from = @ + 1, !.to = @ + 1]
      BY <1>2 DEF Shift
    <2> QED  BY <1>2, <2>1, Zenon DEF RowFields
  <1> QED  BY <1>1, <1>2

(* Lawful rows are what SubtotalCoversGroup asks for. *)
LEMMA LawfulSubtotalsCover ==
    GroupsFit => SubtotalCoversGroup
  <1> SUFFICES ASSUME GroupsFit, NEW p \in SubtotalRows
               PROVE  LET r == rows[p]
                          d == Level(p)
                      IN /\ r.to = p - 1
                         /\ r.from \in DetailRows
                         /\ \A q \in Covered(p) :
                              SamePath(q, p, d) /\ (q \in SubtotalRows => Level(q) > d)
                         /\ r.from - 1 \in DOMAIN rows =>
                              \/ ~SamePath(r.from - 1, p, d)
                              \/ r.from - 1 \in SubtotalRows /\ Level(r.from - 1) <= d
    BY DEF SubtotalCoversGroup
  <1> DEFINE d == Level(p)
             from == rows[p].from
  <1>1. Len(rows) \in Nat /\ DOMAIN rows = 1..Len(rows) /\ p \in 1..Len(rows)
    BY DEF GroupsFit, SubtotalRows
  <1>2. Covers1(rows, p)
    BY <1>1 DEF GroupsFit, Lawful, SubtotalRows, IsSubtotal
  <1>3. /\ d \in Nat \ {0} /\ rows[p].to = p - 1
        /\ IsGroup(rows, from, p - 1, rows[p].path, d)
    BY <1>2 DEF Covers1, Level
  <1>4. \A q : SamePath(q, p, d) <=> Under(rows, q, rows[p].path, d)
    BY <1>3 DEF SamePath, Under, Level
  <1>5. from \in 1..(p - 1) /\ rows[from].type = "detail"
    BY <1>3 DEF IsGroup
  <1>6. from \in DetailRows
    BY <1>1, <1>5 DEF DetailRows
  <1>7. ASSUME NEW q \in Covered(p)
        PROVE  SamePath(q, p, d) /\ (q \in SubtotalRows => Level(q) > d)
    <2>1. q \in from..(p - 1)
      BY <1>3 DEF Covered
    <2> QED  BY <1>3, <1>4, <2>1 DEF IsGroup, SubtotalRows, IsSubtotal, Level
  <1>8. ASSUME from - 1 \in DOMAIN rows
        PROVE  \/ ~SamePath(from - 1, p, d)
               \/ from - 1 \in SubtotalRows /\ Level(from - 1) <= d
    <2>1. Outside(rows, from - 1, rows[p].path, d)
      BY <1>1, <1>3, <1>5, <1>8 DEF IsGroup
    <2> QED  BY <1>4, <1>8, <2>1 DEF Outside, SubtotalRows, IsSubtotal, Level
  <1> QED  BY <1>3, <1>6, <1>7, <1>8
-----------------------------------------------------------------------------
(* The totals.                                                               *)

Details(R) == {p \in 1..Len(R) : R[p].type = "detail"}

(* Row p of R is in the range of a subtotal of depth d. *)
Totalled(R, p, d) ==
    \E q \in 1..Len(R) : /\ IsSubtotal(R, q)
                         /\ Len(R[q].path) = d
                         /\ p \in R[q].from..R[q].to

(* While rows are fed, each is in a subtotal or in an open group of every    *)
(* depth; then the total is written, and each is in a subtotal.              *)
TotalsFit ==
    /\ \E S : input \in Seq(S)
    /\ IsFiniteSet(Details(rows))
    /\ Cardinality(Details(rows)) = Len(input)
    /\ \A p \in Details(rows), d \in 1..def.ndim :
         \/ Totalled(rows, p, d)
         \/ phase = "feed" /\ d \in 1..Len(stack) /\ stack[d].start <= p
    /\ \A p \in 1..Len(rows) :
         \/ rows[p].type \in {"detail", "subtotal"}
         \/ phase # "feed" /\ rows[p].from..rows[p].to = 1..Len(rows) \ {p}

(* Rows that are appended below leave a row in its subtotals. *)
LEMMA TotalledStays ==
    ASSUME NEW R, NEW R2, Len(R) \in Nat, Len(R2) \in Nat, Len(R) <= Len(R2),
           \A q \in 1..Len(R) : R2[q] = R[q],
           NEW p, NEW d, Totalled(R, p, d)
    PROVE  Totalled(R2, p, d)
  <1>1. PICK q \in 1..Len(R) : /\ IsSubtotal(R, q)
                               /\ Len(R[q].path) = d
                               /\ p \in R[q].from..R[q].to
    BY DEF Totalled
  <1>2. q \in 1..Len(R2) /\ R2[q] = R[q]
    OBVIOUS
  <1> QED  BY <1>1, <1>2 DEF Totalled, IsSubtotal

(* Closing a group puts its rows in its subtotal. *)
LEMMA ClosedTotals ==
    ASSUME GroupsFit, GroupsOpen, TotalsFit, phase = "feed", NEW k \in 0..Len(stack)
    PROVE  LET C == Closed(k) IN
           /\ Details(C) = Details(rows)
           /\ \A p \in 1..Len(C) : C[p].type \in {"detail", "subtotal"}
           /\ \A p \in Details(C), d \in 1..def.ndim :
                \/ Totalled(C, p, d)
                \/ d \in 1..k /\ stack[d].start <= p
  <1> DEFINE L == Len(rows)
             n == Len(stack) - k
             C == Closed(k)
  <1>1. L \in Nat /\ Len(stack) \in Nat /\ n \in Nat /\ k \in Nat /\ k <= Len(stack)
        /\ n + k = Len(stack)
    BY DEF GroupsFit, GroupsOpen
  <1>2. /\ Len(C) = L + n
        /\ \A q \in 1..L : C[q] = rows[q]
        /\ \A j \in 1..n :
             /\ RowFields \subseteq DOMAIN C[L + j]
             /\ C[L + j].type = "subtotal"
             /\ C[L + j].path = OpenPath(Len(stack) + 1 - j)
             /\ C[L + j].from = stack[Len(stack) + 1 - j].start
             /\ C[L + j].to = L + j - 1
    BY ClosedRows DEF ClosedTo
  <1> HIDE DEF C, L, n
  <1>3. ASSUME NEW p \in 1..(L + n), ~(p <= L)
        PROVE  C[p].type = "subtotal"
    <2>1. p - L \in 1..n /\ L + (p - L) = p
      BY <1>1, <1>3
    <2>2. C[L + (p - L)].type = "subtotal"
      BY <1>2, <2>1
    <2> QED  BY <2>1, <2>2
  <1>4. Details(C) = Details(rows)
    <2>1. ASSUME NEW p
          PROVE  p \in Details(C) <=> p \in Details(rows)
      <3>1. CASE p \in 1..L
        <4>1. p \in 1..(L + n) /\ C[p] = rows[p]
          BY <1>1, <1>2, <3>1
        <4> QED  BY <1>2, <3>1, <4>1 DEF Details, L
      <3>2. CASE p \notin 1..L
        <4>1. ASSUME p \in Details(C)
              PROVE  FALSE
          <5>1. p \in 1..(L + n) /\ C[p].type = "detail"
            BY <1>2, <4>1 DEF Details
          <5>2. ~(p <= L)
            BY <1>1, <3>2, <5>1
          <5>3. C[p].type = "subtotal"
            BY <1>3, <5>1, <5>2
          <5> QED  BY <5>1, <5>3
        <4> QED  BY <3>2, <4>1 DEF Details, L
      <3> QED  BY <3>1, <3>2
    <2> QED  BY <2>1
  <1>5. ASSUME NEW p \in 1..Len(C)
        PROVE  C[p].type \in {"detail", "subtotal"}
    <2>1. p \in 1..(L + n)
      BY <1>2
    <2>2. CASE p <= L
      <3>1. p \in 1..L /\ C[p] = rows[p]
        BY <1>1, <1>2, <2>1, <2>2
      <3> QED  BY <3>1 DEF TotalsFit, L
    <2> QED  BY <1>3, <2>1, <2>2
  <1>6. ASSUME NEW p \in Details(C), NEW d \in 1..def.ndim
        PROVE  Totalled(C, p, d) \/ (d \in 1..k /\ stack[d].start <= p)
    <2>1. p \in 1..L /\ p \in Details(rows)
      BY <1>4 DEF Details, L
    <2>2. Totalled(rows, p, d) \/ (d \in 1..Len(stack) /\ stack[d].start <= p)
      BY <2>1 DEF TotalsFit
    <2>3. CASE Totalled(rows, p, d)
      <3>1. Len(C) \in Nat /\ L <= Len(C)
        BY <1>1, <1>2
      <3> QED  BY <1>1, <1>2, <2>3, <3>1, TotalledStays DEF L
    <2>4. CASE d \in 1..Len(stack) /\ stack[d].start <= p /\ ~(d <= k)
      <3> DEFINE j == Len(stack) + 1 - d
      <3>1. j \in 1..n /\ Len(stack) + 1 - j = d /\ L + j \in 1..(L + n) /\ p <= L + j - 1
        BY <1>1, <2>1, <2>4
      <3>2. stack[d].start \in Int
        BY <2>4 DEF GroupsOpen, IsGroup
      <3>3. Len(OpenPath(d)) = d
        BY <1>1, <2>4 DEF OpenPath
      <3> HIDE DEF j
      <3>4. /\ C[L + j].type = "subtotal"
            /\ C[L + j].path = OpenPath(d)
            /\ C[L + j].from = stack[d].start
            /\ C[L + j].to = L + j - 1
        BY <1>2, <3>1
      <3>5. p \in C[L + j].from..C[L + j].to
        BY <1>1, <2>1, <2>4, <3>1, <3>2, <3>4
      <3> QED  BY <1>2, <3>1, <3>3, <3>4, <3>5 DEF Totalled, IsSubtotal
    <2> QED  BY <2>2, <2>3, <2>4
  <1> QED  BY <1>4, <1>5, <1>6 DEF C

(* A detail row more. *)
LEMMA OneMoreDetail ==
    ASSUME NEW R, NEW R2, Len(R) \in Nat, Len(R2) = Len(R) + 1,
           \A q \in 1..Len(R) : R2[q] = R[q], IsFiniteSet(Details(R))
    PROVE  /\ IsFiniteSet(Details(R2))
           /\ Cardinality(Details(R2)) =
                IF R2[Len(R) + 1].type = "detail" THEN Cardinality(Details(R)) + 1
                ELSE Cardinality(Details(R))
  <1> DEFINE L == Len(R)
  <1>1. L \in Nat /\ 1..Len(R2) = 1..L \cup {L + 1} /\ L + 1 \notin 1..L
    OBVIOUS
  <1>2. Details(R2) = IF R2[L + 1].type = "detail" THEN Details(R) \cup {L + 1}
                      ELSE Details(R)
    <2> HIDE DEF L
    <2> QED  BY <1>1 DEF Details, L
  <1>3. L + 1 \notin Details(R)
    BY <1>1 DEF Details
  <1> HIDE DEF L
  <1>4. /\ IsFiniteSet(Details(R) \cup {L + 1})
        /\ Cardinality(Details(R) \cup {L + 1}) = Cardinality(Details(R)) + 1
    BY <1>3, FS_AddElement
  <1> QED  BY <1>2, <1>4 DEF L

LEMMA FeedKeepsTotals ==
    ASSUME GroupsFit, TotalsFit, NEW r, r.keys \in [1..def.ndim -> Keys], Feed(r)
    PROVE  TotalsFit'
  <1>1. /\ GroupsOpen /\ phase = "feed" /\ phase' = "feed" /\ def' = def
        /\ input' = Append(input, r) /\ def.ndim \in Nat
    BY DEF Feed, GroupsFit
  <1>2. PICK k \in 0..Len(stack) : FedTo(r, k)
    BY FedRows
  <1> DEFINE C == Closed(k)
             L == Len(C)
  <1>3. /\ Details(C) = Details(rows)
        /\ \A p \in 1..L : C[p].type \in {"detail", "subtotal"}
        /\ \A p \in Details(C), d \in 1..def.ndim :
             Totalled(C, p, d) \/ (d \in 1..k /\ stack[d].start <= p)
    BY <1>1, ClosedTotals
  <1>4. L \in Nat /\ k \in Nat
    BY <1>1, ClosedIsLawful DEF Lawful, GroupsOpen
  <1>5. /\ Len(rows') = L + 1
        /\ \A q \in 1..L : rows'[q] = C[q]
        /\ rows'[L + 1].type = "detail"
        /\ k <= def.ndim
        /\ Len(stack') = def.ndim
        /\ \A d \in 1..def.ndim :
             stack'[d].start = IF d <= k THEN stack[d].start ELSE L + 1
    BY <1>2 DEF FedTo, DetailRow
  <1> HIDE DEF C, L
  <1>6. /\ \E S : input' \in Seq(S)
        /\ Len(input') = Len(input) + 1
    <2>1. PICK S : input \in Seq(S)
      BY DEF TotalsFit
    <2>2. input \in Seq(S \cup {r}) /\ r \in S \cup {r}
      BY <2>1
    <2> QED  BY <1>1, <2>2, AppendProperties
  <1>7. IsFiniteSet(Details(rows')) /\ Cardinality(Details(rows')) = Len(input')
    <2>1. IsFiniteSet(Details(C)) /\ Cardinality(Details(C)) = Len(input)
      BY <1>3 DEF TotalsFit
    <2>2. /\ IsFiniteSet(Details(rows'))
          /\ Cardinality(Details(rows')) = Cardinality(Details(C)) + 1
      BY <1>4, <1>5, <2>1, OneMoreDetail DEF L
    <2> QED  BY <1>6, <2>1, <2>2
  <1>8. ASSUME NEW p \in Details(rows'), NEW d \in 1..def.ndim
        PROVE  Totalled(rows', p, d) \/ (d \in 1..Len(stack') /\ stack'[d].start <= p)
    <2>1. CASE p = L + 1
      <3>1. d \in 1..k => stack[d].start \in Int /\ stack[d].start <= L
        <4>1. \A e \in 1..k : IsGroup(C, stack[e].start, L, OpenPath(e), e)
          BY <1>1, ClosedIsLawful DEF C, L
        <4> QED  BY <1>4, <4>1 DEF IsGroup
      <3>2. stack'[d].start <= L + 1
        BY <1>1, <1>4, <1>5, <3>1
      <3> QED  BY <1>5, <2>1, <3>2
    <2>2. CASE p # L + 1
      <3>1. p \in 1..L /\ p \in Details(C)
        BY <1>4, <1>5, <2>2 DEF Details, L
      <3>2. CASE Totalled(C, p, d)
        <4>1. Len(rows') \in Nat /\ L <= Len(rows')
          BY <1>4, <1>5
        <4> QED  BY <1>4, <1>5, <3>2, <4>1, TotalledStays DEF L
      <3>3. CASE d \in 1..k /\ stack[d].start <= p
        BY <1>1, <1>4, <1>5, <3>3
      <3> QED  BY <1>3, <3>1, <3>2, <3>3
    <2> QED  BY <2>1, <2>2
  <1>9. ASSUME NEW p \in 1..Len(rows')
        PROVE  rows'[p].type \in {"detail", "subtotal"}
    <2>1. p \in 1..L \/ p = L + 1
      BY <1>4, <1>5
    <2> QED  BY <1>3, <1>5, <2>1
  <1> QED  BY <1>1, <1>6, <1>7, <1>8, <1>9 DEF TotalsFit

(* What is left to do when every group is closed: the total itself. *)
LEMMA FinishKeepsTotals ==
    ASSUME GroupsFit, TotalsFit, Finish
    PROVE  TotalsFit'
  <1> DEFINE C == Closed(0)
             L == Len(C)
             total == TallyRow("total", <<>>, root, 1, L)
  <1>1. /\ GroupsOpen /\ phase = "feed" /\ phase' = "position" /\ def' = def
        /\ input' = input
    BY DEF Finish, GroupsFit
  <1>2. /\ Lawful(C) /\ L \in Nat
        /\ \/ C = <<>> /\ rows' = C
           \/ FinishedBelow(C, total)
           \/ FinishedAbove(C, total)
    BY FinishedRows
  <1>3. /\ Details(C) = Details(rows)
        /\ \A p \in 1..L : C[p].type \in {"detail", "subtotal"}
        /\ \A p \in Details(C), d \in 1..def.ndim : Totalled(C, p, d)
    <2>1. 0 \in 0..Len(stack)
      BY <1>1 DEF GroupsOpen
    <2> QED  BY <1>1, <2>1, ClosedTotals
  <1>4. IsFiniteSet(Details(C)) /\ Cardinality(Details(C)) = Len(input)
    BY <1>3 DEF TotalsFit
  <1>5. /\ total.type = "total" /\ total.from = 1 /\ total.to = L
        /\ Shift(total).type = "total" /\ Shift(total).from = 2 /\ Shift(total).to = L + 1
    BY DEF TallyRow, Shift
  <1> HIDE DEF C, L, total
  (* It suffices that the rows are those of C, with the total. *)
  <1>6. SUFFICES /\ IsFiniteSet(Details(rows'))
                 /\ Cardinality(Details(rows')) = Cardinality(Details(C))
                 /\ \A p \in Details(rows'), d \in 1..def.ndim : Totalled(rows', p, d)
                 /\ \A p \in 1..Len(rows') :
                      \/ rows'[p].type \in {"detail", "subtotal"}
                      \/ rows'[p].from..rows'[p].to = 1..Len(rows') \ {p}
    BY <1>1, <1>4 DEF TotalsFit
  <1>7. CASE C = <<>> /\ rows' = C
    BY <1>3, <1>4, <1>7 DEF L
  <1>8. CASE FinishedBelow(C, total)
    <2>1. /\ Len(rows') = L + 1
          /\ \A q \in 1..L : rows'[q] = C[q]
          /\ rows'[L + 1] = total
      BY <1>8 DEF FinishedBelow, L
    <2>2. /\ IsFiniteSet(Details(rows'))
          /\ Cardinality(Details(rows')) = Cardinality(Details(C))
      BY <1>2, <1>4, <1>5, <2>1, OneMoreDetail DEF L
    <2>3. ASSUME NEW p \in Details(rows'), NEW d \in 1..def.ndim
          PROVE  Totalled(rows', p, d)
      <3>1. p \in 1..L /\ p \in Details(C)
        BY <1>2, <1>5, <2>1 DEF Details, L
      <3>2. Totalled(C, p, d) /\ Len(rows') \in Nat /\ L <= Len(rows')
        BY <1>2, <1>3, <2>1, <3>1
      <3> QED  BY <1>2, <2>1, <3>2, TotalledStays DEF L
    <2>4. ASSUME NEW p \in 1..Len(rows')
          PROVE  \/ rows'[p].type \in {"detail", "subtotal"}
                 \/ rows'[p].from..rows'[p].to = 1..Len(rows') \ {p}
      <3>1. CASE p \in 1..L
        BY <1>3, <2>1, <3>1
      <3>2. CASE p = L + 1
        <4>1. 1..L = 1..(L + 1) \ {L + 1}
          BY <1>2
        <4> QED  BY <1>5, <2>1, <3>2, <4>1
      <3> QED  BY <1>2, <2>1, <3>1, <3>2
    <2> QED  BY <2>2, <2>3, <2>4
  <1>9. CASE FinishedAbove(C, total)
    <2>1. Len(rows') = L + 1 /\ rows'[1] = Shift(total)
      BY <1>9 DEF FinishedAbove, L
    <2>2. ASSUME NEW q \in 1..L
          PROVE  /\ rows'[q + 1].type = C[q].type
                 /\ IsSubtotal(C, q) => /\ rows'[q + 1].path = C[q].path
                                        /\ rows'[q + 1].from = C[q].from + 1
                                        /\ rows'[q + 1].to = C[q].to + 1
      <3>1. rows'[q + 1] = Shift(C[q])
        BY <1>9 DEF FinishedAbove, L
      <3>2. RowFields \subseteq DOMAIN C[q]
        BY <1>2 DEF Lawful, L
      <3> QED  BY <3>1, <3>2, ShiftedRow DEF IsSubtotal
    <2>3. Details(rows') = {q + 1 : q \in Details(C)}
      <3>1. ASSUME NEW p \in Details(rows')
            PROVE  p \in {q + 1 : q \in Details(C)}
        <4>1. p # 1 /\ p \in 1..(L + 1) /\ rows'[p].type = "detail"
          BY <1>5, <2>1, <3>1 DEF Details
        <4>2. p - 1 \in 1..L /\ (p - 1) + 1 = p
          BY <1>2, <4>1
        <4>3. p - 1 \in Details(C)
          BY <2>2, <4>1, <4>2 DEF Details, L
        <4> QED  BY <4>2, <4>3
      <3>2. ASSUME NEW q \in Details(C)
            PROVE  q + 1 \in Details(rows')
        <4>1. q \in 1..L /\ C[q].type = "detail"
          BY DEF Details, L
        <4>2. q + 1 \in 1..(L + 1)
          BY <1>2, <4>1
        <4> QED  BY <2>1, <2>2, <4>1, <4>2 DEF Details
      <3> QED  BY <3>1, <3>2
    <2>4. /\ IsFiniteSet(Details(rows'))
          /\ Cardinality(Details(rows')) = Cardinality(Details(C))
      <3> DEFINE D == Details(C)
                 E == {q + 1 : q \in D}
                 f == [q \in D |-> q + 1]
      <3>1. D \subseteq Nat
        BY <1>2 DEF Details, L
      <3>2. f \in Bijection(D, E)
        BY <3>1 DEF Bijection, Injection, Surjection, IsInjective
      <3>3. ExistsBijection(D, E)
        BY <3>2 DEF ExistsBijection
      <3> HIDE DEF D, E, f
      <3>4. IsFiniteSet(E) /\ Cardinality(E) = Cardinality(D)
        BY <1>4, <3>3, FS_Bijection DEF D
      <3> QED  BY <2>3, <3>4 DEF D, E
    <2>5. ASSUME NEW p \in Details(rows'), NEW d \in 1..def.ndim
          PROVE  Totalled(rows', p, d)
      <3>1. PICK q \in Details(C) : p = q + 1
        BY <2>3
      <3>2. Totalled(C, q, d)
        BY <1>3
      <3>3. PICK t \in 1..L : /\ IsSubtotal(C, t) /\ Len(C[t].path) = d
                              /\ q \in C[t].from..C[t].to
        BY <3>2 DEF Totalled, L
      <3>4. C[t].from \in Int /\ C[t].to \in Int /\ q \in Int
        <4>1. Covers1(C, t)
          BY <1>2, <3>3 DEF Lawful, L
        <4> QED  BY <1>2, <4>1 DEF Covers1, IsGroup, Details, L
      <3>5. p \in rows'[t + 1].from..rows'[t + 1].to
        BY <2>2, <3>1, <3>3, <3>4
      <3>6. t + 1 \in 1..Len(rows') /\ IsSubtotal(rows', t + 1) /\ Len(rows'[t + 1].path) = d
        BY <1>2, <2>1, <2>2, <3>3 DEF IsSubtotal
      <3> QED  BY <3>5, <3>6 DEF Totalled
    <2>6. ASSUME NEW p \in 1..Len(rows')
          PROVE  \/ rows'[p].type \in {"detail", "subtotal"}
                 \/ rows'[p].from..rows'[p].to = 1..Len(rows') \ {p}
      <3>1. CASE p = 1
        <4>1. 2..(L + 1) = 1..(L + 1) \ {1}
          BY <1>2
        <4> QED  BY <1>5, <2>1, <3>1, <4>1
      <3>2. CASE p # 1
        <4>1. p - 1 \in 1..L /\ (p - 1) + 1 = p
          BY <1>2, <2>1, <3>2
        <4> QED  BY <1>3, <2>2, <4>1
      <3> QED  BY <3>1, <3>2
    <2> QED  BY <2>4, <2>5, <2>6
  <1> QED  BY <1>2, <1>7, <1>8, <1>9

(* A row is in no two subtotals of one depth: the lower one would cover the  *)
(* other, and a subtotal covers subtotals of deeper groups only.             *)
LEMMA OneSubtotalPerDepth ==
    ASSUME GroupsFit, NEW p, NEW d,
           NEW q1 \in 1..Len(rows), NEW q2 \in 1..Len(rows),
           IsSubtotal(rows, q1), Len(rows[q1].path) = d, p \in rows[q1].from..rows[q1].to,
           IsSubtotal(rows, q2), Len(rows[q2].path) = d, p \in rows[q2].from..rows[q2].to
    PROVE  ~(q1 < q2)
  <1> SUFFICES ASSUME q1 < q2
               PROVE  FALSE
    OBVIOUS
  <1>1. Len(rows) \in Nat /\ Covers1(rows, q1) /\ Covers1(rows, q2)
    BY DEF GroupsFit, Lawful
  <1>2. /\ rows[q1].to = q1 - 1 /\ rows[q2].to = q2 - 1 /\ d \in Nat
        /\ IsGroup(rows, rows[q1].from, q1 - 1, rows[q1].path, d)
        /\ IsGroup(rows, rows[q2].from, q2 - 1, rows[q2].path, d)
    BY <1>1 DEF Covers1
  <1>3. rows[q1].from \in Int /\ rows[q2].from \in Int
    BY <1>2 DEF IsGroup
  <1>4. q1 \in rows[q2].from..(q2 - 1)
    BY <1>1, <1>2, <1>3
  <1>5. Len(rows[q1].path) > d
    BY <1>2, <1>4 DEF IsGroup
  <1> QED  BY <1>2, <1>5

LEMMA FittingTotalsCount ==
    GroupsFit /\ TotalsFit => EveryRowIsTotalled
  <1> SUFFICES ASSUME GroupsFit, TotalsFit, phase # "feed"
               PROVE  /\ \A p \in DetailRows, d \in 1..def.ndim :
                           Cardinality({q \in SubtotalRows :
                                          Level(q) = d /\ p \in Covered(q)}) = 1
                      /\ \A p \in Ranged \ SubtotalRows : Covered(p) = DOMAIN rows \ {p}
                      /\ Cardinality(DetailRows) = Len(input)
    BY DEF EveryRowIsTotalled
  <1>1. DOMAIN rows = 1..Len(rows) /\ Len(rows) \in Nat
    BY DEF GroupsFit
  <1>2. DetailRows = Details(rows)
    BY <1>1 DEF DetailRows, Details
  <1>3. ASSUME NEW p \in DetailRows, NEW d \in 1..def.ndim
        PROVE  Cardinality({q \in SubtotalRows : Level(q) = d /\ p \in Covered(q)}) = 1
    <2>1. PICK q \in 1..Len(rows) : /\ IsSubtotal(rows, q) /\ Len(rows[q].path) = d
                                    /\ p \in rows[q].from..rows[q].to
      BY <1>2 DEF TotalsFit, Totalled
    <2>2. ASSUME NEW t \in SubtotalRows, Level(t) = d, p \in Covered(t)
          PROVE  t = q
      <3>1. /\ t \in 1..Len(rows) /\ IsSubtotal(rows, t) /\ Len(rows[t].path) = d
            /\ p \in rows[t].from..rows[t].to
        BY <1>1, <2>2 DEF SubtotalRows, IsSubtotal, Level, Covered
      <3>2. ~(t < q) /\ ~(q < t)
        BY <2>1, <3>1, OneSubtotalPerDepth
      <3> QED  BY <1>1, <3>1, <3>2
    <2>3. q \in SubtotalRows /\ Level(q) = d /\ p \in Covered(q)
      BY <1>1, <2>1 DEF SubtotalRows, IsSubtotal, Level, Covered
    <2>4. {t \in SubtotalRows : Level(t) = d /\ p \in Covered(t)} = {q}
      BY <2>2, <2>3
    <2> QED  BY <2>4, FS_Singleton
  <1>4. ASSUME NEW p \in Ranged \ SubtotalRows
        PROVE  Covered(p) = DOMAIN rows \ {p}
    <2>1. p \in 1..Len(rows) /\ rows[p].type \notin {"detail", "subtotal"}
      BY <1>1 DEF Ranged, SubtotalRows
    <2> QED  BY <1>1, <2>1 DEF TotalsFit, Covered
  <1>5. Cardinality(DetailRows) = Len(input)
    BY <1>2 DEF TotalsFit
  <1> QED  BY <1>3, <1>4, <1>5
-----------------------------------------------------------------------------
(* Counting and adding.                                                      *)

(* A set of natural numbers has a least one: this is what inductions over    *)
(* finite sets go by.                                                        *)
LEMMA LeastNatural ==
    ASSUME NEW T, T \subseteq Nat, T # {}
    PROVE  \E n \in T : \A m \in T : n <= m
  <1> DEFINE R == OpToRel(<, Nat)
  <1>1. IsWellFoundedOn(R, Nat)
    BY NatLessThanWellFounded
  <1> HIDE DEF R
  <1>2. PICK n \in T : \A m \in T : <<m, n>> \notin R
    BY <1>1, WFMin
  <1>3. ASSUME NEW m \in T
        PROVE  n <= m
    <2>1. ~(m < n)
      BY <1>2 DEF R, OpToRel
    <2> QED  BY <2>1
  <1> QED  BY <1>3

(* Of the sets in F, all finite, one is smallest. *)
LEMMA SmallestSet ==
    ASSUME NEW F, F # {}, \A s \in F : IsFiniteSet(s)
    PROVE  \E s \in F : \A t \in F : Cardinality(s) <= Cardinality(t)
  <1> DEFINE T == {Cardinality(s) : s \in F}
  <1>1. T \subseteq Nat /\ T # {}
    BY FS_CardinalityType
  <1>2. PICK n \in T : \A m \in T : n <= m
    BY <1>1, LeastNatural
  <1> QED  BY <1>2

(* Less one element a finite set is smaller. *)
LEMMA OneLess ==
    ASSUME NEW s, IsFiniteSet(s), NEW x \in s
    PROVE  /\ IsFiniteSet(s \ {x})
           /\ Cardinality(s \ {x}) \in Nat
           /\ Cardinality(s) = Cardinality(s \ {x}) + 1
  <1>1. IsFiniteSet(s \ {x}) /\ Cardinality(s \ {x}) = Cardinality(s) - 1
    BY FS_RemoveElement
  <1>2. Cardinality(s \ {x}) \in Nat /\ Cardinality(s) \in Nat
    BY <1>1, FS_CardinalityType
  <1> QED  BY <1>1, <1>2

(* What SumOf computes: g is the fold of the values of R over subsets of D.  *)
AnyOf(s) == CHOOSE x \in s : TRUE

IsSum(g, R, D) ==
    g = [s \in SUBSET D |-> IF s = {} THEN 0
                            ELSE R[AnyOf(s)].value[2] + g[s \ {AnyOf(s)}]]

Sum(R, S) == (CHOOSE g : IsSum(g, R, S))[S]

LEMMA SumOfIsSum ==
    ASSUME NEW S
    PROVE  SumOf(S) = Sum(rows, S)
  BY Zenon DEF SumOf, Sum, IsSum, AnyOf, MapThenSumSet, MapThenFoldSet

LEMMA AnyOfIsElement ==
    ASSUME NEW s, s # {}
    PROVE  AnyOf(s) \in s
  BY DEF AnyOf

(* Two such folds agree where both are defined. *)
LEMMA SumsAgree ==
    ASSUME NEW R, NEW D, NEW E, IsFiniteSet(D), NEW g, NEW h, IsSum(g, R, D), IsSum(h, R, E)
    PROVE  \A s \in SUBSET D : s \in SUBSET E => g[s] = h[s]
  <1> DEFINE F == {s \in SUBSET D : s \in SUBSET E /\ g[s] # h[s]}
  <1> SUFFICES ASSUME F # {}
               PROVE  FALSE
    OBVIOUS
  <1>1. \A s \in F : IsFiniteSet(s)
    BY FS_Subset
  <1>2. PICK s \in F : \A t \in F : Cardinality(s) <= Cardinality(t)
    <2> HIDE DEF F
    <2> QED  BY <1>1, SmallestSet
  <1>3. /\ g[s] = IF s = {} THEN 0 ELSE R[AnyOf(s)].value[2] + g[s \ {AnyOf(s)}]
        /\ h[s] = IF s = {} THEN 0 ELSE R[AnyOf(s)].value[2] + h[s \ {AnyOf(s)}]
    BY DEF IsSum
  <1>4. s # {} /\ AnyOf(s) \in s
    BY <1>3, AnyOfIsElement
  <1> DEFINE t == s \ {AnyOf(s)}
  <1>5. t \in SUBSET D /\ t \in SUBSET E
    OBVIOUS
  <1>6. t \notin F
    <2>1. Cardinality(t) \in Nat /\ Cardinality(s) = Cardinality(t) + 1
      BY <1>1, <1>4, OneLess
    <2> HIDE DEF F, t
    <2> QED  BY <1>2, <2>1
  <1>7. g[t] = h[t]
    BY <1>5, <1>6
  <1> QED  BY <1>3, <1>4, <1>7

(* There is such a fold: for subsets of up to n elements, for every n. *)
LEMMA SumIsDefined ==
    ASSUME NEW R, NEW D, IsFiniteSet(D)
    PROVE  \E g : IsSum(g, R, D)
  <1> DEFINE Small(n) == {s \in SUBSET D : Cardinality(s) <= n}
             Next1(g, s) == IF s = {} THEN 0 ELSE R[AnyOf(s)].value[2] + g[s \ {AnyOf(s)}]
             Upto(g, n) == g = [s \in Small(n) |-> Next1(g, s)]
             T == {n \in Nat : ~ \E g : Upto(g, n)}
  <1>1. \A s \in SUBSET D : IsFiniteSet(s) /\ Cardinality(s) \in Nat
    BY FS_Subset, FS_CardinalityType
  <1>2. T = {}
    <2> SUFFICES ASSUME T # {}
                 PROVE  FALSE
      OBVIOUS
    <2>1. PICK n \in T : \A m \in T : n <= m
      <3>1. T \subseteq Nat
        OBVIOUS
      <3> HIDE DEF T
      <3> QED  BY <3>1, LeastNatural
    <2>2. n \in Nat /\ ~ \E g : Upto(g, n)
      OBVIOUS
    <2>3. \E h : \A s \in Small(n) : \A x \in s :
                   s \ {x} \in DOMAIN h /\ h[s \ {x}] = Next1(h, s \ {x})
      <3>1. CASE n = 0
        <4>1. \A s \in Small(n) : s = {}
          BY <1>1, <3>1, FS_EmptySet
        <4> QED  BY <4>1
      <3>2. CASE n # 0
        <4>1. n - 1 \in Nat /\ n - 1 \notin T
          <5>1. n - 1 \in Nat /\ ~(n <= n - 1)
            BY <2>2, <3>2
          <5> HIDE DEF T
          <5> QED  BY <2>1, <5>1
        <4>2. PICK h : Upto(h, n - 1)
          BY <4>1
        <4>3. ASSUME NEW s \in Small(n), NEW x \in s
              PROVE  s \ {x} \in Small(n - 1)
          <5>1. s \ {x} \in SUBSET D /\ Cardinality(s) = Cardinality(s \ {x}) + 1
            BY <1>1, OneLess
          <5>2. Cardinality(s \ {x}) \in Nat
            BY <1>1, <5>1
          <5> QED  BY <2>2, <5>1, <5>2
        <4> HIDE DEF Small, Next1
        <4> QED  BY <4>2, <4>3
      <3> QED  BY <3>1, <3>2
    <2>4. PICK h : \A s \in Small(n) : \A x \in s :
                     s \ {x} \in DOMAIN h /\ h[s \ {x}] = Next1(h, s \ {x})
      BY <2>3
    <2> DEFINE g == [s \in Small(n) |-> Next1(h, s)]
    <2>5. ASSUME NEW s \in Small(n)
          PROVE  g[s] = Next1(g, s)
      <3>1. CASE s = {}
        BY <3>1
      <3>2. CASE s # {}
        <4> DEFINE x == AnyOf(s)
        <4>1. x \in s
          BY <3>2, AnyOfIsElement
        <4>2. s \ {x} \in Small(n)
          <5>1. Cardinality(s) = Cardinality(s \ {x}) + 1 /\ s \ {x} \in SUBSET D
            BY <1>1, <4>1, OneLess
          <5>2. Cardinality(s \ {x}) \in Nat
            BY <1>1, <5>1
          <5> QED  BY <2>2, <5>1, <5>2
        <4>3. g[s \ {x}] = Next1(h, s \ {x}) /\ h[s \ {x}] = Next1(h, s \ {x})
          BY <2>4, <4>1, <4>2
        <4> QED  BY <3>2, <4>3
      <3> QED  BY <3>1, <3>2
    <2>6. Upto(g, n)
      <3> HIDE DEF Small, Next1
      <3>1. g = [s \in Small(n) |-> g[s]]
        OBVIOUS
      <3> HIDE DEF g
      <3> QED  BY <2>5, <3>1
    <2> QED  BY <2>2, <2>6
  <1>3. Cardinality(D) \in Nat /\ Small(Cardinality(D)) = SUBSET D
    <2>1. \A s \in SUBSET D : Cardinality(s) <= Cardinality(D)
      BY FS_Subset
    <2> QED  BY <1>1, <2>1
  <1>4. PICK g : Upto(g, Cardinality(D))
    BY <1>2, <1>3
  <1>5. g = [s \in SUBSET D |-> Next1(g, s)]
    <2> HIDE DEF Small, Next1
    <2> QED  BY <1>3, <1>4
  <1> QED  BY <1>5 DEF IsSum

(* A sum takes in one element after another. *)
LEMMA SumUnfolds ==
    ASSUME NEW R, NEW S, IsFiniteSet(S)
    PROVE  /\ S = {} => Sum(R, S) = 0
           /\ S # {} => /\ AnyOf(S) \in S
                        /\ Sum(R, S) = R[AnyOf(S)].value[2] + Sum(R, S \ {AnyOf(S)})
  <1> DEFINE U == S \ {AnyOf(S)}
  <1>1. IsFiniteSet(U)
    BY FS_Subset
  <1>2. PICK g : IsSum(g, R, S) /\ Sum(R, S) = g[S]
    <2>1. \E f : IsSum(f, R, S)
      BY SumIsDefined
    <2> QED  BY <2>1, Zenon DEF Sum
  <1>3. PICK h : IsSum(h, R, U) /\ Sum(R, U) = h[U]
    <2>1. \E f : IsSum(f, R, U)
      BY <1>1, SumIsDefined
    <2> QED  BY <2>1, Zenon DEF Sum
  <1>4. U \in SUBSET S /\ U \in SUBSET U
    OBVIOUS
  <1> HIDE DEF U
  <1>5. g[U] = h[U]
    BY <1>2, <1>3, <1>4, SumsAgree
  <1>6. g[S] = IF S = {} THEN 0 ELSE R[AnyOf(S)].value[2] + g[U]
    BY <1>2 DEF IsSum, U
  <1> QED  BY <1>2, <1>3, <1>5, <1>6, AnyOfIsElement DEF U

(* The rows S of R have numbers, if only ones that do not count. *)
HaveNumbers(R, S) == \A x \in S : R[x].value[2] \in Int

(* In any order: integers are added. *)
LEMMA SumRemoves ==
    ASSUME NEW R, NEW D, IsFiniteSet(D), HaveNumbers(R, D)
    PROVE  \A S \in SUBSET D :
             /\ Sum(R, S) \in Int
             /\ \A x \in S : Sum(R, S) = R[x].value[2] + Sum(R, S \ {x})
  <1> DEFINE Good(S) == /\ Sum(R, S) \in Int
                        /\ \A x \in S : Sum(R, S) = R[x].value[2] + Sum(R, S \ {x})
             F == {S \in SUBSET D : ~Good(S)}
  <1> SUFFICES ASSUME F # {}
               PROVE  FALSE
    OBVIOUS
  <1>1. \A s \in SUBSET D : IsFiniteSet(s)
    BY FS_Subset
  <1>2. PICK S \in F : \A t \in F : Cardinality(S) <= Cardinality(t)
    <2>1. \A s \in F : IsFiniteSet(s)
      BY <1>1
    <2> HIDE DEF F
    <2> QED  BY <2>1, SmallestSet
  <1>3. S \in SUBSET D /\ ~Good(S) /\ IsFiniteSet(S)
    BY <1>1
  <1>4. ASSUME NEW x \in S
        PROVE  Good(S \ {x})
    <2>1. Cardinality(S \ {x}) \in Nat /\ Cardinality(S) = Cardinality(S \ {x}) + 1
      BY <1>3, OneLess
    <2>2. S \ {x} \notin F
      <3> HIDE DEF F
      <3> QED  BY <1>2, <2>1
    <2>3. S \ {x} \in SUBSET D
      BY <1>3
    <2> HIDE DEF Good
    <2> QED  BY <2>2, <2>3
  <1>5. CASE S = {}
    <2>1. Sum(R, S) = 0
      BY <1>3, <1>5, SumUnfolds
    <2> QED  BY <1>3, <1>5, <2>1
  <1>6. CASE S # {}
    <2> DEFINE c == AnyOf(S)
    <2>1. c \in S /\ Sum(R, S) = R[c].value[2] + Sum(R, S \ {c})
      BY <1>3, <1>6, SumUnfolds
    <2> HIDE DEF c
    <2>2. Sum(R, S) \in Int
      BY <1>3, <1>4, <2>1 DEF HaveNumbers
    <2>3. ASSUME NEW x \in S, x # c
          PROVE  Sum(R, S) = R[x].value[2] + Sum(R, S \ {x})
      <3>1. Sum(R, S \ {c}) = R[x].value[2] + Sum(R, (S \ {c}) \ {x})
        <4>1. x \in S \ {c}
          BY <2>3
        <4> QED  BY <1>4, <2>1, <4>1
      <3>2. Sum(R, S \ {x}) = R[c].value[2] + Sum(R, (S \ {x}) \ {c})
        <4>1. c \in S \ {x}
          BY <2>1, <2>3
        <4> QED  BY <1>4, <2>3, <4>1
      <3>3. (S \ {c}) \ {x} = (S \ {x}) \ {c}
        OBVIOUS
      <3> DEFINE rest == Sum(R, (S \ {x}) \ {c})
      <3>4. rest \in Int
        <4>1. Good(S \ {x}) /\ c \in S \ {x}
          BY <1>4, <2>1, <2>3
        <4>2. (S \ {x}) \ {c} \in SUBSET D
          BY <1>3
        <4>3. (S \ {x}) \ {c} \notin F
          <5>1. IsFiniteSet(S \ {x})
            BY <1>3, OneLess
          <5>2. /\ Cardinality(S \ {x}) \in Nat /\ Cardinality(S) = Cardinality(S \ {x}) + 1
                /\ Cardinality((S \ {x}) \ {c}) \in Nat
                /\ Cardinality(S \ {x}) = Cardinality((S \ {x}) \ {c}) + 1
            BY <1>3, <2>1, <2>3, <5>1, OneLess
          <5> HIDE DEF F
          <5> QED  BY <1>2, <5>2
        <4>4. Good((S \ {x}) \ {c})
          <5> HIDE DEF Good
          <5> QED  BY <4>2, <4>3
        <4> QED  BY <4>4
      <3> HIDE DEF rest
      <3>5. R[x].value[2] \in Int /\ R[c].value[2] \in Int
        BY <1>3, <2>1 DEF HaveNumbers
      <3>6. Sum(R, S) = R[c].value[2] + (R[x].value[2] + rest)
        BY <2>1, <3>1, <3>3 DEF rest
      <3>7. Sum(R, S \ {x}) = R[c].value[2] + rest
        BY <3>2 DEF rest
      <3> QED  BY <3>4, <3>5, <3>6, <3>7
    <2> QED  BY <1>3, <2>1, <2>2, <2>3
  <1> QED  BY <1>5, <1>6

LEMMA SumWithout ==
    ASSUME NEW R, NEW S, IsFiniteSet(S), HaveNumbers(R, S)
    PROVE  /\ Sum(R, S) \in Int
           /\ \A x \in S : Sum(R, S) = R[x].value[2] + Sum(R, S \ {x})
  <1>1. S \in SUBSET S
    OBVIOUS
  <1> QED  BY <1>1, SumRemoves

(* Moved by k, finitely many numbers stay as many. *)
LEMMA MovedSet ==
    ASSUME NEW S, IsFiniteSet(S), S \subseteq Int, NEW k \in Int
    PROVE  /\ IsFiniteSet({x + k : x \in S})
           /\ Cardinality({x + k : x \in S}) = Cardinality(S)
  <1> DEFINE E == {x + k : x \in S}
             f == [x \in S |-> x + k]
  <1>1. f \in Bijection(S, E)
    BY DEF Bijection, Injection, Surjection, IsInjective
  <1>2. ExistsBijection(S, E)
    BY <1>1 DEF ExistsBijection
  <1> HIDE DEF E, f
  <1>3. IsFiniteSet(E) /\ Cardinality(E) = Cardinality(S)
    BY <1>2, FS_Bijection
  <1> QED  BY <1>3 DEF E

(* The values of the rows S of R, which are the rows of R2 k lines below.    *)
LEMMA SumMoves ==
    ASSUME NEW R, NEW D, IsFiniteSet(D), D \subseteq Int, HaveNumbers(R, D),
           NEW k \in Int, NEW R2, \A x \in D : R2[x + k].value = R[x].value
    PROVE  Sum(R2, {x + k : x \in D}) = Sum(R, D)
  <1> DEFINE Down(S) == {x + k : x \in S}
             F == {S \in SUBSET D : Sum(R2, Down(S)) # Sum(R, S)}
  <1> SUFFICES ASSUME F # {}
               PROVE  FALSE
    OBVIOUS
  <1>1. \A S \in SUBSET D : IsFiniteSet(S) /\ IsFiniteSet(Down(S))
    <2>1. ASSUME NEW S \in SUBSET D
          PROVE  IsFiniteSet(S) /\ IsFiniteSet(Down(S))
      <3>1. IsFiniteSet(S) /\ S \subseteq Int
        BY FS_Subset
      <3> QED  BY <3>1, MovedSet
    <2> QED  BY <2>1
  <1>2. PICK S \in F : \A t \in F : Cardinality(S) <= Cardinality(t)
    <2>1. \A s \in F : IsFiniteSet(s)
      BY <1>1
    <2> HIDE DEF F
    <2> QED  BY <2>1, SmallestSet
  <1>3. S \in SUBSET D /\ Sum(R2, Down(S)) # Sum(R, S) /\ IsFiniteSet(S)
    BY <1>1
  <1>4. S # {}
    <2>1. Down({}) = {} /\ IsFiniteSet({})
      BY FS_EmptySet
    <2>2. Sum(R2, {}) = 0 /\ Sum(R, {}) = 0
      BY <2>1, SumUnfolds
    <2> QED  BY <1>3, <2>1, <2>2
  <1>5. PICK c \in S : Sum(R, S) = R[c].value[2] + Sum(R, S \ {c})
    BY <1>3, <1>4, SumUnfolds
  <1>6. Sum(R2, Down(S \ {c})) = Sum(R, S \ {c})
    <2>1. Cardinality(S \ {c}) \in Nat /\ Cardinality(S) = Cardinality(S \ {c}) + 1
      BY <1>3, OneLess
    <2>2. S \ {c} \notin F
      <3> HIDE DEF F
      <3> QED  BY <1>2, <2>1
    <2>3. S \ {c} \in SUBSET D
      BY <1>3
    <2> HIDE DEF Down
    <2> QED  BY <2>2, <2>3
  <1>7. c + k \in Down(S) /\ Down(S) \ {c + k} = Down(S \ {c})
    <2>1. \A x \in S : x \in Int
      BY <1>3
    <2>2. \A x \in S : x + k = c + k <=> x = c
      BY <2>1
    <2> QED  BY <2>2
  <1>8. Sum(R2, Down(S)) = R2[c + k].value[2] + Sum(R2, Down(S) \ {c + k})
    <2>1. HaveNumbers(R2, Down(S))
      <3> SUFFICES ASSUME NEW x \in S
                   PROVE  R2[x + k].value[2] \in Int
        BY DEF HaveNumbers
      <3>1. x \in D
        BY <1>3
      <3> QED  BY <3>1 DEF HaveNumbers
    <2>2. IsFiniteSet(Down(S)) /\ c + k \in Down(S)
      BY <1>1, <1>3, <1>7
    <2> HIDE DEF Down
    <2> QED  BY <2>1, <2>2, SumWithout
  <1>9. R2[c + k].value = R[c].value
    BY <1>3
  <1> QED  BY <1>3, <1>5, <1>6, <1>7, <1>8, <1>9
-----------------------------------------------------------------------------
(* The traces.                                                               *)

(* The detail rows in lines from..to of R. *)
DetailsIn(R, from, to) == Details(R) \cap (from..to)

(* The tally t, of a group or in a row, is that of the rows S of R: it       *)
(* counts them, and its samples are the first of them.                       *)
Traces(R, t, S) ==
    /\ t.count = Cardinality(S)
    /\ \E U : t.samples \in Seq(U)
    /\ Len(t.samples) = Min({Cardinality(S), SampleCap})
    /\ \A i \in 1..Len(t.samples) :
         \E q \in S : /\ R[q].samples = <<t.samples[i]>>
                      /\ Cardinality({s \in S : s < q}) = i - 1

LEMMA MinOfTwo ==
    ASSUME NEW m \in Nat, NEW n \in Nat
    PROVE  Min({m, n}) = IF m < n THEN m ELSE n
  <1>1. CASE m < n
    <2>1. \A x \in {m, n} : (\A y \in {m, n} : x <= y) <=> x = m
      BY <1>1
    <2> QED  BY <1>1, <2>1 DEF Min
  <1>2. CASE ~(m < n)
    <2>1. \A x \in {m, n} : (\A y \in {m, n} : x <= y) <=> x = n
      BY <1>2
    <2> QED  BY <1>2, <2>1 DEF Min
  <1> QED  BY <1>1, <1>2

(* A trace depends on the sampled rows only. *)
LEMMA SameTrace ==
    ASSUME NEW R, NEW t, NEW S, Traces(R, t, S),
           NEW R2, \A q \in S : R2[q] = R[q],
           NEW t2, t2.count = t.count, t2.samples = t.samples
    PROVE  Traces(R2, t2, S)
  BY DEF Traces

LEMMA NothingTraced ==
    ASSUME NEW R
    PROVE  Traces(R, ZeroTally, {})
  <1>1. Cardinality({}) = 0
    BY FS_EmptySet
  <1>2. Min({0, SampleCap}) = 0
    BY MinOfTwo, ReportLayoutAssumption
  <1>3. ZeroTally.count = 0 /\ ZeroTally.samples = <<>>
    BY DEF ZeroTally
  <1>4. ZeroTally.samples \in Seq({}) /\ Len(ZeroTally.samples) = 0
    BY <1>3
  <1>5. \A i : i \notin 1..Len(ZeroTally.samples)
    BY <1>4
  <1> QED  BY <1>1, <1>2, <1>3, <1>4, <1>5 DEF Traces

(* A row below the traced ones is counted, and sampled while there is room.  *)
LEMMA OneMoreTraced ==
    ASSUME NEW R, NEW t, NEW S, IsFiniteSet(S), Traces(R, t, S),
           NEW p \in Int, \A s \in S : s \in Int /\ s < p,
           NEW r, R[p].samples = <<r.no>>
    PROVE  Traces(R, Tallied(t, r), S \cup {p})
  <1> DEFINE n == Cardinality(S)
             S2 == S \cup {p}
             t2 == Tallied(t, r)
  <1>1. n \in Nat /\ SampleCap \in Nat
    BY FS_CardinalityType, ReportLayoutAssumption
  <1>2. IsFiniteSet(S2) /\ Cardinality(S2) = n + 1
    <2>1. p \notin S
      OBVIOUS
    <2> QED  BY <2>1, FS_AddElement
  <1>3. PICK U : t.samples \in Seq(U)
    BY DEF Traces
  <1>4. /\ t.count = n
        /\ Len(t.samples) = IF n < SampleCap THEN n ELSE SampleCap
    BY <1>1, MinOfTwo DEF Traces
  <1>5. /\ t2.count = n + 1
        /\ t2.samples = IF Len(t.samples) < SampleCap THEN Append(t.samples, r.no)
                        ELSE t.samples
    BY <1>4 DEF Tallied
  <1>6. Min({n + 1, SampleCap}) = IF n + 1 < SampleCap THEN n + 1 ELSE SampleCap
    BY <1>1, MinOfTwo
  <1>7. ASSUME NEW q \in S
        PROVE  {s \in S2 : s < q} = {s \in S : s < q}
    <2>1. ~(p < q)
      BY <1>7
    <2> QED  BY <2>1
  <1>8. {s \in S2 : s < p} = S
    OBVIOUS
  <1>9. ASSUME NEW i \in 1..Len(t.samples)
        PROVE  \E q \in S2 : /\ R[q].samples = <<t.samples[i]>>
                             /\ Cardinality({s \in S2 : s < q}) = i - 1
    <2>1. PICK q \in S : /\ R[q].samples = <<t.samples[i]>>
                         /\ Cardinality({s \in S : s < q}) = i - 1
      BY DEF Traces
    <2> QED  BY <1>7, <2>1
  <1> HIDE DEF n, S2, t2
  <1>10. CASE n < SampleCap
    <2>1. t2.samples = Append(t.samples, r.no) /\ Len(t.samples) = n
      BY <1>1, <1>4, <1>5, <1>10
    <2>2. t.samples \in Seq(U \cup {r.no}) /\ r.no \in U \cup {r.no}
      BY <1>3
    <2>3. /\ t2.samples \in Seq(U \cup {r.no}) /\ Len(t2.samples) = n + 1
          /\ \A i \in 1..n : t2.samples[i] = t.samples[i]
          /\ t2.samples[n + 1] = r.no
      BY <2>1, <2>2, AppendProperties
    <2>4. Len(t2.samples) = Min({n + 1, SampleCap})
      BY <1>1, <1>6, <1>10, <2>3
    <2>5. ASSUME NEW i \in 1..(n + 1)
          PROVE  \E q \in S2 : /\ R[q].samples = <<t2.samples[i]>>
                               /\ Cardinality({s \in S2 : s < q}) = i - 1
      <3>1. CASE i \in 1..n
        BY <1>9, <2>1, <2>3, <3>1
      <3>2. CASE i = n + 1
        <4>1. p \in S2 /\ i - 1 = n
          BY <1>1, <3>2 DEF S2
        <4> QED  BY <1>8, <2>3, <3>2, <4>1 DEF n
      <3>3. i \in 1..n \/ i = n + 1
        BY <1>1
      <3> QED  BY <3>1, <3>2, <3>3, Zenon
    <2> QED  BY <1>2, <1>5, <2>3, <2>4, <2>5 DEF Traces, S2, t2
  <1>11. CASE ~(n < SampleCap)
    <2>1. t2.samples = t.samples /\ Len(t.samples) = SampleCap
      BY <1>1, <1>4, <1>5, <1>11
    <2>2. Len(t2.samples) = Min({n + 1, SampleCap})
      BY <1>1, <1>6, <1>11, <2>1
    <2> QED  BY <1>2, <1>3, <1>5, <1>9, <2>1, <2>2 DEF Traces, S2, t2
  <1> QED  BY <1>10, <1>11

(* Rows that are moved down by one are traced as before. *)
LEMMA ShiftedTrace ==
    ASSUME NEW R, NEW t, NEW S, IsFiniteSet(S), S \subseteq Int, Traces(R, t, S),
           NEW R2, \A q \in S : R2[q + 1].samples = R[q].samples,
           NEW t2, t2.count = t.count, t2.samples = t.samples
    PROVE  Traces(R2, t2, {q + 1 : q \in S})
  <1> DEFINE Up(T) == {q + 1 : q \in T}
  <1>1. ASSUME NEW T, T \subseteq S
        PROVE  Cardinality(Up(T)) = Cardinality(T)
    <2> DEFINE f == [q \in T |-> q + 1]
               E == Up(T)
    <2>1. T \subseteq Int
      BY <1>1
    <2>2. f \in Bijection(T, E)
      BY <2>1 DEF Bijection, Injection, Surjection, IsInjective
    <2>3. ExistsBijection(T, E)
      BY <2>2 DEF ExistsBijection
    <2>4. IsFiniteSet(T)
      BY <1>1, FS_Subset
    <2> HIDE DEF E, f
    <2>5. Cardinality(E) = Cardinality(T)
      BY <2>3, <2>4, FS_Bijection
    <2> QED  BY <2>5 DEF E
  <1>2. Cardinality(Up(S)) = Cardinality(S)
    BY <1>1
  <1>3. ASSUME NEW i \in 1..Len(t.samples)
        PROVE  \E q \in Up(S) : /\ R2[q].samples = <<t.samples[i]>>
                                /\ Cardinality({s \in Up(S) : s < q}) = i - 1
    <2>1. PICK q \in S : /\ R[q].samples = <<t.samples[i]>>
                         /\ Cardinality({s \in S : s < q}) = i - 1
      BY DEF Traces
    <2>2. {s \in Up(S) : s < q + 1} = Up({s \in S : s < q})
      <3>1. \A s \in S : s \in Int /\ q \in Int /\ (s + 1 < q + 1 <=> s < q)
        OBVIOUS
      <3> QED  BY <3>1
    <2>3. Cardinality(Up({s \in S : s < q})) = i - 1
      <3>1. {s \in S : s < q} \subseteq S
        OBVIOUS
      <3> HIDE DEF Up
      <3> QED  BY <1>1, <2>1, <3>1
    <2>4. q + 1 \in Up(S) /\ R2[q + 1].samples = <<t.samples[i]>>
      BY <2>1
    <2> QED  BY <2>2, <2>3, <2>4
  <1> QED  BY <1>2, <1>3 DEF Traces

-----------------------------------------------------------------------------
(* The aggregates.                                                           *)

(* The rows of S whose value is a number or parses as one, and those that    *)
(* have a value at all.                                                      *)
Parsing(R, S) == {p \in S : ParsesAsNumber(R[p].value)}
Valued(R, S) == {p \in S : R[p].value[1] # "nil"}

AggFields == {"sum", "count", "min", "max", "empty"}

(* The aggregate a is that of the rows S of R. *)
Aggregates(agg, R, a, S) ==
    /\ AggFields \subseteq DOMAIN a
    /\ \A p \in S : R[p].value \in Kinds \X Int
    /\ agg = "count" => a.count = Cardinality(Valued(R, S))
    /\ agg # "count" =>
         /\ a.sum = Sum(R, Parsing(R, S))
         /\ a.count = Cardinality(Parsing(R, S))
         /\ a.empty <=> Parsing(R, S) = {}
         /\ \A p \in Parsing(R, S) : a.min <= R[p].value[2] /\ R[p].value[2] <= a.max
         /\ Parsing(R, S) # {} => \E p, q \in Parsing(R, S) :
                                    a.min = R[p].value[2] /\ a.max = R[q].value[2]

LEMMA NothingAggregated ==
    ASSUME NEW agg, NEW R
    PROVE  Aggregates(agg, R, ZeroAgg, {})
  <1>1. Parsing(R, {}) = {} /\ Valued(R, {}) = {}
    BY DEF Parsing, Valued
  <1>2. Cardinality({}) = 0 /\ Sum(R, {}) = 0
    BY FS_EmptySet, SumUnfolds
  <1> QED  BY <1>1, <1>2 DEF Aggregates, ZeroAgg, AggFields

(* One more row, any but those aggregated so far. *)
LEMMA OneMoreAggregated ==
    ASSUME NEW R, NEW a, NEW S, IsFiniteSet(S), Aggregates(def.agg, R, a, S),
           NEW p, p \notin S, R[p].value \in Kinds \X Int
    PROVE  Aggregates(def.agg, R, Update(a, R[p].value), S \cup {p})
  <1> DEFINE v == R[p].value
             S2 == S \cup {p}
             P == Parsing(R, S)
             P2 == Parsing(R, S2)
  <1>1. /\ \A q \in S2 : R[q].value \in Kinds \X Int
        /\ v \in Kinds \X Int /\ v[1] \in Kinds /\ v[2] \in Int
    BY DEF Aggregates
  <1>2. CASE def.agg = "count"
    <2>1. a.count = Cardinality(Valued(R, S))
      BY <1>2 DEF Aggregates
    <2>2. CASE v[1] = "nil"
      <3>1. Valued(R, S2) = Valued(R, S) /\ Update(a, v) = a
        BY <2>2 DEF Valued, Update
      <3> QED  BY <1>1, <1>2, <2>1, <3>1 DEF Aggregates
    <2>3. CASE v[1] # "nil"
      <3>1. Valued(R, S2) = Valued(R, S) \cup {p} /\ p \notin Valued(R, S)
        BY <2>3 DEF Valued
      <3>2. IsFiniteSet(Valued(R, S))
        <4>1. Valued(R, S) \subseteq S
          BY DEF Valued
        <4> QED  BY <4>1, FS_Subset
      <3>3. Cardinality(Valued(R, S2)) = Cardinality(Valued(R, S)) + 1
        BY <3>1, <3>2, FS_AddElement
      <3>4. /\ Update(a, v).count = a.count + 1
            /\ DOMAIN Update(a, v) = DOMAIN a
        <4>1. Update(a, v) = [a EXCEPT !.count = a.count + 1]
          BY <1>2, <2>3 DEF Update
        <4>2. "count" \in DOMAIN a
          BY DEF Aggregates, AggFields
        <4> QED  BY <4>1, <4>2, Zenon
      <3> QED  BY <1>1, <1>2, <2>1, <3>3, <3>4 DEF Aggregates
    <2> QED  BY <2>2, <2>3
  <1>3. CASE def.agg # "count"
    <2>1. /\ a.sum = Sum(R, P) /\ a.count = Cardinality(P)
          /\ a.empty <=> P = {}
          /\ \A q \in P : a.min <= R[q].value[2] /\ R[q].value[2] <= a.max
          /\ P # {} => \E q, s \in P : a.min = R[q].value[2] /\ a.max = R[s].value[2]
      BY <1>3 DEF Aggregates
    <2>2. P \subseteq S /\ IsFiniteSet(P) /\ p \notin P
      <3>1. P \subseteq S
        BY DEF Parsing
      <3> QED  BY <3>1, FS_Subset
    <2>3. CASE ~ParsesAsNumber(v)
      <3>1. P2 = P /\ Update(a, v) = a
        BY <1>3, <2>3 DEF Parsing, Update
      <3> QED  BY <1>1, <1>3, <2>1, <3>1 DEF Aggregates
    <2>4. CASE ParsesAsNumber(v)
      <3> DEFINE b == Update(a, v)
      <3>1. P2 = P \cup {p}
        BY <2>4 DEF Parsing
      <3>2. b = [sum |-> a.sum + v[2],
                 count |-> a.count + 1,
                 min |-> IF a.empty \/ v[2] < a.min THEN v[2] ELSE a.min,
                 max |-> IF a.empty \/ v[2] > a.max THEN v[2] ELSE a.max,
                 empty |-> FALSE]
        BY <1>3, <2>4 DEF Update, ParsesAsNumber
      <3> HIDE DEF b, P, P2, S2
      <3>3. AggFields \subseteq DOMAIN b /\ ~b.empty
        BY <3>2 DEF AggFields
      <3>4. b.count = Cardinality(P2)
        <4>1. Cardinality(P2) = Cardinality(P) + 1
          BY <2>2, <3>1, FS_AddElement
        <4>2. b.count = a.count + 1
          BY <3>2
        <4> QED  BY <2>1, <4>1, <4>2
      <3>5. b.sum = Sum(R, P2)
        <4>1. IsFiniteSet(P2) /\ p \in P2 /\ P2 \ {p} = P
          BY <2>2, <3>1, FS_AddElement
        <4>2. HaveNumbers(R, P2)
          BY <1>1, <2>2, <3>1 DEF HaveNumbers, S2
        <4>3. HaveNumbers(R, P)
          BY <3>1, <4>2 DEF HaveNumbers
        <4>4. Sum(R, P2) = v[2] + Sum(R, P)
          BY <4>1, <4>2, SumWithout
        <4>5. Sum(R, P) \in Int
          BY <2>2, <4>3, SumWithout
        <4> QED  BY <1>1, <2>1, <3>2, <4>4, <4>5
      <3>6. \A q \in P : R[q].value[2] \in Int
        BY <1>1, <2>2 DEF S2
      <3>7. ASSUME P = {}
            PROVE  Aggregates(def.agg, R, b, S2)
        <4>1. b.min = v[2] /\ b.max = v[2] /\ P2 = {p}
          BY <2>1, <3>1, <3>2, <3>7
        <4>2. /\ \A y \in P2 : b.min <= R[y].value[2] /\ R[y].value[2] <= b.max
              /\ \E y, z \in P2 : b.min = R[y].value[2] /\ b.max = R[z].value[2]
          BY <1>1, <4>1
        <4> QED  BY <1>1, <1>3, <3>3, <3>4, <3>5, <4>1, <4>2 DEF Aggregates, P2
      <3>8. ASSUME P # {}
            PROVE  Aggregates(def.agg, R, b, S2)
        <4>1. PICK q \in P, s \in P : a.min = R[q].value[2] /\ a.max = R[s].value[2]
          BY <2>1, <3>8
        <4>2. a.min \in Int /\ a.max \in Int
          BY <3>6, <4>1
        <4>3. /\ b.min = IF v[2] < a.min THEN v[2] ELSE a.min
              /\ b.max = IF v[2] > a.max THEN v[2] ELSE a.max
          BY <2>1, <3>2, <3>8
        <4>4. \A y \in P2 : b.min <= R[y].value[2] /\ R[y].value[2] <= b.max
          BY <1>1, <2>1, <3>1, <3>6, <4>2, <4>3
        <4>5. \E y, z \in P2 : b.min = R[y].value[2] /\ b.max = R[z].value[2]
          <5>1. \E y \in P2 : b.min = R[y].value[2]
            BY <3>1, <4>1, <4>3
          <5>2. \E z \in P2 : b.max = R[z].value[2]
            BY <3>1, <4>1, <4>3
          <5> QED  BY <5>1, <5>2
        <4>6. P2 # {}
          BY <3>1
        <4> QED  BY <1>1, <1>3, <3>3, <3>4, <3>5, <4>4, <4>5, <4>6 DEF Aggregates, P2
      <3> QED  BY <3>7, <3>8 DEF b, S2
    <2> QED  BY <2>3, <2>4
  <1> QED  BY <1>2, <1>3

(* The lines D of R2 hold the values of the lines S of R, moved by k. *)
Moved(R, S, k, R2, D) ==
    /\ \A q \in S : q + k \in D /\ R2[q + k].value = R[q].value
    /\ \A y \in D : \E q \in S : y = q + k

(* Rows moved by k lines are aggregated as before. *)
LEMMA MovedAggregate ==
    ASSUME NEW agg, NEW R, NEW a, NEW S, IsFiniteSet(S), S \subseteq Int,
           Aggregates(agg, R, a, S), NEW k \in Int,
           NEW R2, NEW D, Moved(R, S, k, R2, D)
    PROVE  Aggregates(agg, R2, a, D)
  <1> DEFINE Down(T) == {q + k : q \in T}
             P == Parsing(R, S)
             V == Valued(R, S)
  <1>1. Parsing(R2, D) = Down(P) /\ Valued(R2, D) = Down(V)
    BY DEF Parsing, Valued, Moved
  <1>2. /\ P \subseteq S /\ V \subseteq S
        /\ IsFiniteSet(P) /\ IsFiniteSet(V)
    <2>1. P \subseteq S /\ V \subseteq S
      BY DEF Parsing, Valued
    <2> QED  BY <2>1, FS_Subset
  <1>3. \A p \in D : R2[p].value \in Kinds \X Int
    BY DEF Aggregates, Moved
  <1>4. Cardinality(Down(P)) = Cardinality(P) /\ Cardinality(Down(V)) = Cardinality(V)
    <2> HIDE DEF P, V
    <2> QED  BY <1>2, MovedSet
  <1>5. Sum(R2, Down(P)) = Sum(R, P)
    <2>1. HaveNumbers(R, P)
      BY <1>2 DEF Aggregates, HaveNumbers
    <2>2. P \subseteq Int /\ \A q \in P : R2[q + k].value = R[q].value
      BY <1>2 DEF Moved
    <2> HIDE DEF P
    <2> QED  BY <1>2, <2>1, <2>2, SumMoves
  <1>6. \A q \in P : q + k \in Down(P) /\ R2[q + k].value = R[q].value
    BY <1>2 DEF Moved
  <1>7. \A y \in Down(P) : \E q \in P : y = q + k
    OBVIOUS
  <1> HIDE DEF P, V, Down
  <1>8. CASE agg = "count"
    BY <1>1, <1>3, <1>4, <1>8 DEF Aggregates, V
  <1>9. CASE agg # "count"
    <2>1. /\ AggFields \subseteq DOMAIN a
          /\ a.sum = Sum(R, P) /\ a.count = Cardinality(P)
          /\ a.empty <=> P = {}
          /\ \A q \in P : a.min <= R[q].value[2] /\ R[q].value[2] <= a.max
          /\ P # {} => \E q, s \in P : a.min = R[q].value[2] /\ a.max = R[s].value[2]
      BY <1>9 DEF Aggregates, P
    <2>2. Down(P) = {} <=> P = {}
      BY <1>6, <1>7
    <2>3. \A y \in Down(P) : a.min <= R2[y].value[2] /\ R2[y].value[2] <= a.max
      BY <1>6, <1>7, <2>1
    <2>4. ASSUME P # {}
          PROVE  \E y, z \in Down(P) : a.min = R2[y].value[2] /\ a.max = R2[z].value[2]
      <3>1. PICK q \in P, s \in P : a.min = R[q].value[2] /\ a.max = R[s].value[2]
        BY <2>1, <2>4
      <3> QED  BY <1>6, <3>1
    <2> QED  BY <1>1, <1>3, <1>4, <1>5, <1>9, <2>1, <2>2, <2>3, <2>4 DEF Aggregates, P
  <1> QED  BY <1>8, <1>9

LEMMA SameAggregate ==
    ASSUME NEW agg, NEW R, NEW a, NEW S, IsFiniteSet(S), S \subseteq Int,
           Aggregates(agg, R, a, S),
           NEW R2, \A q \in S : R2[q].value = R[q].value
    PROVE  Aggregates(agg, R2, a, S)
  <1>1. \A q \in S : q + 0 = q
    OBVIOUS
  <1>2. Moved(R, S, 0, R2, S)
    BY <1>1 DEF Moved
  <1>3. 0 \in Int
    OBVIOUS
  <1> QED  BY <1>2, <1>3, MovedAggregate, Zenon

(* AggValue, for any aggregation function. *)
Result(agg, a) ==
    CASE agg = "sum"   -> <<a.sum, 1>>
      [] agg = "count" -> <<a.count, 1>>
      [] agg = "avg"   -> IF a.count = 0 THEN <<0, 1>> ELSE <<a.sum, a.count>>
      [] agg = "max"   -> IF a.empty THEN None ELSE <<a.max, 1>>
      [] agg = "min"   -> IF a.empty THEN None ELSE <<a.min, 1>>

LEMMA ResultIsAggValue ==
    ASSUME NEW a
    PROVE  AggValue(a) = Result(def.agg, a)
  BY DEF AggValue, Result

(* A tally is that of the rows S of R, and a row reports such a tally.       *)
TallyFits(agg, R, t, S) == Traces(R, t, S) /\ Aggregates(agg, R, t.agg, S)

Reports(agg, row, t) ==
    row.count = t.count /\ row.samples = t.samples /\ row.value = Result(agg, t.agg)

SumsUp(agg, R, row, S) == \E t : TallyFits(agg, R, t, S) /\ Reports(agg, row, t)

(* A tally depends on what the rows say only, not on where they are. *)
LEMMA SameTally ==
    ASSUME NEW agg, NEW R, NEW t, NEW S, IsFiniteSet(S), S \subseteq Int,
           TallyFits(agg, R, t, S), NEW R2, \A q \in S : R2[q] = R[q]
    PROVE  TallyFits(agg, R2, t, S)
  <1>1. Traces(R2, t, S)
    BY SameTrace DEF TallyFits
  <1>2. \A q \in S : R2[q].value = R[q].value
    OBVIOUS
  <1>3. Aggregates(agg, R2, t.agg, S)
    BY <1>2, SameAggregate DEF TallyFits
  <1> QED  BY <1>1, <1>3 DEF TallyFits

LEMMA NothingTallied ==
    ASSUME NEW agg, NEW R
    PROVE  TallyFits(agg, R, ZeroTally, {})
  <1>1. ZeroTally.agg = ZeroAgg
    BY DEF ZeroTally
  <1> QED  BY <1>1, NothingTraced, NothingAggregated DEF TallyFits

LEMMA OneMoreTallied ==
    ASSUME NEW R, NEW t, NEW S, IsFiniteSet(S), TallyFits(def.agg, R, t, S),
           NEW p \in Int, \A s \in S : s \in Int /\ s < p,
           NEW r, R[p].samples = <<r.no>>, R[p].value = r.value, r.value \in Kinds \X Int
    PROVE  TallyFits(def.agg, R, Tallied(t, r), S \cup {p})
  <1>1. Traces(R, Tallied(t, r), S \cup {p})
    BY OneMoreTraced DEF TallyFits
  <1>2. p \notin S
    OBVIOUS
  <1>3. Aggregates(def.agg, R, Update(t.agg, r.value), S \cup {p})
    BY <1>2, OneMoreAggregated DEF TallyFits
  <1>4. Tallied(t, r).agg = Update(t.agg, r.value)
    BY DEF Tallied
  <1> QED  BY <1>1, <1>3, <1>4 DEF TallyFits

LEMMA ShiftedTally ==
    ASSUME NEW agg, NEW R, NEW t, NEW S, IsFiniteSet(S), S \subseteq Int,
           TallyFits(agg, R, t, S),
           NEW R2, \A q \in S : R2[q + 1].samples = R[q].samples,
           \A q \in S : R2[q + 1].value = R[q].value
    PROVE  TallyFits(agg, R2, t, {q + 1 : q \in S})
  <1>1. Traces(R2, t, {q + 1 : q \in S})
    BY ShiftedTrace DEF TallyFits
  <1> DEFINE D == {q + 1 : q \in S}
  <1>2. Moved(R, S, 1, R2, D)
    BY DEF Moved
  <1> HIDE DEF D
  <1>3. Aggregates(agg, R2, t.agg, D)
    <2>1. 1 \in Int /\ Aggregates(agg, R, t.agg, S)
      BY DEF TallyFits
    <2> QED  BY <1>2, <2>1, MovedAggregate, Zenon
  <1> QED  BY <1>1, <1>3 DEF TallyFits, D
-----------------------------------------------------------------------------
(* The tallies.                                                              *)

(* Every subtotal and total sums up its range, every open group's tally is   *)
(* that of its rows, and the grand total's that of all rows.                 *)
TalliesFit ==
    /\ \A p \in 1..Len(rows) :
         rows[p].type # "detail" =>
           /\ rows[p].from \in Int /\ rows[p].to \in Int
           /\ SumsUp(def.agg, rows, rows[p], DetailsIn(rows, rows[p].from, rows[p].to))
    /\ phase = "feed" =>
         /\ TallyFits(def.agg, rows, root, Details(rows))
         /\ \A d \in 1..Len(stack) :
              TallyFits(def.agg, rows, stack[d].tally,
                        DetailsIn(rows, stack[d].start, Len(rows)))

(* The subtotals of closed groups sum up what the groups kept. *)
LEMMA ClosedTallies ==
    ASSUME GroupsFit, GroupsOpen, TotalsFit, TalliesFit, phase = "feed",
           NEW k \in 0..Len(stack)
    PROVE  LET C == Closed(k) IN
           /\ \A p \in Details(C) : C[p] = rows[p]
           /\ \A p \in 1..Len(C) :
                C[p].type # "detail" =>
                  SumsUp(def.agg, C, C[p], DetailsIn(C, C[p].from, C[p].to))
           /\ TallyFits(def.agg, C, root, Details(C))
           /\ \A d \in 1..k :
                TallyFits(def.agg, C, stack[d].tally, DetailsIn(C, stack[d].start, Len(C)))
  <1> DEFINE L == Len(rows)
             n == Len(stack) - k
             C == Closed(k)
  <1>1. L \in Nat /\ Len(stack) \in Nat /\ n \in Nat /\ k \in Nat /\ k <= Len(stack)
        /\ n + k = Len(stack)
    BY DEF GroupsFit, GroupsOpen
  <1>2. /\ Len(C) = L + n
        /\ \A q \in 1..L : C[q] = rows[q]
        /\ \A j \in 1..n :
             /\ C[L + j].from = stack[Len(stack) + 1 - j].start
             /\ C[L + j].to = L + j - 1
             /\ C[L + j].count = stack[Len(stack) + 1 - j].tally.count
             /\ C[L + j].samples = stack[Len(stack) + 1 - j].tally.samples
             /\ C[L + j].value = AggValue(stack[Len(stack) + 1 - j].tally.agg)
    BY ClosedRows DEF ClosedTo
  <1>3. Details(C) = Details(rows)
    BY ClosedTotals
  <1> HIDE DEF C, L, n
  <1>4. \A from, to : DetailsIn(C, from, to) = DetailsIn(rows, from, to)
    BY <1>3 DEF DetailsIn
  <1>5. \A p \in Details(C) : p \in 1..L /\ C[p] = rows[p]
    BY <1>2, <1>3 DEF Details, L
  <1>6. ASSUME NEW t, NEW S, S \subseteq Details(C), TallyFits(def.agg, rows, t, S)
        PROVE  TallyFits(def.agg, C, t, S)
    <2>1. \A q \in S : C[q] = rows[q]
      BY <1>5, <1>6
    <2>2. IsFiniteSet(S) /\ S \subseteq Int
      <3>1. S \subseteq Int
        BY <1>5, <1>6
      <3> QED  BY <1>3, <1>6, <3>1, FS_Subset DEF TotalsFit
    <2> QED  BY <1>6, <2>1, <2>2, SameTally
  <1>7. \A from, to : DetailsIn(C, from, to) \subseteq Details(C)
    BY DEF DetailsIn
  <1>8. ASSUME NEW to \in Int, L <= to, NEW from
        PROVE  DetailsIn(C, from, to) = DetailsIn(rows, from, L)
    <2>1. \A p \in Details(rows) : p \in Int /\ p <= L
      BY DEF Details, L
    <2> QED  BY <1>1, <1>4, <1>8, <2>1 DEF DetailsIn
  <1>9. \A d \in 1..Len(stack) :
          TallyFits(def.agg, rows, stack[d].tally, DetailsIn(rows, stack[d].start, L))
    BY DEF TalliesFit, L
  <1>10. ASSUME NEW p \in 1..Len(C), C[p].type # "detail"
         PROVE  SumsUp(def.agg, C, C[p], DetailsIn(C, C[p].from, C[p].to))
    <2>1. CASE p <= L
      <3>1. p \in 1..L /\ C[p] = rows[p]
        BY <1>1, <1>2, <2>1
      <3>2. SumsUp(def.agg, rows, rows[p], DetailsIn(rows, rows[p].from, rows[p].to))
        BY <1>10, <3>1 DEF TalliesFit, L
      <3>3. SumsUp(def.agg, rows, C[p], DetailsIn(C, C[p].from, C[p].to))
        BY <1>4, <3>1, <3>2
      <3> QED  BY <1>6, <1>7, <3>3 DEF SumsUp
    <2>2. CASE ~(p <= L)
      <3> DEFINE j == p - L
                 d == Len(stack) + 1 - j
                 t == stack[d].tally
      <3>1. j \in 1..n /\ L + j = p /\ d \in 1..Len(stack) /\ L <= L + j - 1
            /\ L + j - 1 \in Int
        BY <1>1, <1>2, <2>2
      <3>2. /\ C[L + j].from = stack[d].start
            /\ C[L + j].to = L + j - 1
            /\ C[L + j].count = t.count
            /\ C[L + j].samples = t.samples
            /\ C[L + j].value = AggValue(t.agg)
        BY <1>2, <3>1
      <3> HIDE DEF j, d
      <3>3. DetailsIn(C, C[p].from, C[p].to) = DetailsIn(rows, stack[d].start, L)
        BY <1>8, <3>1, <3>2
      <3>4. TallyFits(def.agg, rows, t, DetailsIn(C, C[p].from, C[p].to))
        BY <1>9, <3>1, <3>3
      <3>5. Reports(def.agg, C[p], t)
        BY <3>1, <3>2, ResultIsAggValue DEF Reports
      <3> QED  BY <1>6, <1>7, <3>4, <3>5 DEF SumsUp
    <2> QED  BY <2>1, <2>2
  <1>11. TallyFits(def.agg, C, root, Details(C))
    <2>1. TallyFits(def.agg, rows, root, Details(C))
      BY <1>3 DEF TalliesFit
    <2> QED  BY <1>6, <2>1
  <1>12. ASSUME NEW d \in 1..k
         PROVE  TallyFits(def.agg, C, stack[d].tally, DetailsIn(C, stack[d].start, Len(C)))
    <2>1. d \in 1..Len(stack) /\ Len(C) \in Int /\ L <= Len(C)
      BY <1>1, <1>2
    <2>2. DetailsIn(C, stack[d].start, Len(C)) = DetailsIn(rows, stack[d].start, L)
      BY <1>8, <2>1
    <2>3. TallyFits(def.agg, rows, stack[d].tally, DetailsIn(C, stack[d].start, Len(C)))
      BY <1>9, <2>1, <2>2
    <2> QED  BY <1>6, <1>7, <2>3
  <1> QED  BY <1>5, <1>10, <1>11, <1>12 DEF C

LEMMA FeedKeepsTallies ==
    ASSUME GroupsFit, TotalsFit, TalliesFit,
           NEW r, r.keys \in [1..def.ndim -> Keys], r.value \in Kinds \X Int, Feed(r)
    PROVE  TalliesFit'
  <1>1. /\ GroupsOpen /\ phase = "feed" /\ phase' = "feed" /\ def.ndim \in Nat
        /\ root' = Tallied(root, r) /\ def' = def
    BY DEF Feed, GroupsFit
  <1>2. PICK k \in 0..Len(stack) : FedTo(r, k)
    BY FedRows
  <1> DEFINE C == Closed(k)
             L == Len(C)
  <1>3. /\ \A p \in 1..L :
             C[p].type # "detail" =>
               SumsUp(def.agg, C, C[p], DetailsIn(C, C[p].from, C[p].to))
        /\ TallyFits(def.agg, C, root, Details(C))
        /\ \A d \in 1..k :
             TallyFits(def.agg, C, stack[d].tally, DetailsIn(C, stack[d].start, L))
    BY <1>1, ClosedTallies
  <1>4. /\ L \in Nat /\ k \in Nat /\ Lawful(C)
        /\ \A d \in 1..k : IsGroup(C, stack[d].start, L, OpenPath(d), d)
    <2>1. L \in Nat /\ k \in Nat
      BY <1>1, ClosedIsLawful DEF Lawful, GroupsOpen
    <2>2. Lawful(C) /\ \A d \in 1..k : IsGroup(C, stack[d].start, L, OpenPath(d), d)
      BY <1>1, ClosedIsLawful
    <2> QED  BY <2>1, <2>2
  <1>5. /\ IsFiniteSet(Details(C))
        /\ \A p \in 1..L : C[p].type \in {"detail", "subtotal"}
    <2>1. /\ Details(C) = Details(rows)
          /\ \A p \in 1..L : C[p].type \in {"detail", "subtotal"}
      BY <1>1, ClosedTotals
    <2> QED  BY <2>1 DEF TotalsFit
  <1>6. /\ Len(rows') = L + 1
        /\ \A q \in 1..L : rows'[q] = C[q]
        /\ rows'[L + 1].type = "detail" /\ rows'[L + 1].samples = <<r.no>>
        /\ rows'[L + 1].value = r.value
        /\ k <= def.ndim
        /\ Len(stack') = def.ndim
        /\ \A d \in 1..def.ndim :
             /\ stack'[d].start = IF d <= k THEN stack[d].start ELSE L + 1
             /\ stack'[d].tally = Tallied(IF d <= k THEN stack[d].tally ELSE ZeroTally, r)
    BY <1>2 DEF FedTo, DetailRow
  <1> HIDE DEF C, L
  <1>7. Details(rows') = Details(C) \cup {L + 1} /\ \A p \in Details(C) : p \in 1..L
    BY <1>4, <1>6 DEF Details, L
  <1>8. ASSUME NEW t, NEW S, S \subseteq Details(C), TallyFits(def.agg, C, t, S)
        PROVE  /\ TallyFits(def.agg, rows', t, S)
               /\ TallyFits(def.agg, rows', Tallied(t, r), S \cup {L + 1})
    <2>1. \A q \in S : q \in 1..L /\ rows'[q] = C[q]
      BY <1>6, <1>7, <1>8
    <2>2. IsFiniteSet(S) /\ S \subseteq Int
      BY <1>5, <1>8, <2>1, FS_Subset
    <2>3. TallyFits(def.agg, rows', t, S)
      BY <1>8, <2>1, <2>2, SameTally
    <2>4. L + 1 \in Int /\ \A s \in S : s \in Int /\ s < L + 1
      BY <1>4, <2>1
    <2>5. TallyFits(def.agg, rows', Tallied(t, r), S \cup {L + 1})
      BY <1>6, <2>2, <2>3, <2>4, OneMoreTallied
    <2> QED  BY <2>3, <2>5
  <1>9. ASSUME NEW p \in 1..Len(rows'), rows'[p].type # "detail"
        PROVE  /\ rows'[p].from \in Int /\ rows'[p].to \in Int
               /\ SumsUp(def.agg, rows', rows'[p],
                         DetailsIn(rows', rows'[p].from, rows'[p].to))
    <2>1. p \in 1..L /\ rows'[p] = C[p]
      BY <1>4, <1>6, <1>9
    <2>2. SumsUp(def.agg, C, C[p], DetailsIn(C, C[p].from, C[p].to))
      BY <1>3, <1>9, <2>1
    <2>3. C[p].to = p - 1 /\ C[p].from \in Int
      <3>1. IsSubtotal(C, p)
        BY <1>5, <1>9, <2>1 DEF IsSubtotal
      <3> QED  BY <1>4, <2>1, <3>1 DEF Lawful, Covers1, IsGroup, L
    <2>4. L + 1 \notin C[p].from..C[p].to
      BY <1>4, <2>1, <2>3
    <2>5. DetailsIn(rows', C[p].from, C[p].to) = DetailsIn(C, C[p].from, C[p].to)
      BY <1>7, <2>4 DEF DetailsIn
    <2>6. DetailsIn(C, C[p].from, C[p].to) \subseteq Details(C)
      BY DEF DetailsIn
    <2>7. SumsUp(def.agg, rows', C[p], DetailsIn(C, C[p].from, C[p].to))
      BY <1>8, <2>2, <2>6 DEF SumsUp
    <2> QED  BY <1>4, <2>1, <2>3, <2>5, <2>7
  <1>10. TallyFits(def.agg, rows', root', Details(rows'))
    BY <1>1, <1>3, <1>7, <1>8
  <1>11. ASSUME NEW d \in 1..Len(stack')
         PROVE  TallyFits(def.agg, rows', stack'[d].tally,
                          DetailsIn(rows', stack'[d].start, Len(rows')))
    <2>1. d \in 1..def.ndim
      BY <1>6
    <2>2. CASE d <= k
      <3>1. d \in 1..k /\ stack'[d].start = stack[d].start
            /\ stack'[d].tally = Tallied(stack[d].tally, r)
        BY <1>4, <1>6, <2>1, <2>2
      <3>2. stack[d].start \in 1..L
        BY <1>4, <3>1 DEF IsGroup
      <3>3. DetailsIn(rows', stack[d].start, L + 1) = DetailsIn(C, stack[d].start, L) \cup {L + 1}
        <4>1. L + 1 \in stack[d].start..(L + 1)
              /\ \A p \in 1..L : p \in stack[d].start..(L + 1) <=> p \in stack[d].start..L
          BY <1>4, <3>2
        <4> QED  BY <1>7, <4>1 DEF DetailsIn
      <3>4. DetailsIn(C, stack[d].start, L) \subseteq Details(C)
        BY DEF DetailsIn
      <3>5. TallyFits(def.agg, C, stack[d].tally, DetailsIn(C, stack[d].start, L))
        BY <1>3, <3>1
      <3> QED  BY <1>6, <1>8, <3>1, <3>3, <3>4, <3>5
    <2>3. CASE ~(d <= k)
      <3>1. stack'[d].start = L + 1 /\ stack'[d].tally = Tallied(ZeroTally, r)
        BY <1>6, <2>1, <2>3
      <3>2. DetailsIn(rows', L + 1, L + 1) = {} \cup {L + 1}
        <4>1. /\ L + 1 \in (L + 1)..(L + 1)
              /\ \A p \in 1..L : p \notin (L + 1)..(L + 1)
              /\ \A p \in (L + 1)..(L + 1) : p = L + 1
          BY <1>4
        <4> QED  BY <1>7, <4>1 DEF DetailsIn
      <3>3. TallyFits(def.agg, rows', Tallied(ZeroTally, r), {} \cup {L + 1})
        BY <1>8, NothingTallied
      <3> QED  BY <1>6, <3>1, <3>2, <3>3
    <2> QED  BY <2>2, <2>3
  <1> QED  BY <1>1, <1>9, <1>10, <1>11 DEF TalliesFit

LEMMA FinishKeepsTallies ==
    ASSUME GroupsFit, TotalsFit, TalliesFit, Finish
    PROVE  TalliesFit'
  <1> DEFINE C == Closed(0)
             L == Len(C)
             total == TallyRow("total", <<>>, root, 1, L)
  <1>1. GroupsOpen /\ phase = "feed" /\ phase' = "position" /\ def' = def
    BY DEF Finish, GroupsFit
  <1>2. /\ Lawful(C) /\ L \in Nat
        /\ \/ C = <<>> /\ rows' = C
           \/ FinishedBelow(C, total)
           \/ FinishedAbove(C, total)
    BY FinishedRows
  <1>3. 0 \in 0..Len(stack)
    BY <1>1 DEF GroupsOpen
  <1>4. /\ \A p \in 1..L :
             C[p].type # "detail" =>
               SumsUp(def.agg, C, C[p], DetailsIn(C, C[p].from, C[p].to))
        /\ TallyFits(def.agg, C, root, Details(C))
    BY <1>1, <1>3, ClosedTallies
  <1>5. /\ IsFiniteSet(Details(C))
        /\ \A p \in 1..L : C[p].type \in {"detail", "subtotal"}
    <2>1. /\ Details(C) = Details(rows)
          /\ \A p \in 1..L : C[p].type \in {"detail", "subtotal"}
      BY <1>1, <1>3, ClosedTotals
    <2> QED  BY <2>1 DEF TotalsFit
  <1>6. /\ total.type = "total" /\ total.from = 1 /\ total.to = L
        /\ RowFields \subseteq DOMAIN total
        /\ Shift(total).from = 2 /\ Shift(total).to = L + 1
        /\ Reports(def.agg, total, root) /\ Reports(def.agg, Shift(total), root)
    BY ResultIsAggValue DEF TallyRow, Shift, RowFields, Reports
  <1> HIDE DEF C, L, total
  (* A subtotal's range ends above it. *)
  <1>7. ASSUME NEW p \in 1..L, C[p].type # "detail"
        PROVE  C[p].to = p - 1 /\ C[p].from \in Int
    <2>1. IsSubtotal(C, p)
      BY <1>5, <1>7 DEF IsSubtotal
    <2> QED  BY <1>2, <2>1 DEF Lawful, Covers1, IsGroup, L
  <1>8. /\ \A p \in Details(C) : p \in 1..L
        /\ DetailsIn(C, 1, L) = Details(C)
        /\ \A from, to : DetailsIn(C, from, to) \subseteq Details(C)
    BY DEF Details, DetailsIn, L
  <1>9. SUFFICES ASSUME NEW p \in 1..Len(rows'), rows'[p].type # "detail"
                 PROVE  /\ rows'[p].from \in Int /\ rows'[p].to \in Int
                        /\ SumsUp(def.agg, rows', rows'[p],
                                  DetailsIn(rows', rows'[p].from, rows'[p].to))
    BY <1>1 DEF TalliesFit
  <1>10. CASE C = <<>> /\ rows' = C
    BY <1>9, <1>10
  <1>11. CASE FinishedBelow(C, total)
    <2>1. /\ Len(rows') = L + 1
          /\ \A q \in 1..L : rows'[q] = C[q]
          /\ rows'[L + 1] = total
      BY <1>11 DEF FinishedBelow, L
    <2>2. Details(rows') = Details(C)
      BY <1>2, <1>6, <2>1 DEF Details, L
    <2>3. \A from, to : DetailsIn(rows', from, to) = DetailsIn(C, from, to)
      BY <2>2 DEF DetailsIn
    <2>4. ASSUME NEW t, NEW S, S \subseteq Details(C), TallyFits(def.agg, C, t, S)
          PROVE  TallyFits(def.agg, rows', t, S)
      <3>1. \A q \in S : q \in 1..L /\ rows'[q] = C[q]
        BY <1>8, <2>1, <2>4
      <3>2. IsFiniteSet(S) /\ S \subseteq Int
        BY <1>5, <2>4, <3>1, FS_Subset
      <3> QED  BY <2>4, <3>1, <3>2, SameTally
    <2>5. CASE p \in 1..L
      <3>1. rows'[p] = C[p] /\ SumsUp(def.agg, C, C[p], DetailsIn(C, C[p].from, C[p].to))
        BY <1>4, <1>9, <2>1, <2>5
      <3>2. SumsUp(def.agg, rows', C[p], DetailsIn(C, C[p].from, C[p].to))
        BY <1>8, <2>4, <3>1 DEF SumsUp
      <3>3. C[p].from \in Int /\ C[p].to \in Int
        BY <1>7, <1>9, <2>5, <3>1
      <3> QED  BY <2>3, <3>1, <3>2, <3>3
    <2>6. CASE p = L + 1
      <3>1. SumsUp(def.agg, rows', total, Details(C))
        BY <1>4, <1>6, <2>4 DEF SumsUp
      <3> QED  BY <1>2, <1>6, <1>8, <2>1, <2>3, <2>6, <3>1
    <2> QED  BY <1>2, <2>1, <2>5, <2>6
  <1>12. CASE FinishedAbove(C, total)
    <2>1. Len(rows') = L + 1 /\ rows'[1] = Shift(total)
      BY <1>12 DEF FinishedAbove, L
    <2>2. ASSUME NEW q \in 1..L
          PROVE  /\ rows'[q + 1].type = C[q].type
                 /\ rows'[q + 1].count = C[q].count
                 /\ rows'[q + 1].samples = C[q].samples
                 /\ rows'[q + 1].value = C[q].value
                 /\ C[q].type # "detail" => /\ rows'[q + 1].from = C[q].from + 1
                                            /\ rows'[q + 1].to = C[q].to + 1
      <3>1. rows'[q + 1] = Shift(C[q])
        BY <1>12 DEF FinishedAbove, L
      <3>2. RowFields \subseteq DOMAIN C[q]
        BY <1>2 DEF Lawful, L
      <3> QED  BY <3>1, <3>2, ShiftedRow
    <2>3. ASSUME NEW q \in 1..L
          PROVE  q + 1 \in Details(rows') <=> q \in Details(C)
      <3>1. q + 1 \in 1..(L + 1)
        BY <1>2
      <3> QED  BY <2>1, <2>2, <3>1 DEF Details, L
    <2>4. ASSUME NEW from \in Int, NEW to \in Int
          PROVE  DetailsIn(rows', from + 1, to + 1) = {q + 1 : q \in DetailsIn(C, from, to)}
      <3>1. ASSUME NEW s \in DetailsIn(rows', from + 1, to + 1)
            PROVE  s \in {q + 1 : q \in DetailsIn(C, from, to)}
        <4>1. s \in 1..(L + 1) /\ rows'[s].type = "detail" /\ s \in (from + 1)..(to + 1)
          BY <2>1, <3>1 DEF DetailsIn, Details
        <4>2. s # 1
          <5>1. Shift(total).type = "total"
            BY <1>6, ShiftedRow
          <5> QED  BY <2>1, <4>1, <5>1
        <4>3. s - 1 \in 1..L /\ (s - 1) + 1 = s /\ s - 1 \in from..to
          BY <1>2, <4>1, <4>2
        <4>4. s - 1 \in Details(C)
          BY <2>3, <3>1, <4>3 DEF DetailsIn
        <4> QED  BY <4>3, <4>4 DEF DetailsIn
      <3>2. ASSUME NEW q \in DetailsIn(C, from, to)
            PROVE  q + 1 \in DetailsIn(rows', from + 1, to + 1)
        <4>1. q \in 1..L /\ q \in Details(C) /\ q \in from..to
          BY <1>8 DEF DetailsIn
        <4>2. q + 1 \in (from + 1)..(to + 1)
          BY <4>1
        <4> QED  BY <2>3, <4>1, <4>2 DEF DetailsIn
      <3> QED  BY <3>1, <3>2
    <2>5. ASSUME NEW from \in Int, NEW to \in Int, NEW t,
                 TallyFits(def.agg, C, t, DetailsIn(C, from, to))
          PROVE  TallyFits(def.agg, rows', t, DetailsIn(rows', from + 1, to + 1))
      <3> DEFINE S == DetailsIn(C, from, to)
      <3>1. S \subseteq Details(C) /\ \A q \in S : q \in 1..L
        BY <1>8
      <3>2. IsFiniteSet(S) /\ S \subseteq Int
        BY <1>5, <3>1, FS_Subset
      <3>3. /\ \A q \in S : rows'[q + 1].samples = C[q].samples
            /\ \A q \in S : rows'[q + 1].value = C[q].value
        BY <2>2, <3>1
      <3> HIDE DEF S
      <3>4. TallyFits(def.agg, rows', t, {q + 1 : q \in S})
        BY <2>5, <3>2, <3>3, ShiftedTally DEF S
      <3> QED  BY <2>4, <3>4 DEF S
    <2>6. CASE p = 1
      <3>1. TallyFits(def.agg, C, root, DetailsIn(C, 1, L))
        BY <1>4, <1>8
      <3>2. TallyFits(def.agg, rows', root, DetailsIn(rows', 1 + 1, L + 1))
        BY <1>2, <2>5, <3>1
      <3> QED  BY <1>2, <1>6, <2>1, <2>6, <3>2 DEF SumsUp
    <2>7. CASE p # 1
      <3> DEFINE q == p - 1
      <3>1. q \in 1..L /\ q + 1 = p
        BY <1>2, <2>1, <2>7
      <3> HIDE DEF q
      <3>2. C[q].type # "detail"
        BY <1>9, <2>2, <3>1
      <3>3. PICK t : /\ TallyFits(def.agg, C, t, DetailsIn(C, C[q].from, C[q].to))
                     /\ Reports(def.agg, C[q], t)
        BY <1>4, <3>1, <3>2 DEF SumsUp
      <3>4. C[q].from \in Int /\ C[q].to \in Int
        BY <1>7, <3>1, <3>2
      <3>5. /\ rows'[p].from = C[q].from + 1 /\ rows'[p].to = C[q].to + 1
            /\ Reports(def.agg, rows'[p], t)
        BY <2>2, <3>1, <3>2, <3>3 DEF Reports
      <3>6. TallyFits(def.agg, rows', t, DetailsIn(rows', rows'[p].from, rows'[p].to))
        BY <2>5, <3>3, <3>4, <3>5
      <3> QED  BY <3>4, <3>5, <3>6 DEF SumsUp
    <2> QED  BY <2>6, <2>7
  <1> QED  BY <1>2, <1>10, <1>11, <1>12

LEMMA FittingTraces ==
    GroupsFit /\ TalliesFit => TraceNamesRows
  <1> SUFFICES ASSUME GroupsFit, TalliesFit, NEW p \in Ranged
               PROVE  LET n == Cardinality(DetailRows \cap Covered(p))
                      IN /\ rows[p].count = n
                         /\ Len(rows[p].samples) = Min({n, SampleCap})
                         /\ \A i \in DOMAIN rows[p].samples :
                              \E q \in DetailRows \cap Covered(p) :
                                  /\ rows[q].samples = <<rows[p].samples[i]>>
                                  /\ Cardinality({s \in DetailRows \cap Covered(p) : s < q})
                                       = i - 1
    BY DEF TraceNamesRows
  <1>1. DOMAIN rows = 1..Len(rows)
    BY DEF GroupsFit
  <1>2. DetailRows \cap Covered(p) = DetailsIn(rows, rows[p].from, rows[p].to)
    BY <1>1 DEF DetailRows, Details, Covered, DetailsIn
  <1>3. Traces(rows, rows[p], DetailsIn(rows, rows[p].from, rows[p].to))
    <2>1. PICK t : /\ Traces(rows, t, DetailsIn(rows, rows[p].from, rows[p].to))
                   /\ Reports(def.agg, rows[p], t)
      BY <1>1 DEF Ranged, TalliesFit, SumsUp, TallyFits
    <2> QED  BY <2>1, SameTrace DEF Reports
  <1>4. DOMAIN rows[p].samples = 1..Len(rows[p].samples)
    BY <1>3 DEF Traces
  <1> QED  BY <1>2, <1>3, <1>4 DEF Traces

(* The formulas of a finished report refer to the ranges of their rows. *)
FormulasFit ==
    /\ def.agg \in {"sum", "avg", "count", "max", "min"}
    /\ phase = "done" => formulas = [p \in Ranged |-> [from |-> Line(rows[p].from),
                                                      to |-> Line(rows[p].to)]]

(* The greatest and the least of some integers are the only ones there are.  *)
LEMMA GreatestIsMax ==
    ASSUME NEW ns, ns \subseteq Int, NEW m \in ns, \A n \in ns : n <= m
    PROVE  Max(ns) = m
  <1>1. \A x \in ns : (\A y \in ns : x >= y) <=> x = m
    OBVIOUS
  <1> QED  BY <1>1 DEF Max

LEMMA LeastIsMin ==
    ASSUME NEW ns, ns \subseteq Int, NEW m \in ns, \A n \in ns : m <= n
    PROVE  Min(ns) = m
  <1>1. \A x \in ns : (\A y \in ns : x <= y) <=> x = m
    OBVIOUS
  <1> QED  BY <1>1 DEF Min

(* A formula over the range of a row looks at the rows that it sums up, and  *)
(* where no digits are strings at the same numbers.                          *)
LEMMA FittingFormulas ==
    GroupsFit /\ TotalsFit /\ TalliesFit /\ FormulasFit => FormulaAgrees
  <1> SUFFICES ASSUME GroupsFit, TotalsFit, TalliesFit, FormulasFit, phase = "done",
                      NEW p \in Ranged
               PROVE  CASE def.agg = "count" -> AgreesAt(p)
                        [] def.agg = "sum" -> HasDigits \/ AgreesAt(p)
                        [] OTHER -> HasDigits \/ ~HasNumbers(formulas[p]) \/ AgreesAt(p)
    BY DEF FormulaAgrees
  <1> DEFINE f == formulas[p]
             S == DetailsIn(rows, rows[p].from, rows[p].to)
             P == Parsing(rows, S)
             cells == Operands(f.from, f.to)
             numbers == {q \in cells : rows[q].value[1] = "number"}
             ns == {rows[q].value[2] : q \in numbers}
  <1>1. DOMAIN rows = 1..Len(rows)
    BY DEF GroupsFit
  <1>2. p \in 1..Len(rows) /\ rows[p].type # "detail"
    BY <1>1 DEF Ranged
  <1>3. PICK t : /\ TallyFits(def.agg, rows, t, S)
                 /\ Reports(def.agg, rows[p], t)
    BY <1>2 DEF TalliesFit, SumsUp
  <1> DEFINE a == t.agg
  <1>4. Aggregates(def.agg, rows, a, S) /\ rows[p].value = Result(def.agg, a)
    BY <1>3 DEF TallyFits, Reports
  <1>5. IsFiniteSet(S) /\ S \subseteq Details(rows) /\ S \subseteq Int
    <2>1. S \subseteq Details(rows) /\ Details(rows) \subseteq Int
      BY DEF DetailsIn, Details
    <2> QED  BY <2>1, FS_Subset DEF TotalsFit
  <1>6. f.from = rows[p].from + 1 /\ f.to = rows[p].to + 1
    BY DEF FormulasFit, Line
  <1>7. cells = Valued(rows, S)
    <2>1. rows[p].from \in Int /\ rows[p].to \in Int
      BY <1>2 DEF TalliesFit
    <2>2. \A q \in Details(rows) : q \in Int /\ (q + 1 \in f.from..f.to <=>
                                                 q \in rows[p].from..rows[p].to)
      BY <1>6, <2>1 DEF Details
    <2> QED  BY <1>1, <2>2 DEF Operands, PrintedLine, Valued, DetailRows, Details, DetailsIn
  <1>8. SubtotalOf(f.from, f.to) =
          CASE def.agg = "sum"   -> <<Sum(rows, numbers), 1>>
            [] def.agg = "count" -> <<Cardinality(cells), 1>>
            [] def.agg = "avg"   -> <<Sum(rows, numbers), Cardinality(numbers)>>
            [] def.agg = "max"   -> IF ns = {} THEN <<0, 1>> ELSE <<Max(ns), 1>>
            [] def.agg = "min"   -> IF ns = {} THEN <<0, 1>> ELSE <<Min(ns), 1>>
    <2>1. SumOf(numbers) = Sum(rows, numbers)
      BY SumOfIsSum
    <2> QED  BY <2>1 DEF SubtotalOf
  <1>9. AgreesAt(p) <=> SubtotalOf(f.from, f.to) = Result(def.agg, a)
    BY <1>4 DEF AgreesAt
  <1>10. ~HasDigits => numbers = P
    BY <1>1, <1>5, <1>7 DEF HasDigits, Parsing, Valued, ParsesAsNumber, DetailRows, Details
  <1>11. HasNumbers(f) => numbers # {}
    BY DEF HasNumbers
  <1>12. \A q \in S : rows[q].value[2] \in Int
    BY <1>4 DEF Aggregates
  <1>13. P \subseteq S /\ IsFiniteSet(P)
    <2>1. P \subseteq S
      BY DEF Parsing
    <2> QED  BY <1>5, <2>1, FS_Subset
  <1> HIDE DEF f, S, P, cells, numbers, a
  <1>14. CASE def.agg = "count"
    <2>1. a.count = Cardinality(cells)
      BY <1>4, <1>7, <1>14 DEF Aggregates
    <2> QED  BY <1>8, <1>9, <1>14, <2>1 DEF Result
  <1>15. CASE def.agg = "sum"
    <2>1. a.sum = Sum(rows, P)
      BY <1>4, <1>15 DEF Aggregates, P
    <2> QED  BY <1>8, <1>9, <1>10, <1>15, <2>1 DEF Result
  <1>16. CASE def.agg \in {"avg", "max", "min"}
    <2> SUFFICES ASSUME ~HasDigits, HasNumbers(f)
                 PROVE  AgreesAt(p)
      BY <1>16 DEF f
    <2>1. numbers = P /\ P # {}
      BY <1>10, <1>11
    <2>2. /\ a.sum = Sum(rows, P) /\ a.count = Cardinality(P) /\ ~a.empty
          /\ \A q \in P : a.min <= rows[q].value[2] /\ rows[q].value[2] <= a.max
          /\ \E q, s \in P : a.min = rows[q].value[2] /\ a.max = rows[s].value[2]
      BY <1>4, <1>16, <2>1 DEF Aggregates, P
    <2>3. CASE def.agg = "avg"
      <3>1. a.count # 0
        BY <1>13, <2>1, <2>2, FS_EmptySet
      <3> QED  BY <1>8, <1>9, <2>1, <2>2, <2>3, <3>1 DEF Result
    <2>4. ns \subseteq Int /\ ns # {}
      BY <1>12, <1>13, <2>1
    <2>5. /\ a.max \in ns /\ \A n \in ns : n <= a.max
          /\ a.min \in ns /\ \A n \in ns : a.min <= n
      BY <2>1, <2>2
    <2> HIDE DEF ns
    <2>6. Max(ns) = a.max /\ Min(ns) = a.min
      BY <2>4, <2>5, GreatestIsMax, LeastIsMin
    <2>7. CASE def.agg = "max"
      BY <1>8, <1>9, <2>2, <2>4, <2>6, <2>7 DEF Result
    <2>8. CASE def.agg = "min"
      BY <1>8, <1>9, <2>2, <2>4, <2>6, <2>8 DEF Result
    <2> QED  BY <1>16, <2>3, <2>7, <2>8
  <1> QED  BY <1>14, <1>15, <1>16 DEF FormulasFit
-----------------------------------------------------------------------------
(* The merged cells.                                                         *)

(* A detail row has a key for every dimension, the total has none. *)
DeepRow(r) ==
    /\ RowFields \subseteq DOMAIN r
    /\ r.type = "detail" => Len(r.path) = def.ndim
    /\ r.type \notin {"detail", "subtotal"} => Len(r.path) = 0

RowsDeep == \E T : rows \in Seq(T) /\ \A r \in T : DeepRow(r)

LEMMA FeedKeepsRowsDeep ==
    ASSUME GroupsFit, RowsDeep, NEW r, r.keys \in [1..def.ndim -> Keys], Feed(r)
    PROVE  RowsDeep'
  <1>1. PICK T : rows \in Seq(T) /\ \A t \in T : DeepRow(t)
    BY DEF RowsDeep
  <1>2. PICK k \in 0..Len(stack) :
          rows' = Append(Closed(k),
                         DetailRow(r, IF def.ndim = 0 THEN Len(rows) + 1
                                      ELSE IF k < def.ndim THEN 1 ELSE seq + 1))
    BY DEF Feed
  <1> DEFINE n == IF def.ndim = 0 THEN Len(rows) + 1
                  ELSE IF k < def.ndim THEN 1 ELSE seq + 1
  <1>3. def' = def /\ def.ndim \in Nat /\ Len(stack) \in Nat /\ k \in Nat
    BY DEF Feed, GroupsFit, GroupsOpen
  <1> DEFINE m == Len(stack) - k
             closing == [j \in 1..m |-> Subtotal(Len(stack) + 1 - j, Len(rows) + j - 1)]
             S == T \cup {closing[j] : j \in 1..m} \cup {DetailRow(r, n)}
  <1>4. rows \in Seq(S) /\ DetailRow(r, n) \in S
    BY <1>1
  <1>5. closing \in Seq(S)
    <2>1. closing \in [1..m -> S] /\ m \in Nat
      BY <1>3
    <2> HIDE DEF closing, S, m
    <2> QED  BY <2>1
  <1>6. rows' \in Seq(S)
    <2>1. rows' = Append(rows \o closing, DetailRow(r, n))
      BY <1>2 DEF Closed
    <2> HIDE DEF closing, S
    <2>2. rows \o closing \in Seq(S)
      BY <1>4, <1>5, ConcatProperties
    <2> QED  BY <1>4, <2>1, <2>2, AppendProperties
  <1>7. ASSUME NEW t \in S
        PROVE  DeepRow(t)
    <2>1. CASE t \in T
      BY <1>1, <2>1
    <2>2. CASE t \in {closing[j] : j \in 1..m}
      BY <2>2 DEF Subtotal, TallyRow, DeepRow, RowFields
    <2>3. CASE t = DetailRow(r, n)
      <3>1. Len(r.keys) = def.ndim
        BY <1>3
      <3> QED  BY <2>3, <3>1 DEF DetailRow, DeepRow, RowFields
    <2> QED  BY <2>1, <2>2, <2>3
  <1>8. \A t \in S : DeepRow(t)'
    BY <1>3, <1>7 DEF DeepRow
  <1> HIDE DEF S
  <1> QED  BY <1>6, <1>8 DEF RowsDeep

LEMMA FinishKeepsRowsDeep ==
    ASSUME GroupsFit, RowsDeep, Finish
    PROVE  RowsDeep'
  <1>1. PICK T : rows \in Seq(T) /\ \A t \in T : DeepRow(t)
    BY DEF RowsDeep
  <1>2. def' = def /\ Len(stack) \in Nat
    BY DEF Finish, GroupsFit, GroupsOpen
  <1> DEFINE C == Closed(0)
             total == TallyRow("total", <<>>, root, 1, Len(C))
             all == IF def.top THEN <<total>> \o C ELSE Append(C, total)
             m == Len(stack) - 0
             closing == [j \in 1..m |-> Subtotal(Len(stack) + 1 - j, Len(rows) + j - 1)]
             S == T \cup {closing[j] : j \in 1..m} \cup {total}
             S2 == S \cup {Shift(t) : t \in S}
  <1>3. rows' = IF C = <<>> THEN C
                ELSE IF def.top THEN [p \in DOMAIN all |-> Shift(all[p])]
                ELSE all
    BY DEF Finish
  <1>4. ASSUME NEW t \in S
        PROVE  DeepRow(t)
    <2>1. CASE t \in T
      BY <1>1, <2>1
    <2>2. CASE t \in {closing[j] : j \in 1..m}
      BY <2>2 DEF Subtotal, TallyRow, DeepRow, RowFields
    <2>3. CASE t = total
      BY <2>3 DEF TallyRow, DeepRow, RowFields
    <2> QED  BY <2>1, <2>2, <2>3
  <1>5. C \in Seq(S)
    <2>1. closing \in [1..m -> S] /\ m \in Nat
      BY <1>2
    <2>2. C = rows \o closing
      BY DEF Closed
    <2>3. rows \in Seq(S)
      BY <1>1
    <2> HIDE DEF closing, S, m, C
    <2>4. closing \in Seq(S)
      BY <2>1
    <2> QED  BY <2>2, <2>3, <2>4, ConcatProperties
  <1>6. total \in S
    OBVIOUS
  <1> HIDE DEF C, S, total
  <1>7. all \in Seq(S)
    <2>1. <<total>> \in Seq(S)
      BY <1>6
    <2>2. <<total>> \o C \in Seq(S) /\ Append(C, total) \in Seq(S)
      BY <1>5, <1>6, <2>1, ConcatProperties, AppendProperties
    <2> QED  BY <2>2
  <1> HIDE DEF all
  <1>8. rows' \in Seq(S2)
    <2>1. C \in Seq(S2) /\ all \in Seq(S2)
      BY <1>5, <1>7
    <2>2. DOMAIN all = 1..Len(all) /\ Len(all) \in Nat /\ \A p \in 1..Len(all) : all[p] \in S
      BY <1>7
    <2>3. [p \in DOMAIN all |-> Shift(all[p])] \in [1..Len(all) -> S2]
      BY <2>2
    <2> HIDE DEF S2
    <2>4. [p \in DOMAIN all |-> Shift(all[p])] \in Seq(S2)
      BY <2>2, <2>3
    <2> QED  BY <1>3, <2>1, <2>4
  <1>9. ASSUME NEW t \in S
        PROVE  DeepRow(Shift(t))
    <2>1. DeepRow(t)
      BY <1>4
    <2>2. CASE t.type = "detail"
      BY <2>1, <2>2 DEF Shift
    <2>3. CASE t.type # "detail"
      <3>1. Shift(t) = [t EXCEPT !.from = @ + 1, !.to = @ + 1]
        BY <2>3 DEF Shift
      <3>2. /\ Shift(t).type = t.type /\ Shift(t).path = t.path
            /\ DOMAIN Shift(t) = DOMAIN t
        BY <2>1, <3>1, Zenon DEF DeepRow, RowFields
      <3> QED  BY <2>1, <2>3, <3>2 DEF DeepRow
    <2> QED  BY <2>2, <2>3
  <1>10. \A t \in S2 : DeepRow(t)'
    BY <1>2, <1>4, <1>9 DEF DeepRow
  <1> HIDE DEF S2
  <1> QED  BY <1>8, <1>10 DEF RowsDeep

(* The cells that merged ranges hide.                                        *)
Hidden(M) == UNION {{<<p, m.depth>> : p \in m.from + 1..m.to} : m \in M}

(* The rows of a merged range, and those of an open span, show one value,    *)
(* and the cells that were cleared are those that merged ranges hide.        *)
ValueKept ==
    /\ phase = "feed" => spans = <<>> /\ merges = {}
    /\ blank = Hidden(merges)
    /\ \A m \in merges : \A p \in m.from..m.to : Under(rows, p, rows[m.from].path, m.depth)
    /\ \A d \in 1..Len(spans) : \A p \in spans[d]..at - 1 :
         Under(rows, p, rows[spans[d]].path, d)

LEMMA ClosedSpansKeepValue ==
    ASSUME SpansFit, ValueKept, NEW k \in 0..Len(spans), CloseSpans(k), rows' = rows
    PROVE  /\ blank' = Hidden(merges')
           /\ \A m \in merges' : \A p \in m.from..m.to :
                Under(rows', p, rows'[m.from].path, m.depth)
  <1>1. /\ Len(spans) \in Nat /\ at \in Nat /\ k \in Nat
        /\ \A d \in 1..Len(spans) : spans[d] \in Nat /\ spans[d] < at
    BY DEF SpansFit
  <1>2. merges' = merges \cup Ending(k)
    BY DEF CloseSpans, Ending
  <1>3. blank' = blank \cup
          UNION {{<<p, d>> : p \in (spans[d] + 1)..(at - 1)} : d \in (k + 1)..Len(spans)}
    BY DEF CloseSpans
  <1>4. UNION {{<<p, d>> : p \in (spans[d] + 1)..(at - 1)} : d \in (k + 1)..Len(spans)}
          = Hidden(Ending(k))
    <2>1. ASSUME NEW d \in (k + 1)..Len(spans), NEW p \in (spans[d] + 1)..(at - 1)
          PROVE  <<p, d>> \in Hidden(Ending(k))
      <3> DEFINE m == [depth |-> d, from |-> spans[d], to |-> at - 1]
      <3>1. at - 1 > spans[d]
        BY <1>1
      <3>2. m \in Ending(k)
        BY <3>1 DEF Ending
      <3>3. p \in m.from + 1..m.to /\ m.depth = d
        OBVIOUS
      <3> HIDE DEF m
      <3> QED  BY <3>2, <3>3 DEF Hidden
    <2>2. ASSUME NEW c \in Hidden(Ending(k))
          PROVE  \E d \in (k + 1)..Len(spans) : c \in {<<p, d>> : p \in (spans[d] + 1)..(at - 1)}
      <3>1. PICK m \in Ending(k) : c \in {<<p, m.depth>> : p \in m.from + 1..m.to}
        BY DEF Hidden
      <3>2. m.depth \in (k + 1)..Len(spans) /\ m.from = spans[m.depth] /\ m.to = at - 1
        BY DEF Ending
      <3> QED  BY <3>1, <3>2
    <2> QED  BY <2>1, <2>2
  <1>5. Hidden(merges') = Hidden(merges) \cup Hidden(Ending(k))
    BY <1>2 DEF Hidden
  <1>6. ASSUME NEW m \in Ending(k), NEW p \in m.from..m.to
        PROVE  Under(rows, p, rows[m.from].path, m.depth)
    <2>1. m.depth \in (k + 1)..Len(spans) /\ m.from = spans[m.depth] /\ m.to = at - 1
      BY DEF Ending
    <2>2. m.depth \in 1..Len(spans)
      BY <1>1, <2>1
    <2> QED  BY <2>1, <2>2 DEF ValueKept
  <1>7. ASSUME NEW m \in merges', NEW p \in m.from..m.to
        PROVE  Under(rows', p, rows'[m.from].path, m.depth)
    <2>1. CASE m \in merges
      <3>1. Under(rows, p, rows[m.from].path, m.depth)
        BY <2>1 DEF ValueKept
      <3> QED  BY <3>1 DEF Under
    <2>2. CASE m \in Ending(k)
      <3>1. Under(rows, p, rows[m.from].path, m.depth)
        BY <2>2, <1>6
      <3> QED  BY <3>1 DEF Under
    <2> QED  BY <1>2, <2>1, <2>2
  <1>8. blank = Hidden(merges)
    BY DEF ValueKept
  <1>9. blank' = Hidden(merges')
    BY <1>3, <1>4, <1>5, <1>8
  <1> QED  BY <1>7, <1>9

(* The spans that the current row leaves open. *)
LEMMA SpansAfterRow ==
    ASSUME SpansFit, PositionRow
    PROVE  \E k \in 0..Len(spans) :
             /\ Continued(rows[at], k)
             /\ CloseSpans(k)
             /\ Len(spans') \in Nat /\ k <= Len(spans')
             /\ \A d \in 1..Len(spans') : spans'[d] = IF d <= k THEN spans[d] ELSE at
             /\ \A d \in (k + 1)..Len(spans') : rows[at].type = "detail" /\ d <= def.ndim
             /\ rows[at].type = "detail" => def.ndim <= Len(spans')
             /\ first' = first \cup {<<at, d>> : d \in (k + 1)..Len(spans')}
  <1>1. PICK k \in 0..Len(spans) :
          LET opening == IF rows[at].type = "detail" THEN def.ndim - k ELSE 0
          IN /\ Continued(rows[at], k)
             /\ CloseSpans(k)
             /\ spans' = SubSeq(spans, 1, k) \o [j \in 1..opening |-> at]
             /\ first' = first \cup {<<at, k + j>> : j \in 1..opening}
    BY DEF PositionRow
  <1>2. /\ Len(spans) \in Nat /\ at \in Nat /\ k \in Nat /\ k <= Len(spans)
        /\ def.ndim \in Nat
    BY DEF SpansFit
  <1> DEFINE opening == IF rows[at].type = "detail" THEN def.ndim - k ELSE 0
             kept == SubSeq(spans, 1, k)
             opened == [j \in 1..opening |-> at]
  <1>3. spans' = kept \o opened /\ first' = first \cup {<<at, k + j>> : j \in 1..opening}
    BY <1>1
  <1>4. kept \in Seq(Nat) /\ Len(kept) = k /\ \A d \in 1..k : kept[d] = spans[d]
    BY DEF SpansFit
  <1>5. opening \in Int /\ opened \in Seq(Nat)
        /\ Len(opened) = IF opening < 0 THEN 0 ELSE opening
    <2>1. opening \in Int
      BY <1>2
    <2> DEFINE n == IF opening < 0 THEN 0 ELSE opening
    <2> HIDE DEF opening
    <2>2. 1..opening = 1..n /\ n \in Nat
      BY <2>1
    <2>3. opened = [j \in 1..n |-> at]
      BY <2>2
    <2> HIDE DEF n, opened
    <2>4. opened \in Seq(Nat) /\ Len(opened) = n
      BY <1>2, <2>2, <2>3
    <2> QED  BY <2>1, <2>4 DEF n
  <1> HIDE DEF kept, opened, opening
  <1>6. /\ Len(spans') = Len(kept) + Len(opened)
        /\ \A e \in 1..Len(kept) + Len(opened) :
             spans'[e] = IF e <= Len(kept) THEN kept[e] ELSE opened[e - Len(kept)]
    BY <1>3, <1>4, <1>5, ConcatProperties
  <1>7. ASSUME NEW d \in 1..Len(spans')
        PROVE  spans'[d] = IF d <= k THEN spans[d] ELSE at
    <2>1. CASE d <= k
      BY <1>2, <1>4, <1>6, <2>1
    <2>2. CASE ~(d <= k)
      <3>1. d - k \in 1..opening /\ spans'[d] = opened[d - k]
        BY <1>2, <1>4, <1>5, <1>6, <2>2
      <3> QED  BY <2>2, <3>1 DEF opened
    <2> QED  BY <2>1, <2>2
  <1>8. ASSUME NEW d \in (k + 1)..Len(spans')
        PROVE  rows[at].type = "detail" /\ d <= def.ndim
    <2>1. opening >= d - k /\ opening > 0
      BY <1>2, <1>4, <1>5, <1>6
    <2> QED  BY <1>2, <2>1 DEF opening
  <1>9. rows[at].type = "detail" => def.ndim <= Len(spans')
    BY <1>2, <1>4, <1>5, <1>6 DEF opening
  <1>10. {<<at, k + j>> : j \in 1..opening} = {<<at, d>> : d \in (k + 1)..Len(spans')}
    <2>1. ASSUME NEW j \in 1..opening
          PROVE  k + j \in (k + 1)..Len(spans')
      BY <1>2, <1>4, <1>5, <1>6
    <2>2. ASSUME NEW d \in (k + 1)..Len(spans')
          PROVE  d - k \in 1..opening /\ k + (d - k) = d
      BY <1>2, <1>4, <1>5, <1>6
    <2> QED  BY <2>1, <2>2
  <1>11. Len(spans') \in Nat /\ k <= Len(spans')
    BY <1>2, <1>4, <1>5, <1>6
  <1> QED  BY <1>1, <1>3, <1>7, <1>8, <1>9, <1>10, <1>11

LEMMA PositionRowKeepsValue ==
    ASSUME SpansFit, ValueKept, RowsDeep, PositionRow
    PROVE  ValueKept'
  <1>1. PICK k \in 0..Len(spans) :
          /\ Continued(rows[at], k)
          /\ CloseSpans(k)
          /\ Len(spans') \in Nat
          /\ \A d \in 1..Len(spans') : spans'[d] = IF d <= k THEN spans[d] ELSE at
          /\ \A d \in (k + 1)..Len(spans') : rows[at].type = "detail" /\ d <= def.ndim
    BY SpansAfterRow
  <1>2. /\ at' = at + 1 /\ rows' = rows /\ phase' = phase /\ phase # "feed"
        /\ at <= Len(rows)
    BY DEF PositionRow, groupVars
  <1>3. /\ Len(spans) \in Nat /\ at \in Nat /\ k \in Nat /\ k <= Len(spans)
        /\ \A d \in 1..Len(spans) : spans[d] \in Nat /\ spans[d] < at
        /\ \A d, e \in 1..Len(spans) : d < e => spans[d] <= spans[e]
    BY DEF SpansFit
  <1>4. /\ blank' = Hidden(merges')
        /\ \A m \in merges' : \A p \in m.from..m.to :
             Under(rows', p, rows'[m.from].path, m.depth)
    BY <1>1, <1>2, ClosedSpansKeepValue
  <1>5. \A d \in 1..Len(spans') : spans'[d] = IF d <= k THEN spans[d] ELSE at
    BY <1>1
  <1>6. \A d \in 1..Len(spans') : ~(d <= k) => rows[at].type = "detail" /\ d <= def.ndim
    BY <1>1, <1>3
  (* The current row shows the value of every span that it continues. *)
  <1>7. ASSUME NEW d \in 1..k
         PROVE  Under(rows, at, rows[spans[d]].path, d)
    <2>1. d \in 1..Len(spans) /\ \A e \in 1..d : e \in 1..k /\ e \in 1..Len(spans)
      BY <1>3
    <2>2. d <= Len(rows[at].path)
      BY <1>1 DEF Continued, Continues
    <2>3. ASSUME NEW e \in 1..d
          PROVE  rows[at].path[e] = rows[spans[d]].path[e]
      <3>1. rows[spans[e]].path[e] = rows[at].path[e]
        BY <1>1, <2>1 DEF Continued, Continues
      <3>2. spans[d] \in spans[e]..at - 1
        <4>1. spans[e] <= spans[d] /\ spans[e] \in Nat /\ spans[d] \in Nat /\ spans[d] < at
          BY <1>3, <2>1
        <4> QED  BY <4>1, <1>3
      <3>3. Under(rows, spans[d], rows[spans[e]].path, e)
        BY <2>1, <3>2 DEF ValueKept
      <3>4. e \in 1..e
        OBVIOUS
      <3> QED  BY <3>1, <3>3, <3>4 DEF Under
    <2> QED  BY <2>1, <2>2, <2>3 DEF Under
  <1>8. ASSUME NEW d \in 1..Len(spans'), NEW p \in spans'[d]..at' - 1
         PROVE  Under(rows', p, rows'[spans'[d]].path, d)
    <2>1. CASE d <= k
      <3>1. d \in 1..k /\ d \in 1..Len(spans) /\ spans'[d] = spans[d]
        BY <1>3, <1>5, <2>1
      <3>2. p \in spans[d]..at - 1 \/ p = at
        BY <1>2, <1>3, <3>1
      <3>3. Under(rows, p, rows[spans[d]].path, d)
        BY <1>7, <3>1, <3>2 DEF ValueKept
      <3> QED  BY <1>2, <3>1, <3>3 DEF Under
    <2>2. CASE ~(d <= k)
      <3>1. spans'[d] = at /\ rows[at].type = "detail" /\ d <= def.ndim
        BY <1>5, <1>6, <2>2
      <3>2. p = at
        BY <1>2, <1>3, <3>1
      <3>3. Len(rows[at].path) = def.ndim
        <4>1. PICK T : rows \in Seq(T) /\ \A t \in T : DeepRow(t)
          BY DEF RowsDeep
        <4>2. at # 0
          BY DEF SpansFit
        <4>3. rows[at] \in T
          BY <1>2, <1>3, <4>1, <4>2
        <4> QED  BY <3>1, <4>1, <4>3 DEF DeepRow
      <3>4. d <= Len(rows[at].path)
        BY <3>1, <3>3
      <3> QED  BY <1>2, <3>1, <3>2, <3>4 DEF Under
    <2> QED  BY <2>1, <2>2
  <1> QED  BY <1>2, <1>4, <1>8 DEF ValueKept

LEMMA PositionEndKeepsValue ==
    ASSUME SpansFit, ValueKept, PositionEnd
    PROVE  ValueKept'
  <1>1. CloseSpans(0) /\ spans' = <<>> /\ rows' = rows /\ phase' # "feed"
    BY DEF PositionEnd, groupVars
  <1>2. 0 \in 0..Len(spans)
    BY DEF SpansFit
  <1> QED  BY <1>1, <1>2, ClosedSpansKeepValue DEF ValueKept

LEMMA KeptIsShown ==
    SpansFit /\ ValueKept => MergeKeepsValue
  <1> SUFFICES ASSUME SpansFit, ValueKept
               PROVE  MergeKeepsValue
    OBVIOUS
  <1>1. blank = UNION {{<<p, m.depth>> : p \in m.from + 1..m.to} : m \in merges}
    BY DEF ValueKept, Hidden
  <1>2. ASSUME NEW m \in merges, NEW p \in DOMAIN rows, p \in MergedLines(m)
        PROVE  SamePath(p, m.from, m.depth)
    <2>1. m.from \in Nat /\ m.to \in Nat
      BY DEF SpansFit
    <2>2. p \in m.from..m.to /\ m.from \in m.from..m.to
      BY <1>2, <2>1 DEF MergedLines
    <2>3. /\ Under(rows, p, rows[m.from].path, m.depth)
          /\ Under(rows, m.from, rows[m.from].path, m.depth)
      BY <2>2 DEF ValueKept
    <2> QED  BY <2>3 DEF Under, SamePath, Level
  <1> QED  BY <1>1, <1>2 DEF MergeKeepsValue
-----------------------------------------------------------------------------
(* The numbers of the rows.                                                  *)

(* A row continues the numbering of the row above it, if that is a row of    *)
(* the same innermost group, and starts it otherwise.                        *)
Numbered(R) ==
    \A p \in Details(R) :
       /\ R[p].path \in [1..def.ndim -> Keys]
       /\ R[p].seq = IF p - 1 \in Details(R) /\ R[p - 1].path = R[p].path
                     THEN R[p - 1].seq + 1 ELSE 1

(* The row below a subtotal belongs to another group. *)
GroupsEnd(R) ==
    \A t \in 1..(Len(R) - 1) :
       IsSubtotal(R, t) => ~Under(R, t + 1, R[t].path, Len(R[t].path))

NumbersFit ==
    /\ Numbered(rows)
    /\ GroupsEnd(rows)
    /\ phase = "feed" /\ Len(rows) > 0 =>
         /\ Len(rows) \in Details(rows)
         /\ seq = rows[Len(rows)].seq
         /\ def.ndim = 0 => seq = Len(rows)

LEMMA AppendKeepsNumbers ==
    ASSUME NEW R, Len(R) \in Nat, Numbered(R), GroupsEnd(R),
           NEW R2, Len(R2) = Len(R) + 1, \A q \in 1..Len(R) : R2[q] = R[q],
           R2[Len(R) + 1].type = "detail" =>
             /\ R2[Len(R) + 1].path \in [1..def.ndim -> Keys]
             /\ R2[Len(R) + 1].seq =
                  IF Len(R) \in Details(R) /\ R[Len(R)].path = R2[Len(R) + 1].path
                  THEN R[Len(R)].seq + 1 ELSE 1,
           Len(R) > 0 /\ IsSubtotal(R, Len(R)) =>
             ~Under(R2, Len(R) + 1, R[Len(R)].path, Len(R[Len(R)].path))
    PROVE  Numbered(R2) /\ GroupsEnd(R2)
  <1> DEFINE L == Len(R)
  <1>1. L \in Nat /\ Len(R2) = L + 1 /\ \A q \in 1..L : R2[q] = R[q]
    OBVIOUS
  <1> HIDE DEF L
  <1>2. ASSUME NEW p, p # L + 1
        PROVE  p \in Details(R2) <=> p \in Details(R)
    <2>1. p \in 1..(L + 1) <=> p \in 1..L
      BY <1>1, <1>2
    <2>2. p \in 1..L => R2[p] = R[p]
      BY <1>1
    <2> QED  BY <1>1, <2>1, <2>2 DEF Details, L
  <1>3. ASSUME NEW p \in Details(R2)
        PROVE  /\ R2[p].path \in [1..def.ndim -> Keys]
               /\ R2[p].seq = IF p - 1 \in Details(R2) /\ R2[p - 1].path = R2[p].path
                              THEN R2[p - 1].seq + 1 ELSE 1
    <2>1. CASE p = L + 1
      <3>1. p - 1 = L /\ L # L + 1 /\ R2[L + 1].type = "detail"
        BY <1>1, <1>3, <2>1 DEF Details
      <3>2. L \in Details(R2) <=> L \in Details(R)
        BY <1>2, <3>1
      <3>3. L \in Details(R) => R2[L] = R[L]
        BY <1>1 DEF Details, L
      <3> QED  BY <2>1, <3>1, <3>2, <3>3 DEF L
    <2>2. CASE p # L + 1
      <3>1. p \in Details(R) /\ p \in 1..L
        BY <1>2, <1>3, <2>2 DEF Details, L
      <3>2. p - 1 # L + 1 /\ (p - 1 \in Details(R) => p - 1 \in 1..L)
        BY <1>1, <3>1 DEF Details, L
      <3>3. p - 1 \in Details(R2) <=> p - 1 \in Details(R)
        BY <1>2, <3>2
      <3> QED  BY <1>1, <3>1, <3>2, <3>3 DEF Numbered
    <2> QED  BY <2>1, <2>2
  <1>4. ASSUME NEW t \in 1..(Len(R2) - 1), IsSubtotal(R2, t)
        PROVE  ~Under(R2, t + 1, R2[t].path, Len(R2[t].path))
    <2>1. t \in 1..L /\ R2[t] = R[t] /\ IsSubtotal(R, t)
      BY <1>1, <1>4 DEF IsSubtotal
    <2>2. CASE t = L
      <3>1. L > 0
        BY <1>1, <2>1
      <3> QED  BY <2>1, <2>2, <3>1 DEF L
    <2>3. CASE t # L
      <3>1. t \in 1..(L - 1) /\ t + 1 \in 1..L
        BY <1>1, <2>1, <2>3
      <3>2. ~Under(R, t + 1, R[t].path, Len(R[t].path))
        BY <2>1, <3>1 DEF GroupsEnd, L
      <3> QED  BY <1>1, <2>1, <3>1, <3>2 DEF Under
    <2> QED  BY <2>2, <2>3
  <1> QED  BY <1>3, <1>4 DEF Numbered, GroupsEnd

LEMMA ClosedKeepsNumbers ==
    ASSUME GroupsFit, GroupsOpen, TotalsFit, NumbersFit, phase = "feed",
           NEW k \in 0..Len(stack)
    PROVE  Numbered(Closed(k)) /\ GroupsEnd(Closed(k))
  <1> DEFINE L == Len(rows)
             n == Len(stack) - k
             C == Closed(k)
  <1>1. L \in Nat /\ Len(stack) \in Nat /\ n \in Nat /\ k \in Nat /\ k <= Len(stack)
        /\ n + k = Len(stack)
    BY DEF GroupsFit, GroupsOpen
  <1>2. /\ Len(C) = L + n
        /\ \A q \in 1..L : C[q] = rows[q]
        /\ \A j \in 1..n :
             /\ RowFields \subseteq DOMAIN C[L + j]
             /\ C[L + j].type = "subtotal"
             /\ C[L + j].path = OpenPath(Len(stack) + 1 - j)
             /\ C[L + j].from = stack[Len(stack) + 1 - j].start
             /\ C[L + j].to = L + j - 1
    BY ClosedRows DEF ClosedTo
  <1>3. Details(C) = Details(rows)
    BY ClosedTotals
  <1> HIDE DEF C, L, n
  <1>4. Numbered(C)
    <2> SUFFICES ASSUME NEW p \in Details(rows)
                 PROVE  /\ C[p].path \in [1..def.ndim -> Keys]
                        /\ C[p].seq = IF p - 1 \in Details(rows) /\ C[p - 1].path = C[p].path
                                      THEN C[p - 1].seq + 1 ELSE 1
      BY <1>3 DEF Numbered
    <2>1. p \in 1..L /\ (p - 1 \in Details(rows) => p - 1 \in 1..L)
      BY DEF Details, L
    <2> QED  BY <1>2, <2>1 DEF NumbersFit, Numbered
  <1>5. ASSUME NEW t \in 1..(Len(C) - 1), IsSubtotal(C, t)
        PROVE  ~Under(C, t + 1, C[t].path, Len(C[t].path))
    <2>1. t \in 1..(L + n - 1)
      BY <1>1, <1>2
    <2>2. CASE t < L
      <3>1. t \in 1..(L - 1) /\ t \in 1..L /\ t + 1 \in 1..L
        BY <1>1, <2>1, <2>2
      <3>2. C[t] = rows[t] /\ C[t + 1] = rows[t + 1]
        BY <1>2, <3>1
      <3>3. ~Under(rows, t + 1, rows[t].path, Len(rows[t].path))
        BY <1>5, <3>1, <3>2 DEF NumbersFit, GroupsEnd, IsSubtotal, L
      <3> QED  BY <3>2, <3>3 DEF Under
    <2>3. CASE t = L
      <3>1. L > 0 /\ t \in 1..L
        BY <2>1, <2>3
      <3>2. rows[t].type = "detail" /\ C[t] = rows[t]
        BY <1>2, <2>3, <3>1 DEF NumbersFit, Details, L
      <3> QED  BY <1>5, <3>2 DEF IsSubtotal
    <2>4. CASE t > L
      <3> DEFINE j == t - L
                 d == Len(stack) + 1 - j
      <3>1. /\ j \in 1..n /\ j + 1 \in 1..n /\ t = L + j /\ t + 1 = L + (j + 1)
            /\ d \in 1..Len(stack) /\ d - 1 \in Nat /\ Len(stack) + 1 - (j + 1) = d - 1
        BY <1>1, <2>1, <2>4
      <3> HIDE DEF j, d
      <3>2. C[t].path = OpenPath(Len(stack) + 1 - j) /\ C[t + 1].path = OpenPath(d - 1)
        BY <1>2, <3>1
      <3>3. C[t].path = OpenPath(d)
        BY <3>2 DEF d
      <3>4. Len(OpenPath(d)) = d /\ Len(OpenPath(d - 1)) = d - 1 /\ d \in Nat
        BY <3>1 DEF OpenPath
      <3> QED  BY <3>2, <3>3, <3>4 DEF Under
    <2> QED  BY <1>1, <2>1, <2>2, <2>3, <2>4
  <1> QED  BY <1>4, <1>5 DEF GroupsEnd, C

LEMMA FeedKeepsNumbers ==
    ASSUME GroupsFit, TotalsFit, NumbersFit,
           NEW r, r.keys \in [1..def.ndim -> Keys], Feed(r)
    PROVE  NumbersFit'
  <1> DEFINE D == def.ndim
  <1>1. /\ GroupsOpen /\ phase = "feed" /\ def' = def /\ D \in Nat
        /\ Len(stack) \in Nat /\ (Len(stack) = D \/ (stack = <<>> /\ rows = <<>>))
        /\ Len(rows) \in Nat
    BY DEF Feed, GroupsFit, GroupsOpen
  <1>2. PICK k \in 0..Len(stack) : FedTo(r, k)
    BY FedRows
  <1> DEFINE C == Closed(k)
             L == Len(C)
  <1>3. /\ Numbered(C) /\ GroupsEnd(C)
        /\ Details(C) = Details(rows)
        /\ L = Len(rows) + (Len(stack) - k)
        /\ \A q \in 1..Len(rows) : C[q] = rows[q]
        /\ Len(stack) > k => IsSubtotal(C, L)
        /\ Len(stack) > k => C[L].path = OpenPath(k + 1)
    <2>1. /\ Numbered(C) /\ GroupsEnd(C) /\ Details(C) = Details(rows)
          /\ L = Len(rows) + (Len(stack) - k)
          /\ Len(stack) > k => IsSubtotal(C, L)
      BY <1>1, ClosedKeepsNumbers, ClosedTotals, ClosedIsLawful
    <2>2. /\ \A q \in 1..Len(rows) : C[q] = rows[q]
          /\ \A j \in 1..(Len(stack) - k) :
               C[Len(rows) + j].path = OpenPath(Len(stack) + 1 - j)
      BY <1>1, ClosedRows DEF ClosedTo
    <2> HIDE DEF C, L
    <2>3. ASSUME Len(stack) > k
          PROVE  C[L].path = OpenPath(k + 1)
      <3> DEFINE j == Len(stack) - k
      <3>1. j \in 1..(Len(stack) - k) /\ Len(stack) + 1 - j = k + 1
        BY <1>1, <2>3
      <3> HIDE DEF j
      <3>2. C[Len(rows) + j].path = OpenPath(Len(stack) + 1 - j)
        BY <2>2, <3>1
      <3>3. L = Len(rows) + j
        BY <2>1 DEF j
      <3> QED  BY <3>1, <3>2, <3>3
    <2> QED  BY <2>1, <2>2, <2>3
  <1>4. /\ Len(rows') = L + 1
        /\ \A q \in 1..L : rows'[q] = C[q]
        /\ rows'[L + 1].type = "detail" /\ rows'[L + 1].path = r.keys
        /\ rows'[L + 1].seq = FedSeq(k)
        /\ seq' = FedSeq(k)
        /\ k \in Nat /\ k <= D /\ k <= Len(stack)
        /\ \A d \in 1..k : stack[d].key = r.keys[d]
        /\ k < Len(stack) => stack[k + 1].key # r.keys[k + 1]
    BY <1>1, <1>2 DEF FedTo, DetailRow, Shared, Shares
  <1> HIDE DEF C, L
  <1>5. L \in Nat
    BY <1>1, <1>3, <1>4
  <1>6. FedSeq(k) = IF L \in Details(C) /\ C[L].path = r.keys THEN C[L].seq + 1 ELSE 1
    <2>1. CASE Len(stack) > k
      <3>1. L \notin Details(C)
        BY <1>3, <2>1 DEF Details, IsSubtotal
      <3>2. k < D /\ D # 0
        <4>1. stack # <<>>
          <5>1. stack = <<>> => Len(stack) = 0
            OBVIOUS
          <5> QED  BY <1>4, <2>1, <5>1
        <4> QED  BY <1>1, <1>4, <2>1, <4>1
      <3> QED  BY <3>1, <3>2 DEF FedSeq
    <2>2. CASE Len(stack) = k /\ Len(rows) = 0
      <3>1. L = 0 /\ L \notin Details(C)
        BY <1>3, <1>4, <2>2 DEF Details
      <3>2. CASE D = 0
        BY <2>2, <3>1, <3>2 DEF FedSeq
      <3>3. CASE D # 0
        <4>1. SUFFICES ASSUME k = D
                       PROVE  FALSE
          BY <1>1, <1>4, <3>1, <3>3 DEF FedSeq
        <4>2. D \in 1..Len(stack)
          BY <1>1, <2>2, <3>3, <4>1
        <4>3. stack[D].start \in 1..Len(rows)
          BY <1>1, <4>2 DEF GroupsOpen, IsGroup
        <4> QED  BY <2>2, <4>3
      <3> QED  BY <3>2, <3>3
    <2>3. CASE Len(stack) = k /\ Len(rows) > 0
      <3>1. L = Len(rows) /\ L \in Details(C) /\ C[L] = rows[L]
            /\ seq = rows[L].seq /\ (D = 0 => seq = L)
        <4>1. L = Len(rows)
          BY <1>1, <1>3, <1>4, <2>3
        <4>2. L \in 1..Len(rows)
          BY <1>5, <2>3, <4>1
        <4> QED  BY <1>1, <1>3, <2>3, <4>1, <4>2 DEF NumbersFit
      <3>2. k = D
        <4>1. rows = <<>> => Len(rows) = 0
          OBVIOUS
        <4> QED  BY <1>1, <2>3, <4>1
      <3>3. rows[L].path = r.keys
        <4>1. rows[L].path \in [1..D -> Keys]
          BY <1>3, <3>1 DEF NumbersFit, Numbered
        <4>2. ASSUME NEW e \in 1..D
              PROVE  rows[L].path[e] = r.keys[e]
          <5>1. D \in 1..Len(stack) /\ e \in 1..k
            BY <1>1, <2>3, <3>2
          <5>2. IsGroup(rows, stack[D].start, L, OpenPath(D), D)
            BY <1>1, <3>1, <5>1 DEF GroupsOpen
          <5>3. L \in stack[D].start..L
            BY <1>5, <5>2 DEF IsGroup
          <5>4. rows[L].path[e] = OpenPath(D)[e]
            BY <5>2, <5>3 DEF IsGroup, Under
          <5> QED  BY <1>4, <5>1, <5>4 DEF OpenPath
        <4>3. r.keys \in [1..D -> Keys]
          OBVIOUS
        <4> HIDE DEF D
        <4>4. rows[L].path = [e \in 1..D |-> r.keys[e]]
          BY <4>1, <4>2
        <4> QED  BY <4>3, <4>4
      <3> QED  BY <3>1, <3>2, <3>3 DEF FedSeq
    <2> QED  BY <1>1, <1>4, <2>1, <2>2, <2>3
  <1>7. ASSUME L > 0, IsSubtotal(C, L)
        PROVE  ~Under(rows', L + 1, C[L].path, Len(C[L].path))
    <2>1. Len(stack) > k
      <3> SUFFICES ASSUME Len(stack) = k
                   PROVE  FALSE
        BY <1>1, <1>4
      <3>1. L = Len(rows) /\ L \in Details(C)
        BY <1>1, <1>3, <1>4, <1>7 DEF NumbersFit
      <3> QED  BY <1>7, <3>1 DEF Details, IsSubtotal
    <2>2. C[L].path = OpenPath(k + 1) /\ Len(OpenPath(k + 1)) = k + 1
          /\ OpenPath(k + 1)[k + 1] = stack[k + 1].key
      BY <1>3, <1>4, <2>1 DEF OpenPath
    <2>3. rows'[L + 1].path[k + 1] # C[L].path[k + 1] /\ k + 1 \in 1..(k + 1)
      BY <1>4, <2>1, <2>2
    <2> QED  BY <2>2, <2>3 DEF Under
  <1>8. Numbered(rows') /\ GroupsEnd(rows')
    BY <1>3, <1>4, <1>5, <1>6, <1>7, AppendKeepsNumbers DEF L
  <1>9. L + 1 \in Details(rows')
    BY <1>4, <1>5 DEF Details
  <1>10. D = 0 => seq' = L + 1
    <2>1. stack = <<>> => Len(stack) = 0
      OBVIOUS
    <2> QED  BY <1>1, <1>3, <1>4, <2>1 DEF FedSeq
  <1>11. Numbered(rows)'
    BY <1>1, <1>8 DEF Numbered
  <1> QED  BY <1>1, <1>4, <1>8, <1>9, <1>10, <1>11 DEF NumbersFit, GroupsEnd

LEMMA FinishKeepsNumbers ==
    ASSUME GroupsFit, TotalsFit, NumbersFit, Finish
    PROVE  NumbersFit'
  <1> DEFINE C == Closed(0)
             L == Len(C)
             total == TallyRow("total", <<>>, root, 1, L)
  <1>1. /\ GroupsOpen /\ phase = "feed" /\ phase' = "position" /\ def' = def
    BY DEF Finish, GroupsFit
  <1>2. /\ Lawful(C) /\ L \in Nat
        /\ \/ C = <<>> /\ rows' = C
           \/ FinishedBelow(C, total)
           \/ FinishedAbove(C, total)
    BY FinishedRows
  <1>3. Numbered(C) /\ GroupsEnd(C)
    <2>1. 0 \in 0..Len(stack)
      BY <1>1 DEF GroupsOpen
    <2> QED  BY <1>1, <2>1, ClosedKeepsNumbers
  <1>4. /\ total.type = "total" /\ total.path = <<>>
        /\ Shift(total).type = "total" /\ Shift(total).path = <<>>
    BY DEF TallyRow, Shift
  <1>5. \A t \in 1..L : IsSubtotal(C, t) => Len(C[t].path) \in Nat \ {0}
    BY <1>2 DEF Lawful, Covers1
  <1> HIDE DEF C, L, total
  <1>6. SUFFICES Numbered(rows') /\ GroupsEnd(rows')
    BY <1>1 DEF NumbersFit, Numbered, GroupsEnd
  <1>7. CASE FinishedBelow(C, total)
    <2>1. /\ Len(rows') = L + 1
          /\ \A q \in 1..L : rows'[q] = C[q]
          /\ rows'[L + 1] = total
      BY <1>7 DEF FinishedBelow, L
    <2>2. rows'[L + 1].type # "detail" /\ Len(rows'[L + 1].path) = 0
      BY <1>4, <2>1
    <2>3. L > 0 /\ IsSubtotal(C, L) => ~Under(rows', L + 1, C[L].path, Len(C[L].path))
      BY <1>2, <1>5, <2>2 DEF Under
    <2> QED  BY <1>2, <1>3, <2>1, <2>2, <2>3, AppendKeepsNumbers DEF L
  <1>8. CASE FinishedAbove(C, total)
    <2>1. /\ Len(rows') = L + 1 /\ rows'[1] = Shift(total)
          /\ \A q \in 1..L : rows'[q + 1] = Shift(C[q])
      BY <1>8 DEF FinishedAbove, L
    <2>2. ASSUME NEW q \in 1..L
          PROVE  /\ rows'[q + 1].type = C[q].type /\ rows'[q + 1].path = C[q].path
                 /\ C[q].type = "detail" => rows'[q + 1] = C[q]
      <3>1. RowFields \subseteq DOMAIN C[q]
        BY <1>2 DEF Lawful, L
      <3> QED  BY <2>1, <3>1, ShiftedRow
    <2>3. rows'[1].type = "total"
      BY <1>4, <2>1
    <2>4. ASSUME NEW p \in Details(rows')
          PROVE  p - 1 \in Details(C) /\ rows'[p] = C[p - 1]
      <3>1. p # 1 /\ p \in 1..(L + 1) /\ rows'[p].type = "detail"
        BY <2>1, <2>3 DEF Details
      <3>2. p - 1 \in 1..L /\ (p - 1) + 1 = p
        BY <1>2, <3>1
      <3> QED  BY <2>2, <3>1, <3>2 DEF Details, L
    <2>5. ASSUME NEW q \in Details(C)
          PROVE  q + 1 \in Details(rows') /\ rows'[q + 1] = C[q]
      <3>1. q \in 1..L /\ C[q].type = "detail" /\ q + 1 \in 1..(L + 1)
        BY <1>2 DEF Details, L
      <3> QED  BY <2>1, <2>2, <3>1 DEF Details
    <2>6. ASSUME NEW p \in Details(rows')
          PROVE  /\ rows'[p].path \in [1..def.ndim -> Keys]
                 /\ rows'[p].seq = IF p - 1 \in Details(rows') /\ rows'[p - 1].path = rows'[p].path
                                   THEN rows'[p - 1].seq + 1 ELSE 1
      <3> DEFINE q == p - 1
      <3>1. q \in Details(C) /\ rows'[p] = C[q]
        BY <2>4
      <3>2. p \in Int
        BY DEF Details
      <3>3. q \in Details(rows') <=> q - 1 \in Details(C)
        <4>1. ASSUME q - 1 \in Details(C)
              PROVE  q \in Details(rows')
          <5>1. (q - 1) + 1 = q
            BY <3>2
          <5> QED  BY <2>5, <4>1, <5>1
        <4> QED  BY <2>4, <4>1
      <3>4. q \in Details(rows') => rows'[q] = C[q - 1]
        BY <2>4
      <3> HIDE DEF q
      <3>5. /\ C[q].path \in [1..def.ndim -> Keys]
            /\ C[q].seq = IF q - 1 \in Details(C) /\ C[q - 1].path = C[q].path
                          THEN C[q - 1].seq + 1 ELSE 1
        BY <1>3, <3>1 DEF Numbered
      <3> QED  BY <3>1, <3>3, <3>4, <3>5 DEF q
    <2>7. ASSUME NEW t \in 1..(Len(rows') - 1), IsSubtotal(rows', t)
          PROVE  ~Under(rows', t + 1, rows'[t].path, Len(rows'[t].path))
      <3> DEFINE q == t - 1
      <3>1. t # 1
        BY <2>3, <2>7 DEF IsSubtotal
      <3>2. q \in 1..L /\ q + 1 = t /\ q + 1 \in 1..L /\ q \in 1..(L - 1) /\ (q + 1) + 1 = t + 1
        BY <1>2, <2>1, <3>1
      <3> HIDE DEF q
      <3>3. /\ rows'[t].type = C[q].type /\ rows'[t].path = C[q].path
            /\ rows'[t + 1].path = C[q + 1].path
        BY <2>2, <3>2
      <3>4. ~Under(C, q + 1, C[q].path, Len(C[q].path))
        BY <1>3, <2>7, <3>2, <3>3 DEF GroupsEnd, IsSubtotal, L
      <3> QED  BY <3>3, <3>4 DEF Under
    <2> QED  BY <2>6, <2>7 DEF Numbered, GroupsEnd
  <1> QED  BY <1>2, <1>3, <1>7, <1>8
-----------------------------------------------------------------------------
(* The edges of groups.                                                      *)

(* Row t is a subtotal of depth d. *)
Closes(t, d) == t \in 1..Len(rows) /\ IsSubtotal(rows, t) /\ Len(rows[t].path) = d

(* The first and last rows, with their depths, of the groups whose subtotal  *)
(* is in T.                                                                  *)
Firsts(T) == {<<rows[t].from, Level(t)>> : t \in T}
Lasts(T) == {<<t, Level(t)>> : t \in T}

(* The open spans are the groups whose first row the pass has seen and whose *)
(* subtotal it has not left; the edges so far are those of the groups that   *)
(* it has entered and left.                                                  *)
EdgesFit ==
    /\ phase = "feed" => spans = <<>> /\ first = {} /\ last = {} /\ at = 1
    /\ phase = "position" =>
         /\ at <= Len(rows) + 1
         /\ \A d \in 1..Len(spans) :
              \E t : Closes(t, d) /\ rows[t].from = spans[d] /\ at - 1 <= t
         /\ \A t, d : Closes(t, d) /\ rows[t].from < at /\ at - 1 <= t =>
              d \in 1..Len(spans) /\ spans[d] = rows[t].from
         /\ first = Firsts({t \in SubtotalRows : rows[t].from < at})
         /\ last = Lasts({t \in SubtotalRows : t < at - 1})
    /\ phase \in {"assembly", "done"} =>
         first = Firsts(SubtotalRows) /\ last = Lasts(SubtotalRows)

(* What is known of a subtotal. *)
LEMMA SubtotalIsLawful ==
    ASSUME GroupsFit, NEW t, NEW d, Closes(t, d)
    PROVE  /\ t \in 1..Len(rows) /\ t \in Nat /\ d \in Nat \ {0}
           /\ IsGroup(rows, rows[t].from, t - 1, rows[t].path, d)
           /\ rows[t].from \in 1..(t - 1)
           /\ rows[t].to = t - 1
  <1>1. t \in 1..Len(rows) /\ IsSubtotal(rows, t) /\ Len(rows[t].path) = d
    BY DEF Closes
  <1>2. Covers1(rows, t)
    BY <1>1 DEF GroupsFit, Lawful
  <1> QED  BY <1>1, <1>2 DEF Covers1, IsGroup

(* Two subtotals of one depth that cover one row are the same. *)
LEMMA SameSubtotal ==
    ASSUME GroupsFit, NEW t, NEW u, NEW d, NEW p, Closes(t, d), Closes(u, d),
           p \in rows[t].from..(t - 1), p \in rows[u].from..(u - 1)
    PROVE  t = u
  <1>1. /\ t \in 1..Len(rows) /\ t \in Nat /\ rows[t].to = t - 1
        /\ u \in 1..Len(rows) /\ u \in Nat /\ rows[u].to = u - 1
    BY SubtotalIsLawful
  <1>2. ~(t < u) /\ ~(u < t)
    BY <1>1, OneSubtotalPerDepth DEF Closes
  <1> QED  BY <1>1, <1>2

(* An open span goes on through its subtotal, and ends there. *)
LEMMA SpanGoesOn ==
    ASSUME GroupsFit, GroupsEnd(rows), SpansFit, EdgesFit, phase = "position",
           at <= Len(rows), NEW k \in 0..Len(spans), Continued(rows[at], k),
           NEW d \in 1..Len(spans), NEW t,
           Closes(t, d), rows[t].from = spans[d], at - 1 <= t
    PROVE  d <= k <=> at <= t
  <1>1. /\ Len(spans) \in Nat /\ at \in Nat \ {0} /\ k \in Nat /\ k <= Len(spans)
        /\ Len(rows) \in Nat /\ at \in 1..Len(rows)
        /\ \A e \in 1..Len(spans) : spans[e] \in Nat /\ spans[e] < at
        /\ \A e, f \in 1..Len(spans) : e < f => spans[e] <= spans[f]
    <2>1. Len(rows) \in Nat
      BY DEF GroupsFit
    <2> QED  BY <2>1 DEF SpansFit
  <1>2. /\ t \in 1..Len(rows) /\ t \in Nat
        /\ IsGroup(rows, spans[d], t - 1, rows[t].path, d)
    BY SubtotalIsLawful
  (* The spans of outer groups. *)
  <1>3. ASSUME NEW e \in 1..d
        PROVE  \E u : /\ Closes(u, e) /\ u \in Nat /\ u \in 1..Len(rows)
                      /\ at - 1 <= u
                      /\ IsGroup(rows, spans[e], u - 1, rows[u].path, e)
    <2>1. e \in 1..Len(spans)
      BY <1>1
    <2>2. PICK u : Closes(u, e) /\ rows[u].from = spans[e] /\ at - 1 <= u
      BY <2>1 DEF EdgesFit
    <2> QED  BY <2>2, SubtotalIsLawful
  <1>4. ASSUME at <= t, NEW e \in 1..d
        PROVE  Continues(rows[at], e)
    <2>1. PICK u : /\ Closes(u, e) /\ u \in Nat /\ u \in 1..Len(rows)
                   /\ at - 1 <= u
                   /\ IsGroup(rows, spans[e], u - 1, rows[u].path, e)
      BY <1>3
    <2>2. e \in 1..Len(spans) /\ spans[e] \in Nat /\ spans[e] < at
          /\ spans[d] \in Nat /\ spans[d] < at
      BY <1>1
    <2>3. at <= u
      <3> SUFFICES ASSUME u = at - 1
                   PROVE  FALSE
        BY <1>1, <2>1
      <3>1. u \in spans[d]..(t - 1)
        BY <1>1, <1>2, <1>4, <2>2
      <3>2. Len(rows[u].path) > d
        BY <1>2, <2>1, <3>1 DEF IsGroup, Closes
      <3> QED  BY <1>1, <2>1, <3>2 DEF Closes
    <2>4. /\ rows[spans[e]].path[e] = rows[u].path[e]
          /\ e \in 1..e
      <3>1. spans[e] \in spans[e]..(u - 1)
        BY <1>1, <2>1, <2>2, <2>3
      <3> QED  BY <2>1, <3>1 DEF IsGroup, Under
    <2>5. CASE at = u
      BY <2>1, <2>4, <2>5 DEF Continues, Closes
    <2>6. CASE at # u
      <3>1. at \in spans[e]..(u - 1)
        BY <1>1, <2>1, <2>2, <2>3, <2>6
      <3>2. Len(rows[at].path) >= e /\ rows[at].path[e] = rows[u].path[e]
        BY <2>1, <2>4, <3>1 DEF IsGroup, Under
      <3> QED  BY <2>4, <3>2 DEF Continues
    <2> QED  BY <2>5, <2>6
  <1>5. ASSUME at <= t
        PROVE  d <= k
    <2> SUFFICES ASSUME k < d
                 PROVE  FALSE
      BY <1>1
    <2>1. k + 1 \in 1..d /\ k < Len(spans)
      BY <1>1
    <2> QED  BY <1>4, <1>5, <2>1 DEF Continued
  <1>6. ASSUME at - 1 = t, d <= k
        PROVE  FALSE
    <2>1. t + 1 = at /\ t \in 1..(Len(rows) - 1)
      BY <1>1, <1>2, <1>6
    <2>2. ~Under(rows, at, rows[t].path, d)
      BY <2>1 DEF GroupsEnd, Closes
    <2>3. d \in 1..k /\ d <= Len(rows[at].path)
      BY <1>1, <1>6 DEF Continued, Continues
    <2>4. ASSUME NEW e \in 1..d
          PROVE  rows[at].path[e] = rows[t].path[e]
      <3>1. e \in 1..k /\ e \in 1..Len(spans) /\ e <= d
        BY <1>1, <1>6
      <3>2. rows[spans[e]].path[e] = rows[at].path[e]
        BY <3>1 DEF Continued, Continues
      <3>3. PICK u : /\ Closes(u, e) /\ u \in Nat /\ u \in 1..Len(rows)
                     /\ at - 1 <= u
                     /\ IsGroup(rows, spans[e], u - 1, rows[u].path, e)
        BY <1>3
      <3>4. spans[e] <= spans[d] /\ spans[e] \in Nat /\ spans[d] \in Nat /\ spans[d] < at
        BY <1>1, <3>1
      <3>5. rows[spans[d]].type = "detail" /\ spans[d] \in spans[d]..(t - 1)
        BY <1>2 DEF IsGroup
      <3>6. spans[d] # u
        BY <3>3, <3>5 DEF Closes, IsSubtotal
      <3>7. spans[d] \in spans[e]..(u - 1) /\ spans[e] \in spans[e]..(u - 1) /\ e \in 1..e
        BY <1>1, <3>3, <3>4, <3>6
      <3>8. /\ rows[spans[d]].path[e] = rows[u].path[e]
            /\ rows[spans[e]].path[e] = rows[u].path[e]
        BY <3>3, <3>7 DEF IsGroup, Under
      <3>9. rows[spans[d]].path[e] = rows[t].path[e]
        BY <1>2, <3>5 DEF IsGroup, Under
      <3> QED  BY <3>2, <3>8, <3>9
    <2> QED  BY <2>2, <2>3, <2>4 DEF Under
  <1> QED  BY <1>1, <1>2, <1>5, <1>6

LEMMA PositionRowKeepsEdges ==
    ASSUME GroupsFit, RowsDeep, TotalsFit, GroupsEnd(rows), SpansFit, EdgesFit, PositionRow
    PROVE  EdgesFit'
  <1>1. /\ phase = "position" /\ phase' = "position" /\ at <= Len(rows) /\ at' = at + 1
        /\ rows' = rows /\ def' = def
    BY DEF PositionRow, groupVars
  <1>2. PICK k \in 0..Len(spans) :
          /\ Continued(rows[at], k)
          /\ CloseSpans(k)
          /\ Len(spans') \in Nat /\ k <= Len(spans')
          /\ \A d \in 1..Len(spans') : spans'[d] = IF d <= k THEN spans[d] ELSE at
          /\ \A d \in (k + 1)..Len(spans') : rows[at].type = "detail" /\ d <= def.ndim
          /\ rows[at].type = "detail" => def.ndim <= Len(spans')
          /\ first' = first \cup {<<at, d>> : d \in (k + 1)..Len(spans')}
    BY SpansAfterRow
  <1>3. /\ Len(spans) \in Nat /\ at \in Nat \ {0} /\ k \in Nat /\ k <= Len(spans)
        /\ Len(rows) \in Nat /\ at \in 1..Len(rows) /\ def.ndim \in Nat
        /\ \A e \in 1..Len(spans) : spans[e] \in Nat /\ spans[e] < at
    BY <1>1 DEF SpansFit, GroupsFit
  <1>4. /\ \A d \in 1..Len(spans) :
              \E t : Closes(t, d) /\ rows[t].from = spans[d] /\ at - 1 <= t
        /\ \A t, d : Closes(t, d) /\ rows[t].from < at /\ at - 1 <= t =>
              d \in 1..Len(spans) /\ spans[d] = rows[t].from
        /\ first = Firsts({t \in SubtotalRows : rows[t].from < at})
        /\ last = Lasts({t \in SubtotalRows : t < at - 1})
    BY <1>1 DEF EdgesFit
  (* The span of a group that is not left goes on. *)
  <1>5. ASSUME NEW t, NEW d, Closes(t, d), rows[t].from < at, at - 1 <= t
        PROVE  d \in 1..Len(spans) /\ spans[d] = rows[t].from /\ (d <= k <=> at <= t)
    <2>1. d \in 1..Len(spans) /\ spans[d] = rows[t].from
      BY <1>4, <1>5
    <2>2. d <= k <=> at <= t
      BY <1>1, <1>2, <1>5, <2>1, SpanGoesOn
    <2> QED  BY <2>1, <2>2
  (* A detail row begins the groups whose spans it opens, and no others. *)
  <1>6. ASSUME NEW d \in (k + 1)..Len(spans')
        PROVE  \E t : Closes(t, d) /\ rows[t].from = at
    <2>1. rows[at].type = "detail" /\ d \in 1..def.ndim /\ at \in Details(rows)
      BY <1>2, <1>3 DEF Details
    <2>2. Totalled(rows, at, d)
      BY <1>1, <2>1 DEF TotalsFit
    <2>3. PICK t \in 1..Len(rows) : /\ IsSubtotal(rows, t) /\ Len(rows[t].path) = d
                                    /\ at \in rows[t].from..rows[t].to
      BY <2>2 DEF Totalled
    <2>4. Closes(t, d) /\ t \in Nat /\ rows[t].to = t - 1 /\ rows[t].from \in 1..(t - 1)
      BY <2>3, SubtotalIsLawful DEF Closes
    <2>5. ~(rows[t].from < at)
      BY <1>3, <1>5, <2>3, <2>4
    <2> QED  BY <1>3, <2>3, <2>4, <2>5
  <1>7. ASSUME NEW t, NEW d, Closes(t, d), rows[t].from = at
        PROVE  d \in (k + 1)..Len(spans')
    <2>1. /\ t \in Nat /\ d \in Nat \ {0} /\ at \in 1..(t - 1)
          /\ IsGroup(rows, at, t - 1, rows[t].path, d)
      BY <1>7, SubtotalIsLawful
    <2>2. rows[at].type = "detail" /\ Len(rows[at].path) >= d
      BY <2>1 DEF IsGroup, Under
    <2>3. Len(rows[at].path) = def.ndim
      <3>1. PICK T : rows \in Seq(T) /\ \A r \in T : DeepRow(r)
        BY DEF RowsDeep
      <3>2. rows[at] \in T
        BY <1>3, <3>1
      <3> QED  BY <2>2, <3>1, <3>2 DEF DeepRow
    <2>4. d <= Len(spans')
      BY <1>2, <1>3, <2>1, <2>2, <2>3
    <2>5. ~(d <= k)
      <3> SUFFICES ASSUME d <= k
                   PROVE  FALSE
        OBVIOUS
      <3>1. d \in 1..Len(spans)
        BY <1>3, <2>1
      <3>2. PICK u : Closes(u, d) /\ rows[u].from = spans[d] /\ at - 1 <= u
        BY <1>4, <3>1
      <3>3. spans[d] \in Nat /\ spans[d] < at
        BY <1>3, <3>1
      <3>4. at <= u
        BY <1>5, <3>2, <3>3
      <3>5. at # u
        BY <2>2, <3>2 DEF Closes, IsSubtotal
      <3>6. u \in Nat
        BY <3>2, SubtotalIsLawful
      <3>7. at \in rows[u].from..(u - 1) /\ at \in rows[t].from..(t - 1)
        BY <1>3, <1>7, <2>1, <3>2, <3>3, <3>4, <3>5, <3>6
      <3>8. t = u
        BY <1>7, <3>2, <3>7, SameSubtotal
      <3> QED  BY <1>3, <1>7, <3>2, <3>3, <3>8
    <2> QED  BY <1>2, <1>3, <2>1, <2>4, <2>5
  <1>8. ASSUME NEW d \in 1..Len(spans')
        PROVE  \E t : Closes(t, d) /\ rows[t].from = spans'[d] /\ at <= t
    <2>1. CASE d <= k
      <3>1. d \in 1..Len(spans) /\ spans'[d] = spans[d] /\ spans[d] < at
        BY <1>2, <1>3, <2>1
      <3>2. PICK t : Closes(t, d) /\ rows[t].from = spans[d] /\ at - 1 <= t
        BY <1>4, <3>1
      <3> QED  BY <1>5, <2>1, <3>1, <3>2
    <2>2. CASE ~(d <= k)
      <3>1. d \in (k + 1)..Len(spans') /\ spans'[d] = at
        BY <1>2, <1>3, <2>2
      <3>2. PICK t : Closes(t, d) /\ rows[t].from = at
        BY <1>6, <3>1
      <3>3. t \in Nat /\ at \in 1..(t - 1)
        BY <3>2, SubtotalIsLawful
      <3> QED  BY <1>3, <3>1, <3>2, <3>3
    <2> QED  BY <2>1, <2>2
  <1>9. ASSUME NEW t, NEW d, Closes(t, d), rows[t].from < at + 1, at <= t
        PROVE  d \in 1..Len(spans') /\ spans'[d] = rows[t].from
    <2>1. rows[t].from \in 1..(t - 1) /\ t \in Nat /\ d \in Nat \ {0}
      BY <1>9, SubtotalIsLawful
    <2>2. CASE rows[t].from < at
      <3>1. d \in 1..Len(spans) /\ spans[d] = rows[t].from /\ d <= k
        BY <1>3, <1>5, <1>9, <2>1, <2>2
      <3> QED  BY <1>2, <1>3, <3>1
    <2>3. CASE rows[t].from = at
      <3>1. d \in (k + 1)..Len(spans')
        BY <1>7, <1>9, <2>3
      <3> QED  BY <1>2, <1>3, <2>1, <2>3, <3>1
    <2> QED  BY <1>3, <1>9, <2>1, <2>2, <2>3
  <1>10. \A t : t \in SubtotalRows <=> Closes(t, Level(t))
    BY DEF SubtotalRows, Closes, IsSubtotal, Level, GroupsFit
  <1>11. first' = Firsts({t \in SubtotalRows : rows[t].from < at + 1})
    <2>1. ASSUME NEW t \in SubtotalRows
          PROVE  rows[t].from < at + 1 <=> rows[t].from < at \/ rows[t].from = at
      <3>1. rows[t].from \in 1..(t - 1)
        BY <1>10, SubtotalIsLawful
      <3> QED  BY <1>3, <3>1
    <2>2. {<<at, d>> : d \in (k + 1)..Len(spans')}
            = Firsts({t \in SubtotalRows : rows[t].from = at})
      <3>1. ASSUME NEW d \in (k + 1)..Len(spans')
            PROVE  <<at, d>> \in Firsts({t \in SubtotalRows : rows[t].from = at})
        <4>1. PICK t : Closes(t, d) /\ rows[t].from = at
          BY <1>6
        <4>2. t \in SubtotalRows /\ Level(t) = d
          BY <1>10, <4>1 DEF Closes, Level
        <4> QED  BY <4>1, <4>2 DEF Firsts
      <3>2. ASSUME NEW t \in SubtotalRows, rows[t].from = at
            PROVE  Level(t) \in (k + 1)..Len(spans')
        BY <1>7, <1>10, <3>2
      <3> QED  BY <3>1, <3>2 DEF Firsts
    <2> QED  BY <1>2, <1>4, <2>1, <2>2 DEF Firsts
  <1>12. last' = Lasts({t \in SubtotalRows : t < at})
    <2>1. ASSUME NEW t \in SubtotalRows
          PROVE  t < at <=> t < at - 1 \/ t = at - 1
      <3>1. t \in Nat
        BY <1>10, SubtotalIsLawful
      <3> QED  BY <1>3, <3>1
    <2>2. {<<at - 1, d>> : d \in (k + 1)..Len(spans)}
            = Lasts({t \in SubtotalRows : t = at - 1})
      <3>1. ASSUME NEW d \in (k + 1)..Len(spans)
            PROVE  <<at - 1, d>> \in Lasts({t \in SubtotalRows : t = at - 1})
        <4>1. d \in 1..Len(spans) /\ ~(d <= k) /\ spans[d] < at
          BY <1>3
        <4>2. PICK t : Closes(t, d) /\ rows[t].from = spans[d] /\ at - 1 <= t
          BY <1>4, <4>1
        <4>3. ~(at <= t) /\ t \in Nat
          BY <1>5, <4>1, <4>2, SubtotalIsLawful
        <4>4. t = at - 1
          BY <1>3, <4>2, <4>3
        <4>5. t \in SubtotalRows /\ Level(t) = d
          BY <1>10, <4>2 DEF Closes, Level
        <4> QED  BY <4>4, <4>5 DEF Lasts
      <3>2. ASSUME NEW t \in SubtotalRows, t = at - 1
            PROVE  Level(t) \in (k + 1)..Len(spans)
        <4>1. rows[t].from \in 1..(t - 1) /\ Closes(t, Level(t))
          BY <1>10, SubtotalIsLawful
        <4>2. rows[t].from < at /\ at - 1 <= t /\ ~(at <= t)
          BY <1>3, <3>2, <4>1
        <4>3. Level(t) \in 1..Len(spans) /\ ~(Level(t) <= k)
          BY <1>5, <4>1, <4>2
        <4> QED  BY <1>3, <4>3
      <3> QED  BY <3>1, <3>2 DEF Lasts
    <2>3. last' = last \cup {<<at - 1, d>> : d \in (k + 1)..Len(spans)}
      BY <1>2 DEF CloseSpans
    <2> QED  BY <1>4, <2>1, <2>2, <2>3 DEF Lasts
  <1>13. (at + 1) - 1 = at /\ at + 1 <= Len(rows) + 1
    BY <1>1, <1>3
  <1>14. /\ \A t, d : Closes(t, d)' <=> Closes(t, d)
         /\ SubtotalRows' = SubtotalRows
         /\ \A T : Firsts(T)' = Firsts(T) /\ Lasts(T)' = Lasts(T)
    BY <1>1 DEF Closes, SubtotalRows, Firsts, Lasts, Level
  <1>15. /\ first' = Firsts({t \in SubtotalRows : rows[t].from < at'})
         /\ last' = Lasts({t \in SubtotalRows : t < at' - 1})
    BY <1>1, <1>11, <1>12, <1>13
  <1> QED  BY <1>1, <1>8, <1>9, <1>13, <1>14, <1>15 DEF EdgesFit, Firsts, Lasts, Level

LEMMA PositionEndKeepsEdges ==
    ASSUME GroupsFit, SpansFit, EdgesFit, PositionEnd
    PROVE  EdgesFit'
  <1>1. /\ phase = "position" /\ phase' = "assembly" /\ at = Len(rows) + 1
        /\ rows' = rows /\ first' = first /\ CloseSpans(0)
    BY DEF PositionEnd, groupVars
  <1>2. /\ Len(spans) \in Nat /\ Len(rows) \in Nat /\ at \in Nat
    BY DEF SpansFit, GroupsFit
  <1>3. /\ \A d \in 1..Len(spans) :
              \E t : Closes(t, d) /\ rows[t].from = spans[d] /\ at - 1 <= t
        /\ \A t, d : Closes(t, d) /\ rows[t].from < at /\ at - 1 <= t =>
              d \in 1..Len(spans) /\ spans[d] = rows[t].from
        /\ first = Firsts({t \in SubtotalRows : rows[t].from < at})
        /\ last = Lasts({t \in SubtotalRows : t < at - 1})
    BY <1>1 DEF EdgesFit
  <1>4. ASSUME NEW t \in SubtotalRows
        PROVE  /\ Closes(t, Level(t)) /\ t \in Nat /\ t \in 1..Len(rows)
               /\ rows[t].from \in 1..(t - 1) /\ rows[t].from < at
    <2>1. Closes(t, Level(t))
      BY DEF SubtotalRows, Closes, IsSubtotal, Level, GroupsFit
    <2>2. t \in Nat /\ t \in 1..Len(rows) /\ rows[t].from \in 1..(t - 1)
      BY <2>1, SubtotalIsLawful
    <2> QED  BY <1>1, <1>2, <2>1, <2>2
  <1>5. first = Firsts(SubtotalRows)
    BY <1>3, <1>4 DEF Firsts
  <1>6. {<<at - 1, d>> : d \in 1..Len(spans)} = Lasts({t \in SubtotalRows : t = at - 1})
    <2>1. ASSUME NEW d \in 1..Len(spans)
          PROVE  <<at - 1, d>> \in Lasts({t \in SubtotalRows : t = at - 1})
      <3>1. PICK t : Closes(t, d) /\ at - 1 <= t
        BY <1>3
      <3>2. t \in SubtotalRows /\ Level(t) = d /\ t \in 1..Len(rows)
        BY <3>1 DEF SubtotalRows, Closes, IsSubtotal, Level, GroupsFit
      <3>3. t = at - 1
        BY <1>1, <1>2, <3>1, <3>2
      <3> QED  BY <3>2, <3>3 DEF Lasts
    <2>2. ASSUME NEW t \in SubtotalRows, t = at - 1
          PROVE  Level(t) \in 1..Len(spans)
      BY <1>1, <1>2, <1>3, <1>4, <2>2
    <2> QED  BY <2>1, <2>2 DEF Lasts
  <1>7. last' = last \cup {<<at - 1, d>> : d \in 1..Len(spans)}
    BY <1>1 DEF CloseSpans
  <1>8. \A t \in SubtotalRows : t < at - 1 \/ t = at - 1
    BY <1>1, <1>2, <1>4
  <1>9. last' = Lasts(SubtotalRows)
    BY <1>3, <1>6, <1>7, <1>8 DEF Lasts
  <1> QED  BY <1>1, <1>5, <1>9 DEF EdgesFit, Firsts, Lasts, SubtotalRows, Level

LEMMA FittingEdges ==
    GroupsFit /\ NumbersFit /\ EdgesFit => GroupEdges
  <1> SUFFICES ASSUME GroupsFit, NumbersFit, EdgesFit, phase \in {"assembly", "done"}
               PROVE  /\ \A p \in DetailRows :
                           rows[p].seq =
                             IF p - 1 \in DetailRows /\ rows[p - 1].path = rows[p].path
                             THEN rows[p - 1].seq + 1 ELSE 1
                      /\ first = {<<rows[p].from, Level(p)>> : p \in SubtotalRows}
                      /\ last = {<<p, Level(p)>> : p \in SubtotalRows}
    BY DEF GroupEdges
  <1>1. DetailRows = Details(rows)
    BY DEF DetailRows, Details, GroupsFit
  <1> QED  BY <1>1 DEF NumbersFit, Numbered, EdgesFit, Firsts, Lasts
-----------------------------------------------------------------------------
(* The order of the groups.                                                  *)

(* The detail rows of R are fed rows, in the order they were fed.            *)
InFeedOrder(R, fed) ==
    /\ \A p \in Details(R) : \E i \in 1..Len(fed) : fed[i].keys = R[p].path
    /\ \A p, q \in Details(R) :
         p < q => \E i, j \in 1..Len(fed) :
                    i < j /\ fed[i].keys = R[p].path /\ fed[j].keys = R[q].path

(* The total is the first row or the last. *)
TotalAtEnd(R) ==
    \A p \in 1..Len(R) : R[p].type \in {"detail", "subtotal"} \/ p = 1 \/ p = Len(R)

OrderFits == InFeedOrder(rows, input) /\ TotalAtEnd(rows)

LEMMA FeedKeepsOrder ==
    ASSUME GroupsFit, TotalsFit, OrderFits,
           NEW r, r.keys \in [1..def.ndim -> Keys], Feed(r)
    PROVE  OrderFits'
  <1>1. /\ GroupsOpen /\ phase = "feed" /\ input' = Append(input, r)
    BY DEF Feed, GroupsFit
  <1>2. PICK k \in 0..Len(stack) : FedTo(r, k)
    BY FedRows
  <1> DEFINE C == Closed(k)
             L == Len(C)
             N == Len(input)
  <1>3. /\ Details(C) = Details(rows)
        /\ \A p \in 1..L : C[p].type \in {"detail", "subtotal"}
    BY <1>1, ClosedTotals
  <1>4. \A p \in Details(rows) : C[p] = rows[p]
    BY <1>1, ClosedRows DEF ClosedTo, Details
  <1>5. L \in Nat
    BY <1>1, ClosedIsLawful DEF Lawful, GroupsOpen
  <1>6. /\ Len(rows') = L + 1
        /\ \A q \in 1..L : rows'[q] = C[q]
        /\ rows'[L + 1].type = "detail"
        /\ rows'[L + 1].path = r.keys
    BY <1>2 DEF FedTo, DetailRow
  <1>7. /\ N \in Nat /\ Len(input') = N + 1
        /\ \A i \in 1..N : input'[i] = input[i]
        /\ input'[N + 1] = r
    <2>1. PICK S : input \in Seq(S)
      BY DEF TotalsFit
    <2>2. input \in Seq(S \cup {r}) /\ r \in S \cup {r}
      BY <2>1
    <2> QED  BY <1>1, <2>2, AppendProperties
  <1> HIDE DEF C, L, N
  <1>8. ASSUME NEW p \in Details(rows')
        PROVE  \/ p = L + 1
               \/ p \in Details(rows) /\ p \in 1..L /\ rows'[p] = rows[p]
    <2>1. p \in 1..L + 1 /\ rows'[p].type = "detail"
      BY <1>6 DEF Details
    <2>2. ASSUME p # L + 1
          PROVE  p \in Details(rows) /\ p \in 1..L /\ rows'[p] = rows[p]
      <3>1. p \in 1..L
        BY <1>5, <2>1, <2>2
      <3>2. p \in Details(C)
        BY <1>6, <2>1, <3>1 DEF Details, L
      <3> QED  BY <1>3, <1>4, <1>6, <3>1, <3>2
    <2> QED  BY <2>2
  <1>9. ASSUME NEW p \in Details(rows'), p # L + 1
        PROVE  \E i \in 1..N : i \in 1..N + 1 /\ input'[i].keys = rows'[p].path
    <2>1. PICK i \in 1..N : input[i].keys = rows[p].path
      BY <1>8, <1>9 DEF OrderFits, InFeedOrder, N
    <2> QED  BY <1>7, <1>8, <1>9, <2>1
  <1>10. ASSUME NEW p \in Details(rows')
         PROVE  \E i \in 1..N + 1 : input'[i].keys = rows'[p].path
    <2>1. CASE p = L + 1
      BY <1>6, <1>7, <2>1
    <2> QED  BY <1>9, <2>1
  <1>11. ASSUME NEW p \in Details(rows'), NEW q \in Details(rows'), p < q
         PROVE  \E i, j \in 1..N + 1 :
                  i < j /\ input'[i].keys = rows'[p].path /\ input'[j].keys = rows'[q].path
    <2>1. p # L + 1 /\ p \in 1..L + 1 /\ q \in 1..L + 1
      BY <1>5, <1>6, <1>11 DEF Details
    <2>2. CASE q = L + 1
      <3>1. PICK i \in 1..N : i \in 1..N + 1 /\ input'[i].keys = rows'[p].path
        BY <1>9, <2>1
      <3>2. N + 1 \in 1..N + 1 /\ i < N + 1
        BY <1>7
      <3> QED  BY <1>6, <1>7, <2>2, <3>1, <3>2
    <2>3. CASE q # L + 1
      <3>1. /\ p \in Details(rows) /\ rows'[p] = rows[p]
            /\ q \in Details(rows) /\ rows'[q] = rows[q]
        BY <1>8, <2>1, <2>3
      <3>2. PICK i \in 1..N, j \in 1..N :
              i < j /\ input[i].keys = rows[p].path /\ input[j].keys = rows[q].path
        BY <1>11, <3>1 DEF OrderFits, InFeedOrder, N
      <3> QED  BY <1>7, <3>1, <3>2
    <2> QED  BY <2>2, <2>3
  <1>12. TotalAtEnd(rows')
    BY <1>3, <1>5, <1>6 DEF TotalAtEnd, L
  <1> QED  BY <1>7, <1>10, <1>11, <1>12 DEF OrderFits, InFeedOrder, TotalAtEnd

LEMMA FinishKeepsOrder ==
    ASSUME GroupsFit, TotalsFit, OrderFits, Finish
    PROVE  OrderFits'
  <1> DEFINE C == Closed(0)
             L == Len(C)
             total == TallyRow("total", <<>>, root, 1, L)
  <1>1. GroupsOpen /\ phase = "feed" /\ input' = input
    BY DEF Finish, GroupsFit
  <1>2. /\ Lawful(C) /\ L \in Nat
        /\ \/ C = <<>> /\ rows' = C
           \/ FinishedBelow(C, total)
           \/ FinishedAbove(C, total)
    BY FinishedRows
  <1>3. 0 \in 0..Len(stack)
    BY <1>1 DEF GroupsOpen
  <1>4. /\ Details(C) = Details(rows)
        /\ \A p \in 1..L : C[p].type \in {"detail", "subtotal"}
    BY <1>1, <1>3, ClosedTotals
  <1>5. \A p \in Details(rows) : C[p] = rows[p]
    BY <1>1, <1>3, ClosedRows DEF ClosedTo, Details
  <1>6. total.type = "total" /\ Shift(total).type = "total"
    BY DEF TallyRow, Shift
  <1> HIDE DEF C, L, total
  <1>7. InFeedOrder(C, input)
    BY <1>4, <1>5 DEF OrderFits, InFeedOrder
  <1>8. CASE C = <<>> /\ rows' = C
    BY <1>1, <1>4, <1>7, <1>8 DEF OrderFits, InFeedOrder, TotalAtEnd, Details, L
  <1>9. CASE FinishedBelow(C, total)
    <2>1. /\ Len(rows') = L + 1
          /\ \A q \in 1..L : rows'[q] = C[q]
          /\ rows'[L + 1] = total
      BY <1>9 DEF FinishedBelow, L
    <2>2. ASSUME NEW p \in Details(rows')
          PROVE  p \in Details(C) /\ rows'[p] = C[p]
      BY <1>2, <1>6, <2>1 DEF Details, L
    <2>3. TotalAtEnd(rows')
      BY <1>2, <1>4, <2>1 DEF TotalAtEnd, L
    <2> QED  BY <1>1, <1>7, <2>2, <2>3 DEF OrderFits, InFeedOrder, TotalAtEnd
  <1>10. CASE FinishedAbove(C, total)
    <2>1. /\ Len(rows') = L + 1 /\ rows'[1] = Shift(total)
          /\ \A q \in 1..L : rows'[q + 1] = Shift(C[q])
      BY <1>10 DEF FinishedAbove, L
    <2>2. ASSUME NEW q \in 1..L
          PROVE  rows'[q + 1].type = C[q].type /\ rows'[q + 1].path = C[q].path
      <3>1. RowFields \subseteq DOMAIN C[q]
        BY <1>2 DEF Lawful, L
      <3> QED  BY <2>1, <3>1, ShiftedRow
    <2>3. ASSUME NEW p \in Details(rows')
          PROVE  p \in Int /\ p - 1 \in Details(C) /\ rows'[p].path = C[p - 1].path
      <3>1. p # 1 /\ p \in 1..L + 1 /\ rows'[p].type = "detail"
        BY <1>6, <2>1 DEF Details
      <3>2. p - 1 \in 1..L /\ (p - 1) + 1 = p
        BY <1>2, <3>1
      <3> QED  BY <2>2, <3>1, <3>2 DEF Details, L
    <2>4. ASSUME NEW p \in Details(rows')
          PROVE  \E i \in 1..Len(input) : input[i].keys = rows'[p].path
      BY <1>7, <2>3 DEF InFeedOrder
    <2>5. ASSUME NEW p \in Details(rows'), NEW q \in Details(rows'), p < q
          PROVE  \E i, j \in 1..Len(input) :
                   i < j /\ input[i].keys = rows'[p].path /\ input[j].keys = rows'[q].path
      <3>1. p - 1 < q - 1
        BY <2>3, <2>5
      <3>2. PICK i \in 1..Len(input), j \in 1..Len(input) :
              i < j /\ input[i].keys = C[p - 1].path /\ input[j].keys = C[q - 1].path
        BY <1>7, <2>3, <3>1 DEF InFeedOrder
      <3> QED  BY <2>3, <3>2
    <2>6. TotalAtEnd(rows')
      <3> SUFFICES ASSUME NEW p \in 1..L + 1, p # 1
                   PROVE  rows'[p].type \in {"detail", "subtotal"}
        BY <2>1 DEF TotalAtEnd
      <3>1. p - 1 \in 1..L /\ (p - 1) + 1 = p
        BY <1>2
      <3> QED  BY <1>4, <2>2, <3>1
    <2> QED  BY <1>1, <2>4, <2>5, <2>6 DEF OrderFits, InFeedOrder, TotalAtEnd
  <1> QED  BY <1>2, <1>8, <1>9, <1>10

(* Between two groups of one path there is a row of another. *)
LEMMA GroupsApart ==
    ASSUME GroupsFit, NumbersFit, TotalAtEnd(rows), NEW d, NEW p, NEW q,
           Closes(p, d), Closes(q, d), p < q, rows[p].path = rows[q].path
    PROVE  \E s \in Details(rows) :
             /\ rows[p].from < s /\ s < rows[q].from
             /\ ~Under(rows, s, rows[p].path, d)
  <1> DEFINE L == Len(rows)
             path == rows[p].path
             f == rows[q].from
  <1>1. /\ p \in 1..L /\ p \in Nat /\ q \in 1..L /\ q \in Nat /\ d \in Nat \ {0} /\ L \in Nat
        /\ rows[p].from \in 1..p - 1
        /\ f \in 1..q - 1
        /\ IsGroup(rows, rows[q].from, q - 1, rows[q].path, d)
        /\ IsSubtotal(rows, p) /\ Len(path) = d
    BY SubtotalIsLawful DEF GroupsFit, Closes
  <1> HIDE DEF L, path, f
  <1>2. p < f /\ f \in Details(rows) /\ Under(rows, f, path, d)
    <2>1. p \notin f..q - 1
      <3> SUFFICES ASSUME p \in f..q - 1 PROVE FALSE
        OBVIOUS
      <3>1. Len(rows[p].path) > d
        BY <1>1 DEF IsGroup, f
      <3> QED  BY <1>1, <3>1 DEF path
    <2>2. f \in f..q - 1 /\ f \in 1..L /\ rows[f].type = "detail"
      BY <1>1 DEF IsGroup, f
    <2>3. Under(rows, f, path, d)
      BY <1>1, <2>2 DEF IsGroup, f, path
    <2> QED  BY <1>1, <2>1, <2>2, <2>3 DEF Details, L
  <1> DEFINE below == {s \in Details(rows) : p < s}
  <1>3. below \subseteq Nat /\ f \in below
    BY <1>2 DEF Details
  <1>4. PICK s \in below : \A m \in below : s <= m
    BY <1>3, LeastNatural
  <1>5. s \in Details(rows) /\ s \in 1..L /\ p < s /\ s <= f
    BY <1>3, <1>4 DEF Details, L
  <1>6. ~Under(rows, s, path, d)
    <2> DEFINE t == s - 1
    <2>1. t \in 1..L - 1 /\ t + 1 = s /\ p <= t /\ t \in 1..L /\ t \in Nat
      BY <1>1, <1>5
    <2> HIDE DEF t
    <2>2. CASE t = p
      <3>1. ~Under(rows, t + 1, rows[t].path, Len(rows[t].path))
        BY <1>1, <2>1, <2>2 DEF NumbersFit, GroupsEnd, L
      <3> QED  BY <1>1, <2>1, <2>2, <3>1 DEF path
    <2>3. CASE p < t
      <3>1. t \notin Details(rows)
        <4>1. t < s
          BY <1>5, <2>1
        <4> QED  BY <1>3, <1>4, <1>5, <2>1, <2>3, <4>1
      <3>2. IsSubtotal(rows, t)
        <4>1. t # 1 /\ t # L
          BY <1>1, <2>1, <2>3
        <4> QED  BY <2>1, <3>1, <4>1 DEF TotalAtEnd, Details, IsSubtotal, L
      <3> DEFINE e == Len(rows[t].path)
      <3>3. /\ Closes(t, e) /\ e \in Nat \ {0}
            /\ rows[t].from \in 1..t - 1
            /\ IsGroup(rows, rows[t].from, t - 1, rows[t].path, e)
        <4>1. Closes(t, e)
          BY <2>1, <3>2 DEF Closes, L
        <4> QED  BY <4>1, SubtotalIsLawful
      <3>4. ~Under(rows, s, rows[t].path, e)
        BY <2>1, <3>2 DEF NumbersFit, GroupsEnd, L
      <3> HIDE DEF e
      <3>5. rows[t].from <= p
        <4> SUFFICES ASSUME p < rows[t].from PROVE FALSE
          BY <1>1, <3>3
        <4>1. rows[t].from \in Details(rows)
          BY <2>1, <3>3 DEF IsGroup, Details, L
        <4>2. s <= rows[t].from
          BY <1>4, <4>1
        <4> QED  BY <1>5, <2>1, <3>3, <4>2
      <3>6. p \in rows[t].from..t - 1
        BY <1>1, <2>1, <2>3, <3>3, <3>5
      <3>7. /\ Len(path) > e
            /\ \A c \in 1..e : path[c] = rows[t].path[c]
        BY <1>1, <3>3, <3>6 DEF IsGroup, Under, path
      <3>8. ASSUME Under(rows, s, path, d)
            PROVE  Under(rows, s, rows[t].path, e)
        <4>1. e < d /\ \A c \in 1..e : c \in 1..d
          BY <1>1, <3>3, <3>7
        <4>2. Len(rows[s].path) \in Nat
          BY <1>5 DEF GroupsFit, Lawful, L
        <4>3. Len(rows[s].path) >= e
          BY <1>1, <3>3, <3>8, <4>1, <4>2 DEF Under
        <4> QED  BY <3>7, <3>8, <4>1, <4>3 DEF Under
      <3> QED  BY <3>4, <3>8
    <2> QED  BY <1>1, <2>1, <2>2, <2>3
  <1>7. s < f
    BY <1>1, <1>2, <1>5, <1>6
  <1> QED  BY <1>1, <1>5, <1>6, <1>7 DEF path, f
=============================================================================
