------------------------- MODULE StyleEngineProofs -------------------------
(***************************************************************************)
(* Lemmas about StyleEngine: the loops that skip entries of a list keep    *)
(* the others in their order; the engine's three calls keep the rules      *)
(* ranked and every cell's style that of the highest rules, whatever the   *)
(* conditions and the styles are; the error of a condition is that of one  *)
(* of its leaves; the rule of an override holds where its scope says.      *)
(***************************************************************************)
EXTENDS StyleEngine, SequenceTheorems, WellFoundedInduction, TLAPS

(* The loop over a list that keeps the wanted entries only.                  *)

KeptNext(list, wanted, kept, n) ==
    IF n = 0 THEN <<>>
    ELSE IF n \in wanted THEN Append(kept[n - 1], list[n])
    ELSE kept[n - 1]

(* kept is what the loop has appended, after each of its first m iterations. *)
IsKept(list, wanted, m, kept) ==
    kept = [n \in 0..m |-> KeptNext(list, wanted, kept, n)]

(* Of the numbers that are in T, one is least. *)
LEMMA LeastNumber ==
    ASSUME NEW T, T \subseteq Nat, T # {}
    PROVE  \E n \in T : \A m \in T : n <= m
  <1> DEFINE R == OpToRel(<, Nat)
  <1>1. IsWellFoundedOn(R, Nat)
    BY NatLessThanWellFounded
  <1> HIDE DEF R
  <1>2. PICK n \in T : \A m \in T : <<m, n>> \notin R
    BY <1>1, WFMin
  <1>3. ASSUME NEW m \in T
        PROVE  n <= m
    <2>1. ~(m < n)
      BY <1>2 DEF R, OpToRel
    <2> QED  BY <2>1
  <1> QED  BY <1>3

LEMMA KeptIsDefined ==
    ASSUME NEW list, NEW wanted, NEW m \in Nat
    PROVE  \E kept : IsKept(list, wanted, m, kept)
  <1> DEFINE T == {n \in Nat : ~ \E kept : IsKept(list, wanted, n, kept)}
  <1> SUFFICES ASSUME T # {}
               PROVE  FALSE
    OBVIOUS
  <1>1. PICK n \in T : \A l \in T : n <= l
    <2>1. T \subseteq Nat
      OBVIOUS
    <2> HIDE DEF T
    <2> QED  BY <2>1, LeastNumber
  <1>2. n \in Nat /\ ~ \E kept : IsKept(list, wanted, n, kept)
    OBVIOUS
  <1>3. CASE n = 0
    <2> DEFINE kept == [l \in 0..0 |-> <<>>]
    <2>1. \A l \in 0..0 : KeptNext(list, wanted, kept, l) = <<>>
      BY DEF KeptNext
    <2>2. IsKept(list, wanted, 0, kept)
      BY <2>1 DEF IsKept
    <2> HIDE DEF kept
    <2> QED  BY <1>2, <1>3, <2>2
  <1>4. CASE n # 0
    <2>1. n - 1 \in Nat /\ n - 1 \notin T
      <3>1. n - 1 \in Nat /\ ~(n <= n - 1)
        BY <1>2, <1>4
      <3> HIDE DEF T
      <3> QED  BY <1>1, <3>1
    <2>2. PICK h : IsKept(list, wanted, n - 1, h)
      BY <2>1
    <2> DEFINE kept == [l \in 0..n |-> KeptNext(list, wanted, h, l)]
    <2>3. \A l \in 0..n - 1 : h[l] = KeptNext(list, wanted, h, l)
      BY <2>2 DEF IsKept
    <2>4. \A l \in 0..n - 1 : kept[l] = h[l]
      <3>1. \A l \in 0..n - 1 : l \in 0..n
        BY <1>2
      <3> QED  BY <2>3, <3>1
    <2>5. ASSUME NEW l \in 0..n
          PROVE  kept[l] = KeptNext(list, wanted, kept, l)
      <3>1. kept[l] = KeptNext(list, wanted, h, l)
        OBVIOUS
      <3>2. l # 0 => kept[l - 1] = h[l - 1]
        <4>1. l # 0 => l - 1 \in 0..n - 1
          BY <1>2
        <4> QED  BY <2>4, <4>1
      <3> HIDE DEF kept
      <3> QED  BY <3>1, <3>2 DEF KeptNext
    <2>6. kept = [l \in 0..n |-> kept[l]]
      OBVIOUS
    <2> HIDE DEF kept
    <2>7. IsKept(list, wanted, n, kept)
      BY <2>5, <2>6 DEF IsKept
    <2> QED  BY <1>2, <2>7
  <1> QED  BY <1>3, <1>4

LEMMA KeptUnfolds ==
    ASSUME NEW S, NEW list \in Seq(S), NEW wanted
    PROVE  \E kept : IsKept(list, wanted, Len(list), kept) /\ Kept(list, wanted) = kept[Len(list)]
  <1>1. Len(list) \in Nat
    OBVIOUS
  <1>2. \E kept : IsKept(list, wanted, Len(list), kept)
    BY <1>1, KeptIsDefined
  <1> DEFINE f == CHOOSE kept : IsKept(list, wanted, Len(list), kept)
  <1>3. Kept(list, wanted) = f[Len(list)]
    BY Zenon DEF Kept, IsKept, KeptNext
  <1>4. IsKept(list, wanted, Len(list), f)
    BY <1>2, Zenon
  <1> QED  BY <1>3, <1>4

(* at finds each of the wanted of the first n entries of a list once, in     *)
(* their order, in kept.                                                     *)
KeepsAt(S, list, wanted, n, kept, at) ==
    /\ kept \in Seq(S)
    /\ at \in [1..Len(kept) -> wanted \cap (1..n)]
    /\ \A k \in 1..Len(kept) : kept[k] = list[at[k]]
    /\ \A k, l \in 1..Len(kept) : k < l => at[k] < at[l]
    /\ \A i \in wanted \cap (1..n) : \E k \in 1..Len(kept) : at[k] = i

Keeps(S, list, wanted, n, kept) == \E at : KeepsAt(S, list, wanted, n, kept, at)

LEMMA OneMoreKept ==
    ASSUME NEW S, NEW list \in Seq(S), NEW wanted, NEW n \in 1..Len(list),
           NEW s, Keeps(S, list, wanted, n - 1, s)
    PROVE  Keeps(S, list, wanted, n, IF n \in wanted THEN Append(s, list[n]) ELSE s)
  <1>1. PICK at : KeepsAt(S, list, wanted, n - 1, s, at)
    BY DEF Keeps
  <1>2. /\ n \in Nat /\ Len(s) \in Nat /\ s \in Seq(S) /\ list[n] \in S
        /\ at \in [1..Len(s) -> wanted \cap (1..n - 1)]
        /\ \A k \in 1..Len(s) : s[k] = list[at[k]]
        /\ \A k, l \in 1..Len(s) : k < l => at[k] < at[l]
        /\ \A i \in wanted \cap (1..n - 1) : \E k \in 1..Len(s) : at[k] = i
    BY <1>1 DEF KeepsAt
  <1>3. 1..n = (1..n - 1) \cup {n}
    BY <1>2
  <1>4. CASE n \notin wanted
    <2>1. wanted \cap (1..n) = wanted \cap (1..n - 1)
      BY <1>3, <1>4
    <2>2. KeepsAt(S, list, wanted, n, s, at)
      BY <1>1, <2>1 DEF KeepsAt
    <2> QED  BY <1>4, <2>2 DEF Keeps
  <1>5. CASE n \in wanted
    <2> DEFINE m == Len(s) + 1
               s2 == Append(s, list[n])
               at2 == [k \in 1..m |-> IF k = m THEN n ELSE at[k]]
    <2>1. /\ s2 \in Seq(S) /\ Len(s2) = m /\ s2[m] = list[n]
          /\ \A k \in 1..Len(s) : s2[k] = s[k]
      BY <1>2, AppendProperties
    <2>2. 1..m = (1..Len(s)) \cup {m} /\ m \notin 1..Len(s)
      BY <1>2
    <2>3. at2[m] = n /\ \A k \in 1..Len(s) : at2[k] = at[k]
      BY <2>2
    <2>4. at2 \in [1..m -> wanted \cap (1..n)]
      BY <1>2, <1>3, <1>5
    <2> HIDE DEF s2, at2
    <2>5. \A k \in 1..m : s2[k] = list[at2[k]]
      BY <1>2, <2>1, <2>2, <2>3
    <2>6. ASSUME NEW k \in 1..m, NEW l \in 1..m, k < l
          PROVE  at2[k] < at2[l]
      <3>1. k \in 1..Len(s) /\ at2[k] = at[k] /\ at[k] \in 1..n - 1
        BY <1>2, <2>3, <2>6
      <3>2. CASE l = m
        BY <1>2, <2>3, <3>1, <3>2
      <3>3. CASE l # m
        BY <1>2, <2>2, <2>3, <2>6, <3>1, <3>3
      <3> QED  BY <3>2, <3>3
    <2>7. ASSUME NEW i \in wanted \cap (1..n)
          PROVE  \E k \in 1..m : at2[k] = i
      <3>1. CASE i = n
        BY <1>2, <2>3, <3>1
      <3>2. CASE i # n
        <4>1. PICK k \in 1..Len(s) : at[k] = i
          BY <1>2, <1>3, <3>2
        <4> QED  BY <2>2, <2>3, <4>1
      <3> QED  BY <3>1, <3>2
    <2>8. KeepsAt(S, list, wanted, n, s2, at2)
      <3> HIDE DEF m
      <3> QED  BY <2>1, <2>4, <2>5, <2>6, <2>7 DEF KeepsAt
    <2> QED  BY <1>5, <2>8 DEF Keeps, s2
  <1> QED  BY <1>4, <1>5

(* The loop keeps the wanted entries, all of them, in their order. *)
LEMMA KeptKeeps ==
    ASSUME NEW S, NEW list \in Seq(S), NEW wanted
    PROVE  Keeps(S, list, wanted, Len(list), Kept(list, wanted))
  <1>1. PICK kept : /\ IsKept(list, wanted, Len(list), kept)
                    /\ Kept(list, wanted) = kept[Len(list)]
    BY KeptUnfolds
  <1>2. Len(list) \in Nat /\ \A n \in 0..Len(list) : kept[n] = KeptNext(list, wanted, kept, n)
    BY <1>1 DEF IsKept
  <1> DEFINE T == {n \in 0..Len(list) : ~Keeps(S, list, wanted, n, kept[n])}
  <1>3. T = {}
    <2> SUFFICES ASSUME T # {}
                 PROVE  FALSE
      OBVIOUS
    <2>1. PICK n \in T : \A l \in T : n <= l
      <3>1. T \subseteq Nat
        OBVIOUS
      <3> HIDE DEF T
      <3> QED  BY <3>1, LeastNumber
    <2>2. n \in 0..Len(list) /\ n \in Nat /\ ~Keeps(S, list, wanted, n, kept[n])
      BY <1>2
    <2>3. CASE n = 0
      <3>1. kept[n] = <<>>
        BY <1>2, <2>2, <2>3 DEF KeptNext
      <3> DEFINE at == [k \in 1..0 |-> k]
      <3>2. <<>> \in Seq(S) /\ Len(<<>>) = 0 /\ 1..0 = {}
        OBVIOUS
      <3>3. KeepsAt(S, list, wanted, 0, <<>>, at)
        BY <3>2 DEF KeepsAt
      <3> HIDE DEF at
      <3> QED  BY <2>2, <2>3, <3>1, <3>3 DEF Keeps
    <2>4. CASE n # 0
      <3>1. n \in 1..Len(list) /\ n - 1 \in 0..Len(list) /\ ~(n <= n - 1)
        BY <2>2, <2>4
      <3>2. n - 1 \notin T
        <4> HIDE DEF T
        <4> QED  BY <2>1, <3>1
      <3>3. Keeps(S, list, wanted, n - 1, kept[n - 1])
        BY <3>1, <3>2
      <3>4. kept[n] = IF n \in wanted THEN Append(kept[n - 1], list[n]) ELSE kept[n - 1]
        BY <1>2, <2>2, <2>4 DEF KeptNext
      <3>5. Keeps(S, list, wanted, n, kept[n])
        BY <3>1, <3>3, <3>4, OneMoreKept
      <3> QED  BY <2>2, <3>5
    <2> QED  BY <2>3, <2>4
  <1>4. Len(list) \in 0..Len(list)
    BY <1>2
  <1> QED  BY <1>1, <1>3, <1>4
-----------------------------------------------------------------------------
(* The styles.                                                               *)

(* The rules are tried from the lowest to the highest. *)
Ranked ==
    /\ order \in Seq(1..Len(rules))
    /\ tried \in 0..Len(order)
    /\ \A k, l \in 1..Len(order) : k < l => Outranks(rules, order[l], order[k])

(* No rule was tried yet. *)
Untouched == tried = 0 /\ hits = {} /\ style = Plain

LEMMA UntouchedByPriority == Untouched => ByPriority
  <1> SUFFICES ASSUME Untouched
               PROVE  ByPriority
    OBVIOUS
  <1>1. 1..tried = {} /\ hits = {} /\ style = Plain
    BY DEF Untouched
  <1>2. hits = {n \in {order[k] : k \in 1..tried} :
                  Verdict(rules[n].when, context) = "true"}
    BY <1>1
  <1>3. \A f \in Fields : {n \in hits : f \in DOMAIN rules[n].style} = {}
    BY <1>1
  <1> QED  BY <1>1, <1>2, <1>3 DEF ByPriority

(* The rules are ranked once, before the first cell. *)
LEMMA RankedByRank ==
    ASSUME Untouched, NEW list, Rank(list)
    PROVE  Ranked' /\ Untouched'
  <1>1. rules' = list /\ Untouched' /\ tried' = 0
    BY DEF Rank, Untouched
  <1>2. /\ order' \in Seq(1..Len(list))
        /\ \A k, l \in DOMAIN order' : k < l => Outranks(list, order'[l], order'[k])
    BY DEF Rank, Arrangements
  <1>3. DOMAIN order' = 1..Len(order') /\ Len(order') \in Nat
    BY <1>2
  <1> QED  BY <1>1, <1>2, <1>3 DEF Ranked, Outranks

LEMMA StartedUntouched ==
    ASSUME Ranked, NEW c, StartCell(c)
    PROVE  Ranked' /\ Untouched'
  BY DEF Ranked, Untouched, StartCell, Outranks

(* The rule that is tried next outranks those that were tried. *)
LEMMA TriedByPriority ==
    ASSUME Ranked, ByPriority, TryRule
    PROVE  Ranked' /\ ByPriority'
  <1> DEFINE j == order[tried + 1]
             Sets(n, f) == f \in DOMAIN rules[n].style
             Match(n) == Verdict(rules[n].when, context) = "true"
  <1>1. /\ tried \in Nat /\ tried + 1 \in 1..Len(order) /\ tried' = tried + 1
        /\ UNCHANGED <<rules, order, context>>
    <2>1. tried \in 0..Len(order) /\ Len(order) \in Nat /\ tried < Len(order)
      BY DEF Ranked, TryRule
    <2> QED  BY <2>1 DEF TryRule
  <1>2. Ranked'
    BY <1>1 DEF Ranked, Outranks
  <1>3. \A k \in 1..tried : Outranks(rules, j, order[k])
    <2> SUFFICES ASSUME NEW k \in 1..tried
                 PROVE  Outranks(rules, j, order[k])
      OBVIOUS
    <2>1. k \in 1..Len(order) /\ k < tried + 1
      <3>1. Len(order) \in Nat
        BY DEF Ranked
      <3> QED  BY <1>1, <3>1
    <2> QED  BY <1>1, <2>1 DEF Ranked
  <1>4. 1..tried' = (1..tried) \cup {tried + 1}
    BY <1>1
  <1>5. {order[k] : k \in 1..tried'} = {order[k] : k \in 1..tried} \cup {j}
    BY <1>4
  <1>6. hits = {n \in {order[k] : k \in 1..tried} : Match(n)}
    BY DEF ByPriority
  <1>7. /\ Match(j) => hits' = hits \cup {j}
                       /\ style' = Applied(style, rules[j].style, context)
        /\ ~Match(j) => hits' = hits /\ style' = style
    BY DEF TryRule, CurrentRule
  <1> HIDE DEF Match, Sets, j
  <1>8. hits' = {n \in {order[k] : k \in 1..tried'} : Match(n)}
    BY <1>5, <1>6, <1>7
  <1>9. ASSUME NEW f \in Fields
        PROVE  LET setting == {n \in hits' : Sets(n, f)}
               IN IF setting = {} THEN style'[f] = Plain[f]
                  ELSE \E n \in setting :
                         /\ style'[f] = Setting(rules[n].style, f, context)
                         /\ \A m \in setting \ {n} : Outranks(rules, n, m)
    <2> DEFINE before == {n \in hits : Sets(n, f)}
               after == {n \in hits' : Sets(n, f)}
    <2>1. IF before = {} THEN style[f] = Plain[f]
          ELSE \E n \in before :
                 /\ style[f] = Setting(rules[n].style, f, context)
                 /\ \A m \in before \ {n} : Outranks(rules, n, m)
      BY DEF ByPriority, Sets
    <2>2. CASE ~Match(j)
      BY <2>1, <2>2, <1>7
    <2>3. CASE Match(j) /\ ~Sets(j, f)
      <3>1. after = before
        BY <2>3, <1>7
      <3>2. style'[f] = style[f]
        BY <2>3, <1>7 DEF Applied, Sets
      <3> QED  BY <3>1, <3>2, <2>1
    <2>4. CASE Match(j) /\ Sets(j, f)
      <3>1. j \in after
        BY <2>4, <1>7
      <3>2. style'[f] = Setting(rules[j].style, f, context)
        BY <2>4, <1>7 DEF Applied, Sets
      <3>3. \A m \in after \ {j} : Outranks(rules, j, m)
        BY <2>4, <1>3, <1>6, <1>7
      <3> QED  BY <3>1, <3>2, <3>3
    <2> QED  BY <2>2, <2>3, <2>4
  <1> QED  BY <1>1, <1>2, <1>8, <1>9 DEF ByPriority, Match, Sets, Outranks
-----------------------------------------------------------------------------
(* The conditions.                                                           *)

LEMMA ListIsSequence ==
    ASSUME NEW list, IsList(list)
    PROVE  Len(list) \in Nat /\ DOMAIN list = 1..Len(list)
  <1> DEFINE S == {list[i] : i \in DOMAIN list}
  <1>1. list \in Seq(S)
    BY DEF IsList
  <1> HIDE DEF S
  <1> QED  BY <1>1

(* What a condition's nodes are. *)
LEMMA CondFacts ==
    ASSUME NEW when, IsCond(when)
    PROVE  /\ Len(when) \in Nat /\ DOMAIN when = 1..Len(when) /\ 1 \in 1..Len(when)
           /\ \A n \in 1..Len(when) :
                /\ when[n].node \in {"leaf", "all", "any", "not"}
                /\ Len(when[n].subs) \in Nat /\ DOMAIN when[n].subs = 1..Len(when[n].subs)
                /\ \A i \in DOMAIN when[n].subs : when[n].subs[i] \in n + 1..Len(when)
                /\ when[n].node = "not" => Len(when[n].subs) = 1
  <1>1. IsList(when) /\ when # <<>>
    BY DEF IsCond
  <1>2. Len(when) \in Nat /\ DOMAIN when = 1..Len(when)
    BY <1>1, ListIsSequence
  <1>3. 1 \in 1..Len(when)
    <2>1. Len(when) # 0
      <3> DEFINE S == {when[i] : i \in DOMAIN when}
      <3>1. when \in Seq(S)
        BY <1>1 DEF IsList
      <3> HIDE DEF S
      <3> QED  BY <1>1, <3>1, EmptySeq
    <2> QED  BY <1>2, <2>1
  <1>4. ASSUME NEW n \in 1..Len(when)
        PROVE  /\ when[n].node \in {"leaf", "all", "any", "not"}
               /\ IsList(when[n].subs)
               /\ \A i \in DOMAIN when[n].subs : when[n].subs[i] \in n + 1..Len(when)
               /\ when[n].node = "not" => Len(when[n].subs) = 1
    BY <1>2 DEF IsCond
  <1> QED  BY <1>2, <1>3, <1>4, ListIsSequence

(* The verdict of node n, given those of the nodes below it. *)
NodeVerdict(when, c, v, n) ==
    LET node == when[n]
        below == [i \in DOMAIN node.subs |-> v[node.subs[i]]]
    IN CASE node.node = "leaf" -> LeafVerdict(node, c)
         [] node.node = "all"  -> Decided(below, "true")
         [] node.node = "any"  -> Decided(below, "false")
         [] node.node = "not"  -> IF below[1] = "error" THEN "error"
                                  ELSE Holds(below[1] = "false")

(* v has the verdicts of the nodes in S. *)
IsVerdict(when, c, S, v) == v = [n \in S |-> NodeVerdict(when, c, v, n)]

LEMMA SameBelow ==
    ASSUME NEW when, NEW c, NEW u, NEW v, NEW n,
           \A i \in DOMAIN when[n].subs : u[when[n].subs[i]] = v[when[n].subs[i]]
    PROVE  NodeVerdict(when, c, u, n) = NodeVerdict(when, c, v, n)
  <1> DEFINE subs == when[n].subs
             bu == [i \in DOMAIN subs |-> u[subs[i]]]
             bv == [i \in DOMAIN subs |-> v[subs[i]]]
  <1>1. bu = bv
    OBVIOUS
  <1> HIDE DEF subs, bu, bv
  <1>2. /\ NodeVerdict(when, c, u, n) =
             CASE when[n].node = "leaf" -> LeafVerdict(when[n], c)
               [] when[n].node = "all"  -> Decided(bu, "true")
               [] when[n].node = "any"  -> Decided(bu, "false")
               [] when[n].node = "not"  -> IF bu[1] = "error" THEN "error"
                                           ELSE Holds(bu[1] = "false")
        /\ NodeVerdict(when, c, v, n) =
             CASE when[n].node = "leaf" -> LeafVerdict(when[n], c)
               [] when[n].node = "all"  -> Decided(bv, "true")
               [] when[n].node = "any"  -> Decided(bv, "false")
               [] when[n].node = "not"  -> IF bv[1] = "error" THEN "error"
                                           ELSE Holds(bv[1] = "false")
    BY DEF NodeVerdict, bu, bv, subs
  <1> QED  BY <1>1, <1>2, Zenon

(* The last nodes have their verdicts, by induction on how many they are. *)
LEMMA VerdictsAreDefined ==
    ASSUME NEW when, IsCond(when), NEW c, NEW m \in 0..Len(when)
    PROVE  \E v : IsVerdict(when, c, Len(when) - m + 1..Len(when), v)
  <1> DEFINE L == Len(when)
             Nodes(k) == L - k + 1..L
             T == {k \in 0..L : ~ \E v : IsVerdict(when, c, Nodes(k), v)}
  <1>1. /\ L \in Nat /\ DOMAIN when = 1..L
        /\ \A n \in 1..L : \A i \in DOMAIN when[n].subs : when[n].subs[i] \in n + 1..L
    BY CondFacts
  <1> SUFFICES ASSUME T # {}
               PROVE  FALSE
    OBVIOUS
  <1>2. PICK k \in T : \A l \in T : k <= l
    <2>1. T \subseteq Nat
      OBVIOUS
    <2> HIDE DEF T
    <2> QED  BY <2>1, LeastNumber
  <1>3. k \in 0..L /\ k \in Nat /\ ~ \E v : IsVerdict(when, c, Nodes(k), v)
    OBVIOUS
  <1> HIDE DEF L
  <1>4. CASE k = 0
    <2>1. Nodes(0) = {}
      BY <1>1
    <2> HIDE DEF Nodes
    <2> DEFINE v == [n \in {} |-> ""]
    <2>2. IsVerdict(when, c, {}, v)
      BY DEF IsVerdict
    <2> HIDE DEF v
    <2> QED  BY <1>3, <1>4, <2>1, <2>2
  <1>5. CASE k # 0
    <2>1. k - 1 \in 0..L /\ k - 1 \notin T
      <3>1. k - 1 \in 0..L /\ ~(k <= k - 1)
        BY <1>1, <1>3, <1>5
      <3> HIDE DEF T
      <3> QED  BY <1>2, <3>1
    <2>2. PICK h : IsVerdict(when, c, Nodes(k - 1), h)
      BY <2>1
    <2> DEFINE v == [n \in Nodes(k) |-> NodeVerdict(when, c, h, n)]
    <2>3. /\ Nodes(k - 1) \subseteq Nodes(k)
          /\ \A n \in Nodes(k) : n \in 1..L /\ n + 1..L \subseteq Nodes(k - 1)
      BY <1>1, <1>3, <1>5
    <2> HIDE DEF Nodes
    <2>4. \A n \in Nodes(k - 1) : h[n] = NodeVerdict(when, c, h, n)
      BY <2>2 DEF IsVerdict
    <2>5. \A n \in Nodes(k - 1) : v[n] = h[n]
      BY <2>3, <2>4
    <2>6. ASSUME NEW n \in Nodes(k)
          PROVE  v[n] = NodeVerdict(when, c, v, n)
      <3>1. v[n] = NodeVerdict(when, c, h, n)
        OBVIOUS
      <3> HIDE DEF v
      <3>2. \A i \in DOMAIN when[n].subs : h[when[n].subs[i]] = v[when[n].subs[i]]
        BY <1>1, <2>3, <2>5
      <3>3. NodeVerdict(when, c, h, n) = NodeVerdict(when, c, v, n)
        BY <3>2, SameBelow
      <3> QED  BY <3>1, <3>3
    <2>7. v = [n \in Nodes(k) |-> v[n]]
      OBVIOUS
    <2> HIDE DEF v
    <2>8. IsVerdict(when, c, Nodes(k), v)
      BY <2>6, <2>7 DEF IsVerdict
    <2> QED  BY <1>3, <2>8
  <1> QED  BY <1>4, <1>5

LEMMA VerdictUnfolds ==
    ASSUME NEW when, IsCond(when), NEW c
    PROVE  \E v : /\ Verdict(when, c) = v[1]
                  /\ \A n \in 1..Len(when) : v[n] = NodeVerdict(when, c, v, n)
  <1>1. Len(when) \in Nat /\ DOMAIN when = 1..Len(when)
    BY CondFacts
  <1>2. \E v : IsVerdict(when, c, DOMAIN when, v)
    <2>1. Len(when) \in 0..Len(when) /\ Len(when) - Len(when) + 1..Len(when) = 1..Len(when)
      BY <1>1
    <2> QED  BY <1>1, <2>1, VerdictsAreDefined
  <1> DEFINE v == CHOOSE f : IsVerdict(when, c, DOMAIN when, f)
  <1>3. Verdict(when, c) = v[1]
    BY Zenon DEF Verdict, IsVerdict, NodeVerdict
  <1>4. IsVerdict(when, c, DOMAIN when, v)
    BY <1>2, Zenon
  <1> HIDE DEF v
  <1>5. \A n \in 1..Len(when) : v[n] = NodeVerdict(when, c, v, n)
    BY <1>1, <1>4 DEF IsVerdict
  <1> QED  BY <1>3, <1>5

(* What is decided is the neutral verdict, or one that is not. *)
LEMMA DecidedVerdict ==
    ASSUME NEW verdicts, NEW n \in Nat, DOMAIN verdicts = 1..n, NEW neutral
    PROVE  \/ /\ Decided(verdicts, neutral) = neutral
              /\ \A i \in 1..n : verdicts[i] = neutral
           \/ \E i \in 1..n : /\ Decided(verdicts, neutral) = verdicts[i]
                              /\ verdicts[i] # neutral
  <1> DEFINE others == {i \in DOMAIN verdicts : verdicts[i] # neutral}
  <1>1. CASE others = {}
    BY <1>1 DEF Decided
  <1>2. CASE others # {}
    <2>1. \E i \in others : \A j \in others : i <= j
      <3>1. others \subseteq Nat
        OBVIOUS
      <3> HIDE DEF others
      <3> QED  BY <1>2, <3>1, LeastNumber
    <2>2. Min(others) \in others
      BY <2>1 DEF Min
    <2>3. Decided(verdicts, neutral) = verdicts[Min(others)]
      BY <1>2 DEF Decided
    <2> QED  BY <2>2, <2>3
  <1> QED  BY <1>1, <1>2

(* An error comes from a leaf. *)
LEMMA ErrorsComeFromLeaves ==
    ASSUME NEW when, IsCond(when), NEW c, Verdict(when, c) = "error"
    PROVE  \E n \in DOMAIN when : when[n].node = "leaf" /\ LeafVerdict(when[n], c) = "error"
  <1> DEFINE L == Len(when)
  <1>1. /\ L \in Nat /\ DOMAIN when = 1..L /\ 1 \in 1..L
        /\ \A n \in 1..L :
             /\ when[n].node \in {"leaf", "all", "any", "not"}
             /\ Len(when[n].subs) \in Nat /\ DOMAIN when[n].subs = 1..Len(when[n].subs)
             /\ \A i \in DOMAIN when[n].subs : when[n].subs[i] \in n + 1..L
             /\ when[n].node = "not" => Len(when[n].subs) = 1
    BY CondFacts
  <1>2. PICK v : /\ Verdict(when, c) = v[1]
                 /\ \A n \in 1..L : v[n] = NodeVerdict(when, c, v, n)
    BY VerdictUnfolds
  <1> DEFINE T == {k \in 0..L : L - k \in 1..L /\ v[L - k] = "error"}
  <1> HIDE DEF L
  <1>3. PICK k \in T : \A l \in T : k <= l
    <2>1. T \subseteq Nat
      OBVIOUS
    <2>2. L - 1 \in 0..L /\ L - (L - 1) = 1
      BY <1>1
    <2>3. L - 1 \in T
      BY <1>1, <1>2, <2>2
    <2> HIDE DEF T
    <2> QED  BY <2>1, <2>3, LeastNumber
  <1> DEFINE n == L - k
             subs == when[n].subs
             below == [i \in DOMAIN subs |-> v[subs[i]]]
  <1>4. n \in 1..L /\ v[n] = "error"
    BY <1>1, <1>3
  <1>5. \A m \in n + 1..L : v[m] # "error"
    <2> SUFFICES ASSUME NEW m \in n + 1..L, v[m] = "error"
                 PROVE  FALSE
      OBVIOUS
    <2>1. L - m \in 0..L /\ L - (L - m) = m /\ m \in 1..L /\ ~(k <= L - m)
      BY <1>1, <1>3
    <2>2. L - m \in T
      BY <2>1
    <2> HIDE DEF T
    <2> QED  BY <1>3, <2>1, <2>2
  <1> HIDE DEF n, T
  <1>6. /\ Len(subs) \in Nat /\ DOMAIN below = 1..Len(subs)
        /\ \A i \in 1..Len(subs) : below[i] # "error"
    BY <1>1, <1>4, <1>5
  <1>7. v[n] = CASE when[n].node = "leaf" -> LeafVerdict(when[n], c)
                 [] when[n].node = "all"  -> Decided(below, "true")
                 [] when[n].node = "any"  -> Decided(below, "false")
                 [] when[n].node = "not"  -> IF below[1] = "error" THEN "error"
                                             ELSE Holds(below[1] = "false")
    BY <1>2, <1>4 DEF NodeVerdict
  <1>8. when[n].node = "not" => 1 \in 1..Len(subs)
    <2>1. when[n].node = "not" => Len(subs) = 1
      BY <1>1, <1>4
    <2>2. 1 \in 1..1
      OBVIOUS
    <2> HIDE DEF subs
    <2> QED  BY <2>1, <2>2, Zenon
  <1> HIDE DEF below, subs
  <1>9. Decided(below, "true") # "error" /\ Decided(below, "false") # "error"
    <2>1. ASSUME NEW neutral \in {"true", "false"}
          PROVE  Decided(below, neutral) # "error"
      BY <1>6, DecidedVerdict
    <2> QED  BY <2>1
  <1>10. when[n].node = "leaf"
    <2> SUFFICES ASSUME when[n].node # "leaf"
                 PROVE  FALSE
      OBVIOUS
    <2>1. when[n].node \in {"all", "any", "not"}
      BY <1>1, <1>4
    <2>2. CASE when[n].node = "all"
      BY <1>4, <1>7, <1>9, <2>2
    <2>3. CASE when[n].node = "any"
      BY <1>4, <1>7, <1>9, <2>3
    <2>4. CASE when[n].node = "not"
      <3>1. v[n] = Holds(below[1] = "false")
        BY <1>6, <1>7, <1>8, <2>4
      <3> QED  BY <1>4, <3>1 DEF Holds
    <2> QED  BY <2>1, <2>2, <2>3, <2>4
  <1> QED  BY <1>1, <1>4, <1>7, <1>10

LEMMA HoldsIsNoError ==
    ASSUME NEW p
    PROVE  Holds(p) # "error"
  BY Zenon DEF Holds

LEMMA FlagNames ==
    Flags = {"is_group_first_row", "is_group_last_row", "is_group_first_col",
             "is_group_last_col", "is_sheet_first_row", "is_sheet_last_row"}
  <1>1. DOMAIN FlagAt = {"group_first_row", "group_last_row", "group_first_col",
                         "group_last_col", "sheet_first_row", "sheet_last_row"}
    BY DEF FlagAt
  <1>2. /\ FlagAt["group_first_row"] = "is_group_first_row"
        /\ FlagAt["group_last_row"] = "is_group_last_row"
        /\ FlagAt["group_first_col"] = "is_group_first_col"
        /\ FlagAt["group_last_col"] = "is_group_last_col"
        /\ FlagAt["sheet_first_row"] = "is_sheet_first_row"
        /\ FlagAt["sheet_last_row"] = "is_sheet_last_row"
    BY DEF FlagAt
  <1> QED  BY <1>1, <1>2 DEF Flags

LEMMA TextErrors ==
    ASSUME NEW s, NEW leaf, TextVerdict(s, leaf) = "error"
    PROVE  leaf.op \notin TextOps
  <1> SUFFICES ASSUME leaf.op \in TextOps
               PROVE  FALSE
    OBVIOUS
  <1>1. CASE leaf.op = "eq"
    <2>1. TextVerdict(s, leaf) = Holds(leaf.value = <<"string", s>>)
      BY <1>1 DEF TextVerdict
    <2> QED  BY <2>1, HoldsIsNoError
  <1>2. CASE leaf.op = "ne"
    <2>1. TextVerdict(s, leaf) = Holds(leaf.value[1] = "string" /\ leaf.value[2] # s)
      BY <1>2 DEF TextVerdict
    <2> QED  BY <2>1, HoldsIsNoError
  <1>3. CASE leaf.op = "in"
    <2>1. TextVerdict(s, leaf)
            = Holds(\E i \in DOMAIN leaf.values : leaf.values[i] = <<"string", s>>)
      BY <1>3 DEF TextVerdict
    <2> QED  BY <2>1, HoldsIsNoError
  <1> QED  BY <1>1, <1>2, <1>3 DEF TextOps

LEMMA FlagErrors ==
    ASSUME NEW flag, NEW leaf, FlagVerdict(flag, leaf) = "error"
    PROVE  leaf.op \notin FlagOps
  <1> SUFFICES ASSUME leaf.op \in FlagOps
               PROVE  FALSE
    OBVIOUS
  <1>1. CASE leaf.value[1] # "bool"
    BY <1>1 DEF FlagVerdict
  <1>2. CASE leaf.value[1] = "bool" /\ leaf.op = "eq"
    <2>1. FlagVerdict(flag, leaf) = Holds(flag = leaf.value[2])
      BY <1>2 DEF FlagVerdict
    <2> QED  BY <2>1, HoldsIsNoError
  <1>3. CASE leaf.value[1] = "bool" /\ leaf.op = "ne"
    <2>1. FlagVerdict(flag, leaf) = Holds(flag # leaf.value[2])
      BY <1>3 DEF FlagVerdict
    <2> QED  BY <2>1, HoldsIsNoError
  <1> QED  BY <1>1, <1>2, <1>3 DEF FlagOps

LEMMA NumberErrors ==
    ASSUME NEW x, NEW leaf, NumberVerdict(x, leaf) = "error"
    PROVE  leaf.op \notin NumberOps \/ (leaf.op = "between" /\ Len(leaf.values) # 2)
  <1> DEFINE d == x[2]
             n == IF leaf.mod > 0 THEN Modulo(x[1], leaf.mod * d) ELSE x[1]
             v == IF leaf.value[1] = "number" THEN leaf.value[2] * d ELSE 0
             Compared(p) == Holds(leaf.value[1] = "number" /\ p)
             bounds == leaf.values
  <1>1. NumberVerdict(x, leaf) =
          CASE leaf.op = "odd"  -> Holds(Magnitude(n) % (2 * d) = d)
            [] leaf.op = "even" -> Holds(Magnitude(n) % (2 * d) = 0)
            [] leaf.op = "eq"   -> Compared(n = v)
            [] leaf.op = "ne"   -> Compared(n # v)
            [] leaf.op = "gt"   -> Compared(n > v)
            [] leaf.op = "gte"  -> Compared(n >= v)
            [] leaf.op = "lt"   -> Compared(n < v)
            [] leaf.op = "lte"  -> Compared(n <= v)
            [] leaf.op = "between" ->
                 IF Len(bounds) # 2 THEN "error"
                 ELSE Holds(/\ bounds[1][1] = "number" /\ bounds[2][1] = "number"
                            /\ bounds[1][2] * d <= n /\ n <= bounds[2][2] * d)
            [] OTHER -> "error"
    BY Zenon DEF NumberVerdict
  <1>2. /\ Holds(Magnitude(n) % (2 * d) = d) # "error"
        /\ Holds(Magnitude(n) % (2 * d) = 0) # "error"
        /\ Holds(/\ bounds[1][1] = "number" /\ bounds[2][1] = "number"
                 /\ bounds[1][2] * d <= n /\ n <= bounds[2][2] * d) # "error"
    BY HoldsIsNoError, Zenon
  <1>3. \A p : Compared(p) # "error"
    BY HoldsIsNoError, Zenon
  <1>4. /\ Compared(n = v) # "error" /\ Compared(n # v) # "error"
        /\ Compared(n > v) # "error" /\ Compared(n >= v) # "error"
        /\ Compared(n < v) # "error" /\ Compared(n <= v) # "error"
    BY HoldsIsNoError, Zenon
  <1> DEFINE odd == Holds(Magnitude(n) % (2 * d) = d)
             even == Holds(Magnitude(n) % (2 * d) = 0)
             eq == Compared(n = v)
             ne == Compared(n # v)
             gt == Compared(n > v)
             gte == Compared(n >= v)
             lt == Compared(n < v)
             lte == Compared(n <= v)
             between == Holds(/\ bounds[1][1] = "number" /\ bounds[2][1] = "number"
                              /\ bounds[1][2] * d <= n /\ n <= bounds[2][2] * d)
  <1>5. "error" =
          CASE leaf.op = "odd"  -> odd
            [] leaf.op = "even" -> even
            [] leaf.op = "eq"   -> eq
            [] leaf.op = "ne"   -> ne
            [] leaf.op = "gt"   -> gt
            [] leaf.op = "gte"  -> gte
            [] leaf.op = "lt"   -> lt
            [] leaf.op = "lte"  -> lte
            [] leaf.op = "between" -> IF Len(bounds) # 2 THEN "error" ELSE between
            [] OTHER -> "error"
    BY <1>1, Zenon
  <1>6. /\ odd # "error" /\ even # "error" /\ eq # "error" /\ ne # "error" /\ gt # "error"
        /\ gte # "error" /\ lt # "error" /\ lte # "error" /\ between # "error"
    BY <1>2, <1>4
  <1> HIDE DEF odd, even, eq, ne, gt, gte, lt, lte, between
  <1> QED  BY <1>5, <1>6 DEF NumberOps

(* What a valid leaf that gives an error looks like. *)
LEMMA LeafErrors ==
    ASSUME NEW leaf, leaf.node = "leaf", ValidNode(leaf), NEW c, LeafVerdict(leaf, c) = "error"
    PROVE  \/ leaf.ctx \in Texts /\ leaf.op \notin TextOps
           \/ leaf.ctx = "group_path" /\ leaf.op # "prefix"
           \/ leaf.ctx \in Flags /\ leaf.op \notin FlagOps
           \/ leaf.ctx \in Numbers /\ leaf.op \notin NumberOps
           \/ leaf.ctx \in Numbers /\ leaf.op = "between" /\ Len(leaf.values) # 2
  <1>1. CASE leaf.ctx \in Texts
    <2>1. leaf.ctx # "group_path" /\ leaf.ctx \notin Flags /\ leaf.ctx \notin Numbers
      BY <1>1, FlagNames DEF Texts, Numbers
    <2>2. LeafVerdict(leaf, c) = TextVerdict(c[leaf.ctx], leaf)
      BY <1>1, <2>1, Zenon DEF LeafVerdict
    <2> QED  BY <1>1, <2>2, TextErrors
  <1>2. CASE leaf.ctx = "group_path"
    <2>1. leaf.ctx \notin Texts /\ leaf.ctx \notin Flags /\ leaf.ctx \notin Numbers
      BY <1>2, FlagNames DEF Texts, Numbers
    <2>2. LeafVerdict(leaf, c) = PathVerdict(c.group_path, leaf)
      BY <1>2, <2>1, Zenon DEF LeafVerdict
    <2>3. leaf.op # "prefix"
      BY <2>2, HoldsIsNoError, Zenon DEF PathVerdict
    <2> QED  BY <1>2, <2>3
  <1>3. CASE leaf.ctx \in Flags
    <2>1. leaf.ctx \notin Texts /\ leaf.ctx # "group_path" /\ leaf.ctx \notin Numbers
      BY <1>3, FlagNames DEF Texts, Numbers
    <2>2. LeafVerdict(leaf, c) = FlagVerdict(c[leaf.ctx], leaf)
      BY <1>3, <2>1, Zenon DEF LeafVerdict
    <2> QED  BY <1>3, <2>2, FlagErrors
  <1>4. CASE leaf.ctx \in Numbers
    <2>1. leaf.ctx \notin Texts /\ leaf.ctx # "group_path" /\ leaf.ctx \notin Flags
      BY <1>4, FlagNames DEF Texts, Numbers
    <2>2. LeafVerdict(leaf, c) = IF c[leaf.ctx][2] = 0 THEN "false"
                                 ELSE NumberVerdict(c[leaf.ctx], leaf)
      BY <1>4, <2>1, Zenon DEF LeafVerdict
    <2>3. NumberVerdict(c[leaf.ctx], leaf) = "error"
      BY <2>2
    <2> QED  BY <1>4, <2>3, NumberErrors
  <1> QED  BY <1>1, <1>2, <1>3, <1>4 DEF ValidNode
-----------------------------------------------------------------------------
(* The overrides' rules.                                                     *)

(* The leaves an override's condition is made of. *)
AnchorLeaves(scope) ==
    {HasPrefix(scope.path), Is("row_type", scope.row_type), Is("col_role", "metric"),
     Is("metric_key", scope.metric), Is("col_role", "dimension"), Is("dim_key", scope.dim)}

LEMMA AnchorsAreLeaves ==
    ASSUME NEW scope
    PROVE  Anchors(scope) \in Seq(AnchorLeaves(scope))
  <1> DEFINE S == AnchorLeaves(scope)
             a == IF "path" \in DOMAIN scope THEN <<HasPrefix(scope.path)>> ELSE <<>>
             b == IF "row_type" \in DOMAIN scope THEN <<Is("row_type", scope.row_type)>> ELSE <<>>
             m == IF "metric" \in DOMAIN scope
                  THEN <<Is("col_role", "metric"), Is("metric_key", scope.metric)>> ELSE <<>>
             d == IF "dim" \in DOMAIN scope
                  THEN <<Is("col_role", "dimension"), Is("dim_key", scope.dim)>> ELSE <<>>
  <1>1. /\ HasPrefix(scope.path) \in S /\ Is("row_type", scope.row_type) \in S
        /\ Is("col_role", "metric") \in S /\ Is("metric_key", scope.metric) \in S
        /\ Is("col_role", "dimension") \in S /\ Is("dim_key", scope.dim) \in S
    BY DEF AnchorLeaves
  <1> HIDE DEF S
  <1>2. /\ a \in Seq(S) /\ b \in Seq(S) /\ m \in Seq(S) /\ d \in Seq(S)
    BY <1>1
  <1>3. Anchors(scope) = a \o b \o m \o d
    BY DEF Anchors
  <1> HIDE DEF a, b, m, d
  <1>4. a \o b \in Seq(S) /\ (a \o b) \o m \in Seq(S) /\ ((a \o b) \o m) \o d \in Seq(S)
    BY <1>2, ConcatProperties
  <1> QED  BY <1>3, <1>4 DEF S

AllRoot(leaves) == [node |-> "all", subs |-> [i \in DOMAIN leaves |-> i + 1]]

(* The condition all of these leaves. *)
LEMMA AllNodes ==
    ASSUME NEW S, NEW leaves \in Seq(S)
    PROVE  /\ Len(All(leaves)) = Len(leaves) + 1
           /\ All(leaves) \in Seq(S \cup {AllRoot(leaves)})
           /\ All(leaves)[1] = AllRoot(leaves)
           /\ \A i \in 1..Len(leaves) : All(leaves)[i + 1] = leaves[i]
  <1> DEFINE root == AllRoot(leaves)
             R == S \cup {root}
  <1>1. All(leaves) = <<root>> \o leaves
    BY DEF All, AllRoot
  <1>2. root \in R /\ S \subseteq R
    OBVIOUS
  <1> HIDE DEF root, R
  <1>3. <<root>> \in Seq(R) /\ leaves \in Seq(R) /\ Len(<<root>>) = 1 /\ <<root>>[1] = root
    BY <1>2
  <1>4. /\ All(leaves) \in Seq(R) /\ Len(All(leaves)) = 1 + Len(leaves)
        /\ \A i \in 1..1 + Len(leaves) :
             All(leaves)[i] = IF i <= 1 THEN <<root>>[i] ELSE leaves[i - 1]
    BY <1>1, <1>3, ConcatProperties
  <1>5. Len(leaves) \in Nat
    OBVIOUS
  <1>6. All(leaves)[1] = root
    BY <1>3, <1>4, <1>5
  <1>7. \A i \in 1..Len(leaves) : All(leaves)[i + 1] = leaves[i]
    <2> SUFFICES ASSUME NEW i \in 1..Len(leaves)
                 PROVE  All(leaves)[i + 1] = leaves[i]
      OBVIOUS
    <2>1. i + 1 \in 1..1 + Len(leaves) /\ ~(i + 1 <= 1) /\ i + 1 - 1 = i
      BY <1>5
    <2> QED  BY <1>4, <2>1
  <1>8. Len(All(leaves)) = Len(leaves) + 1
    BY <1>4, <1>5
  <1> QED  BY <1>4, <1>6, <1>7, <1>8 DEF R, root

LEMMA SequenceIsList ==
    ASSUME NEW n \in Nat, NEW list, DOMAIN list = 1..n, list = [i \in 1..n |-> list[i]]
    PROVE  IsList(list) /\ Len(list) = n
  <1> DEFINE S == {list[i] : i \in DOMAIN list}
  <1>1. \A i \in 1..n : list[i] \in S
    OBVIOUS
  <1> HIDE DEF S
  <1>2. list \in [1..n -> S]
    BY <1>1
  <1>3. list \in Seq(S) /\ Len(list) = n
    BY <1>2
  <1> QED  BY <1>3 DEF IsList, S

LEMMA AllIsCond ==
    ASSUME NEW S, NEW leaves \in Seq(S),
           \A l \in S : l.node = "leaf" /\ l.subs = <<>>
    PROVE  IsCond(All(leaves))
  <1> DEFINE m == Len(leaves)
             when == All(leaves)
             root == AllRoot(leaves)
             R == S \cup {root}
  <1>1. /\ m \in Nat /\ DOMAIN leaves = 1..m
        /\ Len(when) = m + 1 /\ when \in Seq(R) /\ when[1] = root
        /\ \A i \in 1..m : when[i + 1] = leaves[i]
    <2>1. Len(leaves) \in Nat /\ DOMAIN leaves = 1..Len(leaves)
      OBVIOUS
    <2> QED  BY <2>1, AllNodes
  <1>2. IsList(root.subs) /\ Len(root.subs) = m /\ root.node = "all"
        /\ DOMAIN root.subs = 1..m /\ \A i \in 1..m : root.subs[i] = i + 1
    <2>1. root.node = "all" /\ root.subs = [i \in DOMAIN leaves |-> i + 1]
      BY Zenon DEF AllRoot
    <2> DEFINE subs == [i \in 1..m |-> i + 1]
    <2>2. DOMAIN subs = 1..m /\ \A i \in 1..m : subs[i] = i + 1
      OBVIOUS
    <2>3. subs = [i \in 1..m |-> subs[i]]
      OBVIOUS
    <2>4. root.subs = subs
      BY <1>1, <2>1
    <2> HIDE DEF subs, root, m
    <2>5. IsList(subs) /\ Len(subs) = m
      BY <1>1, <2>2, <2>3, SequenceIsList
    <2> QED  BY <2>1, <2>2, <2>4, <2>5
  <1> HIDE DEF when, m, root
  <1>3. IsList(when) /\ when # <<>> /\ DOMAIN when = 1..m + 1
    <2>1. DOMAIN when = 1..m + 1 /\ when = [i \in 1..m + 1 |-> when[i]] /\ m + 1 \in Nat
      BY <1>1
    <2>2. IsList(when)
      BY <2>1, SequenceIsList
    <2>3. when # <<>>
      BY <1>1
    <2> QED  BY <2>1, <2>2, <2>3
  <1>4. ASSUME NEW n \in 1..m + 1
        PROVE  /\ when[n].node \in {"leaf", "all", "any", "not"}
               /\ IsList(when[n].subs)
               /\ \A i \in DOMAIN when[n].subs : when[n].subs[i] \in n + 1..Len(when)
               /\ when[n].node = "not" => Len(when[n].subs) = 1
    <2>1. CASE n = 1
      <3>1. \A i \in 1..m : i + 1 \in 1 + 1..m + 1
        BY <1>1
      <3> QED  BY <1>1, <1>2, <2>1, <3>1
    <2>2. CASE n # 1
      <3>1. n - 1 \in 1..m /\ n - 1 + 1 = n
        BY <1>1, <2>2
      <3>2. when[n] = leaves[n - 1] /\ leaves[n - 1] \in S
        BY <1>1, <3>1
      <3>3. when[n].node = "leaf" /\ when[n].subs = <<>>
        BY <3>2
      <3>4. IsList(<<>>) /\ DOMAIN <<>> = {}
        <4>1. DOMAIN <<>> = {} /\ <<>> \in Seq({})
          OBVIOUS
        <4>2. {<<>>[i] : i \in DOMAIN <<>>} = {}
          BY <4>1
        <4> QED  BY <4>1, <4>2 DEF IsList
      <3> QED  BY <3>3, <3>4
    <2> QED  BY <2>1, <2>2
  <1>5. IsCond(when)
    BY <1>3, <1>4, Zenon DEF IsCond
  <1> QED  BY <1>5 DEF when

(* An override's condition never fails. *)
LEMMA AnchorsAreConds ==
    ASSUME NEW scope
    PROVE  IsCond(All(Anchors(scope)))
  <1>1. \A l \in AnchorLeaves(scope) : l.node = "leaf" /\ l.subs = <<>>
    BY DEF AnchorLeaves, Is, HasPrefix
  <1> QED  BY <1>1, AnchorsAreLeaves, AllIsCond

(* What the leaves of an override say. *)
LEMMA IsVerdicts ==
    ASSUME NEW c, NEW name \in Texts, NEW v
    PROVE  LeafVerdict(Is(name, v), c) = Holds(v = c[name])
  <1> DEFINE leaf == Is(name, v)
  <1>1. leaf.ctx = name /\ leaf.op = "eq" /\ leaf.value = <<"string", v>>
    BY DEF Is
  <1> HIDE DEF leaf
  <1>2. leaf.ctx # "group_path" /\ leaf.ctx \notin Flags /\ leaf.ctx \notin Numbers
    BY <1>1, FlagNames DEF Texts, Numbers
  <1>3. LeafVerdict(leaf, c) = TextVerdict(c[leaf.ctx], leaf)
    BY <1>1, <1>2, Zenon DEF LeafVerdict
  <1>4. TextVerdict(c[name], leaf) = Holds(leaf.value = <<"string", c[name]>>)
    BY <1>1 DEF TextVerdict
  <1>5. (leaf.value = <<"string", c[name]>>) <=> v = c[name]
    BY <1>1
  <1>6. TextVerdict(c[name], leaf) = Holds(v = c[name])
    BY <1>4, <1>5 DEF Holds
  <1> QED  BY <1>1, <1>3, <1>6 DEF leaf

LEMMA PrefixVerdict ==
    ASSUME NEW c, NEW path
    PROVE  LeafVerdict(HasPrefix(path), c)
             = Holds(/\ Len(HasPrefix(path).values) <= Len(c.group_path)
                     /\ \A i \in DOMAIN path : path[i] = c.group_path[i])
  <1> DEFINE leaf == HasPrefix(path)
  <1>1. /\ leaf.ctx = "group_path" /\ leaf.op = "prefix"
        /\ leaf.values = [i \in DOMAIN path |-> <<"string", path[i]>>]
    BY DEF HasPrefix
  <1> HIDE DEF leaf
  <1>2. leaf.ctx \notin Texts /\ leaf.ctx \notin Flags /\ leaf.ctx \notin Numbers
    BY <1>1, FlagNames DEF Texts, Numbers
  <1>3. LeafVerdict(leaf, c) = PathVerdict(c.group_path, leaf)
    BY <1>1, <1>2, Zenon DEF LeafVerdict
  <1>4. PathVerdict(c.group_path, leaf)
          = Holds(/\ Len(leaf.values) <= Len(c.group_path)
                  /\ \A i \in DOMAIN leaf.values :
                       leaf.values[i] = <<"string", c.group_path[i]>>)
    BY <1>1 DEF PathVerdict
  <1>5. (\A i \in DOMAIN leaf.values : leaf.values[i] = <<"string", c.group_path[i]>>)
          <=> \A i \in DOMAIN path : path[i] = c.group_path[i]
    <2>1. DOMAIN leaf.values = DOMAIN path
      BY <1>1
    <2>2. \A i \in DOMAIN path : leaf.values[i] = <<"string", path[i]>>
      BY <1>1
    <2>3. \A i \in DOMAIN path :
            leaf.values[i] = <<"string", c.group_path[i]>> <=> path[i] = c.group_path[i]
      BY <2>2
    <2> QED  BY <2>1, <2>3, Zenon
  <1>6. PathVerdict(c.group_path, leaf)
          = Holds(/\ Len(leaf.values) <= Len(c.group_path)
                  /\ \A i \in DOMAIN path : path[i] = c.group_path[i])
    BY <1>4, <1>5, Zenon DEF Holds
  <1> QED  BY <1>3, <1>6, Zenon DEF leaf

LEMMA AnchorVerdicts ==
    ASSUME NEW scope, NEW c, NEW l \in AnchorLeaves(scope)
    PROVE  LeafVerdict(l, c) # "error"
  <1>1. /\ "row_type" \in Texts /\ "col_role" \in Texts /\ "metric_key" \in Texts
        /\ "dim_key" \in Texts
    BY DEF Texts
  <1>2. ASSUME NEW name \in Texts, NEW v
        PROVE  LeafVerdict(Is(name, v), c) # "error"
    BY IsVerdicts, HoldsIsNoError, Zenon
  <1>3. \A path : LeafVerdict(HasPrefix(path), c) # "error"
    <2> TAKE path
    <2> QED  BY PrefixVerdict, HoldsIsNoError, Zenon
  <1> QED  BY <1>1, <1>2, <1>3, Zenon DEF AnchorLeaves

LEMMA OverrideNeverFails ==
    ASSUME NEW scope, NEW c
    PROVE  Verdict(All(Anchors(scope)), c) # "error"
  <1> SUFFICES ASSUME Verdict(All(Anchors(scope)), c) = "error"
               PROVE  FALSE
    OBVIOUS
  <1> DEFINE leaves == Anchors(scope)
             S == AnchorLeaves(scope)
             when == All(leaves)
  <1>1. PICK n \in DOMAIN when : when[n].node = "leaf" /\ LeafVerdict(when[n], c) = "error"
    BY AnchorsAreConds, ErrorsComeFromLeaves
  <1>2. leaves \in Seq(S)
    BY AnchorsAreLeaves
  <1> HIDE DEF leaves, S
  <1>3. /\ Len(leaves) \in Nat /\ Len(when) = Len(leaves) + 1
        /\ DOMAIN when = 1..Len(leaves) + 1 /\ when[1].node = "all"
        /\ \A i \in 1..Len(leaves) : when[i + 1] = leaves[i] /\ leaves[i] \in S
    <2>1. Len(leaves) \in Nat
      BY <1>2
    <2>2. /\ Len(when) = Len(leaves) + 1
          /\ when \in Seq(S \cup {AllRoot(leaves)})
          /\ when[1] = AllRoot(leaves)
          /\ \A i \in 1..Len(leaves) : when[i + 1] = leaves[i]
      BY <1>2, AllNodes
    <2>3. AllRoot(leaves).node = "all"
      BY DEF AllRoot
    <2> HIDE DEF when
    <2> QED  BY <1>2, <2>1, <2>2, <2>3
  <1> HIDE DEF when
  <1>4. n # 1
    BY <1>1, <1>3
  <1>5. n - 1 \in 1..Len(leaves) /\ n - 1 + 1 = n
    BY <1>3, <1>4
  <1>6. when[n] \in S
    BY <1>3, <1>5
  <1> QED  BY <1>1, <1>6, AnchorVerdicts DEF S
-----------------------------------------------------------------------------
(* The rules of a document and of its overrides.                             *)

(* After the document's rules come those of the overrides at[1], ..., at[m], *)
(* in their order: all that are anchored anywhere.                           *)
IsCompiled(doc, list, rs, m, at) ==
    /\ m \in Nat
    /\ at \in [1..m -> DOMAIN list]
    /\ Len(rs) = Len(doc) + m
    /\ \A k \in 1..Len(doc) : rs[k] = doc[k]
    /\ \A j \in 1..m : rs[Len(doc) + j] = OverrideRule(list[at[j]])
    /\ \A i \in DOMAIN list : Anchors(list[i].scope) # <<>> => \E j \in 1..m : at[j] = i
    /\ \A j \in 1..m : Anchors(list[at[j]].scope) # <<>>
    /\ \A j, k \in 1..m : j < k => at[j] < at[k]

LEMMA CompiledRules ==
    ASSUME NEW doc, IsList(doc), NEW list, IsList(list)
    PROVE  \E m, at : IsCompiled(doc, list, doc \o CompileOverrides(list), m, at)
  <1> DEFINE D == {doc[i] : i \in DOMAIN doc}
             S == {list[i] : i \in DOMAIN list}
             wanted == {i \in DOMAIN list : Anchors(list[i].scope) # <<>>}
             anchored == Kept(list, wanted)
             C == {OverrideRule(o) : o \in S}
             comp == [i \in DOMAIN anchored |-> OverrideRule(anchored[i])]
  <1>1. doc \in Seq(D) /\ list \in Seq(S)
    BY DEF IsList
  <1>2. CompileOverrides(list) = comp
    BY DEF CompileOverrides
  <1>3. DOMAIN list = 1..Len(list) /\ Len(list) \in Nat /\ Len(doc) \in Nat
    BY ListIsSequence
  <1> HIDE DEF D, S
  <1>4. Keeps(S, list, wanted, Len(list), anchored)
    <2> HIDE DEF wanted
    <2> QED  BY <1>1, KeptKeeps
  <1> HIDE DEF wanted, anchored
  <1>5. PICK at : KeepsAt(S, list, wanted, Len(list), anchored, at)
    BY <1>4 DEF Keeps
  <1> DEFINE m == Len(anchored)
  <1>6. /\ m \in Nat /\ DOMAIN anchored = 1..m /\ anchored \in Seq(S)
        /\ at \in [1..m -> wanted \cap (1..Len(list))]
        /\ \A k \in 1..m : anchored[k] = list[at[k]]
        /\ \A k, l \in 1..m : k < l => at[k] < at[l]
        /\ \A i \in wanted \cap (1..Len(list)) : \E k \in 1..m : at[k] = i
    BY <1>5 DEF KeepsAt
  <1>7. comp \in Seq(C) /\ Len(comp) = m /\ \A k \in 1..m : comp[k] = OverrideRule(list[at[k]])
    <2>1. \A k \in 1..m : OverrideRule(anchored[k]) \in C
      BY <1>6
    <2> HIDE DEF C
    <2>2. comp \in [1..m -> C]
      BY <1>6, <2>1
    <2>3. \A k \in 1..m : comp[k] = OverrideRule(list[at[k]])
      BY <1>6
    <2> QED  BY <1>6, <2>2, <2>3
  <1> DEFINE rs == doc \o comp
  <1> HIDE DEF comp, C
  <1>8. /\ Len(rs) = Len(doc) + m
        /\ \A k \in 1..Len(doc) : rs[k] = doc[k]
        /\ \A j \in 1..m : rs[Len(doc) + j] = comp[j]
    <2>1. doc \in Seq(D \cup C) /\ comp \in Seq(D \cup C)
      BY <1>1, <1>7
    <2>2. /\ Len(rs) = Len(doc) + Len(comp)
          /\ \A k \in 1..Len(doc) + Len(comp) :
               rs[k] = IF k <= Len(doc) THEN doc[k] ELSE comp[k - Len(doc)]
      BY <2>1, ConcatProperties
    <2> HIDE DEF rs, m
    <2>3. Len(rs) = Len(doc) + m
      BY <1>7, <2>2
    <2>4. \A k \in 1..Len(doc) : rs[k] = doc[k]
      BY <1>3, <1>6, <1>7, <2>2
    <2>5. ASSUME NEW j \in 1..m
          PROVE  rs[Len(doc) + j] = comp[j]
      <3>1. /\ Len(doc) + j \in 1..Len(doc) + m /\ ~(Len(doc) + j <= Len(doc))
            /\ Len(doc) + j - Len(doc) = j
        BY <1>3, <1>6
      <3> QED  BY <1>7, <2>2, <3>1
    <2> QED  BY <2>3, <2>4, <2>5
  <1> HIDE DEF rs, m
  <1>9. /\ at \in [1..m -> DOMAIN list]
        /\ \A j \in 1..m : Anchors(list[at[j]].scope) # <<>>
        /\ \A i \in DOMAIN list : Anchors(list[i].scope) # <<>> => \E j \in 1..m : at[j] = i
    BY <1>3, <1>6 DEF wanted
  <1>10. IsCompiled(doc, list, rs, m, at)
    BY <1>6, <1>7, <1>8, <1>9 DEF IsCompiled
  <1> QED  BY <1>2, <1>10 DEF rs
-----------------------------------------------------------------------------
(* What an override covers.                                                  *)

(* All of these leaves hold where each of them does. *)
LEMMA AllVerdict ==
    ASSUME NEW S, NEW leaves \in Seq(S),
           \A l \in S : l.node = "leaf" /\ l.subs = <<>>, NEW c
    PROVE  Verdict(All(leaves), c) = "true"
             <=> \A i \in 1..Len(leaves) : LeafVerdict(leaves[i], c) = "true"
  <1> DEFINE when == All(leaves)
             L == Len(leaves)
             subs == [i \in DOMAIN leaves |-> i + 1]
  <1>1. /\ L \in Nat /\ DOMAIN leaves = 1..L /\ Len(when) = L + 1
        /\ when[1] = AllRoot(leaves)
        /\ \A i \in 1..L : when[i + 1] = leaves[i]
    <2>1. L \in Nat /\ DOMAIN leaves = 1..L
      OBVIOUS
    <2> QED  BY <2>1, AllNodes
  <1>2. AllRoot(leaves).node = "all" /\ AllRoot(leaves).subs = subs
    BY DEF AllRoot
  <1>3. IsCond(when)
    BY AllIsCond
  <1> HIDE DEF when, L
  <1>4. PICK v : /\ Verdict(when, c) = v[1]
                 /\ \A n \in 1..Len(when) : v[n] = NodeVerdict(when, c, v, n)
    BY <1>3, VerdictUnfolds
  <1> DEFINE below == [i \in DOMAIN subs |-> v[subs[i]]]
  <1>5. v[1] = Decided(below, "true")
    <2>1. 1 \in 1..Len(when)
      BY <1>1
    <2>2. v[1] = NodeVerdict(when, c, v, 1)
      BY <1>4, <2>1
    <2>3. when[1].node = "all" /\ when[1].subs = subs
      BY <1>1, <1>2
    <2>4. NodeVerdict(when, c, v, 1) = Decided([i \in DOMAIN when[1].subs |-> v[when[1].subs[i]]], "true")
      BY <2>3, Zenon DEF NodeVerdict
    <2> QED  BY <2>2, <2>3, <2>4, Zenon
  <1>6. DOMAIN below = 1..L /\ \A i \in 1..L : below[i] = LeafVerdict(leaves[i], c)
    <2>1. DOMAIN below = 1..L /\ \A i \in 1..L : below[i] = v[i + 1]
      BY <1>1
    <2>2. ASSUME NEW i \in 1..L
          PROVE  v[i + 1] = LeafVerdict(leaves[i], c)
      <3>1. i + 1 \in 1..Len(when) /\ when[i + 1] = leaves[i]
        BY <1>1
      <3>2. when[i + 1].node = "leaf"
        <4>1. leaves[i] \in S
          BY <1>1
        <4> QED  BY <3>1, <4>1
      <3>3. v[i + 1] = NodeVerdict(when, c, v, i + 1)
        BY <1>4, <3>1
      <3>4. NodeVerdict(when, c, v, i + 1) = LeafVerdict(when[i + 1], c)
        <4> DEFINE n == i + 1
        <4>1. when[n].node = "leaf"
          BY <3>2
        <4> HIDE DEF n
        <4>2. NodeVerdict(when, c, v, n) = LeafVerdict(when[n], c)
          BY <4>1 DEF NodeVerdict
        <4> QED  BY <4>2 DEF n
      <3> QED  BY <3>1, <3>3, <3>4
    <2> QED  BY <2>1, <2>2
  <1> HIDE DEF below, subs
  <1>7. \/ Decided(below, "true") = "true" /\ \A i \in 1..L : below[i] = "true"
        \/ \E i \in 1..L : Decided(below, "true") = below[i] /\ below[i] # "true"
    BY <1>1, <1>6, DecidedVerdict
  <1>8. Verdict(when, c) = Decided(below, "true")
    BY <1>4, <1>5
  <1>9. Verdict(when, c) = "true" <=> \A i \in 1..L : below[i] = "true"
    BY <1>7, <1>8
  <1> QED  BY <1>6, <1>9 DEF L, when

InSeq(x, s) == \E i \in 1..Len(s) : s[i] = x

LEMMA InConcat ==
    ASSUME NEW S, NEW s \in Seq(S), NEW t \in Seq(S), NEW x
    PROVE  InSeq(x, s \o t) <=> InSeq(x, s) \/ InSeq(x, t)
  <1>1. /\ Len(s \o t) = Len(s) + Len(t) /\ Len(s) \in Nat /\ Len(t) \in Nat
        /\ \A i \in 1..Len(s) + Len(t) :
             (s \o t)[i] = IF i <= Len(s) THEN s[i] ELSE t[i - Len(s)]
    BY ConcatProperties
  <1> DEFINE u == s \o t
  <1> HIDE DEF u
  <1>2. ASSUME InSeq(x, u)
        PROVE  InSeq(x, s) \/ InSeq(x, t)
    <2>1. PICK i \in 1..Len(s) + Len(t) : u[i] = x
      BY <1>1, <1>2 DEF InSeq, u
    <2>2. CASE i <= Len(s)
      BY <1>1, <2>1, <2>2 DEF InSeq, u
    <2>3. CASE ~(i <= Len(s))
      <3>1. i - Len(s) \in 1..Len(t) /\ t[i - Len(s)] = x
        BY <1>1, <2>1, <2>3 DEF u
      <3> QED  BY <3>1 DEF InSeq
    <2> QED  BY <2>2, <2>3
  <1>3. ASSUME InSeq(x, s)
        PROVE  InSeq(x, u)
    <2>1. PICK i \in 1..Len(s) : s[i] = x
      BY <1>3 DEF InSeq
    <2>2. i \in 1..Len(s) + Len(t) /\ u[i] = x
      BY <1>1, <2>1 DEF u
    <2> QED  BY <1>1, <2>2 DEF InSeq, u
  <1>4. ASSUME InSeq(x, t)
        PROVE  InSeq(x, u)
    <2>1. PICK i \in 1..Len(t) : t[i] = x
      BY <1>4 DEF InSeq
    <2>2. /\ Len(s) + i \in 1..Len(s) + Len(t) /\ ~(Len(s) + i <= Len(s))
          /\ Len(s) + i - Len(s) = i
      BY <1>1
    <2>3. u[Len(s) + i] = x
      BY <1>1, <2>1, <2>2 DEF u
    <2> QED  BY <1>1, <2>2, <2>3 DEF InSeq, u
  <1> QED  BY <1>2, <1>3, <1>4 DEF u

LEMMA InShort ==
    ASSUME NEW x
    PROVE  /\ ~InSeq(x, <<>>)
           /\ \A y : InSeq(x, <<y>>) <=> x = y
           /\ \A y, z : InSeq(x, <<y, z>>) <=> x = y \/ x = z
  <1>1. ~InSeq(x, <<>>)
    <2>1. 1..Len(<<>>) = {}
      OBVIOUS
    <2> QED  BY <2>1 DEF InSeq
  <1>2. ASSUME NEW y
        PROVE  InSeq(x, <<y>>) <=> x = y
    <2>1. 1..Len(<<y>>) = {1} /\ <<y>>[1] = y
      OBVIOUS
    <2> QED  BY <2>1 DEF InSeq
  <1>3. ASSUME NEW y, NEW z
        PROVE  InSeq(x, <<y, z>>) <=> x = y \/ x = z
    <2>1. 1..Len(<<y, z>>) = {1, 2} /\ <<y, z>>[1] = y /\ <<y, z>>[2] = z
      OBVIOUS
    <2> QED  BY <2>1 DEF InSeq
  <1> QED  BY <1>1, <1>2, <1>3

(* The leaves of the anchors that a scope has. *)
LEMMA AnchorsOf ==
    ASSUME NEW scope, NEW x
    PROVE  InSeq(x, Anchors(scope)) <=>
             \/ "path" \in DOMAIN scope /\ x = HasPrefix(scope.path)
             \/ "row_type" \in DOMAIN scope /\ x = Is("row_type", scope.row_type)
             \/ /\ "metric" \in DOMAIN scope
                /\ x = Is("col_role", "metric") \/ x = Is("metric_key", scope.metric)
             \/ /\ "dim" \in DOMAIN scope
                /\ x = Is("col_role", "dimension") \/ x = Is("dim_key", scope.dim)
  <1> DEFINE S == AnchorLeaves(scope)
             a == IF "path" \in DOMAIN scope THEN <<HasPrefix(scope.path)>> ELSE <<>>
             b == IF "row_type" \in DOMAIN scope THEN <<Is("row_type", scope.row_type)>> ELSE <<>>
             m == IF "metric" \in DOMAIN scope
                  THEN <<Is("col_role", "metric"), Is("metric_key", scope.metric)>> ELSE <<>>
             d == IF "dim" \in DOMAIN scope
                  THEN <<Is("col_role", "dimension"), Is("dim_key", scope.dim)>> ELSE <<>>
  <1>1. /\ HasPrefix(scope.path) \in S /\ Is("row_type", scope.row_type) \in S
        /\ Is("col_role", "metric") \in S /\ Is("metric_key", scope.metric) \in S
        /\ Is("col_role", "dimension") \in S /\ Is("dim_key", scope.dim) \in S
    BY DEF AnchorLeaves
  <1> HIDE DEF S
  <1>2. /\ a \in Seq(S) /\ b \in Seq(S) /\ m \in Seq(S) /\ d \in Seq(S)
    <2>1. <<>> \in Seq(S) /\ \A y \in S, z \in S : <<y>> \in Seq(S) /\ <<y, z>> \in Seq(S)
      OBVIOUS
    <2> QED  BY <1>1, <2>1, Zenon
  <1>3. Anchors(scope) = a \o b \o m \o d
    BY DEF Anchors
  <1>4. /\ InSeq(x, a) <=> "path" \in DOMAIN scope /\ x = HasPrefix(scope.path)
        /\ InSeq(x, b) <=> "row_type" \in DOMAIN scope /\ x = Is("row_type", scope.row_type)
    <2>1. InSeq(x, a) <=> "path" \in DOMAIN scope /\ x = HasPrefix(scope.path)
      <3>1. CASE "path" \in DOMAIN scope
        BY <3>1, InShort
      <3>2. CASE "path" \notin DOMAIN scope
        BY <3>2, InShort
      <3> QED  BY <3>1, <3>2
    <2>2. InSeq(x, b) <=> "row_type" \in DOMAIN scope /\ x = Is("row_type", scope.row_type)
      <3>1. CASE "row_type" \in DOMAIN scope
        BY <3>1, InShort
      <3>2. CASE "row_type" \notin DOMAIN scope
        BY <3>2, InShort
      <3> QED  BY <3>1, <3>2
    <2> QED  BY <2>1, <2>2
  <1>9. /\ InSeq(x, m) <=> /\ "metric" \in DOMAIN scope
                           /\ x = Is("col_role", "metric") \/ x = Is("metric_key", scope.metric)
        /\ InSeq(x, d) <=> /\ "dim" \in DOMAIN scope
                           /\ x = Is("col_role", "dimension") \/ x = Is("dim_key", scope.dim)
    <2>1. InSeq(x, m) <=> /\ "metric" \in DOMAIN scope
                          /\ x = Is("col_role", "metric") \/ x = Is("metric_key", scope.metric)
      <3>1. CASE "metric" \in DOMAIN scope
        <4>1. m = <<Is("col_role", "metric"), Is("metric_key", scope.metric)>>
          BY <3>1
        <4>2. InSeq(x, <<Is("col_role", "metric"), Is("metric_key", scope.metric)>>)
                <=> x = Is("col_role", "metric") \/ x = Is("metric_key", scope.metric)
          <5> DEFINE y == Is("col_role", "metric")
                     z == Is("metric_key", scope.metric)
          <5> HIDE DEF y, z
          <5>1. InSeq(x, <<y, z>>) <=> x = y \/ x = z
            BY InShort
          <5> QED  BY <5>1 DEF y, z
        <4> HIDE DEF m
        <4> QED  BY <3>1, <4>1, <4>2, Zenon
      <3>2. CASE "metric" \notin DOMAIN scope
        BY <3>2, InShort
      <3> QED  BY <3>1, <3>2
    <2>2. InSeq(x, d) <=> /\ "dim" \in DOMAIN scope
                          /\ x = Is("col_role", "dimension") \/ x = Is("dim_key", scope.dim)
      <3>1. CASE "dim" \in DOMAIN scope
        BY <3>1, InShort
      <3>2. CASE "dim" \notin DOMAIN scope
        BY <3>2, InShort
      <3> QED  BY <3>1, <3>2
    <2> QED  BY <2>1, <2>2
  <1> HIDE DEF a, b, m, d
  <1>5. a \o b \in Seq(S) /\ (a \o b) \o m \in Seq(S)
    BY <1>2, ConcatProperties
  <1>6. InSeq(x, a \o b) <=> InSeq(x, a) \/ InSeq(x, b)
    BY <1>2, InConcat
  <1>7. InSeq(x, (a \o b) \o m) <=> InSeq(x, a \o b) \/ InSeq(x, m)
    BY <1>2, <1>5, InConcat
  <1>8. InSeq(x, ((a \o b) \o m) \o d) <=> InSeq(x, (a \o b) \o m) \/ InSeq(x, d)
    <2> DEFINE e == (a \o b) \o m
    <2>1. e \in Seq(S)
      BY <1>5
    <2> HIDE DEF e
    <2>2. InSeq(x, e \o d) <=> InSeq(x, e) \/ InSeq(x, d)
      BY <1>2, <2>1, InConcat
    <2> QED  BY <2>2 DEF e
  <1> QED  BY <1>3, <1>4, <1>6, <1>7, <1>8, <1>9

(* A scope with an anchor has a leaf. *)
LEMMA AnchoredScopes ==
    ASSUME NEW o, IsOverride(o)
    PROVE  Anchors(o.scope) = <<>> <=> DOMAIN o.scope = {}
  <1> DEFINE A == Anchors(o.scope)
             D == DOMAIN o.scope
  <1>1. A \in Seq(AnchorLeaves(o.scope))
    BY AnchorsAreLeaves
  <1>2. D \subseteq {"path", "row_type", "metric", "dim"}
    BY DEF IsOverride
  <1>3. ASSUME A # <<>>
        PROVE  D # {}
    <2> DEFINE S == AnchorLeaves(o.scope)
    <2> HIDE DEF A, S
    <2>1. 1 \in 1..Len(A)
      BY <1>1, <1>3 DEF S
    <2>2. InSeq(A[1], A)
      BY <2>1 DEF InSeq
    <2> QED  BY <2>2, AnchorsOf, Zenon DEF A
  <1>4. ASSUME D # {}
        PROVE  A # <<>>
    <2>1. "path" \in D \/ "row_type" \in D \/ "metric" \in D \/ "dim" \in D
      BY <1>2, <1>4
    <2>2. \E x : InSeq(x, A)
      BY <2>1, AnchorsOf, Zenon
    <2>3. ~ \E x : InSeq(x, <<>>)
      BY InShort
    <2> HIDE DEF A
    <2> QED  BY <2>2, <2>3
  <1> QED  BY <1>3, <1>4

LEMMA HoldsIf ==
    ASSUME NEW p \in BOOLEAN
    PROVE  Holds(p) = "true" <=> p
  BY DEF Holds

(* The condition of an override holds where each of its anchors does. *)
LEMMA AnchorsVerdict ==
    ASSUME NEW scope, NEW c
    PROVE  Verdict(All(Anchors(scope)), c) = "true" <=>
             /\ "path" \in DOMAIN scope =>
                  /\ Len(HasPrefix(scope.path).values) <= Len(c.group_path)
                  /\ \A i \in DOMAIN scope.path : scope.path[i] = c.group_path[i]
             /\ "row_type" \in DOMAIN scope => scope.row_type = c.row_type
             /\ "metric" \in DOMAIN scope =>
                  "metric" = c.col_role /\ scope.metric = c.metric_key
             /\ "dim" \in DOMAIN scope =>
                  "dimension" = c.col_role /\ scope.dim = c.dim_key
  <1> DEFINE A == Anchors(scope)
             D == DOMAIN scope
             Prefixed == /\ Len(HasPrefix(scope.path).values) <= Len(c.group_path)
                         /\ \A i \in DOMAIN scope.path : scope.path[i] = c.group_path[i]
  <1>1. \A l \in AnchorLeaves(scope) : l.node = "leaf" /\ l.subs = <<>>
    BY DEF AnchorLeaves, Is, HasPrefix
  <1>2. Verdict(All(A), c) = "true" <=> \A i \in 1..Len(A) : LeafVerdict(A[i], c) = "true"
    BY <1>1, AnchorsAreLeaves, AllVerdict
  <1>3. (\A i \in 1..Len(A) : LeafVerdict(A[i], c) = "true")
          <=> \A x : InSeq(x, A) => LeafVerdict(x, c) = "true"
    BY Zenon DEF InSeq
  <1>4. (\A x : InSeq(x, A) => LeafVerdict(x, c) = "true") <=>
          /\ "path" \in D => LeafVerdict(HasPrefix(scope.path), c) = "true"
          /\ "row_type" \in D => LeafVerdict(Is("row_type", scope.row_type), c) = "true"
          /\ "metric" \in D =>
               /\ LeafVerdict(Is("col_role", "metric"), c) = "true"
               /\ LeafVerdict(Is("metric_key", scope.metric), c) = "true"
          /\ "dim" \in D =>
               /\ LeafVerdict(Is("col_role", "dimension"), c) = "true"
               /\ LeafVerdict(Is("dim_key", scope.dim), c) = "true"
    BY AnchorsOf, Zenon
  <1>5. ASSUME NEW name \in Texts, NEW v
        PROVE  LeafVerdict(Is(name, v), c) = "true" <=> v = c[name]
    <2>1. LeafVerdict(Is(name, v), c) = Holds(v = c[name])
      BY IsVerdicts
    <2> QED  BY <2>1 DEF Holds
  <1>6. LeafVerdict(HasPrefix(scope.path), c) = "true" <=> Prefixed
    <2>1. LeafVerdict(HasPrefix(scope.path), c) = Holds(Prefixed)
      BY PrefixVerdict, Zenon
    <2>2. Holds(Prefixed) = "true" <=> Prefixed
      BY DEF Holds
    <2> QED  BY <2>1, <2>2
  <1>7. /\ "row_type" \in Texts /\ "col_role" \in Texts /\ "metric_key" \in Texts
        /\ "dim_key" \in Texts
    BY DEF Texts
  <1>8. /\ LeafVerdict(Is("row_type", scope.row_type), c) = "true" <=> scope.row_type = c.row_type
        /\ LeafVerdict(Is("col_role", "metric"), c) = "true" <=> "metric" = c.col_role
        /\ LeafVerdict(Is("metric_key", scope.metric), c) = "true" <=> scope.metric = c.metric_key
        /\ LeafVerdict(Is("col_role", "dimension"), c) = "true" <=> "dimension" = c.col_role
        /\ LeafVerdict(Is("dim_key", scope.dim), c) = "true" <=> scope.dim = c.dim_key
    BY <1>5, <1>7
  <1> HIDE DEF A, D
  <1>9. Verdict(All(A), c) = "true" <=>
          /\ "path" \in D => Prefixed
          /\ "row_type" \in D => scope.row_type = c.row_type
          /\ "metric" \in D => "metric" = c.col_role /\ scope.metric = c.metric_key
          /\ "dim" \in D => "dimension" = c.col_role /\ scope.dim = c.dim_key
    BY <1>2, <1>3, <1>4, <1>6, <1>8, Zenon
  <1> QED  BY <1>9 DEF A, D
=============================================================================
