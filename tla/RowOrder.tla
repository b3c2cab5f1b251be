------------------------------ MODULE RowOrder ------------------------------
(***************************************************************************)
(* The order in which a data source of dynamic-report/internal/datahub     *)
(* hands over its records.  A record has, for each dimension d, the value  *)
(* keys[d] of the dimension's field and, unless it lacks it, the value     *)
(* ords[d] of the column that field names as its sort_key: lines of a CSV  *)
(* file may be short, and slices hold any maps.  How dimension d is to be  *)
(* sorted is sort[d]: by "sort_key" or "value", dir "asc" or "desc", and   *)
(* keyed, which says whether its field names a sort_key column at all.     *)
(* Strings, which is what the code compares, are ordered like the numbers  *)
(* that stand for them.                                                    *)
(***************************************************************************)
EXTENDS Integers, Sequences, TLC

Sorting == [by : {"sort_key", "value"}, dir : {"asc", "desc"}, keyed : BOOLEAN]

(* What the files and slices compare for dimension d: a record without the   *)
(* sort_key's column is compared by the dimension's own.                     *)
SortValue(sort, r, d) ==
    IF sort[d].by = "sort_key" /\ sort[d].keyed /\ d \in DOMAIN r.ords
    THEN r.ords[d] ELSE r.keys[d]

(* Fault: the innermost dimension is compared first. *)
PrecedesInnermostFirst(sort, r, s) ==
    \E d \in DOMAIN sort :
        /\ \A e \in d + 1..Len(sort) : SortValue(sort, r, e) = SortValue(sort, s, e)
        /\ IF sort[d].dir = "desc"
           THEN SortValue(sort, r, d) > SortValue(sort, s, d)
           ELSE SortValue(sort, r, d) < SortValue(sort, s, d)

(* Whether record r must come before s, the dimensions in their order. *)
Precedes(sort, r, s) ==
    \E d \in DOMAIN sort :
        /\ \A e \in 1..d - 1 : SortValue(sort, r, e) = SortValue(sort, s, e)
        /\ IF sort[d].dir = "desc"
           THEN SortValue(sort, r, d) > SortValue(sort, s, d)
           ELSE SortValue(sort, r, d) < SortValue(sort, s, d)

(* The column DBSource orders dimension d by: neither by nor dir is read.    *)
(* Every row of a table has it.                                              *)
OrderColumn(sort, r, d) == IF sort[d].keyed THEN r.ords[d] ELSE r.keys[d]

(* ORDER BY of the columns, ascending. *)
DBPrecedes(sort, r, s) ==
    \E d \in DOMAIN sort :
        /\ \A e \in 1..d - 1 : OrderColumn(sort, r, e) = OrderColumn(sort, s, e)
        /\ OrderColumn(sort, r, d) < OrderColumn(sort, s, d)

(* The permutations of 1..n, as sequences with every number, that are in     *)
(* this order.                                                               *)
Arrangements(n, inOrder(_, _)) ==
    {p \in Permutations(1..n) :
        /\ p \in Seq(1..n)
        /\ 1..n \subseteq {p[k] : k \in DOMAIN p}
        /\ \A i, j \in DOMAIN p : i < j => inOrder(p[i], p[j])}

(* sort.SliceStable: records that compare equal stay in the file's order. *)
FileOrders(sort, records) ==
    Arrangements(Len(records),
        LAMBDA i, j : /\ ~Precedes(sort, records[j], records[i])
                      /\ Precedes(sort, records[i], records[j]) \/ i < j)

(* SQL leaves the order of rows that compare equal open. *)
DBOrders(sort, records) ==
    Arrangements(Len(records),
        LAMBDA i, j : ~DBPrecedes(sort, records[j], records[i]))

(* No two values of one dimension share the column the rows are ordered by. *)
Separated(records, column(_, _), dims) ==
    \A i, j \in DOMAIN records, d \in dims :
        (column(records[i], d) = column(records[j], d))
          <=> (records[i].keys[d] = records[j].keys[d])
=============================================================================
