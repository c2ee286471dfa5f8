----------------------------- MODULE Documents -----------------------------
(***************************************************************************)
(* What the user-scoped repositories do in memory with the documents of    *)
(* one user: filter them, order them, cut a page out of them, add them up. *)
(*                                                                         *)
(* `rows' is a function from ids to documents, which are records; a list   *)
(* that no one has ordered yet is a set of ids, to be read in the order of *)
(* the ids.  Optional fields that hold a time or a day are Absent          *)
(* (undefined in the code) when they were never written.                   *)
(* Definitions marked "slip" are wrong versions of the one that follows.   *)
(***************************************************************************)
EXTENDS Integers, Sequences, FiniteSetsExt

Absent == -1

Filter(field, op, value) == [field |-> field, op |-> op, value |-> value]

\* No order holds between undefined and anything; == compares it like a value.
matchesFilter(value, op, bound) ==
    CASE op = "=="  -> value = bound
      [] op = ">="  -> value # Absent /\ bound # Absent /\ value >= bound
      [] op = "<="  -> value # Absent /\ bound # Absent /\ value <= bound
      [] op = "<"   -> value # Absent /\ bound # Absent /\ value < bound

applyFilters(rows, ids, filters) ==
    {id \in ids : \A f \in filters : matchesFilter(rows[id][f.field], f.op, f.value)}

\* The elements of a set as a sequence, by a set of pairs that orders them: the
\* i-th has i - 1 before it.
InOrder(set, before) ==
    [i \in 1 .. Cardinality(set) |->
        CHOOSE x \in set : Cardinality({y \in set : <<y, x>> \in before}) = i - 1]

Ascending(set) == InOrder(set, {p \in set \X set : p[1] < p[2]})

\* Undefined values come last in both directions.
Precedes(a, b, direction) ==
    /\ a # Absent
    /\ b = Absent \/ (IF direction = "desc" THEN a > b ELSE a < b)

\* Array.prototype.sort is stable: rows that compare equal keep their order.
Sooner(rows, ids, field, direction) ==
    {p \in ids \X ids :
        \/ Precedes(rows[p[1]][field], rows[p[2]][field], direction)
        \/ ~Precedes(rows[p[2]][field], rows[p[1]][field], direction) /\ p[1] < p[2]}

sortInMemory(rows, ids, field, direction) == InOrder(ids, Sooner(rows, ids, field, direction))

\* Array.prototype.slice.
slice(list, start, end) == SubSeq(list, start + 1, Min({end, Len(list)}))

buildPaginatedResult(items, total, page, limit) ==
    LET totalPages == (total + limit - 1) \div limit IN
    [items |-> items, total |-> total, totalPages |-> totalPages,
     hasNext |-> page < totalPages, hasPrev |-> page > 1]

listForUser(rows, ids, filters, field, direction) ==
    sortInMemory(rows, applyFilters(rows, ids, filters), field, direction)

\* The documents of a list, each with its id.
Items(rows, list) == [i \in DOMAIN list |-> [id |-> list[i], doc |-> rows[list[i]]]]

\* Slip: pages are counted from 0.
PageFromZero(rows, ordered, page, limit) ==
    buildPaginatedResult(Items(rows, slice(ordered, page * limit, (page + 1) * limit)),
                         Len(ordered), page, limit)

\* The page of an ordered list, as every list handler cuts it.
Page(rows, ordered, page, limit) ==
    LET start == (page - 1) * limit IN
    buildPaginatedResult(Items(rows, slice(ordered, start, start + limit)), Len(ordered), page, limit)

paginateForUser(rows, ids, filters, field, direction, page, limit) ==
    Page(rows, listForUser(rows, ids, filters, field, direction), page, limit)

\* What Array.prototype.reduce adds up to, after each of the amounts.
SumUpTo(amounts) ==
    LET sum[n \in 0 .. Len(amounts)] == IF n = 0 THEN 0 ELSE sum[n - 1] + amounts[n] IN sum

Total(amounts) == SumUpTo(amounts)[Len(amounts)]

=============================================================================
