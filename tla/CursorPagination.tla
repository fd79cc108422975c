--------------------------- MODULE CursorPagination ---------------------------
(***************************************************************************)
(* The paginated listings: a page of rows in the order of a listing, and a  *)
(* cursor, made from the last of them, after which the next page starts.   *)
(* Rows come, go and change between two pages.  A row is the sequence of    *)
(* the values it is sorted by, of which the last is its id.                 *)
(***************************************************************************)
EXTENDS Naturals, Sequences, FiniteSets

CONSTANTS
    Listings,   \* what the callers list by: sequences of [kind, direction]
    Ids,        \* the ids, in their order
    Values,     \* the numbers that stand for values, in the order of their bytes
    Ticks,      \* how many of them a millisecond has, if they are times
    Collation,  \* the rank of each of them as text in the database's collation
    Limit,      \* rows on a page
    Changes,    \* bound on the rows changed during a walk
    Nil,
    End         \* the cursor of a walk that is over

VARIABLES
    fields,     \* the listing of this walk
    table,      \* the rows
    stable,     \* history: the rows that have been there, unchanged, all along
    cursor,     \* where the next page starts: Nil at first
    items,      \* history: the pages so far, the rows of each
    changes     \* how many changes are left

vars == <<fields, table, stable, cursor, items, changes>>

Id(row) == row[Len(row)]
Rows == {Append(v, id) : v \in [1..(Len(fields) - 1) -> Values], id \in Ids}

-------------------------------------------------------------------------------
(* A query.  Positions are sorted by their bytes but compared as text. *)

Sorted(f, v, w) == IF f.direction = "asc" THEN v < w ELSE w < v

Compared(f, v, w) ==
    IF f.kind = "position" THEN Sorted(f, Collation[v], Collation[w]) ELSE Sorted(f, v, w)

\* The first field in which two rows differ decides, by the operator Less.
Lexical(Less(_, _, _), r, s) ==
    \E i \in DOMAIN fields : Less(fields[i], r[i], s[i]) /\ \A j \in 1..(i - 1) : r[j] = s[j]

\* Mutant: the fields are compared one by one, without the equal ones before.
ApplyCursorFlat(row) ==
    cursor = Nil \/ \A i \in DOMAIN fields : Compared(fields[i], cursor[i], row[i])

ApplyCursor(row) == cursor = Nil \/ Lexical(Compared, cursor, row)

\* A date goes to the millisecond: the driver reads no more, and a cursor says no more.
Encode(f, v) == IF f.kind = "updatedAt" THEN v - (v % Ticks) ELSE v

GenerateCursor(row) == [i \in DOMAIN fields |-> Encode(fields[i], row[i])]

\* The first n rows of R, of which R has no fewer.
First(R, n) == {F \in SUBSET R : Cardinality(F) = n /\ \A a \in F, b \in R \ F : Lexical(Sorted, a, b)}

\* The cursor of the page is that of its last row.
NextCursors(R) == {GenerateCursor(a) : a \in {c \in R : \A b \in R \ {c} : Lexical(Sorted, b, c)}}

\* What the query returns: a page, and one row more if there is one.
Fetched ==
    LET found == {r \in table : ApplyCursor(r)}
    IN  First(found, IF Cardinality(found) > Limit THEN Limit + 1 ELSE Cardinality(found))

-------------------------------------------------------------------------------
(* A walk through the pages. *)

Init ==
    /\ fields \in Listings
    /\ \E ids \in SUBSET Ids : \E values \in [ids -> [1..(Len(fields) - 1) -> Values]] :
          table = {Append(values[id], id) : id \in ids}
    /\ stable = table
    /\ cursor = Nil /\ items = <<>> /\ changes = Changes

\* Mutant: the row that tells of the next page is on this page, too.
NextPageWithExtra ==
    /\ cursor # End
    /\ \E rows \in Fetched :
          /\ items' = Append(items, rows)
          /\ cursor' \in IF Cardinality(rows) > Limit THEN NextCursors(rows) ELSE {End}
    /\ UNCHANGED <<fields, table, stable, changes>>

\* One row more than the page holds tells whether there is a next page.
NextPage ==
    /\ cursor # End
    /\ \E rows \in Fetched :
          LET hasNextPage == Cardinality(rows) > Limit
          IN  \E page \in First(rows, IF hasNextPage THEN Limit ELSE Cardinality(rows)) :
                /\ items' = Append(items, page)
                /\ cursor' \in IF hasNextPage THEN NextCursors(page) ELSE {End}
    /\ UNCHANGED <<fields, table, stable, changes>>

Change ==
    /\ cursor \notin {Nil, End} /\ changes > 0 /\ changes' = changes - 1
    /\ UNCHANGED <<fields, cursor, items>>

RowInserted(row) ==
    /\ \A r \in table : Id(r) # Id(row)
    /\ Change /\ table' = table \cup {row} /\ stable' = stable \ {row}

RowDeleted(row) ==
    Change /\ table' = table \ {row} /\ stable' = stable \ {row}

RowUpdated(row, new) ==
    /\ Id(new) = Id(row) /\ new # row
    /\ Change /\ table' = (table \ {row}) \cup {new} /\ stable' = stable \ {row, new}

Next ==
    \/ NextPage
    \/ \E row \in Rows : RowInserted(row)
    \/ \E row \in table : RowDeleted(row) \/ \E new \in Rows : RowUpdated(row, new)

Spec == Init /\ [][Next]_vars

-------------------------------------------------------------------------------
(* Properties. *)

TypeOK ==
    /\ fields \in Listings /\ table \subseteq Rows /\ stable \subseteq table
    /\ cursor \in {Nil, End} \cup {GenerateCursor(row) : row \in Rows}
    /\ \A i \in DOMAIN items : Cardinality(items[i]) <= Limit
    /\ changes \in 0..Changes

\* A walk to the end lists every row that stays as it is on exactly one page, whatever
\* rows with the same values there are and whatever changes between two pages.
ListedOnce ==
    cursor = End =>
        \A row \in stable : Cardinality({i \in DOMAIN items : row \in items[i]}) = 1

\* The extra row that says there is a next page is on that page: while nothing
\* changes, no page but the first is empty.
NextPageHasRows ==
    changes = Changes => \A i \in DOMAIN items : i > 1 => items[i] # {}
===============================================================================
