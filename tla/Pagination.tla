----------------------------- MODULE Pagination -----------------------------
(***************************************************************************)
(* Paginate (pkg/pagniate.go): what the query parameters page and page_size *)
(* of a list make of its SELECT, on machine integers.  Bun writes LIMIT    *)
(* and OFFSET only when they are positive.                                 *)
(***************************************************************************)
EXTENDS Integers

CONSTANTS
    MaxInt,         \* the greatest machine integer
    Unparsed        \* a parameter that is missing or no integer (Atoi fails)

ASSUME PaginationAssumption ==
    /\ MaxInt \in Nat \ {0}
    /\ Unparsed \notin Int

Wrapped(n) == ((n + MaxInt + 1) % (2 * (MaxInt + 1))) - (MaxInt + 1)

\* The value used for a parameter.
ValueOf(parameter, default) ==
    IF parameter \in {Unparsed, 0} THEN default ELSE parameter

Offset(page, size) == Wrapped((page - 1) * size)

\* The positions of the rows selected, of n rows in the order of the query.
Selected(n, page, size) ==
    {i \in 1..n : /\ Offset(page, size) > 0 => i > Offset(page, size)
                  /\ size > 0 => i <= size + (IF Offset(page, size) > 0
                                              THEN Offset(page, size) ELSE 0)}

\* The same for the parameters as they come, with Paginate's defaults.
Listed(n, page, size) == Selected(n, ValueOf(page, 1), ValueOf(size, 10))

\* The pages of n rows hold each position exactly once, at the page it says, as long
\* as the offset is a machine integer (Paginate).  Which row has a position is for the
\* query to say; see Pages of ProjectsPage.
PagesPartition(n) ==
    \A size \in 1..MaxInt, page \in 1..MaxInt :
        (page - 1) * size <= MaxInt =>
            \A i \in 1..n :
                i \in Listed(n, page, size) <=> page = ((i - 1) \div size) + 1
=============================================================================
