---------------------------- MODULE ResultStream ----------------------------
(***************************************************************************)
(* What a caller of cloud_query may rely on when it pages through a result: *)
(* the pages of one result arrive in order, the first row of a page being   *)
(* the successor of the last row of the page before, and a page announces a *)
(* continuation exactly when rows remain.  A stream may stop early, because *)
(* its cursor expired or was evicted, but it never repeats or skips rows.   *)
(* CursorStore implements this specification.                               *)
(***************************************************************************)
EXTENDS Naturals

CONSTANTS Queries,  \* the results being paged through
          Limit     \* the largest number of rows of a result

VARIABLES total,   \* total[q]: the number of rows of q's result, 0 before q has run
          page     \* page[q]: the last page of q that was handed out

vars == <<total, page>>

Page(from, to, size) == [from |-> from, to |-> to, more |-> to < size]

Init == /\ total = [q \in Queries |-> 0]
        /\ page = [q \in Queries |-> Page(1, 0, 0)]

\* The result of q is computed and its first page handed out.
Open(q) == /\ total[q] = 0
           /\ \E n \in 1..Limit : \E to \in 1..n :
                /\ total' = [total EXCEPT ![q] = n]
                /\ page' = [page EXCEPT ![q] = Page(1, to, n)]

\* The page after the last one is handed out.
Continue(q) == /\ page[q].more
               /\ \E to \in (page[q].to + 1)..total[q] :
                     page' = [page EXCEPT ![q] = Page(@.to + 1, to, total[q])]
               /\ UNCHANGED total

Next == \E q \in Queries : Open(q) \/ Continue(q)

Spec == Init /\ [][Next]_vars
=============================================================================
