----------------------------- MODULE CursorStore -----------------------------
(***************************************************************************)
(* The in-memory store of result continuations (internal/engine/cursor.go), *)
(* with the two engine operations that use it: the tail of Query, which     *)
(* returns the first page and stores the remaining rows, and Next, which    *)
(* consumes a cursor.  Each operation runs under the store's mutex and is   *)
(* one step; clock time passes between steps.  Rows are numbered 1, 2, ...  *)
(* within their result, so a slice of rows is a pair of bounds.             *)
(***************************************************************************)
EXTENDS Naturals, FiniteSets, FiniteSetsExt

CONSTANTS Queries,      \* the results that are computed and paged through
          MaxEntries,   \* CursorStore.max
          MaxRows,      \* CursorStore.maxRows
          TTL,          \* CursorStore.ttl, in clock ticks
          PageSizes,    \* the page sizes callers ask for
          Limit,        \* the largest number of rows of a result
          MaxTime       \* model bound: the clock stops here

ASSUME CursorStoreAssumption ==
    /\ IsFiniteSet(Queries)
    /\ MaxEntries \in Nat \ {0}       \* NewCursorStore raises max to 1
    /\ TTL \in Nat \ {0}
    /\ PageSizes \subseteq Nat \ {0}  \* Query replaces page sizes below 1 by 100
    /\ Limit \in Nat
    /\ MaxRows \in Nat
    /\ Limit <= MaxRows               \* dsl limits are at most 50,000 rows
    /\ MaxTime \in Nat

VARIABLES now,      \* the clock
          entries,  \* CursorStore.entries: cursor -> cursorState
          issued,   \* how many cursors were ever made; cursors are 1..issued
          total,    \* total[q]: rows of q's result, 0 before q has run
          page,     \* page[q]: the last page of q returned to its caller
          servedAt, \* servedAt[q]: when that page was returned
          used      \* history: the cursors that a page was served for

vars == <<now, entries, issued, total, page, servedAt, used>>

NoCursor == 0                        \* next_cursor is absent
Cursors  == 1..issued

Lesser(a, b) == IF a < b THEN a ELSE b

Page(from, to, cursor) == [from |-> from, to |-> to, cursor |-> cursor]

RowCount(e) == e.to + 1 - e.from

storedRows(es, S) == MapThenSumSet(LAMBDA c : RowCount(es[c]), S)

\* pruneLocked: what is left after expired entries are deleted
Live == {c \in DOMAIN entries : now < entries[c].expires}

Init == /\ now = 0
        /\ entries = [c \in {} |-> 0]
        /\ issued = 0
        /\ total = [q \in Queries |-> 0]
        /\ page = [q \in Queries |-> Page(1, 0, NoCursor)]
        /\ servedAt = [q \in Queries |-> 0]
        /\ used = {}

-----------------------------------------------------------------------------
\* Mutants: one entry too many, rows not counted.
FullLate(S, n)    == Cardinality(S) > MaxEntries \/ storedRows(entries, S) + n > MaxRows
FullByCount(S, n) == Cardinality(S) >= MaxEntries

\* Put's loop condition with the entries S in the store and n rows to add.
Full(S, n) == Cardinality(S) >= MaxEntries \/ storedRows(entries, S) + n > MaxRows

\* Mutant: a store that is full is emptied, whatever would have been enough.
LeftByClearing(S, n) == S = IF Full(Live, n) THEN {} ELSE Live

\* S can be what the eviction loop leaves of the live entries.  The loop takes
\* a soonest-expiring entry (any of them: map order) until nothing forces it to.
LeftByEviction(S, n) ==
    LET gone == Live \ S
    IN /\ S = {} \/ ~Full(S, n)
       /\ \A c \in gone, k \in S : entries[c].expires <= entries[k].expires
       /\ gone # {} => \E c \in gone :
            /\ \A d \in gone : entries[d].expires <= entries[c].expires
            /\ Full(S \cup {c}, n)

\* Mutants: the last row of the page is kept, the page size is lost.
ContinuationOverlap(q, from, to, size) ==
    [query |-> q, from |-> from - 1, to |-> to, pageSize |-> size, expires |-> now + TTL]
ContinuationUnsized(q, from, to, size) ==
    [query |-> q, from |-> from, to |-> to, pageSize |-> 0, expires |-> now + TTL]

\* cursorState: rows from..to of the result, with a full lifetime.
Continuation(q, from, to, size) ==
    [query |-> q, from |-> from, to |-> to, pageSize |-> size, expires |-> now + TTL]

\* putLocked, and the end of Put: a fresh cursor next to the entries kept.
Store(kept, q, from, to, size) ==
    LET fresh == issued + 1
    IN /\ entries' = [c \in kept \cup {fresh} |->
                        IF c = fresh THEN Continuation(q, from, to, size) ELSE entries[c]]
       /\ issued' = fresh

Keep(kept) == /\ entries' = [c \in kept |-> entries[c]]
              /\ UNCHANGED issued

Return(q, from, to, cursor) ==
    /\ page' = [page EXCEPT ![q] = Page(from, to, cursor)]
    /\ servedAt' = [servedAt EXCEPT ![q] = now]

\* Query's last lines: the first page is returned and the rest, if any, Put.
Query(q, n, size) ==
    LET count == Lesser(size, n)
    IN /\ total[q] = 0
       /\ total' = [total EXCEPT ![q] = n]
       /\ IF count < n
          THEN /\ \E S \in SUBSET Live :
                     /\ LeftByEviction(S, n - count)
                     /\ Store(S, q, count + 1, n, size)
               /\ Return(q, 1, count, issued + 1)
          ELSE /\ Return(q, 1, count, NoCursor)
               /\ UNCHANGED <<entries, issued>>
       /\ UNCHANGED <<now, used>>

\* Mutant: the cursor stays beside the continuation that replaces it.
OthersAndItself(c) == Live

\* What is left of the live entries when Next has deleted the cursor it serves.
Others(c) == Live \ {c}

\* CursorStore.Next finds the cursor: its page is returned, the cursor deleted
\* and the remaining rows stored under a new one, without eviction.
Hit(c) ==
    LET e     == entries[c]
        count == IF e.pageSize <= RowCount(e) THEN e.pageSize ELSE RowCount(e)
        last  == e.from + count - 1
    IN /\ c \in Live
       /\ IF last < e.to
          THEN /\ Store(Others(c), e.query, last + 1, e.to, e.pageSize)
               /\ Return(e.query, e.from, last, issued + 1)
          ELSE /\ Keep(Others(c))
               /\ Return(e.query, e.from, last, NoCursor)
       /\ used' = used \cup {c}
       /\ UNCHANGED <<now, total>>

\* CursorStore.Next does not find it: used, evicted or expired.
Miss(c) == /\ c \notin Live
           /\ Keep(Live)
           /\ UNCHANGED <<now, total, page, servedAt, used>>

\* Engine.Next: a caller may present any cursor it was ever given, repeatedly.
NextPage(c) == Hit(c) \/ Miss(c)

Tick == /\ now < MaxTime
        /\ now' = now + 1
        /\ UNCHANGED <<entries, issued, total, page, servedAt, used>>

Next == \/ \E q \in Queries, n \in 1..Limit, size \in PageSizes : Query(q, n, size)
        \/ \E c \in Cursors : NextPage(c)
        \/ Tick

Spec == Init /\ [][Next]_vars
-----------------------------------------------------------------------------
Entry == [query : Queries, from : Nat, to : Nat, pageSize : Nat \ {0},
          expires : Nat]

\* The shape of the state.
TypeOK == /\ now \in Nat
          /\ issued \in Nat
          /\ DOMAIN entries \subseteq Cursors
          /\ entries \in [DOMAIN entries -> Entry]
          /\ total \in [Queries -> Nat]
          /\ page \in [Queries -> [from : Nat, to : Nat, cursor : Nat]]
          /\ servedAt \in [Queries -> Nat]
          /\ used \subseteq Cursors

\* However queries, continuations and expiry interleave, the store holds at
\* most max cursors, although Next re-stores the remainder of a result without
\* looking at the bound (cursor.go:89-92).
WithinCount == Cardinality(DOMAIN entries) <= MaxEntries

\* In the same way it holds at most maxRows rows.
WithinRows == storedRows(entries, DOMAIN entries) <= MaxRows

\* A stored continuation is the one its caller holds, and covers exactly the
\* rows the caller has not seen: a result has at most one live cursor, and
\* following it neither repeats nor skips rows.
CursorIsTheRest ==
    \A c \in DOMAIN entries :
        LET e == entries[c]
        IN /\ c = page[e.query].cursor
           /\ e.from = page[e.query].to + 1
           /\ e.to = total[e.query]
           /\ e.from <= e.to

\* A cursor is honoured once (tools.md: "The cursor is single-use"): Next takes it out of
\* the store before it stores the rest of the rows, and nothing brings it back, so that no
\* second call that presents it finds it, however many results are paged in between.
SingleUse == used \cap DOMAIN entries = {}

\* A continuation page is only served within TTL of the page that announced
\* it; each page starts a new lifetime.
ServedInTime ==
    [][\A q \in Queries :
          page[q].cursor # NoCursor /\ page'[q] # page[q] => now < servedAt[q] + TTL]_vars

\* A live cursor is only lost by using it or to a store under pressure, and no more of them
\* than the pressure takes: with the longest-lived of the lost ones kept as well, the store
\* would exceed a bound, and every cursor kept (but the new one) outlives the lost ones.
LostOnlyUnderPressure ==
    [][LET lost == {c \in Live \ DOMAIN entries' : page'[entries[c].query] = page[entries[c].query]}
           new  == DOMAIN entries' \ DOMAIN entries
           kept == DOMAIN entries' \ new
       IN lost # {} =>
            /\ \E c \in lost :
                  /\ \A d \in lost : entries[d].expires <= entries[c].expires
                  /\ \/ Cardinality({c} \cup DOMAIN entries') > MaxEntries
                     \/ storedRows(entries, {c} \cup kept) + storedRows(entries', new) > MaxRows
            /\ \A c \in lost, k \in kept : entries[c].expires <= entries[k].expires]_vars

\* Every caller sees its result as one ordered stream of pages.
Stream == INSTANCE ResultStream WITH
            page <- [q \in Queries |-> [from |-> page[q].from, to |-> page[q].to,
                                        more |-> page[q].cursor # NoCursor]]
StreamSpec == Stream!Spec
=============================================================================
