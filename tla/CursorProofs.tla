----------------------------- MODULE CursorProofs -----------------------------
(***************************************************************************)
(* What cursors keep.  The cursor store keeps its bounds and serves        *)
(* ordered, single-use streams, for every number of results, every         *)
(* capacity and every lifetime.  The cursors of the adapters carry what is *)
(* needed to go on: a listing that ends has returned what was there all    *)
(* the time once, and none is refused without a reason, for any things,    *)
(* lists, page sizes and changes.                                          *)
(***************************************************************************)
EXTENDS CursorStore, Listings, FiniteSetTheorems, WellFoundedInduction, TLAPS

\* What the caller holds agrees with what it was sent.
PagesOK ==
    \A q \in Queries :
        /\ page[q].to <= total[q]
        /\ page[q].cursor # NoCursor <=> page[q].to < total[q]
        /\ page[q].cursor <= issued
        /\ total[q] <= Limit

\* A stored entry expires one lifetime after the page that announced it.
LifetimeOK == \A c \in DOMAIN entries :
                  entries[c].expires = servedAt[entries[c].query] + TTL

IInv == /\ TypeOK /\ WithinCount /\ WithinRows /\ CursorIsTheRest /\ PagesOK /\ LifetimeOK
        /\ SingleUse

-----------------------------------------------------------------------------
\* The equation of the fold behind storedRows.
Counts(es, S, f) ==
    f = [s \in SUBSET S |-> IF s = {} THEN 0
                            ELSE LET c == CHOOSE c \in s : TRUE
                                 IN  RowCount(es[c]) + f[s \ {c}]]

\* A property of finite sets that fails somewhere fails for a smallest set.
LEMMA SmallestSubset ==
    ASSUME NEW S, IsFiniteSet(S), NEW B \in SUBSET (SUBSET S), B # {}
    PROVE  \E T \in B : \A U \in SUBSET T : U # T => U \notin B
<1>1. FiniteSubsetsOf(S) = SUBSET S  BY FS_FiniteSubsetsOfFinite
<1>2. IsWellFoundedOn(StrictSubsetOrdering(S), SUBSET S)
  BY <1>1, FS_StrictSubsetOrderingWellFounded
<1>3. PICK T \in B : \A U \in B : ~ (<<U, T>> \in StrictSubsetOrdering(S))
  BY <1>2, WFMin
<1> QED  BY <1>3 DEF StrictSubsetOrdering

\* Two solutions of the equation agree where both are defined.
LEMMA CountsUnique ==
    ASSUME NEW es, NEW S, IsFiniteSet(S), NEW T \in SUBSET S, NEW f, NEW g,
           Counts(es, S, f), Counts(es, T, g)
    PROVE  f[T] = g[T]
<1> DEFINE B == {s \in SUBSET T : f[s] # g[s]}
<1>1. SUFFICES ASSUME B # {} PROVE FALSE  OBVIOUS
<1>2. IsFiniteSet(T)  BY FS_Subset
<1>3. PICK s \in B : \A u \in SUBSET s : u # s => u \notin B
  <2>1. B \in SUBSET (SUBSET T)  OBVIOUS
  <2> HIDE DEF B
  <2> QED  BY <1>1, <1>2, <2>1, SmallestSubset
<1> DEFINE c == CHOOSE c \in s : TRUE
<1>4. s # {}  BY <1>3 DEF Counts
<1>5. f[s] = RowCount(es[c]) + f[s \ {c}]  BY <1>3, <1>4 DEF Counts
<1>6. g[s] = RowCount(es[c]) + g[s \ {c}]  BY <1>3, <1>4 DEF Counts
<1>7. f[s \ {c}] = g[s \ {c}]  BY <1>3, <1>4
<1> QED  BY <1>3, <1>5, <1>6, <1>7

\* The equation has a solution.
LEMMA CountsExists ==
    ASSUME NEW es, NEW S, IsFiniteSet(S)
    PROVE  \E f : Counts(es, S, f)
<1> DEFINE B == {s \in SUBSET S : ~\E f : Counts(es, s, f)}
<1>1. SUFFICES ASSUME B # {} PROVE FALSE  OBVIOUS
<1>2. PICK T \in B : \A u \in SUBSET T : u # T => u \notin B
  <2>1. B \in SUBSET (SUBSET S)  OBVIOUS
  <2> HIDE DEF B
  <2> QED  BY <1>1, <2>1, SmallestSubset
<1> DEFINE sum(s) == CHOOSE f : Counts(es, s, f)
           f == [s \in SUBSET T |-> IF s = {} THEN 0
                                    ELSE LET c == CHOOSE c \in s : TRUE
                                         IN  RowCount(es[c]) + sum(s \ {c})[s \ {c}]]
<1>3. ASSUME NEW u \in SUBSET T, u # T PROVE Counts(es, u, sum(u))
  BY <1>2, <1>3
<1> HIDE DEF sum
<1>4. ASSUME NEW u \in SUBSET T, u # T PROVE f[u] = sum(u)[u]
  <2> DEFINE c == CHOOSE c \in u : TRUE
  <2>1. CASE u = {}  BY <1>3, <1>4, <2>1 DEF Counts
  <2>2. CASE u # {}
    <3>1. c \in u  BY <2>2
    <3>2. f[u] = RowCount(es[c]) + sum(u \ {c})[u \ {c}]  BY <2>2
    <3>3. Counts(es, u, sum(u)) /\ Counts(es, u \ {c}, sum(u \ {c}))
      BY <1>3, <1>4, <3>1
    <3>4. sum(u)[u] = RowCount(es[c]) + sum(u)[u \ {c}]  BY <2>2, <3>3 DEF Counts
    <3>5. IsFiniteSet(u)  BY <1>2, FS_Subset
    <3>6. sum(u)[u \ {c}] = sum(u \ {c})[u \ {c}]
      BY <3>3, <3>5, CountsUnique
    <3> QED  BY <3>2, <3>4, <3>6
  <2> QED  BY <2>1, <2>2
<1>5. Counts(es, T, f)
  <2>1. ASSUME NEW s \in SUBSET T, s # {}
        PROVE  LET c == CHOOSE c \in s : TRUE IN f[s \ {c}] = sum(s \ {c})[s \ {c}]
    <3> DEFINE c == CHOOSE c \in s : TRUE
    <3>1. c \in s  BY <2>1
    <3> HIDE DEF c, f
    <3>2. f[s \ {c}] = sum(s \ {c})[s \ {c}]  BY <1>4, <3>1
    <3> QED  BY <3>2 DEF c
  <2>2. f = [s \in SUBSET T |-> IF s = {} THEN 0
                               ELSE LET c == CHOOSE c \in s : TRUE
                                    IN  RowCount(es[c]) + f[s \ {c}]]
    <3> DEFINE g == [s \in SUBSET T |-> IF s = {} THEN 0
                               ELSE LET c == CHOOSE c \in s : TRUE
                                    IN  RowCount(es[c]) + f[s \ {c}]]
    <3>1. ASSUME NEW s \in SUBSET T PROVE f[s] = g[s]
      <4>1. CASE s = {}  BY <4>1
      <4>2. CASE s # {}
        <5> DEFINE c == CHOOSE c \in s : TRUE
        <5>1. f[s] = RowCount(es[c]) + sum(s \ {c})[s \ {c}]  BY <4>2
        <5>2. g[s] = RowCount(es[c]) + f[s \ {c}]  BY <4>2
        <5>3. f[s \ {c}] = sum(s \ {c})[s \ {c}]  BY <2>1, <4>2
        <5> HIDE DEF f, g, c
        <5> QED  BY <5>1, <5>2, <5>3
      <4> QED  BY <4>1, <4>2
    <3>2. DOMAIN f = SUBSET T /\ DOMAIN g = SUBSET T  OBVIOUS
    <3> QED  BY <3>1, <3>2
  <2> HIDE DEF f
  <2> QED  BY <2>2 DEF Counts
<1> QED  BY <1>2, <1>5

\* storedRows is what the equation says.
LEMMA StoredRowsCounts ==
    ASSUME NEW es, NEW S, IsFiniteSet(S)
    PROVE  \E f : Counts(es, S, f) /\ storedRows(es, S) = f[S]
<1>1. \E f : Counts(es, S, f)  BY CountsExists
<1> DEFINE f == CHOOSE f : Counts(es, S, f)
<1>2. Counts(es, S, f)  BY <1>1
<1>3. storedRows(es, S) = f[S]
  BY DEF storedRows, MapThenSumSet, MapThenFoldSet, Counts
<1> QED  BY <1>2, <1>3

\* One of the entries, then the others.
LEMMA RowsEquation ==
    ASSUME NEW es, NEW S, IsFiniteSet(S)
    PROVE  storedRows(es, S) = IF S = {} THEN 0
                               ELSE LET c == CHOOSE c \in S : TRUE
                                    IN  RowCount(es[c]) + storedRows(es, S \ {c})
<1>1. PICK f : Counts(es, S, f) /\ storedRows(es, S) = f[S]  BY StoredRowsCounts
<1>2. CASE S = {}  BY <1>1, <1>2 DEF Counts
<1>3. CASE S # {}
  <2> DEFINE c == CHOOSE c \in S : TRUE
  <2>1. f[S] = RowCount(es[c]) + f[S \ {c}]  BY <1>1, <1>3 DEF Counts
  <2>2. IsFiniteSet(S \ {c})  BY FS_Subset
  <2> HIDE DEF c
  <2>3. PICK g : Counts(es, S \ {c}, g) /\ storedRows(es, S \ {c}) = g[S \ {c}]
    BY <2>2, StoredRowsCounts
  <2>4. f[S \ {c}] = g[S \ {c}]  BY <1>1, <2>3, CountsUnique
  <2> QED  BY <1>1, <1>3, <2>1, <2>3, <2>4 DEF c
<1> QED  BY <1>2, <1>3

LEMMA RowsEmpty == ASSUME NEW es PROVE storedRows(es, {}) = 0
BY RowsEquation, FS_EmptySet

\* A sum of natural numbers is one.
LEMMA RowsType ==
    ASSUME NEW es, NEW S, IsFiniteSet(S), \A c \in S : RowCount(es[c]) \in Nat
    PROVE  storedRows(es, S) \in Nat
<1> DEFINE B == {s \in SUBSET S : storedRows(es, s) \notin Nat}
<1>1. SUFFICES ASSUME B # {} PROVE FALSE  OBVIOUS
<1>2. PICK s \in B : \A u \in SUBSET s : u # s => u \notin B
  <2>1. B \in SUBSET (SUBSET S)  OBVIOUS
  <2> HIDE DEF B
  <2> QED  BY <1>1, <2>1, SmallestSubset
<1> DEFINE c == CHOOSE c \in s : TRUE
<1>3. s \in SUBSET S /\ IsFiniteSet(s) /\ storedRows(es, s) \notin Nat  BY <1>2, FS_Subset
<1>4. s # {}  BY <1>3, RowsEquation
<1>5. storedRows(es, s) = RowCount(es[c]) + storedRows(es, s \ {c})  BY <1>3, <1>4, RowsEquation
<1>6. c \in s  BY <1>4
<1> HIDE DEF c
<1>7. storedRows(es, s \ {c}) \in Nat  BY <1>2, <1>6
<1> QED  BY <1>3, <1>5, <1>6, <1>7

\* Any entry can be counted first.
LEMMA RowsRemove ==
    ASSUME NEW es, NEW S, IsFiniteSet(S), \A c \in S : RowCount(es[c]) \in Nat,
           NEW x \in S
    PROVE  storedRows(es, S) = RowCount(es[x]) + storedRows(es, S \ {x})
<1> DEFINE B == {s \in SUBSET S : \E c \in s :
                    storedRows(es, s) # RowCount(es[c]) + storedRows(es, s \ {c})}
<1>1. SUFFICES ASSUME B # {} PROVE FALSE  OBVIOUS
<1>2. PICK s \in B : \A u \in SUBSET s : u # s => u \notin B
  <2>1. B \in SUBSET (SUBSET S)  OBVIOUS
  <2> HIDE DEF B
  <2> QED  BY <1>1, <2>1, SmallestSubset
<1>3. s \in SUBSET S /\ IsFiniteSet(s)  BY <1>2, FS_Subset
<1>4. PICK d \in s : storedRows(es, s) # RowCount(es[d]) + storedRows(es, s \ {d})  BY <1>2
<1> DEFINE c == CHOOSE c \in s : TRUE
<1>5. storedRows(es, s) = RowCount(es[c]) + storedRows(es, s \ {c})  BY <1>3, <1>4, RowsEquation
<1>6. c \in s  BY <1>4
<1> HIDE DEF c
<1>7. c # d  BY <1>4, <1>5
<1>8. storedRows(es, s \ {c}) = RowCount(es[d]) + storedRows(es, (s \ {c}) \ {d})
  BY <1>2, <1>3, <1>4, <1>6, <1>7
<1>9. storedRows(es, s \ {d}) = RowCount(es[c]) + storedRows(es, (s \ {d}) \ {c})
  BY <1>2, <1>3, <1>4, <1>6, <1>7
<1>10. (s \ {c}) \ {d} = (s \ {d}) \ {c}  OBVIOUS
<1>11. /\ storedRows(es, (s \ {c}) \ {d}) \in Nat
       /\ RowCount(es[c]) \in Nat /\ RowCount(es[d]) \in Nat
  <2>1. IsFiniteSet((s \ {c}) \ {d})  BY <1>3, FS_Subset
  <2> QED  BY <1>3, <1>4, <1>6, <2>1, RowsType
<1> QED  BY <1>4, <1>5, <1>8, <1>9, <1>10, <1>11

\* Only the entries counted matter.
LEMMA RowsAgree ==
    ASSUME NEW es, NEW ds, NEW S, IsFiniteSet(S), \A c \in S : es[c] = ds[c]
    PROVE  storedRows(es, S) = storedRows(ds, S)
<1> DEFINE B == {s \in SUBSET S : storedRows(es, s) # storedRows(ds, s)}
<1>1. SUFFICES ASSUME B # {} PROVE FALSE  OBVIOUS
<1>2. PICK s \in B : \A u \in SUBSET s : u # s => u \notin B
  <2>1. B \in SUBSET (SUBSET S)  OBVIOUS
  <2> HIDE DEF B
  <2> QED  BY <1>1, <2>1, SmallestSubset
<1> DEFINE c == CHOOSE c \in s : TRUE
<1>3. s \in SUBSET S /\ IsFiniteSet(s) /\ storedRows(es, s) # storedRows(ds, s)  BY <1>2, FS_Subset
<1>4. s # {}  BY <1>3, RowsEquation
<1>5. /\ storedRows(es, s) = RowCount(es[c]) + storedRows(es, s \ {c})
      /\ storedRows(ds, s) = RowCount(ds[c]) + storedRows(ds, s \ {c})
  BY <1>3, <1>4, RowsEquation
<1>6. c \in s  BY <1>4
<1> HIDE DEF c
<1>7. storedRows(es, s \ {c}) = storedRows(ds, s \ {c})  BY <1>2, <1>6
<1> QED  BY <1>3, <1>5, <1>6, <1>7

\* Fewer entries have no more rows.
LEMMA RowsMonotonic ==
    ASSUME NEW es, NEW S, IsFiniteSet(S), \A c \in S : RowCount(es[c]) \in Nat,
           NEW T \in SUBSET S
    PROVE  storedRows(es, T) <= storedRows(es, S)
<1> DEFINE B == {s \in SUBSET S : T \subseteq s /\ ~(storedRows(es, T) <= storedRows(es, s))}
<1>1. SUFFICES ASSUME B # {} PROVE FALSE  OBVIOUS
<1>2. PICK s \in B : \A u \in SUBSET s : u # s => u \notin B
  <2>1. B \in SUBSET (SUBSET S)  OBVIOUS
  <2> HIDE DEF B
  <2> QED  BY <1>1, <2>1, SmallestSubset
<1>3. s \in SUBSET S /\ IsFiniteSet(s) /\ IsFiniteSet(T)  BY <1>2, FS_Subset
<1>4. T \subseteq s /\ ~(storedRows(es, T) <= storedRows(es, s))  BY <1>2
<1>5. storedRows(es, T) \in Nat /\ storedRows(es, s) \in Nat  BY <1>3, RowsType
<1>6. PICK c \in s : c \notin T  BY <1>4, <1>5
<1>7. storedRows(es, s) = RowCount(es[c]) + storedRows(es, s \ {c})  BY <1>3, RowsRemove
<1>8. storedRows(es, T) <= storedRows(es, s \ {c})  BY <1>2, <1>3, <1>4, <1>6
<1>9. storedRows(es, s \ {c}) \in Nat
  <2>1. IsFiniteSet(s \ {c})  BY <1>3, FS_Subset
  <2> QED  BY <1>3, <2>1, RowsType
<1> QED  BY <1>3, <1>4, <1>5, <1>7, <1>8, <1>9

-----------------------------------------------------------------------------

\* Cursors are numbers of an interval, so the store is finite.
LEMMA EntriesFinite == TypeOK => \A S \in SUBSET DOMAIN entries :
                          IsFiniteSet(S) /\ Cardinality(S) \in Nat
                            /\ Cardinality(S) <= Cardinality(DOMAIN entries)
<1>1. SUFFICES ASSUME TypeOK, NEW S \in SUBSET DOMAIN entries
               PROVE  IsFiniteSet(S) /\ Cardinality(S) \in Nat
                        /\ Cardinality(S) <= Cardinality(DOMAIN entries)
  OBVIOUS
<1>2. DOMAIN entries \in SUBSET Nat /\ \A c \in DOMAIN entries : c <= issued
  BY <1>1 DEF TypeOK, Cursors
<1>3. issued \in Nat  BY <1>1 DEF TypeOK
<1>4. IsFiniteSet(DOMAIN entries)  BY <1>2, <1>3, FS_BoundedSetOfNaturals
<1>5. IsFiniteSet(S) /\ Cardinality(S) <= Cardinality(DOMAIN entries)
  BY <1>4, FS_Subset
<1> QED  BY <1>5, FS_CardinalityType

\* Adding the one fresh cursor to fewer than max entries stays within max.
LEMMA StoreCount ==
    ASSUME TypeOK, NEW S \in SUBSET DOMAIN entries, Cardinality(S) < MaxEntries
    PROVE  Cardinality(S \cup {issued + 1}) <= MaxEntries
<1>1. IsFiniteSet(S) /\ Cardinality(S) \in Nat  BY EntriesFinite
<1>2. issued + 1 \notin S  BY DEF TypeOK, Cursors
<1>3. Cardinality(S \cup {issued + 1}) = Cardinality(S) + 1  BY <1>1, <1>2, FS_AddElement
<1> QED  BY <1>1, <1>3, CursorStoreAssumption

\* Every entry has rows left, so sums of rows are natural numbers that grow with the entries.
LEMMA EntriesRows ==
    ASSUME TypeOK, CursorIsTheRest, NEW S \in SUBSET DOMAIN entries
    PROVE  /\ \A c \in S : RowCount(entries[c]) \in Nat \ {0}
           /\ storedRows(entries, S) \in Nat
           /\ storedRows(entries, S) <= storedRows(entries, DOMAIN entries)
           /\ storedRows(entries, DOMAIN entries) \in Nat
           /\ \A T \in SUBSET S : storedRows(entries, T) <= storedRows(entries, S)
<1>1. \A c \in DOMAIN entries : RowCount(entries[c]) \in Nat \ {0}
  BY DEF TypeOK, CursorIsTheRest, Entry, RowCount
<1>2. IsFiniteSet(DOMAIN entries) /\ IsFiniteSet(S)  BY EntriesFinite
<1>3. \A c \in DOMAIN entries : RowCount(entries[c]) \in Nat  BY <1>1
<1>4. storedRows(entries, S) \in Nat /\ storedRows(entries, DOMAIN entries) \in Nat
  BY <1>2, <1>3, RowsType
<1>5. storedRows(entries, S) <= storedRows(entries, DOMAIN entries)
  BY <1>2, <1>3, RowsMonotonic
<1>6. \A T \in SUBSET S : storedRows(entries, T) <= storedRows(entries, S)
  BY <1>2, <1>3, RowsMonotonic
<1> QED  BY <1>1, <1>4, <1>5, <1>6

\* Storing an entry of n rows next to S: its rows are added to theirs.
LEMMA StoreRows ==
    ASSUME TypeOK, CursorIsTheRest, NEW S \in SUBSET DOMAIN entries,
           NEW q, NEW from \in Nat, NEW to \in Nat, from <= to, NEW size,
           Store(S, q, from, to, size)
    PROVE  /\ storedRows(entries', {issued + 1}) = to + 1 - from
           /\ storedRows(entries', S \cup {issued + 1}) = storedRows(entries, S) + (to + 1 - from)
<1> DEFINE new == issued + 1
<1>1. /\ RowCount(entries'[new]) = to + 1 - from
      /\ \A c \in S : entries'[c] = entries[c]
      /\ new \notin S
  BY DEF Store, Continuation, RowCount, TypeOK, Cursors
<1>2. /\ IsFiniteSet(S) /\ IsFiniteSet(S \cup {new}) /\ IsFiniteSet({new}) /\ IsFiniteSet({})
  BY EntriesFinite, FS_AddElement, FS_Singleton, FS_EmptySet
<1>3. to + 1 - from \in Nat  OBVIOUS
<1> HIDE DEF new
<1>4. \A c \in S \cup {new} : RowCount(entries'[c]) \in Nat
  BY <1>1, <1>3, EntriesRows
<1>5. storedRows(entries', {new}) = to + 1 - from
  <2>1. storedRows(entries', {new}) = RowCount(entries'[new]) + storedRows(entries', {new} \ {new})
    BY <1>2, <1>4, RowsRemove
  <2>2. storedRows(entries', {new} \ {new}) = 0
    <3>1. {new} \ {new} = {}  OBVIOUS
    <3> QED  BY <3>1, RowsEmpty
  <2> QED  BY <1>1, <1>3, <2>1, <2>2
<1>6. storedRows(entries', S \cup {new}) = (to + 1 - from) + storedRows(entries', (S \cup {new}) \ {new})
  BY <1>1, <1>2, <1>4, RowsRemove
<1>7. (S \cup {new}) \ {new} = S  BY <1>1
<1>8. storedRows(entries', S) = storedRows(entries, S)
  BY <1>1, <1>2, RowsAgree
<1>9. storedRows(entries, S) \in Nat  BY EntriesRows
<1> QED  BY <1>3, <1>5, <1>6, <1>7, <1>8, <1>9 DEF new

\* The initial states satisfy the invariant.
LEMMA InitIInv == Init => IInv
<1> SUFFICES ASSUME Init PROVE IInv  OBVIOUS
<1>1. DOMAIN entries = {}  BY DEF Init
<1>2. TypeOK /\ SingleUse  BY <1>1 DEF Init, TypeOK, SingleUse, Page, Entry, NoCursor, Cursors
<1>3. WithinCount  BY <1>1, FS_EmptySet, CursorStoreAssumption DEF WithinCount
<1>4. CursorIsTheRest /\ LifetimeOK  BY <1>1 DEF CursorIsTheRest, LifetimeOK
<1>5. PagesOK  BY CursorStoreAssumption DEF Init, PagesOK, Page, NoCursor
<1>6. WithinRows
  <2>1. storedRows(entries, DOMAIN entries) = 0  BY <1>1, RowsEmpty
  <2> QED  BY <2>1, CursorStoreAssumption DEF WithinRows
<1> QED  BY <1>2, <1>3, <1>4, <1>5, <1>6 DEF IInv

\* Keeping some of the entries keeps no more rows.
LEMMA KeepRows ==
    ASSUME TypeOK, CursorIsTheRest, WithinRows, NEW S \in SUBSET DOMAIN entries,
           DOMAIN entries' = S, \A c \in S : entries'[c] = entries[c]
    PROVE  WithinRows'
<1>1. storedRows(entries', S) = storedRows(entries, S)
  BY EntriesFinite, RowsAgree
<1> QED  BY <1>1, EntriesRows, CursorStoreAssumption DEF WithinRows

\* Keeping some of the entries and nothing else preserves what is said of them.
LEMMA KeepIInv ==
    ASSUME IInv, NEW S \in SUBSET DOMAIN entries, Keep(S),
           UNCHANGED <<total, page, servedAt>>, now' \in Nat,
           used' \subseteq Cursors, used' \cap S = {}
    PROVE  IInv'
<1>1. DOMAIN entries' = S /\ \A c \in S : entries'[c] = entries[c]  BY DEF Keep
<1>2. issued' = issued  BY DEF Keep
<1>3. TypeOK'
  <2>1. entries' \in [DOMAIN entries' -> Entry']  BY <1>1 DEF IInv, TypeOK, Keep, Entry
  <2> QED  BY <1>1, <1>2, <2>1 DEF IInv, TypeOK, Cursors
<1>4. WithinCount'
  <2>1. Cardinality(S) \in Nat /\ Cardinality(S) <= Cardinality(DOMAIN entries)
    BY EntriesFinite DEF IInv
  <2>2. Cardinality(DOMAIN entries) \in Nat  BY EntriesFinite DEF IInv
  <2> QED  BY <1>1, <2>1, <2>2, CursorStoreAssumption DEF IInv, WithinCount
<1>5. CursorIsTheRest'  BY <1>1 DEF IInv, CursorIsTheRest
<1>6. PagesOK'  BY <1>2 DEF IInv, PagesOK
<1>7. LifetimeOK'  BY <1>1 DEF IInv, LifetimeOK
<1>8. WithinRows'  BY <1>1, KeepRows DEF IInv
<1>9. SingleUse'  BY <1>1 DEF SingleUse
<1> QED  BY <1>3, <1>4, <1>5, <1>6, <1>7, <1>8, <1>9 DEF IInv

\* Storing the rest of q's result next to entries that are not q's.
LEMMA StoreIInv ==
    ASSUME IInv, NEW q \in Queries, NEW S \in SUBSET DOMAIN entries,
           Cardinality(S) < MaxEntries, \A c \in S : entries[c].query # q,
           NEW from \in Nat, NEW last \in Nat, NEW n \in Nat, NEW size \in Nat \ {0},
           storedRows(entries, S) + (n - last) <= MaxRows,
           last < n, n <= Limit, total' = [total EXCEPT ![q] = n],
           Store(S, q, last + 1, n, size), Return(q, from, last, issued + 1),
           now' = now, used' \subseteq Cursors, used' \cap S = {}
    PROVE  IInv'
<1> USE DEF IInv
<1>1. /\ DOMAIN entries' = S \cup {issued + 1}
      /\ entries'[issued + 1] = [query |-> q, from |-> last + 1, to |-> n,
                                 pageSize |-> size, expires |-> now + TTL]
      /\ \A c \in S : c # issued + 1 /\ entries'[c] = entries[c]
  BY DEF Store, Continuation, TypeOK, Cursors
<1>2. issued' = issued + 1 /\ issued' \in Nat  BY DEF Store, TypeOK
<1>3. /\ page' = [page EXCEPT ![q] = Page(from, last, issued + 1)]
      /\ servedAt' = [servedAt EXCEPT ![q] = now]
  BY DEF Return
<1>4. TypeOK'
  <2>1. entries'[issued + 1] \in Entry
    BY <1>1, CursorStoreAssumption DEF TypeOK, Entry
  <2>2. \A c \in S : entries'[c] \in Entry  BY <1>1 DEF TypeOK
  <2>3. entries' \in [DOMAIN entries' -> Entry]  BY <1>1, <2>1, <2>2 DEF Store
  <2>4. DOMAIN entries' \subseteq Cursors'  BY <1>1, <1>2 DEF TypeOK, Cursors
  <2>5. page' \in [Queries -> [from : Nat, to : Nat, cursor : Nat]]
    BY <1>2, <1>3 DEF TypeOK, Page
  <2>6. total' \in [Queries -> Nat] /\ servedAt' \in [Queries -> Nat]
    BY <1>3 DEF TypeOK
  <2>7. used' \subseteq Cursors'  BY <1>2 DEF Cursors, TypeOK
  <2> QED  BY <1>2, <2>3, <2>4, <2>5, <2>6, <2>7 DEF TypeOK, Entry
<1>5. WithinCount'  BY <1>1, StoreCount DEF WithinCount
<1>6. CursorIsTheRest'
  <2> SUFFICES ASSUME NEW c \in DOMAIN entries'
               PROVE  /\ c = page'[entries'[c].query].cursor
                      /\ entries'[c].from = page'[entries'[c].query].to + 1
                      /\ entries'[c].to = total'[entries'[c].query]
                      /\ entries'[c].from <= entries'[c].to
    BY DEF CursorIsTheRest
  <2>1. CASE c = issued + 1  BY <1>1, <1>3, <2>1 DEF TypeOK, Page
  <2>2. CASE c \in S
    BY <1>1, <1>3, <2>2 DEF TypeOK, CursorIsTheRest, Entry
  <2> QED  BY <1>1, <2>1, <2>2
<1>7. PagesOK'
  <2> SUFFICES ASSUME NEW r \in Queries
               PROVE  /\ page'[r].to <= total'[r]
                      /\ page'[r].cursor # NoCursor <=> page'[r].to < total'[r]
                      /\ page'[r].cursor <= issued'
                      /\ total'[r] <= Limit
    BY DEF PagesOK
  <2>1. CASE r = q  BY <1>2, <1>3, <2>1 DEF TypeOK, Page, NoCursor
  <2>2. CASE r # q
    <3>1. page'[r] = page[r] /\ total'[r] = total[r]  BY <1>3, <2>2 DEF TypeOK
    <3>2. page[r].cursor \in Nat /\ issued \in Nat  BY DEF TypeOK
    <3> QED  BY <1>2, <3>1, <3>2 DEF PagesOK
  <2> QED  BY <2>1, <2>2
<1>8. LifetimeOK'
  BY <1>1, <1>3 DEF LifetimeOK, TypeOK, Entry
<1>9. WithinRows'
  <2> DEFINE from1 == last + 1
  <2>1. from1 \in Nat /\ from1 <= n /\ n + 1 - from1 = n - last  OBVIOUS
  <2>2. Store(S, q, from1, n, size)  OBVIOUS
  <2> HIDE DEF from1
  <2>3. storedRows(entries', S \cup {issued + 1}) = storedRows(entries, S) + (n + 1 - from1)
    BY <2>1, <2>2, StoreRows
  <2> QED  BY <1>1, <2>1, <2>3 DEF WithinRows
<1>10. SingleUse'
  <2>1. issued + 1 \notin used'  BY DEF TypeOK, Cursors
  <2> QED  BY <1>1, <2>1 DEF SingleUse
<1> QED  BY <1>4, <1>5, <1>6, <1>7, <1>8, <1>9, <1>10

\* Returning the last page of q's result, with no entry of q's kept.
LEMMA LastPageIInv ==
    ASSUME IInv, NEW q \in Queries, NEW S \in SUBSET DOMAIN entries,
           \A c \in S : entries[c].query # q,
           NEW from \in Nat, NEW n \in Nat, n <= Limit,
           total' = [total EXCEPT ![q] = n],
           Keep(S), Return(q, from, n, NoCursor), now' = now,
           used' \subseteq Cursors, used' \cap S = {}
    PROVE  IInv'
<1> USE DEF IInv
<1>1. /\ DOMAIN entries' = S /\ issued' = issued
      /\ \A c \in S : entries'[c] = entries[c]
  BY DEF Keep
<1>2. /\ page' = [page EXCEPT ![q] = Page(from, n, NoCursor)]
      /\ servedAt' = [servedAt EXCEPT ![q] = now]
  BY DEF Return
<1>3. TypeOK'
  <2>1. entries' \in [DOMAIN entries' -> Entry']  BY <1>1 DEF TypeOK, Keep, Entry
  <2>2. page' \in [Queries -> [from : Nat, to : Nat, cursor : Nat]]
    BY <1>2 DEF TypeOK, Page, NoCursor
  <2> QED  BY <1>1, <1>2, <2>1, <2>2 DEF TypeOK, Cursors
<1>4. WithinCount'
  <2>1. Cardinality(S) \in Nat /\ Cardinality(S) <= Cardinality(DOMAIN entries)
    BY EntriesFinite
  <2>2. Cardinality(DOMAIN entries) \in Nat  BY EntriesFinite
  <2> QED  BY <1>1, <2>1, <2>2, CursorStoreAssumption DEF WithinCount
<1>5. CursorIsTheRest'  BY <1>1, <1>2 DEF CursorIsTheRest, TypeOK, Entry
<1>6. PagesOK'
  <2> SUFFICES ASSUME NEW r \in Queries
               PROVE  /\ page'[r].to <= total'[r]
                      /\ page'[r].cursor # NoCursor <=> page'[r].to < total'[r]
                      /\ page'[r].cursor <= issued'
                      /\ total'[r] <= Limit
    BY DEF PagesOK
  <2>1. CASE r = q  BY <1>1, <1>2, <2>1 DEF TypeOK, Page, NoCursor
  <2>2. CASE r # q  BY <1>1, <1>2, <2>2 DEF TypeOK, PagesOK
  <2> QED  BY <2>1, <2>2
<1>7. LifetimeOK'  BY <1>1, <1>2 DEF LifetimeOK, TypeOK, Entry
<1>8. WithinRows'  BY <1>1, KeepRows
<1>9. SingleUse'  BY <1>1 DEF SingleUse
<1> QED  BY <1>3, <1>4, <1>5, <1>6, <1>7, <1>8, <1>9

\* A result that has not been computed has no entry.
LEMMA NoEntryBeforeQuery ==
    ASSUME IInv, NEW q \in Queries, total[q] = 0
    PROVE  \A c \in DOMAIN entries : entries[c].query # q
BY DEF IInv, TypeOK, CursorIsTheRest, Entry

\* A result has at most one entry.
LEMMA OneEntryPerQuery ==
    ASSUME IInv, NEW c \in DOMAIN entries
    PROVE  \A d \in DOMAIN entries \ {c} : entries[d].query # entries[c].query
BY DEF IInv, CursorIsTheRest

\* What Query does for a new result, in terms of its parameters.
LEMMA QueryIInv ==
    ASSUME IInv, NEW q \in Queries, NEW n \in 1..Limit, NEW size \in PageSizes,
           Query(q, n, size)
    PROVE  IInv'
<1> DEFINE count == Lesser(size, n)
<1>1. /\ size \in Nat \ {0} /\ n \in Nat /\ n <= Limit /\ count \in Nat /\ count <= n
  BY CursorStoreAssumption DEF Lesser
<1>2. \A c \in DOMAIN entries : entries[c].query # q
  BY NoEntryBeforeQuery DEF Query
<1>3. total' = [total EXCEPT ![q] = n] /\ now' = now /\ used' = used  BY DEF Query
<1>6. used' \subseteq Cursors /\ used' \cap DOMAIN entries = {}  BY <1>3 DEF IInv, TypeOK, SingleUse
<1>4. CASE count < n
  <2>1. PICK S \in SUBSET Live : LeftByEviction(S, n - count)
                                  /\ Store(S, q, count + 1, n, size)
    BY <1>4 DEF Query
  <2>2. S \in SUBSET DOMAIN entries  BY DEF Live
  <2>3. Cardinality(S) \in Nat  BY <2>2, EntriesFinite DEF IInv
  <2>4. Cardinality(S) < MaxEntries
    <3>1. CASE S = {}  BY <3>1, FS_EmptySet, CursorStoreAssumption
    <3>2. CASE ~Full(S, n - count)  BY <2>3, <3>2, CursorStoreAssumption DEF Full
    <3> QED  BY <2>1, <3>1, <3>2 DEF LeftByEviction
  <2>5. Return(q, 1, count, issued + 1)  BY <1>4 DEF Query
  <2> HIDE DEF count
  <2>6. storedRows(entries, S) + (n - count) <= MaxRows
    <3>1. storedRows(entries, S) \in Nat  BY <2>2, EntriesRows DEF IInv
    <3>2. CASE S = {}
      <4>1. storedRows(entries, S) = 0  BY <3>2, RowsEmpty
      <4> QED  BY <1>1, <4>1, CursorStoreAssumption
    <3>3. CASE ~Full(S, n - count)  BY <1>1, <3>1, <3>3, CursorStoreAssumption DEF Full
    <3> QED  BY <2>1, <3>2, <3>3 DEF LeftByEviction
  <2>7. used' \cap S = {}  BY <1>6, <2>2
  <2> QED  BY <1>1, <1>2, <1>3, <1>4, <1>6, <2>1, <2>2, <2>4, <2>5, <2>6, <2>7, StoreIInv
<1>5. CASE ~(count < n)
  <2>1. count = n  BY <1>1, <1>5
  <2>2. Return(q, 1, n, NoCursor) /\ UNCHANGED <<entries, issued>>
    BY <1>5, <2>1 DEF Query
  <2>3. Keep(DOMAIN entries)  BY <2>2 DEF Keep, IInv, TypeOK
  <2> QED  BY <1>1, <1>2, <1>3, <1>6, <2>2, <2>3, LastPageIInv
<1> QED  BY <1>4, <1>5

\* A page served from an entry.
LEMMA HitIInv == ASSUME IInv, NEW c \in Cursors, Hit(c) PROVE IInv'
<1> DEFINE e     == entries[c]
           count == IF e.pageSize <= RowCount(e) THEN e.pageSize ELSE RowCount(e)
           last  == e.from + count - 1
           kept  == Others(c)
<1>1. c \in DOMAIN entries  BY DEF Hit, Live
<1>2. /\ e \in Entry /\ e.from <= e.to /\ e.to = total[e.query]
      /\ e.from = page[e.query].to + 1 /\ total[e.query] <= Limit
  BY <1>1 DEF IInv, TypeOK, CursorIsTheRest, PagesOK, Entry
<1>3. /\ e.query \in Queries /\ e.from \in Nat /\ e.to \in Nat /\ e.pageSize \in Nat \ {0}
      /\ e.from >= 1
  BY <1>1, <1>2 DEF Entry, IInv, TypeOK
<1>4. last \in Nat /\ last <= e.to  BY <1>2, <1>3 DEF RowCount
<1>5. kept \in SUBSET DOMAIN entries /\ \A d \in kept : entries[d].query # e.query
  BY <1>1, OneEntryPerQuery DEF Live, Others
<1>6. total' = [total EXCEPT ![e.query] = e.to] /\ now' = now
  BY <1>2 DEF Hit, IInv, TypeOK
<1>9. used' \subseteq Cursors /\ used' \cap kept = {}
  BY DEF Hit, IInv, TypeOK, SingleUse, Live, Others
<1>7. CASE last < e.to
  <2>1. Store(kept, e.query, last + 1, e.to, e.pageSize)
          /\ Return(e.query, e.from, last, issued + 1)
    BY <1>7 DEF Hit
  <2>2. Cardinality(kept) < MaxEntries
    <3>1. IsFiniteSet(DOMAIN entries) /\ Cardinality(DOMAIN entries) \in Nat
      BY EntriesFinite DEF IInv
    <3>2. /\ IsFiniteSet(DOMAIN entries \ {c})
          /\ Cardinality(DOMAIN entries \ {c}) = Cardinality(DOMAIN entries) - 1
      BY <1>1, <3>1, FS_RemoveElement
    <3>3. kept \in SUBSET (DOMAIN entries \ {c})  BY DEF Live, Others
    <3>4. Cardinality(kept) <= Cardinality(DOMAIN entries \ {c})
            /\ Cardinality(kept) \in Nat
      BY <3>2, <3>3, FS_Subset, FS_CardinalityType
    <3> QED  BY <3>1, <3>2, <3>4, CursorStoreAssumption DEF IInv, WithinCount
  <2>3. storedRows(entries, kept) + (e.to - last) <= MaxRows
    <3>1. Live \in SUBSET DOMAIN entries /\ c \in Live /\ IsFiniteSet(Live)
      BY EntriesFinite DEF Live, Hit, IInv
    <3>2. \A d \in Live : RowCount(entries[d]) \in Nat  BY <3>1, EntriesRows DEF IInv
    <3>3. storedRows(entries, Live) = RowCount(e) + storedRows(entries, kept)
      BY <3>1, <3>2, RowsRemove DEF Others
    <3>4. storedRows(entries, Live) <= MaxRows
      BY <3>1, EntriesRows, CursorStoreAssumption DEF IInv, WithinRows
    <3>5. storedRows(entries, kept) \in Nat /\ RowCount(e) \in Nat
      BY <1>5, <3>1, <3>2, EntriesRows DEF IInv
    <3>6. e.to - last <= RowCount(e) /\ e.to - last \in Nat  BY <1>3, <1>4, <1>7 DEF RowCount
    <3> HIDE DEF kept, last, e
    <3> QED  BY <3>3, <3>4, <3>5, <3>6, CursorStoreAssumption
  <2> HIDE DEF last, kept
  <2> QED  BY <1>2, <1>3, <1>4, <1>5, <1>6, <1>7, <1>9, <2>1, <2>2, <2>3, StoreIInv
<1>8. CASE ~(last < e.to)
  <2>1. last = e.to  BY <1>3, <1>4, <1>8
  <2>2. Keep(kept) /\ Return(e.query, e.from, e.to, NoCursor)
    BY <1>8, <2>1 DEF Hit
  <2> HIDE DEF last, kept
  <2> QED  BY <1>2, <1>3, <1>5, <1>6, <1>9, <2>2, LastPageIInv
<1> QED  BY <1>7, <1>8

\* Every step preserves the invariant.
LEMMA NextIInv == IInv /\ [Next]_vars => IInv'
<1> SUFFICES ASSUME IInv, [Next]_vars PROVE IInv'  OBVIOUS
<1>1. ASSUME NEW q \in Queries, NEW n \in 1..Limit, NEW size \in PageSizes,
             Query(q, n, size)
      PROVE  IInv'
  BY <1>1, QueryIInv
<1>2. ASSUME NEW c \in Cursors, Hit(c) PROVE IInv'
  BY <1>2, HitIInv
<1>3. ASSUME NEW c \in Cursors, Miss(c) PROVE IInv'
  <2>1. Live \in SUBSET DOMAIN entries  BY DEF Live
  <2>2. used' \subseteq Cursors /\ used' \cap Live = {}
    BY <1>3, <2>1 DEF Miss, IInv, TypeOK, SingleUse
  <2> QED  BY <1>3, <2>1, <2>2, KeepIInv DEF Miss, IInv, TypeOK
<1>4. CASE Tick
  <2>1. Keep(DOMAIN entries)  BY <1>4 DEF Tick, Keep, IInv, TypeOK
  <2>2. now' \in Nat  BY <1>4 DEF Tick, IInv, TypeOK
  <2>3. used' \subseteq Cursors /\ used' \cap DOMAIN entries = {}
    BY <1>4 DEF Tick, IInv, TypeOK, SingleUse
  <2> QED  BY <1>4, <2>1, <2>2, <2>3, KeepIInv DEF Tick
<1>5. CASE UNCHANGED vars
  BY <1>5 DEF vars, IInv, TypeOK, Entry, WithinCount, WithinRows, CursorIsTheRest, PagesOK,
              LifetimeOK, SingleUse, Cursors, NoCursor
<1> QED  BY <1>1, <1>2, <1>3, <1>4, <1>5 DEF Next, NextPage

\* The inductive invariant of the store.
THEOREM Invariance == Spec => []IInv
<1>1. Init => IInv  BY InitIInv
<1>2. IInv /\ [Next]_vars => IInv'  BY NextIInv
<1> QED  BY <1>1, <1>2, PTL DEF Spec

\* The state keeps its shape.
THEOREM TypeCorrect == Spec => []TypeOK
<1>1. IInv => TypeOK  BY DEF IInv
<1> QED  BY <1>1, Invariance, PTL

\* The store never holds more than max cursors.
THEOREM CountBound == Spec => []WithinCount
<1>1. IInv => WithinCount  BY DEF IInv
<1> QED  BY <1>1, Invariance, PTL

\* The rows it holds never exceed maxRows, although Next stores remainders without looking.
THEOREM RowBound == Spec => []WithinRows
<1>1. IInv => WithinRows  BY DEF IInv
<1> QED  BY <1>1, Invariance, PTL

\* A stored continuation is its caller's, and exactly what the caller lacks.
THEOREM NoRepeatNoSkip == Spec => []CursorIsTheRest
<1>1. IInv => CursorIsTheRest  BY DEF IInv
<1> QED  BY <1>1, Invariance, PTL

\* A cursor that a page was served for is not in the store, and never will be: whoever
\* presents it a second time is refused.
THEOREM CursorsAreSingleUse == Spec => []SingleUse
<1>1. IInv => SingleUse  BY DEF IInv
<1> QED  BY <1>1, Invariance, PTL

\* A page that follows another is served within one lifetime of it.
THEOREM PagesAreServedInTime == Spec => ServedInTime
<1> DEFINE InTime == \A q \in Queries :
              page[q].cursor # NoCursor /\ page'[q] # page[q] => now < servedAt[q] + TTL
<1>1. ASSUME IInv, Next, NEW q \in Queries, page[q].cursor # NoCursor, page'[q] # page[q]
      PROVE  now < servedAt[q] + TTL
  <2>1. total[q] # 0
    BY <1>1 DEF IInv, TypeOK, PagesOK
  <2>2. ASSUME NEW r \in Queries, NEW n \in 1..Limit, NEW size \in PageSizes,
               Query(r, n, size)
        PROVE  FALSE
    <3>1. r # q  BY <2>1, <2>2 DEF Query
    <3> QED  BY <1>1, <2>2, <3>1 DEF Query, Return, IInv, TypeOK
  <2>3. ASSUME NEW c \in Cursors, Hit(c) PROVE now < servedAt[q] + TTL
    <3>1. c \in DOMAIN entries /\ now < entries[c].expires  BY <2>3 DEF Hit, Live
    <3>2. entries[c].query = q
      BY <1>1, <2>3 DEF Hit, Return, IInv, TypeOK
    <3> QED  BY <1>1, <3>1, <3>2 DEF IInv, LifetimeOK
  <2> QED  BY <1>1, <2>2, <2>3 DEF Next, NextPage, Miss, Tick
<1>2. IInv /\ [Next]_vars => [InTime]_vars  BY <1>1
<1> QED  BY <1>2, Invariance, PTL DEF Spec, ServedInTime

\* The eviction loop takes no more than it must: with the last entry it took, a
\* longest-lived one of those, the store is full.
LEMMA EvictionIsForced ==
    ASSUME IInv, NEW S \in SUBSET Live, NEW n \in Nat, LeftByEviction(S, n), Live \ S # {}
    PROVE  \E c \in Live \ S :
              /\ \A d \in Live \ S : entries[d].expires <= entries[c].expires
              /\ \/ Cardinality({c} \cup (S \cup {issued + 1})) > MaxEntries
                 \/ storedRows(entries, {c} \cup S) + n > MaxRows
<1>1. PICK c \in Live \ S : /\ \A d \in Live \ S : entries[d].expires <= entries[c].expires
                            /\ Full(S \cup {c}, n)
  BY DEF LeftByEviction
<1>2. S \cup {c} \in SUBSET Live /\ Live \in SUBSET DOMAIN entries  BY DEF Live
<1>3. TypeOK  BY DEF IInv
<1>4. IsFiniteSet(S \cup {c}) /\ Cardinality(S \cup {c}) \in Nat
  BY <1>2, <1>3, EntriesFinite, FS_CardinalityType
<1>5. Cardinality((S \cup {c}) \cup {issued + 1}) = Cardinality(S \cup {c}) + 1
  <2>1. issued + 1 \notin S \cup {c}  BY <1>2, <1>3 DEF TypeOK, Cursors
  <2> QED  BY <1>4, <2>1, FS_AddElement
<1>6. (S \cup {c}) \cup {issued + 1} = {c} \cup (S \cup {issued + 1}) /\ S \cup {c} = {c} \cup S
  OBVIOUS
<1>7. CASE Cardinality(S \cup {c}) >= MaxEntries
  <2>1. Cardinality({c} \cup (S \cup {issued + 1})) > MaxEntries
    BY <1>4, <1>5, <1>6, <1>7, CursorStoreAssumption
  <2> QED  BY <1>1, <2>1
<1>8. CASE storedRows(entries, S \cup {c}) + n > MaxRows
  BY <1>1, <1>6, <1>8
<1> QED  BY <1>1, <1>7, <1>8 DEF Full

\* A caller that comes back in time loses its cursor only to a store that is full, when all
\* that is kept lives longer, and no cursor is lost that would have fitted.
THEOREM PressureAlone == Spec => LostOnlyUnderPressure
<1> DEFINE lost == {c \in Live \ DOMAIN entries' : page'[entries[c].query] = page[entries[c].query]}
           new  == DOMAIN entries' \ DOMAIN entries
           kept == DOMAIN entries' \ new
           Forced == lost # {} =>
                /\ \E c \in lost :
                      /\ \A d \in lost : entries[d].expires <= entries[c].expires
                      /\ \/ Cardinality({c} \cup DOMAIN entries') > MaxEntries
                         \/ storedRows(entries, {c} \cup kept)
                              + storedRows(entries', new) > MaxRows
                /\ \A c \in lost, k \in kept : entries[c].expires <= entries[k].expires
<1>1. ASSUME IInv, NEW q \in Queries, NEW n \in 1..Limit, NEW size \in PageSizes,
             Query(q, n, size)
      PROVE  Forced
  <2> DEFINE count == Lesser(size, n)
             from  == count + 1
  <2>1. count \in Nat /\ n \in Nat  BY CursorStoreAssumption DEF Lesser
  <2>2. CASE count < n
    <3>1. PICK S \in SUBSET Live : LeftByEviction(S, n - count) /\ Store(S, q, from, n, size)
      BY <1>1, <2>2 DEF Query
    <3> HIDE DEF count
    <3>2. DOMAIN entries' = S \cup {issued + 1} /\ S \in SUBSET DOMAIN entries
          /\ issued + 1 \notin DOMAIN entries
      BY <1>1, <3>1 DEF Store, Live, IInv, TypeOK, Cursors
    <3>3. new = {issued + 1} /\ kept = S  BY <3>2
    <3>4. \A c \in Live : entries[c].query # q /\ entries[c].query \in Queries /\ c # issued + 1
      BY <1>1, <3>2, NoEntryBeforeQuery DEF Query, Live, IInv, TypeOK, Entry
    <3>5. \A c \in Live : page'[entries[c].query] = page[entries[c].query]
      BY <1>1, <2>2, <3>4 DEF Query, Return, IInv, TypeOK
    <3>6. lost = Live \ S  BY <3>2, <3>4, <3>5
    <3>7. storedRows(entries', new) = n - count
      <4>1. from \in Nat /\ from <= n /\ n + 1 - from = n - count  BY <2>1, <2>2
      <4> HIDE DEF from
      <4>2. storedRows(entries', {issued + 1}) = n + 1 - from
        <5>1. TypeOK /\ CursorIsTheRest  BY <1>1 DEF IInv
        <5>2. S \in SUBSET DOMAIN entries /\ Store(S, q, from, n, size)  BY <3>1, <3>2
        <5>3. n \in Nat /\ from \in Nat /\ from <= n  BY <2>1, <4>1
        <5> QED  BY <5>1, <5>2, <5>3, StoreRows
      <4> QED  BY <3>3, <4>1, <4>2
    <3>8. n - count \in Nat  BY <2>1, <2>2
    <3> HIDE DEF lost, new, kept
    <3>9. \A c \in lost, k \in kept : entries[c].expires <= entries[k].expires
      BY <3>1, <3>3, <3>6 DEF LeftByEviction
    <3>10. ASSUME lost # {}
           PROVE \E c \in lost :
                      /\ \A d \in lost : entries[d].expires <= entries[c].expires
                      /\ \/ Cardinality({c} \cup DOMAIN entries') > MaxEntries
                         \/ storedRows(entries, {c} \cup kept)
                              + storedRows(entries', new) > MaxRows
      <4>1. \E c \in Live \ S :
              /\ \A d \in Live \ S : entries[d].expires <= entries[c].expires
              /\ \/ Cardinality({c} \cup (S \cup {issued + 1})) > MaxEntries
                 \/ storedRows(entries, {c} \cup S) + (n - count) > MaxRows
        BY <1>1, <3>1, <3>6, <3>8, <3>10, EvictionIsForced
      <4> QED  BY <3>2, <3>3, <3>6, <3>7, <4>1
    <3> QED  BY <3>9, <3>10
  <2>3. CASE ~(count < n)
    <3>1. entries' = entries  BY <1>1, <2>3 DEF Query
    <3> QED  BY <3>1 DEF Live
  <2> QED  BY <2>2, <2>3
<1>2. ASSUME IInv, NEW c \in Cursors, Hit(c) PROVE lost = {}
  <2>1. c \in DOMAIN entries /\ Live \subseteq DOMAIN entries' \cup {c}
    BY <1>2 DEF Hit, Store, Keep, Live, Others
  <2>2. page'[entries[c].query].cursor # c
    BY <1>2, <2>1 DEF Hit, Return, Page, IInv, TypeOK, Entry, Cursors, NoCursor
  <2>3. page[entries[c].query].cursor = c  BY <1>2, <2>1 DEF IInv, CursorIsTheRest
  <2> QED  BY <2>1, <2>2, <2>3
<1>3. ASSUME NEW c \in Cursors, Miss(c) PROVE lost = {}
  BY <1>3 DEF Miss, Keep
<1>4. ASSUME Tick PROVE lost = {}  BY <1>4 DEF Tick, Live
<1>5. IInv /\ [Next]_vars => [Forced]_vars
  <2> HIDE DEF lost, new, kept
  <2>1. lost = {} => Forced  OBVIOUS
  <2> HIDE DEF Forced
  <2> QED  BY <1>1, <1>2, <1>3, <1>4, <2>1 DEF Next, NextPage
<1> QED  BY <1>5, Invariance, PTL DEF Spec, LostOnlyUnderPressure

-----------------------------------------------------------------------------
\* The page of q as the abstract specification sees it.
Seen(p) == [from |-> p.from, to |-> p.to, more |-> p.cursor # NoCursor]

\* Returning a page of one result leaves the other results' pages alone.
LEMMA ReturnSeen ==
    ASSUME TypeOK, NEW q \in Queries, NEW from \in Nat, NEW to \in Nat, NEW given \in Nat,
           Return(q, from, to, given)
    PROVE  [r \in Queries |-> Seen(page'[r])] =
             [[r \in Queries |-> Seen(page[r])] EXCEPT
                ![q] = [from |-> from, to |-> to, more |-> given # NoCursor]]
BY DEF TypeOK, Return, Page, Seen

\* Returning the page after the last one is a step of the abstract stream.
LEMMA ContinueStream ==
    ASSUME TypeOK, NEW q \in Queries, page[q].cursor # NoCursor,
           NEW last \in (page[q].to + 1)..total[q], NEW given \in Nat,
           given # NoCursor <=> last < total[q], total' = total,
           Return(q, page[q].to + 1, last, given)
    PROVE  Stream!Next
<1> DEFINE pages == [r \in Queries |-> Seen(page[r])]
<1>1. page[q].to \in Nat /\ total[q] \in Nat /\ last \in Nat  BY DEF TypeOK
<1>2. pages' = [pages EXCEPT ![q] = [from |-> page[q].to + 1, to |-> last,
                                     more |-> given # NoCursor]]
  <2> DEFINE from == page[q].to + 1
  <2>1. from \in Nat  BY <1>1
  <2>2. Return(q, from, last, given)  OBVIOUS
  <2> HIDE DEF from
  <2>3. pages' = [pages EXCEPT ![q] = [from |-> from, to |-> last,
                                       more |-> given # NoCursor]]
    BY <1>1, <2>1, <2>2, ReturnSeen
  <2> QED  BY <2>3 DEF from
<1>3. pages[q] = [from |-> page[q].from, to |-> page[q].to, more |-> TRUE]
  BY DEF Seen
<1>4. pages' = [pages EXCEPT ![q] = Stream!Page(pages[q].to + 1, last, total[q])]
  <2>1. Stream!Page(pages[q].to + 1, last, total[q]) =
          [from |-> page[q].to + 1, to |-> last, more |-> given # NoCursor]
    BY <1>1, <1>3 DEF Stream!Page, NoCursor
  <2> HIDE DEF pages
  <2> QED  BY <1>2, <2>1
<1>5. last \in (pages[q].to + 1)..total[q]  BY <1>3
<1>6. \E to \in (pages[q].to + 1)..total[q] :
         pages' = [pages EXCEPT ![q] = Stream!Page(pages[q].to + 1, to, total[q])]
  BY <1>4, <1>5
<1>7. Stream!Continue(q)  BY <1>3, <1>6 DEF Stream!Continue, Seen
<1> QED  BY <1>7 DEF Stream!Next

\* The store implements the ordered stream its callers see.
THEOREM StoreImplementsStream == Spec => StreamSpec
<1> DEFINE pages == [q \in Queries |-> Seen(page[q])]
<1>1. Init => Stream!Init
  BY DEF Init, Stream!Init, Stream!Page, Page, NoCursor
<1>2. ASSUME IInv, Next PROVE Stream!Next \/ UNCHANGED Stream!vars
  <2>1. ASSUME NEW q \in Queries, NEW n \in 1..Limit, NEW size \in PageSizes,
               Query(q, n, size)
        PROVE  Stream!Open(q)
    <3> DEFINE count == Lesser(size, n)
    <3>1. count \in 1..n /\ n \in Nat /\ total[q] = 0 /\ total' = [total EXCEPT ![q] = n]
      BY <2>1, CursorStoreAssumption DEF Lesser, Query
    <3>2. \E given \in Nat : Return(q, 1, count, given) /\ (given # NoCursor <=> count < n)
      BY <1>2, <2>1 DEF Query, IInv, TypeOK, NoCursor
    <3> HIDE DEF count
    <3>3. pages' = [pages EXCEPT ![q] = [from |-> 1, to |-> count, more |-> count < n]]
      <4>1. PICK given \in Nat : Return(q, 1, count, given) /\ (given # NoCursor <=> count < n)  BY <3>2
      <4>2. TypeOK /\ count \in Nat /\ 1 \in Nat  BY <1>2, <3>1 DEF IInv
      <4>3. pages' = [pages EXCEPT ![q] = [from |-> 1, to |-> count, more |-> given # NoCursor]]
        BY <4>1, <4>2, ReturnSeen
      <4>4. (given # NoCursor) = (count < n)  BY <4>1
      <4> QED  BY <4>3, <4>4
    <3> QED  BY <3>1, <3>3 DEF Stream!Open, Stream!Page, Seen
  <2>2. ASSUME NEW c \in Cursors, Hit(c) PROVE Stream!Next
    <3> DEFINE e     == entries[c]
               count == IF e.pageSize <= RowCount(e) THEN e.pageSize ELSE RowCount(e)
               last  == e.from + count - 1
    <3>0. c \in DOMAIN entries  BY <2>2 DEF Hit, Live
    <3>1. /\ e \in Entry /\ e.from = page[e.query].to + 1 /\ e.to = total[e.query]
          /\ e.from <= e.to /\ c = page[e.query].cursor /\ c # NoCursor
      BY <1>2, <2>2, <3>0 DEF IInv, TypeOK, CursorIsTheRest, Cursors, NoCursor
    <3>2. e.query \in Queries /\ e.pageSize \in Nat \ {0} /\ e.from \in Nat /\ e.to \in Nat
      BY <3>1 DEF Entry
    <3>3. last \in e.from..e.to  BY <3>1, <3>2 DEF RowCount
    <3>4. /\ Return(e.query, page[e.query].to + 1, last, page'[e.query].cursor)
          /\ page'[e.query].cursor \in Nat
          /\ page'[e.query].cursor # NoCursor <=> last < total[e.query]
      BY <1>2, <2>2, <3>1, <3>2 DEF Hit, Return, Page, IInv, TypeOK, NoCursor
    <3>5. total' = total  BY <2>2 DEF Hit
    <3> DEFINE q == e.query
    <3>6. /\ q \in Queries /\ page[q].cursor # NoCursor
          /\ last \in (page[q].to + 1)..total[q] /\ total' = total
          /\ page'[q].cursor \in Nat
          /\ page'[q].cursor # NoCursor <=> last < total[q]
          /\ Return(q, page[q].to + 1, last, page'[q].cursor)
      BY <3>1, <3>2, <3>3, <3>4, <3>5
    <3> HIDE DEF q, last
    <3> QED  BY <1>2, <3>6, ContinueStream DEF IInv
  <2>3. ASSUME NEW c \in Cursors, Miss(c) PROVE UNCHANGED Stream!vars
    BY <2>3 DEF Miss, Stream!vars
  <2>4. CASE Tick  BY <2>4 DEF Tick, Stream!vars
  <2> QED  BY <1>2, <2>1, <2>2, <2>3, <2>4 DEF Next, NextPage, Stream!Next
<1>3. ASSUME UNCHANGED vars PROVE UNCHANGED Stream!vars
  BY <1>3 DEF vars, Stream!vars
<1>4. IInv /\ [Next]_vars => [Stream!Next]_(Stream!vars)  BY <1>2, <1>3
<1> QED  BY <1>1, <1>4, Invariance, PTL DEF Spec, StreamSpec, Stream!Spec

-----------------------------------------------------------------------------
(* Listings. *)

\* Nothing was created or deleted since the listing began.
Unchanged == created = {} /\ ~deleted

\* Of the things that were there all the time, those in a set were returned, and once.
Returned(S) == \A i \in first \cap Now : times[i] = IF i \in S THEN 1 ELSE 0

\* The things of the periods before this one.
Before == UNION {Range(listed[p]) : p \in 1..cursor.period - 1}

\* Where the numbered page of the cloud begins.
PageStart(size) == (cursor.page - 1) * size

\* The lists hold different things.
Plain == /\ \A p \in 1..Periods : \A m, n \in DOMAIN listed[p] : listed[p][m] = listed[p][n] => m = n
         /\ \A p, q \in 1..Periods : p # q => Range(listed[p]) \cap Range(listed[q]) = {}

\* What every family needs: different ids, and what the history says of the lists.
Common ==
  /\ \A i, j \in Things : rank[i] = rank[j] => i = j
  /\ created \cap first = {}
  /\ status = "started" => /\ cursor = Start /\ Unchanged /\ ~restarted
                           /\ \A i \in Things : times[i] = 0
  /\ Unchanged => first = Now /\ Plain
  /\ ~Has("periods") => cursor.period = 1 /\ \A p \in 2..Periods : listed[p] = <<>>

\* A total that is compared tells a creation or a deletion, but not one of each.
TotalTells ==
  status = "listing" =>
    /\ Unchanged => Total = cursor.total
    /\ created # {} /\ ~deleted => Total > cursor.total
    /\ created = {} /\ deleted => Total < cursor.total

\* Offsets, where a full page is trusted only if it was full.
OffsetKept ==
  /\ Has("total") => (status = "listing" => cursor.offset > 0) /\ TotalTells
  /\ Unchanged /\ (Has("trusts") => ~short) =>
       /\ cursor.offset = 0 \/ cursor.offset < Total
       /\ Returned(Before \cup Rows(1, cursor.offset))

\* Numbered pages of the cloud, cut by an offset within the page.
PageKept ==
  Unchanged /\ ~short =>
    LET done == PageStart(UpstreamPage) + cursor.offset
    IN /\ cursor.offset < UpstreamPage
       /\ done = 0 \/ done < Total
       /\ Returned(Before \cup Rows(1, done))

\* Pages of the size that the first one had, with its total.
KeptKept ==
  /\ TotalTells
  /\ status = "listing" => cursor.total > 0 /\ cursor.limit > 0
  /\ Unchanged => LET done == PageStart(cursor.limit)
                  IN (done = 0 \/ done < Total) /\ Returned(Rows(1, done))

\* The page of the cloud behind the token.
Sliced == Least(Behind(cursor.token), Place, UpstreamPage)

\* Pages behind a token, cut by an offset within the page.
SliceKept ==
  Unchanged => /\ cursor.offset = 0 \/ cursor.offset < Cardinality(Sliced)
               /\ Returned(cursor.token \cup Least(Sliced, Place, cursor.offset))

\* Tokens stand for what was returned, whatever is created and deleted.
TokenKept == Returned(cursor.token)

\* The last id stands for all the ids before it.
IdsKept == (Has("trusts") => ~short) /\ ~(restarted /\ Has("hashed")) =>
              Returned({i \in Things : rank[i] <= cursor.last})

\* What a family of schemes has returned so far.
Progress ==
  Asked => /\ scheme.ask = "offset" => OffsetKept
           /\ scheme.ask = "page" => PageKept
           /\ scheme.ask = "kept" => KeptKept
           /\ scheme.ask = "slice" => SliceKept
           /\ scheme.ask \in {"token", "job"} => TokenKept
           /\ scheme.ask = "ids" => IdsKept
           /\ scheme.ask = "whole" => status = "started"

\* The inductive invariant.
ListingIInv == ListingTypeOK /\ Common /\ Progress /\ CompleteIsComplete /\ RefusedForAReason

\* What the schemes have in common, by what the cloud is asked for.
WellKept(s) ==
  /\ s.ask \in {"offset", "page", "kept", "slice", "token", "ids", "whole", "job"}
  /\ "periods" \in s.traits => s.ask \in {"offset", "page"} /\ "total" \notin s.traits
  /\ "hashed" \in s.traits => s = TencentTargets /\ s.ask = "ids"
  /\ s.ask \in {"page", "slice"} => s \in Numbered
  /\ s.ask = "offset" => s \in Numbered \/ (s \in Checked /\ "total" \in s.traits)
  /\ s.ask = "kept" => s \in Checked
  /\ "total" \in s.traits => s.ask = "offset" /\ "empty" \in s.traits /\ "trusts" \notin s.traits
  /\ s.ask = "page" \/ "trusts" \in s.traits =>
       s \notin {TencentNATRules, TencentNodes, HuaweiDCS} \cup Checked

\* Every adapter's scheme has one of the eight families and traits that fit it.
LEMMA SchemesAreWellKept == \A s \in Numbered \cup Checked \cup Keyed : WellKept(s)
<1> USE DEF WellKept, Scheme, Numbered, Checked, TencentCLBList, TencentVPCList, TencentProductList,
        TencentPartnerCosts, TencentNATRules, TencentNodes, HuaweiDCS, HuaweiCosts, VolcengineCosts,
        VolcengineVKE, VolcengineNetwork, AlibabaDailyCosts, TencentCosts, VolcengineSearch,
        AWSElastiCache, AWSECS, TencentTargets
<1>1. \A s \in Numbered : WellKept(s)  OBVIOUS
<1>2. \A s \in Checked : WellKept(s)
  <2>1. WellKept(TencentPartnerCosts)  OBVIOUS
  <2>2. WellKept(TencentCLBList)
    <3>1. TencentCLBList.ask = "offset" /\ TencentCLBList.traits = {"total", "empty"}  OBVIOUS
    <3>2. TencentCLBList \in Checked  OBVIOUS
    <3> HIDE DEF TencentCLBList, Scheme, Numbered, Checked
    <3> QED  BY <3>1, <3>2
  <2>3. Checked = {TencentCLBList, TencentPartnerCosts}  OBVIOUS
  <2> HIDE DEF WellKept, Checked
  <2> QED  BY <2>1, <2>2, <2>3
<1>3. \A s \in Keyed : WellKept(s)
  BY DEF Keyed, AWSSearch, AWSMetrics, AWSCosts, AWSDirect, AzureGraph, AzureCosts, AzureObjects,
         GCPSearch, GCPIAM, GCPMetrics, GCPObjects, LivePods, AlibabaSearch, AlibabaMetrics,
         TencentSearch, TencentCOSList, HuaweiResources, HuaweiCCENodes, HuaweiELB, HuaweiCES,
         TencentListeners, HuaweiVPC, HuaweiNodePools, HuaweiOBSList, GCPCosts
<1> HIDE DEF WellKept, Numbered, Checked
<1> QED  BY <1>1, <1>2, <1>3

-----------------------------------------------------------------------------
\* What the assumptions say of the constants.
LEMMA Sizes ==
    /\ UpstreamPage \in Nat /\ MaxLimit \in Nat /\ Periods \in Nat /\ MaxChanges \in Nat
    /\ UpstreamPage > 0 /\ MaxLimit > 0 /\ Periods > 0
    /\ IsFiniteSet(Things) /\ Cardinality(Things) \in Nat /\ Things = 1..Cardinality(Things) /\ Things \subseteq Nat
<1>1. IsFiniteSet(Things) /\ Cardinality(Things) \in Nat /\ Things = 1..Cardinality(Things)
  BY ThingsAssumption, FS_CardinalityType
<1>2. Things \subseteq Nat  BY <1>1
<1> QED  BY <1>1, <1>2, SizesAssumption

\* The list of the period at hand.
LEMMA ListShape ==
    ASSUME ListingTypeOK
    PROVE  /\ List \in Seq(Things) /\ Total \in Nat /\ DOMAIN List = 1..Total
           /\ Range(List) = {List[n] : n \in 1..Total}
           /\ Range(List) \subseteq Now /\ Now \subseteq Things
           /\ IsFiniteSet(Range(List)) /\ Cardinality(Range(List)) \in Nat
           /\ cursor.period \in 1..Periods
<1>1. cursor.period \in 1..Periods /\ listed \in [1..Periods -> Seq(Things)]
  BY DEF ListingTypeOK, ListingCursors
<1>2. List \in Seq(Things)  BY <1>1 DEF List
<1>3. Total \in Nat /\ DOMAIN List = 1..Total  BY <1>2 DEF Total
<1>4. Range(List) = {List[n] : n \in 1..Total}  BY <1>3 DEF Range
<1>5. \A p \in 1..Periods : Range(listed[p]) \subseteq Things  BY <1>1 DEF Range
<1>6. Range(List) \subseteq Now /\ Now \subseteq Things  BY <1>1, <1>5 DEF List, Now
<1>7. IsFiniteSet(Range(List)) /\ Cardinality(Range(List)) \in Nat
  BY <1>6, Sizes, FS_Subset, FS_CardinalityType
<1> QED  BY <1>1, <1>2, <1>3, <1>4, <1>6, <1>7

\* The rows up to one are those up to an earlier one and those between.
LEMMA RowsSplit ==
    ASSUME ListingTypeOK, NEW m \in Nat, NEW n \in Nat, m <= n
    PROVE  /\ Rows(1, n) = Rows(1, m) \cup Rows(m + 1, n)
           /\ Rows(1, n) \subseteq Range(List)
           /\ n >= Total => Rows(1, n) = Range(List)
           /\ Rows(1, 0) = {}
<1>1. Total \in Nat /\ Range(List) = {List[k] : k \in 1..Total}  BY ListShape
<1>2. 1..Smaller(n, Total) = 1..Smaller(m, Total) \cup (m + 1)..Smaller(n, Total)
  BY <1>1 DEF Smaller
<1>3. Rows(1, n) = Rows(1, m) \cup Rows(m + 1, n)  BY <1>2 DEF Rows
<1>4. 1..Smaller(n, Total) \subseteq 1..Total /\ (n >= Total => Smaller(n, Total) = Total) /\ 1..Smaller(0, Total) = {}
  BY <1>1 DEF Smaller
<1> QED  BY <1>1, <1>3, <1>4 DEF Rows

\* Rows of one list are different things.
LEMMA RowsApart ==
    ASSUME ListingTypeOK, Plain, NEW m \in Nat, NEW n \in Nat
    PROVE  Rows(1, m) \cap Rows(m + 1, n) = {}
<1>1. Total \in Nat /\ DOMAIN List = 1..Total /\ cursor.period \in 1..Periods  BY ListShape
<1>2. \A j, k \in 1..Total : List[j] = List[k] => j = k  BY <1>1 DEF Plain, List
<1>3. \A j \in 1..Smaller(m, Total), k \in (m + 1)..Smaller(n, Total) : j \in 1..Total /\ k \in 1..Total /\ j # k
  BY <1>1 DEF Smaller
<1> QED  BY <1>2, <1>3 DEF Rows

\* Different periods list different things.
LEMMA BeforeApart ==
    ASSUME ListingTypeOK, Plain
    PROVE  Before \cap Range(List) = {}
<1>1. cursor.period \in 1..Periods  BY ListShape
<1>2. \A p \in 1..cursor.period - 1 : p \in 1..Periods /\ p # cursor.period  BY <1>1, Sizes
<1> QED  BY <1>1, <1>2 DEF Plain, List, Before

\* What a page adds to the things returned.
LEMMA PageReturned ==
    ASSUME ListingTypeOK, UNCHANGED <<first, listed>>, NEW S, Returned(S), NEW rows,
           times' = [i \in Things |-> times[i] + (IF i \in rows THEN 1 ELSE 0)],
           \A i \in first \cap Now : ~(i \in S /\ i \in rows),
           NEW H, \A i \in first \cap Now : i \in H <=> i \in S \/ i \in rows
    PROVE  \A i \in (first \cap Now)' : times'[i] = IF i \in H THEN 1 ELSE 0
<1>1. (first \cap Now)' = first \cap Now  BY DEF Now
<1>2. first \cap Now \subseteq Things /\ times \in [Things -> Nat]  BY DEF ListingTypeOK
<1> SUFFICES ASSUME NEW i \in first \cap Now
             PROVE  times'[i] = IF i \in H THEN 1 ELSE 0
  BY <1>1
<1>3. times'[i] = times[i] + (IF i \in rows THEN 1 ELSE 0)  BY <1>2
<1>4. times[i] = IF i \in S THEN 1 ELSE 0  BY DEF Returned
<1> QED  BY <1>3, <1>4

-----------------------------------------------------------------------------
\* What every request leaves alone.
Request == /\ UNCHANGED <<scheme, listed, rank, first, created, deleted, restarted, changes>>
           /\ short' \in BOOLEAN /\ slow' \in BOOLEAN /\ turn' \in BOOLEAN

\* A request changes neither what is listed nor what else is true of the history.
LEMMA RequestKeeps ==
    ASSUME ListingIInv, Request, status' \in {"listing", "complete", "refused"},
           ~Has("periods") => cursor'.period = 1
    PROVE  Common'
<1>1. Common  BY DEF ListingIInv
<1>2. Now' = Now /\ (Plain' <=> Plain) /\ (Unchanged' <=> Unchanged) /\ (Has("periods")' <=> Has("periods"))
  BY DEF Request, Now, Plain, Unchanged, Has
<1> QED  BY <1>1, <1>2 DEF Common, Request

\* The page is refused: nothing else changes.
LEMMA RefusedStep ==
    ASSUME ListingIInv, Request, status' = "refused", UNCHANGED <<cursor, times>>,
           created # {} \/ deleted \/ short' \/ slow'
    PROVE  ListingIInv'
<1>1. ListingTypeOK  BY DEF ListingIInv
<1>2. ListingTypeOK'  BY <1>1 DEF ListingTypeOK, Request
<1>3. Common'
  <2>1. ~Has("periods") => cursor'.period = 1  BY DEF ListingIInv, Common
  <2> QED  BY <2>1, RequestKeeps
<1>4. Progress'  BY DEF Progress, Asked
<1>5. CompleteIsComplete' /\ RefusedForAReason'  BY DEF CompleteIsComplete, RefusedForAReason, Request
<1> QED  BY <1>2, <1>3, <1>4, <1>5 DEF ListingIInv

\* A page of things was returned.
Paged(rows) == /\ rows \subseteq Things
               /\ times' = [i \in Things |-> times[i] + (IF i \in rows THEN 1 ELSE 0)]

\* A page keeps the types of the cursor and of the counts.
LEMMA PagedTypes ==
    ASSUME ListingTypeOK, Request, NEW rows, Paged(rows), cursor' \in ListingCursors,
           status' \in {"listing", "complete"}
    PROVE  ListingTypeOK'
<1>1. times' \in [Things -> Nat]  BY DEF ListingTypeOK, Paged
<1> QED  BY <1>1 DEF ListingTypeOK, Request

\* The last page completes the listing.
LEMMA CompletedStep ==
    ASSUME ListingIInv, Request, NEW rows, Paged(rows), status' = "complete", cursor' = cursor,
           CompleteIsComplete'
    PROVE  ListingIInv'
<1>1. ListingTypeOK  BY DEF ListingIInv
<1>2. ListingTypeOK'  BY <1>1, PagedTypes DEF ListingTypeOK
<1>3. Common'
  <2>1. ~Has("periods") => cursor'.period = 1  BY DEF ListingIInv, Common
  <2> QED  BY <2>1, RequestKeeps
<1>4. Progress' /\ RefusedForAReason'  BY DEF Progress, Asked, RefusedForAReason
<1> QED  BY <1>2, <1>3, <1>4 DEF ListingIInv

\* There are more pages.
LEMMA ListingStep ==
    ASSUME ListingIInv, Request, NEW rows, Paged(rows), status' = "listing", cursor' \in ListingCursors,
           ~Has("periods") => cursor'.period = 1, Progress'
    PROVE  ListingIInv'
<1>1. ListingTypeOK  BY DEF ListingIInv
<1>2. ListingTypeOK'  BY <1>1, PagedTypes
<1>3. Common'  BY RequestKeeps
<1>4. CompleteIsComplete' /\ RefusedForAReason'  BY DEF CompleteIsComplete, RefusedForAReason
<1> QED  BY <1>2, <1>3, <1>4 DEF ListingIInv

\* A listing that has returned everything that is listed is complete.
LEMMA AllReturned ==
    ASSUME ListingTypeOK, Request, NEW rows, Paged(rows), NEW S, Returned(S),
           \A i \in first \cap Now : ~(i \in S /\ i \in rows),
           \A i \in first \cap Now : i \in S \/ i \in rows
    PROVE  SurvivorsOnce' /\ CompleteIsComplete'
<1>1. \A i \in (first \cap Now)' : times'[i] = IF i \in S \cup rows THEN 1 ELSE 0
  BY PageReturned DEF Request, Paged
<1>2. (first \cap Now)' = first \cap Now  BY DEF Request, Now
<1>3. SurvivorsOnce'  BY <1>1, <1>2 DEF SurvivorsOnce
<1> QED  BY <1>3 DEF CompleteIsComplete

\* Without periods there is one list, and its end is the end of the listing.
LEMMA OneList ==
    ASSUME ListingIInv, ~Has("periods")
    PROVE  /\ Now = Range(List) /\ cursor.period = 1 /\ Before = {}
           /\ \A rows : EndPeriod(rows) => /\ status' = "complete" /\ cursor' = cursor
                                           /\ times' = [i \in Things |-> times[i] + (IF i \in rows THEN 1 ELSE 0)]
<1>1. cursor.period = 1 /\ \A p \in 2..Periods : listed[p] = <<>>  BY DEF ListingIInv, Common
<1>2. \A p \in 1..Periods : p = 1 \/ Range(listed[p]) = {}
  <2>1. \A p \in 1..Periods : p = 1 \/ p \in 2..Periods  BY Sizes
  <2> QED  BY <1>1, <2>1 DEF Range
<1>3. Now = Range(listed[1])  BY <1>2, Sizes DEF Now
<1>4. Before = {}  BY <1>1 DEF Before
<1> QED  BY <1>1, <1>3, <1>4 DEF List, EndPeriod

\* The end of a period is the beginning of the next one, or the end of the listing.
LEMMA PeriodEnds ==
    ASSUME ListingIInv, Request, NEW rows, rows \subseteq Things, EndPeriod(rows)
    PROVE  /\ Paged(rows)
           /\ \/ /\ status' = "complete" /\ cursor' = cursor
                 /\ Has("periods") => cursor.period = Periods
              \/ /\ Has("periods") /\ status' = "listing" /\ cursor' \in ListingCursors
                 /\ cursor' = [Start EXCEPT !.period = cursor.period + 1]
<1>1. cursor \in ListingCursors /\ cursor.period \in 1..Periods  BY ListShape DEF ListingIInv, ListingTypeOK
<1>2. CASE Has("periods") /\ cursor.period < Periods
  <2> DEFINE next == [Start EXCEPT !.period = cursor.period + 1]
  <2>1. cursor.period + 1 \in 1..Periods  BY <1>1, <1>2, Sizes
  <2>2. next \in ListingCursors /\ next.period = cursor.period + 1  BY <2>1 DEF Start, ListingCursors
  <2>3. next # cursor
    <3> HIDE DEF next
    <3>1. cursor.period # cursor.period + 1  BY <1>1
    <3> QED  BY <2>2, <3>1
  <2>4. GoOn(rows, next)  BY <1>2 DEF EndPeriod
  <2> QED  BY <1>2, <2>2, <2>3, <2>4 DEF GoOn, Repeats, Paged
<1>3. CASE ~(Has("periods") /\ cursor.period < Periods)
  <2>1. Has("periods") => cursor.period = Periods  BY <1>1, <1>3, Sizes
  <2> QED  BY <1>3, <2>1 DEF EndPeriod, Paged
<1> QED  BY <1>2, <1>3

\* If all of a period was returned by its end, the next one begins with all before it
\* returned, or the listing is complete.
LEMMA PeriodReturned ==
    ASSUME ListingIInv, Request, NEW rows, Paged(rows), NEW S, Returned(S), S \cap rows = {},
           S \cup rows = Before \cup Range(List)
    PROVE  /\ (Has("periods") => cursor.period = Periods) => CompleteIsComplete'
           /\ cursor' = [Start EXCEPT !.period = cursor.period + 1] /\ cursor' \in ListingCursors =>
                /\ cursor'.offset = 0 /\ cursor'.page = 1
                /\ Returned(Before \cup Rows(1, 0))'
<1>1. ListingTypeOK  BY DEF ListingIInv
<1>2. cursor.period \in 1..Periods /\ Range(List) \subseteq Now  BY <1>1, ListShape
<1>3. ASSUME Has("periods") => cursor.period = Periods
      PROVE  CompleteIsComplete'
  <2>1. Now \subseteq Before \cup Range(List)
    <3>1. CASE Has("periods")
      <4>1. cursor.period = Periods /\ \A p \in 1..Periods : p \in 1..Periods - 1 \/ p = Periods
        BY <1>3, <3>1, Sizes
      <4> QED  BY <4>1 DEF Now, Before, List
    <3>2. CASE ~Has("periods")  BY <3>2, OneList
    <3> QED  BY <3>1, <3>2
  <2> QED  BY <1>1, <2>1, AllReturned
<1>4. ASSUME cursor' = [Start EXCEPT !.period = cursor.period + 1], cursor' \in ListingCursors
      PROVE  /\ cursor'.offset = 0 /\ cursor'.page = 1
             /\ Returned(Before \cup Rows(1, 0))'
  <2>1. cursor'.offset = 0 /\ cursor'.page = 1 /\ cursor'.period = cursor.period + 1  BY <1>4 DEF Start
  <2>2. Before' = Before \cup Range(List)
    <3>1. 1..cursor'.period - 1 = (1..cursor.period - 1) \cup {cursor.period}  BY <1>2, <2>1
    <3> QED  BY <3>1 DEF Before, List, Request
  <2>3. (Rows(1, 0))' = {}
    <3>1. cursor'.period \in 1..Periods /\ listed' \in [1..Periods -> Seq(Things)]
      BY <1>1, <1>4 DEF ListingCursors, ListingTypeOK, Request
    <3>2. Total' \in Nat  BY <3>1 DEF Total, List
    <3>3. 1..Smaller(0, Total') = {}  BY <3>2 DEF Smaller
    <3> QED  BY <3>3 DEF Rows
  <2> DEFINE H == (Before \cup Rows(1, 0))'
  <2>4. H = S \cup rows  BY <2>2, <2>3
  <2> HIDE DEF H
  <2>5. UNCHANGED <<first, listed>> /\ times' = [i \in Things |-> times[i] + (IF i \in rows THEN 1 ELSE 0)]
    BY DEF Request, Paged
  <2>6. \A i \in (first \cap Now)' : times'[i] = IF i \in H THEN 1 ELSE 0
    BY <1>1, <2>4, <2>5, PageReturned
  <2>7. Returned(Before \cup Rows(1, 0))'  BY <2>6 DEF Returned, H
  <2> QED  BY <2>1, <2>7
<1> QED  BY <1>3, <1>4

-----------------------------------------------------------------------------
\* Offsets.
LEMMA OffsetStep ==
    ASSUME ListingIInv, NEW limit \in 1..MaxLimit, ReadOffset(limit), turn' = ~turn
    PROVE  ListingIInv'
<1> DEFINE n    == cursor.offset
           have == Left(n, limit)
<1>1. PICK k \in 0..have :
        LET next == n + (IF Has("trusts") THEN limit ELSE k)
            rows == Rows(n + 1, n + k)
        IN /\ Filled(have, k)
           /\ IF \/ Has("total") /\ n > 0 /\ Total # cursor.total
                 \/ Has("empty") /\ k = 0 /\ n < Total
                 \/ Has("beyond") /\ n + k > Total
              THEN Refuse
              ELSE IF next < Total
                   THEN GoOn(rows, [cursor EXCEPT !.offset = next, !.total = IF Has("total") THEN Total ELSE 0])
                   ELSE EndPeriod(rows)
  BY DEF ReadOffset
<1> DEFINE next  == n + (IF Has("trusts") THEN limit ELSE k)
           rows  == Rows(n + 1, n + k)
           on    == [cursor EXCEPT !.offset = next, !.total = IF Has("total") THEN Total ELSE 0]
           S     == Before \cup Rows(1, n)
           Bad   == \/ Has("total") /\ n > 0 /\ Total # cursor.total
                    \/ Has("empty") /\ k = 0 /\ n < Total
                    \/ Has("beyond") /\ n + k > Total
           Sound == Unchanged /\ (Has("trusts") => ~short')
<1>2. /\ ListingTypeOK /\ Common /\ Asked /\ scheme.ask = "offset" /\ OffsetKept
      /\ UNCHANGED <<scheme, listed, rank, first, created, deleted, restarted, changes, slow>>
  BY DEF ListingIInv, Progress, ReadOffset, catalog, history
<1>3. WellKept(scheme)  BY <1>2, SchemesAreWellKept DEF ListingTypeOK
<1>4. n \in Nat /\ Total \in Nat /\ limit \in Nat /\ limit > 0 /\ cursor \in ListingCursors
  BY <1>2, ListShape DEF ListingTypeOK, ListingCursors
<1>5. /\ have \in Nat /\ k \in Nat /\ k <= have /\ have <= limit
      /\ n < Total => have > 0 /\ n + have <= Total /\ (have = limit \/ n + have = Total)
      /\ n >= Total => have = 0
  <2>1. CASE n >= Total  BY <1>4, <2>1 DEF Left
  <2>2. CASE n < Total  BY <1>4, <2>2 DEF Left, Smaller
  <2> QED  BY <1>4, <2>1, <2>2
<1> HIDE DEF have
<1>6. short' = (short \/ k < have)  BY <1>1 DEF Filled
<1>7. Request  BY <1>2, <1>6 DEF Request, ListingTypeOK
<1>8. short \in BOOLEAN /\ (~short' => ~short /\ k = have)
  <2>1. short \in BOOLEAN  BY <1>2 DEF ListingTypeOK
  <2>2. ~short' => ~short /\ ~(k < have)  BY <1>6
  <2> QED  BY <1>5, <2>1, <2>2
<1>9. next \in Nat /\ n + k \in Nat /\ rows \subseteq Things
  <2>1. next \in Nat /\ n + k \in Nat  BY <1>4, <1>5
  <2>2. rows \subseteq Rows(1, n + k)  BY <1>2, <1>4, <1>5, <2>1, RowsSplit
  <2>3. Rows(1, n + k) \subseteq Range(List)  BY <1>2, <1>4, <2>1, RowsSplit
  <2> QED  BY <1>2, <2>1, <2>2, <2>3, ListShape
\* What was returned before this page, if it is known.
<1>10. ASSUME Sound
       PROVE  /\ n = 0 \/ n < Total
              /\ Returned(S) /\ S \cap rows = {}
              /\ Has("trusts") => k = have
              /\ ~Bad /\ next < Total => S \cup rows = Before \cup Rows(1, next)
              /\ ~Bad /\ next >= Total => S \cup rows = Before \cup Range(List)
  <2>1. (n = 0 \/ n < Total) /\ Returned(S)  BY <1>2, <1>8, <1>10 DEF OffsetKept
  <2>2. Plain  BY <1>2, <1>10 DEF Common
  <2>3. S \cap rows = {}
    <3>1. rows \subseteq Range(List) /\ rows \subseteq Rows(1, n + k)
      BY <1>2, <1>4, <1>5, <1>9, RowsSplit
    <3>2. Before \cap Range(List) = {} /\ Rows(1, n) \cap rows = {}
      BY <1>2, <1>4, <1>9, <2>2, RowsApart, BeforeApart
    <3> QED  BY <3>1, <3>2
  <2>4. Has("trusts") => k = have  BY <1>8, <1>10
  <2>5. S \cup rows = Before \cup Rows(1, n + k)
    <3>1. Rows(1, n + k) = Rows(1, n) \cup rows  BY <1>2, <1>4, <1>5, <1>9, RowsSplit
    <3> QED  BY <3>1
  <2>6. next < Total => next = n + k
    BY <1>4, <1>5, <2>4
  <2>7. next >= Total => n + k >= Total
    BY <1>4, <1>5, <2>1, <2>4
  <2>8. n + k >= Total => Rows(1, n + k) = Range(List)  BY <1>2, <1>9, <1>4, <1>5, RowsSplit
  <2> QED  BY <2>1, <2>3, <2>4, <2>5, <2>6, <2>7, <2>8
\* A total that has changed is noticed.
<1>11. Has("total") /\ ~Bad => (created # {} <=> deleted)
  <2>1. CASE status = "started"  BY <1>2, <2>1 DEF Common, Unchanged
  <2>2. CASE status = "listing"
    <3> SUFFICES ASSUME Has("total"), ~Bad  PROVE created # {} <=> deleted  OBVIOUS
    <3>1. n > 0 /\ TotalTells  BY <1>2, <2>2 DEF OffsetKept
    <3>2. Total = cursor.total  BY <3>1
    <3>3. deleted \in BOOLEAN  BY <1>2 DEF ListingTypeOK
    <3> QED  BY <1>4, <2>2, <3>1, <3>2, <3>3 DEF TotalTells
  <2> QED  BY <1>2, <2>1, <2>2 DEF Asked
<1>12. CASE Bad
  <2>1. Refuse  BY <1>1, <1>12
  <2>2. created # {} \/ deleted \/ short' \/ slow'
    <3> SUFFICES ASSUME Unchanged, ~short'  PROVE FALSE
      BY DEF Unchanged
    <3>1. Sound /\ k = have  BY <1>8
    <3>2. n = 0 \/ n < Total  BY <1>10, <3>1
    <3>3. ~(Has("empty") /\ k = 0 /\ n < Total)  BY <1>5, <3>1
    <3>4. ~(Has("beyond") /\ n + k > Total)  BY <1>4, <1>5, <3>2
    <3>5. Has("total") /\ n > 0 /\ Total # cursor.total  BY <1>12, <3>3, <3>4
    <3>6. status # "started"  BY <1>2, <1>4, <3>5 DEF Common, Start
    <3>7. status = "listing"  BY <1>2, <3>6 DEF Asked
    <3> QED  BY <1>2, <3>5, <3>7 DEF OffsetKept, TotalTells
  <2> QED  BY <1>7, <2>1, <2>2, RefusedStep DEF Refuse
<1>13. CASE ~Bad /\ next < Total
  <2>1. GoOn(rows, on)  BY <1>1, <1>13
  <2>2. CASE Repeats(on)
    <3>1. status' = "refused" /\ UNCHANGED <<cursor, times>>  BY <2>1, <2>2 DEF GoOn
    <3>2. next = n  BY <1>4, <2>2 DEF Repeats, ListingCursors
    <3>3. created # {} \/ deleted \/ short' \/ slow'
      <4> SUFFICES ASSUME ~short'  PROVE FALSE  OBVIOUS
      <4> QED  BY <1>4, <1>5, <1>8, <1>13, <3>2
    <3> QED  BY <1>7, <3>1, <3>3, RefusedStep
  <2>3. CASE ~Repeats(on)
    <3>1. status' = "listing" /\ cursor' = on /\ Paged(rows)  BY <1>9, <2>1, <2>3 DEF GoOn, Paged
    <3>2. on \in ListingCursors /\ on.offset = next /\ on.period = cursor.period
          /\ (Has("total") => on.total = Total)
      BY <1>4, <1>9 DEF ListingCursors
    <3>3. ~Has("periods") => cursor'.period = 1  BY <1>2, <3>1, <3>2 DEF Common
    <3>4. Total' = Total /\ Before' = Before /\ (\A m : Rows(1, m)' = Rows(1, m)) /\ List' = List
      BY <1>7, <3>1, <3>2 DEF Request, Total, List, Before, Rows
    <3>5. Has("total")' = Has("total") /\ Has("trusts")' = Has("trusts") /\ Unchanged' = Unchanged
      BY <1>7 DEF Request, Has, Unchanged
    <3>6. Has("total") => (status' = "listing" => cursor'.offset > 0) /\ TotalTells'
      <4> SUFFICES ASSUME Has("total")
                   PROVE  cursor'.offset > 0 /\ TotalTells'
        OBVIOUS
      <4>1. Has("empty") /\ ~Has("trusts")  BY <1>3 DEF WellKept, Has
      <4>2. k # 0  BY <1>4, <1>5, <1>13, <4>1
      <4>3. cursor'.offset > 0  BY <1>4, <1>5, <3>1, <3>2, <4>1, <4>2
      <4>4. cursor'.total = Total  BY <3>1, <3>2
      <4> QED  BY <1>7, <1>11, <1>13, <3>4, <3>5, <4>3, <4>4 DEF TotalTells, Request
    <3>7. ASSUME Sound
          PROVE  (cursor'.offset = 0 \/ cursor'.offset < Total') /\ Returned(Before \cup Rows(1, cursor.offset))'
      <4> DEFINE H == (Before \cup Rows(1, cursor.offset))'
      <4>1. H = S \cup rows  BY <1>10, <1>13, <3>1, <3>2, <3>4, <3>7
      <4>2. Returned(S) /\ S \cap rows = {}  BY <1>10, <3>7
      <4> HIDE DEF H, S, rows, Sound
      <4>3. UNCHANGED <<first, listed>> /\ times' = [i \in Things |-> times[i] + (IF i \in rows THEN 1 ELSE 0)]
        BY <1>7, <3>1 DEF Request, Paged
      <4>4. \A i \in (first \cap Now)' : times'[i] = IF i \in H THEN 1 ELSE 0
        BY <1>2, <4>1, <4>2, <4>3, PageReturned
      <4>5. Returned(Before \cup Rows(1, cursor.offset))'  BY <4>4 DEF Returned, H
      <4> QED  BY <1>13, <3>1, <3>2, <3>4, <4>5
    <3>8. OffsetKept'  BY <3>5, <3>6, <3>7 DEF OffsetKept
    <3>9. Progress'  BY <1>2, <3>8 DEF Progress
    <3> QED  BY <1>7, <3>1, <3>2, <3>3, <3>9, ListingStep
  <2> QED  BY <2>2, <2>3
<1>14. CASE ~Bad /\ next >= Total
  <2>1. EndPeriod(rows)  BY <1>1, <1>4, <1>9, <1>14
  <2>2. Paged(rows)  BY <1>7, <1>9, <2>1, PeriodEnds
  <2>3. Sound => Returned(S) /\ S \cap rows = {} /\ S \cup rows = Before \cup Range(List)
    BY <1>10, <1>14
  <2>4. CASE status' = "complete" /\ cursor' = cursor /\ (Has("periods") => cursor.period = Periods)
    <3>1. CASE Sound
      <4> HIDE DEF S, rows
      <4>1. CompleteIsComplete'  BY <1>7, <2>2, <2>3, <2>4, <3>1, PeriodReturned
      <4> QED  BY <1>7, <2>2, <2>4, <4>1, CompletedStep
    <3>2. CASE ~Sound
      <4>1. \/ scheme \in Numbered /\ (created # {} \/ deleted)
            \/ scheme \in Checked /\ created # {} /\ deleted
            \/ Has("trusts") /\ short'
        <5>1. CASE Has("trusts") /\ short'  BY <5>1
        <5>2. CASE created # {} \/ deleted
          <6>1. scheme \in Numbered \/ (scheme \in Checked /\ Has("total"))
            BY <1>2, <1>3 DEF WellKept, Has
          <6>2. Has("total") => created # {} /\ deleted  BY <1>11, <1>14, <5>2
          <6> QED  BY <5>2, <6>1, <6>2
        <5> QED  BY <3>2, <5>1, <5>2 DEF Unchanged
      <4>2. Has("trusts") => scheme \notin {TencentNATRules, TencentNodes, HuaweiDCS} \cup Checked
        BY <1>3 DEF WellKept, Has
      <4>3. CompleteIsComplete'  BY <1>2, <4>1, <4>2 DEF CompleteIsComplete
      <4> HIDE DEF rows
      <4> QED  BY <1>7, <2>2, <2>4, <4>3, CompletedStep
    <3> QED  BY <3>1, <3>2
  <2>5. CASE /\ Has("periods") /\ status' = "listing" /\ cursor' \in ListingCursors
             /\ cursor' = [Start EXCEPT !.period = cursor.period + 1]
    <3>1. ~Has("total")  BY <1>3, <2>5 DEF WellKept, Has
    <3>2. Has("total")' = Has("total") /\ Has("trusts")' = Has("trusts") /\ Unchanged' = Unchanged
      BY <1>7 DEF Request, Has, Unchanged
    <3>3. cursor'.offset = 0  BY <2>5 DEF Start
    <3>4. Sound => Returned(Before \cup Rows(1, 0))'
      <4> HIDE DEF S, rows
      <4> QED  BY <1>7, <2>2, <2>3, <2>5, PeriodReturned
    <3>5. Returned(Before \cup Rows(1, 0))' => Returned(Before \cup Rows(1, cursor.offset))'
      BY <3>3 DEF Returned
    <3>6. OffsetKept'  BY <3>1, <3>2, <3>3, <3>4, <3>5 DEF OffsetKept
    <3>7. Progress'  BY <1>2, <3>6 DEF Progress
    <3> HIDE DEF rows
    <3> QED  BY <1>7, <2>2, <2>5, <3>7, ListingStep
  <2> QED
    <3> HIDE DEF rows
    <3> QED  BY <1>7, <1>9, <2>1, <2>4, <2>5, PeriodEnds
<1> QED  BY <1>4, <1>9, <1>12, <1>13, <1>14

-----------------------------------------------------------------------------
\* A numbered page begins where the one before it ends.
LEMMA PageArithmetic ==
    ASSUME NEW p \in Nat \ {0}, NEW u \in Nat
    PROVE  (p - 1) * u \in Nat /\ p * u = (p - 1) * u + u /\ ((p + 1) - 1) * u = (p - 1) * u + u
<1>1. PICK m \in Nat : p = m + 1
  <2>1. p - 1 \in Nat /\ p = (p - 1) + 1  OBVIOUS
  <2> QED  BY <2>1
<1>2. p - 1 = m /\ (p + 1) - 1 = m + 1  BY <1>1
<1>3. (m + 1) * u = m * u + u /\ m * u \in Nat  OBVIOUS
<1> QED  BY <1>1, <1>2, <1>3

\* Pages of the cloud that are cut.
LEMMA PageStep ==
    ASSUME ListingIInv, NEW limit \in 1..MaxLimit, ReadPage(limit), turn' = ~turn
    PROVE  ListingIInv'
<1> DEFINE b     == (cursor.page - 1) * UpstreamPage
           whole == cursor.page * UpstreamPage
           o     == cursor.offset
           have  == Left(b, UpstreamPage)
<1>1. PICK k \in 0..have :
        LET end  == CutEnd(k, limit)
            rows == Rows(b + o + 1, b + end)
        IN /\ Filled(have, k)
           /\ IF \/ Has("short") /\ whole < Total /\ k # UpstreamPage
                 \/ Has("empty") /\ k = 0 /\ b + o < Total
                 \/ Has("outside") /\ Outside(k)
              THEN Refuse
              ELSE IF end < k
                   THEN GoOn(rows, [cursor EXCEPT !.offset = end])
                   ELSE IF whole < Total
                        THEN GoOn(rows, [cursor EXCEPT !.page = cursor.page + 1, !.offset = 0])
                        ELSE EndPeriod(rows)
  BY DEF ReadPage
<1> DEFINE end   == CutEnd(k, limit)
           rows  == Rows(b + o + 1, b + end)
           cut   == [cursor EXCEPT !.offset = end]
           on    == [cursor EXCEPT !.page = cursor.page + 1, !.offset = 0]
           S     == Before \cup Rows(1, b + o)
           Bad   == \/ Has("short") /\ whole < Total /\ k # UpstreamPage
                    \/ Has("empty") /\ k = 0 /\ b + o < Total
                    \/ Has("outside") /\ Outside(k)
           Sound == Unchanged /\ ~short'
<1>2. /\ ListingTypeOK /\ Common /\ Asked /\ scheme.ask = "page" /\ PageKept
      /\ UNCHANGED <<scheme, listed, rank, first, created, deleted, restarted, changes, slow>>
  BY DEF ListingIInv, Progress, ReadPage, catalog, history
<1>3. WellKept(scheme)  BY <1>2, SchemesAreWellKept DEF ListingTypeOK
<1>4. /\ o \in Nat /\ Total \in Nat /\ limit \in Nat /\ limit > 0 /\ cursor \in ListingCursors
      /\ cursor.page \in Nat \ {0} /\ UpstreamPage \in Nat /\ UpstreamPage > 0
  <2>1. cursor \in ListingCursors  BY <1>2 DEF ListingTypeOK
  <2>2. o \in Nat /\ cursor.page \in Nat \ {0}  BY <2>1 DEF ListingCursors
  <2>3. Total \in Nat  BY <1>2, ListShape
  <2> QED  BY <2>1, <2>2, <2>3, Sizes
<1>5. b \in Nat /\ whole = b + UpstreamPage /\ ((cursor.page + 1) - 1) * UpstreamPage = b + UpstreamPage
  BY <1>4, PageArithmetic
<1>6. PageStart(UpstreamPage) = b  BY DEF PageStart
<1> HIDE DEF b, whole
<1>7. /\ have \in Nat /\ k \in Nat /\ k <= have /\ have <= UpstreamPage
      /\ b < Total => have > 0 /\ b + have <= Total /\ (have = UpstreamPage \/ b + have = Total)
      /\ b >= Total => have = 0
  <2>1. CASE b >= Total  BY <1>4, <1>5, <2>1 DEF Left
  <2>2. CASE b < Total  BY <1>4, <1>5, <2>2 DEF Left, Smaller
  <2> QED  BY <1>4, <1>5, <2>1, <2>2
<1> HIDE DEF have
<1>8. /\ end \in Nat /\ end <= k /\ (o <= k => end >= o)
      /\ o < k => end > o
  BY <1>4, <1>7 DEF CutEnd, Smaller
<1> HIDE DEF end
<1>9. short' = (short \/ k < have)  BY <1>1 DEF Filled, end
<1>10. Request  BY <1>2, <1>9 DEF Request, ListingTypeOK
<1>11. short \in BOOLEAN /\ (~short' => ~short /\ k = have)
  <2>1. short \in BOOLEAN  BY <1>2 DEF ListingTypeOK
  <2>2. ~short' => ~short /\ ~(k < have)  BY <1>9
  <2> QED  BY <1>7, <2>1, <2>2
<1>12. rows \subseteq Things
  <2>1. CASE o <= end
    <3>1. rows \subseteq Rows(1, b + end) /\ Rows(1, b + end) \subseteq Range(List)
      BY <1>2, <1>4, <1>5, <1>8, <2>1, RowsSplit
    <3> QED  BY <1>2, <3>1, ListShape
  <2>2. CASE end < o
    <3>1. (b + o + 1)..Smaller(b + end, Total) = {}  BY <1>4, <1>5, <1>8, <2>2 DEF Smaller
    <3> QED  BY <3>1 DEF Rows
  <2> QED  BY <1>4, <1>8, <2>1, <2>2
\* What was returned before this page, if it is known.
<1>13. ASSUME Sound
       PROVE  /\ k = have /\ o < UpstreamPage /\ (b + o = 0 \/ b + o < Total) /\ o <= k /\ (o < k \/ b + o = 0)
              /\ Returned(S) /\ S \cap rows = {}
              /\ S \cup rows = Before \cup Rows(1, b + end)
              /\ b + end >= Total => S \cup rows = Before \cup Range(List)
  <2>1. k = have /\ o < UpstreamPage /\ (b + o = 0 \/ b + o < Total) /\ Returned(S)
    BY <1>2, <1>6, <1>11, <1>13 DEF PageKept
  <2>2. Plain  BY <1>2, <1>13 DEF Common
  <2>3. o <= k /\ (o < k \/ b + o = 0)  BY <1>4, <1>5, <1>7, <2>1
  <2>4. /\ Rows(1, b + end) = Rows(1, b + o) \cup rows
        /\ Rows(1, b + end) \subseteq Range(List)
        /\ b + end >= Total => Rows(1, b + end) = Range(List)
    <3>1. b + o \in Nat /\ b + end \in Nat /\ b + o <= b + end /\ b + o + 1 = (b + o) + 1
      BY <1>4, <1>5, <1>8, <2>3
    <3> QED  BY <1>2, <3>1, RowsSplit
  <2>5. S \cap rows = {}
    <3>1. b + o \in Nat /\ b + end \in Nat  BY <1>4, <1>5, <1>8
    <3>2. Before \cap Range(List) = {} /\ Rows(1, b + o) \cap rows = {}
      BY <1>2, <2>2, <3>1, RowsApart, BeforeApart
    <3> QED  BY <2>4, <3>2
  <2> QED  BY <2>1, <2>3, <2>4, <2>5
\* The list and what comes before it stay.
<1>14. ASSUME cursor'.period = cursor.period
       PROVE  Total' = Total /\ Before' = Before /\ (\A m : Rows(1, m)' = Rows(1, m))
  BY <1>10, <1>14 DEF Request, Total, List, Before, Rows
<1>15. Unchanged' = Unchanged  BY <1>10 DEF Request, Unchanged
\* The invariant of the next page.
<1>16. ASSUME Sound, Paged(rows), cursor'.period = cursor.period,
              NEW m \in Nat, cursor'.offset \in Nat, (PageStart(UpstreamPage) + cursor.offset)' = m,
              Before \cup Rows(1, m) = S \cup rows
       PROVE  Returned(Before \cup Rows(1, PageStart(UpstreamPage) + cursor.offset))'
  <2> DEFINE H == (Before \cup Rows(1, PageStart(UpstreamPage) + cursor.offset))'
  <2>1. H = Before' \cup Rows(1, m)'  BY <1>16 DEF Rows
  <2>2. H = S \cup rows  BY <1>14, <1>16, <2>1
  <2>3. Returned(S) /\ S \cap rows = {}  BY <1>13, <1>16
  <2> HIDE DEF H, S, rows, Sound
  <2>4. UNCHANGED <<first, listed>> /\ times' = [i \in Things |-> times[i] + (IF i \in rows THEN 1 ELSE 0)]
    BY <1>10, <1>16 DEF Request, Paged
  <2>5. \A i \in (first \cap Now)' : times'[i] = IF i \in H THEN 1 ELSE 0
    BY <1>2, <2>2, <2>3, <2>4, PageReturned
  <2> QED  BY <2>5 DEF Returned, H
<1>17. CASE Bad
  <2>1. Refuse  BY <1>1, <1>17 DEF end
  <2>2. created # {} \/ deleted \/ short' \/ slow'
    <3> SUFFICES ASSUME Unchanged, ~short'  PROVE FALSE  BY DEF Unchanged
    <3>1. Sound  OBVIOUS
    <3>2. k = have /\ (b + o = 0 \/ b + o < Total) /\ o <= k /\ (o < k \/ b + o = 0)  BY <1>13, <3>1
    <3>3. ~(Has("outside") /\ Outside(k))  BY <1>4, <1>5, <3>2 DEF Outside
    <3>4. ~(Has("empty") /\ k = 0 /\ b + o < Total)  BY <1>4, <1>5, <1>7, <3>2
    <3>5. ~(Has("short") /\ whole < Total /\ k # UpstreamPage)  BY <1>4, <1>5, <1>7, <3>2
    <3> QED  BY <1>17, <3>3, <3>4, <3>5
  <2> QED  BY <1>10, <2>1, <2>2, RefusedStep DEF Refuse
<1>18. CASE ~Bad /\ end < k
  <2>1. GoOn(rows, cut)  BY <1>1, <1>18 DEF end
  <2>2. CASE Repeats(cut)
    <3>1. status' = "refused" /\ UNCHANGED <<cursor, times>>  BY <2>1, <2>2 DEF GoOn
    <3>2. end = o  BY <1>4, <2>2 DEF Repeats, ListingCursors
    <3>3. created # {} \/ deleted \/ short' \/ slow'
      <4> SUFFICES ASSUME Unchanged, ~short'  PROVE FALSE  BY DEF Unchanged
      <4>1. o <= k  BY <1>13
      <4> QED  BY <1>4, <1>7, <1>8, <1>18, <3>2, <4>1
    <3> QED  BY <1>10, <3>1, <3>3, RefusedStep
  <2>3. CASE ~Repeats(cut)
    <3>1. status' = "listing" /\ cursor' = cut /\ Paged(rows)  BY <1>12, <2>1, <2>3 DEF GoOn, Paged
    <3>2. cut \in ListingCursors /\ cut.offset = end /\ cut.period = cursor.period /\ cut.page = cursor.page
      BY <1>4, <1>8 DEF ListingCursors
    <3>3. ~Has("periods") => cursor'.period = 1  BY <1>2, <3>1, <3>2 DEF Common
    <3>4. PageStart(UpstreamPage)' = b  BY <1>6, <3>1, <3>2 DEF PageStart
    <3>5. (PageStart(UpstreamPage) + cursor.offset)' = b + end  BY <3>1, <3>2, <3>4
    <3>6. ASSUME Sound
          PROVE  /\ cursor'.offset < UpstreamPage
                 /\ b + end < Total'
                 /\ Returned(Before \cup Rows(1, PageStart(UpstreamPage) + cursor.offset))'
      <4>1. end < UpstreamPage  BY <1>4, <1>7, <1>8, <1>18
      <4>2. b + end < Total /\ Total' = Total
        <5>1. k = have  BY <1>13, <3>6
        <5>2. Total' = Total  BY <1>14, <3>1, <3>2
        <5> QED  BY <1>4, <1>5, <1>7, <1>8, <1>18, <5>1, <5>2
      <4>3. b + end \in Nat  BY <1>5, <1>8
      <4>4. Before \cup Rows(1, b + end) = S \cup rows  BY <1>13, <3>6
      <4> HIDE DEF rows, S, Sound
      <4>5. Returned(Before \cup Rows(1, PageStart(UpstreamPage) + cursor.offset))'
        BY <1>8, <1>16, <3>1, <3>2, <3>5, <3>6, <4>3, <4>4
      <4> QED  BY <3>1, <3>2, <4>1, <4>2, <4>5
    <3>7. PageKept'  BY <1>15, <3>5, <3>6 DEF PageKept
    <3>8. Progress'  BY <1>2, <3>7 DEF Progress
    <3> QED  BY <1>10, <3>1, <3>2, <3>3, <3>8, ListingStep
  <2> QED  BY <2>2, <2>3
<1>19. CASE ~Bad /\ end >= k /\ whole < Total
  <2>1. GoOn(rows, on)  BY <1>1, <1>4, <1>7, <1>8, <1>19 DEF end
  <2>2. on # cursor /\ on \in ListingCursors /\ on.offset = 0 /\ on.period = cursor.period
        /\ on.page = cursor.page + 1
    <3>1. on \in ListingCursors /\ on.offset = 0 /\ on.period = cursor.period /\ on.page = cursor.page + 1
      <4>1. cursor.page + 1 \in Nat \ {0}  BY <1>4
      <4>2. cursor \in ListingCursors  BY <1>4
      <4> QED  BY <4>1, <4>2 DEF ListingCursors
    <3> HIDE DEF on
    <3>2. cursor.page + 1 # cursor.page  BY <1>4
    <3> QED  BY <3>1, <3>2
  <2>3. status' = "listing" /\ cursor' = on /\ Paged(rows)  BY <1>12, <2>1, <2>2 DEF GoOn, Paged, Repeats
  <2>4. ~Has("periods") => cursor'.period = 1  BY <1>2, <2>2, <2>3 DEF Common
  <2>5. PageStart(UpstreamPage)' = b + UpstreamPage  BY <1>5, <2>2, <2>3 DEF PageStart
  <2>6. (PageStart(UpstreamPage) + cursor.offset)' = b + UpstreamPage  BY <1>4, <1>5, <2>2, <2>3, <2>5
  <2>7. ASSUME Sound
        PROVE  /\ b + UpstreamPage < Total'
               /\ Returned(Before \cup Rows(1, PageStart(UpstreamPage) + cursor.offset))'
    <3>1. end = UpstreamPage
      <4>1. k = have  BY <1>13, <2>7
      <4> QED  BY <1>4, <1>5, <1>7, <1>8, <1>19, <4>1
    <3>2. Total' = Total  BY <1>14, <2>2, <2>3
    <3>3. Before \cup Rows(1, b + UpstreamPage) = S \cup rows  BY <1>13, <2>7, <3>1
    <3>4. b + UpstreamPage \in Nat /\ cursor'.offset \in Nat  BY <1>4, <1>5, <2>2, <2>3
    <3> HIDE DEF rows, S, Sound
    <3>5. Returned(Before \cup Rows(1, PageStart(UpstreamPage) + cursor.offset))'
      BY <1>16, <2>2, <2>3, <2>6, <2>7, <3>3, <3>4
    <3> QED  BY <1>5, <1>19, <3>2, <3>5
  <2>8. PageKept'  BY <1>4, <1>15, <2>2, <2>3, <2>6, <2>7 DEF PageKept
  <2>9. Progress'  BY <1>2, <2>8 DEF Progress
  <2> QED  BY <1>10, <2>2, <2>3, <2>4, <2>9, ListingStep
<1>20. CASE ~Bad /\ end >= k /\ whole >= Total
  <2>1. EndPeriod(rows)  BY <1>1, <1>4, <1>5, <1>7, <1>8, <1>20 DEF end
  <2>2. Paged(rows)  BY <1>10, <1>12, <2>1, PeriodEnds
  <2>3. Sound => Returned(S) /\ S \cap rows = {} /\ S \cup rows = Before \cup Range(List)
    <3> SUFFICES ASSUME Sound
                 PROVE  Returned(S) /\ S \cap rows = {} /\ S \cup rows = Before \cup Range(List)
      OBVIOUS
    <3>1. k = have /\ (b + o = 0 \/ b + o < Total)  BY <1>13
    <3>2. b + end >= Total  BY <1>4, <1>5, <1>7, <1>8, <1>20, <3>1
    <3> QED  BY <1>13, <3>2
  <2>4. CASE status' = "complete" /\ cursor' = cursor /\ (Has("periods") => cursor.period = Periods)
    <3>1. CASE Sound
      <4> HIDE DEF S, rows
      <4>1. CompleteIsComplete'  BY <1>10, <2>2, <2>3, <2>4, <3>1, PeriodReturned
      <4> QED  BY <1>10, <2>2, <2>4, <4>1, CompletedStep
    <3>2. CASE ~Sound
      <4>1. /\ scheme \in Numbered
            /\ scheme \notin {TencentNATRules, TencentNodes, HuaweiDCS} \cup Checked
        BY <1>2, <1>3 DEF WellKept
      <4>2. CompleteIsComplete'  BY <1>2, <3>2, <4>1 DEF CompleteIsComplete, Unchanged
      <4> HIDE DEF rows
      <4> QED  BY <1>10, <2>2, <2>4, <4>2, CompletedStep
    <3> QED  BY <3>1, <3>2
  <2>5. CASE /\ Has("periods") /\ status' = "listing" /\ cursor' \in ListingCursors
             /\ cursor' = [Start EXCEPT !.period = cursor.period + 1]
    <3>1. cursor'.offset = 0 /\ cursor'.page = 1  BY <2>5 DEF Start
    <3>2. (PageStart(UpstreamPage) + cursor.offset)' = 0
      <4>1. PageStart(UpstreamPage)' = 0  BY <1>4, <3>1 DEF PageStart
      <4> QED  BY <3>1, <4>1
    <3>3. Sound => Returned(Before \cup Rows(1, 0))'
      <4> HIDE DEF S, rows
      <4> QED  BY <1>10, <2>2, <2>3, <2>5, PeriodReturned
    <3>4. Returned(Before \cup Rows(1, 0))' =>
             Returned(Before \cup Rows(1, PageStart(UpstreamPage) + cursor.offset))'
      BY <3>2 DEF Returned, Rows
    <3>5. PageKept'  BY <1>4, <1>15, <3>1, <3>2, <3>3, <3>4 DEF PageKept
    <3>6. Progress'  BY <1>2, <3>5 DEF Progress
    <3> HIDE DEF rows
    <3> QED  BY <1>10, <2>2, <2>5, <3>6, ListingStep
  <2> QED
    <3> HIDE DEF rows
    <3> QED  BY <1>10, <1>12, <2>1, <2>4, <2>5, PeriodEnds
<1> QED  BY <1>4, <1>5, <1>7, <1>8, <1>17, <1>18, <1>19, <1>20

-----------------------------------------------------------------------------
\* Pages whose size is kept, with a total.
LEMMA KeptStep ==
    ASSUME ListingIInv, NEW limit \in 1..MaxLimit, ReadKept(limit), turn' = ~turn
    PROVE  ListingIInv'
<1> DEFINE size == IF cursor.limit = 0 THEN limit ELSE cursor.limit
           b    == (cursor.page - 1) * size
           have == Left(b, size)
           on   == [cursor EXCEPT !.page = cursor.page + 1, !.limit = size, !.total = Total]
<1>1. PICK k \in 0..have :
        /\ Filled(have, k)
        /\ IF \/ cursor.total # 0 /\ Total # cursor.total
              \/ b + k > Total
              \/ b + k < Total /\ k # size
           THEN Refuse
           ELSE IF b + k < Total
                THEN GoOn(Rows(b + 1, b + k), on)
                ELSE EndPeriod(Rows(b + 1, b + k))
  BY DEF ReadKept
<1> DEFINE rows == Rows(b + 1, b + k)
           S    == Rows(1, b)
           Bad  == \/ cursor.total # 0 /\ Total # cursor.total
                   \/ b + k > Total
                   \/ b + k < Total /\ k # size
<1>2. /\ ListingTypeOK /\ Common /\ Asked /\ scheme.ask = "kept" /\ KeptKept
      /\ UNCHANGED <<scheme, listed, rank, first, created, deleted, restarted, changes, slow>>
  BY DEF ListingIInv, Progress, ReadKept, catalog, history
<1>3. WellKept(scheme)  BY <1>2, SchemesAreWellKept DEF ListingTypeOK
<1>4. ~Has("periods") /\ scheme \in Checked  BY <1>2, <1>3 DEF WellKept, Has
<1>5. /\ Total \in Nat /\ limit \in Nat /\ limit > 0 /\ cursor \in ListingCursors
      /\ cursor.page \in Nat \ {0} /\ cursor.limit \in Nat /\ cursor.total \in Nat
  <2>1. cursor \in ListingCursors  BY <1>2 DEF ListingTypeOK
  <2>2. cursor.limit \in Nat /\ cursor.total \in Nat /\ cursor.page \in Nat \ {0}  BY <2>1 DEF ListingCursors
  <2>3. Total \in Nat  BY <1>2, ListShape
  <2> QED  BY <2>1, <2>2, <2>3, Sizes
<1>6. size \in Nat /\ size > 0  BY <1>5
<1>7. b \in Nat /\ ((cursor.page + 1) - 1) * size = b + size  BY <1>5, <1>6, PageArithmetic
\* The size counts from the second page on.
<1>8. status = "started" => b = 0 /\ PageStart(cursor.limit) = 0
  <2>1. status = "started" => cursor.page - 1 = 0  BY <1>2 DEF Common, Start
  <2> QED  BY <1>5, <1>6, <2>1 DEF PageStart
<1>9. status = "listing" => PageStart(cursor.limit) = b /\ cursor.total > 0
  <2>1. status = "listing" => cursor.limit > 0 /\ cursor.total > 0  BY <1>2 DEF KeptKept
  <2>2. status = "listing" => size = cursor.limit  BY <1>5, <2>1
  <2> QED  BY <2>1, <2>2 DEF PageStart
<1> HIDE DEF b, size
<1>10. /\ have \in Nat /\ k \in Nat /\ k <= have /\ have <= size
       /\ b < Total => have > 0 /\ b + have <= Total /\ (have = size \/ b + have = Total)
       /\ b >= Total => have = 0
  <2>1. CASE b >= Total  BY <1>5, <1>6, <1>7, <2>1 DEF Left
  <2>2. CASE b < Total  BY <1>5, <1>6, <1>7, <2>2 DEF Left, Smaller
  <2> QED  BY <1>5, <1>7, <2>1, <2>2
<1> HIDE DEF have
<1>11. short' = (short \/ k < have)  BY <1>1 DEF Filled, size, b
<1>12. Request  BY <1>2, <1>11 DEF Request, ListingTypeOK
<1>13. rows \subseteq Things /\ Rows(1, b + k) = S \cup rows /\ (b + k >= Total => S \cup rows = Range(List))
  <2>1. Rows(1, b + k) = S \cup rows /\ Rows(1, b + k) \subseteq Range(List) /\ (b + k >= Total => Rows(1, b + k) = Range(List))
    <3>1. b + k \in Nat /\ b <= b + k  BY <1>7, <1>10
    <3> QED  BY <1>2, <1>7, <3>1, RowsSplit
  <2> QED  BY <1>2, <2>1, ListShape
<1>14. ASSUME Unchanged
       PROVE  (b = 0 \/ b < Total) /\ Returned(S) /\ S \cap rows = {}
  <2>1. (b = 0 \/ b < Total) /\ Returned(S)
    <3>1. PageStart(cursor.limit) = b  BY <1>2, <1>8, <1>9 DEF Asked
    <3> QED  BY <1>2, <1>14, <3>1 DEF KeptKept
  <2>2. Plain  BY <1>2, <1>14 DEF Common
  <2>3. b \in Nat /\ b + k \in Nat  BY <1>7, <1>10
  <2> QED  BY <1>2, <2>1, <2>2, <2>3, RowsApart
\* A total that has changed is noticed.
<1>15. ~Bad => (created # {} <=> deleted)
  <2>1. CASE status = "started"  BY <1>2, <2>1 DEF Common, Unchanged
  <2>2. CASE status = "listing"
    <3> SUFFICES ASSUME ~Bad  PROVE created # {} <=> deleted  OBVIOUS
    <3>1. TotalTells  BY <1>2 DEF KeptKept
    <3>2. Total = cursor.total  BY <1>5, <1>9, <2>2
    <3>3. deleted \in BOOLEAN  BY <1>2 DEF ListingTypeOK
    <3> QED  BY <1>5, <2>2, <3>1, <3>2, <3>3 DEF TotalTells
  <2> QED  BY <1>2, <2>1, <2>2 DEF Asked
<1>16. CASE Bad
  <2>1. Refuse  BY <1>1, <1>16 DEF b, size
  <2>2. created # {} \/ deleted \/ short' \/ slow'
    <3> SUFFICES ASSUME Unchanged, ~short'  PROVE FALSE  BY DEF Unchanged
    <3>1. k = have
      <4>1. ~(k < have)  BY <1>11
      <4> QED  BY <1>10, <4>1
    <3>2. b = 0 \/ b < Total  BY <1>14
    <3>3. ~(b + k > Total)  BY <1>5, <1>7, <1>10, <3>1, <3>2
    <3>4. ~(b + k < Total /\ k # size)  BY <1>5, <1>6, <1>7, <1>10, <3>1, <3>2
    <3>5. cursor.total # 0 /\ Total # cursor.total  BY <1>16, <3>3, <3>4
    <3>6. status # "started"  BY <1>2, <3>5 DEF Common, Start
    <3>7. status = "listing"  BY <1>2, <3>6 DEF Asked
    <3> QED  BY <1>2, <3>5, <3>7 DEF KeptKept, TotalTells
  <2> QED  BY <1>12, <2>1, <2>2, RefusedStep DEF Refuse
<1>17. CASE ~Bad /\ b + k < Total
  <2>1. GoOn(rows, on)  BY <1>1, <1>17 DEF b, size
  <2>2. /\ on \in ListingCursors /\ on.period = cursor.period /\ on.page = cursor.page + 1
        /\ on.limit = size /\ on.total = Total
    <3>1. cursor.page + 1 \in Nat \ {0}  BY <1>5
    <3>2. cursor \in ListingCursors  BY <1>5
    <3> QED  BY <1>5, <1>6, <3>1, <3>2 DEF ListingCursors
  <2>3. on # cursor
    <3> HIDE DEF on
    <3>1. cursor.page + 1 # cursor.page  BY <1>5
    <3> QED  BY <2>2, <3>1
  <2>4. status' = "listing" /\ cursor' = on /\ Paged(rows)  BY <1>13, <2>1, <2>3 DEF GoOn, Paged, Repeats
  <2>5. ~Has("periods") => cursor'.period = 1  BY <1>2, <2>2, <2>4 DEF Common
  <2>6. Total' = Total /\ (\A m : Rows(1, m)' = Rows(1, m))
    BY <1>12, <2>2, <2>4 DEF Request, Total, List, Rows
  <2>7. k = size  BY <1>17
  <2>8. PageStart(cursor.limit)' = b + k  BY <1>7, <2>2, <2>4, <2>7 DEF PageStart
  <2>9. Unchanged' = Unchanged  BY <1>12 DEF Request, Unchanged
  <2>10. TotalTells'  BY <1>12, <1>15, <1>17, <2>2, <2>4, <2>6, <2>9 DEF TotalTells, Request
  <2>11. ASSUME Unchanged
         PROVE  Returned(Rows(1, PageStart(cursor.limit)))'
    <3> DEFINE H == Rows(1, PageStart(cursor.limit))'
    <3>1. H = S \cup rows
      <4>1. List' = List  BY <1>12, <2>2, <2>4 DEF Request, List
      <4>2. H = {List[n] : n \in 1..Smaller(b + k, Total)}  BY <2>6, <2>8, <4>1 DEF Rows
      <4> QED  BY <1>13, <4>2 DEF Rows
    <3>2. Returned(S) /\ S \cap rows = {}  BY <1>14, <2>11
    <3> HIDE DEF H, S, rows
    <3>3. UNCHANGED <<first, listed>> /\ times' = [i \in Things |-> times[i] + (IF i \in rows THEN 1 ELSE 0)]
      BY <1>12, <2>4 DEF Request, Paged
    <3>4. \A i \in (first \cap Now)' : times'[i] = IF i \in H THEN 1 ELSE 0
      BY <1>2, <3>1, <3>2, <3>3, PageReturned
    <3> QED  BY <3>4 DEF Returned, H
  <2>12. cursor'.total > 0 /\ cursor'.limit > 0  BY <1>5, <1>6, <1>7, <1>10, <1>17, <2>2, <2>4
  <2>13. PageStart(cursor.limit)' < Total'  BY <1>17, <2>6, <2>8
  <2>14. KeptKept'
    <3> HIDE DEF on, rows
    <3> QED  BY <2>9, <2>10, <2>11, <2>12, <2>13 DEF KeptKept
  <2>15. Progress'  BY <1>2, <2>14 DEF Progress
  <2> QED  BY <1>12, <2>2, <2>4, <2>5, <2>15, ListingStep
<1>18. CASE ~Bad /\ b + k >= Total
  <2>1. EndPeriod(rows)  BY <1>1, <1>5, <1>7, <1>10, <1>18 DEF b, size
  <2>2. Paged(rows) /\ status' = "complete" /\ cursor' = cursor
    <3> HIDE DEF rows
    <3> QED  BY <1>4, <1>12, <1>13, <2>1, PeriodEnds
  <2>3. CompleteIsComplete'
    <3>1. CASE Unchanged
      <4>1. Returned(S) /\ S \cap rows = {} /\ S \cup rows = Range(List)  BY <1>13, <1>14, <1>18, <3>1
      <4>2. Now = Range(List)  BY <1>4, OneList
      <4> HIDE DEF S, rows
      <4> QED  BY <1>2, <1>12, <2>2, <4>1, <4>2, AllReturned
    <3>2. CASE ~Unchanged
      <4>1. created # {} /\ deleted  BY <1>15, <1>18, <3>2 DEF Unchanged
      <4> QED  BY <1>2, <1>4, <4>1 DEF CompleteIsComplete
    <3> QED  BY <3>1, <3>2
  <2> HIDE DEF rows
  <2> QED  BY <1>12, <2>2, <2>3, CompletedStep
<1> QED  BY <1>5, <1>7, <1>10, <1>16, <1>17, <1>18

-----------------------------------------------------------------------------
\* Of finitely many things one is first and one is last.
LEMMA Extremes ==
    ASSUME NEW S, IsFiniteSet(S), S # {}, NEW f, \A i \in S : f[i] \in Nat
    PROVE  (\E i \in S : \A j \in S : f[i] <= f[j]) /\ (\E i \in S : \A j \in S : f[j] <= f[i])
<1>1. \E i \in S : \A j \in S : f[i] <= f[j]
  <2> DEFINE down(i) == {j \in S : f[j] <= f[i]}
             B == {down(i) : i \in S}
  <2>1. B \in SUBSET (SUBSET S) /\ B # {}  OBVIOUS
  <2>2. PICK T \in B : \A U \in SUBSET T : U # T => U \notin B
    <3> HIDE DEF B
    <3> QED  BY <2>1, SmallestSubset
  <2>3. PICK i \in S : T = down(i)  OBVIOUS
  <2>4. ASSUME NEW j \in S, ~(f[i] <= f[j])
        PROVE  FALSE
    <3>1. f[j] \in Nat /\ f[i] \in Nat /\ f[j] < f[i]  BY <2>4
    <3>2. down(j) \in SUBSET T  BY <2>3, <3>1
    <3>3. i \in T /\ i \notin down(j)  BY <2>3, <3>1
    <3> QED  BY <2>2, <3>2, <3>3
  <2> QED  BY <2>4
<1>2. \E i \in S : \A j \in S : f[j] <= f[i]
  <2> DEFINE up(i) == {j \in S : f[i] <= f[j]}
             B == {up(i) : i \in S}
  <2>1. B \in SUBSET (SUBSET S) /\ B # {}  OBVIOUS
  <2>2. PICK T \in B : \A U \in SUBSET T : U # T => U \notin B
    <3> HIDE DEF B
    <3> QED  BY <2>1, SmallestSubset
  <2>3. PICK i \in S : T = up(i)  OBVIOUS
  <2>4. ASSUME NEW j \in S, ~(f[j] <= f[i])
        PROVE  FALSE
    <3>1. f[j] \in Nat /\ f[i] \in Nat /\ f[i] < f[j]  BY <2>4
    <3>2. up(j) \in SUBSET T  BY <2>3, <3>1
    <3>3. i \in T /\ i \notin up(j)  BY <2>3, <3>1
    <3> QED  BY <2>2, <3>2, <3>3
  <2> QED  BY <2>4
<1> QED  BY <1>1, <1>2

\* The first things of a set in an order.
LEMMA LeastFacts ==
    ASSUME NEW S, IsFiniteSet(S), NEW f, \A i \in S : f[i] \in Nat,
           \A i, j \in S : f[i] = f[j] => i = j, NEW n \in Nat
    PROVE  /\ Least(S, f, n) \subseteq S
           /\ n = 0 => Least(S, f, n) = {}
           /\ n >= Cardinality(S) => Least(S, f, n) = S
           /\ n > 0 /\ S # {} => Least(S, f, n) # {}
           /\ \A m \in Nat : n <= m => Least(S, f, n) \subseteq Least(S, f, m)
           /\ \A i \in Least(S, f, n), j \in S : f[j] <= f[i] => j \in Least(S, f, n)
<1> DEFINE down(i) == {j \in S : f[j] <= f[i]}
           c(i)    == Cardinality(down(i))
<1>1. Least(S, f, n) = {i \in S : c(i) <= n} /\ (\A m : Least(S, f, m) = {i \in S : c(i) <= m})
  BY DEF Least
<1>2. \A i \in S : i \in down(i)  OBVIOUS
<1>3. \A i \in S : down(i) \in SUBSET S  OBVIOUS
<1>4. \A i \in S : IsFiniteSet(down(i)) /\ c(i) \in Nat /\ c(i) <= Cardinality(S) /\ c(i) # 0
  <2> TAKE i \in S
  <2> HIDE DEF down
  <2>1. IsFiniteSet(down(i)) /\ c(i) <= Cardinality(S)  BY <1>3, FS_Subset
  <2> QED  BY <1>2, <2>1, FS_CardinalityType, FS_EmptySet
<1>5. \A i, j \in S : f[j] <= f[i] => c(j) <= c(i)
  <2> TAKE i, j \in S
  <2> HAVE f[j] <= f[i]
  <2>1. down(j) \in SUBSET down(i)  OBVIOUS
  <2> HIDE DEF down
  <2> QED  BY <1>4, <2>1, FS_Subset
<1>6. n > 0 /\ S # {} => \E i \in S : c(i) <= n
  <2> SUFFICES ASSUME n > 0, S # {}  PROVE \E i \in S : c(i) <= n  OBVIOUS
  <2>1. PICK i \in S : \A j \in S : f[i] <= f[j]  BY Extremes
  <2>2. down(i) = {i}
    <3>1. ASSUME NEW j \in S, f[j] <= f[i]
          PROVE  j = i
      <4>1. f[i] \in Nat /\ f[j] \in Nat /\ f[i] <= f[j]  BY <2>1
      <4>2. f[i] = f[j]  BY <3>1, <4>1
      <4> QED  BY <4>2
    <3>2. f[i] <= f[i]
      <4>1. f[i] \in Nat  OBVIOUS
      <4> QED  BY <4>1
    <3> QED  BY <3>1, <3>2
  <2>3. c(i) = 1
    <3> HIDE DEF down
    <3> QED  BY <2>2, FS_Singleton
  <2> QED  BY <2>3
<1>7. Cardinality(S) \in Nat  BY FS_CardinalityType
<1> HIDE DEF c, down
<1>8. Least(S, f, n) \subseteq S /\ (n = 0 => Least(S, f, n) = {})  BY <1>1, <1>4
<1>9. n >= Cardinality(S) => Least(S, f, n) = S  BY <1>1, <1>4, <1>7
<1>10. n > 0 /\ S # {} => Least(S, f, n) # {}  BY <1>1, <1>6
<1>11. \A m \in Nat : n <= m => Least(S, f, n) \subseteq Least(S, f, m)  BY <1>1, <1>4
<1>12. \A i \in Least(S, f, n), j \in S : f[j] <= f[i] => j \in Least(S, f, n)  BY <1>1, <1>4, <1>5
<1> QED  BY <1>8, <1>9, <1>10, <1>11, <1>12

\* Each thing of a list has a place.
LEMMA PlaceFacts ==
    ASSUME ListingTypeOK
    PROVE  /\ \A i \in Range(List) : Place[i] \in Nat
           /\ \A i, j \in Range(List) : Place[i] = Place[j] => i = j
<1>1. DOMAIN List = 1..Total /\ Total \in Nat  BY ListShape
<1>2. ASSUME NEW i \in Range(List)
      PROVE  Place[i] \in 1..Total /\ List[Place[i]] = i
  <2>1. \E n \in DOMAIN List : List[n] = i  BY DEF Range
  <2>2. Place[i] = CHOOSE n \in DOMAIN List : List[n] = i  BY DEF Place
  <2> QED  BY <1>1, <2>1, <2>2
<1>3. \A i \in Range(List) : Place[i] \in Nat  BY <1>1, <1>2
<1> QED  BY <1>2, <1>3

-----------------------------------------------------------------------------
\* What a cloud lists behind a token.
LEMMA BehindFacts ==
    ASSUME ListingTypeOK
    PROVE  /\ Behind(cursor.token) \subseteq Range(List) /\ Behind(cursor.token) \cap cursor.token = {}
           /\ IsFiniteSet(Behind(cursor.token)) /\ Cardinality(Behind(cursor.token)) \in Nat
           /\ cursor.token \subseteq Things /\ Behind(cursor.token) \subseteq Things
<1>1. Behind(cursor.token) \in SUBSET Range(List) /\ Behind(cursor.token) \cap cursor.token = {}  BY DEF Behind
<1>2. IsFiniteSet(Range(List)) /\ Range(List) \subseteq Things  BY ListShape
<1>3. cursor.token \subseteq Things  BY DEF ListingTypeOK, ListingCursors
<1> HIDE DEF Behind
<1> QED  BY <1>1, <1>2, <1>3, FS_Subset, FS_CardinalityType

\* Tokens.
LEMMA TokenStep ==
    ASSUME ListingIInv, NEW limit \in 1..MaxLimit, ReadToken(limit), turn' = ~turn
    PROVE  ListingIInv'
<1> DEFINE rest == Behind(cursor.token)
           left == Cardinality(rest)
           most == IF Has("loose") THEN left ELSE Smaller(limit, left)
           rows(k) == Least(rest, Place, k)
           on(k) == [cursor EXCEPT !.token = cursor.token \cup rows(k),
                                   !.limit = IF Has("bound") THEN limit ELSE 0]
<1>1. PICK k \in Smaller(1, most)..most :
        IF k < left THEN GoOn(rows(k), on(k)) ELSE EndPeriod(rest)
  BY DEF ReadToken
<1>2. /\ ListingTypeOK /\ Common /\ Asked /\ scheme.ask = "token" /\ Returned(cursor.token)
      /\ UNCHANGED <<scheme, listed, rank, first, created, deleted, restarted, changes, short, slow>>
  BY DEF ListingIInv, Progress, TokenKept, ReadToken, catalog, history
<1>3. ~Has("periods")
  <2>1. WellKept(scheme)  BY <1>2, SchemesAreWellKept DEF ListingTypeOK
  <2> QED  BY <1>2, <2>1 DEF WellKept, Has
<1>4. Request  BY <1>2 DEF Request, ListingTypeOK
<1>5. /\ rest \subseteq Range(List) /\ rest \cap cursor.token = {} /\ IsFiniteSet(rest) /\ left \in Nat
      /\ rest \subseteq Things /\ cursor.token \subseteq Things
  BY <1>2, BehindFacts
<1>6. (\A i \in rest : Place[i] \in Nat) /\ (\A i, j \in rest : Place[i] = Place[j] => i = j)
  BY <1>2, <1>5, PlaceFacts
<1>7. limit \in Nat /\ limit > 0  BY Sizes
<1>8. most \in Nat /\ k \in Nat /\ (left > 0 => k > 0)
  <2>1. most \in Nat /\ (left > 0 => most > 0)  BY <1>5, <1>7 DEF Smaller
  <2> HIDE DEF most
  <2> QED  BY <2>1 DEF Smaller
<1> HIDE DEF rest, most
<1>9. CASE k < left
  <2>1. rows(k) \subseteq rest /\ rows(k) # {}
    <3>1. k > 0 /\ rest # {}
      <4>1. left > 0  BY <1>5, <1>8, <1>9
      <4> QED  BY <1>5, <1>8, <4>1, FS_EmptySet
    <3> QED  BY <1>5, <1>6, <1>8, <3>1, LeastFacts
  <2> HIDE DEF rows
  <2>2. /\ on(k) \in ListingCursors /\ on(k).period = cursor.period
        /\ on(k).token = cursor.token \cup rows(k)
    <3>1. cursor \in ListingCursors  BY <1>2 DEF ListingTypeOK
    <3>2. cursor.token \cup rows(k) \in SUBSET Things  BY <1>5, <2>1
    <3> QED  BY <1>7, <3>1, <3>2 DEF ListingCursors
  <2> HIDE DEF on
  <2>3. on(k) # cursor  BY <1>5, <2>1, <2>2
  <2>4. status' = "listing" /\ cursor' = on(k) /\ Paged(rows(k))
    <3>1. GoOn(rows(k), on(k))  BY <1>1, <1>9 DEF rows, on
    <3> QED  BY <1>5, <2>1, <2>3, <3>1 DEF GoOn, Repeats, Paged
  <2>5. cursor'.period = 1  BY <1>2, <1>3, <2>2, <2>4 DEF Common
  <2>6. Returned(cursor.token)'
    <3> DEFINE H == cursor'.token
    <3>1. H = cursor.token \cup rows(k)  BY <2>2, <2>4
    <3> HIDE DEF H
    <3>2. UNCHANGED <<first, listed>> /\ times' = [i \in Things |-> times[i] + (IF i \in rows(k) THEN 1 ELSE 0)]
      BY <1>4, <2>4 DEF Request, Paged
    <3>3. \A i \in (first \cap Now)' : times'[i] = IF i \in H THEN 1 ELSE 0
      <4> DEFINE T == cursor.token
                 r == rows(k)
      <4>1. Returned(T) /\ T \cap r = {} /\ H = T \cup r  BY <1>2, <1>5, <2>1, <3>1
      <4>2. times' = [i \in Things |-> times[i] + (IF i \in r THEN 1 ELSE 0)]  BY <3>2
      <4> HIDE DEF T, r
      <4> QED  BY <1>2, <3>2, <4>1, <4>2, PageReturned
    <3> QED  BY <3>3 DEF Returned, H
  <2>7. Progress'  BY <1>2, <2>6 DEF Progress, TokenKept
  <2> QED  BY <1>4, <2>2, <2>4, <2>5, <2>7, ListingStep
<1>10. CASE ~(k < left)
  <2>1. EndPeriod(rest)  BY <1>1, <1>10 DEF rest
  <2>2. /\ Paged(rest) /\ status' = "complete" /\ cursor' = cursor
    BY <1>3, <1>4, <1>5, <2>1, PeriodEnds
  <2>3. \A i \in first \cap Now : i \in cursor.token \/ i \in rest  BY <1>3, OneList DEF Behind, rest
  <2>4. CompleteIsComplete'
    BY <1>2, <1>4, <1>5, <2>2, <2>3, AllReturned
  <2> QED  BY <1>4, <2>2, <2>4, CompletedStep
<1> QED  BY <1>9, <1>10

\* Pages behind a token that are cut.
LEMMA SliceStep ==
    ASSUME ListingIInv, NEW limit \in 1..MaxLimit, ReadSlice(limit), turn' = ~turn
    PROVE  ListingIInv'
<1> DEFINE rest  == Behind(cursor.token)
           whole == Least(rest, Place, UpstreamPage)
           size  == Cardinality(whole)
           o     == cursor.offset
           end   == CutEnd(size, limit)
           rows  == Least(whole, Place, end) \ Least(whole, Place, o)
           S     == cursor.token \cup Least(whole, Place, o)
           cut   == [cursor EXCEPT !.offset = end]
           on    == [cursor EXCEPT !.token = cursor.token \cup whole, !.offset = 0]
<1>1. IF Outside(size) THEN Refuse
      ELSE IF end < size THEN GoOn(rows, cut)
      ELSE IF whole # rest THEN GoOn(rows, on)
      ELSE EndPeriod(rows)
  BY DEF ReadSlice
<1>2. /\ ListingTypeOK /\ Common /\ Asked /\ scheme.ask = "slice" /\ SliceKept
      /\ UNCHANGED <<scheme, listed, rank, first, created, deleted, restarted, changes, short, slow>>
  BY DEF ListingIInv, Progress, ReadSlice, catalog, history
<1>3. ~Has("periods") /\ scheme \in Numbered
  <2>1. WellKept(scheme)  BY <1>2, SchemesAreWellKept DEF ListingTypeOK
  <2> QED  BY <1>2, <2>1 DEF WellKept, Has
<1>4. Request  BY <1>2 DEF Request, ListingTypeOK
<1>5. /\ rest \subseteq Range(List) /\ rest \cap cursor.token = {} /\ IsFiniteSet(rest)
      /\ rest \subseteq Things /\ cursor.token \subseteq Things
  BY <1>2, BehindFacts
<1>6. (\A i \in rest : Place[i] \in Nat) /\ (\A i, j \in rest : Place[i] = Place[j] => i = j)
  BY <1>2, <1>5, PlaceFacts
<1>7. limit \in Nat /\ limit > 0 /\ cursor \in ListingCursors /\ o \in Nat
  <2>1. cursor \in ListingCursors  BY <1>2 DEF ListingTypeOK
  <2> QED  BY <2>1, Sizes DEF ListingCursors
<1>8. Sliced = whole  BY DEF Sliced
<1> HIDE DEF rest
<1>9. whole \subseteq rest /\ (rest # {} => whole # {})  BY <1>5, <1>6, Sizes, LeastFacts
<1> HIDE DEF whole
<1>10. IsFiniteSet(whole) /\ size \in Nat /\ whole \subseteq Things /\ (whole = {} <=> size = 0)
  BY <1>5, <1>9, FS_Subset, FS_CardinalityType, FS_EmptySet
<1>11. (\A i \in whole : Place[i] \in Nat) /\ (\A i, j \in whole : Place[i] = Place[j] => i = j)
  BY <1>6, <1>9
<1>12. end \in Nat /\ end <= size /\ (o <= size => o <= end) /\ (o < size => o < end)
  BY <1>7, <1>10 DEF CutEnd, Smaller
<1> HIDE DEF size, end
<1>13. Least(whole, Place, end) \subseteq whole /\ Least(whole, Place, o) \subseteq whole
  BY <1>7, <1>10, <1>11, <1>12, LeastFacts
<1>14. rows \subseteq Things  BY <1>10, <1>13
\* What was returned before this page, if it is known.
<1>15. ASSUME Unchanged
       PROVE  /\ o = 0 \/ o < size
              /\ o <= end
              /\ Returned(S) /\ S \cap rows = {}
              /\ S \cup rows = cursor.token \cup Least(whole, Place, end)
              /\ end >= size => Least(whole, Place, end) = whole
  <2>1. (o = 0 \/ o < size) /\ Returned(S)  BY <1>2, <1>8, <1>15 DEF SliceKept, size
  <2>2. o <= end  BY <1>7, <1>10, <1>12, <2>1
  <2>3. Least(whole, Place, o) \subseteq Least(whole, Place, end)
    BY <1>7, <1>10, <1>11, <1>12, <2>2, LeastFacts
  <2>4. end >= size => Least(whole, Place, end) = whole
    BY <1>10, <1>11, <1>12, LeastFacts DEF size
  <2> QED  BY <1>5, <1>9, <1>13, <2>1, <2>2, <2>3, <2>4
<1>16. Unchanged' = Unchanged  BY <1>4 DEF Request, Unchanged
<1>17. ASSUME Unchanged, Paged(rows), NEW H, H = cursor.token \cup Least(whole, Place, end)
       PROVE  \A i \in (first \cap Now)' : times'[i] = IF i \in H THEN 1 ELSE 0
  <2>1. Returned(S) /\ S \cap rows = {} /\ H = S \cup rows  BY <1>15, <1>17
  <2>2. UNCHANGED <<first, listed>> /\ times' = [i \in Things |-> times[i] + (IF i \in rows THEN 1 ELSE 0)]
    BY <1>4, <1>17 DEF Request, Paged
  <2> HIDE DEF S, rows
  <2> QED  BY <1>2, <2>1, <2>2, PageReturned
\* The cloud and what is behind the token of the next cursor.
<1>18. Behind(cursor.token)' = Range(List)' \ cursor'.token  BY DEF Behind
<1>19. CASE Outside(size)
  <2>1. Refuse  BY <1>1, <1>19 DEF size, whole, rest
  <2>2. created # {} \/ deleted
    <3> SUFFICES ASSUME Unchanged  PROVE FALSE  BY DEF Unchanged
    <3>1. o = 0 \/ o < size  BY <1>15
    <3> QED  BY <1>7, <1>10, <1>19, <3>1 DEF Outside
  <2> QED  BY <1>4, <2>1, <2>2, RefusedStep DEF Refuse
<1>20. CASE ~Outside(size) /\ end < size
  <2>1. GoOn(rows, cut)  BY <1>1, <1>20 DEF size, whole, rest, end
  <2>2. cut \in ListingCursors /\ cut.offset = end /\ cut.period = cursor.period /\ cut.token = cursor.token
    BY <1>7, <1>12 DEF ListingCursors
  <2> HIDE DEF cut
  <2>3. ~Repeats(cut)
    <3>1. o < size  BY <1>7, <1>10, <1>12, <1>20 DEF Outside
    <3>2. end # o  BY <1>7, <1>12, <3>1
    <3> QED  BY <2>2, <3>2 DEF Repeats
  <2>4. status' = "listing" /\ cursor' = cut /\ Paged(rows)  BY <1>14, <2>1, <2>3 DEF GoOn, Paged
  <2>5. cursor'.period = 1  BY <1>2, <1>3, <2>2, <2>4 DEF Common
  <2>6. List' = List  BY <1>4, <2>2, <2>4 DEF Request, List
  <2>7. Sliced' = whole
    <3>1. Place' = Place /\ Range(List)' = Range(List)  BY <2>6 DEF Place, Range
    <3>2. Behind(cursor.token)' = rest  BY <1>18, <2>2, <2>4, <3>1 DEF rest, Behind
    <3> QED  BY <3>1, <3>2 DEF Sliced, whole, Least
  <2>8. ASSUME Unchanged
        PROVE  Returned(cursor.token \cup Least(Sliced, Place, cursor.offset))'
    <3> DEFINE H == (cursor.token \cup Least(Sliced, Place, cursor.offset))'
    <3>1. Place' = Place  BY <2>6 DEF Place, Range
    <3>2. H = cursor.token \cup Least(whole, Place, end)  BY <2>2, <2>4, <2>7, <3>1 DEF Least
    <3> HIDE DEF H
    <3>3. \A i \in (first \cap Now)' : times'[i] = IF i \in H THEN 1 ELSE 0  BY <1>17, <2>4, <2>8, <3>2
    <3> QED  BY <3>3 DEF Returned, H
  <2>9. cursor'.offset < Cardinality(Sliced)'  BY <1>20, <2>2, <2>4, <2>7 DEF size
  <2>10. SliceKept'  BY <1>16, <2>8, <2>9 DEF SliceKept
  <2>11. Progress'  BY <1>2, <2>10 DEF Progress
  <2> HIDE DEF rows
  <2> QED  BY <1>4, <2>2, <2>4, <2>5, <2>11, ListingStep
<1>21. CASE ~Outside(size) /\ end >= size /\ whole # rest
  <2>1. GoOn(rows, on)  BY <1>1, <1>10, <1>12, <1>21 DEF size, whole, rest, end
  <2>2. /\ on \in ListingCursors /\ on.offset = 0 /\ on.period = cursor.period
        /\ on.token = cursor.token \cup whole
    <3>1. cursor.token \cup whole \in SUBSET Things  BY <1>5, <1>10
    <3> QED  BY <1>7, <3>1 DEF ListingCursors
  <2> HIDE DEF on
  <2>3. on # cursor  BY <1>5, <1>9, <1>21, <2>2
  <2>4. status' = "listing" /\ cursor' = on /\ Paged(rows)  BY <1>14, <2>1, <2>3 DEF GoOn, Paged, Repeats
  <2>5. cursor'.period = 1  BY <1>2, <1>3, <2>2, <2>4 DEF Common
  <2>6. List' = List /\ Place' = Place /\ Range(List)' = Range(List)
    BY <1>4, <2>2, <2>4 DEF Request, List, Place, Range
  <2>7. Least(Sliced, Place, cursor.offset)' = {}
    <3>1. Behind(cursor.token)' \subseteq rest /\ IsFiniteSet(Behind(cursor.token)')
      <4>1. Behind(cursor.token)' \in SUBSET rest  BY <1>18, <2>2, <2>4, <2>6 DEF rest, Behind
      <4> HIDE DEF Behind
      <4> QED  BY <1>5, <4>1, FS_Subset
    <3>2. Sliced' = Least(Behind(cursor.token)', Place, UpstreamPage)  BY <2>6 DEF Sliced, Least
    <3>3. Sliced' \subseteq Behind(cursor.token)' /\ IsFiniteSet(Sliced')
      <4> HIDE DEF Behind
      <4>1. /\ \A i \in Behind(cursor.token)' : Place[i] \in Nat
            /\ \A i, j \in Behind(cursor.token)' : Place[i] = Place[j] => i = j
        BY <1>6, <3>1
      <4>2. Sliced' \in SUBSET Behind(cursor.token)'  BY <3>1, <3>2, <4>1, Sizes, LeastFacts
      <4> QED  BY <3>1, <4>2, FS_Subset
    <3>4. (\A i \in Sliced' : Place[i] \in Nat) /\ (\A i, j \in Sliced' : Place[i] = Place[j] => i = j)
      BY <1>6, <3>1, <3>3
    <3>5. Least(Sliced', Place, 0) = {}  BY <3>3, <3>4, LeastFacts
    <3>6. Least(Sliced, Place, cursor.offset)' = Least(Sliced', Place, 0)  BY <2>2, <2>4, <2>6 DEF Least
    <3> QED  BY <3>5, <3>6
  <2>8. ASSUME Unchanged
        PROVE  Returned(cursor.token \cup Least(Sliced, Place, cursor.offset))'
    <3> DEFINE H == (cursor.token \cup Least(Sliced, Place, cursor.offset))'
    <3>1. H = cursor.token \cup whole  BY <2>2, <2>4, <2>7
    <3>2. Least(whole, Place, end) = whole  BY <1>15, <1>21, <2>8
    <3> HIDE DEF H
    <3>3. \A i \in (first \cap Now)' : times'[i] = IF i \in H THEN 1 ELSE 0  BY <1>17, <2>4, <2>8, <3>1, <3>2
    <3> QED  BY <3>3 DEF Returned, H
  <2>9. cursor'.offset = 0  BY <2>2, <2>4
  <2>10. SliceKept'  BY <1>16, <2>8, <2>9 DEF SliceKept
  <2>11. Progress'  BY <1>2, <2>10 DEF Progress
  <2> HIDE DEF rows
  <2> QED  BY <1>4, <2>2, <2>4, <2>5, <2>11, ListingStep
<1>22. CASE ~Outside(size) /\ end >= size /\ whole = rest
  <2>1. EndPeriod(rows)  BY <1>1, <1>10, <1>12, <1>22 DEF size, whole, rest, end
  <2>2. Paged(rows) /\ status' = "complete" /\ cursor' = cursor
    <3> HIDE DEF rows
    <3> QED  BY <1>3, <1>4, <1>14, <2>1, PeriodEnds
  <2>3. CompleteIsComplete'
    <3>1. CASE Unchanged
      <4>1. Returned(S) /\ S \cap rows = {} /\ S \cup rows = cursor.token \cup rest  BY <1>15, <1>22, <3>1
      <4>2. Now \subseteq cursor.token \cup rest  BY <1>3, OneList DEF Behind, rest
      <4> HIDE DEF S, rows
      <4> QED  BY <1>2, <1>4, <2>2, <4>1, <4>2, AllReturned
    <3>2. CASE ~Unchanged  BY <1>2, <1>3, <3>2 DEF CompleteIsComplete, Unchanged
    <3> QED  BY <3>1, <3>2
  <2> HIDE DEF rows
  <2> QED  BY <1>4, <2>2, <2>3, CompletedStep
<1> QED  BY <1>10, <1>12, <1>19, <1>20, <1>21, <1>22

-----------------------------------------------------------------------------
\* Ids.
LEMMA IdsStep ==
    ASSUME ListingIInv, NEW limit \in 1..MaxLimit, ReadIds(limit), turn' = ~turn
    PROVE  ListingIInv'
<1> DEFINE rest == After(cursor.last)
           full == Smaller(limit, Cardinality(rest))
           rows(k) == Least(rest, rank, k)
           more(k) == rows(k) # {} /\ (IF Has("trusts") THEN k = limit ELSE rows(k) # rest)
           on(k)   == [cursor EXCEPT !.last = LastId(rows(k))]
           S     == {i \in Things : rank[i] <= cursor.last}
           Sound == (Has("trusts") => ~short') /\ ~(restarted /\ Has("hashed"))
<1>1. PICK k \in IF Has("trusts") THEN 0..full ELSE {full} :
        /\ Filled(full, k)
        /\ IF more(k) THEN GoOn(rows(k), on(k)) ELSE EndPeriod(rows(k))
  BY DEF ReadIds
<1>2. /\ ListingTypeOK /\ Common /\ Asked /\ scheme.ask = "ids" /\ IdsKept
      /\ UNCHANGED <<scheme, listed, rank, first, created, deleted, restarted, changes, slow>>
  BY DEF ListingIInv, Progress, ReadIds, catalog, history
<1>3. WellKept(scheme)  BY <1>2, SchemesAreWellKept DEF ListingTypeOK
<1>4. ~Has("periods")  BY <1>2, <1>3 DEF WellKept, Has
<1>5. /\ limit \in Nat /\ limit > 0 /\ cursor \in ListingCursors /\ cursor.last \in Nat
      /\ \A i \in Things : rank[i] \in Nat
      /\ \A i, j \in Things : rank[i] = rank[j] => i = j
  <2>1. cursor \in ListingCursors /\ rank \in [Things -> Things]  BY <1>2 DEF ListingTypeOK
  <2>2. \A i \in Things : rank[i] \in Nat  BY <2>1, Sizes
  <2>3. \A i, j \in Things : rank[i] = rank[j] => i = j  BY <1>2 DEF Common
  <2> QED  BY <2>1, <2>2, <2>3, Sizes DEF ListingCursors
<1>6. rest \in SUBSET Range(List) /\ rest \subseteq Things
  BY <1>2, ListShape DEF After
<1>7. \A i \in Range(List) : i \in rest <=> rank[i] > cursor.last  BY DEF After
<1> HIDE DEF rest
<1>8. IsFiniteSet(rest) /\ Cardinality(rest) \in Nat /\ (rest = {} <=> Cardinality(rest) = 0)
  BY <1>2, <1>6, ListShape, FS_Subset, FS_CardinalityType, FS_EmptySet
<1>9. /\ full \in Nat /\ full <= limit /\ full <= Cardinality(rest)
      /\ full = limit \/ full = Cardinality(rest)
  BY <1>5, <1>8 DEF Smaller
<1> HIDE DEF full
<1>10. k \in Nat /\ k <= full /\ (~Has("trusts") => k = full)  BY <1>1, <1>9
<1>11. /\ rows(k) \subseteq rest
       /\ k >= Cardinality(rest) => rows(k) = rest
       /\ k > 0 /\ rest # {} => rows(k) # {}
       /\ \A i \in rows(k), j \in rest : rank[j] <= rank[i] => j \in rows(k)
  <2>1. (\A i \in rest : rank[i] \in Nat) /\ (\A i, j \in rest : rank[i] = rank[j] => i = j)  BY <1>5, <1>6
  <2> QED  BY <1>8, <1>10, <2>1, LeastFacts
<1>12. short' = (short \/ k < full)  BY <1>1 DEF Filled, full, rest
<1>13. Request  BY <1>2, <1>12 DEF Request, ListingTypeOK
<1>14. short \in BOOLEAN /\ (~short' => ~short /\ k = full)
  <2>1. short \in BOOLEAN  BY <1>2 DEF ListingTypeOK
  <2>2. ~short' => ~short /\ ~(k < full)  BY <1>12
  <2> QED  BY <1>9, <1>10, <2>1, <2>2
<1>15. Sound => Returned(S)  BY <1>2, <1>14 DEF IdsKept
<1>16. S \cap rows(k) = {}  BY <1>5, <1>6, <1>7, <1>11
<1> DEFINE r == rows(k)
<1>17. r \subseteq Things  BY <1>6, <1>11
<1>18. Now = Range(List) /\ cursor.period = 1  BY <1>4, OneList
<1>19. CASE more(k)
  <2>1. PICK m \in r : LastId(r) = rank[m] /\ \A j \in r : rank[j] <= rank[m]
    <3>1. r # {} /\ IsFiniteSet(r)
      <4>1. r \in SUBSET rest /\ r # {}  BY <1>11, <1>19
      <4> HIDE DEF r
      <4> QED  BY <1>8, <4>1, FS_Subset
    <3>2. \A i \in r : rank[i] \in Nat  BY <1>5, <1>17
    <3> HIDE DEF r
    <3>3. \E i \in r : \A j \in r : rank[j] <= rank[i]  BY <3>1, <3>2, Extremes
    <3> QED  BY <3>3 DEF LastId
  <2>2. rank[m] \in Nat /\ rank[m] > cursor.last  BY <1>5, <1>6, <1>7, <1>11, <2>1
  <2>3. on(k) \in ListingCursors /\ on(k).last = rank[m] /\ on(k).period = cursor.period
    <3>1. cursor \in ListingCursors  BY <1>5
    <3> HIDE DEF r
    <3>2. on(k) = [cursor EXCEPT !.last = LastId(r)]  BY DEF r
    <3> HIDE DEF on
    <3> QED  BY <2>1, <2>2, <3>1, <3>2 DEF ListingCursors
  <2> HIDE DEF on
  <2>4. status' = "listing" /\ cursor' = on(k) /\ Paged(r)
    <3>1. GoOn(r, on(k))  BY <1>1, <1>19 DEF full, rest, on
    <3>2. on(k) # cursor  BY <1>5, <2>2, <2>3
    <3> HIDE DEF r
    <3> QED  BY <1>17, <3>1, <3>2 DEF GoOn, Repeats, Paged
  <2>5. cursor'.period = 1  BY <1>18, <2>3, <2>4
  <2>6. ASSUME Sound
        PROVE  Returned({i \in Things : rank[i] <= cursor.last})'
    <3> DEFINE H == {i \in Things : rank[i] <= cursor.last}'
    <3>1. H = {i \in Things : rank[i] <= rank[m]}  BY <1>2, <2>3, <2>4
    <3>2. \A i \in first \cap Now : i \in H <=> i \in S \/ i \in r
      <4> TAKE i \in first \cap Now
      <4>1. i \in Things /\ i \in Range(List)  BY <1>2, <1>18, ListShape
      <4>2. rank[i] \in Nat  BY <1>5, <4>1
      <4>3. i \in r => i \in H  BY <2>1, <3>1, <4>1
      <4>4. i \in S => i \in H  BY <1>5, <2>2, <3>1, <4>1, <4>2
      <4>5. ASSUME i \in H, i \notin S
            PROVE  i \in r
        <5>1. rank[i] <= rank[m] /\ i \in rest  BY <1>5, <1>7, <3>1, <4>1, <4>2, <4>5
        <5> QED  BY <1>11, <2>1, <5>1
      <4> QED  BY <4>3, <4>4, <4>5
    <3>3. Returned(S) /\ S \cap r = {}  BY <1>15, <1>16, <2>6
    <3> HIDE DEF H, S, r
    <3>4. UNCHANGED <<first, listed>> /\ times' = [i \in Things |-> times[i] + (IF i \in r THEN 1 ELSE 0)]
      BY <1>13, <2>4 DEF Request, Paged
    <3>5. \A i \in (first \cap Now)' : times'[i] = IF i \in H THEN 1 ELSE 0
      BY <1>2, <3>2, <3>3, <3>4, PageReturned
    <3> QED  BY <3>5 DEF Returned, H
  <2>7. IdsKept'
    <3>1. Has("trusts")' = Has("trusts") /\ Has("hashed")' = Has("hashed") /\ restarted' = restarted
      BY <1>13 DEF Request, Has
    <3> QED  BY <2>6, <3>1 DEF IdsKept
  <2>8. Progress'  BY <1>2, <2>7 DEF Progress
  <2> HIDE DEF r
  <2> QED  BY <1>13, <2>3, <2>4, <2>5, <2>8, ListingStep
<1>20. CASE ~more(k)
  <2>1. EndPeriod(r)  BY <1>1, <1>20 DEF full, rest
  <2>2. Paged(r) /\ status' = "complete" /\ cursor' = cursor
    <3> HIDE DEF r
    <3> QED  BY <1>4, <1>13, <1>17, <2>1, PeriodEnds
  <2>3. CASE Sound
    <3>1. r = rest
      <4>1. k = full  BY <1>10, <1>14, <2>3
      <4>2. CASE full = Cardinality(rest)  BY <1>9, <1>11, <4>1, <4>2
      <4>3. CASE full = limit /\ r = {}
        <5>1. k > 0  BY <1>5, <4>1, <4>3
        <5> QED  BY <1>11, <4>3, <5>1
      <4>4. CASE full = limit /\ r # {}
        <5>1. Has("trusts") => k # limit  BY <1>20, <4>4
        <5>2. ~Has("trusts")  BY <4>1, <4>4, <5>1
        <5> QED  BY <1>20, <4>4, <5>2
      <4> QED  BY <1>9, <4>2, <4>3, <4>4
    <3>2. \A i \in first \cap Now : i \in S \/ i \in r
      <4> TAKE i \in first \cap Now
      <4>1. i \in Things /\ i \in Range(List)  BY <1>2, <1>18, ListShape
      <4>2. rank[i] \in Nat  BY <1>5, <4>1
      <4> QED  BY <1>5, <1>7, <3>1, <4>1, <4>2
    <3>3. Returned(S) /\ S \cap r = {}  BY <1>15, <1>16, <2>3
    <3> HIDE DEF S, r
    <3>4. CompleteIsComplete'  BY <1>2, <1>13, <2>2, <3>2, <3>3, AllReturned
    <3> QED  BY <1>13, <2>2, <3>4, CompletedStep
  <2>4. CASE ~Sound
    <3>1. \/ Has("trusts") /\ short'
          \/ restarted /\ Has("hashed")
      BY <2>4
    <3>2. Has("trusts") => scheme \notin {TencentNATRules, TencentNodes, HuaweiDCS} \cup Checked
      BY <1>3 DEF WellKept, Has
    <3>3. Has("hashed") => scheme = TencentTargets  BY <1>3 DEF WellKept, Has
    <3>4. CompleteIsComplete'  BY <1>2, <3>1, <3>2, <3>3 DEF CompleteIsComplete
    <3> HIDE DEF r
    <3> QED  BY <1>13, <2>2, <3>4, CompletedStep
  <2> QED  BY <2>3, <2>4
<1> QED  BY <1>19, <1>20

\* Everything in one page.
LEMMA WholeStep ==
    ASSUME ListingIInv, NEW limit \in 1..MaxLimit, ReadWhole(limit), turn' = ~turn
    PROVE  ListingIInv'
<1> DEFINE rows == Range(List)
<1>1. /\ ListingTypeOK /\ Common /\ Asked /\ scheme.ask = "whole" /\ status = "started" /\ EndPeriod(rows)
      /\ UNCHANGED <<scheme, listed, rank, first, created, deleted, restarted, changes, short, slow>>
  BY DEF ListingIInv, Progress, ReadWhole, catalog, history
<1>2. WellKept(scheme)  BY <1>1, SchemesAreWellKept DEF ListingTypeOK
<1>3. ~Has("periods")  BY <1>1, <1>2 DEF WellKept, Has
<1>4. Request  BY <1>1 DEF Request, ListingTypeOK
<1>5. rows \subseteq Things /\ Now = rows  BY <1>1, <1>3, ListShape, OneList
<1> HIDE DEF rows
<1>6. Paged(rows) /\ status' = "complete" /\ cursor' = cursor  BY <1>1, <1>3, <1>4, <1>5, PeriodEnds
<1>7. Returned({})
  <2>1. \A i \in Things : times[i] = 0  BY <1>1 DEF Common
  <2> QED  BY <1>5, <2>1 DEF Returned
<1>8. CompleteIsComplete'  BY <1>1, <1>4, <1>5, <1>6, <1>7, AllReturned
<1> QED  BY <1>4, <1>6, <1>8, CompletedStep

\* Jobs.
LEMMA JobStep ==
    ASSUME ListingIInv, NEW limit \in 1..MaxLimit, ReadJob(limit), turn' = ~turn
    PROVE  ListingIInv'
<1> DEFINE T == cursor.token
<1>1. /\ ListingTypeOK /\ Common /\ Asked /\ scheme.ask = "job" /\ Returned(T)
      /\ UNCHANGED <<scheme, listed, rank, first, created, deleted, restarted, changes, short>>
  BY DEF ListingIInv, Progress, TokenKept, ReadJob, catalog, history
<1>2. ~Has("periods")
  <2>1. WellKept(scheme)  BY <1>1, SchemesAreWellKept DEF ListingTypeOK
  <2> QED  BY <1>1, <2>1 DEF WellKept, Has
<1>3. cursor \in ListingCursors /\ T \in SUBSET Things /\ cursor.period = 1 /\ slow \in BOOLEAN /\ first \subseteq Things
  BY <1>1, <1>2 DEF ListingTypeOK, ListingCursors, Common
\* A page that goes on.
<1>4. ASSUME Request, NEW rows, rows \in SUBSET Things, rows \cap T = {},
             GoOn(rows, [cursor EXCEPT !.page = 2, !.token = T \cup rows]),
             rows = {} /\ cursor.page = 2 => slow'
      PROVE  ListingIInv'
  <2> DEFINE on == [cursor EXCEPT !.page = 2, !.token = T \cup rows]
  <2>1. on \in ListingCursors /\ on.period = 1 /\ on.page = 2 /\ on.token = T \cup rows
    <3>1. T \cup rows \in SUBSET Things  BY <1>3, <1>4
    <3>2. cursor \in ListingCursors /\ cursor.period = 1  BY <1>3
    <3> DEFINE after == T \cup rows
    <3> HIDE DEF T, after
    <3>3. after \in SUBSET Things  BY <3>1 DEF after
    <3>4. on = [cursor EXCEPT !.page = 2, !.token = after]  BY DEF after
    <3> HIDE DEF on
    <3>5. on.period = 1 /\ on.page = 2 /\ on.token = after
      BY <3>2, <3>4 DEF ListingCursors
    <3>6. on \in ListingCursors
      <4>1. 2 \in Nat \ {0}  OBVIOUS
      <4> QED  BY <3>2, <3>3, <3>4, <4>1 DEF ListingCursors
    <3> QED  BY <3>5, <3>6 DEF after
  <2>2. GoOn(rows, on)  BY <1>4
  <2> HIDE DEF on
  <2>3. CASE Repeats(on)
    <3>1. rows = {} /\ cursor.page = 2  BY <1>4, <2>1, <2>3 DEF Repeats
    <3> QED  BY <1>4, <2>2, <2>3, <3>1, RefusedStep DEF GoOn
  <2>4. CASE ~Repeats(on)
    <3>1. status' = "listing" /\ cursor' = on /\ Paged(rows)  BY <1>4, <2>2, <2>4 DEF GoOn, Paged
    <3>2. Returned(cursor.token)'
      <4> DEFINE H == cursor'.token
      <4>1. H = T \cup rows  BY <2>1, <3>1
      <4> HIDE DEF H, T
      <4>2. UNCHANGED <<first, listed>> /\ times' = [i \in Things |-> times[i] + (IF i \in rows THEN 1 ELSE 0)]
        BY <1>4, <3>1 DEF Request, Paged
      <4>3. \A i \in (first \cap Now)' : times'[i] = IF i \in H THEN 1 ELSE 0
        BY <1>1, <1>4, <4>1, <4>2, PageReturned
      <4> QED  BY <4>3 DEF Returned, H
    <3>3. Progress'  BY <1>1, <3>2 DEF Progress, TokenKept
    <3> QED  BY <1>4, <2>1, <3>1, <3>3, ListingStep
  <2> QED  BY <2>3, <2>4
\* The job is not finished.
<1>5. CASE /\ T = {}
           /\ GoOn({}, [cursor EXCEPT !.page = 2])
           /\ slow' = (slow \/ cursor.page = 2)
  <2>1. Request  BY <1>1, <1>5 DEF Request, ListingTypeOK
  <2>2. [cursor EXCEPT !.page = 2] = [cursor EXCEPT !.page = 2, !.token = T \cup {}]
    BY <1>3 DEF ListingCursors
  <2> QED  BY <1>4, <1>5, <2>1, <2>2
\* It is.
<1>6. CASE /\ slow' = slow
           /\ \E rows \in SUBSET (first \ T) :
                /\ Cardinality(rows) = Smaller(limit, Cardinality(first \ T))
                /\ IF rows # first \ T
                   THEN GoOn(rows, [cursor EXCEPT !.page = 2, !.token = T \cup rows])
                   ELSE EndPeriod(rows)
  <2>1. PICK rows \in SUBSET (first \ T) :
          /\ Cardinality(rows) = Smaller(limit, Cardinality(first \ T))
          /\ IF rows # first \ T
             THEN GoOn(rows, [cursor EXCEPT !.page = 2, !.token = T \cup rows])
             ELSE EndPeriod(rows)
    BY <1>6
  <2>2. Request  BY <1>1, <1>6 DEF Request, ListingTypeOK
  <2>3. rows \in SUBSET Things /\ rows \cap T = {}  BY <1>3, <2>1
  <2>4. CASE rows # first \ T
    <3>1. rows # {}
      <4>1. IsFiniteSet(first \ T)
        <5>1. first \ T \in SUBSET Things  BY <1>3
        <5> QED  BY <5>1, Sizes, FS_Subset
      <4>2. Cardinality(first \ T) \in Nat /\ (Cardinality(first \ T) = 0 => first \ T = {})
        BY <4>1, FS_CardinalityType, FS_EmptySet
      <4>3. limit \in Nat /\ limit > 0  BY Sizes
      <4>4. rows = {} => Cardinality(rows) = 0  BY FS_EmptySet
      <4>5. rows = {} => Cardinality(first \ T) = 0  BY <2>1, <4>2, <4>3, <4>4 DEF Smaller
      <4> QED  BY <2>4, <4>2, <4>5
    <3> QED  BY <1>4, <2>1, <2>2, <2>3, <2>4, <3>1
  <2>5. CASE rows = first \ T
    <3>1. EndPeriod(rows)  BY <2>1, <2>5
    <3>2. Paged(rows) /\ status' = "complete" /\ cursor' = cursor
      BY <1>2, <2>2, <2>3, <3>1, PeriodEnds
    <3>3. CompleteIsComplete'
      <4>1. \A i \in first \cap Now : i \in T \/ i \in rows  BY <2>5
      <4> HIDE DEF T
      <4> QED  BY <1>1, <2>2, <2>3, <3>2, <4>1, AllReturned
    <3> QED  BY <2>2, <3>2, <3>3, CompletedStep
  <2> QED  BY <2>4, <2>5
<1> QED  BY <1>5, <1>6 DEF ReadJob

-----------------------------------------------------------------------------
\* A request.
LEMMA ReadListing == ASSUME ListingIInv, Read PROVE ListingIInv'
<1>1. PICK limit \in 1..MaxLimit :
        \/ ReadOffset(limit) \/ ReadPage(limit) \/ ReadKept(limit) \/ ReadSlice(limit)
        \/ ReadToken(limit) \/ ReadIds(limit) \/ ReadWhole(limit) \/ ReadJob(limit)
  BY DEF Read
<1>2. turn' = ~turn  BY DEF Read
<1> QED  BY <1>1, <1>2, OffsetStep, PageStep, KeptStep, SliceStep, TokenStep, IdsStep, WholeStep, JobStep

\* What a list holds after something was put in or taken out.
LEMMA WithFacts ==
    ASSUME NEW s \in Seq(Things), NEW m \in 1..Len(s) + 1, NEW i \in Things
    PROVE  /\ With(s, m, i) \in Seq(Things) /\ Len(With(s, m, i)) = Len(s) + 1
           /\ Range(With(s, m, i)) \subseteq Range(s) \cup {i}
<1> DEFINE w == With(s, m, i)
<1>1. Len(s) \in Nat /\ \A n \in 1..Len(s) : s[n] \in Things  OBVIOUS
<1>2. w = [n \in 1..Len(s) + 1 |-> IF n < m THEN s[n] ELSE IF n = m THEN i ELSE s[n - 1]]  BY DEF With
<1>3. \A n \in 1..Len(s) + 1 : w[n] = i \/ \E k \in 1..Len(s) : w[n] = s[k]
  <2> TAKE n \in 1..Len(s) + 1
  <2>1. CASE n < m  BY <1>1, <1>2, <2>1
  <2>2. CASE n = m  BY <1>1, <1>2, <2>2
  <2>3. CASE n > m
    <3>1. n - 1 \in 1..Len(s) /\ w[n] = s[n - 1]  BY <1>1, <1>2, <2>3
    <3> QED  BY <3>1
  <2> QED  BY <1>1, <2>1, <2>2, <2>3
<1>4. w \in [1..Len(s) + 1 -> Things]
  <2>1. \A n \in 1..Len(s) + 1 : w[n] \in Things  BY <1>1, <1>3
  <2> QED  BY <1>2, <2>1
<1> HIDE DEF w
<1>5. w \in Seq(Things) /\ Len(w) = Len(s) + 1 /\ DOMAIN w = 1..Len(s) + 1
  <2>1. Len(s) + 1 \in Nat  BY <1>1
  <2> QED  BY <1>4, <2>1
<1>6. Range(w) \subseteq Range(s) \cup {i}
  <2>1. \A n \in DOMAIN w : w[n] = i \/ \E k \in DOMAIN s : w[n] = s[k]  BY <1>1, <1>3, <1>5
  <2> QED  BY <2>1 DEF Range
<1> QED  BY <1>5, <1>6 DEF w

\* The same for a thing taken out, of which the list had at least one.
LEMMA WithoutFacts ==
    ASSUME NEW s \in Seq(Things), NEW m \in DOMAIN s
    PROVE  /\ Without(s, m) \in Seq(Things) /\ Len(Without(s, m)) = Len(s) - 1
           /\ Range(Without(s, m)) \subseteq Range(s) /\ Len(s) > 0
<1> DEFINE w == Without(s, m)
<1>1. Len(s) \in Nat /\ m \in 1..Len(s) /\ \A n \in 1..Len(s) : s[n] \in Things  OBVIOUS
<1>2. w = [n \in 1..Len(s) - 1 |-> IF n < m THEN s[n] ELSE s[n + 1]]  BY DEF Without
<1>3. \A n \in 1..Len(s) - 1 : \E k \in 1..Len(s) : w[n] = s[k]
  <2> TAKE n \in 1..Len(s) - 1
  <2>1. CASE n < m  BY <1>1, <1>2, <2>1
  <2>2. CASE ~(n < m)
    <3>1. n + 1 \in 1..Len(s) /\ w[n] = s[n + 1]  BY <1>1, <1>2, <2>2
    <3> QED  BY <3>1
  <2> QED  BY <2>1, <2>2
<1>4. w \in [1..Len(s) - 1 -> Things]
  <2>1. \A n \in 1..Len(s) - 1 : w[n] \in Things  BY <1>1, <1>3
  <2> QED  BY <1>2, <2>1
<1> HIDE DEF w
<1>5. w \in Seq(Things) /\ Len(w) = Len(s) - 1 /\ DOMAIN w = 1..Len(s) - 1
  <2>1. Len(s) - 1 \in Nat  BY <1>1
  <2> QED  BY <1>4, <2>1
<1>6. Range(w) \subseteq Range(s)
  <2>1. \A n \in DOMAIN w : \E k \in DOMAIN s : w[n] = s[k]  BY <1>1, <1>3, <1>5
  <2> QED  BY <2>1 DEF Range
<1> QED  BY <1>1, <1>5, <1>6 DEF w

\* A change of what is listed takes nothing back that was returned.
LEMMA ChangedStep ==
    ASSUME ListingIInv, status = "listing", changes' \in 0..MaxChanges,
           UNCHANGED <<scheme, rank, cursor, status, times, first, restarted, short, slow, turn>>,
           listed' \in [1..Periods -> Seq(Things)], created' \in SUBSET Things, deleted' \in BOOLEAN,
           created' \cap first = {}, ~Unchanged', (first \cap Now)' \subseteq first \cap Now,
           ~Has("periods") => \A p \in 2..Periods : listed'[p] = <<>>,
           scheme.ask = "kept" \/ Has("total") => TotalTells'
    PROVE  ListingIInv'
<1>1. ListingTypeOK /\ Common /\ Progress  BY DEF ListingIInv
<1>2. ListingTypeOK'  BY <1>1 DEF ListingTypeOK
<1>3. \A t : Has(t)' = Has(t)  BY DEF Has
<1>4. Common'  BY <1>1, <1>3 DEF Common
<1>5. \A S : Returned(S) => \A i \in (first \cap Now)' : times'[i] = IF i \in S THEN 1 ELSE 0
  BY DEF Returned
<1>6. scheme.ask = "offset" => OffsetKept'
  <2> SUFFICES ASSUME scheme.ask = "offset"  PROVE OffsetKept'  OBVIOUS
  <2>1. OffsetKept  BY <1>1 DEF Progress, Asked
  <2> QED  BY <1>3, <2>1 DEF OffsetKept
<1>7. PageKept'  BY DEF PageKept
<1>8. scheme.ask = "kept" => KeptKept'
  <2> SUFFICES ASSUME scheme.ask = "kept"  PROVE KeptKept'  OBVIOUS
  <2>1. KeptKept  BY <1>1 DEF Progress, Asked
  <2> QED  BY <2>1 DEF KeptKept
<1>9. SliceKept'  BY DEF SliceKept
<1>10. scheme.ask \in {"token", "job"} => TokenKept'
  <2> SUFFICES ASSUME scheme.ask \in {"token", "job"}  PROVE TokenKept'  OBVIOUS
  <2>1. Returned(cursor.token)  BY <1>1 DEF Progress, Asked, TokenKept
  <2>2. \A i \in (first \cap Now)' : times'[i] = IF i \in cursor.token THEN 1 ELSE 0  BY <1>5, <2>1
  <2> QED  BY <2>2 DEF TokenKept, Returned
<1>11. scheme.ask = "ids" => IdsKept'
  <2> SUFFICES ASSUME scheme.ask = "ids"  PROVE IdsKept'  OBVIOUS
  <2> DEFINE S == {i \in Things : rank[i] <= cursor.last}
  <2>1. IdsKept  BY <1>1 DEF Progress, Asked
  <2>2. S' = S  OBVIOUS
  <2>3. Returned(S) => Returned(S)'
    <3> HIDE DEF S
    <3> SUFFICES ASSUME Returned(S)  PROVE Returned(S)'  OBVIOUS
    <3>1. \A i \in (first \cap Now)' : times'[i] = IF i \in S THEN 1 ELSE 0  BY <1>5
    <3> QED  BY <2>2, <3>1 DEF Returned
  <2> QED  BY <1>3, <2>1, <2>3 DEF IdsKept
<1>12. Progress'
  <2>1. scheme.ask # "whole"  BY <1>1 DEF Progress, Asked
  <2> QED  BY <1>6, <1>7, <1>8, <1>9, <1>10, <1>11, <2>1 DEF Progress
<1>13. CompleteIsComplete' /\ RefusedForAReason'  BY DEF CompleteIsComplete, RefusedForAReason
<1> QED  BY <1>2, <1>4, <1>12, <1>13 DEF ListingIInv

\* What the schemes that compare a total know.
LEMMA TotalKnown ==
    ASSUME ListingIInv, status = "listing", scheme.ask = "kept" \/ Has("total")
    PROVE  /\ TotalTells /\ ~Has("periods") /\ cursor.period = 1
           /\ Total \in Nat /\ cursor.total \in Nat /\ List = listed[1]
<1>1. ListingTypeOK /\ Common /\ Progress  BY DEF ListingIInv
<1>2. WellKept(scheme)  BY <1>1, SchemesAreWellKept DEF ListingTypeOK
<1>3. (Has("total") => scheme.ask = "offset") /\ ~Has("periods")  BY <1>2 DEF WellKept, Has
<1>4. TotalTells
  <2>1. CASE scheme.ask = "kept"  BY <1>1, <2>1 DEF Progress, Asked, KeptKept
  <2>2. CASE Has("total")  BY <1>1, <1>3, <2>2 DEF Progress, Asked, OffsetKept
  <2> QED  BY <2>1, <2>2
<1>5. cursor.period = 1  BY <1>1, <1>3 DEF Common
<1>6. cursor.total \in Nat  BY <1>1 DEF ListingTypeOK, ListingCursors
<1> QED  BY <1>1, <1>3, <1>4, <1>5, <1>6, ListShape DEF List

\* A creation lengthens the list: what it tells of the total.
LEMMA CreateStep == ASSUME ListingIInv, Create PROVE ListingIInv'
<1>1. PICK i \in Things \ (Now \cup first \cup created),
           p \in 1..(IF Has("periods") THEN Periods ELSE 1) :
        /\ \E m \in 1..Len(listed[p]) + 1 : listed' = [listed EXCEPT ![p] = With(@, m, i)]
        /\ created' = created \cup {i}
  BY DEF Create
<1>2. PICK m \in 1..Len(listed[p]) + 1 : listed' = [listed EXCEPT ![p] = With(@, m, i)]  BY <1>1
<1>3. /\ status = "listing" /\ changes' = changes + 1 /\ changes < MaxChanges
      /\ UNCHANGED <<scheme, rank, cursor, status, times, first, deleted, restarted, short, slow, turn>>
  BY DEF Create, CanChange
<1>4. ListingTypeOK /\ Common  BY DEF ListingIInv
<1>5. p \in 1..Periods /\ (~Has("periods") => p = 1)  BY <1>1, Sizes
<1>6. listed \in [1..Periods -> Seq(Things)] /\ listed[p] \in Seq(Things)  BY <1>4, <1>5 DEF ListingTypeOK
<1>7. /\ With(listed[p], m, i) \in Seq(Things) /\ Len(With(listed[p], m, i)) = Len(listed[p]) + 1
      /\ Range(With(listed[p], m, i)) \subseteq Range(listed[p]) \cup {i}
  BY <1>6, WithFacts
<1>8. /\ listed' \in [1..Periods -> Seq(Things)]
      /\ listed'[p] = With(listed[p], m, i) /\ \A q \in 1..Periods : q # p => listed'[q] = listed[q]
  BY <1>2, <1>5, <1>6, <1>7
<1>9. changes' \in 0..MaxChanges
  <2>1. changes \in 0..MaxChanges  BY <1>4 DEF ListingTypeOK
  <2> QED  BY <1>3, <2>1, Sizes
<1>10. (first \cap Now)' \subseteq first \cap Now
  <2>1. Now' \subseteq Now \cup {i}
    <3>1. \A q \in 1..Periods : Range(listed'[q]) \subseteq Range(listed[q]) \cup {i}  BY <1>7, <1>8
    <3> QED  BY <3>1 DEF Now
  <2> QED  BY <1>1, <1>3, <2>1
<1>11. created' \in SUBSET Things /\ created' \cap first = {} /\ deleted' \in BOOLEAN /\ ~Unchanged'
  BY <1>1, <1>3, <1>4 DEF ListingTypeOK, Common, Unchanged
<1>12. ~Has("periods") => \A q \in 2..Periods : listed'[q] = <<>>
  <2>1. \A q \in 2..Periods : q \in 1..Periods /\ q # 1  OBVIOUS
  <2> QED  BY <1>4, <1>5, <1>8, <2>1 DEF Common
<1>13. ASSUME scheme.ask = "kept" \/ Has("total")
       PROVE  TotalTells'
  <2>1. /\ TotalTells /\ ~Has("periods") /\ cursor.period = 1
        /\ Total \in Nat /\ cursor.total \in Nat /\ List = listed[1]
    BY <1>3, <1>13, TotalKnown
  <2>2. Total' = Total + 1
    <3>1. p = 1 /\ List' = listed'[1]  BY <1>3, <1>5, <2>1 DEF List
    <3> QED  BY <1>7, <1>8, <2>1, <3>1 DEF Total
  <2>3. ~deleted => Total >= cursor.total  BY <1>3, <2>1 DEF TotalTells, Unchanged
  <2>4. created' # {} /\ cursor' = cursor /\ deleted' = deleted  BY <1>1, <1>3
  <2> QED  BY <2>1, <2>2, <2>3, <2>4 DEF TotalTells, Unchanged
<1> QED  BY <1>3, <1>8, <1>9, <1>10, <1>11, <1>12, <1>13, ChangedStep

\* A deletion shortens the list, and never takes back what was returned.
LEMMA DeleteStep == ASSUME ListingIInv, Delete PROVE ListingIInv'
<1>1. PICK p \in 1..Periods : \E m \in DOMAIN listed[p] : listed' = [listed EXCEPT ![p] = Without(@, m)]
  BY DEF Delete
<1>2. PICK m \in DOMAIN listed[p] : listed' = [listed EXCEPT ![p] = Without(@, m)]  BY <1>1
<1>3. /\ status = "listing" /\ changes' = changes + 1 /\ changes < MaxChanges /\ deleted' = TRUE
      /\ UNCHANGED <<scheme, rank, cursor, status, times, first, created, restarted, short, slow, turn>>
  BY DEF Delete, CanChange
<1>4. ListingTypeOK /\ Common  BY DEF ListingIInv
<1>5. listed \in [1..Periods -> Seq(Things)] /\ listed[p] \in Seq(Things)  BY <1>4 DEF ListingTypeOK
<1>6. ~Has("periods") => p = 1
  <2>1. p = 1 \/ p \in 2..Periods  OBVIOUS
  <2>2. listed[p] # <<>>  BY <1>2
  <2> QED  BY <1>4, <2>1, <2>2 DEF Common
<1>7. /\ Without(listed[p], m) \in Seq(Things) /\ Len(Without(listed[p], m)) = Len(listed[p]) - 1
      /\ Range(Without(listed[p], m)) \subseteq Range(listed[p])
  BY <1>5, WithoutFacts
<1>8. /\ listed' \in [1..Periods -> Seq(Things)]
      /\ listed'[p] = Without(listed[p], m) /\ \A q \in 1..Periods : q # p => listed'[q] = listed[q]
  BY <1>2, <1>5, <1>7
<1>9. changes' \in 0..MaxChanges
  <2>1. changes \in 0..MaxChanges  BY <1>4 DEF ListingTypeOK
  <2> QED  BY <1>3, <2>1, Sizes
<1>10. (first \cap Now)' \subseteq first \cap Now
  <2>1. \A q \in 1..Periods : Range(listed'[q]) \subseteq Range(listed[q])  BY <1>7, <1>8
  <2> QED  BY <1>3, <2>1 DEF Now
<1>11. created' \in SUBSET Things /\ created' \cap first = {} /\ deleted' \in BOOLEAN /\ ~Unchanged'
  BY <1>3, <1>4 DEF ListingTypeOK, Common, Unchanged
<1>12. ~Has("periods") => \A q \in 2..Periods : listed'[q] = <<>>
  <2>1. \A q \in 2..Periods : q \in 1..Periods /\ q # 1  OBVIOUS
  <2> QED  BY <1>4, <1>6, <1>8, <2>1 DEF Common
<1>13. ASSUME scheme.ask = "kept" \/ Has("total")
       PROVE  TotalTells'
  <2>1. /\ TotalTells /\ ~Has("periods") /\ cursor.period = 1
        /\ Total \in Nat /\ cursor.total \in Nat /\ List = listed[1]
    BY <1>3, <1>13, TotalKnown
  <2>2. Total' = Total - 1
    <3>1. p = 1 /\ List' = listed'[1]  BY <1>3, <1>6, <2>1 DEF List
    <3> QED  BY <1>7, <1>8, <2>1, <3>1 DEF Total
  <2>3. created = {} => Total <= cursor.total
    <3>1. deleted \in BOOLEAN  BY <1>4 DEF ListingTypeOK
    <3> QED  BY <1>3, <2>1, <3>1 DEF TotalTells, Unchanged
  <2>4. created' = created /\ cursor' = cursor /\ deleted'  BY <1>3
  <2> QED  BY <2>1, <2>2, <2>3, <2>4 DEF TotalTells, Unchanged
<1> QED  BY <1>3, <1>8, <1>9, <1>10, <1>11, <1>12, <1>13, ChangedStep

\* A restart only matters to references that are made with the key of the process.
LEMMA RestartStep == ASSUME ListingIInv, Restart PROVE ListingIInv'
<1>1. ListingTypeOK /\ Common /\ Progress /\ CompleteIsComplete /\ RefusedForAReason  BY DEF ListingIInv
<1>2. /\ status = "listing" /\ changes' = changes + 1 /\ changes < MaxChanges /\ restarted' = TRUE
      /\ UNCHANGED <<scheme, listed, status, times, first, created, deleted, short, slow, turn>>
  BY DEF Restart, CanChange
<1>3. changes' \in 0..MaxChanges
  <2>1. changes \in 0..MaxChanges  BY <1>1 DEF ListingTypeOK
  <2> QED  BY <1>2, <2>1, Sizes
<1>4. /\ \A t : Has(t)' = Has(t)
      /\ Now' = Now /\ Plain' = Plain /\ Unchanged' = Unchanged
  BY <1>2 DEF Has, Now, Plain, Unchanged
<1>5. CompleteIsComplete' /\ RefusedForAReason'  BY <1>2 DEF CompleteIsComplete, RefusedForAReason
<1>6. CASE Has("hashed")
  <2>1. PICK last \in 0..Cardinality(Things) : cursor' = [cursor EXCEPT !.last = last]
    BY <1>6 DEF Restart
  <2>2. rank' \in [Things -> Things] /\ \A i, j \in Things : rank'[i] = rank'[j] => i = j
    BY <1>6, OrdersAssumption DEF Restart
  <2>3. cursor' \in ListingCursors /\ cursor'.period = cursor.period
    <3>1. cursor \in ListingCursors  BY <1>1 DEF ListingTypeOK
    <3>2. last \in Nat  BY Sizes
    <3> QED  BY <2>1, <3>1, <3>2 DEF ListingCursors
  <2>4. ListingTypeOK'  BY <1>1, <1>2, <1>3, <2>2, <2>3 DEF ListingTypeOK
  <2>5. Common'  BY <1>1, <1>2, <1>4, <2>2, <2>3 DEF Common
  <2>6. scheme.ask = "ids"
    <3>1. WellKept(scheme)  BY <1>1, SchemesAreWellKept DEF ListingTypeOK
    <3> QED  BY <1>6, <3>1 DEF WellKept, Has
  <2>7. IdsKept'  BY <1>2, <1>4, <1>6 DEF IdsKept
  <2>8. Progress'  BY <1>2, <2>6, <2>7 DEF Progress
  <2> QED  BY <1>5, <2>4, <2>5, <2>8 DEF ListingIInv
<1>7. CASE ~Has("hashed")
  <2>1. UNCHANGED <<rank, cursor>>  BY <1>7 DEF Restart
  <2>2. ListingTypeOK'  BY <1>1, <1>2, <1>3, <2>1 DEF ListingTypeOK
  <2>3. Common'  BY <1>1, <1>2, <1>4, <2>1 DEF Common
  <2>4. /\ TotalTells' = TotalTells /\ (\A S : Returned(S)' = Returned(S))
        /\ Total' = Total /\ List' = List /\ Before' = Before /\ Place' = Place
    BY <1>2, <1>4, <2>1 DEF TotalTells, Returned, Total, List, Before, Place, Unchanged, Now, Range
  <2>5. Asked  BY <1>2 DEF Asked
  <2>6. scheme.ask = "offset" => OffsetKept'
    <3>1. scheme.ask = "offset" => OffsetKept  BY <1>1, <2>5 DEF Progress
    <3>2. OffsetKept' = OffsetKept
      BY <1>2, <1>4, <2>1, <2>4 DEF OffsetKept, Returned, Rows
    <3> QED  BY <3>1, <3>2
  <2>7. scheme.ask = "page" => PageKept'
    <3>1. scheme.ask = "page" => PageKept  BY <1>1, <2>5 DEF Progress
    <3>2. PageKept' = PageKept
      BY <1>2, <1>4, <2>1, <2>4 DEF PageKept, Returned, Rows, PageStart
    <3> QED  BY <3>1, <3>2
  <2>8. scheme.ask = "kept" => KeptKept'
    <3>1. scheme.ask = "kept" => KeptKept  BY <1>1, <2>5 DEF Progress
    <3>2. KeptKept' = KeptKept
      BY <1>2, <1>4, <2>1, <2>4 DEF KeptKept, Returned, Rows, PageStart
    <3> QED  BY <3>1, <3>2
  <2>9. scheme.ask = "slice" => SliceKept'
    <3>1. scheme.ask = "slice" => SliceKept  BY <1>1, <2>5 DEF Progress
    <3>2. SliceKept' = SliceKept
      BY <1>2, <1>4, <2>1, <2>4 DEF SliceKept, Returned, Sliced, Least, Behind, Range
    <3> QED  BY <3>1, <3>2
  <2>10. scheme.ask \in {"token", "job"} => TokenKept'
    <3>1. scheme.ask \in {"token", "job"} => TokenKept  BY <1>1, <2>5 DEF Progress
    <3>2. TokenKept' = TokenKept  BY <1>2, <1>4, <2>1 DEF TokenKept, Returned
    <3> QED  BY <3>1, <3>2
  <2>11. scheme.ask = "ids" => IdsKept'
    <3>1. scheme.ask = "ids" => IdsKept  BY <1>1, <2>5 DEF Progress
    <3>2. {i \in Things : rank[i] <= cursor.last}' = {i \in Things : rank[i] <= cursor.last}  BY <2>1
    <3> QED  BY <1>2, <1>4, <1>7, <2>1, <3>1, <3>2 DEF IdsKept, Returned
  <2>12. scheme.ask # "whole"  BY <1>1, <1>2, <2>5 DEF Progress
  <2>13. Progress'  BY <1>2, <2>6, <2>7, <2>8, <2>9, <2>10, <2>11, <2>12 DEF Progress
  <2> QED  BY <1>5, <2>2, <2>3, <2>13 DEF ListingIInv
<1> QED  BY <1>6, <1>7

-----------------------------------------------------------------------------
\* Things in the order of their ids are listed once.
LEMMA InOrderFacts ==
    \A s \in InOrder : s \in Seq(Things) /\ \A m, n \in DOMAIN s : s[m] = s[n] => m = n
<1> SUFFICES ASSUME NEW s \in InOrder
             PROVE  s \in Seq(Things) /\ \A m, n \in DOMAIN s : s[m] = s[n] => m = n
  OBVIOUS
<1>1. PICK k \in 0..MaxListed : s \in [1..k -> Things]  BY DEF InOrder
<1>2. k \in Nat  BY <1>1, SizesAssumption
<1>3. s \in Seq(Things) /\ DOMAIN s = 1..k  BY <1>1, <1>2
<1>4. \A m, n \in DOMAIN s : m < n => s[m] < s[n]  BY DEF InOrder
<1>5. \A m, n \in DOMAIN s : s[m] = s[n] => m = n
  <2> TAKE m, n \in DOMAIN s
  <2>1. m \in Nat /\ n \in Nat /\ s[m] \in Nat /\ s[n] \in Nat  BY <1>1, <1>2, <1>3, Sizes
  <2>2. ASSUME m < n PROVE s[m] # s[n]
    <3>1. s[m] < s[n]  BY <1>4, <2>2
    <3> QED  BY <2>1, <3>1
  <2>3. ASSUME n < m PROVE s[m] # s[n]
    <3>1. s[n] < s[m]  BY <1>4, <2>3
    <3> QED  BY <2>1, <3>1
  <2> QED  BY <2>1, <2>2, <2>3
<1> QED  BY <1>3, <1>5

\* A listing that has not begun has returned nothing.
LEMMA InitListing == ASSUME ListingInit PROVE ListingIInv
<1>1. /\ cursor = Start /\ status = "started" /\ first = Now /\ created = {} /\ deleted = FALSE
      /\ restarted = FALSE /\ changes = 0 /\ short = FALSE /\ slow = FALSE /\ turn = FALSE
      /\ times = [i \in Things |-> 0]
  BY DEF ListingInit
<1>2. listed \in [1..Periods -> Seq(Things)]
  <2>1. listed \in [1..Periods -> InOrder]  BY DEF ListingInit
  <2> QED  BY <2>1, InOrderFacts
<1>3. rank \in [Things -> Things] /\ \A i, j \in Things : rank[i] = rank[j] => i = j
  <2>1. rank \in Orders \/ rank = ById  BY DEF ListingInit
  <2>2. rank = ById => rank = [i \in Things |-> i]  BY DEF ById
  <2> QED  BY <2>1, <2>2, OrdersAssumption
<1>4. cursor \in ListingCursors /\ cursor.period = 1 /\ cursor.page = 1 /\ cursor.offset = 0
      /\ cursor.token = {} /\ cursor.last = 0 /\ cursor.total = 0 /\ cursor.limit = 0
  <2>1. 1 \in 1..Periods  BY Sizes
  <2> QED  BY <1>1, <2>1 DEF Start, ListingCursors
<1>5. Now \subseteq Things
  <2>1. \A p \in 1..Periods : Range(listed[p]) \subseteq Things  BY <1>2 DEF Range
  <2> QED  BY <2>1 DEF Now
<1>6. ListingTypeOK
  <2>1. 0 \in 0..MaxChanges  BY Sizes
  <2>2. scheme \in Numbered \cup Checked \cup Keyed  BY DEF ListingInit
  <2>3. times \in [Things -> Nat]  BY <1>1
  <2> QED  BY <1>1, <1>2, <1>3, <1>4, <1>5, <2>1, <2>2, <2>3 DEF ListingTypeOK
<1>7. Plain
  <2>1. listed \in [1..Periods -> InOrder]  BY DEF ListingInit
  <2>2. \A p \in 1..Periods : \A m, n \in DOMAIN listed[p] : listed[p][m] = listed[p][n] => m = n
    BY <2>1, InOrderFacts
  <2>3. \A p, q \in 1..Periods : p # q => Range(listed[p]) \cap Range(listed[q]) = {}
    BY DEF ListingInit
  <2> QED  BY <2>2, <2>3 DEF Plain
<1>8. Common
  <2>1. ~Has("periods") => \A p \in 2..Periods : listed[p] = <<>>  BY DEF ListingInit
  <2>2. Unchanged /\ \A i \in Things : times[i] = 0  BY <1>1 DEF Unchanged
  <2> QED  BY <1>1, <1>3, <1>4, <1>7, <2>1, <2>2 DEF Common
<1>9. ASSUME NEW S, S \cap Things = {}
      PROVE  Returned(S)
  BY <1>1, <1>5, <1>9 DEF Returned
<1>10. Before = {}  BY <1>4 DEF Before
<1>11. Rows(1, 0) = {}
  <2>1. Smaller(0, Total) \notin 1..Total /\ 1..Smaller(0, Total) = {}
    BY <1>6, ListShape DEF Smaller
  <2> QED  BY <2>1 DEF Rows
<1>12. PageStart(UpstreamPage) = 0 /\ PageStart(cursor.limit) = 0  BY <1>4, Sizes DEF PageStart
<1>13. Least(Sliced, Place, cursor.offset) = {}
  <2>1. /\ IsFiniteSet(Behind(cursor.token)) /\ Behind(cursor.token) \subseteq Range(List)
        /\ \A i \in Range(List) : Place[i] \in Nat
        /\ \A i, j \in Range(List) : Place[i] = Place[j] => i = j
    BY <1>6, BehindFacts, PlaceFacts
  <2>2. Sliced \subseteq Behind(cursor.token)
    <3> HIDE DEF Behind, Place
    <3> QED  BY DEF Sliced, Least
  <2>3. IsFiniteSet(Sliced)  BY <2>1, <2>2, FS_Subset
  <2>4. /\ \A i \in Sliced : Place[i] \in Nat
        /\ \A i, j \in Sliced : Place[i] = Place[j] => i = j
    BY <2>1, <2>2
  <2> HIDE DEF Sliced, Place
  <2> QED  BY <1>4, <2>3, <2>4, LeastFacts
<1>14. OffsetKept  BY <1>1, <1>4, <1>9, <1>10, <1>11 DEF OffsetKept, TotalTells
<1>15. PageKept  BY <1>4, <1>9, <1>10, <1>11, <1>12, Sizes DEF PageKept
<1>16. KeptKept  BY <1>1, <1>4, <1>9, <1>11, <1>12 DEF KeptKept, TotalTells
<1>17. SliceKept  BY <1>4, <1>9, <1>13 DEF SliceKept
<1>18. TokenKept  BY <1>4, <1>9 DEF TokenKept
<1>19. IdsKept
  <2>1. {i \in Things : rank[i] <= cursor.last} = {}
    <3>1. \A i \in Things : rank[i] \in 1..Cardinality(Things)  BY <1>3, Sizes
    <3> QED  BY <1>4, <3>1, Sizes
  <2> QED  BY <1>9, <2>1 DEF IdsKept
<1>20. Progress  BY <1>1, <1>14, <1>15, <1>16, <1>17, <1>18, <1>19 DEF Progress
<1> QED  BY <1>1, <1>6, <1>8, <1>20 DEF ListingIInv, CompleteIsComplete, RefusedForAReason

\* Every step of the client, of the cloud and of the process keeps the invariant.
LEMMA NextListing == ASSUME ListingIInv, [ListingNext]_listingVars PROVE ListingIInv'
<1>1. CASE UNCHANGED listingVars
  <2>1. /\ UNCHANGED <<scheme, listed, rank, cursor, status, times, first>>
        /\ UNCHANGED <<created, deleted, restarted, changes, short, slow, turn>>
    BY <1>1 DEF listingVars, catalog, history
  <2>2. ListingTypeOK /\ Common /\ Progress /\ CompleteIsComplete /\ RefusedForAReason
    BY DEF ListingIInv
  <2>3. ListingTypeOK'  BY <2>1, <2>2 DEF ListingTypeOK
  <2>4. /\ (\A t : Has(t)' = Has(t)) /\ Now' = Now /\ Plain' = Plain /\ Unchanged' = Unchanged
    BY <2>1 DEF Has, Now, Plain, Unchanged
  <2>5. Common'  BY <2>1, <2>2, <2>4 DEF Common
  <2>6. /\ TotalTells' = TotalTells /\ Asked' = Asked
        /\ Total' = Total /\ List' = List /\ Before' = Before /\ Place' = Place
    BY <2>1, <2>4 DEF TotalTells, Asked, Total, List, Before, Place, Range
  <2>7. OffsetKept' = OffsetKept
    BY <2>1, <2>4, <2>6 DEF OffsetKept, Returned, Rows
  <2>8. PageKept' = PageKept
    BY <2>1, <2>4, <2>6 DEF PageKept, Returned, Rows, PageStart
  <2>9. KeptKept' = KeptKept
    BY <2>1, <2>4, <2>6 DEF KeptKept, Returned, Rows, PageStart
  <2>10. SliceKept' = SliceKept
    BY <2>1, <2>4, <2>6 DEF SliceKept, Returned, Sliced, Least, Behind, Range
  <2>11. TokenKept' = TokenKept  BY <2>1, <2>4 DEF TokenKept, Returned
  <2>12. IdsKept' = IdsKept  BY <2>1, <2>4 DEF IdsKept, Returned
  <2>13. Progress'
    BY <2>1, <2>2, <2>6, <2>7, <2>8, <2>9, <2>10, <2>11, <2>12 DEF Progress
  <2>14. CompleteIsComplete' /\ RefusedForAReason'
    BY <2>1, <2>2, <2>4 DEF CompleteIsComplete, RefusedForAReason, SurvivorsOnce
  <2> QED  BY <2>3, <2>5, <2>13, <2>14 DEF ListingIInv
<1>2. CASE ListingNext
  BY <1>1, <1>2, ReadListing, CreateStep, DeleteStep, RestartStep DEF ListingNext, Done
<1> QED  BY <1>1, <1>2

\* The inductive invariant holds in every behaviour.
LEMMA ListingInvariance == ListingSpec => []ListingIInv
<1>1. ListingInit => ListingIInv  BY InitListing
<1>2. ListingIInv /\ [ListingNext]_listingVars => ListingIInv'  BY NextListing
<1> QED  BY <1>1, <1>2, PTL DEF ListingSpec

\* The cursor, the history and the lists are well formed for every scheme, whatever
\* pages the cloud makes and whatever is created, deleted and restarted on the way.
THEOREM ListingTypeCorrect == ListingSpec => []ListingTypeOK
<1>1. ListingIInv => ListingTypeOK  BY DEF ListingIInv
<1> QED  BY <1>1, ListingInvariance, PTL

\* A listing of any adapter that ends without an error has returned what was there all
\* the time, once, for any things, page sizes and periods, but for the changes that its
\* family cannot see: the loops of the adapters over offsets, pages, tokens and ids.
THEOREM CompleteListings == ListingSpec => []CompleteIsComplete
<1>1. ListingIInv => CompleteIsComplete  BY DEF ListingIInv
<1> QED  BY <1>1, ListingInvariance, PTL

\* No adapter refuses a listing as inconsistent, changed or repeating if nothing was
\* created or deleted, the pages were full and no job was late, whatever sizes are asked for.
THEOREM RefusalsHaveReasons == ListingSpec => []RefusedForAReason
<1>1. ListingIInv => RefusedForAReason  BY DEF ListingIInv
<1> QED  BY <1>1, ListingInvariance, PTL
=============================================================================
