------------------------------ MODULE Listings ------------------------------
(***************************************************************************)
(* How the adapters page through the listings of the clouds.  A listing is *)
(* stateless on our side: what is needed to go on is in the cursor that    *)
(* was returned with the last page.  Some adapters pass the token of the   *)
(* cloud on, some count offsets or pages, some cut pages of the cloud into *)
(* smaller ones, some sort what they get and remember the last id.  Each   *)
(* is a scheme below; the actions are the families of schemes.  Metrics of *)
(* Huawei and Volcengine, which are read in windows of time, are not among *)
(* them: whether a point between two windows is in one of them or in both  *)
(* is up to the cloud.                                                     *)
(*                                                                         *)
(* While a client pages through, it may ask for pages of other sizes       *)
(* (Engine.Query asks for less when its budget runs out), things are       *)
(* created and deleted, and the process may be restarted, which changes    *)
(* the references that are made with the key of the process.               *)
(***************************************************************************)
EXTENDS Naturals, Sequences, FiniteSets, Functions

CONSTANTS Things,       \* numbers of things, which are their ids in order
          MaxListed,    \* things listed at first
          Periods,      \* days or months of a bill
          UpstreamPage, \* rows of a page of a cloud that is cut into smaller ones
          MaxLimit,     \* the largest page a client asks for
          Orders,       \* orders of ids that depend on the key of the process
          MaxChanges    \* things created or deleted, and restarts, on the way

ASSUME ThingsAssumption == IsFiniteSet(Things) /\ Things = 1..Cardinality(Things)
ASSUME SizesAssumption  == /\ {MaxListed, Periods, UpstreamPage, MaxLimit, MaxChanges} \subseteq Nat
                           /\ Periods > 0 /\ UpstreamPage > 0 /\ MaxLimit > 0
ASSUME OrdersAssumption == /\ Orders \subseteq {f \in [Things -> Things] : \A i, j \in Things : f[i] = f[j] => i = j}
                           /\ Orders # {}

ById == [i \in Things |-> i]

\* A scheme: what the cloud is asked for, and what is particular about it.
Scheme(ask, traits) == [ask |-> ask, traits |-> traits]

-----------------------------------------------------------------------------
(* Offset: the rows from an offset on.  The next offset counts the rows that *)
(* came ("trusts" the page to be full: the limit instead).  A page may be    *)
(* refused if the total has changed since the first ("total"), if it is      *)
(* empty before the total ("empty") or goes past it ("beyond").              *)

\* Mutant: the page is not compared with the total.
TencentCLBListUnchecked == Scheme("offset", {})

TencentCLBList     == Scheme("offset", {"total", "empty"})
TencentVPCList     == Scheme("offset", {"total", "empty"})
TencentProductList == Scheme("offset", {"total", "empty"})
TencentNATRules    == Scheme("offset", {"empty", "beyond"})
TencentNodes       == Scheme("offset", {"empty"})
HuaweiDCS          == Scheme("offset", {"empty"})
HuaweiCosts        == Scheme("offset", {"trusts"})
VolcengineCosts    == Scheme("offset", {"trusts", "periods"})

(* Page: a numbered page of fixed size, cut into smaller ones by an offset   *)
(* within it.  A page may be refused if it is shorter than its number and    *)
(* the total tell ("short"), empty before the total ("empty"), or if the     *)
(* offset is not in it any more ("outside"; the others go on with the next). *)
VolcengineVKE     == Scheme("page", {"outside"})
VolcengineNetwork == Scheme("page", {"outside"})
AlibabaDailyCosts == Scheme("page", {"short", "empty", "periods"})
TencentCosts      == Scheme("page", {"short"})

\* The cursor keeps the page size of the first page, and the total.
TencentPartnerCosts == Scheme("kept", {})

(* Slice: a page behind a token of the cloud, cut into smaller ones. *)
VolcengineSearch == Scheme("slice", {})
AWSElastiCache   == Scheme("slice", {})
AWSECS           == Scheme("slice", {})

(* Token: the token of the cloud is the cursor.  Some clouds are not told    *)
(* the page size, or count it in other things than rows ("loose"); one       *)
(* cursor is bound to the page size ("bound").                               *)
AWSSearch       == Scheme("token", {})
AWSMetrics      == Scheme("token", {})
AWSCosts        == Scheme("token", {"loose"})
AWSDirect       == Scheme("token", {})
AzureGraph      == Scheme("token", {})
AzureCosts      == Scheme("token", {"loose"})
AzureObjects    == Scheme("token", {})
GCPSearch       == Scheme("token", {})
GCPIAM          == Scheme("token", {"loose"})
GCPMetrics      == Scheme("token", {"loose"})
GCPObjects      == Scheme("token", {})
LivePods        == Scheme("token", {"bound"})
AlibabaSearch   == Scheme("token", {})
AlibabaMetrics  == Scheme("token", {})
TencentSearch   == Scheme("token", {})
TencentCOSList  == Scheme("token", {})
HuaweiResources == Scheme("token", {})
HuaweiCCENodes  == Scheme("token", {})
HuaweiELB       == Scheme("token", {})
HuaweiCES       == Scheme("token", {})

(* Ids: the rows with greater ids than the last.  Tencent lists everything,  *)
(* sorts it and cuts the page here; the ids of targets that have only an     *)
(* address are made with the key of the process ("hashed").  Huawei's VPC is *)
(* given the last id as a marker, and a page that is not full is taken for   *)
(* the last ("trusts").                                                      *)
TencentListeners == Scheme("ids", {})
TencentTargets   == Scheme("ids", {"hashed"})
HuaweiVPC        == Scheme("ids", {"trusts"})

\* Everything in one page, whatever its size.
HuaweiNodePools == Scheme("whole", {})
HuaweiOBSList   == Scheme("whole", {})

\* The results of a job that may not be finished when it is asked for them.
GCPCosts == Scheme("job", {})

Numbered == {TencentNATRules, TencentNodes, HuaweiDCS, HuaweiCosts, VolcengineCosts,
             VolcengineVKE, VolcengineNetwork, AlibabaDailyCosts, TencentCosts,
             VolcengineSearch, AWSElastiCache, AWSECS}
Checked  == {TencentCLBList, TencentVPCList, TencentProductList, TencentPartnerCosts}
Keyed    == {AWSSearch, AWSMetrics, AWSCosts, AWSDirect, AzureGraph, AzureCosts, AzureObjects,
             GCPSearch, GCPIAM, GCPMetrics, GCPObjects, LivePods, AlibabaSearch, AlibabaMetrics,
             TencentSearch, TencentCOSList, HuaweiResources, HuaweiCCENodes, HuaweiELB, HuaweiCES,
             TencentListeners, TencentTargets, HuaweiVPC, HuaweiNodePools, HuaweiOBSList, GCPCosts}

VARIABLES scheme,
          listed,    \* for each period the things in the order of the cloud
          rank,      \* the order of ids
          cursor,    \* the cursor of the last page
          status,    \* "started" before the first page, then "listing", "complete" or "refused"
          times,     \* history: how often a thing was returned
          first,     \* history: the things listed when the listing began
          created, deleted, restarted,  \* history: changes since then
          short,     \* history: a page was shorter than the cloud could fill it
          slow,      \* history: a job was not finished when it was asked again
          turn,      \* parity of the requests, so that asking in vain is a step
          changes

catalog == <<scheme, listed, rank>>
history == <<first, created, deleted, restarted, changes>>
listingVars == <<catalog, cursor, status, times, history, short, slow, turn>>

Now      == UNION {Range(listed[p]) : p \in 1..Periods}
Has(t)   == t \in scheme.traits

Smaller(a, b) == IF a <= b THEN a ELSE b

\* The cursor of a listing that has not begun.
Start == [period |-> 1, page |-> 1, offset |-> 0, last |-> 0, total |-> 0, limit |-> 0, token |-> {}]

\* Things in the order of their ids.
InOrder == {s \in UNION {[1..n -> Things] : n \in 0..MaxListed} : \A m, n \in DOMAIN s : m < n => s[m] < s[n]}

ListingInit ==
  /\ scheme \in Numbered \cup Checked \cup Keyed
  /\ listed \in [1..Periods -> InOrder]
  /\ \A p, q \in 1..Periods : p # q => Range(listed[p]) \cap Range(listed[q]) = {}
  /\ ~Has("periods") => \A p \in 2..Periods : listed[p] = <<>>
  /\ Cardinality(Now) <= MaxListed
  /\ rank \in IF Has("hashed") THEN Orders ELSE {ById}
  /\ cursor = Start /\ status = "started"
  /\ times = [i \in Things |-> 0]
  /\ first = Now /\ created = {} /\ deleted = FALSE /\ restarted = FALSE /\ changes = 0
  /\ short = FALSE /\ slow = FALSE /\ turn = FALSE

-----------------------------------------------------------------------------
(* Engine.NativeReadWithID takes a repeated cursor for an error of the         *)
(* provider.  (The target pager of a query stops there with a mark.)           *)

\* Mutant: a repeated cursor is taken for any other.
NeverRepeats(next) == FALSE

Repeats(next) == cursor # Start /\ next = cursor

\* A page of things, and the cursor for the next one.
GoOn(page, next) ==
  IF Repeats(next)
  THEN status' = "refused" /\ UNCHANGED <<cursor, times>>
  ELSE /\ status' = "listing" /\ cursor' = next
       /\ times' = [i \in Things |-> times[i] + (IF i \in page THEN 1 ELSE 0)]

\* A page of things that is the last of its period.
EndPeriod(page) ==
  IF Has("periods") /\ cursor.period < Periods
  THEN GoOn(page, [Start EXCEPT !.period = cursor.period + 1])
  ELSE /\ status' = "complete" /\ cursor' = cursor
       /\ times' = [i \in Things |-> times[i] + (IF i \in page THEN 1 ELSE 0)]

Refuse == status' = "refused" /\ UNCHANGED <<cursor, times>>

Asked   == status \in {"started", "listing"}
List    == listed[cursor.period]
Total   == Len(List)

\* The things in some rows of a list, and how many of the rows after one it has.
Rows(from, to)   == {List[n] : n \in from..Smaller(to, Total)}
Left(from, size) == IF from >= Total THEN 0 ELSE Smaller(size, Total - from)

\* The cloud answers with k of the rows it has for the page.
Filled(have, k) == short' = (short \/ k < have)

-----------------------------------------------------------------------------
ReadOffset(limit) ==
  /\ Asked /\ scheme.ask = "offset"
  /\ \E k \in 0..Left(cursor.offset, limit) :
       LET next == cursor.offset + (IF Has("trusts") THEN limit ELSE k)
           page == Rows(cursor.offset + 1, cursor.offset + k)
       IN /\ Filled(Left(cursor.offset, limit), k)
          /\ IF \/ Has("total") /\ cursor.offset > 0 /\ Total # cursor.total
                \/ Has("empty") /\ k = 0 /\ cursor.offset < Total
                \/ Has("beyond") /\ cursor.offset + k > Total
             THEN Refuse
             ELSE IF next < Total
                  THEN GoOn(page, [cursor EXCEPT !.offset = next, !.total = IF Has("total") THEN Total ELSE 0])
                  ELSE EndPeriod(page)
  /\ UNCHANGED <<catalog, history, slow>>

\* Mutant: an empty page is taken for one that has become shorter.
OutsideAnyway(count) == cursor.offset >= count

\* The offset within a page of the cloud that has this many rows now.
Outside(count) == cursor.offset >= count /\ cursor.offset # 0

\* Where the rows from the offset of the cursor on end in a page of this many.
CutEnd(count, limit) == Smaller(Smaller(cursor.offset, count) + limit, count)

ReadPage(limit) ==
  /\ Asked /\ scheme.ask = "page"
  /\ LET before == (cursor.page - 1) * UpstreamPage
         whole  == cursor.page * UpstreamPage
     IN \E k \in 0..Left(before, UpstreamPage) :
          LET end  == CutEnd(k, limit)
              page == Rows(before + cursor.offset + 1, before + end)
          IN /\ Filled(Left(before, UpstreamPage), k)
             /\ IF \/ Has("short") /\ whole < Total /\ k # UpstreamPage
                   \/ Has("empty") /\ k = 0 /\ before + cursor.offset < Total
                   \/ Has("outside") /\ Outside(k)
                THEN Refuse
                ELSE IF end < k
                     THEN GoOn(page, [cursor EXCEPT !.offset = end])
                     ELSE IF whole < Total
                          THEN GoOn(page, [cursor EXCEPT !.page = cursor.page + 1, !.offset = 0])
                          ELSE EndPeriod(page)
  /\ UNCHANGED <<catalog, history, slow>>

\* The page size of the first page counts, whatever is asked for later.
ReadKept(limit) ==
  /\ Asked /\ scheme.ask = "kept"
  /\ LET size   == IF cursor.limit = 0 THEN limit ELSE cursor.limit
         before == (cursor.page - 1) * size
     IN \E k \in 0..Left(before, size) :
          /\ Filled(Left(before, size), k)
          /\ IF \/ cursor.total # 0 /\ Total # cursor.total
                \/ before + k > Total
                \/ before + k < Total /\ k # size
             THEN Refuse
             ELSE IF before + k < Total
                  THEN GoOn(Rows(before + 1, before + k),
                            [cursor EXCEPT !.page = cursor.page + 1, !.limit = size, !.total = Total])
                  ELSE EndPeriod(Rows(before + 1, before + k))
  /\ UNCHANGED <<catalog, history, slow>>

\* The first of some things, in an order that gives each its place.
Least(S, place, count) == {i \in S : Cardinality({j \in S : place[j] <= place[i]}) <= count}

\* The cloud goes on behind a token with what it has not listed before it, in
\* the order of its list.
Behind(token) == Range(List) \ token
Place         == [i \in Range(List) |-> CHOOSE n \in DOMAIN List : List[n] = i]

ReadSlice(limit) ==
  /\ Asked /\ scheme.ask = "slice"
  /\ LET rest  == Behind(cursor.token)
         whole == Least(rest, Place, UpstreamPage)
         end   == CutEnd(Cardinality(whole), limit)
         page  == Least(whole, Place, end) \ Least(whole, Place, cursor.offset)
     IN IF Outside(Cardinality(whole))
        THEN Refuse
        ELSE IF end < Cardinality(whole)
             THEN GoOn(page, [cursor EXCEPT !.offset = end])
             ELSE IF whole # rest
                  THEN GoOn(page, [cursor EXCEPT !.token = cursor.token \cup whole, !.offset = 0])
                  ELSE EndPeriod(page)
  /\ UNCHANGED <<catalog, history, short, slow>>

\* Any number of rows may come with a token, but a token behind none is the same.
\* A cursor bound to another page size is turned down, and may be used again.
ReadToken(limit) ==
  /\ Asked /\ scheme.ask = "token"
  /\ Has("bound") => cursor.limit \in {0, limit}
  /\ LET rest == Behind(cursor.token)
         left == Cardinality(rest)
         most == IF Has("loose") THEN left ELSE Smaller(limit, left)
     IN \E k \in Smaller(1, most)..most :
          IF k < left
          THEN GoOn(Least(rest, Place, k),
                    [cursor EXCEPT !.token = cursor.token \cup Least(rest, Place, k),
                                   !.limit = IF Has("bound") THEN limit ELSE 0])
          ELSE EndPeriod(rest)
  /\ UNCHANGED <<catalog, history, short, slow>>

\* The things whose ids come after the last one.
After(last) == {i \in Range(List) : rank[i] > last}

LastId(page) == rank[CHOOSE i \in page : \A j \in page : rank[j] <= rank[i]]

ReadIds(limit) ==
  /\ Asked /\ scheme.ask = "ids"
  /\ LET rest == After(cursor.last)
         full == Smaller(limit, Cardinality(rest))
     IN \E k \in IF Has("trusts") THEN 0..full ELSE {full} :
          LET page == Least(rest, rank, k)
          IN /\ Filled(full, k)
             /\ IF page # {} /\ (IF Has("trusts") THEN k = limit ELSE page # rest)
                THEN GoOn(page, [cursor EXCEPT !.last = LastId(page)])
                ELSE EndPeriod(page)
  /\ UNCHANGED <<catalog, history, slow>>

ReadWhole(limit) ==
  /\ Asked /\ scheme.ask = "whole"
  /\ EndPeriod(Range(List))
  /\ UNCHANGED <<catalog, history, short, slow>>

\* The results are those of the first request.  An unfinished job has no rows,
\* and the cursor to ask again names the job.
ReadJob(limit) ==
  /\ Asked /\ scheme.ask = "job"
  /\ \/ /\ cursor.token = {}
        /\ GoOn({}, [cursor EXCEPT !.page = 2])
        /\ slow' = (slow \/ cursor.page = 2)
     \/ /\ LET rest == first \ cursor.token
           IN \E page \in SUBSET rest :
                /\ Cardinality(page) = Smaller(limit, Cardinality(rest))
                /\ IF page # rest
                   THEN GoOn(page, [cursor EXCEPT !.page = 2, !.token = cursor.token \cup page])
                   ELSE EndPeriod(page)
        /\ slow' = slow
  /\ UNCHANGED <<catalog, history, short>>

Read == /\ turn' = ~turn
        /\ \E limit \in 1..MaxLimit :
             \/ ReadOffset(limit) \/ ReadPage(limit) \/ ReadKept(limit) \/ ReadSlice(limit)
             \/ ReadToken(limit) \/ ReadIds(limit) \/ ReadWhole(limit) \/ ReadJob(limit)

-----------------------------------------------------------------------------
CanChange == status = "listing" /\ changes < MaxChanges /\ changes' = changes + 1

\* A list with a thing put in before a row, and a list without one of its rows.
With(s, m, i) == [n \in 1..Len(s) + 1 |-> IF n < m THEN s[n] ELSE IF n = m THEN i ELSE s[n - 1]]
Without(s, m) == [n \in 1..Len(s) - 1 |-> IF n < m THEN s[n] ELSE s[n + 1]]

\* Something new is listed anywhere in a period.
Create == /\ CanChange
          /\ \E i \in Things \ (Now \cup first \cup created),
                p \in 1..(IF Has("periods") THEN Periods ELSE 1) :
               /\ \E m \in 1..Len(listed[p]) + 1 : listed' = [listed EXCEPT ![p] = With(@, m, i)]
               /\ created' = created \cup {i}
          /\ UNCHANGED <<scheme, rank, cursor, status, times, first, deleted, restarted, short, slow, turn>>

Delete == /\ CanChange
          /\ \E p \in 1..Periods : \E m \in DOMAIN listed[p] : listed' = [listed EXCEPT ![p] = Without(@, m)]
          /\ deleted' = TRUE
          /\ UNCHANGED <<scheme, rank, cursor, status, times, first, created, restarted, short, slow, turn>>

\* Another process makes other references, and where the last of the old ones
\* falls among them is chance.  All other ids stay what they are.
Restart == /\ CanChange
           /\ restarted' = TRUE
           /\ IF Has("hashed")
              THEN /\ rank' \in Orders
                   /\ \E last \in 0..Cardinality(Things) : cursor' = [cursor EXCEPT !.last = last]
              ELSE UNCHANGED <<rank, cursor>>
           /\ UNCHANGED <<scheme, listed, status, times, first, created, deleted, short, slow, turn>>

Done == status \in {"complete", "refused"} /\ UNCHANGED listingVars

ListingNext == Read \/ Create \/ Delete \/ Restart \/ Done

\* The client asks for the next page until there is none.
ListingSpec == ListingInit /\ [][ListingNext]_listingVars /\ WF_listingVars(Read)
-----------------------------------------------------------------------------
ListingCursors == [period : 1..Periods, page : Nat \ {0}, offset : Nat, last : Nat, total : Nat, limit : Nat,
            token : SUBSET Things]

ListingTypeOK ==
  /\ scheme \in Numbered \cup Checked \cup Keyed
  /\ listed \in [1..Periods -> Seq(Things)] /\ rank \in [Things -> Things]
  /\ cursor \in ListingCursors
  /\ status \in {"started", "listing", "complete", "refused"}
  /\ times \in [Things -> Nat] /\ first \subseteq Things /\ created \subseteq Things
  /\ {deleted, restarted, short, slow, turn} \subseteq BOOLEAN /\ changes \in 0..MaxChanges

\* What was there all the time was returned once.
SurvivorsOnce == \A i \in first \cap Now : times[i] = 1

(* A listing that ends without an error has returned what was there all the   *)
(* time, and returned it once.  How much this takes depends on the adapter:   *)
(* with tokens and ids it holds whatever is created and deleted on the way    *)
(* (docs/tools.md:224 and 244 warn of the others), with a checked total it    *)
(* takes a creation and a deletion to miss or repeat anything, and otherwise  *)
(* any one of them, or a short page where the adapter does not look at it.    *)
(* References made with the key of the process keep neither order nor place   *)
(* over a restart.                                                            *)
CompleteIsComplete ==
  status = "complete" =>
    \/ SurvivorsOnce
    \/ scheme \in Numbered /\ (created # {} \/ deleted)
    \/ scheme \in Checked /\ created # {} /\ deleted
    \/ short /\ scheme.ask \in {"offset", "page", "ids"}
             /\ scheme \notin {TencentNATRules, TencentNodes, HuaweiDCS} \cup Checked
    \/ restarted /\ scheme = TencentTargets

(* No listing is refused as inconsistent, changed or repeating if nothing was *)
(* created or deleted and the pages were full, whatever page sizes are asked  *)
(* for on the way (but for a cursor that is bound to its page size, which the *)
(* client may use again).  The exception is a job that is unfinished when it is *)
(* asked about a second time.                                                 *)
RefusedForAReason == status = "refused" => created # {} \/ deleted \/ short \/ slow

(* A client that goes on asking reaches the end of any listing or an error,   *)
(* however short the pages are, also when offsets or tokens do not get on.    *)
ListingEnds == <>(status \in {"complete", "refused"})
=============================================================================
