# A TLA+ model of mcpcloud

mcpcloud is a read-only MCP server over several clouds. A client sends a query in a small DSL
(`cloud_query`) or a single registered read (`cloud_native_read`); the engine plans a query onto
*targets* (profile × scope × region), reads them concurrently within budgets, joins the rows and
hands out the answer in pages, the later ones by cursor. `/readyz` and `mcpcloud probe` read a
little from every profile to see whether it can be used. A set of commands edits the configuration.

This directory models the parts of it where the order of events matters or where several layers
decide about the same thing: the engine's concurrency and accounting, the cursor store, the readiness
cache and the probe behind it, the configuration file and its writers, the planning of targets with
the filters of rows, and how the adapters of the seven clouds page through listings and put detail
reads together. Paths below are relative to `src/internal/` unless they say otherwise.

## 1. Inventory

| Component | State | Operations | Interacts with | What is hard | What makes it correct |
|---|---|---|---|---|---|
| Cursor store `engine/cursor.go` | map cursor → rest of a result, expiry; mutex | `Put` (evicts), `Next` (single use, re-stores), pruning | end of `Engine.Query`, `Engine.Next` | two bounds, expiry, reuse, re-store without eviction | bounds hold; rows neither repeat nor get lost while the cursor lives |
| Readiness coordinator `probe/readiness.go` | cached report, expiry, `refreshing`, wait channel; mutex | `Current` | `/readyz` handlers; probe runner | single flight, wake-ups, canceled refresher, expiry counted from completion | one probe per lifetime, no caller asleep for ever, no stale answers |
| Target pager `engine/engine.go:173-241, 649-688` | rows, counters, tokens of one target | page loop, retry with backoff, metric selectors | adapters; results channel | untrusted page sizes and tokens, three budgets, retries, marks overwritten | budgets, termination, an incomplete result says so |
| Provider slots `engine.go:153-245, 370-375` | slot channel, results channel, wait group | goroutine start, acquire, give up, release, collect | pager; native reads; request deadlines | leaks, blocking on channels, starvation | bounded concurrency, no leak, every query answered |
| Query admission and answer `engine.go:132-152, 186-192, 246-328` | none beyond the call | admission, shares, joining, status | targets, pager, cursor store | rounding of shares, partial failures, several sources of truncation | shares add up, status and counts agree, "ok and not truncated" means complete, but for a mark that a pager lost |
| Row operations `engine.go:473-645, 690-723` | none | aggregate, sort, project | answer | mixed value types, missing fields | agree with a reference definition |
| Target planning, scope enforcement `engine.go:409-471`, `provider/scoped.go` | profile configuration | `targets`, `TargetRegions`, `ConfiguredScopesFor`, `Query`, the row filters | config, adapters | three layers decide about the same regions and scopes: wildcards, global things, nested scopes | nothing outside profile and query is returned; what is selected is found once |
| Native read `engine.go:345-397` | none | one page with retries | slots, adapters | repeated cursors | at most three requests, repeated cursor refused |
| Engine audit `engine/audit.go` | none | record | log | – | – |
| Probe runner `probe/probe.go` | none beyond the run | `Run`, `probeProfile` | native reads | pages per region, evidence and its cap, late failures | status follows from the evidence; a run ends |
| Configuration store `setup/files.go`, `plan.go`, `codex.go` | the file, its lock file, plan revisions | save, install, plan, apply | other processes, editors | lost updates, stale locks, deaths, five reads of one file | no edit is lost but in a known window, apply only what was planned |
| Wizard, doctor, requests, credentials `setup/` | none | interactive commands, `Diagnose` | configuration store, probe | doctor judges the probe's evidence by itself | doctor is ready exactly when the probe is |
| DSL `dsl/` | none | parse, validate, evaluate | engine | missing and mistyped values | – |
| Provider adapters: detail reads `providers/*_details.go`, `*_depth.go`, … | none | one function per read: several upstream calls, one row | cloud APIs | a name that means another thing at the next call; identity, region and owner checked in different ways | the row is of the thing that was asked for, within the profile; every call is counted; no row has a reason |
| Provider adapters: listings `providers/*` | none: the cursor carries what is needed | one page function per listing | cloud APIs, engine | cursors that adapters make up (offsets, pages, periods, ids, jobs), changes between pages, restarts | a complete listing is complete |
| MCP server `mcpserver/` | none | tools, `/readyz`, HTTP start and stop | engine, coordinator | deadlines, shutdown | – |
| Configuration loading `config/`, command line `src/cmd/mcpcloud`, `model/`, `buildinfo/`, `src/scripts` | none | – | – | – | – |

Calls: a handler of the MCP server calls `Engine.Query` with a deadline; `Query` plans and admits,
starts one goroutine per target (**ProviderSlots**), each of which reads its pages (**TargetPager**)
and sends one result (**TargetOutcome**); the caller joins them (**QueryAnswer**), returns the
first page and stores the rest (**CursorStore**); `Engine.Next` pages on. What the targets are and
which of their rows survive is **TargetPlanning**; what an adapter does for a page is **Listings**, for
a registered detail read **DetailReads**. Handlers of `/readyz` meet in the coordinator
(**ReadinessCoordinator**), which caches a run of the probe (**ProbeRunner**); doctor judges such a run
too. Init, configure and client-config meet at the file (**ConfigStore**).

## 2. Modules

| Module | What it is | Proofs | Model |
|---|---|---|---|
| `ResultStream` | abstract: what a caller may rely on when it pages through a result | | |
| `CursorStore` | the store with the two operations of the engine that use it; implements `ResultStream` | `CursorProofs` | `MCCursorStore` |
| `ReadinessCoordinator` | `Coordinator.Current` | `ReadinessCoordinatorProofs` | `MCReadinessCoordinator` |
| `TargetOutcome` | abstract: what a target may deliver | | |
| `TargetPager` | the goroutine of one target, with `readPageWithRetry`; delivers only a `TargetOutcome` | `TargetPagerProofs` | `MCTargetPager` |
| `SlotPool` | abstract: at most *Capacity* clients inside a provider | | |
| `ProviderSlots` | goroutines, slots, results channel, native reads; implements `SlotPool` | `ProviderProofs` | `MCProviderSlots` |
| `QueryAnswer` | admission, shares and collection; its targets deliver any `TargetOutcome` | `QueryAnswerProofs` | `MCQueryAnswer` |
| `TargetPlanning` | plan, refusals, what the cloud is asked, filters of rows | `TargetPlanningProofs` | `MCTargetPlanning` |
| `ConfigStore` | the configuration file, its lock and its writers | `ConfigStoreProofs` | `MCConfigStore` |
| `ProbeRunner` | `Run`, `probeProfile`, and the verdict of doctor | `ProbeRunnerProofs` | `MCProbeRunner` |
| `DetailReads` | 40 detail reads as plans that run under one engine | `ProviderProofs` | `MCDetailReads` |
| `Listings` | the paging of the listings as schemes of eight families | `CursorProofs` | `MCListings` |

`TargetOutcome` is the seam of an assume-guarantee argument: `DeliversOutcome` (checked and proved of
`TargetPager`) says that a target delivers nothing else, and `QueryAnswer` is checked and proved for
every target that keeps to it. Besides what the code sends (`ok`, `requests`, `scanned`, `rows`, `more`)
an outcome has two facts that only the model knows: `whole`, that no row the provider listed is missing,
and `lostMark`, that a listing before the last was broken off at a repeated token and nothing says so. In
the same way `ProviderSlots` only assumes that the pages of a target end, which is `Terminates` of
`TargetPager`.

Operators whose comment begins with "Mutant:" are variants of the definition below them, each with
a bug that is easy to make. Nothing uses them; substituted for the definition they show that a
property can fail (`PROJECT.json`, `mutants`).

### CursorStore

`entries` is the map of the store, each entry a pair of row bounds with page size and expiry; `issued`
numbers the cursors, which stand for the 24 random bytes of the code; `total`, `page` and `servedAt` are
what the callers know, and `used` is history: the cursors that were served. `Query` is the end of
`Engine.Query` (first page, `Put` with pruning and eviction), `NextPage` is `Engine.Next` with
`CursorStore.Next` (`Hit` or `Miss`), and `Tick` is the clock. Each operation holds the mutex throughout,
so each is one step. The eviction loop is described by what it leaves: the loop picks any of the
soonest-expiring entries (the order of a Go map) while the store is `Full`. A caller may present any
cursor ever issued, again and again, and in any order.

### ReadinessCoordinator

One step per critical section of `Current`; `pc` says where a caller is, and `chan` is its local
copy of the wait channel. Runner.Run happens between `StartRefresh` and `RunReturns` and is given
any outcome; errors are cached like reports. The clock is relative: `left` counts down to
`expires`, and the history variable `since` counts up from the last publication, so the model is
finite without a bound on time. Channel identities are reused once nobody refers to them, as memory
is; one per caller is enough.

### TargetPager

`sel`, `token`, `seen`, `requests`, `scanned`, `rows`, `next` are the variables of the loop, `spent` and
`allowed` those of `readPageWithRetry`; `calls`, `asked`, `complete`, `repeated` are history: `complete`
are the selectors that were listed to the end with every row kept, however much the provider says that it
scanned for them, and `repeated` those broken off at a repeated token. The provider answers with any
number of rows and scanned items, any token, any cost, or any error, whatever it was asked for. Rows are
counted and not represented: nothing in the goroutine looks into them. The audit observer is left out.

### ProviderSlots

`task[q][i]` is the position of a goroutine: waiting in its `select` ("want"), inside the provider
("reading"), with its result sent and its slot not yet released ("sent"), released, or signalled
("done"). The two deferred calls are two steps, in Go's order. Reading the pages is the interval
"reading". A caller of `Query` comes back for another query after each answer.

### QueryAnswer

The collector adds up counters and joins flags, in whatever order results come, so the results
channel is represented by the sum of what was sent. Which rows match, whether the filter fails on
some, and how many groups they make is chosen freely within what the code can produce (`Sifted`,
`Summarized`). `several` of a plan says that it has a listing for each of several metric selectors, which is
what it takes to lose a mark. `count` in the answer is the number of rows before the limit is applied.

### TargetPlanning

`profile` is any profile: provider, regions, the first of them (Huawei reads it), exact and parent
scopes, GCP's `asset_scope`. A query is planned (`Plan`: `Engine.targets` with `TargetRegions` and
`ConfiguredScopesFor`, and the check of the number of targets), its targets are read to their ends
(`Read`), and it is answered. `found` counts how many targets return a thing. Planning covers every
source; reading covers `resources` and `iam`, where rows are things that have a place of their own.
`Rows` composes the four places that decide: the refusals of the scoped adapter, what the provider's
adapter asks the cloud for (`ListsRegion`, `ListsScope`), the filter of the scoped adapter
(`RowScopeAllowed`, `RegionAllowed`) and that of the engine (`RowMatchesRegions`). The selection of
services (which is in `ProbeRunner` and `DetailReads`), Tencent's direct mode and capitals in names of
regions are left out; the last are in `DetailReads`.

### ConfigStore

`file` is the set of entries of one file, or its absence; `seen` is what a process has read (or, for
configure, hashed) and will compare with; `reviewed` are the contents its latest preview was made from.
`pc` runs through the reads, comparisons and the rename of `saveProfile` (init, and configure `--apply`)
or `InstallCodex`, each a step, because another process, an editor that ignores the lock (`Edit`) or
death (`Crash`) may come between any two. `disturbed` is history: the editor has written since the
process read, or since it compared. An entry is its name and its author. `RemoveDeadLock` is the person
who deletes a lock file that no process owns.

### ProbeRunner

One step per page (`ReadPage`), with the filter of rows by service, region and scope (`FilterRows`), the
cap on kept values (`Merged`, `MaxScopes` instead of 64), the evidence, and the four ways on: the profile
is verified, next page, next region, last region. Profiles are read in the order of their names, regions
in any order. A row is its scope, the names its service goes by (service and domain) and its region; the
provider answers with any page of rows, any token, or an error. `mode` says whether the probe or doctor
reports: `Diagnose` makes its own verdict of the same results. `seen` is history: all rows that the
provider returned, before the filter.

### DetailReads

Each adapter function is a plan: data that say how the request is addressed, which calls are made, what
confines the answer of each (address, endpoint or credentials), which fields of it are compared, where
the region of the row comes from (the place asked for, the region a zone is in, or the first answer), whether
it makes one row or one for each part, of which there may be none (`EachPart`: objects, nodes, pods, node
pools, backend health), and what the page reports as requests. One machine runs all plans as
`NativeReadWithID` and the scoped adapter do, with retries from the beginning and errors that are
charged. `thing` is what the name means in the cloud at present: `Move` deletes it or gives its name to
another between two calls; `held` and `built` (rows made before the filter) are history. `Finish` filters
the rows by service (`served` of a profile says whether its list names the service), region and scope. The
model assumes that GKE gives a zonal cluster its zone as its location, and that a zone's name is its region's
with one part more. A table beside an interpreter keeps forty functions
comparable: what a plan leaves out (a comparison, a confinement) is visible at a glance.

### Listings

A listing keeps no state in the process, only a cursor. A scheme names for each listing what the cloud
is asked for ("offset", "page", "kept", "slice", "token", "ids", "whole", "job") and the checks it
makes; the actions are the families. The client asks for pages of any size on the way, as the engine
does when its budget shrinks; things are created and deleted, pages come back short, the process
restarts. A repeated cursor is an error, as `NativeReadWithID` has it (`engine.go:381`); in a query the target
pager stops there with a mark instead (`engine.go:228`), which is in `TargetPager`. Metrics of Huawei and
Volcengine are left out: they are read in windows of time (`providers/huawei_sources.go:65-132`), and whether a
point between two windows is in one of them or in both is up to the cloud.

## 3. Runs

| Run | Distinct states | Properties | Bounds, and why they are enough |
|---|---|---|---|
| `cursor_store` | 203,768 | `TypeOK`, `WithinCount`, `WithinRows`, `SingleUse`, `LostOnlyUnderPressure`, `StreamSpec` | three results compete for two entries and three rows, so that either bound alone forces an eviction and one eviction may not suffice; time runs past a lifetime after a renewal |
| `readiness` | 19,359 | `SingleFlight`, `NoLostWakeup`, `ProbesAreSpaced`, `AnswersAreFresh`, `OnlyExpiryStarves` | a refresher and two waiters, of which one may still hold an older channel; a lifetime of two ticks has a fresh, a last and an expired tick |
| `target_pager` | 47,900 | `TypeOK`, `CallBudget`, `NoFalseAlarm`, `DeliversOutcome`, `NoPageTwice`, `Terminates` | two selectors; two tokens, so that cycles of one and two occur; pages that exceed each budget; a page whose scanned items exceed the share although its rows are kept; five requests, so that retries (three attempts) exhaust what pages leave |
| `pager_request_budget` | – | `RequestBudget` (violated) | as above |
| `provider_slots` | 23,521 | `RoomForResults`, `NothingHeldAfterAnswer`, `PoolSpec`, `QueriesAreAnswered` | two queries of one or two targets and two native reads want six places and there are two |
| `query_answer` | 1,506,777 | `BudgetsAddUp`, `CoverageAndStatus`, `CompleteUnlessSaid` | three requests and four items divided over one to three targets, evenly and not; a fourth and a fifth target are refused by different checks; limits below and above what is found; one and several listings per target |
| `target_planning` | 854,945 | `NothingOutside`, `FoundOnce`, `PlansAreAskable` | two regions, global and regionless places, two leaves under one parent: enough for a wildcard beside an exact region, a nested scope, an account outside the profile, and a plan larger than `MaxTargets`; queries name up to two regions and two scopes |
| `config_store` | 180,826 | `OneInside`, `UndisturbedSaveAdds`, `OnlyLateEditsAreLost`, `AppliedAsPlanned`, `LocksAreReturned` | apply against init, and two installs, of the same name; `MaxEdits = 2` is an edit and its undoing, in any two gaps |
| `probe_runner` | 290,436 | `ReadyIffSeen`, `RunEnds` | one profile of any configuration and a second that shifts the report; one value is kept, so that the cap bites at the second; two pages per region and two regions; two tokens, so that a page may repeat its own; pages of up to two of four rows (`Pages`), which between them are of a service, region or scope that the profile leaves out |
| `probe_verdict` | – | `AuthenticatedIsReachable` (violated) | as above |
| `detail_reads` | 1,066,230 | `RowIsOfTheAsked`, `CallsAreCounted`, `EmptyForAReason` | all 40 plans; two regions, one of them in two spellings, a zone in each, and global; profiles whose services leave out what is read; every way to configure a scope; the thing moves once per read, in any gap; three requests, so that retries run out |
| `listings` | 224,506 | `CompleteIsComplete`, `RefusedForAReason`, `ListingEnds` | 42 schemes; three things on pages of one or two, cloud pages of two, two periods; two changes, so that a creation and a deletion can cancel out in a total |

`TypeOK` is checked in `cursor_store` and `target_pager`; for every module that has proofs it is a
theorem. In `cursor_store` deadlock is not checked: with the clock at its bound and everything expired
callers may simply stop. All other models run for ever or stutter explicitly once they are done.

The model bounds are `MaxTime` (the clock of the cursor store), `MaxSkipped` (profiles that cannot be
planned) and, for the provider's freedom, `MaxRows`, `MaxScan`, `MaxCost` and `Tokens`; in the other
modules `MaxEdits` (edits by hand), `MaxMoves` and `MaxChanges` (what happens in the cloud during a
read), `MaxParts` (follow-up pages of a detail read; 20 or 100 in the code), `MaxListed`, `MaxLimit`,
`UpstreamPage` and `Periods` (the size of listings and their pages). `MaxScopes`, `MaxPages`,
`MaxRequests` and `MaxTargets` are limits of the code, made small so that they are reached. `Limit` with
`Limit <= MaxRows` is the code's own: the DSL allows 50,000 rows at most (`dsl/validate.go:12`) and the
store holds 50,000 (`engine/cursor.go:33`). Without it a single result would not fit.

### What the runs say

* The store is within both bounds although `Next` re-stores without eviction, because a continuation
  replaces a larger one. A live cursor is lost only when a bound forces it and never before one that
  expires sooner.
* A cursor is served once, and then it is gone for good: presented again it is a miss (`SingleUse`).
* One probe at a time and at most one per lifetime counted from completion, even when the caller
  that started it is gone. A caller is not promised an answer: a report may be published and expire
  before a waiter looks. `OnlyExpiryStarves` says that this is the only way.
* The mark of a target's result is not exact in either direction. It is lost when a selector stops on a
  repeated token and a later selector's page replaces the mark by its own empty token (`engine.go:224,
  228`). It is there although nothing is missing when the provider says that it scanned more items for
  the last page than the share had left (`engine.go:225-227` sets it for the number of scanned items
  alone). The run reaches both; `DeliversOutcome` and `NoFalseAlarm` say that there is no other case.
* `status = "ok"` with `truncated = false` implies that all resulting rows are returned and that every planned
  target, and every profile that should have been planned, delivered its complete listing, with one exception:
  the lost mark above, which takes a query for several metric selectors and a provider that repeats tokens.
* Rows never leave the selection. `NothingOutside` holds although Alibaba, Tencent and Volcengine list
  the accounts of a whole organization and a wildcard target lists every region: the two filters make up
  for it. `PlansAreAskable`: a plan made from the profile is refused only for an account that the query named
  or for a GCP profile without a scope.
* `FoundOnce` lists what an answer without failed targets can miss or repeat, and TLC finds no other
  case. Missed: regionless things, and global ones that no target asks for, when regions are configured
  (only Azure and GCP add a global target, and only for `resources`); all but one region of a Huawei profile
  with no region or `*` (`providers/huawei.go:172-178` falls back to the first, or cn-north-4); all rows of a
  Huawei profile configured by account instead of project (`setup/request.go:138` accepts it, and a row has no
  account to compare). Repeated: things in nested GCP scopes, and things in a region that the query names
  beside `*`.
* A save adds its entry and loses nothing, among processes that interleave and die, as long as nobody
  edits by hand in between. An edit between the last comparison (`setup/files.go:144`) and the rename is lost,
  which any scheme without a lock common to both would allow. An edit made after `files.go:27` and undone
  before `files.go:144` leaves no trace, although the file that was validated (`files.go:35`) was
  another one. A process that dies inside leaves its lock, and saves fail until it is removed by hand.
* The probe says ready exactly for a profile whose unique scope was seen in a row of its services and
  regions, and doctor agrees about *ready*. With a list of services the scope may well be in rows that
  were read and dropped: the profile is then reached and not ready. Probe and doctor differ below that: an error on a
  later page leaves the probe with `not_ready` and doctor, which looks at `Authenticated` and not at the
  status, with `degraded`.
* A row of a detail read is of the thing asked for, if the name did not change its meaning during the
  read; if it did, parts may be of two things, each of which had the name. Three reads rest on one confinement
  alone: the configuration calls of TOS name no owner in their answers (only the credentials confine them), a
  GCP location in the params is compared with the rows and not before the call, and `asset_scope = projects/…` is
  not accepted by storage, node pools, nodes, pods and objects where the other GCP reads accept it.
  An answer without a row and without an error has one of four reasons (`EmptyForAReason`): there are none of
  the parts that are listed; the profile's services leave them out; the thing is in a region that the profile
  does not name, or spells with other capitals; or it is the storage of an OBS bucket and the Huawei profile has an
  account and no project (the row is keyed as of a project, `providers/huawei_obs.go:241`, and the filter compares
  accounts, `provider/scoped.go:285`, so it is always dropped).
* A listing that ends without an error holds what was there all the time exactly once, when tokens or ids
  are used. With counted offsets one creation or deletion is enough to miss or repeat a row, with a
  checked total it takes one of each. Huawei costs, Volcengine costs and Huawei VPC take a short page for
  a full one. References of Tencent targets are hashed with a key of the process and a restart reorders
  them. Volcengine VKE and network refuse an offset that fell out of its page where the cost
  listings of Alibaba and Tencent go on with the next. A BigQuery job unfinished at its second poll ends the
  listing, as its cursor is the one it already had.
* **Divergence.** `docs/dsl.md:151` says that the service enforces a bound on provider requests. The
  engine compares before a call and charges what the call cost afterwards, and some adapters make
  several requests per call, so the bound can be overshot by less than one call per target
  (`RequestBudget` is violated; `RequestOvershoot` and `BudgetsAddUp` are the bounds that hold).
* **Divergence.** `README.md:101` says that "any authenticated but incomplete evidence yields `degraded`". When a
  later page or region fails, the profile keeps the `not_ready` it began with (`probe/probe.go:127, 150`;
  `AuthenticatedIsReachable` is violated).
* Read on the way, and outside the models: the probe asks for 100 rows, so with `limits.max_page_size` below
  100 no profile is ever ready (`probe/probe.go:145`, `engine.go:353`); ten pages are allowed per region, not per
  profile; the delay between retries is computed as `100 << (requests-1)` milliseconds before it is cut to a
  second (`engine.go:676`), which overflows after 37 requests of one page and is zero from the 57th on, so that the
  rest of a large share (up to 500) is spent without a pause.

### Fairness

* `ReadinessCoordinator`: weak fairness of each caller's own steps. The Go scheduler runs what can
  run, a `select` with a closed channel returns, and Run is given its own deadline
  (`readiness.go:68`). Nobody has to call or to cancel, and the clock need not advance.
* `TargetPager`: weak fairness of the goroutine. Timers fire, and adapter calls return because they
  are given the query's context, which has a deadline.
* `ProviderSlots`: weak fairness of goroutines and of each query's deadline
  (`mcpserver/server.go:163`); nothing is assumed of native reads.
* `ConfigStore`: weak fairness of each process inside a save (`Save`), which is a sequence of file operations
  without waiting. Nothing is assumed of the person at the wizard, of configure, of the editor, or of whoever
  removes a dead lock; a process may die instead of going on.
* `ProbeRunner`: weak fairness of the run: every read ends with an answer or by the deadline of the run.
* `Listings`: weak fairness of `Read`: the client goes on asking. Changes need not happen.
* `CursorStore`, `QueryAnswer`, `TargetPlanning` and `DetailReads` make no liveness claim.

## 4. Proofs

All theorems hold for every value of the constants that satisfies the module's named assumption, which
restates what `config/` and the constructors enforce. Each proof module defines an inductive invariant
(`IInv`; `DetailIInv` for the detail reads, `ListingIInv` for the listings), proves that the initial
states satisfy it and every step preserves it (one lemma per action or group of actions), and derives the
properties from it. The library's induction theorems take an operator as parameter, which the provers
cannot instantiate; where an argument is an induction over a finite set, it is written as a smallest
counterexample.

* **CursorProofs, cursor store.** `CursorIsTheRest` is almost inductive: it needs `TypeOK`, that pages
  which announce a cursor name an issued one, and that what is stored of a result expires one lifetime
  after its page. Then `Next` removes an entry before it adds one and `Put` evicts below the bound, which
  gives `WithinCount` with the finiteness of the store. `CursorsAreSingleUse` keeps `used` apart from
  what is stored: a served cursor is taken out in the step that serves it, and a new one has not been
  issued before. The rows of the store are a fold over a finite set; that taking one entry out subtracts
  its rows (`RowsRemove`), that agreeing entries have equal sums and that a larger set has no smaller sum
  are proved once, on sets by smallest counterexample. With them `RowBound` is `WithinRows` (the rest
  stored by `Next` is no larger than what it replaces) and `PressureAlone` is `LostOnlyUnderPressure`
  (with one of the evicted entries more the store would have been full: `EvictionIsForced`).
  `StoreImplementsStream` maps each operation to `Open`, `Continue` or a stutter.
* **CursorProofs, listings.** `CompleteIsComplete` only speaks of the end, so the invariant says for each
  family what the cursor stands for on the way (`Progress`): the things in the rows up to the offset, in
  the pages before the page and the rows up to the offset within it, behind the token, or with ids up to
  the last one have been returned once, and no others of those that were there all the time (`Returned`).
  For tokens and ids this is unconditional but for a restart or a page that was trusted to be full; for
  offsets and pages it holds while nothing has changed, and for the schemes that compare a total
  `TotalTells` carries it on: a creation alone makes the total larger, a deletion alone smaller, so equal
  totals mean neither or both. Such pages are rows that continue the earlier ones (`RowsSplit`) and hold
  none of them (`RowsApart`, `BeforeApart`), which is what `PageReturned` needs. A refusal without a
  reason is excluded by the same facts: the offset lies before the total, and a cursor that has moved on
  is not the last one again. `SchemesAreWellKept` proves scheme by scheme which traits occur with which
  family. `CompleteListings` and `RefusalsHaveReasons` are the two invariants of the run for any things,
  lists, page sizes, periods and changes. The references made with the key of the process are assumed to
  differ for different addresses (`OrdersAssumption`): they are 256 bits of a keyed hash.
* **ReadinessCoordinatorProofs.** `SingleFlight`, `NoLostWakeup` and `ExpiryFromCompletion` together
  with the shape of the local variables are inductive; a channel is reused only when no waiter refers
  to it, so reopening one takes nobody's wake-up away. `ProbesAreSpaced` and `AnswersAreFresh` follow
  from `left + since = TTL`.
* **TargetPagerProofs.** The invariant relates the counters to the budgets at each position of the
  goroutine, and `next` to the selectors completed, broken off, or cut. `MarksAreHonest` rests on what a mark can
  come from once every selector is complete, `CompletionIsHonest` on the last selector having ended last.
  `CallBudgetHolds` needs that each call costs at least one
  request and that what is spent in a retry stays below the allowance. `OneRequestPerCall` proves
  the documented request bound under the additional assumption `MaxCost = 1`.
* **ProviderProofs, slots.** The invariant ties the counters to the cardinality of sets of goroutines; the
  lemmas are about adding and removing one element. `SlotsImplementPool` is the refinement of
  `SlotPool`.
* **ProviderProofs, detail reads.** `WellMade` is what the forty plans have in common, proved plan by
  plan: what a list holds is looked for by its id, some answer is confined to our scope or compared with
  it and, where the row is labelled with the region asked for, some answer with that region, and the
  requests are counted or every call is made once. The invariant says what the calls made so far have
  told about the parts of the row (`Known`) and how many of them there are (`Tally`), while the request
  stays as it was begun (`Reading`). `RowsAreOfTheAsked`, `CallsAreReported` and `EmptyHasAReason` are
  the three invariants of the run, for any regions, zones, profiles, budgets of retries, follow-up pages
  and changes in the cloud. `FinishElsewhere` is what the last needs
  of the filter of regions: it drops a row only if the thing was where the profile does not name.
* **QueryAnswerProofs.** The sum of what was delivered is bounded by the number delivered times the share,
  which needs a little arithmetic on division (`n * (B \div n) <= B`, and the share raised to one when the
  quotient is zero, which admission rules out). `OkMeansComplete` carries through the sum that what is not
  whole is marked or has lost its mark, and that only a plan with several listings loses one.

* **ConfigStoreProofs.** `IInv` adds to `TypeOK` and `OneInside` what each process knows (`Known`): while
  nobody has edited since it read, the file is still what it saw, and once it has loaded the file its name is
  not in it. Only the owner of the lock renames, so another process's step keeps this; the editor's step voids
  the premise. `UndisturbedSaveAdds`, `OnlyLateEditsAreLost` and `AppliedAsPlanned` follow from `IInv` at a rename.
* **TargetPlanningProofs.** `IInv` is `TypeOK` and `Planned` (targets and counts are those of the query
  at hand). A row was let through by some target, so the proof follows that target's scope from the plan
  to the filter: named by the query, configured, or empty, and what each filter then guarantees
  (`RowsAreInside`). `SelectedIsFound` is the half of `FoundOnce` that says what is missed: for each
  selected thing it exhibits a region and a scope whose target lists it. `SelectedIsFoundOnce` is the
  whole of it: that what the three exceptions name is indeed missed, and that a thing is found again
  exactly when two of the scopes hold it or its region is asked for beside `*`. `PlansPassTheirChecks` is
  `PlansAreAskable`.
* **ProbeRunnerProofs.** While a profile is pending nothing of its unique scope has been kept (`Open`):
  so the cap cannot have squeezed the value out, and the page that brings it decides at once
  (`PageDecides`). A profile that is done is `Judged`. `ReadyMeansSeen` is `ReadyIffSeen` for any number
  of profiles, scopes, services and kept values: what counts as seen are the rows that the filter leaves.

Model-checked only: liveness, which is outside what the provers handle under fairness:
`OnlyExpiryStarves`, `Terminates`, `QueriesAreAnswered`, `LocksAreReturned`, `RunEnds`, `ListingEnds`. Every safety
invariant and action property that a passing run checks is also a theorem.

## 5. Not modelled

Contents of rows, names, error texts and audit records; encoding of cursors and of MCP messages; the
translation to and from cloud SDKs, request signing and credentials; parsing and evaluation of the DSL;
loading of the configuration (its ranges are the assumptions of the modules); the values that aggregation
and sorting work on. These are pure functions or input and output without state of their own.
`PROJECT.json` says of each component what of it is left out, and notes the hazards that no property covers:
a response lost after its cursor was used (documented), the order of mixed sort values, the overflow of the
retry delay (the models have no durations), a job that is slow twice, an edit that is undone between two reads
of one save, shutdown of the HTTP server. Of listings, the time windows of Huawei's and Volcengine's metrics are
not modelled. That the lock of a dead process stays is a step of the model (`Crash`, `RemoveDeadLock`), not a
property.

## 6. Plan

Done: the engine's core, cursor store and readiness cache; configuration store; probe runner; planning
and scope enforcement; adapters' paging and detail reads. Left, in order of what matters most:

1. Compositions: `ReadinessCoordinator` over `ProbeRunner` (what is cached is a real run), `ProviderSlots` over
   `TargetPager` with `NothingHeldAfterAnswer` lifted to it.
2. `RowOps`: comparison, stable sort and aggregation on missing and mistyped values against reference
   definitions over bounded inputs.
3. Metric and cost rows through the filters of `TargetPlanning`; HTTP shutdown; evaluation of filters.
