--------------------------- MODULE TargetPlanning ---------------------------
(***************************************************************************)
(* From a query and a profile to rows: Engine.targets (engine/engine.go)    *)
(* with TargetRegions and ConfiguredScopesFor of the scoped adapter         *)
(* (provider/scoped.go) decide which regions and scopes of the cloud are    *)
(* asked; the scoped adapter refuses what is outside the profile, asks the  *)
(* provider's adapter, and drops rows; the engine drops rows of regions     *)
(* that were not asked for.  Three layers decide about the same regions and *)
(* scopes, each in its own way.                                             *)
(*                                                                          *)
(* A scope is a leaf (an account; for GCP and Huawei a project; for Azure a *)
(* subscription) or the parent that holds it (a GCP organization or folder, *)
(* a Huawei account).  Lists without duplicates are sets: the parser and    *)
(* config.Load reject duplicates.  The first region of a profile is kept    *)
(* because the Huawei adapter reads it.                                     *)
(***************************************************************************)
EXTENDS Naturals, FiniteSets

CONSTANTS Regions,        \* exact region identifiers
          DefaultRegion,  \* cn-north-4
          Leaves, Parents,
          Holder,         \* the parent of a leaf
          MaxTargets,     \* limits.max_targets
          AskedQueries    \* the queries that are sent

Wildcards == {"global", "*"}

ASSUME PlanningAssumption ==
  /\ DefaultRegion \in Regions
  /\ Regions \cap ({""} \cup Wildcards) = {}
  /\ Leaves \cap Parents = {}
  /\ "" \notin Leaves \cup Parents
  /\ Holder \in [Leaves -> Parents]
  /\ MaxTargets \in Nat \ {0}
  /\ IsFiniteSet(Regions) /\ IsFiniteSet(Leaves) /\ IsFiniteSet(Parents)

Providers == {"aws", "gcp", "azure", "alibaba", "huawei", "tencent", "volcengine"}
Inventory == {"resources", "iam"}
Sources == Inventory \cup {"metrics", "costs"}

\* What exists: something in every place, global and regionless ones included.
Things == [region: Regions \cup {"global", ""}, leaf: Leaves]

\* Only GCP and Huawei know parents, only GCP the option asset_scope.
Profiles ==
  {p \in [provider: Providers, regions: SUBSET (Regions \cup Wildcards), first: Regions \cup Wildcards \cup {""},
          leaves: SUBSET Leaves, parents: SUBSET Parents, asset: Leaves \cup Parents \cup {""}] :
     /\ IF p.regions = {} THEN p.first = "" ELSE p.first \in p.regions
     /\ p.provider \notin {"gcp", "huawei"} => p.parents = {}
     /\ p.provider # "gcp" => p.asset = ""}

Queries == [source: Sources, regions: SUBSET (Regions \cup Wildcards), accounts: SUBSET (Leaves \cup Parents)]

ASSUME QueriesAssumption == AskedQueries \subseteq Queries

VARIABLES profile, query, phase, targets, found
vars == <<profile, query, phase, targets, found>>

NoQuery == [source |-> "resources", regions |-> {}, accounts |-> {}]
NothingFound == [x \in Things |-> 0]

(***************************************************************************)
(* What the profile allows and configures.                                  *)
(***************************************************************************)
AnyRegion(p) == p.regions = {} \/ "*" \in p.regions

\* validateRegion of a request and rowRegionAllowed of a row agree.
RegionAllowed(p, region) == region \in {"", "global"} \/ AnyRegion(p) \/ region \in p.regions

ConfiguredScopes(p, source) ==
  CASE p.provider = "gcp" ->
         IF source \in Inventory THEN ({p.asset} \ {""}) \cup p.parents \cup p.leaves
                                 ELSE ({p.asset} \cap Leaves) \cup p.leaves
    [] p.provider = "huawei" ->
         IF source = "costs" \/ (source \in Inventory /\ p.leaves = {}) THEN p.parents ELSE p.leaves
    [] OTHER -> p.leaves

\* Sources that are asked once, whatever the regions.
AskedOnce(p, source) ==
  \/ source = "costs"
  \/ source = "iam" /\ p.provider \in {"aws", "azure", "gcp"}
  \/ source = "metrics" /\ p.provider = "gcp"

NeedsExactRegion(p, source) == source = "metrics" /\ p.provider \in {"azure", "tencent"}

\* Mutant: global things are nowhere asked for.
AddsGlobalNever(p, q) == FALSE

\* Global things are asked for beside the configured regions.
AddsGlobal(p, q) ==
  q.source = "resources" /\ q.regions = {} /\ ~AnyRegion(p) /\ p.provider \in {"azure", "gcp"}

RegionsWanted(p, q) ==
  LET configured == IF AnyRegion(p) /\ ~NeedsExactRegion(p, q.source) THEN {} ELSE p.regions
      asked == IF q.regions = {} THEN configured ELSE q.regions
      global == IF AddsGlobal(p, q) THEN {"global"} ELSE {}
  IN (asked \cup global) \ (IF NeedsExactRegion(p, q.source) THEN {"*"} ELSE {})

TargetRegions(p, q) ==
  IF AskedOnce(p, q.source) \/ RegionsWanted(p, q) = {} THEN {""} ELSE RegionsWanted(p, q)

Plannable(p, q) ==
  /\ \A r \in q.regions : RegionAllowed(p, r)
  /\ NeedsExactRegion(p, q.source) => RegionsWanted(p, q) # {}

\* Mutant: the scopes are those of resources, whatever the source.
TargetScopesOfResources(p, q) ==
  LET configured == ConfiguredScopes(p, "resources")
  IN IF q.accounts # {} THEN q.accounts ELSE IF configured # {} THEN configured ELSE {""}

TargetScopes(p, q) ==
  LET configured == ConfiguredScopes(p, q.source)
  IN CASE q.accounts # {} -> q.accounts
       [] q.accounts = {} /\ configured # {} -> configured
       [] OTHER -> {""}

TargetSpace == [region: Regions \cup Wildcards \cup {""}, scope: Leaves \cup Parents \cup {""}]

Targets(p, q) == [region: TargetRegions(p, q), scope: TargetScopes(p, q)]

(***************************************************************************)
(* Reading one target: the refusals of the scoped adapter and, for GCP, of  *)
(* the adapter, which needs a scope; what the cloud is asked for; the rows  *)
(* that pass the filters.                                                   *)
(***************************************************************************)
\* Mutant: the rows of a target are filtered by the scopes of the profile.
ScopeIDsOfProfile(p, source, scope) == ConfiguredScopes(p, source)

ScopeIDs(p, source, scope) == IF scope = "" THEN ConfiguredScopes(p, source) ELSE {scope}

Refused(p, source, t) ==
  LET configured == ConfiguredScopes(p, source)
  IN \/ ~RegionAllowed(p, t.region)
     \/ t.scope # "" /\ configured # {} /\ t.scope \notin configured
     \/ p.provider = "gcp" /\ configured = {}

\* Where a thing is; a parent is a scope for GCP and Huawei only.
Within(p, scope, x) == scope = x.leaf \/ (p.provider \in {"gcp", "huawei"} /\ scope = Holder[x.leaf])

\* The Huawei adapter never asks for all regions.
ListsRegion(p, region, x) ==
  CASE region \notin {"", "*"} -> x.region = region
    [] region \in {"", "*"} /\ p.provider = "huawei" ->
         x.region = IF p.first \in {"", "*"} THEN DefaultRegion ELSE p.first
    [] OTHER -> TRUE

\* Alibaba, Tencent and Volcengine list the accounts of a whole organization.
ListsScope(p, ids, x) ==
  CASE ids = {} \/ p.provider \in {"alibaba", "tencent", "volcengine"} -> TRUE
    [] ids # {} /\ p.provider = "gcp" -> \E id \in ids : Within(p, id, x)
    [] OTHER -> x.leaf \in ids

\* scopeKeys: rows of GCP name project, organization and folders, those of the others only their leaf.
\* A Huawei row is compared by its account, which it does not have, unless projects are configured.
RowIsOf(p, id, x) ==
  CASE p.provider = "gcp" -> Within(p, id, x)
    [] p.provider = "huawei" -> id = x.leaf /\ p.leaves # {}
    [] OTHER -> id = x.leaf

RowScopeAllowed(p, ids, x) == ids = {} \/ \E id \in ids : RowIsOf(p, id, x)

\* Bindings of GCP have no region.
RowRegion(p, source, x) == IF p.provider = "gcp" /\ source = "iam" THEN "" ELSE x.region

RowMatchesRegions(q, region) == q.regions = {} \/ "*" \in q.regions \/ region \in q.regions

Rows(p, q, t) ==
  LET ids == ScopeIDs(p, q.source, t.scope)
  IN {x \in Things :
        /\ ~Refused(p, q.source, t)
        /\ ListsRegion(p, t.region, x) /\ ListsScope(p, ids, x)
        /\ RegionAllowed(p, RowRegion(p, q.source, x)) /\ RowScopeAllowed(p, ids, x)
        /\ RowMatchesRegions(q, RowRegion(p, q.source, x))}

(***************************************************************************)
(* A server with one profile is sent queries.                               *)
(***************************************************************************)
Init ==
  /\ profile \in Profiles
  /\ query = NoQuery /\ phase = "idle" /\ targets = {} /\ found = NothingFound

\* Engine.targets, and the check of its length in validateTargetBudget.
Plan(q) ==
  LET planned == IF Plannable(profile, q) THEN Targets(profile, q) ELSE {}
  IN /\ phase = "idle"
     /\ query' = q
     /\ targets' = planned
     /\ phase' = IF ~Plannable(profile, q) THEN "skipped"
                 ELSE IF Cardinality(planned) > MaxTargets THEN "refused" ELSE "planned"
     /\ UNCHANGED <<profile, found>>

\* All targets, to their ends; metrics and costs are read in other ways.
Read ==
  /\ phase = "planned" /\ query.source \in Inventory
  /\ found' = [x \in Things |-> Cardinality({t \in targets : x \in Rows(profile, query, t)})]
  /\ phase' = "answered"
  /\ UNCHANGED <<profile, query, targets>>

Answer ==
  /\ phase \in {"skipped", "refused", "answered"} \/ (phase = "planned" /\ query.source \notin Inventory)
  /\ query' = NoQuery /\ phase' = "idle" /\ targets' = {} /\ found' = NothingFound
  /\ UNCHANGED profile

Next == (\E q \in AskedQueries : Plan(q)) \/ Read \/ Answer

Spec == Init /\ [][Next]_vars

(***************************************************************************)
(* Properties                                                               *)
(***************************************************************************)
TypeOK ==
  /\ profile \in Profiles
  /\ query \in Queries
  /\ phase \in {"idle", "planned", "skipped", "refused", "answered"}
  /\ targets \subseteq TargetSpace
  /\ found \in [Things -> Nat]

\* What profile and query together select, by where a thing is and not by what its row says.
Selected(x) ==
  LET configured == ConfiguredScopes(profile, query.source)
      region == RowRegion(profile, query.source, x)
  IN /\ RegionAllowed(profile, region)
     /\ RowMatchesRegions(query, region)
     /\ configured = {} \/ \E id \in configured : Within(profile, id, x)
     /\ query.accounts = {} \/ \E id \in query.accounts : Within(profile, id, x)

\* Every row of an answer is of a thing in a region and in a scope that both the profile and
\* the query allow, although adapters of three providers list what is in neither and wildcard,
\* global and regionless targets ask for more than was selected.
NothingOutside == phase = "answered" => \A x \in Things : found[x] > 0 => Selected(x)

\* The three ways in which something selected is not looked for.
\* Regions are asked one by one, and the thing is in none of them.
OutsideRegions(x) ==
  /\ query.regions = {} /\ ~AnyRegion(profile) /\ ~AskedOnce(profile, query.source)
  /\ \/ x.region = ""
     \/ /\ x.region = "global" /\ "global" \notin profile.regions
        /\ query.source = "iam" \/ profile.provider \notin {"azure", "gcp"}

\* Huawei reads one region where the others read all.
OnlyHuaweiRegion == IF profile.first \in {"", "*"} THEN DefaultRegion ELSE profile.first

OtherHuaweiRegion(x) ==
  /\ profile.provider = "huawei" /\ AnyRegion(profile)
  /\ query.regions = {} \/ "*" \in query.regions
  /\ x.region \notin query.regions \cup {OnlyHuaweiRegion}

\* Huawei accounts select no rows.
HuaweiByAccount == profile.provider = "huawei" /\ profile.leaves = {} /\ profile.parents \cup query.accounts # {}

\* The two ways in which a thing is found by more than one target.
NestedScopes(x) == Cardinality({id \in TargetScopes(profile, query) : Within(profile, id, x)}) > 1
WildcardAndExact(x) ==
  /\ {"*", x.region} \subseteq query.regions /\ ~AskedOnce(profile, query.source)
  /\ profile.provider = "huawei" => x.region = OnlyHuaweiRegion

\* An answer without failed targets holds every selected thing exactly once, with these
\* exceptions and no others: things outside the configured regions, all but one region and all
\* accounts of Huawei are missed; nested scopes and a wildcard beside a region find a thing again.
FoundOnce ==
  (phase = "answered" /\ \A t \in targets : ~Refused(profile, query.source, t)) =>
     \A x \in Things : Selected(x) =>
        /\ found[x] = 0 <=> OutsideRegions(x) \/ OtherHuaweiRegion(x) \/ HuaweiByAccount
        /\ found[x] # 0 => (found[x] > 1 <=> NestedScopes(x) \/ WildcardAndExact(x))

\* What is planned from the profile alone passes the checks of the same profile: a target is
\* refused only for an account the query named, or for a GCP profile without any scope.
PlansAreAskable ==
  \A t \in targets : Refused(profile, query.source, t) =>
     \/ t.scope \in query.accounts \ ConfiguredScopes(profile, query.source)
     \/ profile.provider = "gcp" /\ ConfiguredScopes(profile, query.source) = {}
=============================================================================
