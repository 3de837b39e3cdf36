------------------------ MODULE TargetPlanningProofs ------------------------
(***************************************************************************)
(* A row is counted because some target let it through.  What that target   *)
(* checked depends on its scope, and the scope on how the query was planned:*)
(* the argument follows the scope from the plan to the filter of the rows.  *)
(***************************************************************************)
EXTENDS TargetPlanning, TLAPS, FiniteSetTheorems

\* The targets are those planned, and what was found is what they let through.
Planned ==
  /\ phase \in {"idle", "skipped"} => targets = {}
  /\ phase \in {"planned", "refused", "answered"} =>
        Plannable(profile, query) /\ targets = Targets(profile, query)
  /\ phase = "answered" =>
        /\ query.source \in Inventory
        /\ found = [x \in Things |-> Cardinality({t \in targets : x \in Rows(profile, query, t)})]

IInv == TypeOK /\ Planned

-----------------------------------------------------------------------------
LEMMA FiniteTargets == ASSUME NEW T \in SUBSET TargetSpace PROVE IsFiniteSet(T) /\ Cardinality(T) \in Nat
  <1> DEFINE R == Regions \cup Wildcards \cup {""}
             S == Leaves \cup Parents \cup {""}
             pair == [t \in TargetSpace |-> <<t.region, t.scope>>]
  <1>1. IsFiniteSet(Wildcards)
    <2>1. Wildcards = {"global"} \cup {"*"} BY DEF Wildcards
    <2> QED BY <2>1, FS_Singleton, FS_Union
  <1>2. IsFiniteSet(R)
    BY <1>1, FS_Singleton, FS_Union, PlanningAssumption
  <1>3. IsFiniteSet(S)
    BY FS_Singleton, FS_Union, PlanningAssumption
  <1>4. IsFiniteSet(R \X S)
    BY <1>2, <1>3, FS_Product
  <1>5. pair \in Injection(TargetSpace, R \X S)
    <2>1. pair \in [TargetSpace -> R \X S]
      BY DEF TargetSpace
    <2>2. ASSUME NEW t \in TargetSpace, NEW u \in TargetSpace, pair[t] = pair[u] PROVE t = u
      <3>1. t.region = u.region /\ t.scope = u.scope
        BY <2>2
      <3>2. /\ t = [region |-> t.region, scope |-> t.scope]
            /\ u = [region |-> u.region, scope |-> u.scope]
        BY DEF TargetSpace
      <3> QED BY <3>1, <3>2
    <2> QED BY <2>1, <2>2 DEF Injection, IsInjective
  <1>6. IsFiniteSet(TargetSpace)
    BY <1>4, <1>5, FS_Injection
  <1> QED BY <1>6, FS_Subset, FS_CardinalityType

LEMMA RegionsTyped ==
  ASSUME NEW p \in Profiles, NEW q \in Queries
  PROVE  TargetRegions(p, q) \subseteq Regions \cup Wildcards \cup {""}
  BY DEF Profiles, Queries, TargetRegions, RegionsWanted, Wildcards

LEMMA ConfiguredTyped ==
  ASSUME NEW p \in Profiles, NEW source
  PROVE  ConfiguredScopes(p, source) \subseteq Leaves \cup Parents
  BY DEF Profiles, ConfiguredScopes

LEMMA ScopesTyped ==
  ASSUME NEW p \in Profiles, NEW q \in Queries
  PROVE  TargetScopes(p, q) \subseteq Leaves \cup Parents \cup {""}
  BY ConfiguredTyped DEF Queries, TargetScopes

LEMMA TargetsTyped ==
  ASSUME NEW p \in Profiles, NEW q \in Queries
  PROVE  Targets(p, q) \subseteq TargetSpace
  BY RegionsTyped, ScopesTyped DEF Targets, TargetSpace

-----------------------------------------------------------------------------
LEMMA InitInv == Init => IInv
  BY DEF Init, IInv, TypeOK, Planned, NoQuery, NothingFound, Queries, Sources, Inventory

LEMMA PlanStep == ASSUME IInv, NEW q \in AskedQueries, Plan(q) PROVE IInv'
  <1>1. q \in Queries
    BY QueriesAssumption
  <1>2. targets' \subseteq TargetSpace
    BY <1>1, TargetsTyped DEF Plan, IInv, TypeOK
  <1>3. phase' \in {"planned", "skipped", "refused"}
    BY DEF Plan
  <1>4. TypeOK'
    BY <1>1, <1>2, <1>3 DEF Plan, IInv, TypeOK
  <1>5. Planned'
    <2>1. CASE Plannable(profile, q)
      <3>1. phase' \in {"planned", "refused"}
        BY <2>1 DEF Plan
      <3>2. profile' = profile /\ query' = q /\ targets' = Targets(profile, q)
        BY <2>1 DEF Plan
      <3> QED BY <2>1, <3>1, <3>2 DEF Planned
    <2>2. CASE ~Plannable(profile, q)
      <3>1. phase' = "skipped"
        BY <2>2 DEF Plan
      <3>2. targets' = {}
        BY <2>2 DEF Plan
      <3> QED BY <3>1, <3>2 DEF Planned
    <2> QED BY <2>1, <2>2
  <1> QED BY <1>4, <1>5 DEF IInv

LEMMA ReadStep == ASSUME IInv, Read PROVE IInv'
  <1>1. \A x \in Things : Cardinality({t \in targets : x \in Rows(profile, query, t)}) \in Nat
    <2> TAKE x \in Things
    <2>1. {t \in targets : x \in Rows(profile, query, t)} \in SUBSET TargetSpace
      BY DEF IInv, TypeOK
    <2> QED BY <2>1, FiniteTargets
  <1>2. TypeOK'
    BY <1>1 DEF Read, IInv, TypeOK
  <1>3. Planned'
    BY DEF Read, IInv, Planned
  <1> QED BY <1>2, <1>3 DEF IInv

LEMMA AnswerStep == ASSUME IInv, Answer PROVE IInv'
  BY DEF Answer, IInv, TypeOK, Planned, NoQuery, NothingFound, Queries, Sources, Inventory

LEMMA StepInv == IInv /\ [Next]_vars => IInv'
  <1> SUFFICES ASSUME IInv, [Next]_vars PROVE IInv'
    OBVIOUS
  <1>1. CASE UNCHANGED vars
    BY <1>1 DEF vars, IInv, TypeOK, Planned
  <1>2. CASE Next
    BY <1>2, PlanStep, ReadStep, AnswerStep DEF Next
  <1> QED BY <1>1, <1>2

LEMMA AlwaysInv == Spec => []IInv
  BY InitInv, StepInv, PTL DEF Spec

\* Every reachable state of the planner is well formed.
THEOREM TypeCorrect == Spec => []TypeOK
  <1>1. IInv => TypeOK
    BY DEF IInv
  <1> QED BY AlwaysInv, <1>1, PTL

-----------------------------------------------------------------------------
\* A scope that is compared with a row is one the thing lies in.
LEMMA RowsLieWithin ==
  ASSUME NEW p, NEW id, NEW x, RowIsOf(p, id, x)
  PROVE  Within(p, id, x)
  BY DEF RowIsOf, Within

\* What a target asks of a row is what query and profile ask of the thing.
LEMMA TargetsSelect ==
  ASSUME profile \in Profiles, query \in Queries, NEW t \in Targets(profile, query), NEW x \in Rows(profile, query, t)
  PROVE  Selected(x)
  <1> DEFINE configured == ConfiguredScopes(profile, query.source)
             ids == ScopeIDs(profile, query.source, t.scope)
  <1>1. /\ RegionAllowed(profile, RowRegion(profile, query.source, x))
        /\ RowMatchesRegions(query, RowRegion(profile, query.source, x))
        /\ ids = {} \/ \E id \in ids : Within(profile, id, x)
        /\ t.scope = "" \/ configured = {} \/ t.scope \in configured
    BY RowsLieWithin DEF Rows, Refused, RowScopeAllowed
  <1>2. t.scope \in TargetScopes(profile, query)
    BY DEF Targets
  <1>3. "" \notin query.accounts \cup configured
    BY ConfiguredTyped, PlanningAssumption DEF Queries
  <1>4. configured = {} \/ \E id \in configured : Within(profile, id, x)
    BY <1>1 DEF ScopeIDs
  <1>5. query.accounts = {} \/ \E id \in query.accounts : Within(profile, id, x)
    <2>1. CASE query.accounts = {}
      BY <2>1
    <2>2. CASE query.accounts # {}
      <3>1. t.scope \in query.accounts /\ t.scope # ""
        BY <1>2, <1>3, <2>2 DEF TargetScopes
      <3> QED BY <1>1, <3>1 DEF ScopeIDs
    <2> QED BY <2>1, <2>2
  <1> QED BY <1>1, <1>4, <1>5 DEF Selected

\* No row is of a thing outside the profile or outside the query.
THEOREM RowsAreInside == Spec => []NothingOutside
  <1>1. IInv => NothingOutside
    <2> SUFFICES ASSUME IInv, phase = "answered", NEW x \in Things, found[x] > 0
                 PROVE  Selected(x)
      BY DEF NothingOutside
    <2> DEFINE through == {t \in targets : x \in Rows(profile, query, t)}
    <2>1. Cardinality(through) > 0
      BY DEF IInv, Planned
    <2>2. PICK t \in targets : x \in Rows(profile, query, t)
      <3>1. through # {}
        BY <2>1, FS_EmptySet
      <3> QED BY <3>1
    <2>3. t \in Targets(profile, query)
      BY DEF IInv, Planned
    <2> QED BY <2>2, <2>3, TargetsSelect DEF IInv, TypeOK
  <1> QED BY AlwaysInv, <1>1, PTL

-----------------------------------------------------------------------------
\* A region that is planned is one the profile allows.
LEMMA PlannedRegions ==
  ASSUME NEW p \in Profiles, NEW q \in Queries, Plannable(p, q), NEW r \in TargetRegions(p, q)
  PROVE  RegionAllowed(p, r)
  BY DEF Plannable, TargetRegions, RegionsWanted, RegionAllowed, AnyRegion, AddsGlobal

\* A plan made from the profile alone passes the checks of the same profile.
THEOREM PlansPassTheirChecks == Spec => []PlansAreAskable
  <1>1. IInv => PlansAreAskable
    <2> SUFFICES ASSUME IInv, NEW t \in targets, Refused(profile, query.source, t)
                 PROVE  \/ t.scope \in query.accounts \ ConfiguredScopes(profile, query.source)
                        \/ profile.provider = "gcp" /\ ConfiguredScopes(profile, query.source) = {}
      BY DEF PlansAreAskable
    <2>1. Plannable(profile, query) /\ t \in Targets(profile, query) /\ profile \in Profiles /\ query \in Queries
      BY DEF IInv, TypeOK, Planned
    <2>2. RegionAllowed(profile, t.region)
      BY <2>1, PlannedRegions DEF Targets
    <2>3. t.scope \in TargetScopes(profile, query)
      BY <2>1 DEF Targets
    <2> QED BY <2>2, <2>3 DEF Refused, TargetScopes
  <1> QED BY AlwaysInv, <1>1, PTL

-----------------------------------------------------------------------------
\* Some planned region has the cloud list a selected thing, but for the known exceptions.
LEMMA RegionIsAsked ==
  ASSUME profile \in Profiles, query \in Queries, query.source \in Inventory, Plannable(profile, query),
         NEW x \in Things, Selected(x), ~OutsideRegions(x), ~OtherHuaweiRegion(x)
  PROVE  \E r \in TargetRegions(profile, query) : ListsRegion(profile, r, x)
  <1> DEFINE asked == RegionsWanted(profile, query)
             once == AskedOnce(profile, query.source)
  <1>1. ~NeedsExactRegion(profile, query.source)
    BY DEF NeedsExactRegion, Inventory
  <1>2. x.region \in Regions \cup {"global", ""} /\ Regions \cap {"", "*", "global"} = {}
    BY PlanningAssumption DEF Things, Wildcards
  <1>3. CASE once
    <2>1. "" \in TargetRegions(profile, query)
      BY <1>3 DEF TargetRegions
    <2>2. profile.provider # "huawei"
      BY <1>3 DEF AskedOnce, Inventory
    <2> QED BY <2>1, <2>2 DEF ListsRegion
  <1>4. CASE ~once /\ query.regions = {} /\ AnyRegion(profile)
    <2>1. asked = {}
      BY <1>1, <1>4 DEF RegionsWanted, AddsGlobal
    <2>2. "" \in TargetRegions(profile, query)
      BY <2>1 DEF TargetRegions
    <2>3. profile.provider = "huawei" => x.region = OnlyHuaweiRegion
      BY <1>4 DEF OtherHuaweiRegion
    <2> QED BY <2>2, <2>3 DEF ListsRegion, OnlyHuaweiRegion
  <1>5. CASE ~once /\ query.regions = {} /\ ~AnyRegion(profile)
    <2>1. RowRegion(profile, query.source, x) = x.region
      BY <1>5 DEF RowRegion, AskedOnce
    <2>2. x.region \in {"", "global"} \cup profile.regions
      BY <1>5, <2>1 DEF Selected, RegionAllowed
    <2>3. x.region \in asked
      BY <1>1, <1>5, <2>2 DEF OutsideRegions, RegionsWanted, AddsGlobal, Inventory
    <2>4. x.region \notin {"", "*"}
      BY <1>2, <1>5 DEF OutsideRegions
    <2>5. x.region \in TargetRegions(profile, query)
      BY <1>5, <2>3 DEF TargetRegions
    <2> QED BY <2>4, <2>5 DEF ListsRegion
  <1>6. CASE ~once /\ query.regions # {}
    <2>1. RowRegion(profile, query.source, x) = x.region
      BY <1>6 DEF RowRegion, AskedOnce
    <2>2. TargetRegions(profile, query) = query.regions
      BY <1>1, <1>6 DEF TargetRegions, RegionsWanted, AddsGlobal
    <2>3. CASE x.region \in query.regions
      <3>1. x.region \notin {"", "*"}
        BY <1>2, <2>3 DEF Queries, Wildcards
      <3> QED BY <2>2, <2>3, <3>1 DEF ListsRegion
    <2>4. CASE x.region \notin query.regions
      <3>1. "*" \in query.regions
        BY <1>6, <2>1, <2>4 DEF Selected, RowMatchesRegions
      <3>2. AnyRegion(profile)
        BY <3>1 DEF Plannable, RegionAllowed, AnyRegion
      <3>3. (profile.provider = "huawei" => x.region = OnlyHuaweiRegion)
        BY <2>4, <3>1, <3>2 DEF OtherHuaweiRegion
      <3> QED BY <2>2, <3>1, <3>3 DEF ListsRegion, OnlyHuaweiRegion
    <2> QED BY <2>3, <2>4
  <1> QED BY <1>3, <1>4, <1>5, <1>6

\* A scope the thing lies in, if it is asked for by itself, lists the thing and lets its row pass.
LEMMA ScopeLists ==
  ASSUME profile \in Profiles, query \in Queries, query.source \in Inventory,
         NEW x \in Things, ~HuaweiByAccount,
         NEW s \in TargetScopes(profile, query), Within(profile, s, x),
         NEW r, ~Refused(profile, query.source, [region |-> r, scope |-> s])
  PROVE  LET ids == ScopeIDs(profile, query.source, s)
         IN  s # "" /\ ListsScope(profile, ids, x) /\ RowScopeAllowed(profile, ids, x)
  <1> DEFINE configured == ConfiguredScopes(profile, query.source)
  <1>1. x.leaf \in Leaves /\ Holder[x.leaf] \in Parents /\ "" \notin query.accounts \cup configured
    BY ConfiguredTyped, PlanningAssumption DEF Things, Queries
  <1>2. s # ""
    BY <1>1, PlanningAssumption DEF Within
  <1>3. s \in query.accounts \cup configured /\ s \in Leaves \cup Parents
    BY <1>2, ConfiguredTyped DEF TargetScopes, Queries
  <1>4. configured = {} \/ s \in configured
    BY <1>2 DEF Refused
  \* Within is all that the listing and the filter ask for.
  <1>5. RowIsOf(profile, s, x) /\ (profile.provider # "gcp" => s = x.leaf)
    <2>1. CASE profile.provider = "gcp"
      BY <2>1 DEF RowIsOf
    <2>2. CASE profile.provider = "huawei"
      <3>1. profile.leaves # {}
        <4>1. SUFFICES ASSUME profile.leaves = {} PROVE FALSE
          OBVIOUS
        <4>2. profile.parents \cup query.accounts # {}
          BY <1>3, <2>2, <4>1 DEF ConfiguredScopes, Inventory
        <4> QED BY <2>2, <4>1, <4>2 DEF HuaweiByAccount
      <3>2. configured = profile.leaves /\ profile.leaves \subseteq Leaves
        BY <2>2, <3>1 DEF ConfiguredScopes, Inventory, Profiles
      <3>3. s \in Leaves
        BY <1>4, <3>1, <3>2
      <3>4. s = x.leaf
        BY <1>1, <3>3, PlanningAssumption DEF Within
      <3> QED BY <2>2, <3>1, <3>4 DEF RowIsOf
    <2>3. CASE profile.provider \notin {"gcp", "huawei"}
      BY <2>3 DEF Within, RowIsOf
    <2> QED BY <2>1, <2>2, <2>3
  <1>6. ScopeIDs(profile, query.source, s) = {s}
    BY <1>2 DEF ScopeIDs
  <1>7. RowScopeAllowed(profile, {s}, x)
    BY <1>5 DEF RowScopeAllowed
  <1>8. ListsScope(profile, {s}, x)
    BY <1>5 DEF ListsScope
  <1> QED BY <1>2, <1>6, <1>7, <1>8

\* Some planned scope has the cloud list a selected thing, and its row passes.
LEMMA ScopeIsAsked ==
  ASSUME profile \in Profiles, query \in Queries, query.source \in Inventory,
         NEW x \in Things, Selected(x), ~HuaweiByAccount,
         NEW r, \A s \in TargetScopes(profile, query) : ~Refused(profile, query.source, [region |-> r, scope |-> s])
  PROVE  \E s \in TargetScopes(profile, query) :
            LET ids == ScopeIDs(profile, query.source, s)
            IN  ListsScope(profile, ids, x) /\ RowScopeAllowed(profile, ids, x)
  <1> DEFINE configured == ConfiguredScopes(profile, query.source)
  <1>1. CASE query.accounts # {} \/ configured # {}
    <2>1. PICK s \in TargetScopes(profile, query) : Within(profile, s, x)
      BY <1>1 DEF Selected, TargetScopes
    <2> QED BY <2>1, ScopeLists
  <1>2. CASE query.accounts = {} /\ configured = {}
    <2>1. "" \in TargetScopes(profile, query) /\ ScopeIDs(profile, query.source, "") = {}
      BY <1>2 DEF TargetScopes, ScopeIDs
    <2>2. ListsScope(profile, {}, x) /\ RowScopeAllowed(profile, {}, x)
      BY DEF ListsScope, RowScopeAllowed
    <2> QED BY <2>1, <2>2
  <1> QED BY <1>1, <1>2

\* Nothing selected is missed but for the three known reasons, if no target failed.
NothingElseMissed ==
  (phase = "answered" /\ \A t \in targets : ~Refused(profile, query.source, t)) =>
     \A x \in Things :
        Selected(x) /\ ~OutsideRegions(x) /\ ~OtherHuaweiRegion(x) /\ ~HuaweiByAccount => found[x] > 0

\* An answer without failed targets holds everything selected, but for things outside the
\* configured regions and the regions and accounts of Huawei: the part of FoundOnce that says
\* what may be missed, for all profiles, queries and clouds.
THEOREM SelectedIsFound == Spec => []NothingElseMissed
  <1>1. IInv => NothingElseMissed
    <2> SUFFICES ASSUME IInv, phase = "answered", \A t \in targets : ~Refused(profile, query.source, t),
                        NEW x \in Things,
                        Selected(x), ~OutsideRegions(x), ~OtherHuaweiRegion(x), ~HuaweiByAccount
                 PROVE  found[x] > 0
      BY DEF NothingElseMissed
    <2> DEFINE through == {t \in targets : x \in Rows(profile, query, t)}
    <2>1. /\ profile \in Profiles /\ query \in Queries /\ query.source \in Inventory
          /\ Plannable(profile, query) /\ targets = Targets(profile, query)
          /\ found[x] = Cardinality(through)
      BY DEF IInv, TypeOK, Planned
    <2>2. PICK r \in TargetRegions(profile, query) : ListsRegion(profile, r, x)
      BY <2>1, RegionIsAsked
    <2>3. \A s \in TargetScopes(profile, query) : [region |-> r, scope |-> s] \in targets
      BY <2>1 DEF Targets
    <2>4. PICK s \in TargetScopes(profile, query) :
             /\ ListsScope(profile, ScopeIDs(profile, query.source, s), x)
             /\ RowScopeAllowed(profile, ScopeIDs(profile, query.source, s), x)
      BY <2>1, <2>3, ScopeIsAsked
    <2>5. [region |-> r, scope |-> s] \in through
      BY <2>2, <2>3, <2>4 DEF Rows, Selected
    <2>6. through \in SUBSET TargetSpace
      BY DEF IInv, TypeOK
    <2> QED BY <2>1, <2>5, <2>6, FiniteTargets, FS_EmptySet
  <1> QED BY AlwaysInv, <1>1, PTL

-----------------------------------------------------------------------------
\* What a planned region is: not a name at all, or one that query or profile names.
LEMMA AskedRegions ==
  ASSUME NEW p \in Profiles, NEW q \in Queries, q.source \in Inventory, ~AskedOnce(p, q.source)
  PROVE  /\ RegionsWanted(p, q) \subseteq Regions \cup Wildcards
         /\ q.regions # {} => TargetRegions(p, q) = q.regions
         /\ q.regions = {} /\ AnyRegion(p) => TargetRegions(p, q) = {""}
         /\ q.regions = {} /\ ~AnyRegion(p) => /\ TargetRegions(p, q) = RegionsWanted(p, q)
                                               /\ RegionsWanted(p, q) = p.regions \cup (IF AddsGlobal(p, q) THEN {"global"} ELSE {})
  <1>1. ~NeedsExactRegion(p, q.source)
    BY DEF NeedsExactRegion, Inventory
  <1>2. p.regions \subseteq Regions \cup Wildcards /\ q.regions \subseteq Regions \cup Wildcards
    BY DEF Profiles, Queries
  <1>3. q.regions # {} \/ AnyRegion(p) => ~AddsGlobal(p, q)
    BY DEF AddsGlobal
  <1>4. RegionsWanted(p, q) = (IF q.regions = {} THEN (IF AnyRegion(p) THEN {} ELSE p.regions) ELSE q.regions)
                               \cup (IF AddsGlobal(p, q) THEN {"global"} ELSE {})
    BY <1>1 DEF RegionsWanted
  <1>5. AnyRegion(p) \/ p.regions # {}
    BY DEF AnyRegion
  <1> QED BY <1>2, <1>3, <1>4, <1>5 DEF TargetRegions, Wildcards

\* In the three known cases no target lists the thing.
LEMMA ExceptionsAreMissed ==
  ASSUME profile \in Profiles, query \in Queries, query.source \in Inventory,
         NEW x \in Things, OutsideRegions(x) \/ OtherHuaweiRegion(x) \/ HuaweiByAccount,
         NEW t \in Targets(profile, query)
  PROVE  x \notin Rows(profile, query, t)
  <1>1. t.region \in TargetRegions(profile, query) /\ t.scope \in TargetScopes(profile, query)
    BY DEF Targets
  <1>2. x.region \in Regions \cup {"global", ""} /\ Regions \cap {"", "*", "global"} = {}
    BY PlanningAssumption DEF Things, Wildcards
  <1>3. CASE OutsideRegions(x)
    <2>1. ~AskedOnce(profile, query.source) /\ query.regions = {} /\ ~AnyRegion(profile)
      BY <1>3 DEF OutsideRegions
    <2>2. t.region \in profile.regions \cup (IF AddsGlobal(profile, query) THEN {"global"} ELSE {})
      BY <1>1, <2>1, AskedRegions
    <2>3. t.region \notin {"", "*"}
      BY <1>2, <2>1, <2>2 DEF Profiles, Wildcards, AnyRegion
    <2>4. x.region # t.region
      BY <1>3, <2>2, <2>3 DEF OutsideRegions, AddsGlobal
    <2> QED BY <2>3, <2>4 DEF Rows, ListsRegion
  <1>4. CASE OtherHuaweiRegion(x)
    <2>1. profile.provider = "huawei" /\ x.region \notin query.regions \cup {OnlyHuaweiRegion}
      BY <1>4 DEF OtherHuaweiRegion
    <2>2. ~AskedOnce(profile, query.source)
      BY <2>1 DEF AskedOnce, Inventory
    <2>3. t.region \in query.regions \cup {"", "*"}
      BY <1>1, <1>4, <2>2, AskedRegions DEF OtherHuaweiRegion
    <2> QED BY <2>1, <2>3 DEF Rows, ListsRegion, OnlyHuaweiRegion
  <1>5. CASE HuaweiByAccount
    <2>1. profile.provider = "huawei" /\ profile.leaves = {}
      BY <1>5 DEF HuaweiByAccount
    <2>2. ConfiguredScopes(profile, query.source) = profile.parents
      BY <2>1 DEF ConfiguredScopes, Inventory
    <2>3. ScopeIDs(profile, query.source, t.scope) # {}
      <3>1. CASE query.accounts # {}
        <4>1. t.scope \in query.accounts /\ "" \notin query.accounts
          BY <1>1, <3>1, PlanningAssumption DEF TargetScopes, Queries
        <4>2. t.scope # ""
          BY <4>1
        <4> QED BY <4>2 DEF ScopeIDs
      <3>2. CASE query.accounts = {}
        <4>1. profile.parents # {}
          BY <1>5, <3>2 DEF HuaweiByAccount
        <4> QED BY <2>2, <4>1 DEF ScopeIDs
      <3> QED BY <3>1, <3>2
    <2>4. \A id : ~RowIsOf(profile, id, x)
      BY <2>1 DEF RowIsOf
    <2> QED BY <2>3, <2>4 DEF Rows, RowScopeAllowed
  <1> QED BY <1>3, <1>4, <1>5

LEMMA MoreThanOne ==
  ASSUME NEW S, IsFiniteSet(S)
  PROVE  Cardinality(S) > 1 <=> \E a, b \in S : a # b
  <1>1. Cardinality(S) \in Nat
    BY FS_CardinalityType
  <1>2. ASSUME NEW a \in S, NEW b \in S, a # b PROVE Cardinality(S) > 1
    <2>1. Cardinality(S) # 0
      BY <1>2, FS_EmptySet
    <2>2. Cardinality(S) # 1
      BY <1>2, FS_Singleton
    <2> QED BY <1>1, <2>1, <2>2
  <1>3. ASSUME Cardinality(S) > 1 PROVE \E a, b \in S : a # b
    <2>1. S # {}
      BY <1>3, FS_EmptySet
    <2>2. PICK a \in S : TRUE
      BY <2>1
    <2>3. S # {a}
      BY <1>3, FS_Singleton
    <2> QED BY <2>2, <2>3
  <1> QED BY <1>2, <1>3

\* Two planned regions have the cloud list a thing only if one of them is the wildcard.
LEMMA RegionsRepeat ==
  ASSUME profile \in Profiles, query \in Queries, query.source \in Inventory, NEW x \in Things
  PROVE  WildcardAndExact(x) <=>
           \E a, b \in TargetRegions(profile, query) :
              a # b /\ ListsRegion(profile, a, x) /\ ListsRegion(profile, b, x)
  <1>1. x.region \in Regions \cup {"global", ""} /\ Regions \cap {"", "*", "global"} = {}
    BY PlanningAssumption DEF Things, Wildcards
  <1>2. ASSUME WildcardAndExact(x)
        PROVE  \E a, b \in TargetRegions(profile, query) :
                  a # b /\ ListsRegion(profile, a, x) /\ ListsRegion(profile, b, x)
    <2>1. {"*", x.region} \subseteq TargetRegions(profile, query)
      BY <1>2, AskedRegions DEF WildcardAndExact
    <2>2. x.region \notin {"", "*"}
      BY <1>1, <1>2 DEF WildcardAndExact, Queries, Wildcards
    <2>3. ListsRegion(profile, x.region, x) /\ ListsRegion(profile, "*", x)
      BY <1>2, <2>2 DEF ListsRegion, WildcardAndExact, OnlyHuaweiRegion
    <2> QED BY <2>1, <2>2, <2>3
  <1>3. ASSUME NEW a \in TargetRegions(profile, query), NEW b \in TargetRegions(profile, query), a # b,
               ListsRegion(profile, a, x), ListsRegion(profile, b, x)
        PROVE  WildcardAndExact(x)
    <2>1. ~AskedOnce(profile, query.source)
      BY <1>3 DEF TargetRegions
    <2>2. TargetRegions(profile, query) \subseteq Regions \cup Wildcards /\ TargetRegions(profile, query) # {""}
      BY <1>3, <2>1, AskedRegions DEF TargetRegions
    <2>3. a # "" /\ b # ""
      BY <1>1, <1>3, <2>2 DEF Wildcards
    <2>4. {a, b} = {"*", x.region}
      BY <1>3, <2>3 DEF ListsRegion
    <2>5. query.regions # {}
      <3>1. SUFFICES ASSUME query.regions = {} PROVE FALSE
        OBVIOUS
      <3>2. ~AnyRegion(profile)
        BY <2>1, <2>2, <3>1, AskedRegions
      <3>3. "*" \in TargetRegions(profile, query)
        BY <1>3, <2>4
      <3>4. TargetRegions(profile, query) \subseteq profile.regions \cup {"global"}
        <4>1. TargetRegions(profile, query) =
                profile.regions \cup (IF AddsGlobal(profile, query) THEN {"global"} ELSE {})
          BY <2>1, <3>1, <3>2, AskedRegions
        <4> QED BY <4>1
      <3> QED BY <3>2, <3>3, <3>4 DEF AnyRegion
    <2>6. TargetRegions(profile, query) = query.regions
      BY <2>1, <2>5, AskedRegions
    <2>7. profile.provider = "huawei" => x.region = OnlyHuaweiRegion
      BY <1>3, <2>4 DEF ListsRegion, OnlyHuaweiRegion
    <2> QED BY <2>1, <2>4, <2>6, <2>7 DEF WildcardAndExact
  <1> QED BY <1>2, <1>3

\* Two planned scopes list a thing only if it lies in both.
LEMMA ScopesRepeat ==
  ASSUME profile \in Profiles, query \in Queries, query.source \in Inventory,
         NEW x \in Things, ~HuaweiByAccount,
         NEW r, \A s \in TargetScopes(profile, query) : ~Refused(profile, query.source, [region |-> r, scope |-> s])
  PROVE  NestedScopes(x) <=>
           \E a, b \in TargetScopes(profile, query) :
              /\ a # b
              /\ \A s \in {a, b} : LET ids == ScopeIDs(profile, query.source, s)
                                  IN  ListsScope(profile, ids, x) /\ RowScopeAllowed(profile, ids, x)
  <1> DEFINE within == {id \in TargetScopes(profile, query) : Within(profile, id, x)}
  <1>1. IsFiniteSet(within)
    <2>1. within \in SUBSET (Leaves \cup Parents \cup {""})
      BY ScopesTyped
    <2>2. IsFiniteSet(Leaves \cup Parents \cup {""})
      BY FS_Singleton, FS_Union, PlanningAssumption
    <2> QED BY <2>1, <2>2, FS_Subset
  <1>2. NestedScopes(x) <=> \E a, b \in within : a # b
    <2> HIDE DEF within
    <2>1. Cardinality(within) > 1 <=> \E a, b \in within : a # b
      BY <1>1, MoreThanOne
    <2> QED BY <2>1 DEF NestedScopes, within
  <1>3. ASSUME NEW s \in within
        PROVE  LET ids == ScopeIDs(profile, query.source, s)
               IN  ListsScope(profile, ids, x) /\ RowScopeAllowed(profile, ids, x)
    BY <1>3, ScopeLists
  <1>4. ASSUME NEW a \in TargetScopes(profile, query), NEW b \in TargetScopes(profile, query), a # b,
               RowScopeAllowed(profile, ScopeIDs(profile, query.source, a), x)
        PROVE  a \in within
    <2>1. a # ""
      <3>1. "" \notin query.accounts \cup ConfiguredScopes(profile, query.source)
        BY ConfiguredTyped, PlanningAssumption DEF Queries
      <3>2. TargetScopes(profile, query) # {""}
        <4>1. ASSUME NEW S, a \in S, b \in S, S = {""} PROVE a = "" /\ b = ""
          BY <4>1
        <4> QED BY <1>4, <4>1
      <3> QED BY <3>1, <3>2 DEF TargetScopes
    <2>2. RowIsOf(profile, a, x)
      BY <1>4, <2>1 DEF ScopeIDs, RowScopeAllowed
    <2> QED BY <2>2, RowsLieWithin
  <1> QED BY <1>2, <1>3, <1>4

\* Every selected thing is found exactly once, but for the named exceptions: what is missed
\* is missed for one of three reasons, and what is found again is found again for one of two.
THEOREM SelectedIsFoundOnce == Spec => []FoundOnce
  <1>1. IInv => FoundOnce
    <2> SUFFICES ASSUME IInv, phase = "answered", \A t \in targets : ~Refused(profile, query.source, t),
                        NEW x \in Things, Selected(x)
                 PROVE  /\ found[x] = 0 <=> OutsideRegions(x) \/ OtherHuaweiRegion(x) \/ HuaweiByAccount
                        /\ found[x] # 0 => (found[x] > 1 <=> NestedScopes(x) \/ WildcardAndExact(x))
      BY DEF FoundOnce
    <2> DEFINE through == {t \in targets : x \in Rows(profile, query, t)}
               Lists(s) == LET ids == ScopeIDs(profile, query.source, s)
                           IN  ListsScope(profile, ids, x) /\ RowScopeAllowed(profile, ids, x)
    <2>1. /\ profile \in Profiles /\ query \in Queries /\ query.source \in Inventory
          /\ Plannable(profile, query) /\ targets = Targets(profile, query)
          /\ found[x] = Cardinality(through)
      BY DEF IInv, TypeOK, Planned
    <2>2. IsFiniteSet(through) /\ Cardinality(through) \in Nat
      <3>1. through \in SUBSET TargetSpace
        BY DEF IInv, TypeOK
      <3> QED BY <3>1, FiniteTargets
    <2>3. found[x] = 0 <=> through = {}
      BY <2>1, <2>2, FS_EmptySet
    \* A target lists the thing if its region does and its scope does.
    <2>4. \A t \in targets : t \in through <=> ListsRegion(profile, t.region, x) /\ Lists(t.scope)
      BY DEF Rows, Selected
    <2>5. /\ \A r \in TargetRegions(profile, query), s \in TargetScopes(profile, query) :
                [region |-> r, scope |-> s] \in targets
          /\ \A t \in targets : /\ t.region \in TargetRegions(profile, query)
                                 /\ t.scope \in TargetScopes(profile, query)
                                 /\ t = [region |-> t.region, scope |-> t.scope]
      BY <2>1 DEF Targets
    <2>6. found[x] = 0 <=> OutsideRegions(x) \/ OtherHuaweiRegion(x) \/ HuaweiByAccount
      <3>1. CASE OutsideRegions(x) \/ OtherHuaweiRegion(x) \/ HuaweiByAccount
        <4>1. through = {}
          BY <2>1, <3>1, ExceptionsAreMissed
        <4> QED BY <2>3, <3>1, <4>1
      <3>2. CASE ~(OutsideRegions(x) \/ OtherHuaweiRegion(x) \/ HuaweiByAccount)
        <4>1. PICK r \in TargetRegions(profile, query) : ListsRegion(profile, r, x)
          BY <2>1, <3>2, RegionIsAsked
        <4>2. PICK s \in TargetScopes(profile, query) : Lists(s)
          BY <2>1, <2>5, <3>2, <4>1, ScopeIsAsked
        <4>3. [region |-> r, scope |-> s] \in through
          BY <2>4, <2>5, <4>1, <4>2
        <4> QED BY <2>3, <3>2, <4>3
      <3> QED BY <3>1, <3>2
    <2>7. ASSUME found[x] # 0 PROVE found[x] > 1 <=> NestedScopes(x) \/ WildcardAndExact(x)
      <3>1. PICK t \in targets : ListsRegion(profile, t.region, x) /\ Lists(t.scope)
        BY <2>3, <2>4, <2>7
      <3>2. found[x] > 1 <=> \E u, v \in through : u # v
        <4> HIDE DEF through
        <4> QED BY <2>1, <2>2, MoreThanOne
      <3>3. NestedScopes(x) <=> \E a, b \in TargetScopes(profile, query) : a # b /\ Lists(a) /\ Lists(b)
        <4>1. \A s \in TargetScopes(profile, query) :
                 ~Refused(profile, query.source, [region |-> t.region, scope |-> s])
          BY <2>5
        <4>2. NestedScopes(x) <=> \E a, b \in TargetScopes(profile, query) : a # b /\ \A s \in {a, b} : Lists(s)
          BY <2>1, <2>6, <2>7, <4>1, ScopesRepeat
        <4> HIDE DEF Lists
        <4> QED BY <4>2
      <3>4. WildcardAndExact(x) <=> \E a, b \in TargetRegions(profile, query) :
                a # b /\ ListsRegion(profile, a, x) /\ ListsRegion(profile, b, x)
        BY <2>1, RegionsRepeat
      <3> HIDE DEF Lists, through
      <3>5. ASSUME NEW u \in through, NEW v \in through, u # v PROVE NestedScopes(x) \/ WildcardAndExact(x)
        <4>1. u \in targets /\ v \in targets
          BY DEF through
        <4>2. u.scope # v.scope \/ u.region # v.region
          BY <2>5, <3>5, <4>1
        <4> QED BY <2>4, <2>5, <3>3, <3>4, <4>1, <4>2
      <3>6. ASSUME NestedScopes(x) PROVE \E u, v \in through : u # v
        <4>1. PICK a \in TargetScopes(profile, query), b \in TargetScopes(profile, query) : a # b /\ Lists(a) /\ Lists(b)
          BY <3>3, <3>6
        <4> DEFINE target(s) == [region |-> t.region, scope |-> s]
        <4>2. target(a) \in through /\ target(b) \in through
          BY <2>4, <2>5, <3>1, <4>1
        <4>3. target(a) # target(b)
          BY <4>1
        <4> QED BY <4>2, <4>3
      <3>7. ASSUME WildcardAndExact(x) PROVE \E u, v \in through : u # v
        <4>1. PICK a \in TargetRegions(profile, query), b \in TargetRegions(profile, query) :
                 a # b /\ ListsRegion(profile, a, x) /\ ListsRegion(profile, b, x)
          BY <3>4, <3>7
        <4> DEFINE target(r) == [region |-> r, scope |-> t.scope]
        <4>2. target(a) \in through /\ target(b) \in through
          BY <2>4, <2>5, <3>1, <4>1
        <4>3. target(a) # target(b)
          BY <4>1
        <4> QED BY <4>2, <4>3
      <3> QED BY <3>2, <3>5, <3>6, <3>7
    <2> QED BY <2>6, <2>7
  <1> QED BY AlwaysInv, <1>1, PTL
=============================================================================
