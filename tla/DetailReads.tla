---------------------------- MODULE DetailReads ----------------------------
(***************************************************************************)
(* The fixed detail reads of the seven adapters: one thing is asked for by *)
(* name, one or more upstream calls are made, and a row is put together    *)
(* from their answers.  Each adapter function is a plan (below); all plans *)
(* run under Engine.NativeReadWithID, which retries an attempt from its    *)
(* beginning, and under the scoped adapter, which checks the region of the *)
(* request before and filters the rows after by service, region and scope. *)
(*                                                                         *)
(* A thing has a region and an owner (our scope or another).  The cloud    *)
(* answers truthfully, but the thing may be deleted or replaced by another *)
(* of its name, elsewhere or of another owner, between two calls.          *)
(***************************************************************************)
EXTENDS Naturals, Sequences, FiniteSets

CONSTANTS Regions,        \* names of regions as rows spell them, "global" among them
          Spellings,      \* names of regions in requests and profiles
          Lower,          \* the region a name is of, whatever its capitals
          Zones,          \* names of zones
          ZoneRegion,     \* the region a zone is in: its name without the last part
          Profiles,       \* profiles to read with
          MaxRequests,    \* limits.max_provider_requests
          MaxParts,       \* pages of node pools (20), groups of a backend (100)
          MaxMoves        \* times the thing is replaced

ASSUME NamesAssumption == /\ Regions \subseteq Spellings /\ "" \notin Spellings
                          /\ Lower \in [Spellings -> Regions]
                          /\ \A r \in Regions : Lower[r] = r
                          /\ Zones \cap Spellings = {} /\ ZoneRegion \in [Zones -> Regions]

Globals == {s \in Spellings : Lower[s] = "global"}

\* A profile: its regions (none for all, or "*"); whether its services, if it has
\* a list of them, name the service or the domain of what is read; and how the
\* scope that is asked for is configured: itself, through its folder or
\* organization, through the option asset_scope, by an account where Huawei has
\* projects, or not (no exact account, or another scope).
Profile == [regions : SUBSET Spellings, served : BOOLEAN,
            scope : {"direct", "hierarchy", "asset_scope", "account", "none"}]
ASSUME ProfilesAssumption == Profiles \subseteq Profile
ASSUME BoundsAssumption   == MaxRequests \in Nat \ {0} /\ MaxParts \in Nat \ {0} /\ MaxMoves \in Nat

Thing  == [id : {"asked"}, region : Regions, owner : {"ours", "theirs"}]
Others == [id : {"other"}, region : Regions, owner : {"ours", "theirs"}]
Gone   == [id |-> "gone", region |-> "", owner |-> ""]

-----------------------------------------------------------------------------
(* An upstream call.  The address, the endpoint or the credentials of a call  *)
(* confine its answer to a region or to our scope (within); the adapter       *)
(* compares fields of the answer (checks): the identity, the region, the      *)
(* owner, or that the region is one that is allowed (verified).               *)
Call(how, within, checks) == [how |-> how, within |-> within, checks |-> checks, most |-> 1]

Own == {"region", "owner"}     \* a regional endpoint, with the credentials of the scope

\* The thing by its name; the thing in a list of things; something else that
\* the read needs (a project number, cluster credentials).
Get(within, checks)  == Call("get", within, checks)
Find(within, checks) == Call("find", within, checks)
Aid                  == Call("aid", {}, {})
\* Up to n calls of one sort: pages of parts of the thing, or lists to search.
UpTo(n, call)        == [call EXCEPT !.most = n]

Counted == 0     \* the page counts the calls as they are made

\* What a plan says: where the calls are addressed to (an "exact" region, a
\* "zone", "region" or "location" in the params, or "nowhere"), the scopes that
\* can be asked for, the calls, where the region of the row is from (the place as
\* it is or "converted", or the first answer), page.Requests, and how many rows
\* are made.
Plan(place, scopes, calls, label, requests) ==
  [place |-> place, scopes |-> scopes, calls |-> calls, label |-> label, requests |-> requests,
   rows |-> {1}]

\* A row for each part of the thing, and there may be none.  One row stands for
\* several: they have the same region, scope and service.
EachPart(p) == [p EXCEPT !.rows = {0, 1}]

\* singleDetailAccount or exactDetailScope, with exactDetailRegion.
Regional(calls, requests) == Plan("exact", {"direct"}, calls, "place", requests)
\* exactDetailScope of the subscription; the region is in the answer.
Subscribed(calls, requests) == Plan("nowhere", {"direct"}, calls, "answer", requests)

-----------------------------------------------------------------------------
\* Alibaba
AlibabaInstance      == Regional(<<Get(Own, {"id", "region"})>>, 1)
AlibabaDeep          == Regional(<<Find(Own, {"id", "region"})>>, 1)
AlibabaACKMonitoring == Regional(<<Get(Own, {"id", "region"}), Get(Own, {})>>, 2)
AlibabaPolarDB       == Regional(<<Get(Own, {"id", "region"})>>, 1)
AlibabaRedis         == Regional(<<Find(Own, {"id", "region"})>>, 1)

\* The name of a bucket is global: inventory tells whose it is and where.
AlibabaOSS == Regional(<<Find({"owner"}, {"id", "region", "owner"}), Get({"region"}, {})>>, Counted)

\* AWS
AWSInstance == Regional(<<Find(Own, {"id"})>>, 1)
AWSDeep     == Regional(<<Find(Own, {"id"})>>, 1)

\* Azure
AzureVM      == Subscribed(<<Get({"owner"}, {})>>, 1)
AzureDeep    == Subscribed(<<Get({"owner"}, {})>>, 1)
AzureNetwork == Subscribed(<<Get({"owner"}, {})>>, 1)

\* managedClusterRegion, and the storage account of a container.
Verified == Get({"owner"}, {"verified"})

AzureContainer == Subscribed(<<Verified, Get({"owner"}, {})>>, 2)
AzureObjects   == EachPart(Subscribed(<<Get({"owner"}, {"id"}), Get({}, {})>>, 2))
\* The user credentials of the cluster, then its nodes or a page of its pods.
AzureLiveNodes == EachPart(Subscribed(<<Verified, Aid, Get({"owner"}, {})>>, 3))

\* Mutant: the call for the region of the cluster is not counted.
AzureNodePoolsUncounted == EachPart(Subscribed(<<Verified, UpTo(MaxParts, Get({"owner"}, {}))>>, 1))

AzureNodePools == EachPart(Subscribed(<<Verified, UpTo(MaxParts, Get({"owner"}, {}))>>, Counted))

\* GCP: readScopedDetail asks for the ancestry of the project if the profile
\* names no project.  Reads of storage, node pools, nodes and pods do not look
\* at asset_scope.
Project == {"direct", "hierarchy"}

\* An instance is in a zone, a cluster in a zone or in a region, and the row is
\* labelled with the region (the cloud tells the zone of a cluster that has one).
GCPInstance  == Plan("zone", Project \cup {"asset_scope"}, <<Get(Own, {})>>, "converted", 1)
GCPCluster   == Plan("location", Project \cup {"asset_scope"}, <<Get(Own, {})>>, "converted", 1)
GCPNodePools == EachPart(Plan("location", Project, <<Get(Own, {})>>, "converted", 1))
GCPLiveNodes == EachPart(Plan("location", Project, <<Get(Own, {}), Get(Own, {})>>, "converted", 2))

GCPDatabase  == Plan("nowhere", Project \cup {"asset_scope"}, <<Get({"owner"}, {})>>, "answer", 1)
GCPNetwork   == Plan("region", Project \cup {"asset_scope"}, <<Get(Own, {})>>, "place", 1)
GCPBackendHealth == EachPart(Plan("region", Project \cup {"asset_scope"},
                                  <<Get(Own, {"id"}), UpTo(MaxParts, Get(Own, {}))>>, "place", Counted))

\* Mutant: the number of the project is not compared.
GCPBucketByName == Plan("nowhere", Project, <<Aid, Get({}, {})>>, "answer", 2)

\* The number of the project, then the bucket, which names its project.
GCPBucket  == Plan("nowhere", Project, <<Aid, Get({}, {"owner"})>>, "answer", 2)
GCPObjects == EachPart(Plan("nowhere", Project, <<Aid, Get({}, {"owner"}), Get({}, {"id"})>>, "answer", 3))

\* Huawei
HuaweiServer  == Regional(<<Get(Own, {})>>, 1)
HuaweiRDS     == Regional(<<Find(Own, {"id"})>>, 1)
HuaweiCluster == Regional(<<Get(Own, {})>>, 1)
\* Buckets, then parallel file systems, until one has the name.  The two lists
\* count as two requests even if the first is enough.
HuaweiOBSStorage == Plan("nowhere", {"direct", "account", "none"},
                         <<UpTo(2, Find({"owner"}, {"id", "verified"})), Get({"region"}, {})>>,
                         "answer", 3)

\* Tencent
TencentInstance == Regional(<<Find(Own, {"id"})>>, 1)
TencentDeep     == Regional(<<Find(Own, {"id"})>>, 1)
TencentCLB      == Regional(<<Find(Own, {"id"})>>, 1)
TencentVPC      == Regional(<<Find(Own, {"id"})>>, 1)
TencentRedis    == Regional(<<Find(Own, {"id"})>>, 1)
\* The access list names the owner, then location, versioning and lifecycle.
TencentCOS      == Regional(<<Get({"region"}, {"owner"}), Get({"region"}, {"region"}),
                              Get({"region"}, {}), Get({"region"}, {})>>, 4)

\* Volcengine
VolcengineInstance   == Regional(<<Find(Own, {"id"})>>, 1)
VolcengineBucket     == Plan("exact", {"direct"}, <<Get(Own, {"id"})>>, "answer", 1)
VolcengineDeep       == Plan("exact", {"direct"}, <<Get(Own, {"id"})>>, "answer", 1)
VolcengineCluster    == Regional(<<Find(Own, {"id"})>>, 1)
VolcengineNetwork    == Regional(<<Get(Own, {"id"})>>, 1)
\* Four calls whose answers name no bucket: only the credentials tell whose.
VolcengineTOSSetting == Regional(<<Get(Own, {}), Get(Own, {}), Get(Own, {}), Get(Own, {})>>, 4)

Plans == {AlibabaInstance, AlibabaDeep, AlibabaACKMonitoring, AlibabaPolarDB, AlibabaRedis, AlibabaOSS,
          AWSInstance, AWSDeep,
          AzureVM, AzureDeep, AzureNetwork, AzureContainer, AzureObjects, AzureLiveNodes, AzureNodePools,
          GCPInstance, GCPDatabase, GCPCluster, GCPNetwork, GCPBackendHealth, GCPNodePools,
          GCPLiveNodes, GCPBucket, GCPObjects,
          HuaweiServer, HuaweiRDS, HuaweiCluster, HuaweiOBSStorage,
          TencentInstance, TencentDeep, TencentCLB, TencentVPC, TencentRedis, TencentCOS,
          VolcengineInstance, VolcengineBucket, VolcengineDeep, VolcengineCluster,
          VolcengineNetwork, VolcengineTOSSetting}

VARIABLES plan, profile,
          asked,     \* request.Region, "" if it is not given
          location,  \* the zone, region or location in the params, for plans that have one
          pc,
          place,     \* the region the calls are addressed to
          thing,     \* what the name is of now, or Gone
          held,      \* history: what it was of since the attempt began
          step,      \* number of the call
          again,     \* calls made of this step
          made,      \* history: upstream calls of this attempt
          parts,     \* what the row is put together from
          charged,   \* requests of all attempts
          reported,  \* page.Requests of the attempt that succeeded
          built,     \* history: rows made, before the filter
          answer,    \* "row", "empty", "error" or "refused"
          moves

request    == <<plan, profile, asked, location>>
cloud      == <<thing, moves>>
attempt    == <<step, again, made, parts>>
detailVars == <<request, cloud, pc, place, held, attempt, charged, reported, built, answer>>

Larger(a, b)  == IF a >= b THEN a ELSE b
Smaller(a, b) == IF a <= b THEN a ELSE b

\* A name of another kind is not found there.
Locations == CASE plan.place = "zone"     -> Zones
               [] plan.place = "location" -> Zones \cup Regions
               [] plan.place = "region"   -> Regions
               [] OTHER                   -> {""}

DetailInit ==
  /\ plan \in Plans /\ profile \in Profiles
  /\ asked \in Spellings \cup {""}
  /\ location \in Locations
  /\ pc = "start" /\ place = ""
  /\ thing \in Thing \cup {Gone} /\ held = {} /\ moves = 0
  /\ step = 1 /\ again = 0 /\ made = 0 /\ parts = <<>>
  /\ charged = 0 /\ reported = 0 /\ built = 0 /\ answer = ""

-----------------------------------------------------------------------------
\* scopedAdapter.validateRegion, without patterns.
RegionAllowed == profile.regions = {} \/ asked \in profile.regions \cup Globals \cup {""}

\* exactDetailRegion: what is asked for, or the only region of the profile.
ExactRegions == IF asked # ""
                THEN {r \in {asked} : profile.regions = {} \/ asked \in profile.regions}
                ELSE {r \in profile.regions : profile.regions = {r}}

Places == IF plan.place = "exact" THEN ExactRegions ELSE {location}

\* Where a region or zone is in the cloud, and what the code makes of its name:
\* gcpRegionForLocation leaves out the last part of a zone, as the row of an
\* instance does.
RegionOf(l)          == IF l \in Zones THEN ZoneRegion[l] ELSE Lower[l]
RegionForLocation(l) == IF l \in Zones THEN ZoneRegion[l] ELSE l

\* verifyDetailRegion: capitals do not matter.
VerifiedRegion(r) == LET names == {s \in Spellings : Lower[s] = r}
                     IN /\ asked \in names \cup {""}
                        /\ profile.regions = {} \/ profile.regions \cap names # {}

\* Mutant: a row without a region of its own is no exception.
NoGlobalRows(r) == profile.regions = {} \/ r \in profile.regions

\* rowRegionAllowed: capitals do matter.
RowRegionAllowed(r) == profile.regions = {} \/ r \in profile.regions \cup Globals

ServiceAllowed == profile.served

\* The row is of the scope asked for, with its folders and organization where they
\* were asked about.  A row of Huawei has a project, never an account to compare.
RowScopeAllowed == profile.scope # "account"

\* readScopedDetail puts a call for the ancestry of the project in front.
Ancestry == IF profile.scope = "hierarchy" THEN <<Aid>> ELSE <<>>
Calls    == Ancestry \o plan.calls
Requests == IF plan.requests = Counted THEN made ELSE plan.requests + Len(Ancestry)

Budget == Smaller(3, MaxRequests)

-----------------------------------------------------------------------------
\* NativeReadWithID and the scoped adapter pass the request on.
Begin == /\ pc = "start"
         /\ RegionAllowed /\ profile.scope \in plan.scopes
         /\ \E p \in Places : place' = p
         /\ pc' = "read" /\ held' = {thing}
         /\ UNCHANGED <<request, cloud, attempt, charged, reported, built, answer>>

Refuse == /\ pc = "start"
          /\ ~RegionAllowed \/ profile.scope \notin plan.scopes \/ Places = {}
          /\ answer' = "refused" /\ pc' = "done"
          /\ UNCHANGED <<request, cloud, place, held, attempt, charged, reported, built>>

\* What the cloud may answer a call with.
Answers(c) == {x \in (IF c.how = "find" THEN Others ELSE {}) \cup ({thing} \ {Gone}) :
                 /\ "region" \in c.within => x.region = (IF plan.place = "nowhere"
                                                         THEN parts[1].region ELSE RegionOf(place))
                 /\ "owner" \in c.within => x.owner = "ours"}

Accepted(c, x) == /\ "id" \in c.checks => x.id = "asked"
                  /\ "region" \in c.checks => x.region = place
                  /\ "owner" \in c.checks => x.owner = "ours"
                  /\ "verified" \in c.checks => VerifiedRegion(x.region)

\* A call is answered and the answer passes; there may be more calls of the step.
Read == /\ pc = "read" /\ step <= Len(Calls)
        /\ LET c == Calls[step]
           IN /\ \/ c.how = "aid" /\ parts' = parts
                 \/ /\ c.how # "aid"
                    /\ \E x \in Answers(c) : Accepted(c, x) /\ parts' = Append(parts, x)
              /\ \/ step' = step + 1 /\ again' = 0
                 \/ c.how = "get" /\ again + 1 < c.most /\ again' = again + 1 /\ step' = step
        /\ made' = made + 1
        /\ UNCHANGED <<request, cloud, pc, place, held, charged, reported, built, answer>>

\* It is in none of the things of this list, and there is another list.
ReadOn == /\ pc = "read" /\ step <= Len(Calls)
          /\ Calls[step].how = "find" /\ again + 1 < Calls[step].most
          /\ again' = again + 1 /\ made' = made + 1
          /\ UNCHANGED <<request, cloud, pc, place, held, step, parts, charged, reported, built, answer>>

\* Any call may fail, and an answer that does not pass is an error too.  The
\* error page counts no requests, or those made; one at least is charged.
Fail == /\ pc = "read" /\ step <= Len(Calls)
        /\ \E requests \in {0, made + 1}, retryable \in BOOLEAN :
             /\ charged' = charged + Larger(1, requests)
             /\ IF retryable /\ charged' < Budget
                THEN /\ step' = 1 /\ again' = 0 /\ made' = 0 /\ parts' = <<>>
                     /\ held' = {thing}
                     /\ UNCHANGED <<pc, answer>>
                ELSE /\ answer' = "error" /\ pc' = "done"
                     /\ UNCHANGED <<attempt, held>>
        /\ UNCHANGED <<request, cloud, place, reported, built>>

\* The region of the row: where it was read, or what the first answer says.
Label == CASE plan.label = "place"     -> place
           [] plan.label = "converted" -> RegionForLocation(place)
           [] plan.label = "answer"    -> parts[1].region

\* All calls are answered: what rows there are pass the filter of the scoped
\* adapter, or are dropped.
Finish == /\ pc = "read" /\ step > Len(Calls)
          /\ built' \in plan.rows
          /\ answer' = IF /\ built' > 0 /\ ServiceAllowed
                          /\ RowRegionAllowed(Label) /\ RowScopeAllowed
                       THEN "row" ELSE "empty"
          /\ reported' = Requests
          /\ charged' = charged + Larger(1, Requests)
          /\ pc' = "done"
          /\ UNCHANGED <<request, cloud, place, held, attempt>>

\* The thing is deleted, or the name is given to another.
Move == /\ pc = "read" /\ moves < MaxMoves
        /\ \E x \in (Thing \cup {Gone}) \ {thing} : thing' = x /\ held' = held \cup {x}
        /\ moves' = moves + 1
        /\ UNCHANGED <<request, pc, place, attempt, charged, reported, built, answer>>

Done == pc = "done" /\ UNCHANGED detailVars

DetailNext == Begin \/ Refuse \/ Read \/ ReadOn \/ Fail \/ Finish \/ Move \/ Done
DetailSpec == DetailInit /\ [][DetailNext]_detailVars
-----------------------------------------------------------------------------
DetailTypeOK ==
  /\ plan \in Plans /\ profile \in Profiles
  /\ asked \in Spellings \cup {""} /\ location \in Locations
  /\ pc \in {"start", "read", "done"} /\ place \in Spellings \cup Zones \cup {""}
  /\ thing \in Thing \cup {Gone} /\ held \subseteq Thing \cup {Gone}
  /\ step \in 1..Len(Calls) + 1 /\ again \in 0..MaxParts + 1 /\ made \in Nat
  /\ parts \in Seq(Thing) /\ charged \in Nat /\ reported \in Nat /\ built \in {0, 1}
  /\ answer \in {"", "row", "empty", "error", "refused"} /\ moves \in 0..MaxMoves

(* A row is put together only from what the name was of during the attempt, *)
(* with some part of our scope, and never from outside the regions of the   *)
(* profile.  If the thing stayed what it was, every part of the row is of   *)
(* it, it is ours, and the row tells its region (docs/providers.md:61,      *)
(* docs/tools.md:272).                                                      *)
RowIsOfTheAsked ==
  answer = "row" =>
    /\ \E i \in DOMAIN parts : parts[i].owner = "ours"
    /\ \A i \in DOMAIN parts : parts[i] \in held
    /\ profile.regions # {} => \E x \in held : \E r \in profile.regions \cup {"global"} :
                                  Lower[r] = x.region
    /\ Cardinality(held) = 1 => \A i \in DOMAIN parts :
         /\ parts[i] = thing /\ parts[i].owner = "ours" /\ parts[i].region = Lower[Label]

(* The page of a successful read counts at least the upstream calls that were *)
(* made for it, whatever was searched, paged through or asked about first:    *)
(* budgets and audit records rest on it.                                      *)
CallsAreCounted == answer \in {"row", "empty"} => reported >= made

(* A read that succeeds is empty for a reason: the thing has none of the      *)
(* parts that are listed, the services of the profile leave it out, it was in *)
(* a region that the profile does not name, or, for the storage of an OBS     *)
(* bucket, the profile has an account and no project.  A plan that verifies   *)
(* the region refuses a thing elsewhere; with one the region makes an answer  *)
(* empty only if the profile spells it with other capitals (rows are dropped  *)
(* without an error, provider/scoped.go:185).                                 *)
EmptyForAReason ==
  answer = "empty" =>
    \/ built = 0 /\ 0 \in plan.rows
    \/ ~profile.served
    \/ plan = HuaweiOBSStorage /\ profile.scope = "account"
    \/ /\ \E x \in held : x.region \notin profile.regions \cup {"global"}
       /\ (\E i \in DOMAIN plan.calls : "verified" \in plan.calls[i].checks) =>
            Lower[Label] \in {Lower[r] : r \in profile.regions}
=============================================================================
