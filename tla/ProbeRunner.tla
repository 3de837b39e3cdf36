---------------------------- MODULE ProbeRunner ----------------------------
(***************************************************************************)
(* Runner.Run and Runner.probeProfile: what /readyz, mcpcloud probe and    *)
(* doctor know about a profile after reading a few pages of its inventory, *)
(* and setup.Diagnose, which makes a report of its own of the same reads.  *)
(* The provider answers with rows of any scope, any token or an error; the *)
(* rows pass through the filter of the scoped adapter.                     *)
(***************************************************************************)
EXTENDS Naturals, FiniteSets

CONSTANTS Profiles,    \* enabled profiles, numbered in the order of their names
          Regions,     \* names of regions
          Scopes,      \* scopes a profile may be configured with, or rows belong to
          Folders,     \* those of them that no key of the evidence names
          Services,    \* names of services and of their domains
          Pages,       \* model bound: the pages of rows a provider answers with
          Tokens,      \* continuation tokens
          Configs,     \* configurations of the profiles
          MaxScopes,   \* values kept of each scope key (64)
          MaxPages,    \* probeMaxPages (10)
          ProbePageSize, MaxPageSize   \* 100, and limits.max_page_size

ASSUME ProfilesAssumption == Profiles \subseteq Nat /\ IsFiniteSet(Profiles) /\ Profiles # {}
ASSUME ScopesAssumption   == IsFiniteSet(Scopes) /\ Folders \subseteq Scopes
ASSUME BoundsAssumption   == MaxScopes \in Nat \ {0} /\ MaxPages \in Nat \ {0}

\* A row: its value of the scope key that the profile's scopes are compared with,
\* its service and domain, and its region, which a row need not have.
Row == [scope : Scopes, names : SUBSET Services, region : Regions \cup {"", "global"}]
ASSUME PagesAssumption == Pages \subseteq SUBSET Row

\* What matters of a profile: whether its environment variables are there,
\* whether its adapter says it is ready, whether it registers an inventory
\* read, its lists of services and regions, and its configured resources scopes.
Conf == [env : BOOLEAN, ready : BOOLEAN, op : BOOLEAN,
         services : SUBSET (Services \cup {"*"}), regions : SUBSET (Regions \cup {"*"}),
         targets : SUBSET Scopes]
ASSUME ConfigsAssumption == Configs \subseteq [Profiles -> Conf]

NoToken == ""

VARIABLES conf,     \* configuration of each profile
          mode,     \* "probe" (also /readyz), "doctor" or "offline" (doctor --offline)
          pc,
          pending,  \* profiles still to be probed
          regions,  \* regions of the current profile still to be read
          page,     \* pageNumber
          token,    \* request.PageToken
          result,   \* ProfileResult of each profile
          report,   \* status of the report
          seen      \* history: the rows the provider returned for each profile

vars == <<conf, mode, pc, pending, regions, page, token, result, report, seen>>
place == <<regions, page, token>>

Unprobed == [status |-> "none", auth |-> FALSE, verified |-> FALSE, observed |-> {}]

-----------------------------------------------------------------------------
\* Diagnose probes only profiles whose environment is complete.
Selected(c, m) == CASE m = "probe"   -> Profiles
                    [] m = "doctor"  -> {p \in Profiles : c[p].env}
                    [] m = "offline" -> {}

Init == /\ conf \in Configs
        /\ mode \in {"probe", "doctor", "offline"}
        /\ pc = "next"
        /\ pending = Selected(conf, mode)
        /\ regions = {} /\ page = 0 /\ token = NoToken
        /\ result = [p \in Profiles |-> Unprobed]
        /\ report = "none"
        /\ seen = [p \in Profiles |-> {}]

\* The profile that is probed: they are probed in the order of their names.
Current == CHOOSE p \in pending : \A q \in pending : p <= q

ProbeRegions(p) == LET R == conf[p].regions
                   IN IF R = {} \/ "*" \in R THEN {""} ELSE R

ServiceAllowed(p, row) == LET names == conf[p].services
                          IN names = {} \/ "*" \in names \/ row.names \cap names # {}

RowRegionAllowed(p, row) == LET names == conf[p].regions
                            IN \/ names = {} \/ "*" \in names
                               \/ row.region \in names \cup {"", "global"}

RowScopeAllowed(p, row) == conf[p].targets = {} \/ row.scope \in conf[p].targets

\* Mutant: the profile's services and regions are not looked at.
FilterByScope(p, rows) == {row \in rows : RowScopeAllowed(p, row)}

\* scopedAdapter.filterRows: rows of other services, regions and scopes are dropped.
FilterRows(p, rows) == {row \in rows : /\ ServiceAllowed(p, row)
                                       /\ RowRegionAllowed(p, row)
                                       /\ RowScopeAllowed(p, row)}

ObservedScopes(rows) == {row.scope : row \in rows}

\* mergeScopes: at most MaxScopes values of a key survive,
\* the ones already there first and then in the order of the rows.
Merged(old, new) == {s \in SUBSET (old \cup new) :
                       /\ Cardinality(old) <= MaxScopes => old \subseteq s
                       /\ Cardinality(s) <= MaxScopes
                       /\ s = old \cup new \/ Cardinality(s) = MaxScopes}

\* observedScopeMatches: a folder is no value of any key that is observed.
Matches(p, observed) == {s \in conf[p].targets \ Folders : s \in observed}

\* scopeEvidence: the scope is verified if it is the only one.
Evidence(p, observed) == /\ Cardinality(conf[p].targets) = 1
                         /\ Cardinality(Matches(p, observed)) = 1

\* A result is complete; on to the next profile.
Conclude(p, r) == /\ result' = [result EXCEPT ![p] = r]
                  /\ pending' = pending \ {p}
                  /\ pc' = "next"
                  /\ regions' = {} /\ page' = 0 /\ token' = NoToken

-----------------------------------------------------------------------------
\* Not ready, or no inventory read: a result without a read.
Decline == /\ pc = "next" /\ pending # {}
           /\ ~conf[Current].ready \/ ~conf[Current].op
           /\ Conclude(Current, [Unprobed EXCEPT !.status = "not_ready"])
           /\ UNCHANGED <<conf, mode, report, seen>>

StartProfile == /\ pc = "next" /\ pending # {}
                /\ conf[Current].ready /\ conf[Current].op
                /\ pc' = "read"
                /\ regions' = ProbeRegions(Current)
                /\ UNCHANGED <<conf, mode, pending, page, token, result, report, seen>>

\* Whatever was read before, an error ends the profile as not_ready.
ReadFails == /\ pc = "read"
             /\ Conclude(Current, [result[Current] EXCEPT !.status = "not_ready"])
             /\ UNCHANGED <<conf, mode, report, seen>>

\* Mutant: pages are not counted.
PagesReadForgotten == page

PagesRead == page + 1

\* Nothing follows in this region, or nothing new, or enough was read.
LastPage(next) == next \in {NoToken, token} \/ PagesRead = MaxPages

\* One page; the region is any that is left (they are read in the order of the
\* configuration). NativeReadWithID refuses a page size above the limit.
ReadPage ==
  /\ pc = "read" /\ ProbePageSize <= MaxPageSize
  /\ \E rows \in Pages, next \in Tokens \cup {NoToken} :
       LET p    == Current
           kept == ObservedScopes(FilterRows(p, rows))
       IN \E observed \in Merged(result[p].observed, kept) :
            LET verified  == Evidence(p, observed)
                r(status) == [status   |-> status, auth |-> TRUE,
                              verified |-> verified, observed |-> observed]
            IN /\ seen' = [seen EXCEPT ![p] = @ \cup rows]
               /\ \/ /\ verified
                     /\ Conclude(p, r("ready"))
                  \/ /\ ~verified /\ ~LastPage(next)
                     /\ result' = [result EXCEPT ![p] = r("none")]
                     /\ page' = PagesRead /\ token' = next
                     /\ UNCHANGED <<pc, pending, regions>>
                  \/ /\ ~verified /\ LastPage(next) /\ Cardinality(regions) > 1
                     /\ \E g \in regions : regions' = regions \ {g}
                     /\ result' = [result EXCEPT ![p] = r("none")]
                     /\ page' = 0 /\ token' = NoToken
                     /\ UNCHANGED <<pc, pending>>
                  \/ /\ ~verified /\ LastPage(next) /\ Cardinality(regions) = 1
                     /\ Conclude(p, r("degraded"))
  /\ UNCHANGED <<conf, mode, report>>

-----------------------------------------------------------------------------
\* Runner.Run: all are ready, some can be reached, or none.
RunStatus == LET at(s) == {p \in Profiles : result[p].status = s}
             IN IF at("ready") = Profiles THEN "ready"
                ELSE IF at("ready") \cup at("degraded") # {} THEN "degraded" ELSE "not_ready"

\* Diagnose does not look at the status of a result, only at its evidence.
Diagnosis(p) == IF ~conf[p].env THEN "not_ready"
                ELSE IF mode = "offline" THEN "offline"
                ELSE IF ~result[p].auth THEN "not_ready"
                ELSE IF result[p].verified THEN "ready" ELSE "degraded"

\* The report of doctor is the worst of its profiles.
DoctorStatus == LET some(s) == \E p \in Profiles : Diagnosis(p) = s
                IN IF some("not_ready") THEN "not_ready"
                   ELSE IF some("degraded") THEN "degraded"
                   ELSE IF some("offline") THEN "offline" ELSE "ready"

Report == /\ pc = "next" /\ pending = {}
          /\ report' = IF mode = "probe" THEN RunStatus ELSE DoctorStatus
          /\ pc' = "done"
          /\ UNCHANGED <<conf, mode, pending, place, result, seen>>

Done == pc = "done" /\ UNCHANGED vars

Next == Decline \/ StartProfile \/ ReadFails \/ ReadPage \/ Report \/ Done

\* A run goes on: each read ends with an answer or by the deadline of the run.
Spec == Init /\ [][Next]_vars /\ WF_vars(Next)
-----------------------------------------------------------------------------
Statuses == {"none", "ready", "degraded", "not_ready", "offline"}

TypeOK == /\ conf \in Configs
          /\ mode \in {"probe", "doctor", "offline"}
          /\ pc \in {"next", "read", "done"}
          /\ pending \subseteq Profiles
          /\ regions \subseteq Regions \cup {""}
          /\ page \in 0..MaxPages - 1
          /\ token \in Tokens \cup {NoToken}
          /\ result \in [Profiles -> [status : Statuses, auth : BOOLEAN, verified : BOOLEAN,
                                      observed : SUBSET Scopes]]
          /\ report \in Statuses
          /\ seen \in [Profiles -> SUBSET Row]

\* The row is evidence of the profile's only scope: it belongs to it, and to a service and
\* a region that the profile lists, if it lists any.
Shows(p, row) ==
  LET lists(names, values) == names = {} \/ names \cap (values \cup {"*"}) # {}
  IN /\ conf[p].targets = {row.scope} /\ row.scope \notin Folders
     /\ lists(conf[p].services, row.names)
     /\ row.region \in {"", "global"} \/ lists(conf[p].regions, {row.region})

Seen(p) == \E row \in seen[p] : Shows(p, row)

(* A profile that was probed is ready exactly when it has one resources scope *)
(* and a row of it, of the services and regions the profile is about, was     *)
(* returned in this run: evidence is neither made up nor lost among other     *)
(* rows, to the cap on values, or in later pages and regions that fail.  A    *)
(* scope that only shows in other services leaves the profile degraded        *)
(* (setup/doctor.go:164).  A ready report, of probe or doctor, says this of   *)
(* every profile (docs/configuration.md:111).                                 *)
ReadyIffSeen ==
  /\ \A p \in Profiles \ pending : result[p].status = "ready" <=> Seen(p)
  /\ pc = "done" => (report = "ready" <=> \A p \in Profiles : Seen(p))

(* A run ends, whatever tokens the provider answers with.                     *)
RunEnds == <>(pc = "done")

(* README.md:101: "any authenticated but incomplete evidence yields degraded, *)
(* and when no selected profile is reachable the result is not_ready".        *)
AuthenticatedIsReachable ==
  pc = "done" /\ mode = "probe" /\ report = "not_ready" => \A p \in Profiles : ~result[p].auth
=============================================================================
