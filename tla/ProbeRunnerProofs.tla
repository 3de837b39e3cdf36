------------------------- MODULE ProbeRunnerProofs -------------------------
(***************************************************************************)
(* A profile is ready exactly if its unique scope was seen.  While it is    *)
(* being probed nothing of that scope has been kept, so the cap on kept     *)
(* values cannot have squeezed it out, and the page that brings it decides. *)
(***************************************************************************)
EXTENDS ProbeRunner, TLAPS, FiniteSetTheorems, WellFoundedInduction

\* The one scope that counts for a profile.
Unique(p, s) == s \in Scopes \ Folders /\ conf[p].targets = {s}

\* A profile still to be probed, or being probed, has shown nothing that counts.
Open(p) == /\ ~Seen(p)
           /\ ~result[p].verified
           /\ \A s : Unique(p, s) => result[p].observed = {}

\* A result is the verdict on what was seen.
Judged(p) == /\ result[p].status = "ready" <=> Seen(p)
             /\ result[p].auth /\ result[p].verified <=> Seen(p)

IInv == /\ TypeOK
        /\ pc = "read" => pending # {}
        /\ pc = "done" => pending = {} /\ (report = "ready" <=> \A p \in Profiles : Seen(p))
        /\ pending \subseteq Selected(conf, mode)
        /\ \A p \in Profiles \ Selected(conf, mode) : seen[p] = {}
        /\ \A p \in pending : Open(p)
        /\ \A p \in Profiles \ pending : Judged(p)

-----------------------------------------------------------------------------
\* The first of some profiles.
LEMMA CurrentIsPending ==
  ASSUME pending \subseteq Profiles, pending # {}
  PROVE  \E p \in pending : p = Current
  <1>1. pending \subseteq Nat BY ProfilesAssumption
  <1>2. PICK p \in pending : \A q \in pending : ~(<<q, p>> \in OpToRel(<, Nat))
    BY <1>1, WFMin, NatLessThanWellFounded
  <1>3. \A q \in pending : p <= q
    <2> TAKE q \in pending
    <2>1. ~(q < p) BY <1>1, <1>2 DEF OpToRel
    <2> QED BY <1>1, <2>1
  <1> QED BY <1>2, <1>3 DEF Current

LEMMA ConfTyped == ASSUME TypeOK, NEW p \in Profiles PROVE conf[p] \in Conf
  BY ConfigsAssumption DEF TypeOK

\* Seeing depends on the configuration and on the rows returned.
LEMMA SeenSame ==
  ASSUME UNCHANGED conf, NEW p, seen'[p] = seen[p]
  PROVE  Seen(p)' <=> Seen(p)
  BY DEF Seen, Shows

LEMMA InitInv == Init => IInv
  <1> SUFFICES ASSUME Init PROVE IInv OBVIOUS
  <1>1. pending \subseteq Profiles BY DEF Init, Selected
  <1>2. \A p \in Profiles : ~Seen(p) BY DEF Init, Seen
  <1>3. TypeOK
    BY <1>1, BoundsAssumption DEF Init, TypeOK, Unprobed, Statuses
  <1> QED BY <1>1, <1>2, <1>3 DEF Init, IInv, Open, Judged, Unprobed

-----------------------------------------------------------------------------
\* The evidence of a profile is its unique scope among the kept values.
LEMMA EvidenceMeans ==
  ASSUME TypeOK, NEW p \in Profiles, NEW observed \in SUBSET Scopes
  PROVE  Evidence(p, observed) <=> \E s \in observed : Unique(p, s)
  <1> DEFINE T == conf[p].targets
             M == Matches(p, observed)
  <1>1. T \subseteq Scopes /\ IsFiniteSet(T)
    BY ConfTyped, ScopesAssumption, FS_Subset DEF Conf
  <1>2. M \subseteq T /\ IsFiniteSet(M)
    BY <1>1, FS_Subset DEF Matches
  <1>3. ASSUME Evidence(p, observed) PROVE \E s \in observed : Unique(p, s)
    <2>1. PICK s : T = {s}
      BY <1>1, <1>3, FS_Singleton DEF Evidence
    <2>2. M # {}
      BY <1>3, FS_EmptySet DEF Evidence
    <2> QED BY <1>1, <2>1, <2>2 DEF Matches, Unique
  <1>4. ASSUME NEW s \in observed, Unique(p, s) PROVE Evidence(p, observed)
    <2>1. T = {s} BY <1>4 DEF Unique
    <2>2. M = {s} BY <1>4, <2>1 DEF Matches, Unique
    <2> QED BY <2>1, <2>2, FS_Singleton DEF Evidence
  <1> QED BY <1>3, <1>4

\* What the filter leaves of a page, as far as a unique scope goes: the rows that show it.
LEMMA FilterMeans ==
  ASSUME TypeOK, NEW p \in Profiles, NEW rows \in SUBSET Row, NEW s, Unique(p, s)
  PROVE  /\ FilterRows(p, rows) = {row \in rows : Shows(p, row)}
         /\ ObservedScopes(FilterRows(p, rows)) = {t \in {s} : \E row \in rows : Shows(p, row)}
  <1>1. ASSUME NEW row \in rows
        PROVE  /\ ServiceAllowed(p, row) /\ RowRegionAllowed(p, row) /\ RowScopeAllowed(p, row)
                    <=> Shows(p, row)
               /\ Shows(p, row) => row.scope = s
    <2>1. ServiceAllowed(p, row) <=>
            \/ conf[p].services = {} \/ conf[p].services \cap (row.names \cup {"*"}) # {}
      BY DEF ServiceAllowed
    <2>2. RowRegionAllowed(p, row) <=>
            \/ row.region \in {"", "global"}
            \/ conf[p].regions = {} \/ conf[p].regions \cap ({row.region} \cup {"*"}) # {}
      BY DEF RowRegionAllowed
    <2>3. RowScopeAllowed(p, row) <=> conf[p].targets = {row.scope} /\ row.scope \notin Folders
      BY DEF RowScopeAllowed, Unique
    <2>4. Shows(p, row) => row.scope = s BY DEF Shows, Unique
    <2> QED BY <2>1, <2>2, <2>3, <2>4 DEF Shows
  <1>2. FilterRows(p, rows) = {row \in rows : Shows(p, row)}
    BY <1>1 DEF FilterRows
  <1> QED BY <1>1, <1>2 DEF ObservedScopes

LEMMA ObservedTyped ==
  ASSUME NEW p, NEW rows \in SUBSET Row
  PROVE  ObservedScopes(FilterRows(p, rows)) \in SUBSET Scopes
  BY DEF ObservedScopes, FilterRows, Row

\* What a page leaves of a unique scope is whether a row of the page shows it.
LEMMA KeptOfUnique ==
  ASSUME TypeOK, NEW p \in pending, NEW rows \in SUBSET Row, NEW s, Unique(p, s), Open(p),
         NEW observed \in Merged(result[p].observed, ObservedScopes(FilterRows(p, rows)))
  PROVE  observed = {t \in {s} : \E row \in rows : Shows(p, row)}
  <1> DEFINE kept == ObservedScopes(FilterRows(p, rows))
  <1>1. p \in Profiles BY DEF TypeOK
  <1>2. kept = {t \in {s} : \E row \in rows : Shows(p, row)}
    BY <1>1, FilterMeans
  <1>3. result[p].observed = {} BY DEF Open
  <1> HIDE DEF kept
  <1>4. observed \in Merged({}, kept) BY <1>3 DEF kept
  <1>5. observed \subseteq kept
    BY <1>4 DEF Merged
  <1>6. CASE observed = {}
    <2>1. Cardinality(observed) = 0 BY <1>6, FS_EmptySet
    <2>2. Cardinality(observed) # MaxScopes BY <2>1, BoundsAssumption
    <2>3. observed = {} \cup kept BY <1>4, <2>2 DEF Merged
    <2> QED BY <1>2, <2>3
  <1>7. CASE observed # {} BY <1>2, <1>5, <1>7
  <1> QED BY <1>6, <1>7

LEMMA PageDecides ==
  ASSUME TypeOK, NEW p \in pending, Open(p), NEW rows \in SUBSET Row,
         NEW observed \in Merged(result[p].observed, ObservedScopes(FilterRows(p, rows)))
  PROVE  /\ observed \in SUBSET Scopes
         /\ Evidence(p, observed) <=> \E row \in rows : Shows(p, row)
         /\ ~Evidence(p, observed) => \A s : Unique(p, s) => observed = {}
  <1>1. p \in Profiles BY DEF TypeOK
  <1>2. observed \in SUBSET Scopes
    BY <1>1, ObservedTyped DEF TypeOK, Merged
  <1>3. Evidence(p, observed) <=> \E s \in observed : Unique(p, s)
    BY <1>1, <1>2, EvidenceMeans
  <1>4. ASSUME NEW s, Unique(p, s)
        PROVE  observed = {t \in {s} : \E row \in rows : Shows(p, row)}
    BY <1>4, KeptOfUnique
  <1>5. ASSUME NEW row \in rows, Shows(p, row) PROVE Unique(p, row.scope)
    BY <1>5 DEF Shows, Unique, Row
  <1>6. (\E s \in observed : Unique(p, s)) <=> \E row \in rows : Shows(p, row)
    <2>1. ASSUME NEW s \in observed, Unique(p, s) PROVE \E row \in rows : Shows(p, row)
      BY <1>4, <2>1
    <2>2. ASSUME NEW row \in rows, Shows(p, row) PROVE \E s \in observed : Unique(p, s)
      BY <1>4, <1>5, <2>2
    <2> QED BY <2>1, <2>2
  <1>7. ASSUME ~(\E row \in rows : Shows(p, row)), NEW s, Unique(p, s) PROVE observed = {}
    BY <1>4, <1>7
  <1> QED BY <1>2, <1>3, <1>6, <1>7

-----------------------------------------------------------------------------
\* A profile is concluded: the others are as they were.
LEMMA ConcludeStep ==
  ASSUME IInv, NEW p \in pending, p = Current, NEW r, Conclude(p, r), pc # "done",
         UNCHANGED <<conf, mode, report>>,
         r \in [status : Statuses, auth : BOOLEAN, verified : BOOLEAN, observed : SUBSET Scopes],
         seen' \in [Profiles -> SUBSET Row],
         \A q \in Profiles \ {p} : seen'[q] = seen[q],
         r.status = "ready" <=> Seen(p)',
         r.auth /\ r.verified <=> Seen(p)'
  PROVE  IInv'
  <1>1. p \in Profiles /\ p \in Selected(conf, mode)
    BY DEF IInv, TypeOK
  <1>2. TypeOK'
    <2>1. result' \in [Profiles -> [status : Statuses, auth : BOOLEAN, verified : BOOLEAN, observed : SUBSET Scopes]]
      BY <1>1 DEF IInv, TypeOK, Conclude
    <2>2. 0 \in 0..MaxPages - 1 BY BoundsAssumption
    <2>3. /\ pending' \subseteq Profiles /\ pc' = "next" /\ regions' = {}
          /\ page' = 0 /\ token' = NoToken
      BY DEF IInv, TypeOK, Conclude
    <2> QED BY <2>1, <2>2, <2>3 DEF IInv, TypeOK
  <1>3. Selected(conf, mode)' = Selected(conf, mode) BY DEF Selected
  <1>4. ASSUME NEW q \in Profiles, q # p
        PROVE  /\ Seen(q)' <=> Seen(q)
               /\ result'[q] = result[q]
               /\ Open(q) => Open(q)'
               /\ Judged(q) => Judged(q)'
    <2>1. Seen(q)' <=> Seen(q) BY <1>4, SeenSame
    <2>2. result'[q] = result[q] BY <1>1, <1>4 DEF IInv, TypeOK, Conclude
    <2> QED BY <2>1, <2>2 DEF Open, Judged, Unique
  <1>5. Judged(p)'
    <2>1. result'[p] = r BY <1>1 DEF IInv, TypeOK, Conclude
    <2> QED BY <2>1 DEF Judged
  <1>6. pending' = pending \ {p} /\ pc' = "next" BY DEF Conclude
  <1>7. \A q \in Profiles \ Selected(conf, mode) : seen'[q] = {}
    BY <1>1 DEF IInv
  <1>8. \A q \in pending' : Open(q)'
    BY <1>4, <1>6 DEF IInv, TypeOK
  <1>9. \A q \in Profiles \ pending' : Judged(q)'
    BY <1>4, <1>5, <1>6 DEF IInv, TypeOK
  <1> QED BY <1>2, <1>3, <1>6, <1>7, <1>8, <1>9 DEF IInv

LEMMA DeclineStep == IInv /\ Decline => IInv'
  <1> SUFFICES ASSUME IInv, Decline PROVE IInv' OBVIOUS
  <1>0. PICK p \in pending : p = Current
    BY CurrentIsPending DEF IInv, TypeOK, Decline
  <1> DEFINE r == [Unprobed EXCEPT !.status = "not_ready"]
  <1>1. Open(p) BY DEF IInv
  <1>2. ~Seen(p)' BY <1>1, SeenSame DEF Open, Decline
  <1>3. r \in [status : Statuses, auth : BOOLEAN, verified : BOOLEAN, observed : SUBSET Scopes]
    BY DEF Unprobed, Statuses
  <1>4. r.status # "ready" /\ ~r.auth BY DEF Unprobed
  <1>5. seen' = seen /\ seen \in [Profiles -> SUBSET Row] BY DEF Decline, IInv, TypeOK
  <1>6. Conclude(p, r) /\ pc # "done" /\ UNCHANGED <<conf, mode, report>>
    BY <1>0 DEF Decline
  <1> HIDE DEF r
  <1> QED BY <1>0, <1>2, <1>3, <1>4, <1>5, <1>6, ConcludeStep

LEMMA ReadFailsStep == IInv /\ ReadFails => IInv'
  <1> SUFFICES ASSUME IInv, ReadFails PROVE IInv' OBVIOUS
  <1>0. PICK p \in pending : p = Current
    BY CurrentIsPending DEF IInv, TypeOK, ReadFails
  <1> DEFINE r == [result[p] EXCEPT !.status = "not_ready"]
  <1>1. p \in Profiles /\ Open(p) BY DEF IInv, TypeOK
  <1>2. ~Seen(p)' BY <1>1, SeenSame DEF Open, ReadFails
  <1>3. result[p] \in [status : Statuses, auth : BOOLEAN, verified : BOOLEAN, observed : SUBSET Scopes]
    BY <1>1 DEF IInv, TypeOK
  <1>4. /\ r \in [status : Statuses, auth : BOOLEAN, verified : BOOLEAN, observed : SUBSET Scopes]
        /\ r.status # "ready" /\ ~r.verified
    BY <1>1, <1>3 DEF Open, Statuses
  <1>5. seen' = seen /\ seen \in [Profiles -> SUBSET Row] BY DEF ReadFails, IInv, TypeOK
  <1>6. Conclude(p, r) /\ pc # "done" /\ UNCHANGED <<conf, mode, report>>
    BY <1>0 DEF ReadFails
  <1> HIDE DEF r
  <1> QED BY <1>0, <1>2, <1>4, <1>5, <1>6, ConcludeStep

LEMMA StartStep == IInv /\ StartProfile => IInv'
  <1> SUFFICES ASSUME IInv, StartProfile PROVE IInv' OBVIOUS
  <1>1. Current \in Profiles
    BY CurrentIsPending DEF IInv, TypeOK, StartProfile
  <1>2. ProbeRegions(Current) \subseteq Regions \cup {""}
    BY <1>1, ConfTyped DEF IInv, Conf, ProbeRegions
  <1>3. TypeOK' BY <1>2 DEF IInv, TypeOK, StartProfile
  <1>4. \A p : Seen(p)' <=> Seen(p) BY SeenSame DEF StartProfile
  <1> QED BY <1>3, <1>4 DEF IInv, StartProfile, Selected, Open, Judged, Unique

-----------------------------------------------------------------------------
\* A page without evidence, after which the profile goes on to be read.
LEMMA ContinueStep ==
  ASSUME IInv, pc = "read", NEW p \in pending, p = Current, NEW rows \in SUBSET Row,
         NEW observed \in Merged(result[p].observed, ObservedScopes(FilterRows(p, rows))),
         ~Evidence(p, observed),
         seen' = [seen EXCEPT ![p] = @ \cup rows],
         result' = [result EXCEPT ![p] = [status |-> "none", auth |-> TRUE,
                       verified |-> Evidence(p, observed), observed |-> observed]],
         UNCHANGED <<conf, mode, pc, pending, report>>,
         regions' \subseteq regions, page' \in 0..MaxPages - 1, token' \in Tokens \cup {NoToken}
  PROVE  IInv'
  <1>1. p \in Profiles /\ Open(p)
    BY DEF IInv, TypeOK
  <1>2. /\ observed \in SUBSET Scopes
        /\ \A row \in rows : ~Shows(p, row)
        /\ \A s : Unique(p, s) => observed = {}
    BY <1>1, PageDecides DEF IInv
  <1>0. Evidence(p, observed) = FALSE BY DEF Evidence
  <1> DEFINE r == [status |-> "none", auth |-> TRUE, verified |-> FALSE, observed |-> observed]
  <1>r. r \in [status : Statuses, auth : BOOLEAN, verified : BOOLEAN, observed : SUBSET Scopes]
    BY <1>2 DEF Statuses
  <1>e. ~r.verified /\ r.observed = observed OBVIOUS
  <1>n. result' = [result EXCEPT ![p] = r] BY <1>0
  <1> HIDE DEF r
  <1>3. result'[p] = r
    BY <1>1, <1>n DEF IInv, TypeOK
  <1>4. seen'[p] = seen[p] \cup rows BY <1>1 DEF IInv, TypeOK
  <1>5. \A q \in Profiles \ {p} : seen'[q] = seen[q] /\ result'[q] = result[q]
    BY <1>n DEF IInv, TypeOK
  <1>6. TypeOK'
    <2>1. seen' \in [Profiles -> SUBSET Row] BY <1>1 DEF IInv, TypeOK
    <2>2. result' \in [Profiles -> [status : Statuses, auth : BOOLEAN, verified : BOOLEAN, observed : SUBSET Scopes]]
      BY <1>1, <1>n, <1>r DEF IInv, TypeOK
    <2> QED BY <2>1, <2>2 DEF IInv, TypeOK
  <1>7. Open(p)'
    <2>1. \A s : Unique(p, s)' <=> Unique(p, s) BY DEF Unique
    <2>2. Seen(p)' <=> \E row \in seen'[p] : Shows(p, row) BY DEF Seen, Shows
    <2>3. ~Seen(p)' BY <1>1, <1>2, <1>4, <2>2 DEF Open, Seen
    <2> QED BY <1>2, <1>3, <1>e, <2>1, <2>3 DEF Open
  <1>8. \A q \in Profiles \ {p} : (Open(q) => Open(q)') /\ (Judged(q) => Judged(q)')
    BY <1>5, SeenSame DEF Open, Judged, Unique
  <1>9. Selected(conf, mode)' = Selected(conf, mode) BY DEF Selected
  <1>10. p \in Selected(conf, mode) BY <1>1 DEF IInv
  <1>11. \A q \in Profiles \ Selected(conf, mode) : seen'[q] = {}
    BY <1>5, <1>10 DEF IInv
  <1>12. (\A q \in pending : Open(q)') /\ (\A q \in Profiles \ pending : Judged(q)')
    BY <1>1, <1>7, <1>8 DEF IInv, TypeOK
  <1> QED BY <1>6, <1>9, <1>11, <1>12 DEF IInv

\* A page that decides the profile, or is its last.
LEMMA LastStep ==
  ASSUME IInv, pc = "read", NEW p \in pending, p = Current, UNCHANGED <<conf, mode, report>>, NEW rows \in SUBSET Row,
         NEW observed \in Merged(result[p].observed, ObservedScopes(FilterRows(p, rows))),
         seen' = [seen EXCEPT ![p] = @ \cup rows],
         Conclude(p, [status   |-> IF Evidence(p, observed) THEN "ready" ELSE "degraded", auth |-> TRUE,
                            verified |-> Evidence(p, observed), observed |-> observed])
  PROVE  IInv'
  <1> DEFINE r == [status   |-> IF Evidence(p, observed) THEN "ready" ELSE "degraded", auth |-> TRUE,
                   verified |-> Evidence(p, observed), observed |-> observed]
  <1>1. p \in Profiles /\ Open(p)
    BY DEF IInv, TypeOK
  <1>2. /\ observed \in SUBSET Scopes
        /\ Evidence(p, observed) <=> \E row \in rows : Shows(p, row)
    BY <1>1, PageDecides DEF IInv
  <1>3. seen'[p] = seen[p] \cup rows BY <1>1 DEF IInv, TypeOK
  <1>4. Seen(p)' <=> Evidence(p, observed)
    <2>1. Seen(p)' <=> \E row \in seen'[p] : Shows(p, row)
      BY DEF Seen, Shows
    <2> QED BY <1>1, <1>2, <1>3, <2>1 DEF Open, Seen
  <1>5. seen' \in [Profiles -> SUBSET Row] /\ \A q \in Profiles \ {p} : seen'[q] = seen[q]
    BY <1>1 DEF IInv, TypeOK
  <1>6. Evidence(p, observed) \in BOOLEAN BY DEF Evidence
  <1>7. r \in [status : Statuses, auth : BOOLEAN, verified : BOOLEAN, observed : SUBSET Scopes]
    BY <1>2, <1>6 DEF Statuses
  <1>8. (r.status = "ready" <=> Evidence(p, observed)) /\ (r.auth /\ r.verified <=> Evidence(p, observed))
    BY <1>6
  <1>9. Conclude(p, r) OBVIOUS
  <1> HIDE DEF r
  <1> QED BY <1>1, <1>4, <1>5, <1>7, <1>8, <1>9, ConcludeStep

LEMMA ReadStep == IInv /\ ReadPage => IInv'
  <1> SUFFICES ASSUME IInv, ReadPage PROVE IInv' OBVIOUS
  <1>p. PICK p \in pending : p = Current
    BY CurrentIsPending DEF IInv, TypeOK, ReadPage
  <1> DEFINE
    r(observed, status) == [status   |-> status, auth |-> TRUE,
                            verified |-> Evidence(p, observed), observed |-> observed]
    goes(rows, next, observed) ==
      /\ seen' = [seen EXCEPT ![p] = @ \cup rows]
      /\ \/ /\ Evidence(p, observed)
            /\ Conclude(p, r(observed, "ready"))
         \/ /\ ~Evidence(p, observed) /\ ~LastPage(next)
            /\ result' = [result EXCEPT ![p] = r(observed, "none")]
            /\ page' = PagesRead /\ token' = next
            /\ UNCHANGED <<pc, pending, regions>>
         \/ /\ ~Evidence(p, observed) /\ LastPage(next) /\ Cardinality(regions) > 1
            /\ \E g \in regions : regions' = regions \ {g}
            /\ result' = [result EXCEPT ![p] = r(observed, "none")]
            /\ page' = 0 /\ token' = NoToken
            /\ UNCHANGED <<pc, pending>>
         \/ /\ ~Evidence(p, observed) /\ LastPage(next) /\ Cardinality(regions) = 1
            /\ Conclude(p, r(observed, "degraded"))
  <1>0. PICK rows \in Pages, next \in Tokens \cup {NoToken} :
          \E o \in Merged(result[p].observed, ObservedScopes(FilterRows(p, rows))) : goes(rows, next, o)
    BY <1>p DEF ReadPage
  <1>1. PICK observed \in Merged(result[p].observed, ObservedScopes(FilterRows(p, rows))) :
          goes(rows, next, observed)
    BY <1>0
  <1>s. rows \in SUBSET Row BY PagesAssumption
  <1>2. pc = "read" /\ UNCHANGED <<conf, mode, report>> BY DEF ReadPage
  <1> DEFINE E == Evidence(p, observed)
             more == /\ ~E /\ result' = [result EXCEPT ![p] = r(observed, "none")]
                     /\ UNCHANGED <<pc, pending>> /\ regions' \subseteq regions
                     /\ page' \in 0..MaxPages - 1 /\ token' \in Tokens \cup {NoToken}
             last == Conclude(p, r(observed, IF E THEN "ready" ELSE "degraded"))
  <1>3. more \/ last
    <2>1. page \in 0..MaxPages - 1 BY DEF IInv, TypeOK
    <2>2. ~LastPage(next) => PagesRead \in 0..MaxPages - 1
      BY <2>1, BoundsAssumption DEF LastPage, PagesRead
    <2>3. 0 \in 0..MaxPages - 1 /\ NoToken \in Tokens \cup {NoToken} BY BoundsAssumption
    <2> HIDE DEF r, E
    <2> QED BY <1>1, <2>2, <2>3 DEF E
  <1>4. CASE more
    BY <1>1, <1>2, <1>4, <1>p, <1>s, ContinueStep
  <1>5. CASE last
    BY <1>1, <1>2, <1>5, <1>p, <1>s, LastStep
  <1> QED BY <1>3, <1>4, <1>5

-----------------------------------------------------------------------------
\* Both reports are ready if all profiles are judged to be.
LEMMA ReportMeans ==
  ASSUME IInv, pending = {}
  PROVE  /\ RunStatus \in Statuses /\ DoctorStatus \in Statuses
         /\ mode = "probe" => (RunStatus = "ready" <=> \A p \in Profiles : Seen(p))
         /\ mode # "probe" => (DoctorStatus = "ready" <=> \A p \in Profiles : Seen(p))
  <1>1. \A p \in Profiles : Judged(p) BY DEF IInv
  <1>2. RunStatus = "ready" <=> \A p \in Profiles : Seen(p)
    <2>1. {p \in Profiles : result[p].status = "ready"} = Profiles <=> \A p \in Profiles : Seen(p)
      BY <1>1 DEF Judged
    <2>2. RunStatus = "ready" <=> {p \in Profiles : result[p].status = "ready"} = Profiles
      BY DEF RunStatus
    <2> QED BY <2>1, <2>2
  <1>3. ASSUME mode # "probe", NEW p \in Profiles PROVE Diagnosis(p) = "ready" <=> Seen(p)
    <2>1. p \notin Selected(conf, mode) => ~Seen(p) BY DEF IInv, Seen
    <2>2. p \in Selected(conf, mode) <=> mode = "doctor" /\ conf[p].env
      BY <1>3 DEF Selected, IInv, TypeOK
    <2> QED BY <1>1, <1>3, <2>1, <2>2 DEF Judged, Diagnosis, IInv, TypeOK
  <1>4. \A p \in Profiles : Diagnosis(p) \in {"not_ready", "offline", "ready", "degraded"}
    BY DEF Diagnosis
  <1>5. DoctorStatus = "ready" <=> \A p \in Profiles : Diagnosis(p) = "ready"
    BY <1>4 DEF DoctorStatus
  <1>6. RunStatus \in Statuses /\ DoctorStatus \in Statuses
    BY DEF RunStatus, DoctorStatus, Statuses
  <1> QED BY <1>2, <1>3, <1>5, <1>6

LEMMA ReportStep == IInv /\ Report => IInv'
  <1> SUFFICES ASSUME IInv, Report PROVE IInv' OBVIOUS
  <1>1. pending = {} BY DEF Report
  <1>2. report' \in Statuses /\ (report' = "ready" <=> \A p \in Profiles : Seen(p))
    BY <1>1, ReportMeans DEF Report
  <1>3. TypeOK' BY <1>2 DEF IInv, TypeOK, Report, place
  <1>4. \A p : Seen(p)' <=> Seen(p) BY SeenSame DEF Report
  <1> QED BY <1>1, <1>2, <1>3, <1>4 DEF IInv, Report, place, Selected, Open, Judged, Unique

LEMMA NextInv == IInv /\ [Next]_vars => IInv'
  <1> SUFFICES ASSUME IInv, [Next]_vars PROVE IInv' OBVIOUS
  <1>1. CASE UNCHANGED vars
    <2>1. \A p : Seen(p)' <=> Seen(p) BY <1>1, SeenSame DEF vars
    <2> QED BY <1>1, <2>1 DEF IInv, TypeOK, vars, place, Selected, Open, Judged, Unique
  <1>2. CASE Done BY <1>1, <1>2 DEF Done
  <1> QED BY <1>1, <1>2, DeclineStep, StartStep, ReadFailsStep, ReadStep, ReportStep DEF Next

LEMMA Inductive == Spec => []IInv
  BY InitInv, NextInv, PTL DEF Spec

-----------------------------------------------------------------------------
(* A run of the probe, and the results and the report it makes, are of their *)
(* types, whatever the provider answers.                                     *)
THEOREM TypeCorrect == Spec => []TypeOK
  <1>1. IInv => TypeOK BY DEF IInv
  <1> QED BY <1>1, Inductive, PTL

(* For any number of profiles, services, regions and scopes and any cap on     *)
(* kept values: the verdict ready, of probe and doctor alike, means that a row *)
(* of its unique scope, in the services and regions it lists, was returned for *)
(* every profile (probe/probe.go, provider/scoped.go, setup/doctor.go).        *)
THEOREM ReadyMeansSeen == Spec => []ReadyIffSeen
  <1>1. IInv => ReadyIffSeen BY DEF IInv, ReadyIffSeen, Judged
  <1> QED BY <1>1, Inductive, PTL
=============================================================================
