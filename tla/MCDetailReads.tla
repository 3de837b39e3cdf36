---------------------------- MODULE MCDetailReads ----------------------------
EXTENDS DetailReads, TLC

\* A region in two spellings, another, and global.
MCRegions   == {"near", "far", "global"}
MCSpellings == MCRegions \cup {"NEAR"}
MCLower     == [r \in MCRegions |-> r] @@ ("NEAR" :> "near")

\* A zone of each.
MCZones      == {"near-a", "far-a"}
MCZoneRegion == "near-a" :> "near" @@ "far-a" :> "far"

\* All regions, one, one with capitals, two; every way to name a scope; and a list
\* of services without what is read.
MCProfiles == {p \in Profile : /\ p.regions \in {{}, {"near"}, {"NEAR"}, {"near", "far"}}
                               /\ p.served \/ p.regions = {"near"}}
=============================================================================
