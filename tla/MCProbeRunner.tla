--------------------------- MODULE MCProbeRunner ---------------------------
EXTENDS ProbeRunner, TLC

CONSTANTS r1, r2, s1, s2, f, v, w, t1, t2

MCRegions == {r1, r2}

\* A row of s1 in each service, in different regions, one of s2 and one of the folder; a page
\* has at most two of them.
MCRows == {[scope |-> s1, names |-> {w}, region |-> r1], [scope |-> s1, names |-> {v}, region |-> r2],
           [scope |-> s2, names |-> {v, w}, region |-> "global"], [scope |-> f, names |-> {v}, region |-> ""]}
MCPages == {rows \in SUBSET MCRows : Cardinality(rows) <= 2}

\* Ready and unready profiles; all services or one; none, one, two regions; no scope, one
\* of each sort, and two.
MCConf == {c \in Conf : /\ c.ready \/ c.op
                        /\ c.services \in {{}, {v}}
                        /\ c.regions \in {{"*"}, {r1}, {r1, r2}}
                        /\ c.targets \in {{}, {s1}, {f}, {s1, s2}}}
Fixed == [env |-> TRUE, ready |-> TRUE, op |-> TRUE, services |-> {"*"}, regions |-> {r2},
          targets |-> {s2}]

\* One profile of any configuration and one that varies less.
MCConfigs == {(1 :> c) @@ (2 :> d) : c \in MCConf, d \in {Fixed, [Fixed EXCEPT !.env = FALSE]}}
=============================================================================
