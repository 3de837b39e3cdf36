-------------------------- MODULE MCTargetPlanning --------------------------
EXTENDS TargetPlanning

MCHolder == [l \in Leaves |-> "organization"]

\* One region stands for the asked ones, the other may be configured; an unconfigured leaf is asked for.
MCQueries ==
  {q \in Queries : Cardinality(q.regions) <= 2 /\ Cardinality(q.accounts) <= 2}
=============================================================================
