---------------------------- MODULE MCQueryAnswer ----------------------------
(* Up to three targets and one skipped profile, with budgets of four that    *)
(* divide evenly over one and two targets and not over three, adapters that  *)
(* make up to two requests per call, and limits below and at what is found.  *)
EXTENDS QueryAnswer

MCLimits == {1, 3}
=============================================================================
