--------------------------- MODULE MCProviderSlots ---------------------------
(* Two queries of one or two targets and two native reads share two slots,   *)
(* or one slot in the run without deadlines.                                 *)
EXTENDS ProviderSlots

CONSTANTS q1, q2, n1, n2

MCQueries == {q1, q2}
MCNatives == {n1, n2}
=============================================================================
