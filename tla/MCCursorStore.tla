---------------------------- MODULE MCCursorStore ----------------------------
(* Three results of up to three rows compete for a store of two cursors and *)
(* three rows; the clock runs past a lifetime that was renewed halfway.      *)
EXTENDS CursorStore

CONSTANTS q1, q2, q3

MCQueries   == {q1, q2, q3}
MCPageSizes == {1, 2}
=============================================================================
