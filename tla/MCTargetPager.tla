---------------------------- MODULE MCTargetPager ----------------------------
(* A provider with two tokens that may return more rows, scanned items and   *)
(* upstream requests than asked for, listed for two selectors.               *)
EXTENDS TargetPager

CONSTANTS ta, tb

MCTokens == {ta, tb}
=============================================================================
