----------------------- MODULE MCReadinessCoordinator -----------------------
(* Three callers that come, wait, give up and come back; two outcomes of a   *)
(* probe; a lifetime of two ticks.                                           *)
EXTENDS ReadinessCoordinator

CONSTANTS c1, c2, c3, ch1, ch2, ch3, healthy, failed

MCCallers == {c1, c2, c3}
MCChans   == {ch1, ch2, ch3}
MCReports == {healthy, failed}
=============================================================================
