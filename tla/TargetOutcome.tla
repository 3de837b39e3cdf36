---------------------------- MODULE TargetOutcome ----------------------------
(***************************************************************************)
(* What the goroutine of one target of a query may send to the collector.   *)
(* TargetPager is shown to send nothing else, and QueryAnswer is built on   *)
(* it, so that a query of several targets is checked without the pages.     *)
(***************************************************************************)
EXTENDS Naturals

\* The result of a target with the given shares of the query's budgets, whose
\* adapter makes at most cost upstream requests per call.  more is a continuation
\* mark, whole says that no row the provider listed is missing, lostMark that one
\* of several listings was broken off at a repeated token and the mark of that
\* replaced by a later listing which ended well.
Outcomes(perRequests, perScan, rowGoal, cost, several) ==
    {o \in [ok : BOOLEAN, requests : 0..(perRequests + cost - 1), scanned : 0..perScan,
            rows : 0..rowGoal, more : BOOLEAN, whole : BOOLEAN, lostMark : BOOLEAN] :
        /\ o.rows <= o.scanned
        /\ o.ok /\ ~o.more => o.whole \/ o.lostMark
        /\ o.lostMark => several /\ o.ok /\ ~o.more}

\* A target that is given up before it gets a provider slot.
Abandoned == [ok |-> FALSE, requests |-> 0, scanned |-> 0, rows |-> 0,
              more |-> FALSE, whole |-> FALSE, lostMark |-> FALSE]
=============================================================================
