----------------------------- MODULE QueryAnswer -----------------------------
(***************************************************************************)
(* How Engine.Query turns the results of its targets into one answer        *)
(* (internal/engine/engine.go): the query is planned onto targets and       *)
(* admitted, each target gets a share of the budgets and delivers a result, *)
(* and the collector adds the results up, filters and summarizes the rows,  *)
(* cuts them at the query's limit and judges the whole.                     *)
(*                                                                          *)
(* The collector only adds up and joins what it receives, in any order, so  *)
(* the results channel is represented by the sum of what was sent; who runs *)
(* when is ProviderSlots, and what becomes of the rows after the answer is  *)
(* CursorStore.                                                             *)
(***************************************************************************)
EXTENDS Naturals, TargetOutcome

CONSTANTS MaxTargets,           \* limits.MaxTargets
          MaxProviderRequests,  \* limits.MaxProviderRequests
          MaxScannedItems,      \* limits.MaxScannedItems
          MaxCost,              \* the most upstream requests of an adapter call
          MaxSkipped,           \* model bound: the most profiles that cannot be planned
          Limits                \* the query limits asked for

ASSUME AnswerAssumption ==
    /\ MaxTargets \in Nat \ {0}      \* config: 1..128
    /\ MaxProviderRequests \in Nat \ {0}
    /\ MaxScannedItems \in Nat \ {0}
    /\ MaxCost \in Nat \ {0}
    /\ MaxSkipped \in Nat
    /\ Limits \subseteq Nat \ {0}    \* dsl: 1..50000

VARIABLES phase,  \* "idle", "reading", "answered" or "refused"
          plan,   \* the targets, the skipped profiles and the query's shape
          sum,    \* the results sent so far, added up
          answer  \* the answer

vars == <<phase, plan, sum, answer>>

Least(a, b) == IF a <= b THEN a ELSE b
Most(a, b)  == IF a <= b THEN b ELSE a

\* What an answer is made of: the matching rows, as they come or sorted, a row
\* per group of them, or one row for all.
Modes == {"rows", "sorted", "groups", "total"}

Plan == [targets : 0..(MaxTargets + 1),  \* Engine.targets stops at one too many
         skipped : 0..MaxSkipped,        \* profiles it could not plan
         mode    : Modes,
         filter  : BOOLEAN,              \* a filter, which may fail on a row
         several : BOOLEAN,              \* a listing for each of several metric selectors
         regions : BOOLEAN,              \* a list of regions rows must be in
         limit   : Limits]

NoPlan   == [targets |-> 0, skipped |-> 0, mode |-> "rows", filter |-> FALSE,
             several |-> FALSE, regions |-> FALSE, limit |-> 1]
NoSum    == [succeeded |-> 0, failed |-> 0, requests |-> 0, scanned |-> 0, rows |-> 0,
             more |-> FALSE, whole |-> TRUE, lostMark |-> FALSE]
NoAnswer == [status |-> "none", planned |-> 0, succeeded |-> 0, failed |-> 0, count |-> 0,
             returned |-> 0, bad |-> FALSE, truncated |-> FALSE]

Init == /\ phase = "idle"
        /\ plan = NoPlan
        /\ sum = NoSum
        /\ answer = NoAnswer

-----------------------------------------------------------------------------
\* Mutant: only the number of targets is checked.
AdmittedByCount(n) == n >= 1 /\ n <= MaxTargets

\* The early returns of Query, and validateTargetBudgets.
Admitted(n) == /\ n >= 1
               /\ n <= MaxTargets
               /\ n <= MaxProviderRequests
               /\ n <= MaxScannedItems

\* Query is called, and planned by Engine.targets.
Query(p) == /\ phase = "idle"
            /\ phase' = IF Admitted(p.targets) THEN "reading" ELSE "refused"
            /\ plan' = p
            /\ UNCHANGED <<sum, answer>>

\* Each target's share of a budget, at least one, and how many rows it is to
\* find: filters, summaries and sorts need all that can be scanned.
PerRequests == Most(1, MaxProviderRequests \div plan.targets)
PerScan     == Most(1, MaxScannedItems \div plan.targets)
RowGoal     == IF plan.filter \/ plan.mode # "rows" THEN PerScan
               ELSE Least(plan.limit, PerScan)

Delivered == sum.succeeded + sum.failed

\* A goroutine sends its result.
Send(o) == /\ phase = "reading"
           /\ Delivered < plan.targets
           /\ sum' = [succeeded |-> sum.succeeded + (IF o.ok THEN 1 ELSE 0),
                      failed    |-> sum.failed + (IF o.ok THEN 0 ELSE 1),
                      requests  |-> sum.requests + o.requests,
                      scanned   |-> sum.scanned + o.scanned,
                      rows      |-> sum.rows + o.rows,
                      more      |-> sum.more \/ o.more,
                      whole     |-> sum.whole /\ o.whole,
                      lostMark  |-> sum.lostMark \/ o.lostMark]
           /\ UNCHANGED <<phase, plan, answer>>

GiveUp  == Send(Abandoned)
Deliver == /\ phase = "reading"
           /\ \E o \in Outcomes(PerRequests, PerScan, RowGoal, MaxCost, plan.several) : Send(o)

\* The matching rows pass the lists of regions and the filter, evaluation of
\* which fails for some of the other rows if bad.
Sifted(matching, bad) ==
    LET visited == Least(sum.rows, MaxScannedItems)
    IN /\ matching <= visited
       /\ ~plan.filter /\ ~plan.regions => matching = visited
       /\ bad => plan.filter /\ matching < visited

\* aggregateRows: a summary of nothing is one row or none.
Summarized(matching, count) ==
    CASE plan.mode \in {"rows", "sorted"} -> count = matching
      [] plan.mode = "groups" -> count <= matching /\ (matching > 0 => count > 0)
      [] plan.mode = "total"  -> count <= 1 /\ (matching > 0 => count = 1)

\* Mutant: the continuation marks of the targets are overlooked.
TruncatedByBudget(count) == \/ count > plan.limit
                            \/ sum.scanned >= MaxScannedItems
                            \/ sum.requests >= MaxProviderRequests

Truncated(count) == \/ sum.more
                    \/ sum.rows > MaxScannedItems
                    \/ count > plan.limit
                    \/ sum.scanned >= MaxScannedItems
                    \/ sum.requests >= MaxProviderRequests

\* coverage.Failed
Failed == plan.skipped + sum.failed

\* Mutant: only the coverage is judged.
StatusByCoverage(returned, bad) ==
    IF sum.succeeded = 0 /\ returned = 0 THEN "failed"
    ELSE IF Failed > 0 THEN "partial" ELSE "ok"

\* The errors are one per skipped profile, failed target and row the filter
\* cannot judge.
Status(returned, bad) ==
    IF sum.succeeded = 0 /\ returned = 0 THEN "failed"
    ELSE IF Failed > 0 \/ bad THEN "partial" ELSE "ok"

\* All goroutines have signalled: the caller collects.
Answer(matching, count, bad) ==
    LET returned == Least(count, plan.limit)
    IN /\ phase = "reading"
       /\ Delivered = plan.targets
       /\ Sifted(matching, bad)
       /\ Summarized(matching, count)
       /\ phase' = "answered"
       /\ answer' = [status |-> Status(returned, bad), planned |-> plan.targets + plan.skipped,
                     succeeded |-> sum.succeeded, failed |-> Failed, count |-> count,
                     returned |-> returned, bad |-> bad, truncated |-> Truncated(count)]
       /\ UNCHANGED <<plan, sum>>

Done == phase \in {"answered", "refused"} /\ UNCHANGED vars

Collect == \E matching \in 0..sum.rows, bad \in BOOLEAN :
              \E count \in 0..(matching + 1) : Answer(matching, count, bad)

Next == (\E p \in Plan : Query(p)) \/ GiveUp \/ Deliver \/ Collect \/ Done

Spec == Init /\ [][Next]_vars
-----------------------------------------------------------------------------
Sums == [succeeded : Nat, failed : Nat, requests : Nat, scanned : Nat, rows : Nat,
         more : BOOLEAN, whole : BOOLEAN, lostMark : BOOLEAN]

Answers == [status : {"none", "ok", "partial", "failed"}, planned : Nat, succeeded : Nat,
            failed : Nat, count : Nat, returned : Nat, bad : BOOLEAN, truncated : BOOLEAN]

\* The shape of the state.
TypeOK == /\ phase \in {"idle", "reading", "answered", "refused"}
          /\ plan \in Plan \cup {NoPlan}
          /\ sum \in Sums
          /\ answer \in Answers

\* The shares handed out add up: together the targets stay within the query's
\* scan budget, so that the collector's own cut (engine.go:269) never applies,
\* and overshoot its request budget by less than one adapter call per target.
BudgetsAddUp ==
    /\ sum.rows <= sum.scanned
    /\ sum.scanned <= MaxScannedItems
    /\ phase # "idle" =>
         sum.requests <= MaxProviderRequests + plan.targets * (MaxCost - 1)

\* Every planned target, skipped ones included, is counted once, and the status
\* agrees with the counts: "ok" says that nothing failed, "failed" that nothing
\* succeeded and that there is no row to show.
CoverageAndStatus ==
    phase = "answered" =>
        /\ answer.planned = answer.succeeded + answer.failed
        /\ answer.status = "ok" <=> answer.failed = 0 /\ ~answer.bad
        /\ answer.status = "failed" <=> answer.succeeded = 0 /\ answer.count = 0

\* An answer that is ok and not truncated is the whole answer: no row that the providers
\* listed was left out, and every row that results is returned.  There is one exception: a
\* query for several metric selectors does not say so when a provider repeats a token in
\* the listing of one that is not the last (engine.go:224, 228).
CompleteUnlessSaid ==
    phase = "answered" /\ answer.status = "ok" /\ ~answer.truncated =>
        /\ answer.returned = answer.count
        /\ sum.whole \/ (plan.several /\ sum.lostMark)
=============================================================================
