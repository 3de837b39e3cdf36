----------------------------- MODULE TargetPager -----------------------------
(***************************************************************************)
(* What one target's goroutine does inside Engine.Query once it holds a     *)
(* provider slot (internal/engine/engine.go): for each request of the       *)
(* target (one, or one per metric selector) it follows the provider's       *)
(* continuation tokens page by page, retrying a page that fails, until the  *)
(* listing ends or a budget is spent.                                       *)
(*                                                                          *)
(* The provider is the environment.  It may return any number of rows, of   *)
(* scanned items and of upstream requests per page, whatever the page limit *)
(* it was given, repeat tokens, and fail in any way.                        *)
(***************************************************************************)
EXTENDS Naturals

CONSTANTS Selectors,     \* len(requests): the metric selectors, or 1
          PerRequests,   \* perTargetRequests
          PerScan,       \* perTargetScan
          RowGoal,       \* rowGoal
          MaxPageSize,   \* limits.MaxPageSize
          Tokens,        \* the continuation tokens a provider may return
          MaxRows,       \* the most rows a provider puts on a page
          MaxScan,       \* the most items it says it scanned for a page
          MaxCost        \* the most upstream requests one adapter call makes

NoToken        == "none"                   \* NextToken == ""
LimitMark      == "local_execution_limit_reached"
SelectorsMark  == "additional_metric_selectors_truncated"

ASSUME PagerAssumption ==
    /\ Selectors \in Nat \ {0}
    /\ PerRequests \in Nat \ {0}           \* max(1, ...)
    /\ PerScan \in Nat \ {0}               \* max(1, ...)
    /\ RowGoal \in 1..PerScan              \* min(rowGoal, perTargetScan)
    /\ MaxPageSize \in Nat \ {0}
    /\ MaxRows \in Nat
    /\ MaxScan \in Nat
    /\ MaxCost \in Nat \ {0}
    /\ NoToken \notin Tokens
    /\ {LimitMark, SelectorsMark} \cap Tokens = {}

VARIABLES pc,        \* "page", "read", "backoff", "selector" or "done"
          sel,       \* requestIndex, from 1
          token,     \* request.PageToken
          limit,     \* request.Limit
          seen,      \* seenTokens
          requests,  \* combined.Requests
          scanned,   \* combined.Scanned
          rows,      \* len(combined.Rows)
          next,      \* combined.NextToken
          spent,     \* requests, in readPageWithRetry
          allowed,   \* maxRequests, in readPageWithRetry
          ctxDone,   \* the query's context is done
          outcome,   \* "none" until the goroutine sends "ok" or "err"
          \* history:
          calls,     \* adapter calls made
          asked,     \* tokens of the pages asked for in this selector
          complete,  \* selectors listed to the end, with every row kept
          repeated   \* selectors broken off at a repeated token

combined == <<requests, scanned, rows, next>>
retry    == <<spent, allowed>>
history  == <<calls, asked, complete, repeated>>
vars     == <<pc, sel, token, limit, seen, combined, retry, ctxDone, outcome, history>>

Least(a, b) == IF a <= b THEN a ELSE b
Most(a, b)  == IF a <= b THEN b ELSE a

Init == /\ pc = "page"
        /\ sel = 1
        /\ token = NoToken
        /\ limit = 0
        /\ seen = {}
        /\ requests = 0 /\ scanned = 0 /\ rows = 0
        /\ next = NoToken
        /\ spent = 0 /\ allowed = 0
        /\ ctxDone \in BOOLEAN
        /\ outcome = "none"
        /\ calls = 0 /\ asked = {} /\ complete = {} /\ repeated = {}

BudgetLeft == requests < PerRequests /\ scanned < PerScan /\ rows < RowGoal

\* The query's deadline passes or its caller goes away.
ContextDone == /\ ~ctxDone
               /\ pc # "done"
               /\ ctxDone' = TRUE
               /\ UNCHANGED <<pc, sel, token, limit, seen, combined, retry, outcome, history>>

-----------------------------------------------------------------------------
\* request.Limit: no more than can still be kept.
PageLimit == Least(Least(MaxPageSize, PerScan - scanned), RowGoal - rows)

\* Mutant: three attempts whatever is left of the budget.
AllowanceFixed == 3

\* maxRequests for the next page.
Allowance == Most(1, Least(3, PerRequests - requests))

\* The loop is entered: a page is asked for, with at most three attempts.
AskPage == /\ pc = "page"
           /\ BudgetLeft
           /\ limit' = PageLimit
           /\ spent' = 0
           /\ allowed' = Allowance
           /\ pc' = "read"
           /\ asked' = asked \cup {token}
           /\ UNCHANGED <<sel, token, seen, combined, ctxDone, outcome, calls, complete, repeated>>

\* The loop condition fails.
LeaveLoop == /\ pc = "page"
             /\ ~BudgetLeft
             /\ pc' = "selector"
             /\ UNCHANGED <<sel, token, limit, seen, combined, retry, ctxDone, outcome, history>>

Finish(result) == /\ pc' = "done"
                  /\ outcome' = result

\* readPageWithRetry returns an error: the attempts are charged and the target
\* fails with the rows it has so far.
Fail(cost) == /\ requests' = requests + spent + cost
              /\ Finish("err")
              /\ UNCHANGED <<scanned, rows, next>>

\* Mutants: an absent token is followed, a repeated token is followed.
StopIfRepeated(t) == t \in seen
StopIfAbsent(t)   == t = NoToken

\* The page is the last one of the loop.
Stop(t) == t = NoToken \/ t \in seen

\* The adapter returns a page.
PageRead(pageRows, pageScan, pageNext, cost) ==
    LET pageScanned == Most(pageScan, pageRows)
        scanLeft    == PerScan - scanned
        rowsLeft    == RowGoal - rows
        appended    == Least(pageRows, Least(scanLeft, rowsLeft))
        cut         == pageScanned > scanLeft \/ pageRows > appended
    IN /\ pc = "read"
       /\ calls' = calls + 1
       /\ requests' = requests + spent + cost
       /\ rows' = rows + appended
       /\ scanned' = scanned + Least(pageScanned, scanLeft)
       /\ next' = IF cut THEN LimitMark ELSE pageNext
       /\ IF Stop(pageNext)
          THEN pc' = "selector" /\ UNCHANGED <<seen, token>>
          ELSE pc' = "page" /\ seen' = seen \cup {pageNext} /\ token' = pageNext
       /\ complete' = IF pageNext = NoToken /\ appended = pageRows THEN complete \cup {sel}
                      ELSE complete
       /\ repeated' = IF pageNext \in seen THEN repeated \cup {sel} ELSE repeated
       /\ spent' = 0 /\ allowed' = 0
       /\ UNCHANGED <<sel, limit, ctxDone, outcome, asked>>

\* The adapter returns an error; a retryable one is retried after a delay while
\* attempts are left.
ReadFails(retryable, cost) ==
    /\ pc = "read"
    /\ calls' = calls + 1
    /\ IF retryable /\ spent + cost < allowed
       THEN /\ spent' = spent + cost
            /\ pc' = "backoff"
            /\ UNCHANGED <<combined, allowed, outcome>>
       ELSE /\ Fail(cost)
            /\ spent' = 0 /\ allowed' = 0
    /\ UNCHANGED <<sel, token, limit, seen, ctxDone, asked, complete, repeated>>

\* Mutant: only the context is waited for.
RetryLost == FALSE /\ UNCHANGED vars

\* The timer of the backoff fires ...
RetryRead == /\ pc = "backoff"
             /\ pc' = "read"
             /\ UNCHANGED <<sel, token, limit, seen, combined, retry, ctxDone, outcome, history>>

\* ... or the context is done first.
RetryCanceled == /\ pc = "backoff"
                 /\ ctxDone
                 /\ Fail(0)
                 /\ spent' = 0 /\ allowed' = 0
                 /\ UNCHANGED <<sel, token, limit, seen, ctxDone, history>>

\* Mutants: marked although no selector is left, not marked at all.
FinalMarkEager  == IF ~BudgetLeft THEN SelectorsMark ELSE next
FinalMarkForgot == next

\* NextToken when the loop over the selectors ends.
FinalMark == IF ~BudgetLeft /\ sel < Selectors THEN SelectorsMark ELSE next

\* After a selector's loop: with a budget spent the rest is abandoned,
\* otherwise the next selector starts afresh.
EndSelector ==
    /\ pc = "selector"
    /\ IF BudgetLeft /\ sel < Selectors
       THEN /\ sel' = sel + 1
            /\ token' = NoToken /\ seen' = {} /\ asked' = {}
            /\ pc' = "page"
            /\ UNCHANGED <<next, outcome>>
       ELSE /\ next' = FinalMark
            /\ Finish("ok")
            /\ UNCHANGED <<sel, token, seen, asked>>
    /\ UNCHANGED <<limit, requests, scanned, rows, retry, ctxDone, calls, complete, repeated>>

\* The adapter call in flight returns, in one way or another.
Respond == \E cost \in 1..MaxCost :
              \/ \E r \in 0..MaxRows, s \in 0..MaxScan, t \in Tokens \cup {NoToken} :
                    PageRead(r, s, t, cost)
              \/ \E retryable \in BOOLEAN : ReadFails(retryable, cost)

Done == pc = "done" /\ UNCHANGED vars

Goroutine == AskPage \/ LeaveLoop \/ Respond \/ RetryRead \/ RetryCanceled \/ EndSelector

Next == ContextDone \/ Goroutine \/ Done

\* The goroutine is scheduled, timers fire and adapter calls return (they are
\* given the query's context, which has a deadline).
Spec == Init /\ [][Next]_vars /\ WF_vars(Goroutine)
-----------------------------------------------------------------------------
\* The shape of the state.
TypeOK == /\ pc \in {"page", "read", "backoff", "selector", "done"}
          /\ sel \in 1..Selectors
          /\ token \in Tokens \cup {NoToken}
          /\ limit \in Nat
          /\ seen \subseteq Tokens
          /\ requests \in Nat /\ scanned \in Nat /\ rows \in Nat
          /\ next \in Tokens \cup {NoToken, LimitMark, SelectorsMark}
          /\ spent \in Nat /\ allowed \in Nat
          /\ ctxDone \in BOOLEAN
          /\ outcome \in {"none", "ok", "err"}
          /\ calls \in Nat
          /\ asked \subseteq Tokens \cup {NoToken}
          /\ complete \subseteq 1..Selectors
          /\ repeated \subseteq 1..Selectors

\* Whatever a provider returns, the target keeps no more rows than the items it
\* is charged for, and neither exceeds its budget.
ScanBudget == rows <= scanned /\ scanned <= PerScan /\ rows <= RowGoal

\* No adapter call is made once the request budget is spent, over all pages,
\* retries and selectors.
CallBudget == calls <= PerRequests

\* A call that makes several upstream requests can overshoot the request
\* budget, by less than one such call.
RequestOvershoot == requests + spent < PerRequests + MaxCost

\* The documented bound (dsl.md:151: "The service enforces server-side bounds
\* on execution targets, provider requests, scanned items ...").
RequestBudget == requests <= PerRequests

\* The page limit sent to the provider is positive (zero means "default" to
\* many APIs) and asks for no more than can still be kept.
LimitFits == pc \in {"read", "backoff"} =>
                 limit \in 1..MaxPageSize /\ scanned + limit <= PerScan /\ rows + limit <= RowGoal

\* No page of a selector is asked for again after it was read: a provider that
\* repeats its tokens cannot make the loop go round.
NoPageTwice == [][pc = "page" /\ pc' = "read" => token \notin asked]_vars

\* A target that reports success and no continuation has listed its last selector to the
\* end, and every other one too unless the provider repeated a token there: the mark of a
\* repeated token is replaced by what the next selector's page carries (engine.go:224, 228).
HonestCompletion ==
    outcome = "ok" /\ next = NoToken =>
        complete \cup repeated = 1..Selectors /\ Selectors \in complete

\* A result from which nothing is missing is marked for one reason only: the provider says
\* that it scanned more items for its last page than the target had left (engine.go:225),
\* which need not mean that there are more rows.
NoFalseAlarm ==
    outcome = "ok" /\ next # NoToken /\ complete = 1..Selectors =>
        next = LimitMark /\ scanned = PerScan

\* The result sent to the collector is one that QueryAnswer reckons with: within
\* the target's shares, and whole unless it says otherwise or, of several
\* selectors, one before the last was broken off at a repeated token.
Promise == INSTANCE TargetOutcome

Result == [ok |-> outcome = "ok", requests |-> requests, scanned |-> scanned, rows |-> rows,
           more |-> next # NoToken, whole |-> complete = 1..Selectors,
           lostMark |-> outcome = "ok" /\ next = NoToken /\ repeated \ {Selectors} # {}]

DeliversOutcome ==
    outcome # "none" =>
        Result \in Promise!Outcomes(PerRequests, PerScan, RowGoal, MaxCost, Selectors > 1)

\* Whatever the provider does, the goroutine delivers its result.
Terminates == <>(outcome # "none")
=============================================================================
