-------------------------- MODULE TargetPagerProofs --------------------------
(***************************************************************************)
(* The budgets of a target, the progress of its pagination and the honesty  *)
(* of its continuation mark, for every budget, every number of selectors    *)
(* and every provider.                                                      *)
(***************************************************************************)
EXTENDS TargetPager, TLAPS

\* A call is in flight or about to be repeated.
Reading == pc \in {"read", "backoff"}

\* While a page is read its attempts fit into what is left of the budget;
\* otherwise no attempt is unaccounted for.
Accounting ==
    /\ calls <= requests + spent
    /\ Reading => spent < allowed /\ requests + allowed <= PerRequests
    /\ ~Reading => spent = 0 /\ requests < PerRequests + MaxCost /\ calls <= PerRequests

\* The pages asked for are the first one and those whose token was recorded,
\* except the one to be asked for next.
Asked == /\ asked \subseteq seen \cup {NoToken}
         /\ token \in seen \cup {NoToken}
         /\ pc = "page" => token \notin asked

\* What is known of the listings while selector sel is being worked on ...
Listings ==
    /\ pc = "page" \/ Reading => complete \cup repeated = 1..(sel - 1)
    /\ pc = "page" => BudgetLeft \/ next # NoToken
    /\ pc = "selector" =>
         /\ complete \subseteq 1..sel
         /\ repeated \subseteq 1..sel
         /\ BudgetLeft \/ next = NoToken => complete \cup repeated = 1..sel
         /\ next = NoToken => sel \in complete
         /\ next # NoToken /\ sel \in complete => next = LimitMark /\ scanned = PerScan
    /\ outcome = "none" <=> pc # "done"

IInv == /\ TypeOK /\ ScanBudget /\ LimitFits /\ Accounting /\ Asked /\ Listings
        /\ HonestCompletion /\ NoFalseAlarm

\* The engine's own marks are not the empty token.
LEMMA Marks == LimitMark # NoToken /\ SelectorsMark # NoToken
BY DEF LimitMark, SelectorsMark, NoToken

\* The initial states satisfy the invariant.
LEMMA InitIInv == Init => IInv
<1> SUFFICES ASSUME Init PROVE IInv  OBVIOUS
<1> USE PagerAssumption DEF Init
<1>1. TypeOK
  <2>1. sel \in 1..Selectors  OBVIOUS
  <2>2. limit \in Nat /\ requests \in Nat /\ scanned \in Nat /\ rows \in Nat /\ spent \in Nat
          /\ allowed \in Nat /\ calls \in Nat
    OBVIOUS
  <2>3. pc = "page" /\ outcome = "none" /\ repeated = {}  OBVIOUS
  <2> QED  BY <2>1, <2>2, <2>3 DEF TypeOK
<1>2. ScanBudget /\ LimitFits  BY DEF ScanBudget, LimitFits
<1>3. Accounting /\ Asked  BY DEF Accounting, Asked, Reading
<1>4. Listings
  <2>1. 1..(sel - 1) = {}  OBVIOUS
  <2> QED  BY <2>1 DEF Listings, Reading, BudgetLeft
<1>5. HonestCompletion /\ NoFalseAlarm  BY DEF HonestCompletion, NoFalseAlarm
<1> QED  BY <1>1, <1>2, <1>3, <1>4, <1>5 DEF IInv

\* Asking for a page.
LEMMA AskStep == IInv /\ AskPage => IInv'
<1> SUFFICES ASSUME IInv, AskPage PROVE IInv'  OBVIOUS
<1> USE PagerAssumption DEF IInv
<1>1. TypeOK'
  BY DEF TypeOK, AskPage, PageLimit, Allowance, combined, BudgetLeft, ScanBudget, Least, Most
<1>2. ScanBudget'  BY DEF ScanBudget, AskPage, PageLimit, Allowance, combined
<1>3. LimitFits'  BY DEF LimitFits, AskPage, PageLimit, Allowance, combined, BudgetLeft, TypeOK, ScanBudget, Least
<1>4. Accounting'
  BY DEF Accounting, Reading, AskPage, PageLimit, Allowance, combined, BudgetLeft, TypeOK, Least, Most
<1>5. Asked'  BY DEF Asked, AskPage, PageLimit, Allowance
<1>6. Listings' /\ HonestCompletion' /\ NoFalseAlarm'
  BY DEF Listings, Reading, HonestCompletion, NoFalseAlarm, AskPage, PageLimit, Allowance, combined, BudgetLeft
<1> QED  BY <1>1, <1>2, <1>3, <1>4, <1>5, <1>6

\* A page comes back.
LEMMA PageStep ==
    ASSUME IInv, NEW r \in 0..MaxRows, NEW s \in 0..MaxScan, NEW t \in Tokens \cup {NoToken},
           NEW cost \in 1..MaxCost, PageRead(r, s, t, cost)
    PROVE  IInv'
<1> USE PagerAssumption DEF IInv
<1> DEFINE pageScanned == Most(s, r)
           scanLeft    == PerScan - scanned
           rowsLeft    == RowGoal - rows
           appended    == Least(r, Least(scanLeft, rowsLeft))
           cut         == pageScanned > scanLeft \/ r > appended
           stop        == t = NoToken \/ t \in seen
<1>1. /\ pc = "read" /\ Reading
      /\ calls' = calls + 1 /\ requests' = requests + spent + cost
      /\ rows' = rows + appended /\ scanned' = scanned + Least(pageScanned, scanLeft)
      /\ next' = (IF cut THEN LimitMark ELSE t)
      /\ complete' = (IF t = NoToken /\ appended = r THEN complete \cup {sel} ELSE complete)
      /\ repeated' = (IF t \in seen THEN repeated \cup {sel} ELSE repeated)
      /\ spent' = 0 /\ allowed' = 0
      /\ UNCHANGED <<sel, limit, ctxDone, outcome, asked>>
  BY DEF PageRead, Reading
<1>2. \/ stop /\ pc' = "selector" /\ seen' = seen /\ token' = token
      \/ ~stop /\ pc' = "page" /\ seen' = seen \cup {t} /\ token' = t
  BY DEF PageRead, Stop
<1>3. /\ scanned \in Nat /\ rows \in Nat /\ requests \in Nat /\ spent \in Nat /\ calls \in Nat
      /\ scanLeft \in Nat /\ rowsLeft \in Nat /\ appended \in Nat /\ pageScanned \in Nat
      /\ appended <= pageScanned /\ appended <= scanLeft /\ appended <= rowsLeft
      /\ Least(pageScanned, scanLeft) \in appended..scanLeft
      /\ cut => Least(pageScanned, scanLeft) = scanLeft \/ appended = rowsLeft
      /\ ~cut => appended = r
      /\ cut /\ appended = r => Least(pageScanned, scanLeft) = scanLeft
      /\ scanned + scanLeft = PerScan
  BY DEF TypeOK, ScanBudget, Least, Most
<1> HIDE DEF appended, scanLeft, pageScanned, rowsLeft, cut
<1>4. ScanBudget'
  BY <1>1, <1>3 DEF ScanBudget, scanLeft, rowsLeft
<1>5. TypeOK'
  BY <1>1, <1>2, <1>3 DEF TypeOK
<1>6. LimitFits'  BY <1>1, <1>2 DEF LimitFits
<1>7. Accounting'
  BY <1>1, <1>2, <1>3 DEF Accounting, Reading, TypeOK
<1>8. Asked'
  BY <1>1, <1>2 DEF Asked, TypeOK
<1>9. cut => ~BudgetLeft'
  BY <1>1, <1>3 DEF BudgetLeft, scanLeft, rowsLeft
<1>10. Listings'
  <2>1. complete \cup repeated = 1..(sel - 1) /\ sel \in Nat \ {0}
    BY <1>1 DEF Listings, TypeOK
  <2>2. sel \notin complete /\ 1..sel = 1..(sel - 1) \cup {sel}  BY <2>1
  <2>3. CASE ~stop
    <3>1. pc' = "page" /\ complete' = complete /\ repeated' = repeated /\ next' # NoToken
      <4>1. t # NoToken /\ t \notin seen /\ pc' = "page"  BY <1>2, <2>3
      <4>2. next' = LimitMark \/ next' = t  BY <1>1
      <4>3. complete' = complete /\ repeated' = repeated  BY <1>1, <4>1
      <4> QED  BY <4>1, <4>2, <4>3, Marks
    <3> QED  BY <1>1, <2>1, <3>1 DEF Listings, Reading
  <2>4. CASE stop
    <3>1. pc' = "selector"  BY <1>2, <2>4
    <3>2. complete' \subseteq 1..sel /\ repeated' \subseteq 1..sel  BY <1>1, <2>1, <2>2
    <3>3. ASSUME BudgetLeft' \/ next' = NoToken PROVE complete' \cup repeated' = 1..sel
      <4>1. ~cut  BY <1>1, <1>9, <3>3, Marks
      <4>2. complete' \cup repeated' = complete \cup repeated \cup {sel}
        BY <1>1, <1>3, <2>4, <4>1
      <4> QED  BY <2>1, <2>2, <4>2
    <3>4. ASSUME next' = NoToken PROVE sel \in complete'
      <4>1. ~cut /\ t = NoToken  BY <1>1, <3>4, Marks
      <4> QED  BY <1>1, <1>3, <4>1
    <3>5. ASSUME next' # NoToken, sel \in complete' PROVE next' = LimitMark /\ scanned' = PerScan
      <4>1. t = NoToken /\ appended = r  BY <1>1, <2>2, <3>5
      <4>2. cut  BY <1>1, <3>5, <4>1
      <4> QED  BY <1>1, <1>3, <4>1, <4>2
    <3> QED  BY <1>1, <3>1, <3>2, <3>3, <3>4, <3>5 DEF Listings, Reading
  <2> QED  BY <2>3, <2>4
<1>11. HonestCompletion' /\ NoFalseAlarm'
  BY <1>1, <1>2 DEF HonestCompletion, NoFalseAlarm, Listings
<1> QED  BY <1>4, <1>5, <1>6, <1>7, <1>8, <1>10, <1>11

\* Giving up on a page: the attempts are charged and the target fails.
LEMMA FailStep ==
    ASSUME IInv, Reading, NEW cost \in 0..MaxCost, Fail(cost),
           spent' = 0, allowed' = 0, calls' = calls + (IF cost = 0 THEN 0 ELSE 1),
           UNCHANGED <<sel, token, limit, seen, asked, complete, repeated>>,
           ctxDone' \in BOOLEAN
    PROVE  IInv'
<1> USE PagerAssumption DEF IInv
<1>1. pc' = "done" /\ outcome' = "err" /\ requests' = requests + spent + cost
        /\ UNCHANGED <<scanned, rows, next>>
  BY DEF Fail, Finish
<1>2. TypeOK'  BY <1>1 DEF TypeOK
<1>3. ScanBudget' /\ LimitFits' /\ Asked'  BY <1>1 DEF ScanBudget, LimitFits, Asked
<1>4. Accounting'  BY <1>1 DEF Accounting, Reading, TypeOK
<1>5. Listings' /\ HonestCompletion' /\ NoFalseAlarm'
  BY <1>1 DEF Listings, Reading, HonestCompletion, NoFalseAlarm
<1> QED  BY <1>2, <1>3, <1>4, <1>5

\* A failed attempt that will be repeated.
LEMMA RetryStep ==
    ASSUME IInv, NEW cost \in 1..MaxCost, ReadFails(TRUE, cost), spent + cost < allowed
    PROVE  IInv'
<1> USE PagerAssumption DEF IInv
<1>1. /\ pc = "read" /\ pc' = "backoff" /\ calls' = calls + 1 /\ spent' = spent + cost
      /\ UNCHANGED <<combined, allowed, outcome, sel, token, limit, seen, ctxDone, asked,
                     complete, repeated>>
  BY DEF ReadFails
<1>2. TypeOK'  BY <1>1 DEF TypeOK, combined
<1>3. ScanBudget' /\ LimitFits' /\ Asked'  BY <1>1 DEF ScanBudget, LimitFits, Asked, combined
<1>4. Accounting'  BY <1>1 DEF Accounting, Reading, TypeOK, combined
<1>5. Listings' /\ HonestCompletion' /\ NoFalseAlarm'
  BY <1>1 DEF Listings, Reading, BudgetLeft, HonestCompletion, NoFalseAlarm, combined
<1> QED  BY <1>2, <1>3, <1>4, <1>5

\* The end of a selector.
LEMMA SelectorStep == IInv /\ EndSelector => IInv'
<1> SUFFICES ASSUME IInv, EndSelector PROVE IInv'  OBVIOUS
<1> USE PagerAssumption DEF IInv
<1>1. /\ pc = "selector"
      /\ UNCHANGED <<limit, requests, scanned, rows, spent, allowed, ctxDone, calls, complete,
                     repeated>>
  BY DEF EndSelector, retry
<1>2. sel \in Nat \ {0} /\ sel <= Selectors  BY DEF TypeOK
<1>3. CASE BudgetLeft /\ sel < Selectors
  <2>1. /\ sel' = sel + 1 /\ token' = NoToken /\ seen' = {} /\ asked' = {} /\ pc' = "page"
        /\ UNCHANGED <<next, outcome>>
    BY <1>3 DEF EndSelector
  <2>2. TypeOK'  BY <1>1, <1>2, <1>3, <2>1 DEF TypeOK
  <2>3. ScanBudget' /\ LimitFits' /\ Asked'
    BY <1>1, <2>1 DEF ScanBudget, LimitFits, Asked
  <2>4. Accounting'  BY <1>1, <2>1 DEF Accounting, Reading
  <2>5. sel' - 1 = sel  BY <1>2, <2>1
  <2>6. Listings'
    BY <1>1, <1>3, <2>1, <2>5 DEF Listings, Reading, BudgetLeft
  <2>7. HonestCompletion' /\ NoFalseAlarm'
    BY <1>1, <2>1 DEF HonestCompletion, NoFalseAlarm, Listings
  <2> QED  BY <2>2, <2>3, <2>4, <2>6, <2>7
<1>4. CASE ~(BudgetLeft /\ sel < Selectors)
  <2>1. /\ next' = (IF ~BudgetLeft /\ sel < Selectors THEN SelectorsMark ELSE next)
        /\ pc' = "done" /\ outcome' = "ok"
        /\ UNCHANGED <<sel, token, seen, asked>>
    BY <1>4 DEF EndSelector, FinalMark, Finish
  <2>2. TypeOK'  BY <1>1, <2>1 DEF TypeOK
  <2>3. ScanBudget' /\ LimitFits' /\ Asked'
    BY <1>1, <2>1 DEF ScanBudget, LimitFits, Asked
  <2>4. Accounting'  BY <1>1, <2>1 DEF Accounting, Reading
  <2>5. Listings'  BY <2>1 DEF Listings, Reading
  <2>6. CASE sel < Selectors
    <3>1. next' # NoToken  BY <1>4, <2>1, <2>6 DEF SelectorsMark, NoToken
    <3>2. Selectors \notin complete  BY <1>1, <1>2, <2>6 DEF Listings
    <3>3. Selectors \in 1..Selectors  OBVIOUS
    <3>4. complete' # 1..Selectors  BY <1>1, <3>2, <3>3
    <3> QED  BY <2>2, <2>3, <2>4, <2>5, <3>1, <3>4 DEF HonestCompletion, NoFalseAlarm
  <2>7. CASE sel = Selectors
    <3>1. next' = next  BY <2>1, <2>7
    <3>2. next = NoToken => complete \cup repeated = 1..Selectors /\ Selectors \in complete
      BY <1>1, <2>7 DEF Listings
    <3>3. next # NoToken /\ complete = 1..Selectors => next = LimitMark /\ scanned = PerScan
      <4>1. Selectors \in 1..Selectors  OBVIOUS
      <4> QED  BY <1>1, <2>7, <4>1 DEF Listings
    <3> QED  BY <1>1, <2>2, <2>3, <2>4, <2>5, <3>1, <3>2, <3>3 DEF HonestCompletion, NoFalseAlarm
  <2> QED  BY <1>2, <2>6, <2>7
<1> QED  BY <1>3, <1>4

\* Steps that only move the goroutine along, or end the context.
LEMMA QuietStep == IInv /\ (ContextDone \/ LeaveLoop \/ RetryRead \/ UNCHANGED vars) => IInv'
<1> SUFFICES ASSUME IInv, ContextDone \/ LeaveLoop \/ RetryRead \/ UNCHANGED vars
             PROVE  IInv'
  OBVIOUS
<1> USE PagerAssumption DEF IInv
<1>1. /\ UNCHANGED <<sel, token, limit, seen, requests, scanned, rows, next, spent, allowed,
                     outcome, calls, asked, complete, repeated>>
      /\ ctxDone' \in BOOLEAN
  BY DEF ContextDone, LeaveLoop, RetryRead, vars, combined, retry, history, TypeOK
<1>2. ASSUME pc' = pc PROVE IInv'
  BY <1>1, <1>2 DEF TypeOK, ScanBudget, LimitFits, Accounting, Asked, Listings, Reading,
                    BudgetLeft, HonestCompletion, NoFalseAlarm
<1>3. CASE LeaveLoop
  <2>1. pc = "page" /\ pc' = "selector" /\ ~BudgetLeft  BY <1>3 DEF LeaveLoop
  <2>2. sel \in Nat \ {0}  BY DEF TypeOK
  <2>3. sel \notin complete /\ complete \subseteq 1..sel /\ repeated \subseteq 1..sel
    BY <2>1, <2>2 DEF Listings
  <2>4. next # NoToken  BY <2>1 DEF Listings
  <2>5. Listings'  BY <1>1, <2>1, <2>3, <2>4 DEF Listings, Reading, BudgetLeft
  <2> QED
    BY <1>1, <2>1, <2>5 DEF TypeOK, ScanBudget, LimitFits, Accounting, Asked, Reading, Listings,
                            HonestCompletion, NoFalseAlarm
<1>4. CASE RetryRead
  <2>1. pc = "backoff" /\ pc' = "read"  BY <1>4 DEF RetryRead
  <2> QED
    BY <1>1, <2>1 DEF TypeOK, ScanBudget, LimitFits, Accounting, Asked, Listings, Reading,
                      BudgetLeft, HonestCompletion, NoFalseAlarm
<1> QED  BY <1>2, <1>3, <1>4 DEF ContextDone, vars

\* Every step preserves the invariant.
LEMMA NextIInv == IInv /\ [Next]_vars => IInv'
<1> SUFFICES ASSUME IInv, [Next]_vars PROVE IInv'  OBVIOUS
<1>1. CASE AskPage  BY <1>1, AskStep
<1>2. CASE Respond
  <2>1. PICK cost \in 1..MaxCost :
           \/ \E r \in 0..MaxRows, s \in 0..MaxScan, t \in Tokens \cup {NoToken} :
                 PageRead(r, s, t, cost)
           \/ \E retryable \in BOOLEAN : ReadFails(retryable, cost)
    BY <1>2 DEF Respond
  <2>2. CASE \E r \in 0..MaxRows, s \in 0..MaxScan, t \in Tokens \cup {NoToken} :
                PageRead(r, s, t, cost)
    BY <2>2, PageStep
  <2>3. ASSUME NEW retryable \in BOOLEAN, ReadFails(retryable, cost) PROVE IInv'
    <3>1. CASE retryable /\ spent + cost < allowed
      <4>1. ReadFails(TRUE, cost)  BY <2>3, <3>1
      <4> QED  BY <3>1, <4>1, RetryStep
    <3>2. CASE ~(retryable /\ spent + cost < allowed)
      <4>1. /\ Reading /\ cost \in 0..MaxCost /\ Fail(cost) /\ spent' = 0 /\ allowed' = 0
            /\ calls' = calls + (IF cost = 0 THEN 0 ELSE 1)
            /\ UNCHANGED <<sel, token, limit, seen, asked, complete, repeated>>
            /\ ctxDone' \in BOOLEAN
        BY <2>3, <3>2, PagerAssumption DEF ReadFails, Reading, IInv, TypeOK
      <4> QED  BY <4>1, FailStep
    <3> QED  BY <3>1, <3>2
  <2> QED  BY <2>1, <2>2, <2>3
<1>3. CASE RetryCanceled
  <2>1. /\ Reading /\ 0 \in 0..MaxCost /\ Fail(0) /\ spent' = 0 /\ allowed' = 0
        /\ calls' = calls + (IF 0 = 0 THEN 0 ELSE 1)
        /\ UNCHANGED <<sel, token, limit, seen, asked, complete, repeated>>
        /\ ctxDone' \in BOOLEAN
    BY <1>3, PagerAssumption DEF RetryCanceled, Reading, IInv, TypeOK, history
  <2> QED  BY <2>1, FailStep
<1>4. CASE EndSelector  BY <1>4, SelectorStep
<1>5. CASE ContextDone \/ LeaveLoop \/ RetryRead \/ Done \/ UNCHANGED vars
  BY <1>5, QuietStep DEF Done
<1> QED  BY <1>1, <1>2, <1>3, <1>4, <1>5 DEF Next, Goroutine

\* The inductive invariant of the pager.
THEOREM Invariance == Spec => []IInv
<1>1. Init => IInv  BY InitIInv
<1>2. IInv /\ [Next]_vars => IInv'  BY NextIInv
<1> QED  BY <1>1, <1>2, PTL DEF Spec

\* The state keeps its shape.
THEOREM TypeCorrect == Spec => []TypeOK
<1>1. IInv => TypeOK  BY DEF IInv
<1> QED  BY <1>1, Invariance, PTL

\* Rows and scanned items stay within the target's budgets.
THEOREM ScanBudgetHolds == Spec => []ScanBudget
<1>1. IInv => ScanBudget  BY DEF IInv
<1> QED  BY <1>1, Invariance, PTL

\* The adapter is called at most perTargetRequests times.
THEOREM CallBudgetHolds == Spec => []CallBudget
<1>1. IInv => CallBudget
  BY PagerAssumption DEF IInv, CallBudget, Accounting, TypeOK
<1> QED  BY <1>1, Invariance, PTL

\* Upstream requests overshoot their budget by less than one adapter call.
THEOREM OvershootIsBounded == Spec => []RequestOvershoot
<1>1. IInv => RequestOvershoot
  BY PagerAssumption DEF IInv, RequestOvershoot, Accounting, TypeOK
<1> QED  BY <1>1, Invariance, PTL

\* With adapters that make one request per call the documented bound holds.
THEOREM OneRequestPerCall == ASSUME MaxCost = 1 PROVE Spec => []RequestBudget
<1>1. IInv => RequestBudget
  BY PagerAssumption DEF IInv, RequestBudget, Accounting, TypeOK
<1> QED  BY <1>1, Invariance, PTL

\* The page limits sent to providers are positive and fit the budgets.
THEOREM LimitsFit == Spec => []LimitFits
<1>1. IInv => LimitFits  BY DEF IInv
<1> QED  BY <1>1, Invariance, PTL

\* Success without a mark means that the last selector is listed to the end, and every other
\* one unless its listing was broken off at a repeated token.
THEOREM CompletionIsHonest == Spec => []HonestCompletion
<1>1. IInv => HonestCompletion  BY DEF IInv
<1> QED  BY <1>1, Invariance, PTL

\* A mark on a result from which nothing is missing has one cause: the provider reports to
\* have scanned more for the last page than was left of the target's scan budget.
THEOREM MarksAreHonest == Spec => []NoFalseAlarm
<1>1. IInv => NoFalseAlarm  BY DEF IInv
<1> QED  BY <1>1, Invariance, PTL

\* No page of a selector is asked for twice.
THEOREM PagesAreAskedOnce == Spec => NoPageTwice
<1> DEFINE Once == pc = "page" /\ pc' = "read" => token \notin asked
<1>1. IInv /\ [Next]_vars => [Once]_vars  BY DEF IInv, Asked
<1> QED  BY <1>1, Invariance, PTL DEF Spec, NoPageTwice

\* The composition with QueryAnswer: for every budget and every provider, what
\* the goroutine of a target sends is one of the outcomes QueryAnswer is built
\* on.
THEOREM SendsAnOutcome == Spec => []DeliversOutcome
<1>1. IInv => DeliversOutcome
  <2> SUFFICES ASSUME IInv, outcome # "none"
               PROVE  Result \in Promise!Outcomes(PerRequests, PerScan, RowGoal, MaxCost,
                                                   Selectors > 1)
    BY DEF DeliversOutcome
  <2> USE PagerAssumption
  <2>1. requests \in 0..(PerRequests + MaxCost - 1)
    <3>1. pc = "done"  BY DEF IInv, Listings
    <3>2. requests \in Nat /\ requests < PerRequests + MaxCost
      BY <3>1 DEF IInv, TypeOK, Accounting, Reading
    <3> QED  BY <3>2
  <2>2. scanned \in 0..PerScan /\ rows \in 0..RowGoal /\ rows <= scanned
    BY DEF IInv, TypeOK, ScanBudget
  <2>3. Result.ok /\ ~Result.more => Result.whole \/ Result.lostMark
    <3>1. SUFFICES ASSUME outcome = "ok", next = NoToken, complete # 1..Selectors
                   PROVE  repeated \ {Selectors} # {}
      BY DEF Result
    <3>2. complete \cup repeated = 1..Selectors /\ Selectors \in complete
      BY <3>1 DEF IInv, HonestCompletion
    <3>3. PICK s \in 1..Selectors : s \notin complete  BY <3>1, <3>2
    <3> QED  BY <3>2, <3>3
  <2>4. Result \in [ok : BOOLEAN, requests : 0..(PerRequests + MaxCost - 1), scanned : 0..PerScan,
                    rows : 0..RowGoal, more : BOOLEAN, whole : BOOLEAN, lostMark : BOOLEAN]
    <3>1. (outcome = "ok") \in BOOLEAN /\ (next # NoToken) \in BOOLEAN
            /\ (complete = 1..Selectors) \in BOOLEAN
            /\ (outcome = "ok" /\ next = NoToken /\ repeated \ {Selectors} # {}) \in BOOLEAN
      OBVIOUS
    <3> QED  BY <2>1, <2>2, <3>1 DEF Result
  <2>6. Result.lostMark => Selectors > 1 /\ Result.ok /\ ~Result.more
    <3>1. Result.lostMark => outcome = "ok" /\ next = NoToken /\ repeated \ {Selectors} # {}
      BY DEF Result
    <3>2. repeated \ {Selectors} # {} => Selectors > 1
      <4>1. SUFFICES ASSUME NEW s \in repeated \ {Selectors} PROVE Selectors > 1
        OBVIOUS
      <4>2. s \in 1..Selectors /\ s # Selectors  BY DEF IInv, TypeOK
      <4>3. s \in Nat /\ 1 <= s /\ s <= Selectors /\ Selectors \in Nat  BY <4>2
      <4> QED  BY <4>2, <4>3
    <3>3. (outcome = "ok" => Result.ok) /\ (next = NoToken => ~Result.more)  BY DEF Result
    <3> HIDE DEF Result
    <3> QED  BY <3>1, <3>2, <3>3
  <2>5. Result.rows <= Result.scanned  BY <2>2 DEF Result
  <2> QED  BY <2>3, <2>4, <2>5, <2>6 DEF Promise!Outcomes
<1> QED  BY <1>1, Invariance, PTL
=============================================================================
