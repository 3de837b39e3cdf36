-------------------------- MODULE QueryAnswerProofs --------------------------
(***************************************************************************)
(* The shares of the targets add up to the budgets of the query, and the    *)
(* answer says what it is worth, for every budget, every number of targets  *)
(* and every limit.                                                         *)
(***************************************************************************)
EXTENDS QueryAnswer, TLAPS

Planned == plan.targets

\* What is known of the results while they come in and after.
Reckoning ==
    /\ phase \in {"idle", "refused"} => sum = NoSum
    /\ phase \in {"reading", "answered"} =>
         /\ Admitted(Planned)
         /\ Delivered <= Planned
         /\ sum.scanned <= Delivered * PerScan
         /\ sum.requests <= Delivered * (PerRequests + (MaxCost - 1))
    /\ sum.rows <= sum.scanned
    /\ sum.failed = 0 /\ ~sum.more => sum.whole \/ sum.lostMark
    /\ sum.lostMark => plan.several

IInv == TypeOK /\ Reckoning /\ CoverageAndStatus /\ CompleteUnlessSaid

\* The shares of n targets add up to no more than the whole.
LEMMA Shares ==
    ASSUME NEW B \in Nat, NEW n \in Nat, 1 <= n, n <= B
    PROVE  Most(1, B \div n) \in Nat /\ n * Most(1, B \div n) <= B
<1>1. B \div n \in Nat /\ n * (B \div n) <= B  BY SMT
<1>2. CASE 1 <= B \div n  BY <1>1, <1>2 DEF Most
<1>3. CASE ~(1 <= B \div n)  BY <1>1, <1>3 DEF Most
<1> QED  BY <1>2, <1>3

LEMMA Times ==
    ASSUME NEW a \in Nat, NEW b \in Nat, NEW c \in Nat
    PROVE  /\ a * c \in Nat
           /\ 0 * c = 0
           /\ a <= b => a * c <= b * c
           /\ (a + 1) * c = a * c + c
           /\ a * (b + c) = a * b + a * c
BY SMT

\* The number of targets is a number, and the shares of an admitted query fit.
LEMMA SharesFit ==
    ASSUME TypeOK
    PROVE  /\ Planned \in Nat /\ plan.skipped \in Nat
           /\ Admitted(Planned) =>
                /\ PerScan \in Nat /\ Planned * PerScan <= MaxScannedItems
                /\ PerRequests \in Nat /\ Planned * PerRequests <= MaxProviderRequests
<1> USE AnswerAssumption
<1>1. Planned \in Nat /\ plan.skipped \in Nat  BY DEF TypeOK, Plan, NoPlan, Planned
<1>2. ASSUME Admitted(Planned)
      PROVE  /\ PerScan \in Nat /\ Planned * PerScan <= MaxScannedItems
             /\ PerRequests \in Nat /\ Planned * PerRequests <= MaxProviderRequests
  BY <1>1, <1>2, Shares DEF Admitted, PerScan, PerRequests, Planned
<1> QED  BY <1>1, <1>2

\* A target delivers a result that keeps to its shares.
LEMMA SendStep ==
    ASSUME IInv, NEW o, Send(o),
           o.ok \in BOOLEAN, o.more \in BOOLEAN, o.whole \in BOOLEAN, o.lostMark \in BOOLEAN,
           o.requests \in Nat, o.scanned \in Nat, o.rows \in Nat,
           o.requests <= PerRequests + (MaxCost - 1), o.scanned <= PerScan,
           o.rows <= o.scanned, o.ok /\ ~o.more => o.whole \/ o.lostMark,
           o.lostMark => plan.several
    PROVE  IInv'
<1> USE AnswerAssumption DEF IInv
<1>1. /\ phase = "reading" /\ phase' = phase /\ plan' = plan /\ answer' = answer
      /\ Delivered < Planned
      /\ sum'.succeeded = sum.succeeded + (IF o.ok THEN 1 ELSE 0)
      /\ sum'.failed = sum.failed + (IF o.ok THEN 0 ELSE 1)
      /\ sum'.requests = sum.requests + o.requests
      /\ sum'.scanned = sum.scanned + o.scanned
      /\ sum'.rows = sum.rows + o.rows
      /\ sum'.more = (sum.more \/ o.more)
      /\ sum'.whole = (sum.whole /\ o.whole)
      /\ sum'.lostMark = (sum.lostMark \/ o.lostMark)
  BY DEF Send, Planned
<1>2. /\ sum.succeeded \in Nat /\ sum.failed \in Nat /\ sum.requests \in Nat
      /\ sum.scanned \in Nat /\ sum.rows \in Nat /\ Delivered \in Nat
  BY DEF TypeOK, Sums, Delivered
<1>3. TypeOK'
  <2>1. sum' \in Sums  BY <1>2 DEF Send, Sums, TypeOK
  <2> QED  BY <1>1, <2>1 DEF TypeOK
<1>4. Delivered' = Delivered + 1  BY <1>1, <1>2 DEF Delivered
<1>5. PerScan \in Nat /\ PerRequests \in Nat /\ PerRequests + (MaxCost - 1) \in Nat /\ Planned \in Nat
  BY <1>1, SharesFit DEF Reckoning
<1>6. sum'.scanned <= Delivered' * PerScan
  <2>1. Delivered' * PerScan = Delivered * PerScan + PerScan  BY <1>2, <1>4, <1>5, Times
  <2>2. Delivered * PerScan \in Nat  BY <1>2, <1>5, Times
  <2>3. sum.scanned <= Delivered * PerScan  BY <1>1 DEF Reckoning
  <2> QED  BY <1>1, <1>2, <1>5, <2>1, <2>2, <2>3
<1>7. sum'.requests <= Delivered' * (PerRequests + (MaxCost - 1))
  <2> DEFINE share == PerRequests + (MaxCost - 1)
  <2>1. Delivered' * share = Delivered * share + share  BY <1>2, <1>4, <1>5, Times
  <2>2. Delivered * share \in Nat /\ share \in Nat  BY <1>2, <1>5, Times
  <2>3. sum.requests <= Delivered * share  BY <1>1 DEF Reckoning
  <2>4. o.requests <= share  OBVIOUS
  <2> HIDE DEF share
  <2>5. sum'.requests <= Delivered' * share  BY <1>1, <1>2, <2>1, <2>2, <2>3, <2>4
  <2> QED  BY <2>5 DEF share
<1>8. PerScan' = PerScan /\ PerRequests' = PerRequests /\ Planned' = Planned
  BY <1>1 DEF PerScan, PerRequests, Planned
<1>9. Reckoning'
  <2>1. Admitted(Planned') /\ Delivered' <= Planned'
    BY <1>1, <1>2, <1>4, <1>5, <1>8 DEF Reckoning
  <2>2. sum'.rows <= sum'.scanned  BY <1>1, <1>2 DEF Reckoning
  <2>3. sum'.failed = 0 /\ ~sum'.more => sum'.whole \/ sum'.lostMark
    BY <1>1, <1>2 DEF Reckoning
  <2>4. sum'.lostMark => plan'.several  BY <1>1 DEF Reckoning
  <2> QED  BY <1>1, <1>6, <1>7, <1>8, <2>1, <2>2, <2>3, <2>4 DEF Reckoning
<1> QED  BY <1>1, <1>3, <1>9 DEF CoverageAndStatus, CompleteUnlessSaid

\* Goroutines that give up and goroutines that deliver.
LEMMA GiveUpStep == IInv /\ GiveUp => IInv'
<1> SUFFICES ASSUME IInv, GiveUp PROVE IInv'  OBVIOUS
<1>1. PerScan \in Nat /\ PerRequests \in Nat
  BY SharesFit DEF IInv, Reckoning, GiveUp, Send
<1>2. Send(Abandoned)  BY DEF GiveUp
<1>3. 0 <= PerRequests + (MaxCost - 1)  BY <1>1, AnswerAssumption
<1>4. /\ Abandoned.ok = FALSE /\ Abandoned.more = FALSE /\ Abandoned.whole = FALSE
      /\ Abandoned.lostMark = FALSE
      /\ Abandoned.requests = 0 /\ Abandoned.scanned = 0 /\ Abandoned.rows = 0
  BY DEF Abandoned
<1> DEFINE o == Abandoned
<1>5. /\ o.ok \in BOOLEAN /\ o.more \in BOOLEAN /\ o.whole \in BOOLEAN /\ o.lostMark \in BOOLEAN
      /\ o.requests \in Nat /\ o.scanned \in Nat /\ o.rows \in Nat
      /\ o.requests <= PerRequests + (MaxCost - 1) /\ o.scanned <= PerScan
      /\ o.rows <= o.scanned /\ (o.ok /\ ~o.more => o.whole \/ o.lostMark)
      /\ (o.lostMark => plan.several) /\ Send(o)
  <2>1. o.requests <= PerRequests + (MaxCost - 1)  BY <1>3, <1>4
  <2>2. o.scanned <= PerScan /\ o.rows <= o.scanned  BY <1>1, <1>4
  <2>3. /\ o.ok \in BOOLEAN /\ o.more \in BOOLEAN /\ o.whole \in BOOLEAN /\ o.lostMark \in BOOLEAN
        /\ o.ok /\ ~o.more => o.whole \/ o.lostMark
        /\ o.lostMark => plan.several
    BY <1>4, Zenon
  <2>4. o.requests \in Nat /\ o.scanned \in Nat /\ o.rows \in Nat  BY <1>4
  <2> QED  BY <1>2, <2>1, <2>2, <2>3, <2>4, Zenon
<1> HIDE DEF o
<1> QED  BY <1>5, SendStep

LEMMA DeliverStep == IInv /\ Deliver => IInv'
<1> SUFFICES ASSUME IInv, Deliver PROVE IInv'  OBVIOUS
<1>1. PICK o \in Outcomes(PerRequests, PerScan, RowGoal, MaxCost, plan.several) : Send(o)  BY DEF Deliver
<1>2. PerScan \in Nat /\ PerRequests \in Nat
  BY SharesFit DEF IInv, Reckoning, Deliver
<1>3. /\ o.ok \in BOOLEAN /\ o.more \in BOOLEAN /\ o.whole \in BOOLEAN /\ o.lostMark \in BOOLEAN
      /\ o.requests \in 0..(PerRequests + MaxCost - 1) /\ o.scanned \in 0..PerScan
      /\ o.rows \in 0..RowGoal
      /\ o.rows <= o.scanned /\ (o.ok /\ ~o.more => o.whole \/ o.lostMark)
      /\ (o.lostMark => plan.several)
  BY DEF Outcomes
<1>4. o.requests \in Nat /\ o.requests <= PerRequests + (MaxCost - 1)
  BY <1>2, <1>3, AnswerAssumption
<1> QED  BY <1>1, <1>2, <1>3, <1>4, SendStep

\* A query is planned, and refused or begun.
LEMMA QueryStep == ASSUME IInv, NEW p \in Plan, Query(p) PROVE IInv'
<1> USE AnswerAssumption DEF IInv
<1>1. /\ phase = "idle" /\ sum = NoSum /\ sum' = sum /\ answer' = answer /\ plan' = p
      /\ phase' = (IF Admitted(p.targets) THEN "reading" ELSE "refused")
  BY DEF Query, Reckoning
<1>2. TypeOK'  BY <1>1 DEF TypeOK
<1>3. /\ Delivered' = 0 /\ sum'.rows = 0 /\ sum'.scanned = 0 /\ sum'.requests = 0
      /\ sum'.whole = TRUE /\ sum'.lostMark = FALSE
  BY <1>1 DEF Delivered, NoSum
<1>4. Planned' = p.targets  BY <1>1 DEF Planned
<1>5. phase' = "reading" => /\ Admitted(Planned')
                            /\ 0 * PerScan' = 0
                            /\ 0 * (PerRequests' + (MaxCost - 1)) = 0
                            /\ 0 <= Planned'
  <2>1. SUFFICES ASSUME phase' = "reading"
                 PROVE  /\ Admitted(Planned')
                        /\ 0 * PerScan' = 0
                        /\ 0 * (PerRequests' + (MaxCost - 1)) = 0
                        /\ 0 <= Planned'
    OBVIOUS
  <2>2. Admitted(p.targets) /\ p.targets \in Nat  BY <1>1, <2>1 DEF Plan
  <2>3. PerScan' = Most(1, MaxScannedItems \div p.targets)
          /\ PerRequests' = Most(1, MaxProviderRequests \div p.targets)
    BY <1>1 DEF PerScan, PerRequests
  <2>4. PerScan' \in Nat /\ PerRequests' \in Nat  BY <2>2, <2>3, Shares DEF Admitted
  <2>5. 0 * PerScan' = 0  BY <2>4, Times
  <2>6. 0 * (PerRequests' + (MaxCost - 1)) = 0
    <3>1. \A c \in Nat : 0 * (c + (MaxCost - 1)) = 0
      <4>1. \A c \in Nat : c + (MaxCost - 1) \in Nat  OBVIOUS
      <4> QED  BY <4>1, Times
    <3> QED  BY <2>4, <3>1, Zenon
  <2> QED  BY <1>4, <2>2, <2>5, <2>6
<1>6. Reckoning'
  BY <1>1, <1>3, <1>5 DEF Reckoning
<1> QED  BY <1>1, <1>2, <1>6 DEF CoverageAndStatus, CompleteUnlessSaid

\* The answer is put together.
LEMMA AnswerStep ==
    ASSUME IInv, NEW matching \in 0..sum.rows, NEW count \in 0..(matching + 1),
           NEW bad \in BOOLEAN, Answer(matching, count, bad)
    PROVE  IInv'
<1> USE AnswerAssumption DEF IInv
<1>1. /\ sum.succeeded \in Nat /\ sum.failed \in Nat /\ sum.requests \in Nat
      /\ sum.scanned \in Nat /\ sum.rows \in Nat
      /\ plan.skipped \in Nat /\ plan.targets \in Nat
  BY SharesFit DEF TypeOK, Sums, Planned
<1>2. count \in Nat /\ plan.limit \in Nat \ {0}
  <2>1. plan \in Plan => plan.limit \in Limits  BY DEF Plan
  <2>2. plan = NoPlan => plan.limit = 1  BY DEF NoPlan
  <2>3. plan.limit \in Nat \ {0}
    <3>1. plan \in Plan \/ plan = NoPlan  BY DEF TypeOK
    <3>2. Limits \subseteq Nat \ {0} /\ 1 \in Nat \ {0}  OBVIOUS
    <3> QED  BY <2>1, <2>2, <3>1, <3>2
  <2>4. count \in Nat  BY <1>1
  <2> QED  BY <2>3, <2>4
<1>3. /\ phase = "reading" /\ phase' = "answered" /\ plan' = plan /\ sum' = sum
      /\ sum.succeeded + sum.failed = plan.targets
  BY DEF Answer, Delivered
<1>4. Least(count, plan.limit) \in Nat /\ (Least(count, plan.limit) = 0 <=> count = 0)
        /\ (~(count > plan.limit) => Least(count, plan.limit) = count)
  BY <1>2 DEF Least
<1>5. /\ answer'.planned = plan.targets + plan.skipped /\ answer'.succeeded = sum.succeeded
      /\ answer'.failed = plan.skipped + sum.failed /\ answer'.count = count
      /\ answer'.returned = Least(count, plan.limit) /\ answer'.bad = bad
      /\ ~answer'.truncated => ~sum.more /\ ~(count > plan.limit)
      /\ answer'.status = "failed" <=> sum.succeeded = 0 /\ Least(count, plan.limit) = 0
      /\ answer'.status = "ok" <=>
           /\ ~(sum.succeeded = 0 /\ Least(count, plan.limit) = 0)
           /\ ~(plan.skipped + sum.failed > 0 \/ bad)
  BY DEF Answer, Status, Failed, Truncated
<1>6. TypeOK'
  <2>1. answer' \in Answers
    BY <1>1, <1>2, <1>4 DEF Answer, Answers, Status, Failed, Truncated
  <2> QED  BY <1>3, <2>1 DEF TypeOK
<1>7. Reckoning'
  BY <1>3 DEF Reckoning, Delivered, PerScan, PerRequests, Planned
<1>8. plan.targets >= 1  BY <1>3 DEF Reckoning, Admitted, Planned
<1>9. CoverageAndStatus'
  <2>1. answer'.planned = answer'.succeeded + answer'.failed
    BY <1>1, <1>3, <1>5
  <2>2. answer'.status = "ok" <=> answer'.failed = 0 /\ ~answer'.bad
    <3>1. plan.skipped + sum.failed = 0 <=> plan.skipped = 0 /\ sum.failed = 0  BY <1>1
    <3>2. sum.failed = 0 => sum.succeeded # 0  BY <1>1, <1>3, <1>8
    <3>3. plan.skipped + sum.failed > 0 <=> ~(plan.skipped = 0 /\ sum.failed = 0)  BY <1>1
    <3> QED  BY <1>5, <3>1, <3>2, <3>3, Zenon
  <2>3. answer'.status = "failed" <=> answer'.succeeded = 0 /\ answer'.count = 0
    BY <1>4, <1>5, Zenon
  <2> QED  BY <2>1, <2>2, <2>3 DEF CoverageAndStatus
<1>10. CompleteUnlessSaid'
  BY <1>1, <1>3, <1>4, <1>5 DEF CompleteUnlessSaid, Reckoning
<1> QED  BY <1>6, <1>7, <1>9, <1>10

\* The initial states satisfy the invariant.
LEMMA InitIInv == Init => IInv
<1> SUFFICES ASSUME Init PROVE IInv  OBVIOUS
<1>1. TypeOK  BY DEF Init, TypeOK, NoSum, Sums, NoAnswer, Answers
<1>2. Reckoning  BY DEF Init, Reckoning, NoSum
<1>3. CoverageAndStatus /\ CompleteUnlessSaid
  BY DEF Init, CoverageAndStatus, CompleteUnlessSaid
<1> QED  BY <1>1, <1>2, <1>3 DEF IInv

\* Every step preserves the invariant.
LEMMA NextIInv == IInv /\ [Next]_vars => IInv'
<1> SUFFICES ASSUME IInv, [Next]_vars PROVE IInv'  OBVIOUS
<1>1. CASE \E p \in Plan : Query(p)  BY <1>1, QueryStep
<1>2. CASE GiveUp \/ Deliver  BY <1>2, GiveUpStep, DeliverStep
<1>3. CASE Collect
  <2>1. PICK matching \in 0..sum.rows, bad \in BOOLEAN :
           \E count \in 0..(matching + 1) : Answer(matching, count, bad)
    BY <1>3 DEF Collect
  <2> QED  BY <2>1, AnswerStep
<1>4. CASE UNCHANGED vars
  BY <1>4 DEF vars, IInv, TypeOK, Reckoning, CoverageAndStatus, CompleteUnlessSaid, Delivered,
              PerScan, PerRequests, Planned
<1> QED  BY <1>1, <1>2, <1>3, <1>4 DEF Next, Done

-----------------------------------------------------------------------------
\* The inductive invariant holds.
THEOREM Invariance == Spec => []IInv
BY InitIInv, NextIInv, PTL DEF Spec

\* Type correctness.
THEOREM TypeCorrect == Spec => []TypeOK
<1>1. IInv => TypeOK  BY DEF IInv
<1> QED  BY <1>1, Invariance, PTL

\* For every number of targets, the shares keep a query within its scan budget,
\* and within its request budget but for one call per target.
THEOREM BudgetsHold == Spec => []BudgetsAddUp
<1>1. IInv => BudgetsAddUp
  <2> SUFFICES ASSUME IInv PROVE BudgetsAddUp  OBVIOUS
  <2> USE AnswerAssumption DEF IInv
  <2>1. CASE phase \in {"idle", "refused"}
    <3>1. sum.rows = 0 /\ sum.scanned = 0 /\ sum.requests = 0
      BY <2>1 DEF Reckoning, NoSum
    <3>2. plan.targets * (MaxCost - 1) \in Nat  BY SharesFit, Times DEF Planned
    <3> QED  BY <3>1, <3>2 DEF BudgetsAddUp
  <2>2. CASE phase \in {"reading", "answered"}
    <3>1. /\ Planned \in Nat /\ Delivered \in Nat /\ Delivered <= Planned
          /\ PerScan \in Nat /\ Planned * PerScan <= MaxScannedItems
          /\ PerRequests \in Nat /\ Planned * PerRequests <= MaxProviderRequests
          /\ sum.scanned \in Nat /\ sum.requests \in Nat
          /\ sum.scanned <= Delivered * PerScan
          /\ sum.requests <= Delivered * (PerRequests + (MaxCost - 1))
      BY <2>2, SharesFit DEF Reckoning, TypeOK, Sums, Delivered
    <3>2. sum.scanned <= MaxScannedItems
      <4>1. Delivered * PerScan <= Planned * PerScan
              /\ Delivered * PerScan \in Nat /\ Planned * PerScan \in Nat
        BY <3>1, Times
      <4> QED  BY <3>1, <4>1
    <3>3. sum.requests <= MaxProviderRequests + Planned * (MaxCost - 1)
      <4> DEFINE share == PerRequests + (MaxCost - 1)
      <4>1. share \in Nat /\ MaxCost - 1 \in Nat  BY <3>1
      <4>2. Delivered * share <= Planned * share
              /\ Delivered * share \in Nat /\ Planned * share \in Nat
        BY <3>1, <4>1, Times
      <4>3. Planned * share = Planned * PerRequests + Planned * (MaxCost - 1)
              /\ Planned * PerRequests \in Nat /\ Planned * (MaxCost - 1) \in Nat
        BY <3>1, <4>1, Times
      <4>4. sum.requests <= Delivered * share  BY <3>1
      <4> HIDE DEF share
      <4> QED  BY <3>1, <4>2, <4>3, <4>4
    <3> QED  BY <3>2, <3>3 DEF BudgetsAddUp, Reckoning, Planned
  <2> QED  BY <2>1, <2>2 DEF TypeOK
<1> QED  BY <1>1, Invariance, PTL

\* Every planned target is accounted for, and the status agrees.
THEOREM CoverageIsHonest == Spec => []CoverageAndStatus
<1>1. IInv => CoverageAndStatus  BY DEF IInv
<1> QED  BY <1>1, Invariance, PTL

\* An answer that is ok and not truncated returns every row that results, and no row that a
\* provider listed is missing, unless the query is for several metric selectors and the
\* mark of a repeated token was lost.
THEOREM OkMeansComplete == Spec => []CompleteUnlessSaid
<1>1. IInv => CompleteUnlessSaid  BY DEF IInv
<1> QED  BY <1>1, Invariance, PTL
=============================================================================
