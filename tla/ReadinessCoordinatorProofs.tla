--------------------- MODULE ReadinessCoordinatorProofs ---------------------
(***************************************************************************)
(* Single flight, no lost wakeup and the spacing of probes, for any number  *)
(* of callers and any lifetime of the cache.                                *)
(***************************************************************************)
EXTENDS ReadinessCoordinator, TLAPS

\* A refresher has a channel to close and, when it publishes, a report.
HasReport == \A c \in Callers : /\ InFlight(c) => chan[c] \in Chans
                                /\ pc[c] = "publishing" => probed[c] \in Reports

IInv == TypeOK /\ SingleFlight /\ NoLostWakeup /\ ExpiryFromCompletion /\ HasReport

\* The initial states satisfy the invariant.
LEMMA InitIInv == Init => IInv
<1> SUFFICES ASSUME Init PROVE IInv  OBVIOUS
<1>1. \A c \in Callers : ~InFlight(c) /\ pc[c] = "idle"  BY DEF Init, InFlight
<1>2. TypeOK
  <2>1. TTL \in 0..TTL /\ 0 \in 0..TTL  BY CoordinatorAssumption
  <2> QED  BY <2>1 DEF Init, TypeOK
<1>3. SingleFlight /\ NoLostWakeup /\ HasReport
  BY <1>1 DEF Init, SingleFlight, NoLostWakeup, HasReport
<1>4. ExpiryFromCompletion  BY DEF Init, ExpiryFromCompletion
<1> QED  BY <1>2, <1>3, <1>4 DEF IInv

\* Steps that move no caller into or out of a refresh or a wait.
LEMMA QuietStep ==
    ASSUME IInv, NEW c \in Callers, Call(c) \/ Cancel(c) \/ ReadCache(c)
    PROVE  IInv'
<1> USE DEF IInv
<1>1. TypeOK'  BY DEF TypeOK, Call, Cancel, ReadCache, Goto, Return, shared
<1>2. \A d \in Callers : /\ InFlight(d)' <=> InFlight(d)
                         /\ (pc[d] = "waiting")' <=> pc[d] = "waiting"
                         /\ (pc[d] = "publishing")' <=> pc[d] = "publishing"
  BY DEF TypeOK, Call, Cancel, ReadCache, Goto, Return, InFlight
<1>3. \A d \in Callers : InFlight(d) \/ pc[d] = "waiting" =>
                            chan'[d] = chan[d] /\ probed'[d] = probed[d]
  BY DEF TypeOK, Call, Cancel, ReadCache, Goto, Return, InFlight, shared
<1>4. UNCHANGED <<shared, since>>  BY DEF Call, Cancel, ReadCache
<1>5. SingleFlight'  BY <1>2, <1>3, <1>4 DEF SingleFlight, shared
<1>6. NoLostWakeup'  BY <1>2, <1>3, <1>4 DEF NoLostWakeup, shared
<1>7. ExpiryFromCompletion'  BY <1>4 DEF ExpiryFromCompletion, shared
<1>8. HasReport'  BY <1>2, <1>3 DEF HasReport, InFlight
<1> QED  BY <1>1, <1>5, <1>6, <1>7, <1>8

\* A caller starts to wait on the channel of the refresh in flight, or stops
\* waiting.
LEMMA WaitStep ==
    ASSUME IInv, NEW c \in Callers, Join(c) \/ WaitCanceled(c) \/ WaitOver(c)
    PROVE  IInv'
<1> USE DEF IInv
<1>1. TypeOK'  BY DEF TypeOK, Join, WaitCanceled, WaitOver, Goto, Return, shared
<1>2. \A d \in Callers : InFlight(d)' <=> InFlight(d)
  BY DEF TypeOK, Join, WaitCanceled, WaitOver, Goto, Return, InFlight
<1>3. \A d \in Callers \ {c} : chan'[d] = chan[d] /\ probed'[d] = probed[d] /\ pc'[d] = pc[d]
  BY DEF TypeOK, Join, WaitCanceled, WaitOver, Goto, Return
<1>4. UNCHANGED <<shared, since>>  BY DEF Join, WaitCanceled, WaitOver
<1>5. ~InFlight(c)  BY DEF Join, WaitCanceled, WaitOver, InFlight
<1>6. SingleFlight'  BY <1>2, <1>3, <1>4, <1>5 DEF SingleFlight, shared
<1>7. NoLostWakeup'
  <2> SUFFICES ASSUME NEW d \in Callers, pc'[d] = "waiting"
               PROVE  chan'[d] \in closed' \/ \E e \in Callers : InFlight(e)' /\ chan'[e] = chan'[d]
    BY DEF NoLostWakeup
  <2>1. CASE d # c  BY <1>2, <1>3, <1>4, <1>5, <2>1 DEF NoLostWakeup, shared
  <2>2. CASE d = c
    <3>1. Join(c)  BY <2>2 DEF Join, WaitCanceled, WaitOver, Goto, Return, TypeOK
    <3>2. PICK e \in Callers : InFlight(e) /\ chan[e] = wait
      BY <3>1 DEF Join, SingleFlight
    <3>3. chan'[c] = wait  BY <3>1 DEF Join, TypeOK
    <3> QED  BY <1>2, <1>3, <1>5, <2>2, <3>2, <3>3
  <2> QED  BY <2>1, <2>2
<1>8. ExpiryFromCompletion'  BY <1>4 DEF ExpiryFromCompletion, shared
<1>9. HasReport'  BY <1>2, <1>3, <1>5 DEF HasReport, InFlight
<1> QED  BY <1>1, <1>6, <1>7, <1>8, <1>9

\* A caller becomes the refresher, on a channel of its own.
LEMMA StartStep == ASSUME IInv, NEW c \in Callers, StartRefresh(c) PROVE IInv'
<1> USE DEF IInv
<1>1. PICK ch \in Unreferenced : /\ wait' = ch /\ closed' = closed \ {ch}
                                 /\ chan' = [chan EXCEPT ![c] = ch]
  BY DEF StartRefresh, MayRefresh
<1>2. ch \in Chans  BY DEF Unreferenced
<1>3. pc' = [pc EXCEPT ![c] = "probing"] /\ pc[c] = "lock"  BY DEF StartRefresh, MayRefresh, Goto
<1>4. \A d \in Callers : ~InFlight(d)  BY DEF StartRefresh, MayRefresh, SingleFlight
<1>5. TypeOK'  BY <1>1, <1>2, <1>3 DEF TypeOK, StartRefresh, MayRefresh, shared
<1>6. SingleFlight'
  BY <1>1, <1>3, <1>4 DEF SingleFlight, TypeOK, InFlight, StartRefresh, MayRefresh
<1>7. NoLostWakeup'
  <2> SUFFICES ASSUME NEW d \in Callers, pc'[d] = "waiting"
               PROVE  chan'[d] \in closed'
    BY DEF NoLostWakeup
  <2>1. d # c /\ pc[d] = "waiting"  BY <1>3 DEF TypeOK
  <2>2. chan[d] \in closed  BY <1>4, <2>1 DEF NoLostWakeup
  <2>3. chan[d] # ch  BY <2>1 DEF Unreferenced
  <2> QED  BY <1>1, <2>1, <2>2, <2>3 DEF TypeOK
<1>8. ExpiryFromCompletion'  BY DEF ExpiryFromCompletion, StartRefresh, MayRefresh
<1>9. HasReport'  BY <1>1, <1>2, <1>3, <1>4 DEF HasReport, StartRefresh, MayRefresh, TypeOK, InFlight
<1> QED  BY <1>5, <1>6, <1>7, <1>8, <1>9

\* The probe returns.
LEMMA RunStep == ASSUME IInv, NEW c \in Callers, RunReturns(c) PROVE IInv'
<1> USE DEF IInv
<1>1. TypeOK'  BY DEF TypeOK, RunReturns, Goto, shared
<1>2. \A d \in Callers : /\ InFlight(d)' <=> InFlight(d)
                         /\ (pc[d] = "waiting")' <=> pc[d] = "waiting"
  BY DEF TypeOK, RunReturns, Goto, InFlight
<1>3. UNCHANGED <<shared, chan, since>>  BY DEF RunReturns
<1>4. SingleFlight' /\ NoLostWakeup'  BY <1>2, <1>3 DEF SingleFlight, NoLostWakeup, shared
<1>5. ExpiryFromCompletion'  BY <1>3 DEF ExpiryFromCompletion, shared
<1>6. HasReport'  BY <1>2, <1>3 DEF HasReport, RunReturns, Goto, TypeOK
<1> QED  BY <1>1, <1>4, <1>5, <1>6

\* The refresher publishes and releases the waiters.
LEMMA PublishStep == ASSUME IInv, NEW c \in Callers, Publish(c) PROVE IInv'
<1> USE DEF IInv
<1>1. pc' = [pc EXCEPT ![c] = "idle"] /\ InFlight(c)
  BY DEF Publish, Release, Return, Goto, InFlight
<1>2. \A d \in Callers : ~InFlight(d)'
  BY <1>1 DEF SingleFlight, TypeOK, InFlight
<1>3. probed[c] \in Reports  BY DEF HasReport, Publish, Release
<1>4. chan[c] \in Chans  BY <1>1 DEF HasReport
<1>5. TypeOK'
  <2>1. TTL \in 0..TTL /\ 0 \in 0..TTL  BY CoordinatorAssumption
  <2>2. chan' \in [Callers -> Chans \cup {NoChan}]
          /\ probed' \in [Callers -> Reports \cup {None}]
          /\ ctxDone' \in [Callers -> BOOLEAN]
    BY DEF TypeOK, Publish, Release, Return
  <2> QED  BY <1>1, <1>3, <1>4, <2>1, <2>2 DEF TypeOK, Publish, Release
<1>6. SingleFlight'  BY <1>2 DEF SingleFlight, Publish, Release
<1>7. NoLostWakeup'
  <2> SUFFICES ASSUME NEW d \in Callers, pc'[d] = "waiting"
               PROVE  chan'[d] \in closed'
    BY DEF NoLostWakeup
  <2>1. d # c /\ pc[d] = "waiting" /\ chan'[d] = chan[d]
    BY <1>1 DEF TypeOK, Publish, Release, Return
  <2>2. chan[d] \in closed \/ chan[d] = chan[c]
    BY <1>1, <2>1 DEF NoLostWakeup, SingleFlight
  <2> QED  BY <2>1, <2>2 DEF Publish, Release
<1>8. ExpiryFromCompletion'
  BY <1>3, CoordinatorAssumption DEF ExpiryFromCompletion, Publish, Release
<1>9. HasReport'  BY <1>2 DEF HasReport, InFlight
<1> QED  BY <1>5, <1>6, <1>7, <1>8, <1>9

\* Every step preserves the invariant.
LEMMA NextIInv == IInv /\ [Next]_vars => IInv'
<1> SUFFICES ASSUME IInv, [Next]_vars PROVE IInv'  OBVIOUS
<1>1. ASSUME NEW c \in Callers, Call(c) \/ Cancel(c) \/ Step(c) PROVE IInv'
  BY <1>1, QuietStep, WaitStep, StartStep, RunStep, PublishStep DEF Step
<1>2. CASE Tick
  BY <1>2, CoordinatorAssumption
     DEF Tick, IInv, TypeOK, SingleFlight, NoLostWakeup, ExpiryFromCompletion, HasReport, InFlight
<1>3. CASE UNCHANGED vars
  BY <1>3 DEF vars, shared, IInv, TypeOK, SingleFlight, NoLostWakeup, ExpiryFromCompletion,
              HasReport, InFlight
<1> QED  BY <1>1, <1>2, <1>3 DEF Next

\* The inductive invariant of the coordinator.
THEOREM Invariance == Spec => []IInv
<1>1. Init => IInv  BY InitIInv
<1>2. IInv /\ [Next]_vars => IInv'  BY NextIInv
<1> QED  BY <1>1, <1>2, PTL DEF Spec

\* The state keeps its shape.
THEOREM TypeCorrect == Spec => []TypeOK
<1>1. IInv => TypeOK  BY DEF IInv
<1> QED  BY <1>1, Invariance, PTL

\* At most one probe is in flight, and the flag and the channel say so.
THEOREM OneProbeAtATime == Spec => []SingleFlight
<1>1. IInv => SingleFlight  BY DEF IInv
<1> QED  BY <1>1, Invariance, PTL

\* Every waiter's channel is closed or will be closed by the refresh in flight.
THEOREM WaitersAreReleased == Spec => []NoLostWakeup
<1>1. IInv => NoLostWakeup  BY DEF IInv
<1> QED  BY <1>1, Invariance, PTL

\* The lifetime of the cache runs from the completion of the probe.
THEOREM LifetimeFromCompletion == Spec => []ExpiryFromCompletion
<1>1. IInv => ExpiryFromCompletion  BY DEF IInv
<1> QED  BY <1>1, Invariance, PTL

\* A probe starts no sooner than TTL after the last one completed.
THEOREM ProbesNeverCrowd == Spec => ProbesAreSpaced
<1> DEFINE Spaced == (\E c \in Callers : pc[c] = "lock" /\ pc'[c] = "probing") => since = TTL
<1>1. ASSUME IInv, Next, NEW c \in Callers, pc[c] = "lock", pc'[c] = "probing"
      PROVE  since = TTL
  <2>1. StartRefresh(c)
    BY <1>1 DEF Next, Step, Call, Cancel, ReadCache, Join, StartRefresh, MayRefresh, WaitCanceled,
                WaitOver, RunReturns, Publish, Release, Tick, Goto, Return, IInv, TypeOK
  <2>2. cached = None \/ left = 0  BY <1>1, <2>1 DEF StartRefresh, MayRefresh, Fresh, IInv, TypeOK
  <2> QED  BY <1>1, <2>2 DEF IInv, ExpiryFromCompletion, TypeOK
<1>2. IInv /\ [Next]_vars => [Spaced]_vars  BY <1>1
<1> QED  BY <1>2, Invariance, PTL DEF Spec, ProbesAreSpaced

\* Answers given without probing are less than TTL old.
THEOREM CachedAnswersAreFresh == Spec => AnswersAreFresh
<1> DEFINE FreshAnswer == \A c \in Callers : pc[c] = "lock" /\ pc'[c] = "idle" =>
                             cached # None /\ since < TTL
<1>1. ASSUME IInv, Next, NEW c \in Callers, pc[c] = "lock", pc'[c] = "idle"
      PROVE  cached # None /\ since < TTL
  <2>1. Fresh
    BY <1>1 DEF Next, Step, Call, Cancel, ReadCache, Join, StartRefresh, MayRefresh, WaitCanceled,
                WaitOver, RunReturns, Publish, Release, Tick, Goto, Return, IInv, TypeOK
  <2> QED  BY <1>1, <2>1, CoordinatorAssumption DEF Fresh, IInv, ExpiryFromCompletion, TypeOK
<1>2. IInv /\ [Next]_vars => [FreshAnswer]_vars  BY <1>1
<1> QED  BY <1>2, Invariance, PTL DEF Spec, AnswersAreFresh
=============================================================================
