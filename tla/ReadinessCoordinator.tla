------------------------ MODULE ReadinessCoordinator ------------------------
(***************************************************************************)
(* The readiness cache behind /readyz (internal/probe/readiness.go): callers *)
(* of Current share one cached probe report, one of them refreshes it when   *)
(* it has expired and the others wait on a channel that the refresher        *)
(* closes.  Each critical section of Current is one step; the probe itself,  *)
(* Runner.Run, happens between two of them and may take any time.            *)
(***************************************************************************)
EXTENDS Naturals

CONSTANTS Callers,   \* goroutines that call Current, again and again
          Chans,     \* identities for the wait channels; unreferenced ones are reused
          Reports,   \* outcomes of a probe: reports and errors alike are cached
          TTL        \* Coordinator.ttl, in clock ticks

None   == "none"
NoChan == "nil"

ASSUME CoordinatorAssumption == /\ TTL \in Nat \ {0}   \* NewCoordinator: one minute if <= 0
                                /\ None \notin Reports
                                /\ NoChan \notin Chans

VARIABLES cached,      \* Coordinator.cached and cachedErr; None until hasCached
          left,        \* ticks until Coordinator.expires; 0 once it has passed
          refreshing,  \* Coordinator.refreshing
          wait,        \* Coordinator.wait
          closed,      \* the channels that are closed
          pc,          \* where each caller is in Current
          chan,        \* a caller's local copy of wait
          probed,      \* a refresher's local report, between Run and publication
          ctxDone,     \* the caller's context is canceled
          since        \* ticks since the last publication, up to TTL (history)

vars == <<cached, left, refreshing, wait, closed, pc, chan, probed, ctxDone, since>>
shared == <<cached, left, refreshing, wait, closed>>

Init == /\ cached = None
        /\ left = 0
        /\ refreshing = FALSE
        /\ wait = NoChan
        /\ closed = Chans
        /\ pc = [c \in Callers |-> "idle"]
        /\ chan = [c \in Callers |-> NoChan]
        /\ probed = [c \in Callers |-> None]
        /\ ctxDone = [c \in Callers |-> FALSE]
        /\ since = TTL

Goto(c, label) == pc' = [pc EXCEPT ![c] = label]

\* Current returns; its local variables are gone.
Return(c) == /\ Goto(c, "idle")
             /\ chan' = [chan EXCEPT ![c] = NoChan]
             /\ probed' = [probed EXCEPT ![c] = None]
             /\ ctxDone' = [ctxDone EXCEPT ![c] = FALSE]

-----------------------------------------------------------------------------
\* Current is called with a live context.
Call(c) == /\ pc[c] = "idle"
           /\ Goto(c, "lock")
           /\ UNCHANGED <<shared, chan, probed, ctxDone, since>>

\* The request behind the call goes away.
Cancel(c) == /\ pc[c] # "idle"
             /\ ~ctxDone[c]
             /\ ctxDone' = [ctxDone EXCEPT ![c] = TRUE]
             /\ UNCHANGED <<shared, pc, chan, probed, since>>

\* Mutants: expired one tick early, never expired.
FreshTooShort == cached # None /\ left > 1
FreshForever  == cached # None

Fresh == cached # None /\ left > 0

\* Under the lock: a report that has not expired is returned as cached.
ReadCache(c) == /\ pc[c] = "lock"
                /\ Fresh
                /\ Return(c)
                /\ UNCHANGED <<shared, since>>

\* Under the lock: a refresh is running, so take its channel and wait.
Join(c) == /\ pc[c] = "lock"
           /\ ~Fresh
           /\ refreshing
           /\ Goto(c, "waiting")
           /\ chan' = [chan EXCEPT ![c] = wait]
           /\ UNCHANGED <<shared, probed, ctxDone, since>>

\* make(chan): a channel nobody waits on, open.
Unreferenced == Chans \ {chan[d] : d \in {e \in Callers : pc[e] = "waiting"}}

\* Mutant: a refresh in flight is not noticed.
MayRefreshAnyway == ~Fresh

MayRefresh == ~Fresh /\ ~refreshing

\* Under the lock: become the refresher.
StartRefresh(c) == /\ pc[c] = "lock"
                   /\ MayRefresh
                   /\ refreshing' = TRUE
                   /\ \E ch \in Unreferenced :
                        /\ wait' = ch
                        /\ closed' = closed \ {ch}
                        /\ chan' = [chan EXCEPT ![c] = ch]
                   /\ Goto(c, "probing")
                   /\ UNCHANGED <<cached, left, probed, ctxDone, since>>

\* The select of a waiter whose context is done ...
WaitCanceled(c) == /\ pc[c] = "waiting"
                   /\ ctxDone[c]
                   /\ Return(c)
                   /\ UNCHANGED <<shared, since>>

\* ... and of one whose channel is closed, which starts over.
WaitOver(c) == /\ pc[c] = "waiting"
               /\ chan[c] \in closed
               /\ Goto(c, "lock")
               /\ chan' = [chan EXCEPT ![c] = NoChan]
               /\ UNCHANGED <<shared, probed, ctxDone, since>>

\* Runner.Run returns under its own deadline, whatever became of the caller.
RunReturns(c) == /\ pc[c] = "probing"
                 /\ \E r \in Reports : probed' = [probed EXCEPT ![c] = r]
                 /\ Goto(c, "publishing")
                 /\ UNCHANGED <<shared, chan, ctxDone, since>>

\* Mutant: the waiters are forgotten.
ReleaseFlagOnly(c) == refreshing' = FALSE /\ UNCHANGED closed

Release(c) == refreshing' = FALSE /\ closed' = closed \cup {chan[c]}

\* Under the lock: the report is cached for TTL from now, the waiters released.
Publish(c) == /\ pc[c] = "publishing"
              /\ cached' = probed[c]
              /\ left' = TTL
              /\ since' = 0
              /\ Release(c)
              /\ Return(c)
              /\ UNCHANGED wait

\* The clock.
Tick == /\ left' = IF left = 0 THEN 0 ELSE left - 1
        /\ since' = IF since = TTL THEN TTL ELSE since + 1
        /\ UNCHANGED <<cached, refreshing, wait, closed, pc, chan, probed, ctxDone>>

\* What the caller's goroutine does once called: it is never held up for good.
Step(c) == \/ ReadCache(c) \/ Join(c) \/ StartRefresh(c)
           \/ WaitCanceled(c) \/ WaitOver(c) \/ RunReturns(c) \/ Publish(c)

Next == \/ \E c \in Callers : Call(c) \/ Cancel(c) \/ Step(c)
        \/ Tick

\* The Go scheduler runs every goroutine that can run, and Run returns by its
\* deadline.  Nobody has to call, to cancel, or to wait for the clock.
Fairness == \A c \in Callers : WF_vars(Step(c))

Spec == Init /\ [][Next]_vars /\ Fairness
-----------------------------------------------------------------------------
InFlight(c) == pc[c] \in {"probing", "publishing"}

\* The shape of the state.
TypeOK == /\ cached \in Reports \cup {None}
          /\ left \in 0..TTL
          /\ refreshing \in BOOLEAN
          /\ wait \in Chans \cup {NoChan}
          /\ closed \subseteq Chans
          /\ pc \in [Callers -> {"idle", "lock", "waiting", "probing", "publishing"}]
          /\ chan \in [Callers -> Chans \cup {NoChan}]
          /\ probed \in [Callers -> Reports \cup {None}]
          /\ ctxDone \in [Callers -> BOOLEAN]
          /\ since \in 0..TTL

\* At most one probe is in flight, exactly while the flag is up, and the
\* channel it will close is the open one that newcomers are given.
SingleFlight ==
    /\ \A c, d \in Callers : InFlight(c) /\ InFlight(d) => c = d
    /\ refreshing <=> \E c \in Callers : InFlight(c)
    /\ \A c \in Callers : InFlight(c) => chan[c] = wait /\ wait \notin closed

\* Nobody sleeps on a channel that no one will close.
NoLostWakeup ==
    \A c \in Callers : pc[c] = "waiting" =>
        chan[c] \in closed \/ \E d \in Callers : InFlight(d) /\ chan[d] = chan[c]

\* The cache expires exactly one TTL after the last publication.
ExpiryFromCompletion ==
    /\ cached = None => left = 0 /\ since = TTL
    /\ cached # None => left + since = TTL

\* The cloud is probed at most once per TTL counted from the completion of the
\* last probe, however many callers come, wake up or give up
\* (configuration.md:130: "for one minute from probe completion").
ProbesAreSpaced ==
    [][(\E c \in Callers : pc[c] = "lock" /\ pc'[c] = "probing") => since = TTL]_vars

\* A caller that is answered without probing gets the report of a probe that
\* completed less than TTL ago.
AnswersAreFresh ==
    [][\A c \in Callers : pc[c] = "lock" /\ pc'[c] = "idle" =>
          cached # None /\ since < TTL]_vars

\* A caller is answered unless reports keep being published and expiring before
\* it gets to look at them.
OnlyExpiryStarves ==
    \A c \in Callers : []<>(pc[c] = "idle") \/ []<><<since' = 0>>_since
=============================================================================
