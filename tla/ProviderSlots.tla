---------------------------- MODULE ProviderSlots ----------------------------
(***************************************************************************)
(* Calls of Engine.Query and Engine.NativeRead competing for the provider   *)
(* slots, a buffered channel (internal/engine/engine.go).  A query starts   *)
(* one goroutine per target; each takes a slot or gives up when the context *)
(* is done, reads its pages (TargetPager), sends its result, releases the   *)
(* slot and signals the wait group.  The caller drains the results only     *)
(* after all have signalled.  What is in the results and what becomes of    *)
(* them is QueryAnswer.                                                     *)
(***************************************************************************)
EXTENDS Naturals, FiniteSets

CONSTANTS Queries,      \* callers of Query, one call after another
          Natives,      \* callers of NativeRead
          Concurrency,  \* cap(providerSlots)
          MaxTargets    \* limits.MaxTargets

Index      == 1..MaxTargets
Goroutines == Queries \X Index
Clients    == Goroutines \cup Natives

ASSUME SlotsAssumption ==
    /\ IsFiniteSet(Clients)
    /\ Concurrency \in Nat \ {0}     \* New raises it to 1
    /\ MaxTargets \in Nat \ {0}      \* config: 1..128
    /\ Natives \cap Goroutines = {}

VARIABLES slots,    \* len(providerSlots)
          targets,  \* targets[q]: len(targets); 0 while q is not running
          task,     \* task[q][i]: where the goroutine of target i is
          results,  \* results[q]: len(results), a channel with room for targets[q]
          ctxDone,  \* ctxDone[q]: the query's context is done
          native    \* native[n]: where the caller of NativeRead is

vars == <<slots, targets, task, results, ctxDone, native>>

Init == /\ slots = 0
        /\ targets = [q \in Queries |-> 0]
        /\ task = [q \in Queries |-> [i \in Index |-> "none"]]
        /\ results = [q \in Queries |-> 0]
        /\ ctxDone = [q \in Queries |-> FALSE]
        /\ native = [n \in Natives |-> "idle"]

Running(q) == targets[q] > 0

\* A query planned onto n targets starts its goroutines.
Start(q, n) == /\ ~Running(q)
               /\ targets' = [targets EXCEPT ![q] = n]
               /\ task' = [task EXCEPT ![q] =
                             [i \in Index |-> IF i <= n THEN "want" ELSE "none"]]
               /\ UNCHANGED <<slots, results, ctxDone, native>>

\* The deadline of the query passes, or its caller goes away.
ContextDone(q) == /\ Running(q)
                  /\ ~ctxDone[q]
                  /\ ctxDone' = [ctxDone EXCEPT ![q] = TRUE]
                  /\ UNCHANGED <<slots, targets, task, results, native>>

Goto(q, i, from, to) == /\ task[q][i] = from
                        /\ task' = [task EXCEPT ![q][i] = to]
                        /\ UNCHANGED <<targets, ctxDone, native>>

\* Mutant: the capacity is ignored.
TakeSlotAnyway == slots' = slots + 1

TakeSlot == slots < Concurrency /\ slots' = slots + 1
GiveSlot == slots' = slots - 1

\* results <- targetResult{...}: blocks while the channel is full.
Send(q) == /\ results[q] < targets[q]
           /\ results' = [results EXCEPT ![q] = @ + 1]

\* The select at the head of a goroutine: there is a slot ...
Acquire(q, i) == /\ Goto(q, i, "want", "reading")
                 /\ TakeSlot
                 /\ UNCHANGED results

\* Mutants: the context is not looked at; the goroutine goes on after giving up.
GiveUpNever(q, i) == FALSE /\ UNCHANGED vars
GiveUpAndGoOn(q, i) == /\ ctxDone[q]
                       /\ Goto(q, i, "want", "reading")
                       /\ Send(q)
                       /\ UNCHANGED slots

\* ... or the context is done, and the result is its error.
GiveUp(q, i) == /\ ctxDone[q]
                /\ Goto(q, i, "want", "released")
                /\ Send(q)
                /\ UNCHANGED slots

\* The pages have been read, or reading them failed.
Deliver(q, i) == /\ Goto(q, i, "reading", "sent")
                 /\ Send(q)
                 /\ UNCHANGED slots

\* The deferred calls run last in, first out: the slot, then the wait group.
Release(q, i) == /\ Goto(q, i, "sent", "released")
                 /\ GiveSlot
                 /\ UNCHANGED results

Signal(q, i) == /\ Goto(q, i, "released", "done")
                /\ UNCHANGED <<slots, results>>

\* Mutant: the results are counted instead of the goroutines.
AllSent(q) == results[q] = targets[q]

\* wg.Wait returns.
AllSignaled(q) == \A i \in 1..targets[q] : task[q][i] = "done"

\* The results are drained and the query is answered.
Answer(q) == /\ Running(q)
             /\ AllSignaled(q)
             /\ targets' = [targets EXCEPT ![q] = 0]
             /\ results' = [results EXCEPT ![q] = 0]
             /\ ctxDone' = [ctxDone EXCEPT ![q] = FALSE]
             /\ UNCHANGED <<slots, task, native>>

-----------------------------------------------------------------------------
\* NativeRead waits for a slot in the same way and holds it over its attempts;
\* its context may be done at any time.
NativeGoto(n, from, to) == /\ native[n] = from
                           /\ native' = [native EXCEPT ![n] = to]
                           /\ UNCHANGED <<targets, task, results, ctxDone>>

NativeCall(n)    == NativeGoto(n, "idle", "want") /\ UNCHANGED slots
NativeAcquire(n) == NativeGoto(n, "want", "reading") /\ TakeSlot
NativeGiveUp(n)  == NativeGoto(n, "want", "idle") /\ UNCHANGED slots
NativeReturn(n)  == NativeGoto(n, "reading", "idle") /\ GiveSlot

-----------------------------------------------------------------------------
Task(q, i) == Acquire(q, i) \/ GiveUp(q, i) \/ Deliver(q, i) \/ Release(q, i) \/ Signal(q, i)

Next == \/ \E q \in Queries : \/ \E n \in Index : Start(q, n)
                              \/ ContextDone(q)
                              \/ \E i \in Index : Task(q, i)
                              \/ Answer(q)
        \/ \E n \in Natives :
             NativeCall(n) \/ NativeAcquire(n) \/ NativeGiveUp(n) \/ NativeReturn(n)

\* Goroutines are scheduled, and the pages of a target end (TargetPager).
Progress == \A q \in Queries : /\ WF_vars(Answer(q))
                               /\ \A i \in Index : WF_vars(Task(q, i))

\* Every query has a deadline (server.go:163).  Nothing is assumed of native
\* reads: they may hold their slots for ever.
Spec == /\ Init /\ [][Next]_vars
        /\ Progress
        /\ \A q \in Queries : WF_vars(ContextDone(q))
-----------------------------------------------------------------------------
Labels == {"none", "want", "reading", "sent", "released", "done"}

\* The shape of the state.
TypeOK == /\ slots \in 0..Concurrency
          /\ targets \in [Queries -> 0..MaxTargets]
          /\ task \in [Queries -> [Index -> Labels]]
          /\ results \in [Queries -> 0..MaxTargets]
          /\ ctxDone \in [Queries -> BOOLEAN]
          /\ native \in [Natives -> {"idle", "want", "reading"}]

\* Who is inside a provider, between taking a slot and giving it back.
Holding(label) == label \in {"reading", "sent"}
Holders == {t \in Goroutines : Holding(task[t[1]][t[2]])}
               \cup {n \in Natives : native[n] = "reading"}

\* The tokens in the channel are those of the goroutines and native reads that
\* hold a slot: none is lost when a goroutine gives up, fails or is canceled,
\* and none is returned twice.
SlotsAccounted == slots = Cardinality(Holders)

Unsent(q) == {i \in Index : task[q][i] \in {"want", "reading"}}

\* Every goroutine finds room for its result although nobody drains the channel
\* before wg.Wait: as many results as goroutines that have yet to send fit.
RoomForResults ==
    \A q \in Queries :
        results[q] + Cardinality(Unsent(q)) = targets[q]

\* When a query is answered all its goroutines have given their slots back, so
\* the next query of the same caller finds them free.
NothingHeldAfterAnswer ==
    \A q \in Queries : ~Running(q) => \A i \in Index : <<q, i>> \notin Holders

\* Queries and native reads together never exceed limits.concurrency
\* (TestEngineConcurrencyLimitIsSharedByQueryAndNativeRead).
Pool == INSTANCE SlotPool WITH Capacity <- Concurrency, held <- Holders
PoolSpec == Pool!Spec

\* Every query that starts is answered.
QueriesAreAnswered == \A q \in Queries : Running(q) ~> ~Running(q)
=============================================================================
