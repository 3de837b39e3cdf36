--------------------------- MODULE ProviderProofs ---------------------------
(***************************************************************************)
(* What the engine asks of the providers.  First the slots that a request   *)
(* takes: they are a pool of Concurrency slots of which none is lost, and   *)
(* no goroutine blocks on its result, for every number of queries, targets, *)
(* native reads and slots.  Then the detail read that a native read makes   *)
(* of its adapter: for each of the forty plans, every profile and every     *)
(* catalogue of regions, its row is of the thing asked for, its calls are   *)
(* counted, and it is empty only of a thing that is elsewhere.              *)
(***************************************************************************)
EXTENDS ProviderSlots, DetailReads, SequenceTheorems, FiniteSetTheorems, TLAPS

(* The slots. *)

\* A running query has a goroutine for each of its targets; those of a query
\* that was answered have ended.
TasksOK == \A q \in Queries, i \in Index :
             IF Running(q) THEN task[q][i] = "none" <=> i > targets[q]
             ELSE task[q][i] \in {"none", "done"}

IInv == TypeOK /\ TasksOK /\ SlotsAccounted /\ RoomForResults

\* Sets of clients and of targets are finite.
LEMMA Finite ==
    /\ \A S \in SUBSET Clients : IsFiniteSet(S) /\ Cardinality(S) \in Nat
    /\ \A S \in SUBSET Index : IsFiniteSet(S) /\ Cardinality(S) \in Nat
<1>1. IsFiniteSet(Clients)  BY SlotsAssumption
<1>2. IsFiniteSet(Index)  BY SlotsAssumption, FS_Interval DEF Index
<1> QED  BY <1>1, <1>2, FS_Subset, FS_CardinalityType

\* Those that hold a slot are clients.
LEMMA HoldersAreClients == Holders \subseteq Clients /\ Holders' \subseteq Clients
BY DEF Holders, Clients

\* A goroutine moves from one place to another: the other goroutines stay, and
\* the holders change by it alone.
LEMMA GotoMoves ==
    ASSUME TypeOK, NEW q \in Queries, NEW i \in Index, NEW from \in Labels, NEW to \in Labels,
           Goto(q, i, from, to)
    PROVE  /\ task' \in [Queries -> [Index -> Labels]]
           /\ task[q][i] = from /\ task'[q][i] = to
           /\ \A p \in Queries, j \in Index : <<p, j>> # <<q, i>> => task'[p][j] = task[p][j]
           /\ <<q, i>> \in Holders <=> Holding(from)
           /\ Holding(to) => Holders' = Holders \cup {<<q, i>>}
           /\ ~Holding(to) => Holders' = Holders \ {<<q, i>>}
<1>1. task' \in [Queries -> [Index -> Labels]] /\ task'[q][i] = to /\ task[q][i] = from
  BY DEF Goto, TypeOK
<1>2. ASSUME NEW p \in Queries, NEW j \in Index, <<p, j>> # <<q, i>>
      PROVE  task'[p][j] = task[p][j]
  <2>1. CASE p = q  BY <1>2, <2>1 DEF Goto, TypeOK
  <2>2. CASE p # q  BY <2>2 DEF Goto, TypeOK
  <2> QED  BY <2>1, <2>2
<1>3. native' = native  BY DEF Goto
<1>4. <<q, i>> \in Goroutines /\ <<q, i>> \notin Natives  BY SlotsAssumption DEF Goroutines
<1>5. \A t \in Goroutines : t = <<t[1], t[2]>> /\ t[1] \in Queries /\ t[2] \in Index
  BY DEF Goroutines
<1>6. \A t \in Goroutines : t # <<q, i>> => task'[t[1]][t[2]] = task[t[1]][t[2]]
  BY <1>2, <1>5
<1>7. \A x : x # <<q, i>> => (x \in Holders' <=> x \in Holders)
  BY <1>3, <1>6 DEF Holders
<1>8. <<q, i>> \in Holders <=> Holding(from)
  BY <1>1, <1>4 DEF Holders
<1>9. <<q, i>> \in Holders' <=> Holding(to)
  BY <1>1, <1>3, <1>4 DEF Holders
<1> QED  BY <1>1, <1>2, <1>7, <1>8, <1>9

\* A goroutine that moves on without sending: the accounts follow its slot.
LEMMA MoveStep ==
    ASSUME IInv, NEW q \in Queries, NEW i \in Index,
           Acquire(q, i) \/ Release(q, i) \/ Signal(q, i)
    PROVE  IInv'
<1> USE DEF IInv
<1>1. PICK from \in Labels \ {"none", "done"}, to \in Labels \ {"none"} :
         /\ Goto(q, i, from, to)
         /\ from \in {"want", "reading"} <=> to \in {"want", "reading"}
         /\ UNCHANGED results
         /\ \/ ~Holding(from) /\ Holding(to) /\ TakeSlot
            \/ Holding(from) /\ ~Holding(to) /\ GiveSlot
            \/ ~Holding(from) /\ ~Holding(to) /\ UNCHANGED slots
  <2>1. CASE Acquire(q, i)  BY <2>1 DEF Acquire, Labels, Holding
  <2>2. CASE Release(q, i)  BY <2>2 DEF Release, Labels, Holding
  <2>3. CASE Signal(q, i)   BY <2>3 DEF Signal, Labels, Holding
  <2> QED  BY <2>1, <2>2, <2>3
<1>2. /\ task' \in [Queries -> [Index -> Labels]]
      /\ task[q][i] = from /\ task'[q][i] = to
      /\ \A p \in Queries, j \in Index : <<p, j>> # <<q, i>> => task'[p][j] = task[p][j]
      /\ <<q, i>> \in Holders <=> Holding(from)
      /\ Holding(to) => Holders' = Holders \cup {<<q, i>>}
      /\ ~Holding(to) => Holders' = Holders \ {<<q, i>>}
  BY <1>1, GotoMoves
<1>3. IsFiniteSet(Holders) /\ Cardinality(Holders) \in Nat /\ Cardinality(Holders') \in Nat
  BY Finite, HoldersAreClients
<1>4. SlotsAccounted'
  <2>1. CASE ~Holding(from) /\ Holding(to) /\ TakeSlot
    BY <1>2, <1>3, <2>1, FS_AddElement DEF SlotsAccounted, TakeSlot
  <2>2. CASE Holding(from) /\ ~Holding(to) /\ GiveSlot
    BY <1>2, <1>3, <2>2, FS_RemoveElement DEF SlotsAccounted, GiveSlot
  <2>3. CASE ~Holding(from) /\ ~Holding(to) /\ UNCHANGED slots
    <3>1. Holders' = Holders  BY <1>2, <2>3
    <3> QED  BY <2>3, <3>1 DEF SlotsAccounted
  <2> QED  BY <1>1, <2>1, <2>2, <2>3
<1>5. slots' \in 0..Concurrency
  <2>1. slots \in 0..Concurrency /\ Concurrency \in Nat  BY SlotsAssumption DEF TypeOK
  <2>2. slots' \in Nat  BY <1>3, <1>4 DEF SlotsAccounted
  <2> QED  BY <1>1, <2>1, <2>2 DEF TakeSlot, GiveSlot
<1>6. TypeOK'  BY <1>1, <1>2, <1>5 DEF TypeOK, Goto
<1>7. TasksOK'  BY <1>1, <1>2 DEF TasksOK, Goto, Running
<1>8. \A p \in Queries : Unsent(p)' = Unsent(p)  BY <1>1, <1>2 DEF Unsent
<1>9. RoomForResults'  BY <1>1, <1>8 DEF RoomForResults, Goto
<1> QED  BY <1>4, <1>6, <1>7, <1>9

\* A goroutine sends its result: there is one fewer to come, and one more in
\* the channel.
LEMMA SendStep ==
    ASSUME IInv, NEW q \in Queries, NEW i \in Index, GiveUp(q, i) \/ Deliver(q, i)
    PROVE  IInv'
<1> USE DEF IInv
<1>1. PICK from \in {"want", "reading"}, to \in {"released", "sent"} :
         /\ Goto(q, i, from, to) /\ Send(q) /\ UNCHANGED slots
         /\ Holding(from) <=> Holding(to)
  BY DEF GiveUp, Deliver, Holding
<1>2. /\ task' \in [Queries -> [Index -> Labels]]
      /\ task[q][i] = from /\ task'[q][i] = to
      /\ \A p \in Queries, j \in Index : <<p, j>> # <<q, i>> => task'[p][j] = task[p][j]
      /\ Holders' = Holders
  <2>1. from \in Labels /\ to \in Labels  BY DEF Labels
  <2>2. /\ task' \in [Queries -> [Index -> Labels]]
        /\ task[q][i] = from /\ task'[q][i] = to
        /\ \A p \in Queries, j \in Index : <<p, j>> # <<q, i>> => task'[p][j] = task[p][j]
        /\ <<q, i>> \in Holders <=> Holding(from)
        /\ Holding(to) => Holders' = Holders \cup {<<q, i>>}
        /\ ~Holding(to) => Holders' = Holders \ {<<q, i>>}
    BY <1>1, <2>1, GotoMoves
  <2> QED  BY <1>1, <2>2
<1>3. SlotsAccounted'  BY <1>1, <1>2 DEF SlotsAccounted
<1>4. results' = [results EXCEPT ![q] = @ + 1] /\ results[q] < targets[q] /\ targets' = targets
  BY <1>1 DEF Send, Goto
<1>5. results'[q] \in 0..MaxTargets
  BY <1>4, SlotsAssumption DEF TypeOK
<1>6. TypeOK'  BY <1>1, <1>2, <1>4, <1>5 DEF TypeOK, Goto
<1>7. TasksOK'  BY <1>1, <1>2 DEF TasksOK, Goto, Running
<1>8. Unsent(q)' = Unsent(q) \ {i} /\ i \in Unsent(q)
  BY <1>1, <1>2 DEF Unsent
<1>9. Cardinality(Unsent(q)') = Cardinality(Unsent(q)) - 1 /\ Cardinality(Unsent(q)) \in Nat
  <2>1. Unsent(q) \in SUBSET Index  BY DEF Unsent
  <2> QED  BY <1>8, <2>1, Finite, FS_RemoveElement
<1>10. ASSUME NEW p \in Queries
       PROVE  results'[p] + Cardinality(Unsent(p)') = targets'[p]
  <2>1. CASE p = q
    <3>1. results[q] + Cardinality(Unsent(q)) = targets[q]  BY DEF RoomForResults
    <3>2. results'[q] = results[q] + 1 /\ results[q] \in Nat  BY <1>4 DEF TypeOK
    <3> QED  BY <1>4, <1>9, <2>1, <3>1, <3>2
  <2>2. CASE p # q
    <3>1. Unsent(p)' = Unsent(p)  BY <1>2, <2>2 DEF Unsent
    <3>2. results'[p] = results[p] /\ targets'[p] = targets[p]  BY <1>4, <2>2 DEF TypeOK
    <3> QED  BY <3>1, <3>2 DEF RoomForResults
  <2> QED  BY <2>1, <2>2
<1> QED  BY <1>3, <1>6, <1>7, <1>10 DEF RoomForResults

\* A query that holds nothing before and after, and whose goroutines are
\* replaced as a whole, leaves the slots alone.
LEMMA ReplaceTasks ==
    ASSUME TypeOK, NEW q \in Queries, NEW f \in [Index -> Labels],
           task' = [task EXCEPT ![q] = f], native' = native,
           \A i \in Index : ~Holding(task[q][i]) /\ ~Holding(f[i])
    PROVE  /\ task' \in [Queries -> [Index -> Labels]]
           /\ task'[q] = f
           /\ \A p \in Queries \ {q} : task'[p] = task[p]
           /\ Holders' = Holders
<1>1. /\ task' \in [Queries -> [Index -> Labels]] /\ task'[q] = f
      /\ \A p \in Queries \ {q} : task'[p] = task[p]
  BY DEF TypeOK
<1>2. \A t \in Goroutines : t[1] \in Queries /\ t[2] \in Index  BY DEF Goroutines
<1>3. \A t \in Goroutines : Holding(task'[t[1]][t[2]]) <=> Holding(task[t[1]][t[2]])
  <2>1. SUFFICES ASSUME NEW t \in Goroutines
                 PROVE  Holding(task'[t[1]][t[2]]) <=> Holding(task[t[1]][t[2]])
    OBVIOUS
  <2>2. CASE t[1] = q  BY <1>1, <1>2, <2>2
  <2>3. CASE t[1] # q  BY <1>1, <1>2, <2>3
  <2> QED  BY <2>2, <2>3
<1> QED  BY <1>1, <1>3 DEF Holders

\* A query starts.
LEMMA StartStep ==
    ASSUME IInv, NEW q \in Queries, NEW n \in Index, Start(q, n) PROVE IInv'
<1> USE SlotsAssumption DEF IInv
<1> DEFINE f == [i \in Index |-> IF i <= n THEN "want" ELSE "none"]
<1>1. /\ targets[q] = 0 /\ targets' = [targets EXCEPT ![q] = n]
      /\ task' = [task EXCEPT ![q] = f]
      /\ UNCHANGED <<slots, results, ctxDone, native>>
  BY DEF Start, Running, TypeOK
<1>2. \A i \in Index : task[q][i] \in {"none", "done"}  BY <1>1 DEF TasksOK, Running
<1>3. f \in [Index -> Labels] /\ \A i \in Index : ~Holding(task[q][i]) /\ ~Holding(f[i])
  BY <1>2 DEF Labels, Holding
<1> HIDE DEF f
<1>4. /\ task' \in [Queries -> [Index -> Labels]] /\ task'[q] = f
      /\ \A p \in Queries \ {q} : task'[p] = task[p]
      /\ Holders' = Holders
  BY <1>1, <1>3, ReplaceTasks
<1>5. SlotsAccounted'  BY <1>1, <1>4 DEF SlotsAccounted
<1>6. TypeOK'  BY <1>1, <1>4 DEF TypeOK, Index
<1>7. \A i \in Index : f[i] = IF i <= n THEN "want" ELSE "none"  BY DEF f
<1>8. TasksOK'  BY <1>1, <1>4, <1>7 DEF TasksOK, TypeOK, Index, Running
<1>9. Unsent(q) = {} /\ Unsent(q)' = 1..n
  BY <1>2, <1>4, <1>7 DEF Unsent, Index
<1>10. Cardinality(Unsent(q)) = 0 /\ Cardinality(Unsent(q)') = n
  <2>1. n \in Nat /\ n >= 1  BY DEF Index
  <2>2. Cardinality(1..n) = n  BY <2>1, FS_Interval
  <2> QED  BY <1>9, <2>2, FS_EmptySet
<1>11. ASSUME NEW p \in Queries
       PROVE  results'[p] + Cardinality(Unsent(p)') = targets'[p]
  <2>1. CASE p = q
    <3>1. results[q] + 0 = 0 /\ results[q] \in Nat  BY <1>1, <1>10 DEF RoomForResults, TypeOK
    <3> QED  BY <1>1, <1>10, <2>1, <3>1 DEF TypeOK, Index
  <2>2. CASE p # q
    <3>1. Unsent(p)' = Unsent(p)  BY <1>4, <2>2 DEF Unsent
    <3> QED  BY <1>1, <2>2, <3>1 DEF RoomForResults, TypeOK
  <2> QED  BY <2>1, <2>2
<1> QED  BY <1>5, <1>6, <1>8, <1>11 DEF RoomForResults

\* A query is answered.
LEMMA AnswerStep == ASSUME IInv, NEW q \in Queries, Answer(q) PROVE IInv'
<1> USE SlotsAssumption DEF IInv
<1>1. /\ targets' = [targets EXCEPT ![q] = 0]
      /\ results' = [results EXCEPT ![q] = 0]
      /\ ctxDone' = [ctxDone EXCEPT ![q] = FALSE]
      /\ UNCHANGED <<slots, task, native>>
  BY DEF Answer
<1>2. \A i \in Index : task[q][i] \in {"none", "done"}
  BY DEF Answer, AllSignaled, TasksOK, Index, TypeOK
<1>3. SlotsAccounted'  BY <1>1 DEF SlotsAccounted, Holders
<1>4. TypeOK'  BY <1>1 DEF TypeOK
<1>5. TasksOK'  BY <1>1, <1>2 DEF TasksOK, TypeOK, Running
<1>6. \A p \in Queries : Unsent(p)' = Unsent(p)  BY <1>1 DEF Unsent
<1>7. Unsent(q) = {}  BY <1>2 DEF Unsent
<1>8. ASSUME NEW p \in Queries
      PROVE  results'[p] + Cardinality(Unsent(p)') = targets'[p]
  <2>1. CASE p = q
    <3>1. Cardinality(Unsent(p)') = 0  BY <1>6, <1>7, <2>1, FS_EmptySet
    <3>2. results'[p] = 0 /\ targets'[p] = 0  BY <1>1, <2>1 DEF TypeOK
    <3> QED  BY <3>1, <3>2
  <2>2. CASE p # q  BY <1>1, <1>6, <2>2 DEF RoomForResults, TypeOK
  <2> QED  BY <2>1, <2>2
<1> QED  BY <1>3, <1>4, <1>5, <1>8 DEF RoomForResults

\* A native read moves: the holders change by it alone.
LEMMA NativeMoves ==
    ASSUME TypeOK, NEW n \in Natives, NEW from, NEW to \in {"idle", "want", "reading"},
           NativeGoto(n, from, to)
    PROVE  /\ native' \in [Natives -> {"idle", "want", "reading"}]
           /\ n \in Holders <=> from = "reading"
           /\ to = "reading" => Holders' = Holders \cup {n}
           /\ to # "reading" => Holders' = Holders \ {n}
<1>1. /\ native' \in [Natives -> {"idle", "want", "reading"}]
      /\ native[n] = from /\ native'[n] = to
      /\ \A m \in Natives \ {n} : native'[m] = native[m]
      /\ task' = task
  BY DEF NativeGoto, TypeOK
<1>2. n \notin Goroutines  BY SlotsAssumption
<1>3. n \in Holders <=> from = "reading"  BY <1>1, <1>2 DEF Holders
<1>4. n \in Holders' <=> to = "reading"  BY <1>1, <1>2 DEF Holders
<1>5. \A x : x # n => (x \in Holders' <=> x \in Holders)  BY <1>1 DEF Holders
<1> QED  BY <1>1, <1>3, <1>4, <1>5

LEMMA NativeStep ==
    ASSUME IInv, NEW n \in Natives,
           NativeCall(n) \/ NativeAcquire(n) \/ NativeGiveUp(n) \/ NativeReturn(n)
    PROVE  IInv'
<1> USE DEF IInv
<1>1. PICK from \in {"idle", "want", "reading"}, to \in {"idle", "want", "reading"} :
         /\ NativeGoto(n, from, to)
         /\ \/ from # "reading" /\ to = "reading" /\ TakeSlot
            \/ from = "reading" /\ to # "reading" /\ GiveSlot
            \/ from # "reading" /\ to # "reading" /\ UNCHANGED slots
  <2>1. CASE NativeCall(n)     BY <2>1 DEF NativeCall
  <2>2. CASE NativeAcquire(n)  BY <2>2 DEF NativeAcquire
  <2>3. CASE NativeGiveUp(n)   BY <2>3 DEF NativeGiveUp
  <2>4. CASE NativeReturn(n)   BY <2>4 DEF NativeReturn
  <2> QED  BY <2>1, <2>2, <2>3, <2>4
<1>2. /\ native' \in [Natives -> {"idle", "want", "reading"}]
      /\ n \in Holders <=> from = "reading"
      /\ to = "reading" => Holders' = Holders \cup {n}
      /\ to # "reading" => Holders' = Holders \ {n}
  BY <1>1, NativeMoves
<1>3. IsFiniteSet(Holders) /\ Cardinality(Holders) \in Nat /\ Cardinality(Holders') \in Nat
  BY Finite, HoldersAreClients
<1>4. SlotsAccounted'
  <2>1. CASE from # "reading" /\ to = "reading" /\ TakeSlot
    BY <1>2, <1>3, <2>1, FS_AddElement DEF SlotsAccounted, TakeSlot
  <2>2. CASE from = "reading" /\ to # "reading" /\ GiveSlot
    BY <1>2, <1>3, <2>2, FS_RemoveElement DEF SlotsAccounted, GiveSlot
  <2>3. CASE from # "reading" /\ to # "reading" /\ UNCHANGED slots
    <3>1. Holders' = Holders  BY <1>2, <2>3
    <3> QED  BY <2>3, <3>1 DEF SlotsAccounted
  <2> QED  BY <1>1, <2>1, <2>2, <2>3
<1>5. slots' \in 0..Concurrency
  <2>1. slots \in 0..Concurrency /\ Concurrency \in Nat  BY SlotsAssumption DEF TypeOK
  <2>2. slots' \in Nat  BY <1>3, <1>4 DEF SlotsAccounted
  <2> QED  BY <1>1, <2>1, <2>2 DEF TakeSlot, GiveSlot
<1>6. TypeOK'  BY <1>1, <1>2, <1>5 DEF TypeOK, NativeGoto
<1>7. TasksOK' /\ RoomForResults'
  BY <1>1 DEF TasksOK, Running, RoomForResults, Unsent, NativeGoto
<1> QED  BY <1>4, <1>6, <1>7

\* A context is done, or nothing happens.
LEMMA QuietStep ==
    ASSUME IInv, (\E q \in Queries : ContextDone(q)) \/ UNCHANGED vars PROVE IInv'
<1> USE DEF IInv
<1>1. UNCHANGED <<slots, targets, task, results, native>> /\ ctxDone' \in [Queries -> BOOLEAN]
  BY DEF ContextDone, vars, TypeOK
<1> QED
  BY <1>1 DEF TypeOK, TasksOK, Running, SlotsAccounted, RoomForResults, Holders, Unsent

\* The initial states satisfy the invariant.
LEMMA InitIInv == Init => IInv
<1> SUFFICES ASSUME Init PROVE IInv  OBVIOUS
<1> USE SlotsAssumption DEF Init
<1>1. \A q \in Queries, i \in Index : task[q][i] = "none"  OBVIOUS
<1>2. TypeOK  BY DEF TypeOK, Labels
<1>3. TasksOK  BY <1>1 DEF TasksOK, Running
<1>4. SlotsAccounted
  <2>1. \A t \in Goroutines : ~Holding(task[t[1]][t[2]])
    BY <1>1 DEF Goroutines, Holding
  <2>2. Holders = {}  BY <2>1 DEF Holders
  <2> QED  BY <2>2, FS_EmptySet DEF SlotsAccounted
<1>5. RoomForResults
  <2>1. \A q \in Queries : Unsent(q) = {}  BY <1>1 DEF Unsent
  <2> QED  BY <2>1, FS_EmptySet DEF RoomForResults
<1> QED  BY <1>2, <1>3, <1>4, <1>5 DEF IInv

\* Every step preserves the invariant.
LEMMA NextIInv == IInv /\ [Next]_vars => IInv'
<1> SUFFICES ASSUME IInv, [Next]_vars PROVE IInv'  OBVIOUS
<1>1. CASE \E q \in Queries, n \in Index : Start(q, n)  BY <1>1, StartStep
<1>2. CASE \E q \in Queries : ContextDone(q)  BY <1>2, QuietStep
<1>3. CASE \E q \in Queries, i \in Index : Task(q, i)  BY <1>3, MoveStep, SendStep DEF Task
<1>4. CASE \E q \in Queries : Answer(q)  BY <1>4, AnswerStep
<1>5. CASE \E n \in Natives :
             NativeCall(n) \/ NativeAcquire(n) \/ NativeGiveUp(n) \/ NativeReturn(n)
  BY <1>5, NativeStep
<1>6. CASE UNCHANGED vars  BY <1>6, QuietStep
<1> QED  BY <1>1, <1>2, <1>3, <1>4, <1>5, <1>6 DEF Next

-----------------------------------------------------------------------------
\* The inductive invariant holds.
THEOREM Invariance == Spec => []IInv
  BY InitIInv, NextIInv, PTL DEF Spec

\* Type correctness; in particular no more slots are taken than there are.
THEOREM TypeCorrect == Spec => []TypeOK
<1>1. IInv => TypeOK  BY DEF IInv
<1> QED  BY <1>1, Invariance, PTL

\* No slot is lost and none is returned twice.
THEOREM SlotsAreAccountedFor == Spec => []SlotsAccounted
<1>1. IInv => SlotsAccounted  BY DEF IInv
<1> QED  BY <1>1, Invariance, PTL

\* No goroutine ever blocks on its result.
THEOREM ResultsFit == Spec => []RoomForResults
<1>1. IInv => RoomForResults  BY DEF IInv
<1> QED  BY <1>1, Invariance, PTL

\* An answered query holds no slot.
THEOREM AnswersReleaseSlots == Spec => []NothingHeldAfterAnswer
<1>1. IInv => NothingHeldAfterAnswer
  <2> SUFFICES ASSUME IInv, NEW q \in Queries, ~Running(q), NEW i \in Index
               PROVE  <<q, i>> \notin Holders
    BY DEF NothingHeldAfterAnswer
  <2>1. task[q][i] \in {"none", "done"}  BY DEF IInv, TasksOK
  <2>2. <<q, i>> \notin Natives  BY SlotsAssumption DEF Goroutines
  <2> QED  BY <2>1, <2>2 DEF Holders, Holding
<1> QED  BY <1>1, Invariance, PTL

\* The pool counts in the same way.
LEMMA PoolCardinality == Pool!Cardinality(Holders) = Cardinality(Holders)
BY DEF Pool!Cardinality, Cardinality

\* A goroutine's step is a step of the pool, or none.
LEMMA TaskIsPoolStep ==
    ASSUME IInv, NEW q \in Queries, NEW i \in Index, Task(q, i)
    PROVE  [Pool!Next]_Holders
<1> USE DEF IInv
<1>1. PICK from \in Labels, to \in Labels :
         /\ Goto(q, i, from, to)
         /\ ~Holding(from) /\ Holding(to) => TakeSlot
  <2>1. CASE Acquire(q, i)  BY <2>1 DEF Acquire, Labels, Holding
  <2>2. CASE Release(q, i) \/ Signal(q, i)  BY <2>2 DEF Release, Signal, Labels, Holding
  <2>3. CASE GiveUp(q, i)   BY <2>3 DEF GiveUp, Labels, Holding
  <2>4. CASE Deliver(q, i)  BY <2>4 DEF Deliver, Labels, Holding
  <2> QED  BY <2>1, <2>2, <2>3, <2>4 DEF Task
<1>2. /\ <<q, i>> \in Holders <=> Holding(from)
      /\ Holding(to) => Holders' = Holders \cup {<<q, i>>}
      /\ ~Holding(to) => Holders' = Holders \ {<<q, i>>}
  BY <1>1, GotoMoves
<1>3. <<q, i>> \in Clients  BY DEF Clients, Goroutines
<1>4. CASE ~Holding(from) /\ Holding(to)
  <2>1. Cardinality(Holders) < Concurrency  BY <1>1, <1>4 DEF SlotsAccounted, TakeSlot
  <2>2. Pool!Take(<<q, i>>)  BY <1>2, <1>4, <2>1, PoolCardinality DEF Pool!Take
  <2> QED  BY <1>3, <2>2 DEF Pool!Next
<1>5. CASE Holding(from) /\ ~Holding(to)
  <2>1. Pool!Give(<<q, i>>)  BY <1>2, <1>5 DEF Pool!Give
  <2> QED  BY <1>3, <2>1 DEF Pool!Next
<1>6. CASE Holding(from) <=> Holding(to)
  <2>1. Holders' = Holders  BY <1>2, <1>6
  <2> QED  BY <2>1
<1> QED  BY <1>4, <1>5, <1>6

\* So is a step of a native read.
LEMMA NativeIsPoolStep ==
    ASSUME IInv, NEW n \in Natives,
           NativeCall(n) \/ NativeAcquire(n) \/ NativeGiveUp(n) \/ NativeReturn(n)
    PROVE  [Pool!Next]_Holders
<1> USE DEF IInv
<1>1. PICK from \in {"idle", "want", "reading"}, to \in {"idle", "want", "reading"} :
         NativeGoto(n, from, to) /\ (from # "reading" /\ to = "reading" => TakeSlot)
  BY DEF NativeCall, NativeAcquire, NativeGiveUp, NativeReturn
<1>2. /\ n \in Holders <=> from = "reading"
      /\ to = "reading" => Holders' = Holders \cup {n}
      /\ to # "reading" => Holders' = Holders \ {n}
  BY <1>1, NativeMoves
<1>3. n \in Clients  BY DEF Clients
<1>4. CASE from # "reading" /\ to = "reading"
  <2>1. Cardinality(Holders) < Concurrency  BY <1>1, <1>4 DEF SlotsAccounted, TakeSlot
  <2>2. Pool!Take(n)  BY <1>2, <1>4, <2>1, PoolCardinality DEF Pool!Take
  <2> QED  BY <1>3, <2>2 DEF Pool!Next
<1>5. CASE from = "reading" /\ to # "reading"
  <2>1. Pool!Give(n)  BY <1>2, <1>5 DEF Pool!Give
  <2> QED  BY <1>3, <2>1 DEF Pool!Next
<1>6. CASE from = "reading" <=> to = "reading"
  <2>1. Holders' = Holders  BY <1>2, <1>6
  <2> QED  BY <2>1
<1> QED  BY <1>4, <1>5, <1>6

\* Starting and answering queries moves no slot.
LEMMA OthersStutter ==
    ASSUME IInv,
           \/ \E q \in Queries : (\E n \in Index : Start(q, n)) \/ ContextDone(q) \/ Answer(q)
           \/ UNCHANGED vars
    PROVE  Holders' = Holders
<1> USE DEF IInv
<1>1. CASE \E q \in Queries, n \in Index : Start(q, n)
  <2>1. PICK q \in Queries, n \in Index : Start(q, n)  BY <1>1
  <2>2. \A i \in Index : task[q][i] \in {"none", "done"}  BY <2>1 DEF Start, TasksOK
  <2> DEFINE f == [i \in Index |-> IF i <= n THEN "want" ELSE "none"]
  <2>3. f \in [Index -> Labels] /\ \A i \in Index : ~Holding(task[q][i]) /\ ~Holding(f[i])
    BY <2>2 DEF Labels, Holding
  <2>4. task' = [task EXCEPT ![q] = f] /\ native' = native  BY <2>1 DEF Start
  <2> HIDE DEF f
  <2> QED  BY <2>3, <2>4, ReplaceTasks
<1>2. CASE (\E q \in Queries : ContextDone(q) \/ Answer(q)) \/ UNCHANGED vars
  BY <1>2 DEF ContextDone, Answer, vars, Holders
<1> QED  BY <1>1, <1>2

\* The refinement: queries and native reads together share the slots as a pool
\* promises, for every capacity.
THEOREM SlotsImplementPool == Spec => PoolSpec
<1>1. Init => Pool!Init
  <2> SUFFICES ASSUME Init PROVE Holders = {}  BY DEF Pool!Init
  <2>1. \A t \in Goroutines : ~Holding(task[t[1]][t[2]])
    BY DEF Init, Goroutines, Holding
  <2> QED  BY <2>1 DEF Init, Holders
<1>2. IInv /\ [Next]_vars => [Pool!Next]_Holders
  <2> SUFFICES ASSUME IInv, [Next]_vars PROVE [Pool!Next]_Holders  OBVIOUS
  <2>1. CASE \E q \in Queries, i \in Index : Task(q, i)  BY <2>1, TaskIsPoolStep
  <2>2. CASE \E n \in Natives :
               NativeCall(n) \/ NativeAcquire(n) \/ NativeGiveUp(n) \/ NativeReturn(n)
    BY <2>2, NativeIsPoolStep
  <2>3. CASE \/ \E q \in Queries : (\E n \in Index : Start(q, n)) \/ ContextDone(q) \/ Answer(q)
             \/ UNCHANGED vars
    BY <2>3, OthersStutter
  <2> QED  BY <2>1, <2>2, <2>3 DEF Next
<1> QED  BY <1>1, <1>2, Invariance, PTL DEF Spec, PoolSpec, Pool!Spec

-----------------------------------------------------------------------------
(* The detail reads. *)

\* The calls that a plan is made of.
CallSet == [how : {"get", "find", "aid"}, within : SUBSET {"region", "owner"},
            checks : SUBSET {"id", "region", "owner", "verified"}, most : 1..MaxParts + 1]

\* A call whose answer tells something: by what it is confined to or by what is compared.
Tells(c, what) == c.how # "aid" /\ what \in c.within \cup c.checks

\* What every plan has, whatever it reads.
WellMade(p) ==
  /\ p.place \in {"exact", "zone", "location", "region", "nowhere"}
  /\ p.label \in {"place", "converted", "answer"}
  /\ p.label = "place" => p.place \in {"exact", "region"}
  /\ p.label = "converted" => p.place \in {"zone", "location"}
  /\ p.rows \in {{1}, {0, 1}}
  /\ p.calls \in Seq(CallSet)
  \* A list holds other things too: the one asked for is looked for.
  /\ \A i \in DOMAIN p.calls : p.calls[i].how = "find" => "id" \in p.calls[i].checks
  \* Some answer is of our scope, and of the place that the row is labelled with.
  /\ \E i \in DOMAIN p.calls : Tells(p.calls[i], "owner")
  /\ p.label # "answer" => \E i \in DOMAIN p.calls : Tells(p.calls[i], "region")
  \* The region is verified by the first answer, which the row is labelled with.
  /\ (\E i \in DOMAIN p.calls : "verified" \in p.calls[i].checks) =>
        /\ p.label = "answer" /\ "hierarchy" \notin p.scopes
        /\ "verified" \in p.calls[1].checks /\ p.calls[1].how # "aid"
        /\ p.calls[1].how = "find" \/ p.calls[1].most = 1
  \* Every call is made once and counted, or the calls are counted as they are made.
  /\ \/ p.requests = Counted
     \/ p.requests = Len(p.calls) /\ \A i \in DOMAIN p.calls : p.calls[i].most = 1
     \/ p = HuaweiOBSStorage
  \* Only one read can be made without the scope that rows are compared with.
  /\ "account" \in p.scopes => p = HuaweiOBSStorage

\* Checked plan by plan: each of the forty adapter functions.
LEMMA PlansAreWellMade == \A p \in Plans : WellMade(p)
<1> USE BoundsAssumption DEF WellMade, CallSet, Tells, Plan, Call, Own, Counted
<1>1. \A p \in {AlibabaInstance, AlibabaDeep, AlibabaACKMonitoring, AlibabaPolarDB, AlibabaRedis,
                AlibabaOSS} : WellMade(p)
  <2>1. WellMade(AlibabaInstance)  BY DEF AlibabaInstance, Regional, Get, Find
  <2>2. WellMade(AlibabaDeep)  BY DEF AlibabaDeep, Regional, Get, Find
  <2>3. WellMade(AlibabaACKMonitoring)  BY DEF AlibabaACKMonitoring, Regional, Get, Find
  <2>4. WellMade(AlibabaPolarDB)  BY DEF AlibabaPolarDB, Regional, Get, Find
  <2>5. WellMade(AlibabaRedis)  BY DEF AlibabaRedis, Regional, Get, Find
  <2>6. WellMade(AlibabaOSS)  BY DEF AlibabaOSS, Regional, Get, Find
  <2> HIDE DEF WellMade
  <2> QED  BY <2>1, <2>2, <2>3, <2>4, <2>5, <2>6
<1>2. \A p \in {AWSInstance, AWSDeep} : WellMade(p)
  <2>1. WellMade(AWSInstance)  BY DEF AWSInstance, Regional, Get, Find
  <2>2. WellMade(AWSDeep)  BY DEF AWSDeep, Regional, Get, Find
  <2> HIDE DEF WellMade
  <2> QED  BY <2>1, <2>2
<1>3. \A p \in {AzureVM, AzureDeep, AzureNetwork, AzureContainer, AzureObjects, AzureLiveNodes,
                AzureNodePools} : WellMade(p)
  <2>1. WellMade(AzureVM)  BY DEF AzureVM, Subscribed, EachPart, Verified, Aid, UpTo, Get
  <2>2. WellMade(AzureDeep)  BY DEF AzureDeep, Subscribed, EachPart, Verified, Aid, UpTo, Get
  <2>3. WellMade(AzureNetwork)  BY DEF AzureNetwork, Subscribed, EachPart, Verified, Aid, UpTo, Get
  <2>4. WellMade(AzureContainer)  BY DEF AzureContainer, Subscribed, EachPart, Verified, Aid, UpTo, Get
  <2>5. WellMade(AzureObjects)  BY DEF AzureObjects, Subscribed, EachPart, Verified, Aid, UpTo, Get
  <2>6. WellMade(AzureLiveNodes)  BY DEF AzureLiveNodes, Subscribed, EachPart, Verified, Aid, UpTo, Get
  <2>7. WellMade(AzureNodePools)  BY DEF AzureNodePools, Subscribed, EachPart, Verified, Aid, UpTo, Get
  <2> HIDE DEF WellMade
  <2> QED  BY <2>1, <2>2, <2>3, <2>4, <2>5, <2>6, <2>7
<1>4. \A p \in {GCPInstance, GCPDatabase, GCPCluster, GCPNetwork, GCPBackendHealth, GCPNodePools,
                GCPLiveNodes, GCPBucket, GCPObjects} : WellMade(p)
  <2>1. WellMade(GCPInstance)  BY DEF GCPInstance, EachPart, Project, Aid, UpTo, Get
  <2>2. WellMade(GCPDatabase)  BY DEF GCPDatabase, EachPart, Project, Aid, UpTo, Get
  <2>3. WellMade(GCPCluster)  BY DEF GCPCluster, EachPart, Project, Aid, UpTo, Get
  <2>4. WellMade(GCPNetwork)  BY DEF GCPNetwork, EachPart, Project, Aid, UpTo, Get
  <2>5. WellMade(GCPBackendHealth)  BY DEF GCPBackendHealth, EachPart, Project, Aid, UpTo, Get
  <2>6. WellMade(GCPNodePools)  BY DEF GCPNodePools, EachPart, Project, Aid, UpTo, Get
  <2>7. WellMade(GCPLiveNodes)  BY DEF GCPLiveNodes, EachPart, Project, Aid, UpTo, Get
  <2>8. WellMade(GCPBucket)  BY DEF GCPBucket, EachPart, Project, Aid, UpTo, Get
  <2>9. WellMade(GCPObjects)  BY DEF GCPObjects, EachPart, Project, Aid, UpTo, Get
  <2> HIDE DEF WellMade
  <2> QED  BY <2>1, <2>2, <2>3, <2>4, <2>5, <2>6, <2>7, <2>8, <2>9
<1>5. \A p \in {HuaweiServer, HuaweiRDS, HuaweiCluster, HuaweiOBSStorage} : WellMade(p)
  <2>1. WellMade(HuaweiServer)  BY DEF HuaweiServer, Regional, Find, UpTo, Get
  <2>2. WellMade(HuaweiRDS)  BY DEF HuaweiRDS, Regional, Find, UpTo, Get
  <2>3. WellMade(HuaweiCluster)  BY DEF HuaweiCluster, Regional, Find, UpTo, Get
  <2>4. WellMade(HuaweiOBSStorage)  BY DEF HuaweiOBSStorage, Regional, Find, UpTo, Get
  <2> HIDE DEF WellMade
  <2> QED  BY <2>1, <2>2, <2>3, <2>4
<1>6. \A p \in {TencentInstance, TencentDeep, TencentCLB, TencentVPC, TencentRedis,
                TencentCOS} : WellMade(p)
  <2>1. WellMade(TencentInstance)  BY DEF TencentInstance, Regional, Get, Find
  <2>2. WellMade(TencentDeep)  BY DEF TencentDeep, Regional, Get, Find
  <2>3. WellMade(TencentCLB)  BY DEF TencentCLB, Regional, Get, Find
  <2>4. WellMade(TencentVPC)  BY DEF TencentVPC, Regional, Get, Find
  <2>5. WellMade(TencentRedis)  BY DEF TencentRedis, Regional, Get, Find
  <2>6. WellMade(TencentCOS)  BY DEF TencentCOS, Regional, Get, Find
  <2> HIDE DEF WellMade
  <2> QED  BY <2>1, <2>2, <2>3, <2>4, <2>5, <2>6
<1>7. \A p \in {VolcengineInstance, VolcengineBucket, VolcengineDeep, VolcengineCluster,
                VolcengineNetwork, VolcengineTOSSetting} : WellMade(p)
  <2>1. WellMade(VolcengineInstance)  BY DEF VolcengineInstance, Regional, Get, Find
  <2>2. WellMade(VolcengineBucket)  BY DEF VolcengineBucket, Regional, Get, Find
  <2>3. WellMade(VolcengineDeep)  BY DEF VolcengineDeep, Regional, Get, Find
  <2>4. WellMade(VolcengineCluster)  BY DEF VolcengineCluster, Regional, Get, Find
  <2>5. WellMade(VolcengineNetwork)  BY DEF VolcengineNetwork, Regional, Get, Find
  <2>6. WellMade(VolcengineTOSSetting)  BY DEF VolcengineTOSSetting, Regional, Get, Find
  <2> HIDE DEF WellMade
  <2> QED  BY <2>1, <2>2, <2>3, <2>4, <2>5, <2>6
<1> HIDE DEF WellMade
<1> QED  BY <1>1, <1>2, <1>3, <1>4, <1>5, <1>6, <1>7 DEF Plans

-----------------------------------------------------------------------------
\* The calls of a read are those of its plan, after the call for the ancestry.
LEMMA CallsShape ==
    ASSUME plan \in Plans
    PROVE  /\ Calls \in Seq(CallSet)
           /\ Len(Calls) = Len(Ancestry) + Len(plan.calls)
           /\ Len(Ancestry) \in {0, 1}
           /\ profile.scope # "hierarchy" => Calls = plan.calls
           /\ \A i \in DOMAIN plan.calls : /\ Len(Ancestry) + i \in 1..Len(Calls)
                                           /\ Calls[Len(Ancestry) + i] = plan.calls[i]
           /\ \A j \in 1..Len(Calls) : Calls[j] = Aid \/ \E i \in DOMAIN plan.calls : Calls[j] = plan.calls[i]
<1>1. plan.calls \in Seq(CallSet)  BY PlansAreWellMade DEF WellMade
<1>2. Aid \in CallSet  BY BoundsAssumption DEF Aid, Call, CallSet
<1>3. CASE profile.scope = "hierarchy"
  <2>1. Ancestry = <<Aid>>  BY <1>3 DEF Ancestry
  <2>2. Ancestry \in Seq(CallSet) /\ Len(Ancestry) = 1 /\ Ancestry[1] = Aid  BY <1>2, <2>1
  <2>3. Calls = Ancestry \o plan.calls  BY DEF Calls
  <2> DEFINE n == Len(plan.calls)
  <2>4. /\ Calls \in Seq(CallSet)
        /\ Len(Calls) = Len(Ancestry) + n
        /\ \A j \in 1..Len(Ancestry) + n : Calls[j] = IF j <= Len(Ancestry) THEN Ancestry[j]
                                                      ELSE plan.calls[j - Len(Ancestry)]
    <3> HIDE DEF n
    <3>1. /\ Ancestry \o plan.calls \in Seq(CallSet)
          /\ Len(Ancestry \o plan.calls) = Len(Ancestry) + Len(plan.calls)
          /\ \A j \in 1..Len(Ancestry) + Len(plan.calls) :
               (Ancestry \o plan.calls)[j] = IF j <= Len(Ancestry) THEN Ancestry[j]
                                             ELSE plan.calls[j - Len(Ancestry)]
      BY <1>1, <2>2, ConcatProperties
    <3> QED  BY <2>3, <3>1 DEF n
  <2>6. DOMAIN plan.calls = 1..n /\ n \in Nat  BY <1>1
  <2> HIDE DEF n
  <2>5. Len(Calls) = 1 + n /\ \A j \in 1..Len(Calls) : Calls[j] = IF j <= 1 THEN Aid ELSE plan.calls[j - 1]
    BY <2>2, <2>4, <2>6
  <2>7. \A i \in DOMAIN plan.calls : 1 + i \in 1..Len(Calls) /\ Calls[1 + i] = plan.calls[i]
    BY <2>5, <2>6
  <2>8. \A j \in 1..Len(Calls) : Calls[j] = Aid \/ \E i \in DOMAIN plan.calls : Calls[j] = plan.calls[i]
    <3> TAKE j \in 1..Len(Calls)
    <3>1. CASE j = 1  BY <2>5, <3>1
    <3>2. CASE j # 1
      <4>1. j - 1 \in DOMAIN plan.calls  BY <2>5, <2>6, <3>2
      <4> QED  BY <2>5, <3>2, <4>1
    <3> QED  BY <3>1, <3>2
  <2> QED  BY <1>3, <2>2, <2>4, <2>5, <2>7, <2>8 DEF n
<1>4. CASE profile.scope # "hierarchy"
  <2>1. Ancestry = <<>>  BY <1>4 DEF Ancestry
  <2>2. Calls = plan.calls  BY <1>1, <2>1, ConcatEmptySeq DEF Calls
  <2> QED  BY <1>1, <2>1, <2>2
<1> QED  BY <1>3, <1>4

\* What depends on the request alone stays while the request stays.
LEMMA SameRequest ==
    UNCHANGED request => /\ Calls' = Calls /\ Places' = Places /\ Ancestry' = Ancestry
                         /\ Locations' = Locations
                         /\ \A r : VerifiedRegion(r)' <=> VerifiedRegion(r)
BY DEF request, Calls, Ancestry, Places, Locations, ExactRegions, VerifiedRegion

-----------------------------------------------------------------------------
\* What the calls before this one have told about the parts.
Known ==
  /\ IsFiniteSet(held) /\ thing \in held /\ \A i \in DOMAIN parts : parts[i] \in held
  /\ \A j \in 1..step - 1 :
       /\ Tells(Calls[j], "owner") => \E i \in DOMAIN parts : parts[i].owner = "ours"
       /\ plan.place # "nowhere" /\ Tells(Calls[j], "region") =>
            \E i \in DOMAIN parts : parts[i].region = RegionOf(place)
  /\ (\E i \in DOMAIN plan.calls : "verified" \in plan.calls[i].checks) =>
       IF step = 1 THEN parts = <<>> ELSE parts # <<>> /\ VerifiedRegion(parts[1].region)

\* The calls made, if the plan says a number: one for each step, except that the
\* first step of the read of an OBS bucket may be two.
Tally ==
  plan.requests # Counted =>
    IF plan = HuaweiOBSStorage
    THEN made <= (IF step = 1 THEN again ELSE step) /\ again <= (IF step = 1 THEN 1 ELSE 0)
    ELSE again = 0 /\ made <= step - 1

Reading == profile.scope \in plan.scopes /\ place \in Places /\ Known /\ Tally

\* The inductive invariant of a read.
DetailIInv ==
  /\ DetailTypeOK
  /\ pc # "done" => answer = ""
  /\ pc = "start" => step = 1 /\ again = 0 /\ made = 0 /\ parts = <<>>
  /\ pc = "read" => Reading
  /\ RowIsOfTheAsked /\ CallsAreCounted /\ EmptyForAReason

\* What the request and its plan give, in every state.
LEMMA Given ==
    ASSUME DetailTypeOK
    PROVE  /\ WellMade(plan) /\ profile.regions \subseteq Spellings
           /\ Calls \in Seq(CallSet) /\ Len(Calls) \in Nat
           /\ step \in Nat /\ again \in Nat /\ step <= Len(Calls) + 1
           /\ \A j \in 1..Len(Calls) : Calls[j] \in CallSet
           /\ \A j \in 1..Len(Calls) : Calls[j].how = "find" => "id" \in Calls[j].checks
           /\ Len(parts) \in Nat /\ DOMAIN parts = 1..Len(parts)
           /\ \A i \in DOMAIN parts : parts[i] \in Thing
<1>1. plan \in Plans /\ profile \in Profile  BY ProfilesAssumption DEF DetailTypeOK
<1>2. WellMade(plan)  BY <1>1, PlansAreWellMade
<1>3. profile.regions \subseteq Spellings  BY <1>1 DEF Profile
<1>4. /\ Calls \in Seq(CallSet)
      /\ \A j \in 1..Len(Calls) : Calls[j] = Aid \/ \E i \in DOMAIN plan.calls : Calls[j] = plan.calls[i]
  BY <1>1, CallsShape
<1>5. \A j \in 1..Len(Calls) : Calls[j] \in CallSet /\ (Calls[j].how = "find" => "id" \in Calls[j].checks)
  <2> TAKE j \in 1..Len(Calls)
  <2>1. Calls[j] \in CallSet  BY <1>4
  <2>2. CASE Calls[j] = Aid  BY <2>1, <2>2 DEF Aid, Call
  <2>3. CASE \E i \in DOMAIN plan.calls : Calls[j] = plan.calls[i]
    BY <1>2, <2>1, <2>3 DEF WellMade
  <2> QED  BY <1>4, <2>2, <2>3
<1>6. Len(Calls) \in Nat  BY <1>4
<1>7. step \in Nat /\ again \in Nat /\ step <= Len(Calls) + 1
  <2>1. step \in 1..Len(Calls) + 1 /\ again \in 0..MaxParts + 1  BY DEF DetailTypeOK
  <2> QED  BY <1>6, <2>1, BoundsAssumption
<1>8. Len(parts) \in Nat /\ DOMAIN parts = 1..Len(parts) /\ \A i \in DOMAIN parts : parts[i] \in Thing
  <2>1. parts \in Seq(Thing)  BY DEF DetailTypeOK
  <2> QED  BY <2>1
<1> QED  BY <1>2, <1>3, <1>4, <1>5, <1>6, <1>7, <1>8

\* An answer that passes is of the thing, and what its call tells is true of it.
LEMMA Passed ==
    ASSUME thing \in Thing \cup {Gone},
           NEW c \in CallSet, c.how # "aid", c.how = "find" => "id" \in c.checks,
           NEW x \in Answers(c), Accepted(c, x)
    PROVE  /\ x = thing /\ x \in Thing
           /\ Tells(c, "owner") => x.owner = "ours"
           /\ plan.place # "nowhere" /\ Tells(c, "region") => x.region = RegionOf(place)
           /\ "verified" \in c.checks => VerifiedRegion(x.region)
<1>1. x \notin Others
  <2>1. SUFFICES ASSUME x \in Others  PROVE FALSE  OBVIOUS
  <2>2. x.id = "other"  BY <2>1 DEF Others
  <2>3. CASE c.how = "find"  BY <2>2, <2>3 DEF Accepted
  <2>4. CASE c.how # "find"
    <3>1. x \in {thing} \ {Gone}  BY <2>4 DEF Answers
    <3>2. x \in Thing  BY <3>1
    <3>3. x.id = "asked"  BY <3>2 DEF Thing
    <3> QED  BY <2>2, <3>3
  <2> QED  BY <2>3, <2>4
<1>2. x = thing /\ x \in Thing  BY <1>1 DEF Answers
<1>3. x.region \in Regions  BY <1>2 DEF Thing
<1>4. Tells(c, "owner") => x.owner = "ours"  BY DEF Tells, Answers, Accepted
<1>5. ASSUME plan.place # "nowhere", Tells(c, "region")  PROVE x.region = RegionOf(place)
  <2>1. CASE "region" \in c.within  BY <1>5, <2>1 DEF Answers
  <2>2. CASE "region" \in c.checks
    <3>1. x.region = place  BY <2>2 DEF Accepted
    <3>2. place \in Spellings /\ place \notin Zones /\ Lower[place] = place  BY <1>3, <3>1, NamesAssumption
    <3> QED  BY <3>1, <3>2 DEF RegionOf
  <2> QED  BY <1>5, <2>1, <2>2 DEF Tells
<1> QED  BY <1>2, <1>4, <1>5 DEF Accepted

\* A call that is answered adds to what is known.
LEMMA ReadKnown ==
    ASSUME DetailTypeOK, Reading, Read
    PROVE  parts' \in Seq(Thing) /\ Known'
<1>1. /\ step \in 1..Len(Calls) /\ step' \in {step, step + 1}
      /\ UNCHANGED <<request, place, thing, held>>
  <2>1. step \in 1..Len(Calls) + 1 /\ Len(Calls) \in Nat  BY Given DEF DetailTypeOK
  <2> QED  BY <2>1 DEF Read, cloud
<1>types. parts \in Seq(Thing) /\ thing \in Thing \cup {Gone}
  BY DEF DetailTypeOK
<1>2. Calls' = Calls /\ plan' = plan /\ \A r : VerifiedRegion(r)' <=> VerifiedRegion(r)
  BY <1>1, SameRequest DEF request
<1> DEFINE c == Calls[step]
<1>3. c \in CallSet /\ (c.how = "find" => "id" \in c.checks)  BY <1>1, Given
<1>4. \/ c.how = "aid" /\ parts' = parts
      \/ c.how # "aid" /\ \E x \in Answers(c) : Accepted(c, x) /\ parts' = Append(parts, x)
  BY DEF Read
<1> HIDE DEF c
<1>5. PICK new \in Seq(Thing) :
        /\ parts' = parts \o new
        /\ \A i \in DOMAIN new : new[i] = thing
        /\ Tells(c, "owner") => \E i \in DOMAIN new : new[i].owner = "ours"
        /\ plan.place # "nowhere" /\ Tells(c, "region") => \E i \in DOMAIN new : new[i].region = RegionOf(place)
        /\ c.how # "aid" => new # <<>> /\ ("verified" \in c.checks => VerifiedRegion(new[1].region))
  <2>1. CASE c.how = "aid" /\ parts' = parts
    <3>1. parts \o <<>> = parts  BY <1>types, ConcatEmptySeq
    <3>fin. <<>> \in Seq(Thing)  OBVIOUS
    <3> USE <3>fin
    <3>2. ~Tells(c, "owner") /\ ~Tells(c, "region")  BY <2>1 DEF Tells
    <3> WITNESS <<>> \in Seq(Thing)
    <3> QED  BY <2>1, <3>1, <3>2
  <2>2. ASSUME c.how # "aid", NEW x \in Answers(c), Accepted(c, x), parts' = Append(parts, x)
        PROVE  \E new \in Seq(Thing) :
                 /\ parts' = parts \o new
                 /\ \A i \in DOMAIN new : new[i] = thing
                 /\ Tells(c, "owner") => \E i \in DOMAIN new : new[i].owner = "ours"
                 /\ plan.place # "nowhere" /\ Tells(c, "region") => \E i \in DOMAIN new : new[i].region = RegionOf(place)
                 /\ c.how # "aid" => new # <<>> /\ ("verified" \in c.checks => VerifiedRegion(new[1].region))
    <3>2. /\ x = thing /\ x \in Thing
          /\ Tells(c, "owner") => x.owner = "ours"
          /\ plan.place # "nowhere" /\ Tells(c, "region") => x.region = RegionOf(place)
          /\ "verified" \in c.checks => VerifiedRegion(x.region)
      BY <1>3, <1>types, <2>2, Passed
    <3>3. parts' = parts \o <<x>>  BY <1>types, <2>2, <3>2, AppendIsConcat
    <3>4. <<x>> \in Seq(Thing) /\ DOMAIN <<x>> = {1} /\ <<x>>[1] = x /\ <<x>> # <<>>
      <4>1. x \in Thing  BY <3>2
      <4> QED  BY <4>1
    <3> USE <3>4
    <3> WITNESS <<x>> \in Seq(Thing)
    <3> QED  BY <3>2, <3>3, <3>4
  <2> QED  BY <1>4, <2>1, <2>2
<1>6. /\ parts' \in Seq(Thing)
      /\ DOMAIN parts' = 1..Len(parts) + Len(new) /\ DOMAIN parts = 1..Len(parts) /\ DOMAIN new = 1..Len(new)
      /\ Len(parts) \in Nat /\ Len(new) \in Nat
      /\ \A i \in 1..Len(parts) + Len(new) : parts'[i] = IF i <= Len(parts) THEN parts[i] ELSE new[i - Len(parts)]
  <2>1. new \in Seq(Thing) /\ parts' = parts \o new  BY <1>5
  <2>2. /\ parts \o new \in Seq(Thing)
        /\ Len(parts \o new) = Len(parts) + Len(new)
        /\ \A i \in 1..Len(parts) + Len(new) : (parts \o new)[i] = IF i <= Len(parts) THEN parts[i] ELSE new[i - Len(parts)]
    BY <1>types, <2>1, ConcatProperties
  <2>3. \A s \in Seq(Thing) : DOMAIN s = 1..Len(s) /\ Len(s) \in Nat  OBVIOUS
  <2>4. parts' \in Seq(Thing) /\ Len(parts') = Len(parts) + Len(new)  BY <2>1, <2>2
  <2> QED  BY <1>types, <2>1, <2>2, <2>3, <2>4
<1>7. \A i \in DOMAIN parts : i \in DOMAIN parts' /\ parts'[i] = parts[i]  BY <1>6
<1>8. \A i \in DOMAIN new : Len(parts) + i \in DOMAIN parts' /\ parts'[Len(parts) + i] = new[i]  BY <1>6
<1>9. \A i \in DOMAIN parts' : i \in DOMAIN parts \/ parts'[i] = thing
  BY <1>5, <1>6
<1>10. IsFiniteSet(held') /\ thing' \in held' /\ \A i \in DOMAIN parts' : parts'[i] \in held'
  BY <1>1, <1>7, <1>9 DEF Reading, Known
<1>11. ASSUME NEW j \in 1..step' - 1
       PROVE  /\ Tells(Calls'[j], "owner") => \E i \in DOMAIN parts' : parts'[i].owner = "ours"
              /\ plan'.place # "nowhere" /\ Tells(Calls'[j], "region") =>
                   \E i \in DOMAIN parts' : parts'[i].region = RegionOf(place')
  <2>1. CASE j \in 1..step - 1
    BY <1>1, <1>2, <1>7, <2>1 DEF Reading, Known
  <2>2. CASE j = step
    <3>1. Calls'[j] = c /\ plan' = plan /\ place' = place  BY <1>1, <1>2, <2>2 DEF c
    <3>2. Tells(c, "owner") => \E i \in DOMAIN parts' : parts'[i].owner = "ours"  BY <1>5, <1>8
    <3>3. plan.place # "nowhere" /\ Tells(c, "region") => \E i \in DOMAIN parts' : parts'[i].region = RegionOf(place)
      BY <1>5, <1>8
    <3> QED  BY <3>1, <3>2, <3>3
  <2>3. j \in 1..step - 1 \/ j = step
    <3>1. step \in Nat /\ j \in 1..step' - 1  BY Given
    <3>2. CASE step' = step  BY <3>1, <3>2
    <3>3. CASE step' = step + 1  BY <3>1, <3>3
    <3> QED  BY <1>1, <3>2, <3>3
  <2> QED  BY <2>1, <2>2, <2>3
<1>12. ASSUME \E i \in DOMAIN plan.calls : "verified" \in plan.calls[i].checks
       PROVE  IF step' = 1 THEN parts' = <<>> ELSE parts' # <<>> /\ VerifiedRegion(parts'[1].region)
  <2>1. CASE step = 1
    <3>1. parts = <<>>  BY <1>12, <2>1 DEF Reading, Known
    <3>2. /\ "hierarchy" \notin plan.scopes /\ 1 \in DOMAIN plan.calls
          /\ "verified" \in plan.calls[1].checks /\ plan.calls[1].how # "aid"
          /\ plan.calls[1].how = "find" \/ plan.calls[1].most = 1
      BY <1>12, Given DEF WellMade
    <3>3. Calls = plan.calls  BY <3>2, CallsShape DEF Reading, DetailTypeOK
    <3>4. new # <<>> /\ VerifiedRegion(new[1].region)  BY <1>5, <2>1, <3>2, <3>3 DEF c
    <3>5. parts' = new  BY <1>5, <3>1, ConcatEmptySeq
    <3>6. step' = 2  BY <2>1, <3>2, <3>3, Given DEF Read
    <3> QED  BY <3>4, <3>5, <3>6
  <2>2. CASE step # 1
    <3>1. parts # <<>> /\ VerifiedRegion(parts[1].region)  BY <1>12, <2>2 DEF Reading, Known
    <3>2. 1 \in DOMAIN parts  BY <1>6, <3>1
    <3>3. parts'[1] = parts[1] /\ parts' # <<>>  BY <1>7, <3>2
    <3>4. step' # 1  BY <1>1, <2>2
    <3> QED  BY <3>1, <3>3, <3>4
  <2> QED  BY <2>1, <2>2
<1>13. Known'  BY <1>2, <1>10, <1>11, <1>12 DEF Known
<1> QED  BY <1>6, <1>13

\* The one read that makes a number of calls which is not its number of steps.
LEMMA TwoLists ==
    ASSUME plan = HuaweiOBSStorage
    PROVE  /\ plan.requests = 3 /\ plan.scopes = {"direct", "account", "none"}
           /\ Len(plan.calls) = 2
           /\ plan.calls[1].how = "find" /\ plan.calls[1].most = 2
           /\ plan.calls[2].how = "get" /\ plan.calls[2].most = 1
BY DEF HuaweiOBSStorage, Plan, UpTo, Find, Get, Call

\* A call, whether it ends its step or not, keeps the tally.
LEMMA CallTally ==
    ASSUME DetailTypeOK, Reading, Read \/ ReadOn
    PROVE  Tally'
<1>1. /\ step \in 1..Len(Calls) /\ made' = made + 1 /\ made \in Nat /\ again \in Nat
      /\ \/ step' = step + 1 /\ again' = 0
         \/ Calls[step].how \in {"get", "find"} /\ again + 1 < Calls[step].most /\ again' = again + 1 /\ step' = step
      /\ Read => step' = step + 1 \/ Calls[step].how = "get"
      /\ ReadOn => Calls[step].how = "find" /\ again + 1 < Calls[step].most /\ again' = again + 1 /\ step' = step
      /\ UNCHANGED request
  <2>1. step \in 1..Len(Calls) + 1 /\ Len(Calls) \in Nat /\ made \in Nat /\ again \in Nat
    BY Given DEF DetailTypeOK
  <2> QED  BY <2>1 DEF Read, ReadOn
<1>2. plan' = plan  BY <1>1 DEF request
<1>3. CASE plan = HuaweiOBSStorage
  <2>1. "hierarchy" \notin plan.scopes  BY <1>3, TwoLists
  <2>2. Calls = plan.calls  BY <2>1, CallsShape DEF Reading, DetailTypeOK
  <2>3. Tally => made <= (IF step = 1 THEN again ELSE step) /\ again <= (IF step = 1 THEN 1 ELSE 0)
    BY <1>3, TwoLists DEF Tally, Counted
  <2>4. Tally  BY DEF Reading
  <2>5. CASE step = 1
    <3>1. Calls[step].how = "find" /\ Calls[step].most = 2  BY <1>3, <2>2, <2>5, TwoLists
    <3>2. made' <= (IF step' = 1 THEN again' ELSE step') /\ again' <= (IF step' = 1 THEN 1 ELSE 0)
      BY <1>1, <2>3, <2>4, <2>5, <3>1
    <3> QED  BY <1>2, <1>3, <3>2 DEF Tally
  <2>6. CASE step # 1
    <3>0. Len(Calls) = 2  BY <1>3, <2>2, TwoLists
    <3>1. step = 2  BY <1>1, <2>6, <3>0
    <3>2. Calls[step].most = 1  BY <1>3, <2>2, <3>1, TwoLists
    <3>3. step' = step + 1 /\ again' = 0  BY <1>1, <3>2
    <3>4. made' <= step' /\ step' = 3  BY <1>1, <2>3, <2>4, <3>1, <3>3
    <3> QED  BY <1>2, <1>3, <3>3, <3>4 DEF Tally
  <2> QED  BY <2>5, <2>6
<1>4. CASE plan # HuaweiOBSStorage /\ plan.requests # Counted
  <2>1. \A i \in DOMAIN plan.calls : plan.calls[i].most = 1  BY <1>4, Given DEF WellMade
  <2>2. Calls[step].most = 1
    <3>1. Calls[step] = Aid \/ \E i \in DOMAIN plan.calls : Calls[step] = plan.calls[i]
      BY <1>1, CallsShape DEF DetailTypeOK
    <3>2. Aid.most = 1  BY DEF Aid, Call
    <3> QED  BY <2>1, <3>1, <3>2
  <2>3. again = 0 /\ made <= step - 1  BY <1>4 DEF Reading, Tally
  <2>4. again' = 0 /\ made' <= step' - 1  BY <1>1, <2>2, <2>3
  <2> QED  BY <1>2, <1>4, <2>4 DEF Tally
<1>5. CASE plan.requests = Counted  BY <1>2, <1>5 DEF Tally
<1> QED  BY <1>3, <1>4, <1>5

\* While a read goes on nothing is claimed of its answer.
LEMMA NoAnswerYet ==
    (answer \in {"", "error", "refused"}) => RowIsOfTheAsked /\ CallsAreCounted /\ EmptyForAReason
BY DEF RowIsOfTheAsked, CallsAreCounted, EmptyForAReason

LEMMA NoAnswerNext ==
    (answer' \in {"", "error", "refused"}) => RowIsOfTheAsked' /\ CallsAreCounted' /\ EmptyForAReason'
BY DEF RowIsOfTheAsked, CallsAreCounted, EmptyForAReason

\* The initial states satisfy the invariant.
LEMMA InitDetail == DetailInit => DetailIInv
<1> SUFFICES ASSUME DetailInit PROVE DetailIInv  OBVIOUS
<1>1. plan \in Plans /\ profile \in Profiles  BY DEF DetailInit
<1>2. Len(Calls) \in Nat  BY <1>1, CallsShape
<1>3. /\ plan \in Plans /\ profile \in Profiles
      /\ asked \in Spellings \cup {""} /\ location \in Locations
      /\ pc = "start" /\ place \in Spellings \cup Zones \cup {""}
      /\ thing \in Thing \cup {Gone} /\ held = {}
      /\ step = 1 /\ again = 0 /\ made = 0 /\ parts = <<>> /\ charged = 0 /\ reported = 0
      /\ built = 0 /\ answer = "" /\ moves = 0
  BY DEF DetailInit
<1>4. parts \in Seq(Thing)
  <2>1. <<>> \in Seq(Thing)  OBVIOUS
  <2> QED  BY <1>3, <2>1
<1>5. step \in 1..Len(Calls) + 1 /\ again \in 0..MaxParts + 1 /\ moves \in 0..MaxMoves
  <2>1. 1 \in 1..Len(Calls) + 1  BY <1>2
  <2>2. 0 \in 0..MaxParts + 1 /\ 0 \in 0..MaxMoves  BY BoundsAssumption
  <2> QED  BY <1>3, <2>1, <2>2
<1>6. DetailTypeOK  BY <1>3, <1>4, <1>5 DEF DetailTypeOK
<1>7. RowIsOfTheAsked /\ CallsAreCounted /\ EmptyForAReason  BY <1>3, NoAnswerYet
<1> QED  BY <1>3, <1>6, <1>7 DEF DetailIInv

\* What a read is addressed to is a name that the profile or the cloud has.
LEMMA PlacesAreNames ==
    ASSUME DetailTypeOK
    PROVE  /\ Places \subseteq Spellings \cup Zones \cup {""}
           /\ plan.place = "exact" => Places \subseteq Spellings
           /\ plan.place = "exact" /\ profile.regions # {} => Places \subseteq profile.regions
           /\ plan.place = "region" => Places \subseteq Regions
           /\ plan.place \in {"zone", "location"} => Places \subseteq Zones \cup Regions
<1>1. profile.regions \subseteq Spellings
      /\ plan.place \in {"exact", "zone", "location", "region", "nowhere"}
  BY Given DEF WellMade
<1>2. asked \in Spellings \cup {""} /\ location \in Locations  BY DEF DetailTypeOK
<1>3. CASE plan.place = "exact"
  <2>1. Places = ExactRegions  BY <1>3 DEF Places
  <2>2. ExactRegions \subseteq Spellings /\ (profile.regions # {} => ExactRegions \subseteq profile.regions)
    BY <1>1, <1>2 DEF ExactRegions
  <2> QED  BY <1>3, <2>1, <2>2
<1>4. CASE plan.place # "exact"
  <2>1. Places = {location} /\ Regions \subseteq Spellings  BY <1>4, NamesAssumption DEF Places
  <2>2. CASE plan.place = "zone"  BY <1>2, <2>1, <2>2 DEF Locations
  <2>3. CASE plan.place = "location"  BY <1>2, <2>1, <2>3 DEF Locations
  <2>4. CASE plan.place = "region"  BY <1>2, <2>1, <2>4 DEF Locations
  <2>5. CASE plan.place = "nowhere"  BY <1>2, <2>1, <2>5 DEF Locations
  <2> QED  BY <1>1, <1>4, <2>2, <2>3, <2>4, <2>5
<1> QED  BY <1>3, <1>4

\* A read begins with nothing known and nothing counted.
LEMMA BeginDetail ==
    ASSUME DetailIInv, Begin
    PROVE  DetailIInv'
<1>1. DetailTypeOK /\ answer = ""
      /\ step = 1 /\ again = 0 /\ made = 0 /\ parts = <<>>
  BY DEF DetailIInv, Begin
<1>2. /\ UNCHANGED <<plan, profile, asked, location, thing, moves, step, again, made, parts, charged, reported, built, answer>>
      /\ UNCHANGED request
      /\ place' \in Places /\ pc' = "read" /\ held' = {thing} /\ profile.scope \in plan.scopes
  BY DEF Begin, request, cloud, attempt
<1>3. Calls' = Calls /\ Places' = Places /\ Locations' = Locations  BY <1>2, SameRequest
<1>4. Places \subseteq Spellings \cup Zones \cup {""}  BY <1>1, PlacesAreNames
<1>5. place' \in Spellings \cup Zones \cup {""} /\ held' \subseteq Thing \cup {Gone}  BY <1>1, <1>2, <1>4 DEF DetailTypeOK
<1>6. DetailTypeOK'  BY <1>1, <1>2, <1>3, <1>5 DEF DetailTypeOK
<1>7. Known'
  <2>1. step' = 1 /\ parts' = <<>> /\ thing' \in held' /\ IsFiniteSet(held')  BY <1>1, <1>2, FS_Singleton
  <2>2. DOMAIN parts' = {} /\ 1..step' - 1 = {}  BY <2>1
  <2> QED  BY <2>1, <2>2 DEF Known
<1>8. Tally'
  <2>1. step' = 1 /\ again' = 0 /\ made' = 0  BY <1>1, <1>2
  <2> QED  BY <2>1 DEF Tally
<1>9. Reading'  BY <1>2, <1>3, <1>7, <1>8 DEF Reading
<1>10. RowIsOfTheAsked' /\ CallsAreCounted' /\ EmptyForAReason'  BY <1>1, <1>2, NoAnswerNext
<1> QED  BY <1>1, <1>2, <1>6, <1>9, <1>10 DEF DetailIInv

\* A read that is refused has no answer to speak of.
LEMMA RefuseDetail ==
    ASSUME DetailIInv, Refuse
    PROVE  DetailIInv'
<1>1. DetailTypeOK  BY DEF DetailIInv
<1>2. /\ UNCHANGED <<plan, profile, asked, location, place, thing, held, moves, step, again, made, parts, charged, reported, built>>
      /\ UNCHANGED request /\ pc' = "done" /\ answer' = "refused"
  BY DEF Refuse, request, cloud, attempt
<1>3. Calls' = Calls /\ Locations' = Locations  BY <1>2, SameRequest
<1>4. DetailTypeOK'  BY <1>1, <1>2, <1>3 DEF DetailTypeOK
<1>5. RowIsOfTheAsked' /\ CallsAreCounted' /\ EmptyForAReason'  BY <1>2, NoAnswerNext
<1> QED  BY <1>1, <1>2, <1>4, <1>5 DEF DetailIInv

\* A call is answered, or its list has nothing of the name.
LEMMA ReadDetail ==
    ASSUME DetailIInv, Read \/ ReadOn
    PROVE  DetailIInv'
<1>1. DetailTypeOK /\ Reading /\ answer = "" /\ pc = "read"
  BY DEF DetailIInv, Read, ReadOn
<1>2. /\ UNCHANGED <<plan, profile, asked, location, pc, place, thing, held, moves, charged, reported, built, answer>>
      /\ UNCHANGED request /\ made' = made + 1
  BY DEF Read, ReadOn, request, cloud
<1>3. Calls' = Calls /\ Places' = Places /\ Locations' = Locations /\ \A r : VerifiedRegion(r)' <=> VerifiedRegion(r)
  BY <1>2, SameRequest
<1>4. step' \in 1..Len(Calls) + 1 /\ again' \in 0..MaxParts + 1
  <2>1. /\ step \in 1..Len(Calls) /\ Len(Calls) \in Nat
        /\ again \in Nat /\ Calls[step].most \in 1..MaxParts + 1
    <3>fin. step \in 1..Len(Calls) + 1 /\ Len(Calls) \in Nat  BY <1>1, Given DEF DetailTypeOK
    <3>1. step \in 1..Len(Calls)  BY <3>fin DEF Read, ReadOn
    <3>2. Calls[step] \in CallSet /\ Len(Calls) \in Nat /\ again \in Nat  BY <1>1, <3>1, Given
    <3> QED  BY <3>1, <3>2 DEF CallSet
  <2> QED  BY <2>1, BoundsAssumption DEF Read, ReadOn
<1>5. parts' \in Seq(Thing) /\ Known'
  <2>1. CASE Read  BY <1>1, <2>1, ReadKnown
  <2>2. CASE ReadOn
    <3>1. parts' = parts /\ step' = step  BY <2>2 DEF ReadOn
    <3>2. parts \in Seq(Thing)  BY <1>1 DEF DetailTypeOK
    <3>3. Known  BY <1>1 DEF Reading
    <3>4. Known'  BY <1>2, <1>3, <3>1, <3>3 DEF Known
    <3> QED  BY <3>1, <3>2, <3>4
  <2> QED  BY <2>1, <2>2
<1>6. made' \in Nat
  <2>1. made \in Nat  BY <1>1 DEF DetailTypeOK
  <2> QED  BY <1>2, <2>1
<1>7. DetailTypeOK'  BY <1>1, <1>2, <1>3, <1>4, <1>5, <1>6 DEF DetailTypeOK
<1>8. Tally'  BY <1>1, CallTally
<1>9. Reading'  BY <1>1, <1>2, <1>3, <1>5, <1>8 DEF Reading
<1>10. RowIsOfTheAsked' /\ CallsAreCounted' /\ EmptyForAReason'  BY <1>1, <1>2, NoAnswerNext
<1> QED  BY <1>1, <1>2, <1>7, <1>9, <1>10 DEF DetailIInv

\* A call fails: the attempt starts again, or the read ends with an error.
LEMMA FailDetail ==
    ASSUME DetailIInv, Fail
    PROVE  DetailIInv'
<1>1. DetailTypeOK /\ Reading /\ answer = "" /\ pc = "read"
  BY DEF DetailIInv, Fail
<1>2. /\ UNCHANGED <<plan, profile, asked, location, place, thing, moves, reported, built>> /\ UNCHANGED request
      /\ \/ /\ step' = 1 /\ again' = 0 /\ made' = 0 /\ parts' = <<>> /\ held' = {thing} /\ pc' = pc /\ answer' = answer
         \/ /\ answer' = "error" /\ pc' = "done" /\ UNCHANGED <<step, again, made, parts, held>>
  BY DEF Fail, request, cloud, attempt
<1>3. Calls' = Calls /\ Places' = Places /\ Locations' = Locations  BY <1>2, SameRequest
<1>4. charged' \in Nat
  <2>1. charged \in Nat /\ made \in Nat  BY <1>1 DEF DetailTypeOK
  <2>2. PICK requests \in {0, made + 1} : charged' = charged + Larger(1, requests)  BY DEF Fail
  <2> QED  BY <2>1, <2>2 DEF Larger
<1>5. step' \in 1..Len(Calls) + 1 /\ again' \in 0..MaxParts + 1 /\ made' \in Nat /\ parts' \in Seq(Thing)
      /\ held' \subseteq Thing \cup {Gone}
  <2>1. step \in 1..Len(Calls) + 1 /\ again \in 0..MaxParts + 1 /\ made \in Nat /\ parts \in Seq(Thing)
        /\ held \subseteq Thing \cup {Gone} /\ thing \in Thing \cup {Gone}
    BY <1>1 DEF DetailTypeOK
  <2>2. Len(Calls) \in Nat  BY <1>1, Given
  <2>3. <<>> \in Seq(Thing)  OBVIOUS
  <2>4. CASE /\ step' = 1 /\ again' = 0 /\ made' = 0 /\ parts' = <<>> /\ held' = {thing}
    <3>1. 1 \in 1..Len(Calls) + 1 /\ 0 \in 0..MaxParts + 1 /\ 0 \in Nat  BY <2>2, BoundsAssumption
    <3> QED  BY <2>1, <2>3, <2>4, <3>1
  <2>5. CASE UNCHANGED <<step, again, made, parts, held>>  BY <2>1, <2>5
  <2> QED  BY <1>2, <2>4, <2>5
<1>6. pc' \in {"read", "done"} /\ answer' \in {"", "error"}  BY <1>1, <1>2
<1>7. DetailTypeOK'  BY <1>1, <1>2, <1>3, <1>4, <1>5, <1>6 DEF DetailTypeOK
<1>8. ASSUME pc' = "read"  PROVE Reading'
  <2>1. step' = 1 /\ again' = 0 /\ made' = 0 /\ parts' = <<>> /\ held' = {thing}  BY <1>2, <1>8
  <2>2. 1..step' - 1 = {} /\ DOMAIN parts' = {} /\ thing' \in held'  BY <1>2, <2>1
  <2>fin. IsFiniteSet(held')  BY <2>1, FS_Singleton
  <2>3. Known'  BY <2>1, <2>2, <2>fin DEF Known
  <2>4. Tally'  BY <2>1 DEF Tally
  <2> QED  BY <1>1, <1>2, <1>3, <2>3, <2>4 DEF Reading
<1>9. RowIsOfTheAsked' /\ CallsAreCounted' /\ EmptyForAReason'  BY <1>6, NoAnswerNext
<1>10. pc' # "done" => answer' = ""  BY <1>1, <1>2
<1> QED  BY <1>1, <1>2, <1>6, <1>7, <1>8, <1>9, <1>10 DEF DetailIInv

\* The thing is deleted or replaced; what was known of the parts stays.
LEMMA MoveDetail ==
    ASSUME DetailIInv, Move
    PROVE  DetailIInv'
<1>1. DetailTypeOK /\ Reading /\ answer = "" /\ pc = "read"
  BY DEF DetailIInv, Move
<1>2. /\ UNCHANGED <<plan, profile, asked, location, pc, place, step, again, made, parts, charged, reported, built, answer>>
      /\ UNCHANGED request /\ moves' = moves + 1 /\ moves < MaxMoves
      /\ thing' \in Thing \cup {Gone} /\ held' = held \cup {thing'}
  BY DEF Move, request, attempt
<1>3. Calls' = Calls /\ Places' = Places /\ Locations' = Locations /\ \A r : VerifiedRegion(r)' <=> VerifiedRegion(r)
  BY <1>2, SameRequest
<1>4. moves' \in 0..MaxMoves /\ held' \subseteq Thing \cup {Gone}
  <2>1. moves \in 0..MaxMoves /\ held \subseteq Thing \cup {Gone}  BY <1>1 DEF DetailTypeOK
  <2> QED  BY <1>2, <2>1, BoundsAssumption
<1>5. DetailTypeOK'  BY <1>1, <1>2, <1>3, <1>4 DEF DetailTypeOK
<1>6. Known'
  <2>1. Known  BY <1>1 DEF Reading
  <2>2. IsFiniteSet(held')  BY <1>2, <2>1, FS_AddElement DEF Known
  <2> QED  BY <1>2, <1>3, <2>1, <2>2 DEF Known
<1>7. Tally'
  <2>1. Tally  BY <1>1 DEF Reading
  <2> QED  BY <1>2, <2>1 DEF Tally
<1>8. Reading'  BY <1>1, <1>2, <1>3, <1>6, <1>7 DEF Reading
<1>9. RowIsOfTheAsked' /\ CallsAreCounted' /\ EmptyForAReason'  BY <1>1, <1>2, NoAnswerNext
<1> QED  BY <1>1, <1>2, <1>5, <1>8, <1>9 DEF DetailIInv

-----------------------------------------------------------------------------
\* When all calls are answered the parts tell whose the thing is and where.
LEMMA AllIsTold ==
    ASSUME DetailTypeOK, Reading, step > Len(Calls)
    PROVE  /\ \E i \in DOMAIN parts : parts[i].owner = "ours"
           /\ plan.label # "answer" => \E i \in DOMAIN parts : parts[i].region = RegionOf(place)
           /\ plan.label = "answer" => /\ Label = parts[1].region /\ 1 \in DOMAIN parts
                                       /\ Label \in Regions /\ Lower[Label] = Label
<1>1. WellMade(plan) /\ step - 1 = Len(Calls) /\ Len(Calls) \in Nat
      /\ DOMAIN parts = 1..Len(parts) /\ Len(parts) \in Nat /\ \A i \in DOMAIN parts : parts[i] \in Thing
  BY Given
<1>2. \A i \in DOMAIN plan.calls : \E j \in 1..step - 1 : Calls[j] = plan.calls[i]
  BY <1>1, CallsShape DEF DetailTypeOK
<1>3. \E i \in DOMAIN parts : parts[i].owner = "ours"
  <2>1. PICK i \in DOMAIN plan.calls : Tells(plan.calls[i], "owner")  BY <1>1 DEF WellMade
  <2>2. PICK j \in 1..step - 1 : Calls[j] = plan.calls[i]  BY <1>2
  <2>3. Tells(Calls[j], "owner")  BY <2>1, <2>2
  <2> QED  BY <2>3 DEF Reading, Known
<1>4. ASSUME plan.label # "answer"
      PROVE  \E i \in DOMAIN parts : parts[i].region = RegionOf(place)
  <2>1. plan.place # "nowhere"  BY <1>1, <1>4 DEF WellMade
  <2>2. PICK i \in DOMAIN plan.calls : Tells(plan.calls[i], "region")  BY <1>1, <1>4 DEF WellMade
  <2>3. PICK j \in 1..step - 1 : Calls[j] = plan.calls[i]  BY <1>2
  <2>4. Tells(Calls[j], "region")  BY <2>2, <2>3
  <2> QED  BY <2>1, <2>4 DEF Reading, Known
<1>5. ASSUME plan.label = "answer"
      PROVE  /\ Label = parts[1].region /\ 1 \in DOMAIN parts
             /\ Label \in Regions /\ Lower[Label] = Label
  <2>1. 1 \in DOMAIN parts  BY <1>1, <1>3
  <2>2. parts[1].region \in Regions  BY <1>1, <2>1 DEF Thing
  <2>3. Label = parts[1].region  BY <1>5 DEF Label
  <2> QED  BY <2>1, <2>2, <2>3, NamesAssumption
<1> QED  BY <1>3, <1>4, <1>5

\* A row is labelled with a region: the name of a zone is converted.
LEMMA LabelIsRegion ==
    ASSUME DetailTypeOK, Reading, plan.label # "answer"
    PROVE  /\ Label \in Spellings /\ Lower[Label] = RegionOf(place)
           /\ profile.regions # {} => Label \in profile.regions \cup Regions
<1>1. WellMade(plan) /\ place \in Places  BY Given DEF Reading
<1>2. Regions \subseteq Spellings /\ Zones \cap Spellings = {} /\ \A r \in Regions : Lower[r] = r
  BY NamesAssumption
<1>3. CASE plan.label = "place"
  <2>1. Label = place /\ plan.place \in {"exact", "region"}  BY <1>1, <1>3 DEF Label, WellMade
  <2>2. place \in Spellings /\ (profile.regions # {} => place \in profile.regions \cup Regions)
    <3>1. CASE plan.place = "exact"  BY <1>1, <3>1, PlacesAreNames
    <3>2. CASE plan.place = "region"  BY <1>1, <1>2, <3>2, PlacesAreNames
    <3> QED  BY <2>1, <3>1, <3>2
  <2>3. RegionOf(place) = Lower[place]  BY <1>2, <2>2 DEF RegionOf
  <2> QED  BY <2>1, <2>2, <2>3
<1>4. CASE plan.label = "converted"
  <2>1. Label = RegionForLocation(place) /\ plan.place \in {"zone", "location"}
    BY <1>1, <1>4 DEF Label, WellMade
  <2>2. place \in Zones \cup Regions  BY <1>1, <2>1, PlacesAreNames
  <2>3. CASE place \in Zones
    <3>1. Label = ZoneRegion[place] /\ RegionOf(place) = ZoneRegion[place]
      BY <2>1, <2>3 DEF RegionForLocation, RegionOf
    <3>2. ZoneRegion[place] \in Regions  BY <2>3, NamesAssumption
    <3> QED  BY <1>2, <3>1, <3>2
  <2>4. CASE place \notin Zones
    <3>1. Label = place /\ RegionOf(place) = Lower[place] /\ place \in Regions
      BY <2>1, <2>2, <2>4 DEF RegionForLocation, RegionOf
    <3> QED  BY <1>2, <3>1
  <2> QED  BY <2>3, <2>4
<1>5. plan.label \in {"place", "converted"}  BY <1>1 DEF WellMade
<1> QED  BY <1>3, <1>4, <1>5

\* Some part of the row is where the row says.
LEMMA LabelIsTrue ==
    ASSUME DetailTypeOK, Reading, step > Len(Calls)
    PROVE  Label \in Spellings /\ \E i \in DOMAIN parts : parts[i] \in held /\ parts[i].region = Lower[Label]
<1>1. Regions \subseteq Spellings  BY NamesAssumption
<1>2. \A i \in DOMAIN parts : parts[i] \in held  BY DEF Reading, Known
<1>3. CASE plan.label # "answer"  BY <1>2, <1>3, AllIsTold, LabelIsRegion
<1>4. CASE plan.label = "answer"  BY <1>1, <1>2, <1>4, AllIsTold
<1> QED  BY <1>3, <1>4

\* A row that passes the filter of the scoped adapter is of the thing asked for.
LEMMA FinishRow ==
    ASSUME DetailTypeOK, Reading, step > Len(Calls), RowRegionAllowed(Label)
    PROVE  /\ \E i \in DOMAIN parts : parts[i].owner = "ours"
           /\ \A i \in DOMAIN parts : parts[i] \in held
           /\ profile.regions # {} => \E x \in held : \E r \in profile.regions \cup {"global"} :
                                         Lower[r] = x.region
           /\ Cardinality(held) = 1 => \A i \in DOMAIN parts :
                /\ parts[i] = thing /\ parts[i].owner = "ours" /\ parts[i].region = Lower[Label]
<1>1. \E i \in DOMAIN parts : parts[i].owner = "ours"  BY AllIsTold
<1>2. thing \in held /\ \A i \in DOMAIN parts : parts[i] \in held  BY DEF Reading, Known
<1>3. PICK k \in DOMAIN parts : parts[k] \in held /\ parts[k].region = Lower[Label]  BY LabelIsTrue
<1>4. ASSUME profile.regions # {}
      PROVE  \E x \in held : \E r \in profile.regions \cup {"global"} : Lower[r] = x.region
  <2>1. CASE Label \in profile.regions  BY <1>3, <2>1
  <2>2. CASE Label \in Globals
    <3>1. Lower[Label] = "global" /\ Lower[Label] \in Regions  BY <2>2, NamesAssumption DEF Globals
    <3>2. Lower["global"] = "global"  BY <3>1, NamesAssumption
    <3> QED  BY <1>3, <3>1, <3>2
  <2> QED  BY <1>4, <2>1, <2>2 DEF RowRegionAllowed
<1>5. ASSUME Cardinality(held) = 1
      PROVE  \A i \in DOMAIN parts : parts[i] = thing /\ parts[i].owner = "ours" /\ parts[i].region = Lower[Label]
  <2>1. IsFiniteSet(held)  BY DEF Reading, Known
  <2>2. PICK x : held = {x}  BY <1>5, <2>1, FS_Singleton
  <2>3. held = {thing}  BY <1>2, <2>2
  <2>4. \A i \in DOMAIN parts : parts[i] = thing  BY <1>2, <2>3
  <2> QED  BY <1>1, <1>3, <2>4
<1> QED  BY <1>1, <1>2, <1>4, <1>5

\* A row dropped for its region was of a thing in a region which the profile does not name.
LEMMA FinishElsewhere ==
    ASSUME DetailTypeOK, Reading, step > Len(Calls), ~RowRegionAllowed(Label)
    PROVE  /\ \E x \in held : x.region \notin profile.regions \cup {"global"}
           /\ (\E i \in DOMAIN plan.calls : "verified" \in plan.calls[i].checks) =>
                Lower[Label] \in {Lower[r] : r \in profile.regions}
<1>1. profile.regions # {} /\ Label \notin profile.regions /\ Label \notin Globals  BY DEF RowRegionAllowed
<1>2. PICK k \in DOMAIN parts : parts[k] \in held /\ parts[k].region = Lower[Label] /\ Label \in Spellings
  BY LabelIsTrue
<1>3. Label \in Regions
  <2>1. CASE plan.label # "answer"  BY <1>1, <2>1, LabelIsRegion
  <2>2. CASE plan.label = "answer"  BY <2>2, AllIsTold
  <2> QED  BY <2>1, <2>2
<1>4. Lower[Label] = Label /\ Label # "global"  BY <1>1, <1>2, <1>3, NamesAssumption DEF Globals
<1>5. ASSUME NEW i \in DOMAIN plan.calls, "verified" \in plan.calls[i].checks
      PROVE  Lower[Label] \in {Lower[r] : r \in profile.regions}
  <2>1. plan.label = "answer"  BY <1>5, Given DEF WellMade
  <2>2. Label = parts[1].region  BY <2>1 DEF Label
  <2>3. step # 1
    <3>1. plan \in Plans  BY DEF DetailTypeOK
    <3>2. Len(Ancestry) + i \in 1..Len(Calls)  BY <1>5, <3>1, CallsShape
    <3>3. Len(Calls) \in Nat  BY Given
    <3> QED  BY <3>2, <3>3
  <2>4. VerifiedRegion(parts[1].region)  BY <1>5, <2>3 DEF Reading, Known
  <2>5. PICK s \in profile.regions : Lower[s] = Label  BY <1>1, <2>2, <2>4 DEF VerifiedRegion
  <2> QED  BY <1>4, <2>5
<1> QED  BY <1>1, <1>2, <1>4, <1>5

\* The number that the plan reports is not below the calls made.
LEMMA FinishCount ==
    ASSUME DetailTypeOK, Reading, step > Len(Calls)
    PROVE  Requests \in Nat /\ Requests >= made
<1>1. step = Len(Calls) + 1 /\ Len(Calls) = Len(Ancestry) + Len(plan.calls) /\ Len(Ancestry) \in {0, 1}
      /\ Len(plan.calls) \in Nat /\ made \in Nat
  <2>1. plan \in Plans /\ made \in Nat  BY DEF DetailTypeOK
  <2>2. plan.calls \in Seq(CallSet)  BY Given DEF WellMade
  <2> QED  BY <2>1, <2>2, CallsShape, Given
<1>2. CASE plan.requests = Counted  BY <1>1, <1>2 DEF Requests
<1>3. CASE plan = HuaweiOBSStorage
  <2>1. plan.requests = 3 /\ Len(plan.calls) = 2 /\ "hierarchy" \notin plan.scopes  BY <1>3, TwoLists
  <2>2. Len(Ancestry) = 0  BY <2>1 DEF Ancestry, Reading
  <2>3. made <= (IF step = 1 THEN again ELSE step)  BY <1>3, <2>1 DEF Reading, Tally, Counted
  <2>4. step = 3  BY <1>1, <2>1, <2>2
  <2> QED  BY <1>1, <2>1, <2>2, <2>3, <2>4 DEF Requests, Counted
<1>4. CASE plan # HuaweiOBSStorage /\ plan.requests # Counted
  <2>1. plan.requests = Len(plan.calls)  BY <1>4, Given DEF WellMade
  <2>2. made <= step - 1  BY <1>4 DEF Reading, Tally
  <2> QED  BY <1>1, <1>4, <2>1, <2>2 DEF Requests
<1> QED  BY <1>2, <1>3, <1>4

\* All calls are answered.
LEMMA FinishDetail ==
    ASSUME DetailIInv, Finish
    PROVE  DetailIInv'
<1>1. DetailTypeOK /\ Reading /\ answer = "" /\ pc = "read" /\ step > Len(Calls)
  BY DEF DetailIInv, Finish
<1>2. /\ UNCHANGED <<plan, profile, asked, location, place, thing, held, moves, step, again, made, parts>>
      /\ UNCHANGED request /\ pc' = "done" /\ built' \in plan.rows
      /\ answer' \in {"row", "empty"}
      /\ answer' = "row" <=> built' > 0 /\ ServiceAllowed /\ RowRegionAllowed(Label) /\ RowScopeAllowed
      /\ reported' = Requests /\ charged' = charged + Larger(1, Requests)
  BY DEF Finish, request, cloud, attempt
<1>3. Calls' = Calls /\ Locations' = Locations  BY <1>2, SameRequest
<1>4. Label' = Label  BY <1>2 DEF Label, RegionForLocation
<1>5. Requests \in Nat /\ Requests >= made  BY <1>1, FinishCount
<1>6. charged' \in Nat /\ reported' \in Nat
  <2>1. charged \in Nat  BY <1>1 DEF DetailTypeOK
  <2> QED  BY <1>2, <1>5, <2>1 DEF Larger
<1>7. WellMade(plan)  BY <1>1, Given
<1>8. built' \in {0, 1} /\ (built' = 0 => 0 \in plan.rows)  BY <1>2, <1>7 DEF WellMade
<1>9. DetailTypeOK'  BY <1>1, <1>2, <1>3, <1>6, <1>8 DEF DetailTypeOK
<1>10. RowIsOfTheAsked'
  <2>1. CASE answer' = "row"
    <3>0. RowRegionAllowed(Label)  BY <1>2, <2>1
    <3>1. /\ \E i \in DOMAIN parts : parts[i].owner = "ours"
          /\ \A i \in DOMAIN parts : parts[i] \in held
          /\ profile.regions # {} => \E x \in held : \E r \in profile.regions \cup {"global"} :
                                        Lower[r] = x.region
          /\ Cardinality(held) = 1 => \A i \in DOMAIN parts :
               /\ parts[i] = thing /\ parts[i].owner = "ours" /\ parts[i].region = Lower[Label]
      BY <1>1, <3>0, FinishRow
    <3> QED  BY <1>2, <1>4, <3>1 DEF RowIsOfTheAsked
  <2>2. CASE answer' # "row"  BY <2>2 DEF RowIsOfTheAsked
  <2> QED  BY <2>1, <2>2
<1>11. CallsAreCounted'  BY <1>2, <1>5 DEF CallsAreCounted
<1>12. EmptyForAReason'
  <2>1. CASE answer' # "empty"  BY <2>1 DEF EmptyForAReason
  <2>2. CASE built' = 0  BY <1>2, <1>8, <2>2 DEF EmptyForAReason
  <2>3. CASE ~ServiceAllowed  BY <1>2, <2>3 DEF EmptyForAReason, ServiceAllowed
  <2>4. CASE ~RowScopeAllowed
    <3>1. profile.scope = "account" /\ profile.scope \in plan.scopes
      BY <1>1, <2>4 DEF RowScopeAllowed, Reading
    <3>2. plan = HuaweiOBSStorage  BY <1>7, <3>1 DEF WellMade
    <3> QED  BY <1>2, <3>1, <3>2 DEF EmptyForAReason
  <2>5. CASE ~RowRegionAllowed(Label)
    <3>1. /\ \E x \in held : x.region \notin profile.regions \cup {"global"}
          /\ (\E i \in DOMAIN plan.calls : "verified" \in plan.calls[i].checks) =>
               Lower[Label] \in {Lower[r] : r \in profile.regions}
      BY <1>1, <2>5, FinishElsewhere
    <3> QED  BY <1>2, <1>4, <3>1 DEF EmptyForAReason
  <2>6. built' = 0 \/ built' > 0  BY <1>8
  <2> QED  BY <1>2, <2>1, <2>2, <2>3, <2>4, <2>5, <2>6
<1> QED  BY <1>1, <1>2, <1>9, <1>10, <1>11, <1>12 DEF DetailIInv

\* Every step preserves the invariant.
LEMMA NextDetail == DetailIInv /\ [DetailNext]_detailVars => DetailIInv'
<1> SUFFICES ASSUME DetailIInv, [DetailNext]_detailVars  PROVE DetailIInv'  OBVIOUS
<1>1. CASE Begin  BY <1>1, BeginDetail
<1>2. CASE Refuse  BY <1>2, RefuseDetail
<1>3. CASE Read \/ ReadOn  BY <1>3, ReadDetail
<1>4. CASE Fail  BY <1>4, FailDetail
<1>5. CASE Finish  BY <1>5, FinishDetail
<1>6. CASE Move  BY <1>6, MoveDetail
<1>7. CASE UNCHANGED detailVars
  <2>1. /\ UNCHANGED <<plan, profile, asked, location, pc, place, thing, held, moves, step, again, made, parts,
                       charged, reported, built, answer>>
        /\ UNCHANGED request
    BY <1>7 DEF detailVars, request, cloud, attempt
  <2>2. Calls' = Calls /\ Places' = Places /\ Locations' = Locations /\ \A r : VerifiedRegion(r)' <=> VerifiedRegion(r)
    BY <2>1, SameRequest
  <2>3. DetailTypeOK'  BY <2>1, <2>2 DEF DetailIInv, DetailTypeOK
  <2>4. pc' = "read" => Reading'  BY <2>1, <2>2 DEF DetailIInv, Reading, Known, Tally
  <2>5. RowIsOfTheAsked'  BY <2>1 DEF DetailIInv, RowIsOfTheAsked, Label
  <2>6. CallsAreCounted' /\ EmptyForAReason'
    BY <2>1 DEF DetailIInv, CallsAreCounted, EmptyForAReason, Label
  <2> QED  BY <2>1, <2>3, <2>4, <2>5, <2>6 DEF DetailIInv
<1> QED  BY <1>1, <1>2, <1>3, <1>4, <1>5, <1>6, <1>7 DEF DetailNext, Done

\* The inductive invariant holds.
LEMMA DetailInvariant == DetailSpec => []DetailIInv
BY InitDetail, NextDetail, PTL DEF DetailSpec

-----------------------------------------------------------------------------
\* Type correctness: in particular every part of a row is what the name that was
\* asked for was of, never another thing of a list.
THEOREM DetailTypeCorrect == DetailSpec => []DetailTypeOK
<1>1. DetailIInv => DetailTypeOK  BY DEF DetailIInv
<1> QED  BY <1>1, DetailInvariant, PTL

\* Whatever the plan, the profile and the regions, and however often the thing is
\* replaced during the read: a row is of what was asked for.
THEOREM RowsAreOfTheAsked == DetailSpec => []RowIsOfTheAsked
<1>1. DetailIInv => RowIsOfTheAsked  BY DEF DetailIInv
<1> QED  BY <1>1, DetailInvariant, PTL

\* A read reports every upstream call it made, whatever the limits on its parts.
THEOREM CallsAreReported == DetailSpec => []CallsAreCounted
<1>1. DetailIInv => CallsAreCounted  BY DEF DetailIInv
<1> QED  BY <1>1, DetailInvariant, PTL

\* Whatever the profile, the plan and the thing: a read that succeeds is empty for
\* one of the four reasons, so nothing of ours in a region and a service that the
\* profile names is dropped without an error, but for a bucket of an account.
THEOREM EmptyHasAReason == DetailSpec => []EmptyForAReason
<1>1. DetailIInv => EmptyForAReason  BY DEF DetailIInv
<1> QED  BY <1>1, DetailInvariant, PTL
=============================================================================
