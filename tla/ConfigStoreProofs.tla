------------------------- MODULE ConfigStoreProofs -------------------------
(***************************************************************************)
(* What a process has read is still in the file while nobody edits it by   *)
(* hand: only the process that owns the lock renames, and it goes on from  *)
(* what it has read.                                                       *)
(***************************************************************************)
EXTENDS ConfigStore, TLAPS

\* What a process that has loaded the file knows of what it will extend.
Extendable(w) == Loads(seen[w]) /\ job[w].name \notin NamesIn(seen[w])

Known(w) ==
  /\ pc[w] \in {"load", "compare"} /\ disturbed[w] = {} => file = seen[w]
  /\ pc[w] = "rename" /\ "swap" \notin disturbed[w] => file = seen[w]
  /\ pc[w] \in {"compare", "rename"} /\ disturbed[w] = {} => Extendable(w)
  /\ job[w].kind = "apply" /\ pc[w] \in {"lock", "read", "load", "compare", "rename"}
       => seen[w] \in reviewed[w]

IInv == TypeOK /\ OneInside /\ \A w \in Writers : Known(w)

-----------------------------------------------------------------------------
LEMMA FilesClosed == \A s \in SUBSET Entries : File(s) \in Files
  BY DEF Files

LEMMA HasEntries == \A f \in Files : f.has \in SUBSET Entries
  BY DEF Files, File, Missing

LEMMA InitInv == Init => IInv
  BY WritersAssumption, EditsAssumption DEF Init, IInv, TypeOK, OneInside, Known, Inside, Files, File, Missing, Steps

LEMMA EntryTyped == ASSUME TypeOK, NEW w \in Writers PROVE Entry(w) \in Entries
  BY JobsAssumption DEF TypeOK, Entry, Entries

\* A step of a process that leaves the file alone.
LEMMA LocalStep ==
  ASSUME IInv, NEW w \in Writers,
         \/ Wizard(w) \/ Install(w) \/ Request(w) \/ ReadRevision(w) \/ CheckPlan(w)
         \/ Confirm(w) \/ Compare(w) \/ Load(w)
  PROVE  IInv'
  <1>1. TypeOK'
    BY DEF IInv, TypeOK, Wizard, Install, Request, ReadRevision, CheckPlan, Confirm, Compare, Load, Goto, Steps
  <1>2. OneInside'
    BY DEF IInv, TypeOK, OneInside, Inside, Wizard, Install, Request, ReadRevision, CheckPlan, Confirm, Compare, Load, Goto
  <1>3. ASSUME NEW v \in Writers PROVE Known(v)'
    BY <1>3 DEF IInv, TypeOK, OneInside, Known, Extendable, Wizard, Install, Request, ReadRevision, CheckPlan, Confirm, Compare, Load, Goto
  <1> QED BY <1>1, <1>2, <1>3 DEF IInv

LEMMA LockStep ==
  ASSUME IInv, NEW w \in Writers, Lock(w) \/ Unlock(w) \/ Crash(w) \/ RemoveDeadLock
  PROVE  IInv'
  <1>1. TypeOK'
    BY DEF IInv, TypeOK, Lock, Unlock, Crash, RemoveDeadLock, Goto, Steps
  <1>2. OneInside'
    BY WritersAssumption DEF IInv, TypeOK, OneInside, Inside, Lock, Unlock, Crash, RemoveDeadLock, Goto
  <1>3. ASSUME NEW v \in Writers PROVE Known(v)'
    BY <1>3 DEF IInv, TypeOK, Known, Extendable, Lock, Unlock, Crash, RemoveDeadLock, Goto
  <1> QED BY <1>1, <1>2, <1>3 DEF IInv

LEMMA ReadStep == ASSUME IInv, NEW w \in Writers, Read(w) PROVE IInv'
  <1>1. TypeOK'
    BY DEF IInv, TypeOK, Read, Goto, Steps
  <1>2. OneInside'
    BY DEF IInv, TypeOK, OneInside, Inside, Read, Goto
  <1>3. ASSUME NEW v \in Writers PROVE Known(v)'
    BY <1>3, JobsAssumption DEF IInv, TypeOK, Known, Extendable, AsPlanned, Read, Goto, Kinds
  <1> QED BY <1>1, <1>2, <1>3 DEF IInv

\* The file changes under nobody who relies on it: the others are outside.
LEMMA RenameStep == ASSUME IInv, NEW w \in Writers, Rename(w) PROVE IInv'
  <1>1. file' \in Files
    BY FilesClosed, HasEntries, EntryTyped DEF IInv, TypeOK, Rename
  <1>2. TypeOK'
    BY <1>1 DEF IInv, TypeOK, Rename, Goto, Steps
  <1>3. OneInside'
    BY DEF IInv, TypeOK, OneInside, Inside, Rename, Goto
  <1>4. ASSUME NEW v \in Writers PROVE Known(v)'
    BY <1>4 DEF IInv, TypeOK, OneInside, Inside, Known, Extendable, Rename, Goto
  <1> QED BY <1>2, <1>3, <1>4 DEF IInv

LEMMA EditStep == ASSUME IInv, Edit PROVE IInv'
  <1>1. file' \in Files
    BY FilesClosed, HasEntries DEF IInv, TypeOK, Edit
  <1>2. TypeOK'
    BY <1>1, EditsAssumption DEF IInv, TypeOK, Edit, Disturbance
  <1>3. OneInside'
    BY DEF IInv, OneInside, Edit
  <1>4. ASSUME NEW v \in Writers PROVE Known(v)'
    BY <1>4 DEF IInv, TypeOK, Known, Extendable, Edit, Disturbance
  <1> QED BY <1>2, <1>3, <1>4 DEF IInv

LEMMA StepInv == IInv /\ [Next]_vars => IInv'
  <1> SUFFICES ASSUME IInv, [Next]_vars PROVE IInv'
    OBVIOUS
  <1>1. CASE UNCHANGED vars
    BY <1>1 DEF vars, IInv, TypeOK, OneInside, Known, Extendable
  <1>2. CASE Edit
    BY <1>2, EditStep
  <1>3. CASE RemoveDeadLock
    <2>1. CASE Writers = {}
      BY <1>3, <2>1 DEF IInv, TypeOK, OneInside, RemoveDeadLock
    <2> QED BY <1>3, <2>1, LockStep
  <1>4. ASSUME NEW w \in Writers, Wizard(w) \/ Install(w) \/ Plan(w) \/ Save(w) \/ Crash(w)
        PROVE  IInv'
    BY <1>4, LocalStep, LockStep, ReadStep, RenameStep DEF Plan, Save
  <1> QED BY <1>1, <1>2, <1>3, <1>4 DEF Next

(* What the processes know of the file holds throughout: the invariant that *)
(* the properties of a save rest on.                                        *)
THEOREM InvariantHolds == Spec => []IInv
  BY InitInv, StepInv, PTL DEF Spec

(* The file, the lock and the processes are of their types, whoever dies or *)
(* edits the file by hand.                                                  *)
THEOREM TypeCorrect == Spec => []TypeOK
  <1>1. IInv => TypeOK BY DEF IInv
  <1> QED BY <1>1, InvariantHolds, PTL

-----------------------------------------------------------------------------
(* The lock file belongs to the process inside, for any number of processes. *)
THEOREM LockExcludes == Spec => []OneInside
  BY InvariantHolds, PTL DEF IInv

LEMMA RenamesOnly ==
  ASSUME IInv, [Next]_vars, NEW w \in Writers, Renames(w) PROVE Rename(w)
  BY DEF IInv, TypeOK, Renames, Next, Wizard, Install, Plan, Request, ReadRevision, CheckPlan,
         Confirm, Save, Lock, Read, Load, Compare, Rename, Unlock, Crash, RemoveDeadLock, Edit,
         Goto, vars, Steps

(* A save that no edit by hand falls into adds exactly its entry to a file   *)
(* that loads and has no entry of that name (setup/files.go: SaveProfile).   *)
THEOREM SavesOnlyAdd == Spec => UndisturbedSaveAdds
  <1>1. IInv /\ [Next]_vars =>
          [\A w \in Writers : Renames(w) /\ disturbed[w] = {} =>
             Adds(w) /\ Loads(file) /\ job[w].name \notin NamesIn(file)]_vars
    BY RenamesOnly DEF IInv, Known, Extendable, Rename, Adds
  <1> QED BY <1>1, InvariantHolds, PTL DEF Spec, UndisturbedSaveAdds

(* Nothing but an edit made between comparison and rename is ever lost.      *)
THEOREM EditsAreKept == Spec => OnlyLateEditsAreLost
  <1> DEFINE Kept == file' # file => \/ edits' # edits
                                     \/ \E w \in Writers : Renames(w) /\ ("swap" \in disturbed[w] \/ Adds(w))
  <1>1. ASSUME IInv, Edit PROVE edits' # edits
    BY <1>1 DEF IInv, TypeOK, Edit
  <1>2. ASSUME IInv, NEW w \in Writers, Rename(w)
        PROVE  Renames(w) /\ ("swap" \in disturbed[w] \/ Adds(w))
    BY <1>2 DEF IInv, TypeOK, Known, Rename, Renames, Adds, Goto
  <1>3. ASSUME [Next]_vars, ~Edit, \A w \in Writers : ~Rename(w) PROVE file' = file
    BY <1>3 DEF Next, Wizard, Install, Plan, Request, ReadRevision, CheckPlan, Confirm, Save, Lock,
                Read, Load, Compare, Unlock, Crash, RemoveDeadLock, vars
  <1>4. IInv /\ [Next]_vars => [Kept]_vars
    BY <1>1, <1>2, <1>3
  <1> QED BY <1>4, InvariantHolds, PTL DEF Spec, OnlyLateEditsAreLost

(* Apply saves into the contents that were reviewed (setup/plan.go).         *)
THEOREM AppliesWhatWasReviewed == Spec => AppliedAsPlanned
  <1>1. IInv /\ [Next]_vars =>
          [\A w \in Writers : Renames(w) /\ job[w].kind = "apply" /\ "swap" \notin disturbed[w] =>
             file \in reviewed[w]]_vars
    BY RenamesOnly DEF IInv, Known, Rename
  <1> QED BY <1>1, InvariantHolds, PTL DEF Spec, AppliedAsPlanned
=============================================================================
