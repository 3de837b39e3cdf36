---------------------------- MODULE ConfigStore ----------------------------
(***************************************************************************)
(* One configuration file and the processes that change it: the wizard     *)
(* (mcpcloud init), configure with its preview and apply, client-config    *)
(* --install on a Codex file, and an editor that knows nothing of the lock.*)
(* Every read, comparison and rename of the file is a step of its own, and *)
(* a process may die between any two of them.                              *)
(***************************************************************************)
EXTENDS Naturals

CONSTANTS Writers,   \* processes of mcpcloud
          Editor,    \* whoever edits the file by hand
          Names,     \* profile names, or names of registered servers
          Jobs,      \* what the processes may have been started for
          MaxEdits   \* bound on the edits by hand

Kinds   == {"init", "apply", "install"}
Entries == [name : Names, by : Writers \cup {Editor}]

ASSUME WritersAssumption == Writers \cap {Editor, "free", "dead"} = {}
ASSUME JobsAssumption    == Jobs \subseteq [Writers -> [kind : Kinds, name : Names]]
ASSUME EditsAssumption   == MaxEdits \in Nat

\* The contents of a file, or that there is none: the revision tells apart a
\* missing and an empty file.
Missing == [there |-> FALSE, has |-> {}]
File(s) == [there |-> TRUE, has |-> s]
Files   == {Missing} \cup {File(s) : s \in SUBSET Entries}

VARIABLES file,      \* contents of the file: its entries
          lock,      \* who created the lock file: "free", a process, or "dead"
          pc,        \* where each process is
          seen,      \* the contents a process has read and will compare with
          reviewed,  \* the contents its latest preview was made from, if any
          job,       \* what each process does
          edits,     \* edits by hand so far
          disturbed  \* history: edits by hand since the process read ("prepare")
                     \* or since it compared ("swap")

vars == <<file, lock, pc, seen, reviewed, job, edits, disturbed>>

Steps == {"idle", "revision", "check", "confirm", "lock", "read", "load",
          "compare", "rename", "unlock", "report"}

-----------------------------------------------------------------------------
NamesIn(f) == {e.name : e \in f.has}
Entry(w)   == [name |-> job[w].name, by |-> w]

\* config.Load refuses a mapping with the same key twice, TOML a repeated table.
Loads(f) == \A d, e \in f.has : d.name = e.name => d = e

Goto(w, step) == pc' = [pc EXCEPT ![w] = step]

Init == /\ file \in {Missing, File({})}
        /\ lock = "free"
        /\ pc = [w \in Writers |-> "idle"]
        /\ seen = [w \in Writers |-> Missing]
        /\ reviewed = [w \in Writers |-> {}]
        /\ job \in Jobs
        /\ edits = 0
        /\ disturbed = [w \in Writers |-> {}]

-----------------------------------------------------------------------------
(* Before the lock.                                                        *)

\* The questions of the wizard: a wrong answer, the end of the input or a "no"
\* at the end is an error; so is a name that the configuration has already.
Answered(w) == job[w].name \notin NamesIn(file)

\* init loads the file, runs the wizard and then saves.
Wizard(w) == /\ pc[w] = "idle" /\ job[w].kind = "init"
             /\ Loads(file) /\ Answered(w)
             /\ Goto(w, "lock")
             /\ UNCHANGED <<file, lock, seen, reviewed, job, edits, disturbed>>

\* client-config --install: the snippet is one well-formed table.
Install(w) == /\ pc[w] = "idle" /\ job[w].kind = "install"
              /\ Goto(w, "lock")
              /\ UNCHANGED <<file, lock, seen, reviewed, job, edits, disturbed>>

\* configure has read a request that PrepareRequest accepts. What a preview
\* without --apply does is the same up to Confirm.
Request(w) == /\ pc[w] = "idle" /\ job[w].kind = "apply"
              /\ Goto(w, "revision")
              /\ UNCHANGED <<file, lock, seen, reviewed, job, edits, disturbed>>

ReadRevision(w) == /\ pc[w] = "revision"
                   /\ seen' = [seen EXCEPT ![w] = file]
                   /\ Goto(w, "check")
                   /\ UNCHANGED <<file, lock, reviewed, job, edits, disturbed>>

\* PlanConfiguration loads the file it has just hashed, by a second read.
CheckPlan(w) == /\ pc[w] = "check"
                /\ Goto(w, IF Loads(file) /\ job[w].name \notin NamesIn(file)
                             THEN "confirm" ELSE "idle")
                /\ UNCHANGED <<file, lock, seen, reviewed, job, edits, disturbed>>

\* The third read. A preview is kept; an apply continues if its plan has the
\* identifier of the preview, which binds request, path and contents.
Confirm(w) ==
  /\ pc[w] = "confirm"
  /\ \/ /\ file = seen[w] /\ seen[w] \in reviewed[w]
        /\ Goto(w, "lock")
        /\ UNCHANGED reviewed
     \/ /\ file = seen[w]
        /\ Goto(w, "idle")
        /\ reviewed' = [reviewed EXCEPT ![w] = {seen[w]}]
     \/ /\ file # seen[w] \/ seen[w] \notin reviewed[w]
        /\ Goto(w, "idle")
        /\ UNCHANGED reviewed
  /\ UNCHANGED <<file, lock, seen, job, edits, disturbed>>

-----------------------------------------------------------------------------
(* Under the lock.                                                         *)

\* Mutant: the lock file is opened without O_EXCL.
LockShared(w) == /\ pc[w] = "lock"
                 /\ lock' = w
                 /\ Goto(w, "read")
                 /\ UNCHANGED <<file, seen, reviewed, job, edits, disturbed>>

\* O_CREATE|O_EXCL: an existing lock file is an error, whoever left it.
Lock(w) == /\ pc[w] = "lock"
           /\ \/ /\ lock = "free"
                 /\ lock' = w
                 /\ Goto(w, "read")
              \/ /\ lock # "free"
                 /\ Goto(w, "idle")
                 /\ UNCHANGED lock
           /\ UNCHANGED <<file, seen, reviewed, job, edits, disturbed>>

\* Mutant: the revision is compared by PlanConfiguration only.
AsPlannedAssumed(w, f) == TRUE

\* saveProfile compares the revision again; InstallCodex finds no entry there.
AsPlanned(w, f) == CASE job[w].kind = "init"    -> TRUE
                     [] job[w].kind = "apply"   -> f = seen[w]
                     [] job[w].kind = "install" -> Loads(f) /\ job[w].name \notin NamesIn(f)

Read(w) ==
  /\ pc[w] = "read"
  /\ IF AsPlanned(w, file)
       THEN /\ seen' = [seen EXCEPT ![w] = file]
            /\ disturbed' = [disturbed EXCEPT ![w] = {}]
            /\ Goto(w, IF job[w].kind = "install" THEN "compare" ELSE "load")
       ELSE /\ Goto(w, "unlock")
            /\ UNCHANGED <<seen, disturbed>>
  /\ UNCHANGED <<file, lock, reviewed, job, edits>>

\* Mutant: the name is not looked up again.
LoadValidOnly(w) == /\ pc[w] = "load"
                    /\ Goto(w, IF Loads(file) THEN "compare" ELSE "unlock")
                    /\ UNCHANGED <<file, lock, seen, reviewed, job, edits, disturbed>>

\* saveProfile validates what config.Load reads, which is not what it has read.
Load(w) == /\ pc[w] = "load"
           /\ Goto(w, IF Loads(file) /\ job[w].name \notin NamesIn(file)
                        THEN "compare" ELSE "unlock")
           /\ UNCHANGED <<file, lock, seen, reviewed, job, edits, disturbed>>

\* Mutant: the comparison before the rename is left out.
CompareNothing(w) == /\ pc[w] = "compare"
                     /\ Goto(w, "rename")
                     /\ UNCHANGED <<file, lock, seen, reviewed, job, edits, disturbed>>

\* The new contents are in a temporary file; is the file still what was read?
Compare(w) == /\ pc[w] = "compare"
              /\ Goto(w, IF file = seen[w] THEN "rename" ELSE "unlock")
              /\ UNCHANGED <<file, lock, seen, reviewed, job, edits, disturbed>>

Renames(w) == pc[w] = "rename" /\ pc'[w] = "report"

Rename(w) == /\ pc[w] = "rename"
             /\ file' = File(seen[w].has \cup {Entry(w)})
             /\ Goto(w, "report")
             /\ UNCHANGED <<lock, seen, reviewed, job, edits, disturbed>>

\* Mutant: an early return that does not unlock.
UnlockSaved(w) == /\ pc[w] \in {"unlock", "report"}
                  /\ lock' = IF pc[w] = "report" THEN "free" ELSE lock
                  /\ Goto(w, "idle")
                  /\ UNCHANGED <<file, seen, reviewed, job, edits, disturbed>>

\* The deferred os.Remove of the lock file, on every way out. What follows a
\* save (loading the file again, doctor) changes nothing.
Unlock(w) == /\ pc[w] \in {"unlock", "report"}
             /\ lock' = "free"
             /\ Goto(w, "idle")
             /\ UNCHANGED <<file, seen, reviewed, job, edits, disturbed>>

-----------------------------------------------------------------------------
(* The surroundings.                                                       *)

\* Killed, or interrupted: deferred calls do not run, the lock file stays.
Crash(w) == /\ pc[w] # "idle"
            /\ Goto(w, "idle")
            /\ lock' = IF lock = w THEN "dead" ELSE lock
            /\ UNCHANGED <<file, seen, reviewed, job, edits, disturbed>>

\* Somebody finds that no process owns the lock file and removes it.
RemoveDeadLock == /\ lock = "dead"
                  /\ lock' = "free"
                  /\ UNCHANGED <<file, pc, seen, reviewed, job, edits, disturbed>>

Disturbance(w) == CASE pc[w] \in {"load", "compare"} -> {"prepare"}
                    [] pc[w] = "rename"              -> {"swap"}
                    [] OTHER                         -> {}

\* Somebody writes an entry into the file, or takes one out, or undoes that.
Edit == /\ edits < MaxEdits
        /\ \E e \in Entries :
             file' = File(IF e \in file.has THEN file.has \ {e} ELSE file.has \cup {e})
        /\ edits' = edits + 1
        /\ disturbed' = [w \in Writers |-> disturbed[w] \cup Disturbance(w)]
        /\ UNCHANGED <<lock, pc, seen, reviewed, job>>

Plan(w) == Request(w) \/ ReadRevision(w) \/ CheckPlan(w) \/ Confirm(w)
Save(w) == Lock(w) \/ Read(w) \/ Load(w) \/ Compare(w) \/ Rename(w) \/ Unlock(w)

Next == \/ \E w \in Writers : Wizard(w) \/ Install(w) \/ Plan(w) \/ Save(w) \/ Crash(w)
        \/ RemoveDeadLock
        \/ Edit

\* A process that was started goes on until it ends or dies.
Fairness == \A w \in Writers : WF_vars(Save(w))

Spec == Init /\ [][Next]_vars /\ Fairness
-----------------------------------------------------------------------------
TypeOK == /\ file \in Files
          /\ lock \in {"free", "dead"} \cup Writers
          /\ pc \in [Writers -> Steps]
          /\ seen \in [Writers -> Files]
          /\ reviewed \in [Writers -> SUBSET Files]
          /\ job \in Jobs
          /\ edits \in 0..MaxEdits
          /\ disturbed \in [Writers -> SUBSET {"prepare", "swap"}]

Inside == {"read", "load", "compare", "rename", "unlock", "report"}

(* The lock file belongs to the one process that is inside saveProfile or    *)
(* InstallCodex, although processes die there and their locks are removed.   *)
OneInside == \A w \in Writers : pc[w] \in Inside <=> lock = w

Adds(w) == file' = File(file.has \cup {Entry(w)})

(* A save that no edit by hand falls into adds exactly its entry, to a file  *)
(* that loads and has no entry of that name, however the other processes     *)
(* interleave and die (setup/files.go: SaveProfile "adds a profile without   *)
(* replacing existing profiles or settings").                                *)
UndisturbedSaveAdds ==
  [][\A w \in Writers : Renames(w) /\ disturbed[w] = {} =>
       Adds(w) /\ Loads(file) /\ job[w].name \notin NamesIn(file)]_vars

(* The only edits a save can lose or undo are those made between its         *)
(* comparison and its rename; nothing but saves and edits changes the file.  *)
OnlyLateEditsAreLost ==
  [][file' # file => \/ edits' # edits
                     \/ \E w \in Writers : Renames(w) /\ ("swap" \in disturbed[w] \/ Adds(w))]_vars

(* Apply saves into the very contents its preview was made from, although    *)
(* the file is read five times on the way.                                   *)
AppliedAsPlanned ==
  [][\A w \in Writers : Renames(w) /\ job[w].kind = "apply" /\ "swap" \notin disturbed[w] =>
       file \in reviewed[w]]_vars

(* A lock file outlives its process only if the process dies: every way out  *)
(* of a save removes it.                                                     *)
LocksAreReturned == \A w \in Writers : lock = w ~> lock # w
=============================================================================
