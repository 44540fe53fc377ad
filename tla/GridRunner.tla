---------------------------- MODULE GridRunner ----------------------------
(***************************************************************************)
(* The resumable grid runner, sim/experiments/grid.py: run_grid computes   *)
(* which cells have no manifest yet, a pool of worker processes runs them, *)
(* and each worker writes its manifest to a temporary file that it renames *)
(* onto the final path.  The module models one results directory over many *)
(* launches of run_grid, with the faults the docs promise to survive: the  *)
(* machine stops, a worker process is killed, the launching process is     *)
(* killed and leaves its workers behind; or a job raises.                  *)
(*                                                                         *)
(* A simulation is one step with the outcome its manifest records; the     *)
(* file system is kept at the grain of open, write and rename, and a       *)
(* writer keeps the FILE it opened: it follows the file through a rename.  *)
(***************************************************************************)
EXTENDS Naturals, FiniteSets

CONSTANTS
    Cells,       \* the run ids of the grid
    Selections,  \* the subsets run_grid is launched on (--shard, --devices)
    Workers,     \* the worker processes of a pool
    Capped,      \* whether run_grid is given a wall-clock cap
    Faults,      \* BOUND: the kinds of fault that may strike in one behaviour,
                 \* each of them once: a set of sets of kinds
    MaxLaunches  \* BOUND: launches of run_grid in a behaviour

FaultKinds == {"machine", "worker", "main", "job"}

ASSUME GridAssumption ==
    /\ IsFiniteSet(Cells)
    /\ Selections \subseteq SUBSET Cells
    /\ Capped \in BOOLEAN
    /\ Faults \subseteq SUBSET FaultKinds
    /\ MaxLaunches \in Nat

VARIABLES
    files,     \* per cell, what is at the temporary and at the final path
    launch,    \* the running run_grid: its cells, those not yet handed out,
               \* those not yet reported, and how it executes them
    jobs,      \* the job of each worker of the running launch
    orphans,   \* the jobs of workers whose launching process is dead
    launches,  \* how many launches there were
    struck,    \* the kinds of fault that struck
    returned   \* the summary the last completed launch returned

gridVars == <<files, launch, jobs, orphans, launches, struck, returned>>

-----------------------------------------------------------------------------
(* Files.  An absent file is Absent; an opened one is empty until written. *)
Absent == [by |-> 0, body |-> "none", outcome |-> "none"]
Outcomes == IF Capped THEN {"metrics", "collapsed"} ELSE {"metrics"}
Names == {"tmp", "path"}

\* A manifest that is already there: path.exists().  A resume could instead
\* retry the cells recorded as collapsed, or take a temporary file for a
\* manifest too.
OnDiskIfMeasured(c) == files[c]["path"].outcome = "metrics"
OnDiskOrTmp(c) == \E n \in Names : files[c][n] # Absent
OnDisk(c) == files[c]["path"] # Absent

\* Where write_text writes.
TargetInPlace == "path"
Target == "tmp"

-----------------------------------------------------------------------------
(* Jobs.                                                                   *)
Idle == [cell |-> "none", pc |-> "idle", outcome |-> "none", at |-> "none",
         by |-> 0]
Job(c) == [Idle EXCEPT !.cell = c, !.pc = "run", !.by = launch.id]
Off == [alive |-> FALSE, id |-> 0, pooled |-> FALSE, cells |-> {},
        queue |-> {}, due |-> {}, ran |-> 0]

Simulated(j) ==
    {[j EXCEPT !.pc = "open", !.outcome = o] : o \in Outcomes}
Opened(j) == [j EXCEPT !.pc = "write", !.at = Target]
Wrote(j) == [j EXCEPT !.pc = "rename"]

FilesOpened(j) ==
    [files EXCEPT ![j.cell][Target] =
        [by |-> j.by, body |-> "half", outcome |-> j.outcome]]

\* The text replaces an empty file; over the text of another writer of the
\* same file it may leave the tail of a longer one.
BodiesWritten(f, j) ==
    IF f.body = "whole" /\ f.by # j.by THEN {"whole", "half"} ELSE {"whole"}
FilesWritten(j) ==
    IF j.at \notin Names THEN {files}
    ELSE {[files EXCEPT ![j.cell][j.at] =
              [by |-> j.by, body |-> b, outcome |-> j.outcome]] :
              b \in BodiesWritten(files[j.cell][j.at], j)}

\* rename replaces whatever is at the final path.
FilesRenamed(c) == [files EXCEPT ![c] = [tmp |-> Absent, path |-> @["tmp"]]]
CanRename(j) == files[j.cell]["tmp"] # Absent
\* A writer's open file moves with the rename, or loses its name.
Followed(j, c) ==
    IF j.cell # c THEN j
    ELSE [j EXCEPT !.at = CASE j.at = "tmp" -> "path"
                            [] j.at = "path" -> "gone"
                            [] OTHER -> j.at]

-----------------------------------------------------------------------------
(* One launch.                                                             *)
Init ==
    /\ files = [c \in Cells |-> [n \in Names |-> Absent]]
    /\ launch = Off
    /\ jobs = [w \in Workers |-> Idle]
    /\ orphans = {}
    /\ launches = 0
    /\ struck = {}
    /\ returned = Off

\* run_grid on a selection: the cells already on disk are left out, one cell
\* or one worker runs in the launching process, more of both in a pool.  An
\* operator launches a selection as long as something of it is missing.
Start(sel) ==
    LET todo == {c \in sel : ~OnDisk(c)} IN
    /\ ~launch.alive
    /\ launches < MaxLaunches
    /\ todo # {}
    /\ launch' = [alive |-> TRUE, id |-> launches + 1, cells |-> sel,
                  queue |-> todo, due |-> todo, ran |-> 0,
                  pooled |-> Cardinality(todo) > 1 /\ Cardinality(Workers) > 1]
    /\ launches' = launches + 1
    /\ UNCHANGED <<files, jobs, orphans, struck, returned>>

\* The launch dies with all its workers, wherever they are.
Terminated ==
    /\ launch' = Off
    /\ jobs' = [w \in Workers |-> Idle]

Busy == {w \in Workers : jobs[w] # Idle}

\* A free worker takes the next cell and looks at the disk again.  Outside a
\* pool there is one worker, the launching process.
Take(w, c) ==
    /\ launch.alive
    /\ jobs[w] = Idle
    /\ launch.pooled \/ Busy = {}
    /\ c \in launch.queue
    /\ launch' = [launch EXCEPT !.queue = @ \ {c},
                                !.due = IF OnDisk(c) THEN @ \ {c} ELSE @]
    /\ jobs' = IF OnDisk(c) THEN jobs ELSE [jobs EXCEPT ![w] = Job(c)]
    /\ UNCHANGED <<files, orphans, launches, struck, returned>>

Simulate(w) ==
    /\ jobs[w].pc = "run"
    /\ \E j \in Simulated(jobs[w]) : jobs' = [jobs EXCEPT ![w] = j]
    /\ UNCHANGED <<files, launch, orphans, launches, struck, returned>>

OpenTmp(w) ==
    /\ jobs[w].pc = "open"
    /\ files' = FilesOpened(jobs[w])
    /\ jobs' = [jobs EXCEPT ![w] = Opened(jobs[w])]
    /\ UNCHANGED <<launch, orphans, launches, struck, returned>>

WriteTmp(w) ==
    /\ jobs[w].pc = "write"
    /\ files' \in FilesWritten(jobs[w])
    /\ jobs' = [jobs EXCEPT ![w] = Wrote(jobs[w])]
    /\ UNCHANGED <<launch, orphans, launches, struck, returned>>

\* The rename, and the report of the job to the launching process.
Rename(w) ==
    LET c == jobs[w].cell IN
    /\ jobs[w].pc = "rename"
    /\ CanRename(jobs[w])
    /\ files' = FilesRenamed(c)
    /\ jobs' = [v \in Workers |-> IF v = w THEN Idle
                                  ELSE Followed(jobs[v], c)]
    /\ orphans' = {Followed(j, c) : j \in orphans}
    /\ launch' = [launch EXCEPT !.due = @ \ {c}, !.ran = @ + 1]
    /\ UNCHANGED <<launches, struck, returned>>

\* Somebody else has renamed the temporary file: FileNotFoundError.
RenameFails(w) ==
    /\ jobs[w].pc = "rename"
    /\ ~CanRename(jobs[w])
    /\ Terminated
    /\ UNCHANGED <<files, orphans, launches, struck, returned>>

\* Every job has reported: run_grid returns its summary.
Return ==
    /\ launch.alive
    /\ launch.due = {}
    /\ returned' = launch
    /\ launch' = Off
    /\ UNCHANGED <<files, jobs, orphans, launches, struck>>

-----------------------------------------------------------------------------
(* Workers whose launching process was killed: they finish the job in      *)
(* hand, find the pipe to report on broken, and exit.                      *)
Replaced(j, k) == (orphans \ {j}) \cup {k}

OrphanSimulates(j) ==
    /\ j.pc = "run"
    /\ orphans' \in {Replaced(j, k) : k \in Simulated(j)}
    /\ UNCHANGED <<files, launch, jobs, launches, struck, returned>>

OrphanOpens(j) ==
    /\ j.pc = "open"
    /\ files' = FilesOpened(j)
    /\ orphans' = Replaced(j, Opened(j))
    /\ UNCHANGED <<launch, jobs, launches, struck, returned>>

OrphanWrites(j) ==
    /\ j.pc = "write"
    /\ files' \in FilesWritten(j)
    /\ orphans' = Replaced(j, Wrote(j))
    /\ UNCHANGED <<launch, jobs, launches, struck, returned>>

OrphanRenames(j) ==
    /\ j.pc = "rename"
    /\ IF CanRename(j)
       THEN /\ files' = FilesRenamed(j.cell)
            /\ orphans' = {Followed(k, j.cell) : k \in orphans \ {j}}
            /\ jobs' = [w \in Workers |-> Followed(jobs[w], j.cell)]
       ELSE /\ orphans' = orphans \ {j}
            /\ UNCHANGED <<files, jobs>>
    /\ UNCHANGED <<launch, launches, struck, returned>>

OrphanStep ==
    \E j \in orphans : \/ OrphanSimulates(j)
                       \/ OrphanOpens(j)
                       \/ OrphanWrites(j)
                       \/ OrphanRenames(j)

-----------------------------------------------------------------------------
(* Faults.                                                                 *)
Fault(kind) ==
    /\ kind \notin struck
    /\ \E kinds \in Faults : struck \cup {kind} \subseteq kinds
    /\ struck' = struck \cup {kind}
    /\ UNCHANGED <<files, launches, returned>>

\* Sleep, power loss, spot reclaim, or an interrupt of the whole job: every
\* process stops where it is and what was on the disk stays.
MachineStops ==
    /\ Fault("machine")
    /\ launch.alive \/ orphans # {}
    /\ Terminated
    /\ orphans' = {}

\* A pool replaces a killed worker but its job is never reported.
WorkerKilled(w) ==
    /\ Fault("worker")
    /\ launch.pooled
    /\ jobs[w] # Idle
    /\ jobs' = [jobs EXCEPT ![w] = Idle]
    /\ UNCHANGED <<launch, orphans>>

\* An exception of a job reaches the launching process through the pool and
\* ends the launch, its other jobs with it.
SimulationRaises(w) ==
    /\ Fault("job")
    /\ jobs[w].pc = "run"
    /\ Terminated
    /\ UNCHANGED orphans

\* So does one of an orphaned worker, which nobody hears.
OrphanRaises(j) ==
    /\ Fault("job")
    /\ j.pc = "run"
    /\ orphans' = orphans \ {j}
    /\ UNCHANGED <<launch, jobs>>

\* The launching process alone is killed: the workers of its pool go on.
MainKilled ==
    /\ Fault("main")
    /\ launch.alive
    /\ Terminated
    /\ orphans' = IF launch.pooled THEN orphans \cup {jobs[w] : w \in Busy}
                  ELSE orphans

\* A launch that waits for the report of a killed worker waits until an
\* operator interrupts it.
Hung == launch.alive /\ launch.queue = {} /\ Busy = {} /\ launch.due # {}
Interrupt ==
    /\ Hung
    /\ Terminated
    /\ UNCHANGED <<files, orphans, launches, struck, returned>>

WorkerStep(w) ==
    \/ \E c \in Cells : Take(w, c)
    \/ Simulate(w)
    \/ OpenTmp(w)
    \/ WriteTmp(w)
    \/ Rename(w)
    \/ RenameFails(w)

LaunchAny == \E sel \in Selections : Start(sel)

Next ==
    \/ LaunchAny
    \/ \E w \in Workers : WorkerStep(w)
    \/ OrphanStep
    \/ Return
    \/ MachineStops
    \/ \E w \in Workers : WorkerKilled(w) \/ SimulationRaises(w)
    \/ \E j \in orphans : OrphanRaises(j)
    \/ MainKilled
    \/ Interrupt

Spec == Init /\ [][Next]_gridVars

\* The processes run, and an operator relaunches what is missing and
\* interrupts a launch that hangs.
FairSpec ==
    /\ Spec
    /\ WF_gridVars(LaunchAny)
    /\ \A w \in Workers : WF_gridVars(WorkerStep(w))
    /\ WF_gridVars(Return)
    /\ WF_gridVars(Interrupt)
    /\ WF_gridVars(OrphanStep)

-----------------------------------------------------------------------------
(* What the grid runner promises about a results directory.                *)

\* A launching process was killed alone.
Orphaned == "main" \in struck

HasManifest(c) == files[c]["path"] # Absent

\* The file at a final path is always a whole manifest, whatever was
\* interrupted (but for a launching process killed alone): "Write atomically
\* so an interrupted write never leaves a half-file that a resume would
\* mistake for a completed run" (_run_and_write).
AllWhole == \A c \in Cells : HasManifest(c) => files[c]["path"].body = "whole"
NoHalfFile == ~Orphaned => AllWhole

\* The same of what a resume or a readout finds when nobody writes any more,
\* whatever was killed.
NoHalfFileLeft == ~launch.alive /\ orphans = {} => AllWhole

\* "A manifest is never overwritten": once a manifest is at its final path it
\* stays as it is, by the launch and with the outcome of its first writer
\* (unless a launching process was killed alone).
NeverOverwritten ==
    [][~Orphaned => \A c \in Cells :
          HasManifest(c) => files'[c]["path"] = files[c]["path"]]_gridVars

\* A launch that returns has a whole manifest for every cell it was asked
\* for, and the number it reports as run is the number of manifests it wrote
\* itself: nothing is reported as done or as run that a crash had left undone.
ReturnedTrue ==
    returned # Off /\ ~Orphaned =>
        /\ \A c \in returned.cells : files[c]["path"].body = "whole"
        /\ returned.ran = Cardinality({c \in returned.cells :
                                         files[c]["path"].by = returned.id})

\* Whatever is interrupted, killed or left hanging, once faults stop every
\* cell of the grid gets its manifest.
GridCompletes == <>[](\A c \in UNION Selections : HasManifest(c))
=============================================================================
