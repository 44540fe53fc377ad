---------------------------- MODULE GridProofs ----------------------------
(***************************************************************************)
(* What the grid runner promises about a results directory, proved for     *)
(* every grid, pool and number of launches.  As long as no launching       *)
(* process is killed alone, every temporary file that is being written has *)
(* one writer: the cells of a launch that are not reported are split       *)
(* between its queue and the jobs of its workers (Clean).                  *)
(***************************************************************************)
EXTENDS GridRunner, FiniteSetTheorems, TLAPS

-----------------------------------------------------------------------------
(* The invariant.                                                          *)
File == [by : Nat, body : {"none", "half", "whole"},
         outcome : {"metrics", "collapsed", "none"}]
JobRecord == [cell : Cells \cup {"none"},
              pc : {"idle", "run", "open", "write", "rename"},
              outcome : {"metrics", "collapsed", "none"},
              at : {"none", "tmp", "path", "gone"}, by : Nat]
Launch == [alive : BOOLEAN, id : Nat, pooled : BOOLEAN, cells : SUBSET Cells,
           queue : SUBSET Cells, due : SUBSET Cells, ran : Nat]

\* The type of every variable; a job that is not idle is about a cell.
GridTypeOK ==
    /\ files \in [Cells -> [Names -> File]]
    /\ launch \in Launch
    /\ jobs \in [Workers -> JobRecord]
    /\ orphans \subseteq JobRecord
    /\ launches \in Nat
    /\ struck \subseteq FaultKinds
    /\ returned \in Launch
    /\ \A w \in Workers : jobs[w] = Idle \/ (jobs[w].pc # "idle" /\ jobs[w].cell \in Cells)
    /\ \A j \in orphans : j.pc # "idle" /\ j.cell \in Cells

\* Manifests are whole, and written by the launches there were.
Written ==
    \A c \in Cells :
        /\ files[c]["path"].by <= launches
        /\ HasManifest(c) => files[c]["path"].body = "whole"

\* The books of the running launch: what is not due any more is on disk, and
\* what it counts as run is what it wrote.
Books ==
    launch.alive =>
        /\ launch.id = launches /\ launch.id # 0
        /\ launch.queue \subseteq launch.due /\ launch.due \subseteq launch.cells
        /\ \A c \in launch.cells \ launch.due : HasManifest(c)
        /\ launch.ran = Cardinality({c \in launch.cells :
                                       files[c]["path"].by = launch.id})

\* A job in hand is of the running launch, about a cell nobody else has and
\* nobody has written.
Owned ==
    \A w \in Workers : jobs[w].pc # "idle" =>
        /\ launch.alive /\ jobs[w].by = launch.id
        /\ jobs[w].cell \in launch.due \ launch.queue
        /\ ~HasManifest(jobs[w].cell)
        /\ \A v \in Workers : jobs[v].pc # "idle" /\ jobs[v].cell = jobs[w].cell
                               => v = w

\* The temporary file of a job is as its worker left it.
Handled ==
    \A w \in Workers :
        LET tmp == files[jobs[w].cell]["tmp"] IN
        /\ jobs[w].pc = "write" =>
            jobs[w].at = "tmp" /\ tmp.body = "half" /\ tmp.by = launch.id
        /\ jobs[w].pc = "rename" => tmp.body = "whole" /\ tmp.by = launch.id

\* The summary of the last completed launch, and that later launches have
\* other numbers.
Reported ==
    returned # Off =>
        /\ returned.id <= launches
        /\ launch.alive => returned.id < launch.id
        /\ \A c \in returned.cells : HasManifest(c)
        /\ returned.ran = Cardinality({c \in returned.cells :
                                         files[c]["path"].by = returned.id})

Clean == orphans = {} /\ Written /\ Books /\ Owned /\ Handled /\ Reported

\* The inductive invariant.
GridInv == GridTypeOK /\ (~Orphaned => Clean)

-----------------------------------------------------------------------------
(* The values jobs and files take.                                         *)

\* An idle worker's record, the first of a job, and no launch.
LEMMA JobType ==
    /\ Idle \in JobRecord /\ Idle.pc = "idle" /\ Off \in Launch /\ ~Off.alive
    /\ Absent \in File
    /\ launch \in Launch => \A c \in Cells :
        /\ Job(c) \in JobRecord
        /\ Job(c).cell = c /\ Job(c).pc = "run" /\ Job(c).by = launch.id
BY DEF Idle, Off, Absent, Job, JobRecord, Launch, File

\* A step of a job keeps its cell and the launch it is of.
LEMMA JobKeeps ==
    ASSUME NEW j \in JobRecord
    PROVE  /\ /\ Opened(j) \in JobRecord
              /\ Opened(j).cell = j.cell /\ Opened(j).by = j.by
              /\ Opened(j).pc = "write" /\ Opened(j).at = "tmp"
           /\ /\ Wrote(j) \in JobRecord
              /\ Wrote(j).cell = j.cell /\ Wrote(j).by = j.by
              /\ Wrote(j).pc = "rename"
           /\ \A k \in Simulated(j) :
                k \in JobRecord /\ k.cell = j.cell /\ k.by = j.by /\ k.pc = "open"
           /\ \A c \in Cells :
                /\ Followed(j, c) \in JobRecord
                /\ Followed(j, c).cell = j.cell /\ Followed(j, c).by = j.by
                /\ Followed(j, c).pc = j.pc
                /\ j.cell # c \/ j = Idle => Followed(j, c) = j
<1>1. \A c \in Cells :
        /\ Followed(j, c) \in JobRecord
        /\ Followed(j, c).cell = j.cell /\ Followed(j, c).by = j.by
        /\ Followed(j, c).pc = j.pc
        /\ j.cell # c => Followed(j, c) = j
  BY DEF Followed, JobRecord
<1>2. \A c \in Cells : j = Idle => Followed(j, c) = j
  BY DEF Followed, JobRecord, Idle
<1>3. /\ Opened(j) \in JobRecord
      /\ Opened(j).cell = j.cell /\ Opened(j).by = j.by
      /\ Opened(j).pc = "write" /\ Opened(j).at = "tmp"
  BY DEF Opened, Target, JobRecord
<1>4. /\ Wrote(j) \in JobRecord
      /\ Wrote(j).cell = j.cell /\ Wrote(j).by = j.by
      /\ Wrote(j).pc = "rename"
  BY DEF Wrote, JobRecord
<1>5. \A k \in Simulated(j) :
        k \in JobRecord /\ k.cell = j.cell /\ k.by = j.by /\ k.pc = "open"
  BY DEF Simulated, Outcomes, JobRecord
<1> QED
  BY <1>1, <1>2, <1>3, <1>4, <1>5

\* What opening, writing and renaming do to the files.
LEMMA FilesType ==
    ASSUME files \in [Cells -> [Names -> File]], NEW j \in JobRecord,
           j.cell \in Cells
    PROVE  /\ FilesOpened(j) \in [Cells -> [Names -> File]]
           /\ FilesWritten(j) \subseteq [Cells -> [Names -> File]]
           /\ FilesRenamed(j.cell) \in [Cells -> [Names -> File]]
<1>1. FilesOpened(j) \in [Cells -> [Names -> File]]
  BY DEF FilesOpened, Target, Names, File, JobRecord
<1>2. FilesWritten(j) \subseteq [Cells -> [Names -> File]]
  BY DEF FilesWritten, BodiesWritten, Names, File, JobRecord
<1>3. FilesRenamed(j.cell) \in [Cells -> [Names -> File]]
  BY JobType DEF FilesRenamed, Names
<1> QED
  BY <1>1, <1>2, <1>3

\* Opening and writing leave every final path alone, and the temporary files
\* of the other cells; a rename leaves the files of the other cells alone.
LEMMA FilesKept ==
    ASSUME files \in [Cells -> [Names -> File]], NEW j \in JobRecord,
           j.cell \in Cells
    PROVE  /\ \A c \in Cells : FilesOpened(j)[c]["path"] = files[c]["path"]
           /\ \A c \in Cells \ {j.cell} : FilesOpened(j)[c] = files[c]
           /\ FilesOpened(j)[j.cell]["tmp"].body = "half"
           /\ FilesOpened(j)[j.cell]["tmp"].by = j.by
           /\ \A c \in Cells \ {j.cell} : FilesRenamed(j.cell)[c] = files[c]
           /\ FilesRenamed(j.cell)[j.cell]["path"] = files[j.cell]["tmp"]
BY DEF FilesOpened, FilesRenamed, Target, Names, File, JobRecord

\* A writer that finishes its temporary file touches no other file.
LEMMA FilesFilled ==
    ASSUME files \in [Cells -> [Names -> File]], NEW j \in JobRecord,
           j.cell \in Cells, j.at = "tmp",
           files[j.cell]["tmp"].body = "half", files[j.cell]["tmp"].by = j.by,
           NEW f \in FilesWritten(j)
    PROVE  /\ \A c \in Cells : f[c]["path"] = files[c]["path"]
           /\ \A c \in Cells \ {j.cell} : f[c] = files[c]
           /\ f[j.cell]["tmp"].body = "whole"
           /\ f[j.cell]["tmp"].by = j.by
BY DEF FilesWritten, BodiesWritten, Names, File, JobRecord

-----------------------------------------------------------------------------
(* Types.                                                                  *)
LaunchStep == LaunchAny \/ Return \/ Interrupt
JobStep(w) ==
    Simulate(w) \/ OpenTmp(w) \/ WriteTmp(w) \/ Rename(w) \/ RenameFails(w)
FaultStep ==
    \/ MachineStops \/ MainKilled
    \/ \E w \in Workers : WorkerKilled(w) \/ SimulationRaises(w)
    \/ \E j \in orphans : OrphanRaises(j)

\* One worker's job changes, or every worker's becomes idle.
LEMMA OneJobType ==
    ASSUME GridTypeOK, files' \in [Cells -> [Names -> File]],
           launch' \in Launch, orphans' \subseteq orphans,
           launches' \in Nat, struck' \subseteq FaultKinds, returned' \in Launch,
           \/ jobs' = jobs
           \/ jobs' = [w \in Workers |-> Idle]
           \/ \E w \in Workers : \E k \in JobRecord :
                /\ jobs' = [jobs EXCEPT ![w] = k]
                /\ k = Idle \/ (k.pc # "idle" /\ k.cell \in Cells)
    PROVE  GridTypeOK'
<1>1. \A j \in orphans' : j \in JobRecord /\ j.pc # "idle" /\ j.cell \in Cells
  BY DEF GridTypeOK
<1>2. CASE jobs' = jobs
  BY <1>1, <1>2 DEF GridTypeOK
<1>3. CASE jobs' = [w \in Workers |-> Idle]
  BY <1>1, <1>3, JobType DEF GridTypeOK
<1>4. ASSUME NEW w \in Workers, NEW k \in JobRecord,
             jobs' = [jobs EXCEPT ![w] = k],
             k = Idle \/ (k.pc # "idle" /\ k.cell \in Cells)
      PROVE  GridTypeOK'
  <2>1. jobs' \in [Workers -> JobRecord]
    BY <1>4 DEF GridTypeOK
  <2>2. \A v \in Workers :
          jobs'[v] = Idle \/ (jobs'[v].pc # "idle" /\ jobs'[v].cell \in Cells)
    BY <1>4 DEF GridTypeOK
  <2> QED
    BY <1>1, <2>1, <2>2 DEF GridTypeOK
<1> QED
  BY <1>2, <1>3, <1>4

\* A launching process keeps the types.
LEMMA LaunchType ==
    ASSUME GridTypeOK, LaunchStep \/ \E w \in Workers, c \in Cells : Take(w, c)
    PROVE  GridTypeOK'
<1>1. CASE \E sel \in Selections : Start(sel)
  BY <1>1, GridAssumption DEF Start, GridTypeOK, Launch
<1>2. CASE Return
  BY <1>2, JobType, OneJobType DEF Return, GridTypeOK
<1>3. CASE Interrupt
  BY <1>3, JobType, OneJobType DEF Interrupt, Terminated, GridTypeOK
<1>4. ASSUME NEW w \in Workers, NEW c \in Cells, Take(w, c) PROVE GridTypeOK'
  <2>1. launch' \in Launch
    BY <1>4 DEF Take, GridTypeOK, Launch
  <2>2. Job(c) \in JobRecord /\ Job(c).cell = c /\ Job(c).pc # "idle"
    BY JobType DEF GridTypeOK
  <2>3. /\ jobs' = jobs \/ jobs' = [jobs EXCEPT ![w] = Job(c)]
        /\ files' = files /\ orphans' = orphans /\ launches' = launches
        /\ struck' = struck /\ returned' = returned
    BY <1>4 DEF Take
  <2>4. CASE jobs' = jobs
    BY <2>1, <2>3, <2>4, OneJobType DEF GridTypeOK
  <2>5. CASE jobs' = [jobs EXCEPT ![w] = Job(c)]
    BY <2>1, <2>2, <2>3, <2>5, OneJobType DEF GridTypeOK
  <2> QED
    BY <2>3, <2>4, <2>5
<1> QED
  BY <1>1, <1>2, <1>3, <1>4 DEF LaunchStep, LaunchAny

\* So does a step of a worker, running or orphaned.
LEMMA JobStepType ==
    ASSUME GridTypeOK, (\E w \in Workers : JobStep(w)) \/ OrphanStep
    PROVE  GridTypeOK'
<1>1. ASSUME NEW w \in Workers, JobStep(w) PROVE GridTypeOK'
  <2> DEFINE j == jobs[w]
  <2>1. j \in JobRecord /\ (j.pc # "idle" => j.cell \in Cells)
    BY JobType DEF GridTypeOK
  <2>2. CASE Simulate(w)
    <3>1. PICK k \in Simulated(j) : jobs' = [jobs EXCEPT ![w] = k]
      BY <2>2 DEF Simulate
    <3>2. j.cell \in Cells
      BY <2>1, <2>2 DEF Simulate
    <3>3. k \in JobRecord /\ k.cell \in Cells /\ k.pc # "idle"
      BY <2>1, <3>2, JobKeeps
    <3> QED
      BY <2>2, <3>1, <3>3, OneJobType DEF Simulate, GridTypeOK
  <2>3. CASE OpenTmp(w)
    <3>1. j.cell \in Cells
      BY <2>1, <2>3 DEF OpenTmp
    <3>2. Opened(j) \in JobRecord /\ Opened(j).cell \in Cells /\ Opened(j).pc # "idle"
      BY <2>1, <3>1, JobKeeps
    <3>3. files' \in [Cells -> [Names -> File]]
      BY <2>1, <2>3, <3>1, FilesType DEF OpenTmp, GridTypeOK
    <3> QED
      BY <2>3, <3>2, <3>3, OneJobType DEF OpenTmp, GridTypeOK
  <2>4. CASE WriteTmp(w)
    <3>1. j.cell \in Cells
      BY <2>1, <2>4 DEF WriteTmp
    <3>2. Wrote(j) \in JobRecord /\ Wrote(j).cell \in Cells /\ Wrote(j).pc # "idle"
      BY <2>1, <3>1, JobKeeps
    <3>3. files' \in [Cells -> [Names -> File]]
      BY <2>1, <2>4, <3>1, FilesType DEF WriteTmp, GridTypeOK
    <3> QED
      BY <2>4, <3>2, <3>3, OneJobType DEF WriteTmp, GridTypeOK
  <2>5. CASE Rename(w)
    <3>1. j.cell \in Cells /\ files' = FilesRenamed(j.cell)
      BY <2>1, <2>5 DEF Rename
    <3>2. launch' \in Launch
      <4>1. launch \in Launch /\ launch.due \ {j.cell} \subseteq Cells /\ launch.ran + 1 \in Nat
        BY DEF GridTypeOK, Launch
      <4> QED
        BY <2>5, <4>1 DEF Rename, Launch
    <3>3. ASSUME NEW v \in Workers
          PROVE  /\ jobs'[v] \in JobRecord
                 /\ jobs'[v] = Idle \/ (jobs'[v].pc # "idle" /\ jobs'[v].cell \in Cells)
      <4>1. jobs[v] \in JobRecord
        BY DEF GridTypeOK
      <4>2. /\ Followed(jobs[v], j.cell) \in JobRecord
            /\ Followed(jobs[v], j.cell).pc = jobs[v].pc
            /\ Followed(jobs[v], j.cell).cell = jobs[v].cell
            /\ jobs[v] = Idle => Followed(jobs[v], j.cell) = Idle
        BY <3>1, <4>1, JobKeeps
      <4>3. jobs'[v] = IF v = w THEN Idle ELSE Followed(jobs[v], j.cell)
        BY <2>5 DEF Rename
      <4> QED
        BY <4>2, <4>3, JobType DEF GridTypeOK
    <3>4. ASSUME NEW k \in orphans'
          PROVE  k \in JobRecord /\ k.pc # "idle" /\ k.cell \in Cells
      <4>1. PICK i \in orphans : k = Followed(i, j.cell)
        BY <2>5 DEF Rename
      <4>2. i \in JobRecord /\ i.pc # "idle" /\ i.cell \in Cells
        BY DEF GridTypeOK
      <4> QED
        BY <3>1, <4>1, <4>2, JobKeeps
    <3>5. jobs' \in [Workers -> JobRecord]
      BY <2>5, <3>3 DEF Rename
    <3> QED
      BY <2>1, <2>5, <3>1, <3>2, <3>3, <3>4, <3>5, FilesType DEF Rename, GridTypeOK
  <2>6. CASE RenameFails(w)
    BY <2>6, JobType, OneJobType DEF RenameFails, Terminated, GridTypeOK
  <2> QED
    BY <1>1, <2>2, <2>3, <2>4, <2>5, <2>6 DEF JobStep
<1>2. ASSUME NEW j \in orphans,
             OrphanSimulates(j) \/ OrphanOpens(j) \/ OrphanWrites(j) \/ OrphanRenames(j)
      PROVE  GridTypeOK'
  <2>1. j \in JobRecord /\ j.cell \in Cells
    BY DEF GridTypeOK
  <2>2. ASSUME NEW k \in JobRecord, k.pc # "idle", k.cell \in Cells,
               files' \in [Cells -> [Names -> File]], orphans' = Replaced(j, k),
               UNCHANGED <<launch, jobs, launches, struck, returned>>
        PROVE  GridTypeOK'
    BY <2>2 DEF Replaced, GridTypeOK
  <2>3. CASE OrphanSimulates(j)
    <3>1. PICK k \in Simulated(j) : orphans' = Replaced(j, k)
      BY <2>3 DEF OrphanSimulates
    <3>2. k \in JobRecord /\ k.cell \in Cells /\ k.pc # "idle"
      BY <2>1, JobKeeps
    <3> QED
      BY <2>2, <2>3, <3>1, <3>2 DEF OrphanSimulates, GridTypeOK
  <2>4. CASE OrphanOpens(j) \/ OrphanWrites(j)
    <3>1. /\ Opened(j) \in JobRecord /\ Opened(j).cell \in Cells /\ Opened(j).pc # "idle"
          /\ Wrote(j) \in JobRecord /\ Wrote(j).cell \in Cells /\ Wrote(j).pc # "idle"
      BY <2>1, JobKeeps
    <3>2. files' \in [Cells -> [Names -> File]]
      BY <2>1, <2>4, FilesType DEF OrphanOpens, OrphanWrites, GridTypeOK
    <3> QED
      BY <2>2, <2>4, <3>1, <3>2 DEF OrphanOpens, OrphanWrites
  <2>5. CASE OrphanRenames(j) /\ CanRename(j)
    <3>1. files' = FilesRenamed(j.cell)
      BY <2>5 DEF OrphanRenames
    <3>2. ASSUME NEW v \in Workers
          PROVE  /\ jobs'[v] \in JobRecord
                 /\ jobs'[v] = Idle \/ (jobs'[v].pc # "idle" /\ jobs'[v].cell \in Cells)
      <4>1. jobs[v] \in JobRecord
        BY DEF GridTypeOK
      <4>2. jobs'[v] = Followed(jobs[v], j.cell)
        BY <2>5 DEF OrphanRenames
      <4>3. /\ Followed(jobs[v], j.cell) \in JobRecord
            /\ Followed(jobs[v], j.cell).pc = jobs[v].pc
            /\ Followed(jobs[v], j.cell).cell = jobs[v].cell
            /\ jobs[v] = Idle => Followed(jobs[v], j.cell) = Idle
        BY <2>1, <4>1, JobKeeps
      <4> QED
        BY <4>2, <4>3 DEF GridTypeOK
    <3>3. ASSUME NEW k \in orphans'
          PROVE  k \in JobRecord /\ k.pc # "idle" /\ k.cell \in Cells
      <4>1. PICK i \in orphans : k = Followed(i, j.cell)
        BY <2>5 DEF OrphanRenames
      <4>2. i \in JobRecord /\ i.pc # "idle" /\ i.cell \in Cells
        BY DEF GridTypeOK
      <4> QED
        BY <2>1, <4>1, <4>2, JobKeeps
    <3>4. jobs' \in [Workers -> JobRecord]
      BY <2>5, <3>2 DEF OrphanRenames
    <3> QED
      BY <2>1, <2>5, <3>1, <3>2, <3>3, <3>4, FilesType DEF OrphanRenames, GridTypeOK
  <2>6. CASE OrphanRenames(j) /\ ~CanRename(j)
    BY <2>6, OneJobType DEF OrphanRenames, GridTypeOK
  <2> QED
    BY <1>2, <2>3, <2>4, <2>5, <2>6
<1> QED
  BY <1>1, <1>2 DEF OrphanStep

\* And so does a fault.
LEMMA FaultType ==
    ASSUME GridTypeOK, FaultStep PROVE GridTypeOK'
<1>1. ASSUME NEW k, Fault(k)
      PROVE  struck' \subseteq FaultKinds /\ UNCHANGED <<files, launches, returned>>
  BY <1>1, GridAssumption DEF Fault, GridTypeOK
<1>2. CASE MachineStops
  <2>1. struck' \subseteq FaultKinds /\ UNCHANGED <<files, launches, returned>>
    BY <1>1, <1>2 DEF MachineStops
  <2> QED
    BY <1>2, <2>1, JobType, OneJobType DEF MachineStops, Terminated, GridTypeOK
<1>3. CASE MainKilled
  <2>1. \A w \in Busy :
          jobs[w] \in JobRecord /\ jobs[w].pc # "idle" /\ jobs[w].cell \in Cells
    BY DEF GridTypeOK, Busy
  <2>2. struck' \subseteq FaultKinds /\ UNCHANGED <<files, launches, returned>>
    BY <1>1, <1>3 DEF MainKilled
  <2>3. \A j \in orphans' : j \in JobRecord /\ j.pc # "idle" /\ j.cell \in Cells
    BY <1>3, <2>1 DEF MainKilled, GridTypeOK
  <2> QED
    BY <1>3, <2>2, <2>3, JobType DEF MainKilled, Terminated, GridTypeOK
<1>4. CASE \E w \in Workers : WorkerKilled(w)
  <2>1. struck' \subseteq FaultKinds /\ UNCHANGED <<files, launches, returned>>
    BY <1>1, <1>4 DEF WorkerKilled
  <2> QED
    BY <1>4, <2>1, JobType, OneJobType DEF WorkerKilled, GridTypeOK
<1>5. CASE \E w \in Workers : SimulationRaises(w)
  <2>1. struck' \subseteq FaultKinds /\ UNCHANGED <<files, launches, returned>>
    BY <1>1, <1>5 DEF SimulationRaises
  <2> QED
    BY <1>5, <2>1, JobType, OneJobType DEF SimulationRaises, Terminated, GridTypeOK
<1>6. CASE \E j \in orphans : OrphanRaises(j)
  <2>1. struck' \subseteq FaultKinds /\ UNCHANGED <<files, launches, returned>>
    BY <1>1, <1>6 DEF OrphanRaises
  <2> QED
    BY <1>6, <2>1, OneJobType DEF OrphanRaises, GridTypeOK
<1> QED
  BY <1>2, <1>3, <1>4, <1>5, <1>6 DEF FaultStep

-----------------------------------------------------------------------------
(* The clean directory.                                                    *)

\* A launch that ends leaves no job behind.
LEMMA TerminatedClean ==
    ASSUME Clean, Terminated, orphans' = {}, UNCHANGED <<files, launches, returned>>
    PROVE  Clean'
<1>1. ~launch'.alive /\ \A w \in Workers : jobs'[w].pc = "idle"
  BY JobType DEF Terminated
<1> QED
  BY <1>1 DEF Clean, Written, Books, Owned, Handled, Reported, HasManifest

\* A new launch has a number of its own, and everything missing in its queue.
LEMMA StartClean ==
    ASSUME GridTypeOK, Clean, NEW sel \in Selections, Start(sel)
    PROVE  Clean'
<1>1. /\ ~launch.alive /\ files' = files /\ jobs' = jobs /\ orphans' = orphans
      /\ launches' = launches + 1 /\ returned' = returned
      /\ launch'.alive /\ launch'.id = launches + 1 /\ launch'.ran = 0
      /\ launch'.cells = sel /\ launch'.queue = launch'.due
      /\ launch'.due = {c \in sel : ~OnDisk(c)}
  BY DEF Start
<1>2. sel \subseteq Cells /\ launches \in Nat
  BY GridAssumption DEF GridTypeOK
<1>3. \A c \in Cells : files[c]["path"].by <= launches /\ files[c]["path"].by \in Nat
  BY DEF Clean, Written, GridTypeOK, File, Names
<1>4. Written'
  BY <1>1, <1>2, <1>3 DEF Clean, Written, HasManifest
<1>5. Books'
  <2>1. {c \in launch'.cells : files'[c]["path"].by = launch'.id} = {}
    BY <1>1, <1>2, <1>3
  <2>2. \A c \in launch'.cells \ launch'.due : HasManifest(c)'
    BY <1>1 DEF HasManifest, OnDisk
  <2>3. launch'.ran = Cardinality({c \in launch'.cells : files'[c]["path"].by = launch'.id})
    BY <1>1, <2>1, FS_EmptySet
  <2> QED
    BY <1>1, <1>2, <2>2, <2>3 DEF Books
<1>6. \A w \in Workers : jobs'[w].pc = "idle"
  BY <1>1 DEF Clean, Owned, GridTypeOK
<1>7. Reported'
  <2>1. returned # Off => returned.id \in Nat /\ returned.id <= launches
    BY DEF Clean, Reported, GridTypeOK, Launch
  <2> QED
    BY <1>1, <1>2, <2>1 DEF Clean, Reported, HasManifest
<1> QED
  BY <1>1, <1>4, <1>5, <1>6, <1>7 DEF Clean, Owned, Handled

\* A cell taken from the queue gets its one job.
LEMMA TakeClean ==
    ASSUME GridTypeOK, Clean, NEW w \in Workers, NEW c \in Cells, Take(w, c)
    PROVE  Clean'
<1>1. /\ files' = files /\ orphans' = orphans /\ launches' = launches
      /\ returned' = returned /\ launch.alive /\ c \in launch.queue
      /\ jobs[w] = Idle
  BY DEF Take
<1>2. /\ launch'.alive /\ launch'.id = launch.id /\ launch'.cells = launch.cells
      /\ launch'.ran = launch.ran /\ launch'.queue = launch.queue \ {c}
      /\ launch'.due = IF HasManifest(c) THEN launch.due \ {c} ELSE launch.due
  BY DEF Take, GridTypeOK, Launch, OnDisk, HasManifest
<1>3. Books'
  BY <1>1, <1>2 DEF Clean, Books, HasManifest
<1>4. \A v \in Workers : jobs[v].pc # "idle" => jobs[v].cell # c
  BY <1>1 DEF Clean, Owned
<1>5. ASSUME NEW v \in Workers, jobs'[v].pc # "idle"
      PROVE  \/ jobs'[v] = jobs[v]
             \/ v = w /\ jobs'[v] = Job(c) /\ ~HasManifest(c)
  BY <1>5 DEF Take, GridTypeOK, OnDisk, HasManifest
<1>6. Job(c).cell = c /\ Job(c).pc = "run" /\ Job(c).by = launch.id
  BY JobType DEF GridTypeOK
<1>7. launch.queue \subseteq launch.due
  BY <1>1 DEF Clean, Books
<1>8. Owned'
  <2> SUFFICES ASSUME NEW v \in Workers, jobs'[v].pc # "idle"
               PROVE  /\ jobs'[v].by = launch.id
                      /\ jobs'[v].cell \in launch'.due \ launch'.queue
                      /\ ~HasManifest(jobs'[v].cell)
                      /\ \A u \in Workers :
                           jobs'[u].pc # "idle" /\ jobs'[u].cell = jobs'[v].cell
                             => u = v
    BY <1>1, <1>2 DEF Owned, HasManifest
  <2>1. CASE v = w /\ jobs'[v] = Job(c) /\ ~HasManifest(c)
    BY <1>1, <1>2, <1>4, <1>5, <1>6, <1>7, <2>1
  <2>2. CASE jobs'[v] = jobs[v]
    <3>1. /\ jobs[v].by = launch.id /\ jobs[v].cell \in launch.due \ launch.queue
          /\ ~HasManifest(jobs[v].cell) /\ jobs[v].cell # c
      BY <1>4, <2>2 DEF Clean, Owned
    <3>2. \A u \in Workers : jobs[u].pc # "idle" /\ jobs[u].cell = jobs[v].cell => u = v
      BY <2>2 DEF Clean, Owned
    <3> QED
      BY <1>2, <1>5, <1>6, <2>2, <3>1, <3>2
  <2> QED
    BY <1>5, <2>1, <2>2
<1>9. Handled'
  BY <1>1, <1>2, <1>5, <1>6 DEF Clean, Handled
<1>10. Written' /\ Reported'
  BY <1>1, <1>2 DEF Clean, Written, Reported, HasManifest
<1> QED
  BY <1>1, <1>3, <1>8, <1>9, <1>10 DEF Clean

\* A worker that goes on with its job and leaves the final paths alone.
LEMMA WorkClean ==
    ASSUME GridTypeOK, Clean, NEW w \in Workers, NEW k,
           jobs[w].pc # "idle", jobs' = [jobs EXCEPT ![w] = k],
           k.pc # "idle", k.cell = jobs[w].cell, k.by = jobs[w].by,
           \A c \in Cells : files'[c]["path"] = files[c]["path"],
           \A c \in Cells \ {k.cell} : files'[c] = files[c],
           k.pc = "write" => /\ k.at = "tmp" /\ files'[k.cell]["tmp"].body = "half"
                             /\ files'[k.cell]["tmp"].by = k.by,
           k.pc = "rename" => /\ files'[k.cell]["tmp"].body = "whole"
                              /\ files'[k.cell]["tmp"].by = k.by,
           UNCHANGED <<launch, orphans, launches, returned>>
    PROVE  Clean'
<1>1. \A v \in Workers : jobs[v].pc # "idle" => jobs[v].cell \in Cells
  BY JobType DEF GridTypeOK
<1>2. \A v \in Workers :
        /\ jobs'[v].pc # "idle" <=> jobs[v].pc # "idle"
        /\ jobs'[v].cell = jobs[v].cell /\ jobs'[v].by = jobs[v].by
        /\ v # w => jobs'[v] = jobs[v]
        /\ v = w => jobs'[v] = k
  BY DEF GridTypeOK
<1>3. \A c \in Cells : HasManifest(c)' <=> HasManifest(c)
  BY DEF HasManifest
<1>4. launch.cells \subseteq Cells /\ returned.cells \subseteq Cells
  BY DEF GridTypeOK, Launch
<1>5. /\ {c \in launch.cells : files'[c]["path"].by = launch.id} =
           {c \in launch.cells : files[c]["path"].by = launch.id}
      /\ {c \in returned.cells : files'[c]["path"].by = returned.id} =
           {c \in returned.cells : files[c]["path"].by = returned.id}
  BY <1>4
<1>6. Written' /\ Books' /\ Reported'
  BY <1>3, <1>4, <1>5 DEF Clean, Written, Books, Reported
<1>7. Owned'
  BY <1>1, <1>2, <1>3 DEF Clean, Owned
<1>8. Handled'
  <2> SUFFICES ASSUME NEW v \in Workers, jobs'[v].pc \in {"write", "rename"}
               PROVE  LET tmp == files'[jobs'[v].cell]["tmp"] IN
                      /\ jobs'[v].pc = "write" =>
                          /\ jobs'[v].at = "tmp" /\ tmp.body = "half"
                          /\ tmp.by = launch.id
                      /\ jobs'[v].pc = "rename" =>
                          tmp.body = "whole" /\ tmp.by = launch.id
    BY DEF Handled
  <2>1. CASE v = w
    BY <1>2, <2>1 DEF Clean, Owned
  <2>2. CASE v # w
    <3>1. jobs'[v] = jobs[v] /\ jobs[v].cell # k.cell /\ jobs[v].cell \in Cells
      BY <1>1, <1>2, <2>2 DEF Clean, Owned
    <3> QED
      BY <3>1 DEF Clean, Handled
  <2> QED
    BY <2>1, <2>2
<1> QED
  BY <1>6, <1>7, <1>8 DEF Clean

\* Simulating, opening and writing are such steps: nobody else has opened the
\* temporary file, so opening empties it and writing leaves it whole.
LEMMA JobWorkClean ==
    ASSUME GridTypeOK, Clean, NEW w \in Workers,
           Simulate(w) \/ OpenTmp(w) \/ WriteTmp(w)
    PROVE  Clean'
<1> DEFINE j == jobs[w]
<1>1. /\ j \in JobRecord /\ j.pc # "idle" /\ j.cell \in Cells /\ j.by = launch.id
      /\ files \in [Cells -> [Names -> File]]
  BY JobType DEF Simulate, OpenTmp, WriteTmp, GridTypeOK, Clean, Owned
<1>2. CASE Simulate(w)
  <2>1. PICK k \in Simulated(j) : jobs' = [jobs EXCEPT ![w] = k]
    BY <1>2 DEF Simulate
  <2>2. k.cell = j.cell /\ k.by = j.by /\ k.pc = "open"
    BY <1>1, JobKeeps
  <2> QED
    BY <1>1, <1>2, <2>1, <2>2, WorkClean DEF Simulate
<1>3. CASE OpenTmp(w)
  <2>1. /\ Opened(j).cell = j.cell /\ Opened(j).by = j.by
        /\ Opened(j).pc = "write" /\ Opened(j).at = "tmp"
    BY <1>1, JobKeeps
  <2>2. /\ \A c \in Cells : FilesOpened(j)[c]["path"] = files[c]["path"]
        /\ \A c \in Cells \ {j.cell} : FilesOpened(j)[c] = files[c]
        /\ FilesOpened(j)[j.cell]["tmp"].body = "half"
        /\ FilesOpened(j)[j.cell]["tmp"].by = j.by
    BY <1>1, FilesKept
  <2> QED
    BY <1>1, <1>3, <2>1, <2>2, WorkClean DEF OpenTmp
<1>4. CASE WriteTmp(w)
  <2>1. /\ Wrote(j).cell = j.cell /\ Wrote(j).by = j.by /\ Wrote(j).pc = "rename"
    BY <1>1, JobKeeps
  <2>2. /\ j.at = "tmp" /\ files[j.cell]["tmp"].body = "half"
        /\ files[j.cell]["tmp"].by = j.by
    BY <1>1, <1>4 DEF WriteTmp, Clean, Handled
  <2>3. /\ \A c \in Cells : files'[c]["path"] = files[c]["path"]
        /\ \A c \in Cells \ {j.cell} : files'[c] = files[c]
        /\ files'[j.cell]["tmp"].body = "whole"
        /\ files'[j.cell]["tmp"].by = j.by
    BY <1>1, <1>4, <2>2, FilesFilled DEF WriteTmp
  <2> QED
    BY <1>1, <1>4, <2>1, <2>3, WorkClean DEF WriteTmp
<1> QED
  BY <1>2, <1>3, <1>4

\* A rename moves a whole manifest to a path nobody has written, and the
\* launch counts it.
LEMMA RenameClean ==
    ASSUME GridTypeOK, Clean, NEW w \in Workers, Rename(w)
    PROVE  Clean'
<1>1. PICK c \in Cells :
        /\ c = jobs[w].cell /\ jobs[w] \in JobRecord /\ jobs[w].pc = "rename"
        /\ files \in [Cells -> [Names -> File]]
  BY JobType DEF Rename, GridTypeOK
<1>2. /\ files' = FilesRenamed(c) /\ orphans' = {Followed(j, c) : j \in orphans}
      /\ launches' = launches /\ returned' = returned
      /\ \A v \in Workers : jobs'[v] = IF v = w THEN Idle ELSE Followed(jobs[v], c)
  BY <1>1 DEF Rename
<1>3. /\ launch'.alive = launch.alive /\ launch'.id = launch.id
      /\ launch'.cells = launch.cells /\ launch'.queue = launch.queue
      /\ launch'.due = launch.due \ {c} /\ launch'.ran = launch.ran + 1
  BY <1>1 DEF Rename, GridTypeOK, Launch
<1>4. /\ launch.alive /\ c \in launch.due \ launch.queue /\ ~HasManifest(c)
      /\ launch.id = launches /\ launch.id # 0 /\ launch.due \subseteq launch.cells
      /\ launch.queue \subseteq launch.due
      /\ files[c]["tmp"].body = "whole" /\ files[c]["tmp"].by = launch.id
      /\ \A v \in Workers : jobs[v].pc # "idle" /\ jobs[v].cell = c => v = w
  BY <1>1 DEF Clean, Owned, Books, Handled
<1>5. /\ \A a \in Cells \ {c} : files'[a] = files[a]
      /\ files'[c]["path"] = files[c]["tmp"]
  BY <1>1, <1>2, FilesKept
<1>6. /\ HasManifest(c)' /\ files[c]["path"].by = 0
      /\ \A a \in Cells \ {c} : HasManifest(a)' <=> HasManifest(a)
  BY <1>4, <1>5 DEF HasManifest, Absent
<1>7. \A v \in Workers \ {w} : jobs[v].pc # "idle" \/ jobs'[v].pc # "idle" =>
        jobs'[v] = jobs[v] /\ jobs[v].cell \in Cells \ {c}
  <2> SUFFICES ASSUME NEW v \in Workers \ {w},
                      jobs[v].pc # "idle" \/ jobs'[v].pc # "idle"
               PROVE  jobs'[v] = jobs[v] /\ jobs[v].cell \in Cells \ {c}
    OBVIOUS
  <2>1. jobs[v] \in JobRecord /\ jobs'[v] = Followed(jobs[v], c)
    BY <1>2 DEF GridTypeOK
  <2>2. \A j \in JobRecord : /\ Followed(j, c).pc = j.pc
                             /\ j.cell # c => Followed(j, c) = j
    BY JobKeeps
  <2>3. jobs[v].pc # "idle"
    BY <2>1, <2>2
  <2>4. jobs[v].cell # c
    BY <1>4, <2>3
  <2>5. jobs[v].cell \in Cells
    BY <2>3, JobType DEF GridTypeOK
  <2> QED
    BY <2>1, <2>2, <2>4, <2>5
<1>8. jobs'[w].pc = "idle"
  BY <1>2, JobType
<1>9. launches \in Nat /\ launch.cells \subseteq Cells /\ returned.cells \subseteq Cells
  BY DEF GridTypeOK, Launch
<1>10. Written'
  BY <1>2, <1>4, <1>5, <1>6, <1>9 DEF Clean, Written, HasManifest
<1>11. Books'
  <2> DEFINE R == {a \in launch.cells : files[a]["path"].by = launch.id}
  <2> DEFINE S == {a \in launch'.cells : files'[a]["path"].by = launch'.id}
  <2>1. S = R \cup {c} /\ c \notin R
    BY <1>3, <1>4, <1>5, <1>6, <1>9
  <2>2. IsFiniteSet(R)
    <3>1. IsFiniteSet(Cells) /\ R \subseteq Cells
      BY <1>9, GridAssumption
    <3> HIDE DEF R
    <3> QED
      BY <3>1, FS_Subset
  <2>3. launch.ran = Cardinality(R)
    BY <1>4 DEF Clean, Books
  <2>4. Cardinality(S) = launch.ran + 1
    <3> HIDE DEF R, S
    <3> QED
      BY <2>1, <2>2, <2>3, FS_AddElement
  <2>5. \A a \in launch'.cells \ launch'.due : HasManifest(a)'
    BY <1>3, <1>4, <1>6, <1>9 DEF Clean, Books
  <2> QED
    BY <1>2, <1>3, <1>4, <2>4, <2>5 DEF Books
<1>12. Owned'
  <2> SUFFICES ASSUME NEW v \in Workers, jobs'[v].pc # "idle"
               PROVE  /\ jobs'[v].by = launch.id
                      /\ jobs'[v].cell \in launch'.due \ launch'.queue
                      /\ files'[jobs'[v].cell]["path"] = Absent
                      /\ \A u \in Workers :
                           jobs'[u].pc # "idle" /\ jobs'[u].cell = jobs'[v].cell
                             => u = v
    BY <1>3, <1>4 DEF Owned, HasManifest
  <2>1. v # w /\ jobs'[v] = jobs[v] /\ jobs[v].cell \in Cells \ {c}
    BY <1>7, <1>8
  <2>2. \A u \in Workers : jobs'[u].pc # "idle" => jobs'[u] = jobs[u]
    BY <1>7, <1>8
  <2> QED
    BY <1>3, <1>5, <2>1, <2>2 DEF Clean, Owned, HasManifest
<1>13. Handled'
  <2>1. \A v \in Workers : jobs'[v].pc # "idle" =>
          /\ jobs'[v] = jobs[v]
          /\ files'[jobs[v].cell] = files[jobs[v].cell]
    BY <1>5, <1>7, <1>8
  <2> QED
    BY <1>3, <2>1 DEF Clean, Handled
<1>14. Reported'
  <2>1. CASE returned # Off
    <3>1. c \notin returned.cells /\ returned.id # launch.id
      BY <1>4, <2>1 DEF Clean, Reported, GridTypeOK, Launch
    <3>2. {a \in returned.cells : files'[a]["path"].by = returned.id} =
            {a \in returned.cells : files[a]["path"].by = returned.id}
      BY <1>5, <1>9, <3>1
    <3> QED
      BY <1>2, <1>3, <1>6, <1>9, <3>1, <3>2 DEF Clean, Reported
  <2> QED
    BY <1>2, <2>1 DEF Reported
<1> QED
  BY <1>2, <1>10, <1>11, <1>12, <1>13, <1>14 DEF Clean

\* A launch returns when nothing is due: its workers are idle and its cells
\* on disk.
LEMMA ReturnClean ==
    ASSUME GridTypeOK, Clean, Return PROVE Clean'
<1>1. /\ launch.alive /\ launch.due = {} /\ returned' = launch /\ launch' = Off
      /\ files' = files /\ jobs' = jobs /\ orphans' = orphans
      /\ launches' = launches
  BY DEF Return
<1>2. \A w \in Workers : jobs[w].pc = "idle"
  BY <1>1 DEF Clean, Owned
<1>3. launches \in Nat /\ ~launch'.alive
  BY <1>1, JobType DEF GridTypeOK
<1>4. Reported'
  BY <1>1, <1>3 DEF Clean, Books, Reported, HasManifest
<1> QED
  BY <1>1, <1>2, <1>3, <1>4 DEF Clean, Written, Books, Owned, Handled, HasManifest

\* A killed worker leaves its job undone, due and out of the queue.
LEMMA WorkerKilledClean ==
    ASSUME GridTypeOK, Clean, NEW w \in Workers, WorkerKilled(w)
    PROVE  Clean'
<1>1. /\ files' = files /\ orphans' = orphans /\ launches' = launches
      /\ returned' = returned /\ launch' = launch
      /\ jobs' = [jobs EXCEPT ![w] = Idle]
  BY DEF WorkerKilled, Fault
<1>2. \A v \in Workers : jobs'[v].pc # "idle" => jobs'[v] = jobs[v]
  BY <1>1, JobType DEF GridTypeOK
<1> QED
  BY <1>1, <1>2 DEF Clean, Written, Books, Owned, Handled, Reported, HasManifest

-----------------------------------------------------------------------------
\* Every step preserves the invariant: a step of an orphan is impossible
\* unless a launching process was killed alone.
LEMMA GridNext ==
    ASSUME GridInv, [Next]_gridVars PROVE GridInv'
<1>1. GridTypeOK'
  <2>1. CASE UNCHANGED gridVars
    BY <2>1 DEF gridVars, GridInv, GridTypeOK
  <2> QED
    BY <2>1, LaunchType, JobStepType, FaultType
       DEF GridInv, Next, WorkerStep, LaunchStep, JobStep, FaultStep
<1>2. ASSUME ~Orphaned' PROVE Clean'
  <2>1. ~Orphaned /\ Clean /\ GridTypeOK /\ orphans = {}
    BY <1>2 DEF GridInv, Orphaned, Clean, gridVars, Next, LaunchAny, Start,
         WorkerStep, Take, Simulate, OpenTmp, WriteTmp, Rename, RenameFails,
         OrphanStep, OrphanSimulates, OrphanOpens, OrphanWrites, OrphanRenames,
         Return, MachineStops, WorkerKilled, SimulationRaises, OrphanRaises,
         MainKilled, Interrupt, Fault
  <2>2. CASE UNCHANGED gridVars
    BY <2>1, <2>2 DEF gridVars, Clean, Written, Books, Owned, Handled, Reported,
         HasManifest
  <2>3. CASE LaunchAny
    BY <2>1, <2>3, StartClean DEF LaunchAny
  <2>4. ASSUME NEW w \in Workers, WorkerStep(w) PROVE Clean'
    <3>1. CASE RenameFails(w)
      BY <2>1, <3>1, TerminatedClean DEF RenameFails
    <3> QED
      BY <2>1, <2>4, <3>1, TakeClean, JobWorkClean, RenameClean DEF WorkerStep
  <2>5. CASE Return
    BY <2>1, <2>5, ReturnClean
  <2>6. CASE MachineStops
    BY <2>1, <2>6, TerminatedClean DEF MachineStops, Fault
  <2>7. ASSUME NEW w \in Workers, WorkerKilled(w) \/ SimulationRaises(w)
        PROVE  Clean'
    BY <2>1, <2>7, WorkerKilledClean, TerminatedClean DEF SimulationRaises, Fault
  <2>8. CASE Interrupt
    BY <2>1, <2>8, TerminatedClean DEF Interrupt
  <2>9. ~MainKilled
    BY <1>2 DEF MainKilled, Fault, Orphaned
  <2> QED
    BY <2>1, <2>2, <2>3, <2>4, <2>5, <2>6, <2>7, <2>8, <2>9 DEF Next, OrphanStep
<1> QED
  BY <1>1, <1>2 DEF GridInv

\* The invariant of the grid runner holds, for every grid, pool and launches.
THEOREM GridInvHolds == Spec => []GridInv
<1>1. ASSUME Init PROVE GridInv
  <2>1. \A w \in Workers : jobs[w] = Idle
    BY <1>1 DEF Init
  <2>2. GridTypeOK
    BY <1>1, <2>1, JobType DEF Init, GridTypeOK
  <2>3. \A c \in Cells : files[c]["path"] = Absent /\ Absent.by = 0
    BY <1>1 DEF Init, Names, Absent
  <2> QED
    BY <1>1, <2>1, <2>2, <2>3, JobType DEF Init, GridInv, Clean, Written, Books,
       Owned, Handled, Reported, HasManifest
<1>2. GridInv /\ [Next]_gridVars => GridInv'
  BY GridNext
<1> QED
  BY <1>1, <1>2, PTL DEF Spec

\* A final path never holds a half-written manifest, however launches and
\* workers are interrupted (NoHalfFile): a rename finds the temporary file
\* its own worker wrote, since nobody else is at work on the cell.
THEOREM NoHalfFileHolds == Spec => []NoHalfFile
<1>1. GridInv => NoHalfFile
  BY DEF GridInv, Clean, Written, NoHalfFile, AllWhole
<1> QED
  BY <1>1, GridInvHolds, PTL

\* What run_grid returned is true ever after (ReturnedTrue): every cell it was
\* asked for has a whole manifest, and the number it reports as run is the
\* number it wrote.
THEOREM ReturnedHolds == Spec => []ReturnedTrue
<1>1. GridInv => ReturnedTrue
  BY DEF GridInv, GridTypeOK, Launch, Clean, Written, Reported, ReturnedTrue
<1> QED
  BY <1>1, GridInvHolds, PTL

\* A manifest is never overwritten (NeverOverwritten): only a rename writes a
\* final path, and the cell of a job in hand has no manifest.
THEOREM OverwriteHolds == Spec => NeverOverwritten
<1>1. ASSUME GridInv, Next, ~Orphaned, NEW a \in Cells, HasManifest(a)
      PROVE  files'[a]["path"] = files[a]["path"]
  <2>1. Clean /\ GridTypeOK /\ orphans = {}
    BY <1>1 DEF GridInv, Clean
  <2>2. ASSUME NEW w \in Workers, JobStep(w)
        PROVE  files'[a]["path"] = files[a]["path"]
    <3> DEFINE j == jobs[w]
    <3>1. CASE OpenTmp(w) \/ WriteTmp(w) \/ Rename(w)
      <4>1. /\ j \in JobRecord /\ j.cell \in Cells /\ ~HasManifest(j.cell)
            /\ files \in [Cells -> [Names -> File]] /\ j.by = launch.id
        BY <2>1, <3>1, JobType
           DEF OpenTmp, WriteTmp, Rename, GridTypeOK, Clean, Owned
      <4>2. CASE OpenTmp(w)
        BY <4>1, <4>2, FilesKept DEF OpenTmp
      <4>3. CASE WriteTmp(w)
        <5>1. /\ j.at = "tmp" /\ files[j.cell]["tmp"].body = "half"
              /\ files[j.cell]["tmp"].by = j.by
          BY <2>1, <4>1, <4>3 DEF WriteTmp, Clean, Handled
        <5> QED
          BY <4>1, <4>3, <5>1, FilesFilled DEF WriteTmp
      <4>4. CASE Rename(w)
        BY <1>1, <4>1, <4>4, FilesKept DEF Rename
      <4> QED
        BY <3>1, <4>2, <4>3, <4>4
    <3> QED
      BY <2>2, <3>1 DEF JobStep, Simulate, RenameFails
  <2> QED
    BY <1>1, <2>1, <2>2 DEF Next, LaunchAny, Start, WorkerStep, JobStep, Take,
       OrphanStep, Return, MachineStops, WorkerKilled, SimulationRaises,
       OrphanRaises, MainKilled, Interrupt, Fault
<1>2. GridInv /\ [Next]_gridVars =>
        [~Orphaned => \A c \in Cells :
           HasManifest(c) => files'[c]["path"] = files[c]["path"]]_gridVars
  BY <1>1
<1> QED
  BY <1>2, GridInvHolds, PTL DEF Spec, NeverOverwritten
=============================================================================
