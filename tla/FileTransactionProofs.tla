----------------------- MODULE FileTransactionProofs -----------------------
(***************************************************************************)
(* Proofs about FileTransaction, for any number of processes, any files,   *)
(* commands, checkouts and hand edits.  The invariant TransactionInv says  *)
(* of every process what it knows in each phase (Shaped), how far the      *)
(* files nobody else changed are from what they were when they were checked *)
(* (Tracked), and that a process nobody disturbed has read one state of the *)
(* checkout (Fresh) and has made the directories that it removes (Clean).  *)
(***************************************************************************)
EXTENDS FileTransaction, TLAPS

Content == Values \cup {Absent}

\* The contents of the files in S: of the configuration, digests.
Typed(fs, S) ==
    /\ DOMAIN fs = S
    /\ \A f \in S : IF f = Config THEN fs[f] \in Store ELSE fs[f] \in Content
FilesIn(fs, S) == fs = [f \in S |-> fs[f]] /\ Typed(fs, S)

Fields == {"pc", "outcome", "runs", "cmd", "config", "snapshot", "head",
           "observed", "writes", "todo", "originals", "created", "failed",
           "before", "dirsBefore"}

\* The phases in which the stores, the expectations and the replacements are
\* known.
Loaded == Phases \ {"idle", "started"}
Observed == {"observed", "validated", "staged"} \cup Applying
Planned == {"staged"} \cup Applying

\* What a process has in each phase.
Shaped(j) ==
    /\ DOMAIN j = Fields
    /\ j.pc \in Phases
    /\ j.outcome \in Outcomes
    /\ j.todo \subseteq Files
    /\ j.pc # "idle" => j.cmd \in Commands /\ j.config \in Store
    /\ j.pc \in Phases \ ({"idle"} \cup Applying) =>
         j.originals = <<>> /\ j.created = <<>> /\ j.failed = FALSE
    /\ j.pc \in Loaded => j.snapshot \in Store
    /\ j.pc \in Observed => FilesIn(j.observed, Files)
    /\ j.pc \in Planned =>
         /\ Config \in DOMAIN j.writes
         /\ DOMAIN j.writes \subseteq Files
         /\ Typed(j.writes, DOMAIN j.writes)
    /\ j.pc \in {"checking", "writing", "undoing"} =>
         j.todo # {} /\ j.todo \subseteq DOMAIN j.writes
    /\ j.pc = "written" => j.todo = {}
    /\ j.pc = "checking" => Typed(j.originals, DOMAIN j.writes \ j.todo)
    /\ j.pc \in {"writing", "written", "undoing", "cleaning"} =>
         Typed(j.originals, DOMAIN j.writes)
    /\ j.pc = "cleaning" => j.todo = {}

\* The directories a rollback removes.
New(j) == UNION {j.created[f] : f \in DOMAIN j.created}

\* What a file had when it was checked, or when the transaction began.
Kept(j, f) == IF f \in DOMAIN j.writes THEN j.observed[f] ELSE j.before[f]

\* How far a transaction has come with the files outside lt, which nobody
\* else has changed since their checks.
Tracked(j, fs, lt) ==
    /\ j.pc \in {"checking", "writing", "written"} => j.failed = FALSE
    /\ j.pc \in Applying => FilesIn(j.before, Files)
    /\ j.pc = "checking" =>
         /\ DOMAIN j.created = DOMAIN j.writes \ j.todo
         /\ \A f \in DOMAIN j.writes \ j.todo : j.originals[f] = j.observed[f]
         /\ \A f \in Files \ lt : fs[f] = IF f \in DOMAIN j.writes \ j.todo
                                          THEN j.observed[f] ELSE j.before[f]
    /\ j.pc \in {"writing", "written", "undoing", "cleaning"} =>
         \A f \in DOMAIN j.writes : j.originals[f] = j.observed[f]
    /\ j.pc \in {"writing", "written"} =>
         /\ DOMAIN j.created = DOMAIN j.writes
         /\ \A f \in Files \ lt : fs[f] = IF f \in DOMAIN j.writes \ j.todo
                                          THEN j.writes[f] ELSE Kept(j, f)
    /\ j.pc = "undoing" =>
         \A f \in j.todo \ lt : fs[f] \in {j.writes[f], j.observed[f]}
    /\ j.pc \in {"undoing", "cleaning"} /\ ~j.failed =>
         \A f \in Files \ (j.todo \cup lt) : fs[f] = Kept(j, f)

\* What an undisturbed transaction has done to the directories.
Clean(j, ds, lt) ==
    /\ j.pc \in Applying => lt = {}
    /\ j.pc = "checking" =>
         /\ ds = j.dirsBefore
         /\ \A f \in DOMAIN j.writes \ j.todo : j.created[f] = {Dir[f]} \ j.dirsBefore
    /\ j.pc \in {"writing", "written"} =>
         /\ ds = j.dirsBefore \cup {Dir[f] : f \in DOMAIN j.writes \ j.todo}
         /\ \A f \in DOMAIN j.writes : j.created[f] = {Dir[f]} \ j.dirsBefore
    /\ j.pc \in {"undoing", "cleaning"} =>
         /\ j.dirsBefore \subseteq ds
         /\ ds \subseteq j.dirsBefore \cup New(j)
         /\ New(j) \cap j.dirsBefore = {}

\* What a process knows of the checkout that nobody else changes.
Fresh(j, fs) ==
    /\ j.pc \in Phases \ ({"idle"} \cup Applying) => j.config = fs[Config]
    /\ j.pc \in Loaded \ Applying => j.snapshot = Stores(fs)
    /\ j.pc \in {"validated", "staged"} => Valid(fs)
    /\ j.pc \in Applying =>
         /\ j.config = j.before[Config]
         /\ j.snapshot = Stores(j.before)
         /\ Valid(j.before)
    /\ j.pc = "checking" => fs = j.before
    /\ j.pc = "writing" => \A f \in j.todo : fs[f] = j.before[f]

Good(p) ==
    /\ Shaped(job[p])
    /\ Tracked(job[p], files, late[p])
    /\ job[p].pc \notin Applying => late[p] = {}
    /\ p \in alone => Fresh(job[p], files) /\ Clean(job[p], dirs, late[p])

\* The inductive invariant.
TransactionInv ==
    /\ FilesIn(files, Files)
    /\ dirs \subseteq Dirs
    /\ head \in 0..MaxHead
    /\ alone \subseteq Procs
    /\ DOMAIN job = Procs
    /\ \A p \in Procs : late[p] \subseteq Files
    /\ \A p \in Procs : Good(p)

-----------------------------------------------------------------------------
(* Lemmas about the operators.                                             *)

\* The first and the last of a set of files are files of the set.
LEMMA FirstAndLast ==
    ASSUME NEW S, S \subseteq Files, S # {}
    PROVE  First(S) \in S /\ Last(S) \in S
  <1>1. PICK f \in S, l \in S :
            \A g \in S : Rank[f] <= Rank[g] /\ Rank[g] <= Rank[l]
    BY FileAssumption
  <1> QED
    BY <1>1 DEF First, Last

\* The stores of a checkout are stores, and a checkout of Git is one.
LEMMA CheckoutsAreFiles ==
    /\ \A fs : FilesIn(fs, Files) => fs[Config] \in Store /\ Stores(fs) \in Store
    /\ \A s \in Store : FilesIn(Project(s), Files) /\ DirsOf(s) \subseteq Dirs
  <1>1. ASSUME NEW fs, FilesIn(fs, Files)
        PROVE  fs[Config] \in Store /\ Stores(fs) \in Store
    BY <1>1, FileAssumption DEF FilesIn, Typed, Files, Store, Stores, Content
  <1>2. ASSUME NEW s \in Store
        PROVE  FilesIn(Project(s), Files) /\ DirsOf(s) \subseteq Dirs
    BY <1>2, FileAssumption DEF FilesIn, Typed, Files, Store, Project, Content, DirsOf
  <1> QED
    BY <1>1, <1>2

\* A checkout in which one file is replaced.
LEMMA ReplacedIsFiles ==
    ASSUME NEW fs, FilesIn(fs, Files), NEW f \in Files, NEW v,
           IF f = Config THEN v \in Store ELSE v \in Content
    PROVE  FilesIn([fs EXCEPT ![f] = v], Files)
  BY DEF FilesIn, Typed

\* The files that no check protects stay files, and of a process they are
\* those it had but for the one it has just checked.
Unchecked(p) ==
    late[p] \ (IF job[p].pc = "checking" THEN {First(job[p].todo)} ELSE {})

LEMMA LateFiles ==
    ASSUME TransactionInv, Watch
    PROVE  \A p \in Procs :
             /\ late'[p] \subseteq Files
             /\ job'[p].pc \notin Applying => late'[p] = {}
             /\ job'[p].pc \in Applying /\ job'[p] # job[p] => late'[p] = Unchecked(p)
             /\ job'[p].pc \in Applying /\ job'[p] = job[p] =>
                  late'[p] = late[p] \cup {f \in Files : files'[f] # files[f]}
  BY DEF TransactionInv, Watch, Unchecked

\* A process that a step leaves alone keeps what it has.
LEMMA Bystander ==
    ASSUME TransactionInv, Watch, NEW q \in Procs, job'[q] = job[q]
    PROVE  Good(q)'
  <1>0. Shaped(job[q]) /\ Tracked(job[q], files, late[q])
        /\ (q \in alone => Fresh(job[q], files) /\ Clean(job[q], dirs, late[q]))
    BY DEF TransactionInv, Good
  <1>1. CASE job[q].pc \notin Applying
    <2>1. Tracked(job'[q], files', late'[q]) /\ Clean(job'[q], dirs', late'[q])
      BY <1>1 DEF Tracked, Clean, Applying
    <2>2. q \in alone' => Fresh(job'[q], files')
      BY <1>0, <1>1 DEF Watch, Fresh, Loaded, Applying
    <2>3. late'[q] = {}
      BY <1>1, LateFiles
    <2> QED
      BY <1>0, <2>1, <2>2, <2>3 DEF Good
  <1>2. CASE job[q].pc \in Applying
    <2> DEFINE j == job[q]
               lt == late'[q]
    <2>1. lt = late[q] \cup {f \in Files : files'[f] # files[f]}
      BY <1>2, LateFiles
    <2>2. \A f \in Files \ lt : f \notin late[q] /\ files'[f] = files[f]
      BY <2>1
    <2>3. j.pc \in {"checking", "undoing"} => j.todo \subseteq Files
      BY <1>0 DEF Shaped
    <2>4. q \in alone' => q \in alone /\ files' = files /\ dirs' = dirs
      BY <1>2 DEF Watch, Applying
    <2>5. q \in alone' => lt = late[q]
      BY <2>1, <2>4
    <2> HIDE DEF lt
    <2>6. Tracked(j, files', lt)
      BY <1>0, <2>2, <2>3 DEF Tracked
    <2>7. q \in alone' => Fresh(j, files') /\ Clean(j, dirs', lt)
      BY <1>0, <2>4, <2>5
    <2> QED
      BY <1>0, <1>2, <2>6, <2>7 DEF Good, lt
  <1> QED
    BY <1>1, <1>2

\* A step of a process preserves the invariant when it does so for that
\* process and leaves the others as they are.
LEMMA OwnStep ==
    ASSUME TransactionInv, Watch, NEW p \in Procs,
           FilesIn(files', Files), dirs' \subseteq Dirs, head' = head,
           DOMAIN job' = Procs, \A q \in Procs \ {p} : job'[q] = job[q],
           Shaped(job'[p]),
           job'[p].pc \in Applying =>
             /\ job'[p] # job[p]
             /\ Tracked(job'[p], files', Unchecked(p))
             /\ p \in alone => Clean(job'[p], dirs', Unchecked(p)),
           p \in alone => Fresh(job'[p], files')
    PROVE  TransactionInv'
  <1>1. alone' \subseteq Procs /\ \A q \in Procs : late'[q] \subseteq Files
    BY LateFiles DEF Watch
  <1>2. ASSUME NEW q \in Procs PROVE Good(q)'
    <2>1. CASE q = p
      <3>1. ASSUME p \in alone' PROVE Fresh(job'[p], files')
        <4>1. CASE job'[p].pc = "idle"
          BY <4>1 DEF Fresh, Loaded, Applying
        <4> QED
          BY <3>1, <4>1 DEF Watch
      <3>2. CASE job'[p].pc \notin Applying
        <4>1. Tracked(job'[p], files', late'[p]) /\ Clean(job'[p], dirs', late'[p])
          BY <3>2 DEF Tracked, Clean, Applying
        <4>2. late'[p] = {}
          BY <3>2, LateFiles
        <4> QED
          BY <2>1, <3>1, <4>1, <4>2 DEF Good
      <3>3. CASE job'[p].pc \in Applying
        <4>1. late'[p] = Unchecked(p)
          BY <3>3, LateFiles
        <4>2. p \in alone' => p \in alone
          BY <3>3 DEF Watch, Applying
        <4> QED
          BY <2>1, <3>1, <3>3, <4>1, <4>2 DEF Good
      <3> QED
        BY <3>2, <3>3
    <2>2. CASE q # p
      BY <2>2, Bystander
    <2> QED
      BY <2>1, <2>2
  <1> QED
    BY <1>1, <1>2 DEF TransactionInv

-----------------------------------------------------------------------------
(* Preparing.                                                              *)

\* A process that gives up or dies before its first replacement, or dies
\* later, is idle and the checkout is as it was.
LEMMA EndsStep ==
    ASSUME TransactionInv, Watch, NEW p \in Procs,
           NEW o \in Outcomes, Return(p, o), files' = files, dirs' \subseteq Dirs,
           head' = head
    PROVE  TransactionInv'
  <1>0. Shaped(job[p]) /\ DOMAIN job = Procs
    BY DEF TransactionInv, Good
  <1>1. /\ DOMAIN job' = Procs
        /\ \A q \in Procs \ {p} : job'[q] = job[q]
        /\ DOMAIN job'[p] = Fields
        /\ job'[p].pc = "idle"
        /\ job'[p].outcome = o
        /\ job'[p].todo = {}
    BY <1>0 DEF Return, Fields, NoJob
  <1>2. Shaped(job'[p])
    BY <1>1 DEF Shaped, Phases, Loaded, Observed, Planned, Applying
  <1>3. job'[p].pc \notin Applying /\ Fresh(job'[p], files')
    BY <1>1 DEF Fresh, Loaded, Applying
  <1> QED
    BY <1>1, <1>2, <1>3, OwnStep DEF TransactionInv

\* Start: the first step of a command reads only.
LEMMA StartStep ==
    ASSUME TransactionInv, Watch, NEW p \in Procs,
           NEW c \in Commands, Start(p, c)
    PROVE  TransactionInv'
  <1>0. Shaped(job[p]) /\ DOMAIN job = Procs
    BY DEF TransactionInv, Good
  <1>1. /\ DOMAIN job' = Procs
        /\ \A q \in Procs \ {p} : job'[q] = job[q]
        /\ DOMAIN job'[p] = Fields
        /\ job'[p].pc = "started"
        /\ job'[p].outcome = "none"
        /\ job'[p].cmd = c
        /\ job'[p].config = files[Config]
        /\ job'[p].todo = {}
        /\ job'[p].originals = <<>>
        /\ job'[p].created = <<>>
        /\ job'[p].failed = FALSE
    BY <1>0 DEF Shaped, Start, Fields, NoJob
  <1>2. files[Config] \in Store
    BY CheckoutsAreFiles DEF TransactionInv
  <1>3. Shaped(job'[p])
    BY <1>1, <1>2 DEF Shaped, Phases, Outcomes, Loaded, Observed, Planned, Applying
  <1>4. job'[p].pc \notin Applying /\ Fresh(job'[p], files')
    BY <1>1 DEF Fresh, Loaded, Applying, Start
  <1> QED
    BY <1>1, <1>3, <1>4, OwnStep DEF TransactionInv, Start

\* The reads that come before the candidate is validated.
LEMMA ReadStep ==
    ASSUME TransactionInv, Watch, NEW p \in Procs,
           Load(p) \/ currentCommit(p) \/ observeSnapshot(p)
    PROVE  TransactionInv'
  <1>0. Shaped(job[p]) /\ DOMAIN job = Procs /\ FilesIn(files, Files)
        /\ (p \in alone => Fresh(job[p], files))
    BY DEF TransactionInv, Good
  <1>1. /\ DOMAIN job' = Procs
        /\ \A q \in Procs \ {p} : job'[q] = job[q]
        /\ DOMAIN job'[p] = Fields
        /\ job'[p].outcome = job[p].outcome
        /\ job'[p].cmd = job[p].cmd
        /\ job'[p].config = job[p].config
        /\ job'[p].todo = job[p].todo
        /\ job'[p].originals = job[p].originals
        /\ job'[p].created = job[p].created
        /\ job'[p].failed = job[p].failed
        /\ UNCHANGED <<files, dirs, head>>
    BY <1>0 DEF Shaped, Load, currentCommit, observeSnapshot, Fields
  <1>2. CASE Load(p)
    <2>1. /\ job[p].pc = "started"
          /\ job'[p].pc = "loaded"
          /\ job'[p].snapshot = Stores(files)
      BY <1>0, <1>2 DEF Shaped, Load, Fields
    <2>2. Stores(files) \in Store
      BY <1>0, CheckoutsAreFiles
    <2>3. Shaped(job'[p])
      BY <1>0, <1>1, <2>1, <2>2 DEF Shaped, Phases, Loaded, Observed, Planned, Applying
    <2>4. job'[p].pc \notin Applying
      BY <2>1 DEF Applying
    <2>5. p \in alone => Fresh(job'[p], files')
      BY <1>0, <1>1, <2>1 DEF Fresh, Phases, Loaded, Applying
    <2> QED
      BY <1>1, <2>3, <2>4, <2>5, OwnStep DEF TransactionInv
  <1>3. CASE currentCommit(p)
    <2>1. /\ job[p].pc = "loaded"
          /\ job'[p].pc = "read-head"
          /\ job'[p].snapshot = job[p].snapshot
      BY <1>0, <1>3 DEF Shaped, currentCommit, Fields
    <2>3. Shaped(job'[p])
      BY <1>0, <1>1, <2>1 DEF Shaped, Phases, Loaded, Observed, Planned, Applying
    <2>4. job'[p].pc \notin Applying
      BY <2>1 DEF Applying
    <2>5. p \in alone => Fresh(job'[p], files')
      BY <1>0, <1>1, <2>1 DEF Fresh, Phases, Loaded, Applying
    <2> QED
      BY <1>1, <2>3, <2>4, <2>5, OwnStep DEF TransactionInv
  <1>4. CASE observeSnapshot(p)
    <2>1. /\ job[p].pc = "read-head"
          /\ job'[p].pc = "observed"
          /\ job'[p].snapshot = job[p].snapshot
          /\ job'[p].observed =
               [f \in Files |-> IF f = Config THEN files[f]
                                ELSE IF job[p].snapshot[f] # Absent THEN files[f]
                                ELSE Absent]
      BY <1>0, <1>4 DEF Shaped, observeSnapshot, Fields
    <2>2. FilesIn(job'[p].observed, Files)
      BY <1>0, <2>1 DEF FilesIn, Typed, Content
    <2>3. Shaped(job'[p])
      BY <1>0, <1>1, <2>1, <2>2 DEF Shaped, Phases, Loaded, Observed, Planned, Applying
    <2>4. job'[p].pc \notin Applying
      BY <2>1 DEF Applying
    <2>5. p \in alone => Fresh(job'[p], files')
      BY <1>0, <1>1, <2>1 DEF Fresh, Phases, Loaded, Applying
    <2> QED
      BY <1>1, <2>3, <2>4, <2>5, OwnStep DEF TransactionInv
  <1> QED
    BY <1>2, <1>3, <1>4

\* validateCandidate: an undisturbed command goes on only over valid stores.
LEMMA ValidateStep ==
    ASSUME TransactionInv, Watch, NEW p \in Procs,
           validateCandidate(p)
    PROVE  TransactionInv'
  <1>0. Shaped(job[p]) /\ DOMAIN job = Procs /\ FilesIn(files, Files)
        /\ (p \in alone => Fresh(job[p], files))
    BY DEF TransactionInv, Good
  <1>1. CASE Refuse(p)
    BY <1>1, EndsStep DEF Refuse, Outcomes, TransactionInv
  <1>2. CASE ~Refuse(p)
    <2>1. /\ DOMAIN job' = Procs
          /\ \A q \in Procs \ {p} : job'[q] = job[q]
          /\ DOMAIN job'[p] = Fields
          /\ job[p].pc = "observed"
          /\ job'[p].pc = "validated"
          /\ job'[p].outcome = job[p].outcome
          /\ job'[p].cmd = job[p].cmd
          /\ job'[p].config = job[p].config
          /\ job'[p].snapshot = job[p].snapshot
          /\ job'[p].observed = job[p].observed
          /\ job'[p].todo = job[p].todo
          /\ job'[p].originals = job[p].originals
          /\ job'[p].created = job[p].created
          /\ job'[p].failed = job[p].failed
          /\ UNCHANGED <<files, dirs, head>>
          /\ Stores(files) = job[p].config
      BY <1>0, <1>2 DEF Shaped, validateCandidate, validateStoreIntegrity, Fields
    <2>3. Shaped(job'[p])
      BY <1>0, <2>1 DEF Shaped, Phases, Loaded, Observed, Planned, Applying
    <2>4. job'[p].pc \notin Applying
      BY <2>1 DEF Applying
    <2>5. p \in alone => Fresh(job'[p], files')
      BY <1>0, <2>1 DEF Fresh, Phases, Loaded, Applying, Valid
    <2> QED
      BY <2>1, <2>3, <2>4, <2>5, OwnStep DEF TransactionInv
  <1> QED
    BY <1>1, <1>2

\* addConfigWrite: the plan is made of the replacements and the digests.
LEMMA StageStep ==
    ASSUME TransactionInv, Watch, NEW p \in Procs,
           addConfigWrite(p)
    PROVE  TransactionInv'
  <1>0. Shaped(job[p]) /\ DOMAIN job = Procs /\ FilesIn(files, Files)
        /\ (p \in alone => Fresh(job[p], files))
    BY DEF TransactionInv, Good
  <1>1. CASE Refuse(p)
    BY <1>1, EndsStep DEF Refuse, Outcomes, TransactionInv
  <1>2. CASE ~Refuse(p)
    <2> DEFINE w == job[p].cmd.writes
    <2>1. /\ DOMAIN job' = Procs
          /\ \A q \in Procs \ {p} : job'[q] = job[q]
          /\ DOMAIN job'[p] = Fields
          /\ job[p].pc = "validated"
          /\ job'[p].pc = "staged"
          /\ job'[p].outcome = job[p].outcome
          /\ job'[p].cmd = job[p].cmd
          /\ job'[p].config = job[p].config
          /\ job'[p].snapshot = job[p].snapshot
          /\ job'[p].observed = job[p].observed
          /\ job'[p].writes = [f \in DOMAIN w \cup {Config} |->
                                 IF f = Config THEN Staged(w) ELSE w[f]]
          /\ job'[p].todo = job[p].todo
          /\ job'[p].originals = job[p].originals
          /\ job'[p].created = job[p].created
          /\ job'[p].failed = job[p].failed
          /\ UNCHANGED <<files, dirs, head>>
      BY <1>0, <1>2 DEF Shaped, addConfigWrite, Fields
    <2>2. job[p].cmd \in Command
      BY <1>0, <2>1, FileAssumption DEF Shaped
    <2>3. DOMAIN w \subseteq Records /\ \A r \in DOMAIN w : w[r] \in Content
      BY <2>2 DEF Command, Content
    <2>4. Staged(w) \in Store
      BY <1>0, <2>3, FileAssumption DEF Staged, Store, FilesIn, Typed, Files, Content
    <2>5. /\ Config \in DOMAIN job'[p].writes
          /\ DOMAIN job'[p].writes \subseteq Files
          /\ Typed(job'[p].writes, DOMAIN job'[p].writes)
      BY <2>1, <2>3, <2>4 DEF Typed, Files
    <2>6. Shaped(job'[p])
      BY <1>0, <2>1, <2>5 DEF Shaped, Phases, Loaded, Observed, Planned, Applying
    <2>7. job'[p].pc \notin Applying
      BY <2>1 DEF Applying
    <2>8. p \in alone => Fresh(job'[p], files')
      BY <1>0, <2>1 DEF Fresh, Phases, Loaded, Applying
    <2> QED
      BY <2>1, <2>6, <2>7, <2>8, OwnStep DEF TransactionInv
  <1> QED
    BY <1>1, <1>2

-----------------------------------------------------------------------------
(* Applying.                                                               *)

\* applyStateTransaction: nothing is replaced yet.
LEMMA ApplyStep ==
    ASSUME TransactionInv, Watch, NEW p \in Procs,
           applyStateTransaction(p)
    PROVE  TransactionInv'
  <1>0. Shaped(job[p]) /\ DOMAIN job = Procs /\ FilesIn(files, Files)
        /\ (p \in alone => Fresh(job[p], files)) /\ dirs \subseteq Dirs
    BY DEF TransactionInv, Good
  <1>1. CASE Refuse(p)
    BY <1>1, EndsStep DEF Refuse, Outcomes, TransactionInv
  <1>2. CASE ~Refuse(p)
    <2>1. /\ DOMAIN job' = Procs
          /\ \A q \in Procs \ {p} : job'[q] = job[q]
          /\ DOMAIN job'[p] = Fields
          /\ job[p].pc = "staged"
          /\ job'[p].pc = "checking"
          /\ job'[p].todo = DOMAIN job[p].writes
          /\ job'[p].before = files
          /\ job'[p].dirsBefore = dirs
          /\ job'[p].outcome = job[p].outcome
          /\ job'[p].cmd = job[p].cmd
          /\ job'[p].config = job[p].config
          /\ job'[p].snapshot = job[p].snapshot
          /\ job'[p].observed = job[p].observed
          /\ job'[p].writes = job[p].writes
          /\ job'[p].originals = job[p].originals
          /\ job'[p].created = job[p].created
          /\ job'[p].failed = job[p].failed
          /\ UNCHANGED <<files, dirs, head>>
      BY <1>0, <1>2 DEF Shaped, applyStateTransaction, Fields
    <2>2. DOMAIN job[p].originals = {} /\ DOMAIN job[p].created = {}
          /\ job[p].failed = FALSE
      BY <1>0, <2>1 DEF Shaped, Phases, Applying
    <2>3. Typed(job'[p].originals, DOMAIN job'[p].writes \ job'[p].todo)
      BY <2>1, <2>2 DEF Typed
    <2>4. Shaped(job'[p])
      BY <1>0, <2>1, <2>3 DEF Shaped, Phases, Loaded, Observed, Planned, Applying
    <2>5. Tracked(job'[p], files', Unchecked(p)) /\ job'[p] # job[p]
      BY <1>0, <2>1, <2>2 DEF Tracked, Applying
    <2>6. p \in alone => Fresh(job'[p], files')
      BY <1>0, <2>1 DEF Fresh, Phases, Loaded, Applying
    <2>7. late[p] = {} => Clean(job'[p], dirs', Unchecked(p))
      BY <2>1 DEF Clean, Unchecked
    <2>8. late[p] = {}
      BY <1>0, <2>1 DEF TransactionInv, Good, Applying
    <2> QED
      BY <1>0, <2>1, <2>4, <2>5, <2>6, <2>7, <2>8, OwnStep DEF TransactionInv
  <1> QED
    BY <1>1, <1>2

\* Check: when the last file compares equal, every file is as observed.
LEMMA CheckStep ==
    ASSUME TransactionInv, Watch, NEW p \in Procs,
           Check(p)
    PROVE  TransactionInv'
  <1>0. Shaped(job[p]) /\ DOMAIN job = Procs /\ FilesIn(files, Files)
        /\ Tracked(job[p], files, late[p])
        /\ (p \in alone => Fresh(job[p], files) /\ Clean(job[p], dirs, late[p]))
    BY DEF TransactionInv, Good
  <1>1. CASE Refuse(p)
    BY <1>1, EndsStep DEF Refuse, Outcomes, TransactionInv
  <1>2. CASE ~Refuse(p)
    <2> DEFINE j == job[p]
               f == First(j.todo)
               rest == j.todo \ {f}
    <2> DEFINE o == [g \in DOMAIN j.originals \cup {f} |->
                       IF g = f THEN files[f] ELSE j.originals[g]]
               c == [g \in DOMAIN j.created \cup {f} |->
                       IF g = f THEN {Dir[f]} \ dirs ELSE j.created[g]]
               t == IF rest = {} THEN DOMAIN j.writes ELSE rest
               n == IF rest = {} THEN "writing" ELSE "checking"
    <2>0. /\ j.pc = "checking"
          /\ files[f] = j.observed[f]
          /\ job' = [job EXCEPT ![p] = [j EXCEPT !.originals = o, !.created = c,
                                                 !.todo = t, !.pc = n]]
          /\ UNCHANGED <<files, dirs, head>>
      BY <1>0, <1>2 DEF Shaped, Check, Unchanged, Fields
    <2> HIDE DEF o, c, t, n
    <2>1. /\ DOMAIN job' = Procs
          /\ \A q \in Procs \ {p} : job'[q] = job[q]
          /\ DOMAIN job'[p] = Fields
          /\ job'[p].pc = n
          /\ job'[p].todo = t
          /\ job'[p].originals = o
          /\ job'[p].created = c
          /\ job'[p].outcome = j.outcome
          /\ job'[p].cmd = j.cmd
          /\ job'[p].config = j.config
          /\ job'[p].snapshot = j.snapshot
          /\ job'[p].observed = j.observed
          /\ job'[p].writes = j.writes
          /\ job'[p].failed = j.failed
          /\ job'[p].before = j.before
          /\ job'[p].dirsBefore = j.dirsBefore
      BY <1>0, <2>0 DEF Shaped, Fields
    <2> HIDE DEF j, f, rest
    <2>2. /\ j.todo # {}
          /\ j.todo \subseteq DOMAIN j.writes
          /\ Config \in DOMAIN j.writes
          /\ DOMAIN j.writes \subseteq Files
          /\ Typed(j.originals, DOMAIN j.writes \ j.todo)
      BY <1>0, <2>0 DEF Shaped, Planned, Applying, j
    <2>3. f \in j.todo /\ f \in Files
      BY <2>2, FirstAndLast DEF f
    <2>4. Typed(o, DOMAIN j.writes \ rest)
      BY <1>0, <2>2, <2>3 DEF Typed, FilesIn, o, rest
    <2>5. Shaped(job'[p])
      <3>1. CASE rest = {}
        <4>1. job'[p].pc = "writing" /\ job'[p].todo = DOMAIN j.writes
              /\ Typed(job'[p].originals, DOMAIN j.writes)
          BY <2>1, <2>4, <3>1 DEF n, t
        <4> QED
          BY <1>0, <2>0, <2>1, <2>2, <4>1
             DEF j, Shaped, Phases, Loaded, Observed, Planned, Applying
      <3>2. CASE rest # {}
        <4>1. job'[p].pc = "checking" /\ job'[p].todo = rest
              /\ rest \subseteq DOMAIN j.writes
          BY <2>1, <2>2, <3>2 DEF n, t, rest
        <4> QED
          BY <1>0, <2>0, <2>1, <2>2, <2>4, <3>2, <4>1
             DEF j, Shaped, Phases, Loaded, Observed, Planned, Applying
      <3> QED
        BY <3>1, <3>2
    <2>6. Unchecked(p) = late[p] \ {f}
      BY <2>0 DEF Unchecked, j, f
    <2> DEFINE lt == late[p] \ {f}
    <2>7. DOMAIN c = DOMAIN j.writes \ rest
      <3>1. DOMAIN j.created = DOMAIN j.writes \ j.todo
        BY <1>0, <2>0 DEF Tracked, j
      <3> QED
        BY <2>2, <2>3, <3>1 DEF c, rest
    <2>8. Tracked(job'[p], files', lt)
      <3>1. /\ FilesIn(j.before, Files)
            /\ j.failed = FALSE
            /\ \A g \in DOMAIN j.writes \ j.todo : j.originals[g] = j.observed[g]
            /\ \A g \in Files \ late[p] :
                 files[g] = IF g \in DOMAIN j.writes \ j.todo
                            THEN j.observed[g] ELSE j.before[g]
        BY <1>0, <2>0 DEF Tracked, Applying, j
      <3>2. \A g \in DOMAIN j.writes \ rest : o[g] = j.observed[g]
        BY <2>0, <2>2, <2>3, <3>1 DEF Typed, o, rest
      <3>3. \A g \in Files \ lt :
              files'[g] = IF g \in DOMAIN j.writes \ rest
                          THEN j.observed[g] ELSE j.before[g]
        BY <2>0, <2>2, <2>3, <3>1 DEF rest
      <3>4. CASE rest = {}
        <4>1. job'[p].pc = "writing" /\ job'[p].todo = DOMAIN j.writes
          BY <2>1, <3>4 DEF n, t
        <4>2. \A g \in Files \ lt : files'[g] = Kept(job'[p], g)
          BY <2>1, <3>3, <3>4 DEF Kept
        <4> HIDE DEF lt
        <4> QED
          BY <2>1, <2>7, <3>1, <3>2, <3>4, <4>1, <4>2 DEF Tracked, Applying
      <3>5. CASE rest # {}
        <4>1. job'[p].pc = "checking" /\ job'[p].todo = rest
          BY <2>1, <3>5 DEF n, t
        <4> HIDE DEF lt
        <4> QED
          BY <2>1, <2>7, <3>1, <3>2, <3>3, <4>1 DEF Tracked, Applying
      <3> QED
        BY <3>4, <3>5
    <2>9. ASSUME p \in alone PROVE Clean(job'[p], dirs', lt)
      <3>1. /\ late[p] = {}
            /\ dirs = j.dirsBefore
            /\ \A g \in DOMAIN j.writes \ j.todo : j.created[g] = {Dir[g]} \ j.dirsBefore
        BY <1>0, <2>0, <2>9 DEF Clean, Applying, j
      <3>2. DOMAIN j.created = DOMAIN j.writes \ j.todo
        BY <1>0, <2>0 DEF Tracked, j
      <3>3. \A g \in DOMAIN j.writes \ rest : c[g] = {Dir[g]} \ j.dirsBefore
        BY <2>0, <2>2, <2>3, <3>1, <3>2 DEF c, rest
      <3>4. lt = {} /\ dirs' = j.dirsBefore
        BY <2>0, <3>1
      <3>5. CASE rest = {}
        <4>1. job'[p].pc = "writing" /\ DOMAIN j.writes \ job'[p].todo = {}
          BY <2>1, <3>5 DEF n, t
        <4>2. dirs' = j.dirsBefore \cup {Dir[g] : g \in {}}
          BY <3>4
        <4> HIDE DEF lt
        <4> QED
          BY <2>1, <3>3, <3>4, <3>5, <4>1, <4>2 DEF Clean, Applying
      <3>6. CASE rest # {}
        <4>1. job'[p].pc = "checking" /\ job'[p].todo = rest
          BY <2>1, <3>6 DEF n, t
        <4> HIDE DEF lt
        <4> QED
          BY <2>1, <3>3, <3>4, <4>1 DEF Clean, Applying
      <3> QED
        BY <3>5, <3>6
    <2>10. p \in alone => Fresh(job'[p], files')
      BY <1>0, <2>0, <2>1 DEF j, n, Fresh, Phases, Loaded, Applying
    <2>11. job'[p] # job[p]
      <3>1. CASE rest = {}
        <4>1. job'[p].pc = "writing"
          BY <2>1, <3>1 DEF n
        <4>2. job[p].pc = "checking"
          BY <2>0 DEF j
        <4> QED
          BY <4>1, <4>2
      <3>2. CASE rest # {}
        BY <2>1, <2>3, <3>2 DEF t, rest, j
      <3> QED
        BY <3>1, <3>2
    <2> HIDE DEF lt
    <2> QED
      BY <1>0, <2>0, <2>1, <2>5, <2>6, <2>8, <2>9, <2>10, <2>11, OwnStep DEF TransactionInv, lt
  <1> QED
    BY <1>1, <1>2

\* Write: one more file is as planned, all later ones as observed.
LEMMA WriteStep ==
    ASSUME TransactionInv, Watch, NEW p \in Procs,
           Write(p)
    PROVE  TransactionInv'
  <1> DEFINE j == job[p]
             f == First(j.todo)
             rest == j.todo \ {f}
  <1>0. Shaped(j) /\ DOMAIN job = Procs /\ FilesIn(files, Files)
        /\ Tracked(j, files, late[p])
        /\ (p \in alone => Fresh(j, files) /\ Clean(j, dirs, late[p])) /\ dirs \subseteq Dirs
    BY DEF TransactionInv, Good
  <1>1. /\ DOMAIN job' = Procs
        /\ \A q \in Procs \ {p} : job'[q] = job[q]
        /\ DOMAIN job'[p] = Fields
        /\ j.pc = "writing"
        /\ job'[p].pc = IF rest = {} THEN "written" ELSE "writing"
        /\ job'[p].todo = rest
        /\ files' = [files EXCEPT ![f] = j.writes[f]]
        /\ dirs' = dirs \cup {Dir[f]}
        /\ head' = head
        /\ job'[p].outcome = job[p].outcome
        /\ job'[p].cmd = job[p].cmd
        /\ job'[p].config = job[p].config
        /\ job'[p].snapshot = job[p].snapshot
        /\ job'[p].observed = job[p].observed
        /\ job'[p].writes = job[p].writes
        /\ job'[p].originals = job[p].originals
        /\ job'[p].created = job[p].created
        /\ job'[p].failed = job[p].failed
        /\ job'[p].before = job[p].before
        /\ job'[p].dirsBefore = job[p].dirsBefore
    BY <1>0 DEF Shaped, Write, Fields
  <1>2. /\ j.todo # {}
        /\ j.todo \subseteq DOMAIN j.writes
        /\ DOMAIN j.writes \subseteq Files
        /\ Typed(j.writes, DOMAIN j.writes)
    BY <1>0, <1>1 DEF Shaped, Planned, Applying
  <1>3. f \in j.todo /\ f \in Files
    BY <1>2, FirstAndLast
  <1>4. FilesIn(files', Files) /\ dirs' \subseteq Dirs
    BY <1>0, <1>1, <1>2, <1>3, ReplacedIsFiles, FileAssumption DEF Typed
  <1>5. Shaped(job'[p])
    BY <1>0, <1>1, <1>2 DEF Shaped, Phases, Loaded, Observed, Planned, Applying
  <1>6. Tracked(job'[p], files', late[p])
    <2>1. /\ FilesIn(j.before, Files)
          /\ j.failed = FALSE
          /\ DOMAIN j.created = DOMAIN j.writes
          /\ \A g \in DOMAIN j.writes : j.originals[g] = j.observed[g]
          /\ \A g \in Files \ late[p] :
               files[g] = IF g \in DOMAIN j.writes \ j.todo
                          THEN j.writes[g] ELSE Kept(j, g)
      BY <1>0, <1>1 DEF Tracked, Applying
    <2>2. \A g \in Files \ late[p] :
            files'[g] = IF g \in DOMAIN j.writes \ rest
                        THEN j.writes[g] ELSE Kept(j, g)
      BY <1>0, <1>1, <1>2, <1>3, <2>1 DEF FilesIn
    <2>3. \A g \in Files : Kept(job'[p], g) = Kept(j, g)
      BY <1>1 DEF Kept
    <2> QED
      BY <1>1, <2>1, <2>2, <2>3 DEF Tracked, Applying
  <1>8. ASSUME p \in alone PROVE Clean(job'[p], dirs', late[p])
    <2>1. /\ late[p] = {}
          /\ dirs = j.dirsBefore \cup {Dir[g] : g \in DOMAIN j.writes \ j.todo}
          /\ \A g \in DOMAIN j.writes : j.created[g] = {Dir[g]} \ j.dirsBefore
      BY <1>0, <1>1, <1>8 DEF Clean, Applying
    <2>2. dirs' = j.dirsBefore \cup {Dir[g] : g \in DOMAIN j.writes \ rest}
      BY <1>1, <1>2, <1>3, <2>1
    <2> QED
      BY <1>1, <2>1, <2>2 DEF Clean, Applying
  <1>9. Unchecked(p) = late[p] /\ job'[p] # job[p]
    BY <1>1, <1>3 DEF Unchecked
  <1>7. p \in alone => Fresh(job'[p], files')
    BY <1>0, <1>1, <1>2, <1>3 DEF Fresh, Phases, Loaded, Applying, FilesIn
  <1> QED
    BY <1>0, <1>1, <1>4, <1>5, <1>6, <1>7, <1>8, <1>9, OwnStep DEF TransactionInv

\* A rollback of the files in S begins.
LEMMA RollbackStep ==
    ASSUME TransactionInv, Watch, NEW p \in Procs,
           job[p].pc \in {"writing", "written"},
           NEW S, DOMAIN job[p].writes \ job[p].todo \subseteq S,
           S # {}, S \subseteq DOMAIN job[p].writes,
           NEW c, DOMAIN c \subseteq DOMAIN job[p].writes, S \subseteq DOMAIN c,
           \A g \in DOMAIN c : c[g] = job[p].created[g],
           job' = [job EXCEPT ![p] = [job[p] EXCEPT !.pc = "undoing",
                                                    !.todo = S, !.created = c]],
           files' = files, head' = head,
           dirs' \subseteq dirs \cup {Dir[f] : f \in S},
           dirs \subseteq dirs'
    PROVE  TransactionInv'
  <1> DEFINE j == job[p]
  <1>0. Shaped(j) /\ DOMAIN job = Procs /\ FilesIn(files, Files)
        /\ Tracked(j, files, late[p])
        /\ (p \in alone => Fresh(j, files) /\ Clean(j, dirs, late[p])) /\ dirs \subseteq Dirs
    BY DEF TransactionInv, Good
  <1>1. /\ DOMAIN job' = Procs
        /\ \A q \in Procs \ {p} : job'[q] = job[q]
        /\ DOMAIN job'[p] = Fields
        /\ job'[p].pc = "undoing"
        /\ job'[p].todo = S
        /\ job'[p].created = c
        /\ job'[p].outcome = j.outcome
        /\ job'[p].cmd = j.cmd
        /\ job'[p].config = j.config
        /\ job'[p].snapshot = j.snapshot
        /\ job'[p].observed = j.observed
        /\ job'[p].writes = j.writes
        /\ job'[p].originals = j.originals
        /\ job'[p].failed = j.failed
        /\ job'[p].before = j.before
        /\ job'[p].dirsBefore = j.dirsBefore
    BY <1>0 DEF Shaped, Fields
  <1>2. DOMAIN j.writes \subseteq Files
    BY <1>0 DEF Shaped, Planned, Applying
  <1>3. dirs' \subseteq Dirs
    BY <1>0, <1>2, FileAssumption
  <1>4. Shaped(job'[p])
    BY <1>0, <1>1, <1>2 DEF Shaped, Phases, Loaded, Observed, Planned, Applying
  <1>5. Tracked(job'[p], files', late[p])
    <2>1. /\ FilesIn(j.before, Files)
          /\ \A g \in DOMAIN j.writes : j.originals[g] = j.observed[g]
          /\ \A g \in Files \ late[p] :
               files[g] = IF g \in DOMAIN j.writes \ j.todo
                          THEN j.writes[g] ELSE Kept(j, g)
      BY <1>0 DEF Tracked, Applying
    <2>2. \A g \in Files \ (S \cup late[p]) : files[g] = Kept(j, g)
      BY <2>1
    <2>3. \A g \in S \ late[p] : files[g] \in {j.writes[g], j.observed[g]}
      BY <1>2, <2>1 DEF Kept
    <2>4. \A g \in Files : Kept(job'[p], g) = Kept(j, g)
      BY <1>1 DEF Kept
    <2> HIDE DEF j
    <2> QED
      BY <1>1, <2>1, <2>2, <2>3, <2>4 DEF Tracked, Applying
  <1>6. ASSUME p \in alone PROVE Clean(job'[p], dirs', late[p])
    <2>1. /\ late[p] = {}
          /\ dirs = j.dirsBefore \cup {Dir[g] : g \in DOMAIN j.writes \ j.todo}
          /\ \A g \in DOMAIN j.writes : j.created[g] = {Dir[g]} \ j.dirsBefore
      BY <1>0, <1>6 DEF Clean, Applying
    <2>2. \A g \in DOMAIN c : c[g] = {Dir[g]} \ j.dirsBefore
      BY <2>1
    <2>3. New(job'[p]) = UNION {c[g] : g \in DOMAIN c}
      BY <1>1 DEF New
    <2>4. New(job'[p]) \cap j.dirsBefore = {}
      BY <2>2, <2>3
    <2>5. \A g \in S : Dir[g] \in j.dirsBefore \cup New(job'[p])
      BY <2>2, <2>3
    <2>6. dirs' \subseteq j.dirsBefore \cup New(job'[p])
      BY <2>1, <2>5
    <2> HIDE DEF j
    <2> QED
      BY <1>1, <2>1, <2>4, <2>6 DEF Clean, Applying
  <1>7. p \in alone => Fresh(job'[p], files')
    BY <1>0, <1>1 DEF Fresh, Phases, Loaded, Applying
  <1>8. Unchecked(p) = late[p] /\ job'[p] # job[p]
    BY <1>1 DEF Unchecked
  <1> QED
    BY <1>0, <1>1, <1>3, <1>4, <1>5, <1>6, <1>7, <1>8, OwnStep DEF TransactionInv

\* WriteFails: the rollback starts with what has been replaced.
LEMMA WriteFailsStep ==
    ASSUME TransactionInv, Watch, NEW p \in Procs,
           WriteFails(p)
    PROVE  TransactionInv'
  <1> DEFINE j == job[p]
             f == First(j.todo)
  <1>0. Shaped(j) /\ DOMAIN job = Procs /\ j.pc = "writing"
        /\ Tracked(j, files, late[p])
    BY DEF TransactionInv, Good, WriteFails
  <1>1. /\ j.todo # {}
        /\ j.todo \subseteq DOMAIN j.writes
        /\ DOMAIN j.writes \subseteq Files
    BY <1>0 DEF Shaped, Planned, Applying
  <1>2. f \in j.todo /\ f \in Files
    BY <1>1, FirstAndLast
  <1>3. CASE /\ job' = [job EXCEPT ![p].pc = "undoing",
                                   ![p].todo = DOMAIN job[p].writes]
             /\ UNCHANGED dirs
    <2>1. job' = [job EXCEPT ![p] = [job[p] EXCEPT !.pc = "undoing",
                     !.todo = DOMAIN j.writes, !.created = j.created]]
      BY <1>0, <1>3 DEF Shaped, Fields
    <2>2. DOMAIN j.created = DOMAIN j.writes
      BY <1>0 DEF Tracked
    <2>3. DOMAIN j.writes # {} /\ dirs' = dirs /\ files' = files /\ head' = head
      BY <1>1, <1>3 DEF WriteFails
    <2> HIDE DEF j
    <2> QED
      BY <1>0, <1>1, <2>1, <2>2, <2>3, RollbackStep DEF j
  <1>4. CASE /\ job' = [job EXCEPT ![p].pc = "undoing", ![p].todo = UpTo(p),
                          ![p].created = [g \in UpTo(p) |-> @[g]]]
             /\ dirs' = dirs \cup {Dir[f]}
    <2> DEFINE c == [g \in UpTo(p) |-> j.created[g]]
    <2>1. job' = [job EXCEPT ![p] = [job[p] EXCEPT !.pc = "undoing",
                     !.todo = UpTo(p), !.created = c]]
      BY <1>0, <1>4 DEF Shaped, Fields
    <2>2. /\ f \in UpTo(p)
          /\ DOMAIN j.writes \ j.todo \subseteq UpTo(p)
          /\ UpTo(p) \subseteq DOMAIN j.writes
          /\ DOMAIN c = UpTo(p)
      BY <1>1, <1>2 DEF UpTo
    <2>3. files' = files /\ head' = head
      BY DEF WriteFails
    <2>4. dirs' \subseteq dirs \cup {Dir[g] : g \in UpTo(p)} /\ dirs \subseteq dirs'
      BY <1>4, <2>2
    <2>5. \A g \in DOMAIN c : c[g] = job[p].created[g]
      BY <2>2
    <2>6. UpTo(p) # {}
      BY <2>2
    <2>7. /\ job[p].pc \in {"writing", "written"}
          /\ DOMAIN job[p].writes \ job[p].todo \subseteq UpTo(p)
          /\ UpTo(p) \subseteq DOMAIN job[p].writes
          /\ DOMAIN c \subseteq DOMAIN job[p].writes
          /\ UpTo(p) \subseteq DOMAIN c
      BY <1>0, <2>2
    <2> HIDE DEF j, f, c
    <2> QED
      BY <2>1, <2>3, <2>4, <2>5, <2>6, <2>7, RollbackStep
  <1> QED
    BY <1>3, <1>4 DEF WriteFails

\* PostValidate: every planned file is written, or the rollback starts.
LEMMA PostValidateStep ==
    ASSUME TransactionInv, Watch, NEW p \in Procs,
           PostValidate(p)
    PROVE  TransactionInv'
  <1> DEFINE j == job[p]
  <1>0. Shaped(j) /\ DOMAIN job = Procs /\ j.pc = "written"
    BY DEF TransactionInv, Good, PostValidate
  <1>1. CASE Return(p, "applied")
    BY <1>1, EndsStep DEF PostValidate, Outcomes, TransactionInv
  <1>2. CASE job' = [job EXCEPT ![p].pc = "undoing",
                                ![p].todo = DOMAIN job[p].writes]
    <2>1. job' = [job EXCEPT ![p] = [job[p] EXCEPT !.pc = "undoing",
                     !.todo = DOMAIN j.writes, !.created = j.created]]
      BY <1>0, <1>2 DEF Shaped, Fields
    <2>2. DOMAIN j.writes # {}
      BY <1>0 DEF Shaped, Planned, Applying
    <2>3. DOMAIN j.created = DOMAIN j.writes
      BY <1>0 DEF Tracked, TransactionInv, Good
    <2>4. files' = files /\ head' = head /\ dirs' = dirs
      BY DEF PostValidate
    <2> HIDE DEF j
    <2> QED
      BY <1>0, <2>1, <2>2, <2>3, <2>4, RollbackStep DEF j
  <1> QED
    BY <1>1, <1>2 DEF PostValidate

-----------------------------------------------------------------------------
(* Rolling back.                                                           *)

\* Undo: one file less is replaced, all others are as observed.
LEMMA UndoStep ==
    ASSUME TransactionInv, Watch, NEW p \in Procs,
           Undo(p)
    PROVE  TransactionInv'
  <1> DEFINE j == job[p]
             f == Last(j.todo)
             rest == j.todo \ {f}
  <1>0. Shaped(j) /\ DOMAIN job = Procs /\ FilesIn(files, Files)
        /\ Tracked(j, files, late[p])
        /\ (p \in alone => Fresh(j, files) /\ Clean(j, dirs, late[p])) /\ dirs \subseteq Dirs
    BY DEF TransactionInv, Good
  <1>1. /\ DOMAIN job' = Procs
        /\ \A q \in Procs \ {p} : job'[q] = job[q]
        /\ DOMAIN job'[p] = Fields
        /\ j.pc = "undoing"
        /\ job'[p].pc = IF rest = {} THEN "cleaning" ELSE "undoing"
        /\ job'[p].todo = rest
        /\ \/ /\ files' = [files EXCEPT ![f] = j.originals[f]]
              /\ job'[p].failed = j.failed
           \/ files' = files /\ job'[p].failed = TRUE
        /\ UNCHANGED <<dirs, head>>
        /\ job'[p].outcome = j.outcome
        /\ job'[p].cmd = j.cmd
        /\ job'[p].config = j.config
        /\ job'[p].snapshot = j.snapshot
        /\ job'[p].observed = j.observed
        /\ job'[p].writes = j.writes
        /\ job'[p].originals = j.originals
        /\ job'[p].created = j.created
        /\ job'[p].before = j.before
        /\ job'[p].dirsBefore = j.dirsBefore
    BY <1>0 DEF Shaped, Undo, Fields
  <1>2. /\ j.todo # {}
        /\ j.todo \subseteq DOMAIN j.writes
        /\ DOMAIN j.writes \subseteq Files
        /\ Typed(j.originals, DOMAIN j.writes)
    BY <1>0, <1>1 DEF Shaped, Planned, Applying
  <1>3. f \in j.todo /\ f \in Files
    BY <1>2, FirstAndLast
  <1>4. FilesIn(files', Files)
    BY <1>0, <1>1, <1>2, <1>3, ReplacedIsFiles DEF Typed
  <1>5. Shaped(job'[p])
    BY <1>0, <1>1, <1>2 DEF Shaped, Phases, Loaded, Observed, Planned, Applying
  <1>6. Tracked(job'[p], files', late[p])
    <2>1. /\ FilesIn(j.before, Files)
          /\ \A g \in DOMAIN j.writes : j.originals[g] = j.observed[g]
          /\ \A g \in j.todo \ late[p] : files[g] \in {j.writes[g], j.observed[g]}
          /\ ~j.failed => \A g \in Files \ (j.todo \cup late[p]) : files[g] = Kept(j, g)
      BY <1>0, <1>1 DEF Tracked, Applying
    <2>2. ~job'[p].failed =>
            \A g \in Files \ (rest \cup late[p]) : files'[g] = Kept(j, g)
      BY <1>0, <1>1, <1>2, <1>3, <2>1 DEF FilesIn, Kept
    <2>3. \A g \in rest \ late[p] : files'[g] \in {j.writes[g], j.observed[g]}
      BY <1>0, <1>1, <1>2, <2>1 DEF FilesIn
    <2>4. \A g \in Files : Kept(job'[p], g) = Kept(j, g)
      BY <1>1 DEF Kept
    <2> QED
      BY <1>1, <2>1, <2>2, <2>3, <2>4 DEF Tracked, Applying
  <1>8. ASSUME p \in alone PROVE Clean(job'[p], dirs', late[p])
    <2>1. New(job'[p]) = New(j)
      BY <1>1 DEF New
    <2> QED
      BY <1>0, <1>1, <1>8, <2>1 DEF Clean, Applying
  <1>9. Unchecked(p) = late[p] /\ job'[p] # job[p]
    BY <1>1, <1>3 DEF Unchecked
  <1>7. p \in alone => Fresh(job'[p], files')
    BY <1>0, <1>1 DEF Fresh, Phases, Loaded, Applying
  <1> QED
    BY <1>0, <1>1, <1>4, <1>5, <1>6, <1>7, <1>8, <1>9, OwnStep DEF TransactionInv

\* RemoveDirs: the end of a rollback touches directories only.
LEMMA RemoveDirsStep ==
    ASSUME TransactionInv, Watch, NEW p \in Procs,
           RemoveDirs(p)
    PROVE  TransactionInv'
  <1>1. PICK o \in Outcomes : Return(p, o)
    BY DEF RemoveDirs, Outcomes
  <1>2. files' = files /\ head' = head /\ dirs' \subseteq dirs
    BY DEF RemoveDirs
  <1> QED
    BY <1>1, <1>2, EndsStep DEF TransactionInv

-----------------------------------------------------------------------------
(* The environment, and the invariant.                                     *)

\* Checkout, Edit: what the environment changes is late for every process that
\* applies, and whoever has loaded the files is no longer alone.
LEMMA EnvironmentStep ==
    ASSUME TransactionInv, Watch,
           \/ \E store \in Checkouts : Checkout(store)
           \/ \E e \in Edits : Edit(e[1], e[2])
    PROVE  TransactionInv'
  <1>1. /\ FilesIn(files', Files)
        /\ dirs' \subseteq Dirs
        /\ head' \in 0..MaxHead
        /\ job' = job
    <2>1. ASSUME NEW store \in Checkouts, Checkout(store) PROVE <1>1!:
      <3>1. store \in Store
        BY FileAssumption
      <3> QED
        BY <2>1, <3>1, CheckoutsAreFiles, FileAssumption DEF Checkout, TransactionInv
    <2>2. ASSUME NEW e \in Edits, Edit(e[1], e[2]) PROVE <1>1!:
      <3>1. e[1] \in Files /\ e[1] # Config /\ e[2] \in Content
        BY FileAssumption DEF Files, Content
      <3> QED
        BY <2>2, <3>1, ReplacedIsFiles DEF Edit, TransactionInv
    <2> QED
      BY <2>1, <2>2
  <1>2. alone' \subseteq Procs /\ \A q \in Procs : late'[q] \subseteq Files
    BY LateFiles DEF Watch
  <1>3. ASSUME NEW q \in Procs PROVE Good(q)'
    BY <1>1, Bystander
  <1> QED
    BY <1>1, <1>2, <1>3 DEF TransactionInv

\* Nobody has begun, so the inductive invariant holds initially.
LEMMA InitTransaction == Init => TransactionInv
  <1> SUFFICES ASSUME Init PROVE TransactionInv
    OBVIOUS
  <1>1. PICK store \in Initial : files = Project(store) /\ dirs = DirsOf(store)
    BY DEF Init
  <1>2. store \in Store
    BY FileAssumption
  <1>3. FilesIn(files, Files) /\ dirs \subseteq Dirs
    BY <1>1, <1>2, CheckoutsAreFiles
  <1>4. ASSUME NEW p \in Procs PROVE Good(p)
    <2>1. job[p] = NoJob /\ late[p] = {}
      BY DEF Init
    <2>2. Shaped(NoJob)
      BY DEF Shaped, NoJob, Fields, Phases, Outcomes, Loaded, Observed, Planned, Applying
    <2>3. Tracked(NoJob, files, {}) /\ Fresh(NoJob, files) /\ Clean(NoJob, dirs, {})
      BY DEF Tracked, Fresh, Clean, NoJob, Loaded, Applying
    <2> QED
      BY <2>1, <2>2, <2>3 DEF Good
  <1> QED
    BY <1>3, <1>4, FileAssumption DEF TransactionInv, Init

\* Every step preserves the inductive invariant.
LEMMA NextTransaction == TransactionInv /\ [Next]_vars => TransactionInv'
  <1> SUFFICES ASSUME TransactionInv, [Next]_vars PROVE TransactionInv'
    OBVIOUS
  <1>1. CASE UNCHANGED vars
    BY <1>1 DEF vars, TransactionInv, Good
  <1>2. CASE Next
    <2>1. Watch
      BY <1>2 DEF Next
    <2>2. ASSUME NEW p \in Procs, \E c \in Commands : Start(p, c)
          PROVE  TransactionInv'
      BY <2>1, <2>2, StartStep
    <2>3. ASSUME NEW p \in Procs, Crash(p)
          PROVE  TransactionInv'
      BY <2>1, <2>3, EndsStep DEF Crash, Outcomes, TransactionInv
    <2> QED
      BY <1>2, <2>1, <2>2, <2>3, ReadStep, ValidateStep, StageStep, ApplyStep,
         CheckStep, WriteStep, WriteFailsStep, PostValidateStep, UndoStep,
         RemoveDirsStep, EnvironmentStep DEF Next, Step, Acts
  <1> QED
    BY <1>1, <1>2

\* The inductive invariant holds throughout.
LEMMA TransactionAlways == Spec => []TransactionInv
  BY InitTransaction, NextTransaction, PTL DEF Spec

-----------------------------------------------------------------------------
(* The theorems.                                                           *)

\* The checkout and the processes always have their types, disturbed or not:
\* no order of loads, replacements, rollbacks, crashes, checkouts and hand
\* edits leaves a file or a process in a state the code has no case for.
THEOREM TransactionTypes == Spec => []TypeOK
  <1>1. TransactionInv => TypeOK
    BY CheckoutsAreFiles DEF TransactionInv, TypeOK, Good, Shaped, FilesIn
  <1> QED
    BY <1>1, TransactionAlways, PTL

\* What happens to a process is a step of its own.
LEMMA OwnDoing ==
    ASSUME DOMAIN job = Procs, Step, NEW p \in Procs, job'[p] # job[p]
    PROVE  Acts(p)
  <1>1. ASSUME NEW q \in Procs, q # p, Acts(q) PROVE FALSE
    <2>1. CASE Check(q)
      BY <1>1, <2>1 DEF Check, Refuse, Return
    <2>2. CASE WriteFails(q)
      BY <1>1, <2>2 DEF WriteFails
    <2>3. CASE addConfigWrite(q)
      BY <1>1, <2>3 DEF addConfigWrite, Refuse, Return
    <2> QED
      BY <1>1, <2>1, <2>2, <2>3
         DEF Acts, Start, Load, currentCommit, observeSnapshot, validateCandidate,
             applyStateTransaction, Write, PostValidate, Undo, RemoveDirs, Crash,
             Refuse, Return
  <1>2. ASSUME \/ \E store \in Checkouts : Checkout(store)
               \/ \E e \in Edits : Edit(e[1], e[2])
        PROVE  FALSE
    BY <1>2 DEF Checkout, Edit
  <1> QED
    BY <1>1, <1>2 DEF Step, Acts

\* In its writing phase a process changes files by a replacement only, in its
\* rollback by an undo only.
LEMMA ChangesOneFile ==
    ASSUME TransactionInv, Step, NEW p \in Procs, job'[p] # job[p], files' # files
    PROVE  /\ job[p].pc = "writing" => Write(p)
           /\ job[p].pc = "undoing" => Undo(p)
  <1>1. Acts(p)
    BY OwnDoing DEF TransactionInv
  <1> QED
    BY <1>1 DEF Acts, Start, Load, currentCommit, observeSnapshot, Refuse,
                validateCandidate, addConfigWrite, applyStateTransaction, Check,
                Write, WriteFails, PostValidate, Undo, RemoveDirs, Crash

\* Optimistic concurrency, with any number of commands, checkouts and edits
\* around each other: a file that nobody changed since its check is replaced
\* only if it has the content observeSnapshot read, is rolled back only if it
\* has what was written, and is the file the command was computed from if
\* nobody changed the checkout during the command.  The checks of all files
\* come before the first replacement, so this rests on what was checked still
\* being so (Tracked).  A file that changes after its check is not protected.
THEOREM ReplacesChecked == Spec => ReplacesWhatItChecked
  <1>1. ASSUME TransactionInv, [Next]_vars, NEW p \in Procs, NEW f \in Files \ late[p],
               job'[p] # job[p], files'[f] # files[f]
        PROVE  /\ job[p].pc = "writing" => files[f] = job[p].observed[f]
               /\ job[p].pc = "undoing" => files[f] = job[p].writes[f]
               /\ job[p].pc = "writing" /\ p \in alone =>
                    files[f] = IF f = Config THEN job[p].config
                               ELSE job[p].snapshot[f]
    <2> DEFINE j == job[p]
    <2>1. Step /\ files' # files
      BY <1>1 DEF Next, vars
    <2>2. /\ Shaped(j)
          /\ Tracked(j, files, late[p])
          /\ p \in alone => Fresh(j, files)
          /\ FilesIn(files, Files)
      BY <1>1 DEF TransactionInv, Good
    <2>3. CASE j.pc = "writing"
      <3>1. Write(p)
        BY <1>1, <2>1, <2>3, ChangesOneFile
      <3>2. j.todo # {} /\ j.todo \subseteq DOMAIN j.writes /\ j.todo \subseteq Files
        BY <2>2, <2>3 DEF Shaped
      <3>3. f = First(j.todo)
        BY <1>1, <2>2, <3>1 DEF Write, FilesIn
      <3>4. f \in j.todo
        BY <3>2, <3>3, FirstAndLast
      <3>5. files[f] = j.observed[f]
        BY <2>2, <2>3, <3>2, <3>4 DEF Tracked, Kept
      <3>6. p \in alone =>
              j.config = j.before[Config] /\ j.snapshot = Stores(j.before) /\ files[f] = j.before[f]
        BY <2>2, <2>3, <3>4 DEF Fresh, Applying
      <3> QED
        BY <2>3, <3>5, <3>6 DEF Stores, Files
    <2>4. CASE j.pc = "undoing"
      <3>1. Undo(p)
        BY <1>1, <2>1, <2>4, ChangesOneFile
      <3>2. /\ j.todo # {} /\ j.todo \subseteq DOMAIN j.writes /\ j.todo \subseteq Files
        BY <2>2, <2>4 DEF Shaped
      <3>3. f = Last(j.todo) /\ files'[f] = j.originals[f]
        BY <1>1, <2>2, <3>1 DEF Undo, FilesIn
      <3>4. f \in j.todo
        BY <3>2, <3>3, FirstAndLast
      <3>5. files[f] \in {j.writes[f], j.observed[f]} /\ j.originals[f] = j.observed[f]
        BY <2>2, <2>4, <3>2, <3>4 DEF Tracked
      <3> QED
        BY <1>1, <2>4, <3>3, <3>5
    <2> QED
      BY <2>3, <2>4
  <1>2. TransactionInv /\ [Next]_vars =>
          [\A p \in Procs : \A f \in Files \ late[p] :
              LET j == job[p]
              IN  job'[p] # j /\ files'[f] # files[f] =>
                    /\ j.pc = "writing" => files[f] = j.observed[f]
                    /\ j.pc = "undoing" => files[f] = j.writes[f]
                    /\ j.pc = "writing" /\ p \in alone =>
                         files[f] = IF f = Config THEN j.config
                                    ELSE j.snapshot[f]]_vars
    BY <1>1
  <1> QED
    BY <1>2, TransactionAlways, PTL DEF Spec, ReplacesWhatItChecked

\* The steps with which a transaction ends.
LEMMA Endings ==
    ASSUME TransactionInv, Step, NEW p \in Procs, job[p].pc \in Applying,
           job'[p].pc = "idle", job'[p].outcome # "crashed"
    PROVE  \/ Check(p) /\ UNCHANGED <<files, dirs>> /\ job'[p].outcome = "none"
           \/ PostValidate(p) /\ job'[p].outcome = "applied"
           \/ RemoveDirs(p)
  <1>0. Shaped(job[p]) /\ DOMAIN job = Procs
    BY DEF TransactionInv, Good
  <1>1. Acts(p)
    BY <1>0, OwnDoing DEF Applying
  <1>2. CASE Check(p)
    <2>1. CASE Refuse(p)
      BY <1>0, <1>2, <2>1 DEF Refuse, Return, Shaped, Fields
    <2>2. CASE ~Refuse(p)
      <3> DEFINE f == First(job[p].todo)
                 rest == job[p].todo \ {f}
                 o == [g \in DOMAIN job[p].originals \cup {f} |->
                         IF g = f THEN files[f] ELSE job[p].originals[g]]
                 c == [g \in DOMAIN job[p].created \cup {f} |->
                         IF g = f THEN {Dir[f]} \ dirs ELSE job[p].created[g]]
                 t == IF rest = {} THEN DOMAIN job[p].writes ELSE rest
                 n == IF rest = {} THEN "writing" ELSE "checking"
      <3>1. job' = [job EXCEPT ![p] = [job[p] EXCEPT !.originals = o,
                                         !.created = c, !.todo = t, !.pc = n]]
        BY <1>0, <1>2, <2>2 DEF Check, Shaped, Fields
      <3>2. n # "idle"
        OBVIOUS
      <3> HIDE DEF o, c, t, n
      <3> QED
        BY <1>0, <3>1, <3>2 DEF Shaped, Fields
    <2> QED
      BY <2>1, <2>2
  <1>3. CASE PostValidate(p)
    BY <1>0, <1>3 DEF PostValidate, Return, NoJob, Shaped, Fields
  <1>4. CASE Write(p) \/ Undo(p)
    BY <1>0, <1>4 DEF Write, Undo, Shaped, Fields
  <1>5. CASE WriteFails(p)
    BY <1>0, <1>5 DEF WriteFails, Shaped, Fields
  <1>6. CASE Crash(p)
    BY <1>0, <1>6 DEF Crash, Return, Shaped, Fields
  <1> QED
    BY <1>1, <1>2, <1>3, <1>4, <1>5, <1>6
       DEF Acts, Start, Load, currentCommit, observeSnapshot, validateCandidate,
           addConfigWrite, applyStateTransaction, Applying

\* A transaction that reports applied has replaced all its files and no other,
\* and one that reports mutation none left every file as it found it, after any
\* failure of a replacement or of the reload, whatever other commands, Git and
\* editors do meanwhile; the files that they changed too late for a check are
\* theirs to answer for.
THEOREM AppliedOrNothing == Spec => AllOrNothing
  <1>1. ASSUME TransactionInv, [Next]_vars, NEW p \in Procs,
               job[p].pc \in Applying, job'[p].pc = "idle"
        PROVE  /\ \A f \in Files \ late[p] :
                    /\ job'[p].outcome = "applied" =>
                         files'[f] = IF f \in DOMAIN job[p].writes
                                     THEN job[p].writes[f] ELSE job[p].before[f]
                    /\ job'[p].outcome = "none" =>
                         files'[f] = IF f \in DOMAIN job[p].originals
                                     THEN job[p].originals[f] ELSE job[p].before[f]
               /\ job'[p].outcome = "none" /\ p \in alone =>
                    dirs' = job[p].dirsBefore
    <2> DEFINE j == job[p]
    <2>0. CASE job'[p].outcome = "crashed"
      BY <2>0
    <2>1. Shaped(j) /\ Tracked(j, files, late[p]) /\ DOMAIN job = Procs
          /\ (p \in alone => Clean(j, dirs, late[p]))
      BY <1>1 DEF TransactionInv, Good
    <2>2. Step
      BY <1>1 DEF Next, vars, Applying
    <2>3. CASE /\ Check(p)
               /\ UNCHANGED <<files, dirs>>
               /\ job'[p].outcome = "none"
      <3>1. j.pc = "checking"
        BY <2>3 DEF Check
      <3>2. DOMAIN j.originals = DOMAIN j.writes \ j.todo
        BY <2>1, <3>1 DEF Shaped, Typed
      <3>3. \A f \in Files \ late[p] :
              files[f] = IF f \in DOMAIN j.originals THEN j.originals[f] ELSE j.before[f]
        BY <2>1, <3>1, <3>2 DEF Tracked
      <3>4. p \in alone => dirs = j.dirsBefore
        BY <2>1, <3>1 DEF Clean
      <3> QED
        BY <2>3, <3>3, <3>4
    <2>4. CASE PostValidate(p) /\ job'[p].outcome = "applied"
      <3>1. /\ j.pc = "written"
            /\ j.todo = {}
            /\ files' = files
        BY <2>1, <2>4 DEF PostValidate, Shaped
      <3>2. \A f \in Files \ late[p] : files[f] = IF f \in DOMAIN j.writes
                                                 THEN j.writes[f] ELSE j.before[f]
        BY <2>1, <3>1 DEF Tracked, Kept
      <3> QED
        BY <2>4, <3>1, <3>2
    <2>5. CASE RemoveDirs(p)
      <3> DEFINE used == {d \in New(j) : \E f \in Files : Dir[f] = d
                                                         /\ files[f] # Absent}
      <3>1. /\ j.pc = "cleaning"
            /\ files' = files
            /\ dirs' = dirs \ (New(j) \ used)
            /\ job'[p].outcome = IF j.failed \/ used \cap dirs # {}
                                 THEN "unknown" ELSE "none"
        BY <2>1, <2>5 DEF RemoveDirs, Return, New, NoJob
      <3>2. j.todo = {} /\ DOMAIN j.originals = DOMAIN j.writes
        BY <2>1, <3>1 DEF Shaped, Typed
      <3>3. ASSUME job'[p].outcome = "none", NEW f \in Files \ late[p]
            PROVE  files'[f] = IF f \in DOMAIN j.originals
                               THEN j.originals[f] ELSE j.before[f]
        <4>1. ~j.failed
          BY <3>1, <3>3
        <4>2. files[f] = Kept(j, f) /\ \A g \in DOMAIN j.writes : j.originals[g] = j.observed[g]
          BY <2>1, <3>1, <3>2, <4>1 DEF Tracked
        <4> QED
          BY <3>1, <3>2, <4>2 DEF Kept
      <3>4. ASSUME job'[p].outcome = "none", p \in alone
            PROVE  dirs' = j.dirsBefore
        <4>1. used \cap dirs = {}
          BY <3>1, <3>4
        <4>2. /\ j.dirsBefore \subseteq dirs
              /\ dirs \subseteq j.dirsBefore \cup New(j)
              /\ New(j) \cap j.dirsBefore = {}
          BY <2>1, <3>1, <3>4 DEF Clean
        <4>3. dirs \ (New(j) \ used) = j.dirsBefore
          <5> HIDE DEF used, j
          <5> QED
            BY <4>1, <4>2
        <4> QED
          BY <3>1, <4>3
      <3>5. job'[p].outcome # "applied"
        BY <3>1
      <3> QED
        BY <3>3, <3>4, <3>5
    <2> QED
      BY <1>1, <2>0, <2>2, <2>3, <2>4, <2>5, Endings
  <1>2. TransactionInv /\ [Next]_vars =>
          [\A p \in Procs :
              LET j == job[p]
              IN  j.pc \in Applying /\ job'[p].pc = "idle" =>
                    /\ \A f \in Files \ late[p] :
                         /\ job'[p].outcome = "applied" =>
                              files'[f] = IF f \in DOMAIN j.writes
                                          THEN j.writes[f] ELSE j.before[f]
                         /\ job'[p].outcome = "none" =>
                              files'[f] = IF f \in DOMAIN j.originals
                                          THEN j.originals[f] ELSE j.before[f]
                    /\ job'[p].outcome = "none" /\ p \in alone =>
                         dirs' = j.dirsBefore]_vars
    BY <1>1
  <1> QED
    BY <1>2, TransactionAlways, PTL DEF Spec, AllOrNothing

\* A command that ran alone and reports applied found the project whole: the
\* digests loaded with the configuration are compared with the stores before
\* anything is written (validateStoreIntegrity), and nothing has changed since.
THEOREM BuildsOnValid == Spec => TornIsRefused
  <1>1. ASSUME TransactionInv, NEW p \in Procs, job[p].pc = "written", p \in alone
        PROVE  Valid(job[p].before)
    BY <1>1 DEF TransactionInv, Good, Fresh, Applying
  <1>2. TransactionInv /\ [Next]_vars =>
          [\A p \in Procs :
              /\ job[p].pc = "written"
              /\ job'[p].outcome = "applied"
              /\ p \in alone
              => Valid(job[p].before)]_vars
    BY <1>1
  <1> QED
    BY <1>2, TransactionAlways, PTL DEF Spec, TornIsRefused
============================================================================
