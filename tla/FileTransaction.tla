-------------------------- MODULE FileTransaction --------------------------
(***************************************************************************)
(* Mutating commands of the EARS manager (ears-manager/internal/cli): each *)
(* loads the project, prepares a set of file replacements and applies them *)
(* one file at a time, with a rollback when something fails.  A command is *)
(* a process of its own; there is no lock, and Git may change the checkout *)
(* under it.  Every read or replacement of a file is a step.               *)
(*                                                                         *)
(* Data abstraction.  The files are records (requirements, interfaces and  *)
(* change sets) and Config, .protobot/project.yaml.  A record's content is *)
(* a value.  Of Config only the store digests matter; a digest is          *)
(* injective, so Config holds the whole store it was computed from.        *)
(* Schema validation of candidates, artifacts and file modes are left out. *)
(***************************************************************************)
EXTENDS Integers, FiniteSets

CONSTANTS Procs,       \* commands that may run at the same time
          Records,     \* record files
          Config,      \* the configuration file
          Values,      \* what a record file may contain
          Absent,      \* the content of a file that does not exist
          Dirs, Dir,   \* directories, and the one each file is in
          Rank,        \* the place of each file in the order of paths
          Commands,    \* the mutations that are asked for
          Initial,     \* the stores a project starts from
          Checkouts,   \* the stores Git may check out
          Edits,       \* records edited by hand: <<file, content>>
          Faults,      \* what may fail: see Fault
          MaxCommands, \* bound: commands started by each process
          MaxHead      \* bound: commits Git checks out

Files == Records \cup {Config}
Store == [Records -> Values \cup {Absent}]

\* Replacement contents, and which of the records must exist beforehand.
Command == [writes: UNION {[S -> Values \cup {Absent}] : S \in SUBSET Records},
            existing: SUBSET Records]

Fault == {"write", "reload", "rollback", "crash"}

ASSUME FileAssumption ==
    /\ Config \notin Records
    /\ Absent \notin Values
    /\ Dir \in [Files -> Dirs]
    /\ Rank \in [Files -> Nat]
    /\ \A S \in (SUBSET Files) \ {{}} :
         \E f, l \in S : \A g \in S : Rank[f] <= Rank[g] /\ Rank[g] <= Rank[l]
    /\ Commands \subseteq Command
    /\ Initial \cup Checkouts \subseteq Store
    /\ Edits \subseteq Records \X Values
    /\ Faults \subseteq Fault
    /\ MaxCommands \in Nat
    /\ MaxHead \in Nat

VARIABLES files, \* the checkout: file -> content
          dirs,  \* the directories that exist
          head,  \* commits Git has checked out
          job,   \* what each process is doing
          alone, \* history: the processes nobody has disturbed, and
          late   \* the files others changed too late for a check, see Watch

vars == <<files, dirs, head, job, alone, late>>

Phases == {"idle", "started", "loaded", "read-head", "observed", "validated",
           "staged", "checking", "writing", "written", "undoing", "cleaning"}
Applying == {"checking", "writing", "written", "undoing", "cleaning"}
Outcomes == {"none", "applied", "unknown", "crashed"}

\* A project whose configuration has the digests of its records.
Project(store) ==
    [f \in Files |-> IF f = Config THEN store ELSE store[f]]
Stores(fs) == [r \in Records |-> fs[r]]
Valid(fs) == fs[Config] = Stores(fs)

DirsOf(store) ==
    {Dir[Config]} \cup {Dir[r] : r \in {x \in Records : store[x] # Absent}}

NoJob == [pc |-> "idle", outcome |-> "none", runs |-> 0,
          cmd |-> [writes |-> <<>>, existing |-> {}],
          config |-> <<>>, snapshot |-> <<>>, head |-> 0, observed |-> <<>>,
          writes |-> <<>>, todo |-> {}, originals |-> <<>>, created |-> <<>>,
          failed |-> FALSE, before |-> <<>>, dirsBefore |-> {}]

Init ==
    \E store \in Initial :
        /\ files = Project(store)
        /\ dirs = DirsOf(store)
        /\ head = 0
        /\ job = [p \in Procs |-> NoJob]
        /\ alone = Procs
        /\ late = [p \in Procs |-> {}]

First(S) == CHOOSE f \in S : \A g \in S : Rank[f] <= Rank[g]
Last(S) == CHOOSE f \in S : \A g \in S : Rank[g] <= Rank[f]

\* The command ends, and its process with it.
Return(p, outcome) ==
    job' = [job EXCEPT ![p] = [NoJob EXCEPT !.outcome = outcome, !.runs = job[p].runs]]

\* A refusal before the first replacement: nothing was changed.
Refuse(p) == Return(p, "none") /\ UNCHANGED <<files, dirs, head>>

-----------------------------------------------------------------------------
(* Preparing: loadState, the candidate and its digests.                    *)

\* The configuration is read before the stores.
Start(p, c) ==
    /\ job[p].pc = "idle"
    /\ job[p].runs < MaxCommands
    /\ job' = [job EXCEPT ![p] = [NoJob EXCEPT !.pc = "started", !.cmd = c,
                                               !.runs = job[p].runs + 1,
                                               !.config = files[Config]]]
    /\ UNCHANGED <<files, dirs, head>>

Load(p) ==
    /\ job[p].pc = "started"
    /\ job' = [job EXCEPT ![p].pc = "loaded",
                          ![p].snapshot = Stores(files)]
    /\ UNCHANGED <<files, dirs, head>>

currentCommit(p) ==
    /\ job[p].pc = "loaded"
    /\ job' = [job EXCEPT ![p].pc = "read-head", ![p].head = head]
    /\ UNCHANGED <<files, dirs, head>>

\* Only the files of the snapshot are observed; others are expected absent.
observeSnapshot(p) ==
    /\ job[p].pc = "read-head"
    /\ job' = [job EXCEPT ![p].pc = "observed", ![p].observed =
          [f \in Files |-> IF f = Config THEN files[f]
                           ELSE IF job[p].snapshot[f] # Absent THEN files[f]
                           ELSE Absent]]
    /\ UNCHANGED <<files, dirs, head>>

\* Mutation: the stores are not compared with the loaded digests.
IntegrityOfCandidate(p) == TRUE

\* The stores as they are now have the digests that were loaded.
validateStoreIntegrity(p) == Stores(files) = job[p].config

\* The records exist or not as the command needs them.
Applicable(p) ==
    \A r \in DOMAIN job[p].cmd.writes :
        job[p].snapshot[r] # Absent <=> r \in job[p].cmd.existing

validateCandidate(p) ==
    /\ job[p].pc = "observed"
    /\ IF Applicable(p) /\ validateStoreIntegrity(p)
         THEN /\ job' = [job EXCEPT ![p].pc = "validated"]
              /\ UNCHANGED <<files, dirs, head>>
         ELSE Refuse(p)

\* Mutation: the digests cover the replaced records only.
StagedRecords(w) == w

\* The stores on disk with the command's records replaced.
Staged(w) ==
    [r \in Records |-> IF r \in DOMAIN w THEN w[r] ELSE files[r]]

\* The digests of the stores on disk with the command's records replaced; a
\* record file that the snapshot does not have is a concurrent update.
addConfigWrite(p) ==
    LET w == job[p].cmd.writes
        unobserved == {r \in Records \ DOMAIN w :
                         files[r] # Absent /\ job[p].snapshot[r] = Absent}
    IN  /\ job[p].pc = "validated"
        /\ IF unobserved # {} THEN Refuse(p)
           ELSE /\ job' = [job EXCEPT ![p].pc = "staged", ![p].writes =
                     [f \in DOMAIN w \cup {Config} |->
                        IF f = Config THEN Staged(w) ELSE w[f]]]
                /\ UNCHANGED <<files, dirs, head>>

-----------------------------------------------------------------------------
(* Applying: applyStateTransaction and applyTransaction.                   *)

applyStateTransaction(p) ==
    /\ job[p].pc = "staged"
    /\ IF job[p].head = head
         THEN /\ job' = [job EXCEPT ![p].pc = "checking",
                                    ![p].todo = DOMAIN job[p].writes,
                                    ![p].before = files,
                                    ![p].dirsBefore = dirs]
              /\ UNCHANGED <<files, dirs, head>>
         ELSE Refuse(p)

\* Mutation: only the presence of the file is compared, not its content.
PresenceUnchanged(p, f) == (files[f] = Absent) <=> (job[p].observed[f] = Absent)

\* The file still has the content that was observed.
Unchanged(p, f) == files[f] = job[p].observed[f]

\* Compare one file with what was observed and remember its original.
Check(p) ==
    LET f == First(job[p].todo)
        rest == job[p].todo \ {f}
    IN  /\ job[p].pc = "checking"
        /\ IF Unchanged(p, f)
             THEN /\ job' = [job EXCEPT
                       ![p].originals = [g \in DOMAIN @ \cup {f} |->
                                           IF g = f THEN files[f] ELSE @[g]],
                       ![p].created = [g \in DOMAIN @ \cup {f} |->
                                         IF g = f THEN {Dir[f]} \ dirs ELSE @[g]],
                       ![p].todo = IF rest = {} THEN DOMAIN job[p].writes
                                   ELSE rest,
                       ![p].pc = IF rest = {} THEN "writing" ELSE "checking"]
                  /\ UNCHANGED <<files, dirs, head>>
             ELSE Refuse(p)

\* replaceFile and Remove: a rename or an unlink, so one step.
Write(p) ==
    LET f == First(job[p].todo)
        rest == job[p].todo \ {f}
    IN  /\ job[p].pc = "writing"
        /\ files' = [files EXCEPT ![f] = job[p].writes[f]]
        /\ dirs' = dirs \cup {Dir[f]}
        /\ job' = [job EXCEPT ![p].todo = rest,
                              ![p].pc = IF rest = {} THEN "written" ELSE @]
        /\ UNCHANGED head

\* Mutation: only the file whose replacement failed is rolled back.
OnlyNext(p) == {First(job[p].todo)}

\* The files that are rolled back when the next replacement fails.
UpTo(p) == (DOMAIN job[p].writes \ job[p].todo) \cup {First(job[p].todo)}

\* Making the directory fails, or replacing the file after that.
WriteFails(p) ==
    LET f == First(job[p].todo)
    IN  /\ "write" \in Faults
        /\ job[p].pc = "writing"
        /\ \/ /\ job' = [job EXCEPT ![p].pc = "undoing",
                                    ![p].todo = DOMAIN job[p].writes]
              /\ UNCHANGED dirs
           \/ /\ job' = [job EXCEPT ![p].pc = "undoing", ![p].todo = UpTo(p),
                   ![p].created = [g \in UpTo(p) |-> @[g]]]
              /\ dirs' = dirs \cup {Dir[f]}
        /\ UNCHANGED <<files, head>>

persistedValidation(p) == Valid(files)

PostValidate(p) ==
    /\ job[p].pc = "written"
    /\ \/ /\ persistedValidation(p)
          /\ Return(p, "applied")
       \/ /\ ~persistedValidation(p) \/ "reload" \in Faults
          /\ job' = [job EXCEPT ![p].pc = "undoing",
                                ![p].todo = DOMAIN job[p].writes]
    /\ UNCHANGED <<files, dirs, head>>

-----------------------------------------------------------------------------
(* rollbackFiles: the last file first, then the new directories.           *)

Undo(p) ==
    LET f == Last(job[p].todo)
        rest == job[p].todo \ {f}
    IN  /\ job[p].pc = "undoing"
        /\ \/ /\ files' = [files EXCEPT ![f] = job[p].originals[f]]
              /\ job' = [job EXCEPT ![p].todo = rest,
                           ![p].pc = IF rest = {} THEN "cleaning" ELSE @]
           \/ /\ "rollback" \in Faults
              /\ job' = [job EXCEPT ![p].todo = rest, ![p].failed = TRUE,
                           ![p].pc = IF rest = {} THEN "cleaning" ELSE @]
              /\ UNCHANGED files
        /\ UNCHANGED <<dirs, head>>

\* A directory that is not empty cannot be removed.
RemoveDirs(p) ==
    LET new == UNION {job[p].created[f] : f \in DOMAIN job[p].created}
        used == {d \in new : \E f \in Files : Dir[f] = d /\ files[f] # Absent}
    IN  /\ job[p].pc = "cleaning"
        /\ dirs' = dirs \ (new \ used)
        /\ Return(p, IF job[p].failed \/ used \cap dirs # {} THEN "unknown"
                     ELSE "none")
        /\ UNCHANGED <<files, head>>

-----------------------------------------------------------------------------
(* What the processes cannot choose.                                       *)

\* A process dies; nothing is cleaned up.
Crash(p) ==
    /\ "crash" \in Faults
    /\ job[p].pc # "idle"
    /\ Return(p, "crashed")
    /\ UNCHANGED <<files, dirs, head>>

\* Someone checks out another commit, whose project is valid.
Checkout(store) ==
    /\ head < MaxHead
    /\ head' = head + 1
    /\ files' = Project(store)
    /\ dirs' = DirsOf(store)
    /\ UNCHANGED job

\* Someone edits a record that exists, without the EARS manager.
Edit(r, v) ==
    /\ files[r] \notin {Absent, v}
    /\ files' = [files EXCEPT ![r] = v]
    /\ UNCHANGED <<dirs, head, job>>

Acts(p) ==
    \/ \E c \in Commands : Start(p, c)
    \/ Load(p) \/ currentCommit(p) \/ observeSnapshot(p)
    \/ validateCandidate(p) \/ addConfigWrite(p)
    \/ applyStateTransaction(p) \/ Check(p)
    \/ Write(p) \/ WriteFails(p) \/ PostValidate(p)
    \/ Undo(p) \/ RemoveDirs(p) \/ Crash(p)

Step ==
    \/ \E p \in Procs : Acts(p)
    \/ \E store \in Checkouts : Checkout(store)
    \/ \E e \in Edits : Edit(e[1], e[2])

\* No part of the code.  During the command of a process in alone, nobody
\* else has changed the checkout.  Since a process began to apply, others
\* have changed the files in late; a file that passes its check leaves it, so
\* of the files to be replaced it has those that no check protects.
Watch ==
    /\ alone' = {p \in Procs :
                   \/ job'[p].pc = "idle"
                   \/ p \in alone /\ (<<files, dirs>>' = <<files, dirs>> \/ job'[p] # job[p])}
    /\ late' = [p \in Procs |->
                  CASE job'[p].pc \notin Applying -> {}
                    [] job'[p].pc \in Applying /\ job'[p] # job[p] ->
                         late[p] \ (IF job[p].pc = "checking" THEN {First(job[p].todo)} ELSE {})
                    [] OTHER -> late[p] \cup {f \in Files : files'[f] # files[f]}]

Next == Step /\ Watch

Spec == Init /\ [][Next]_vars

-----------------------------------------------------------------------------
(* Properties.                                                             *)

\* The checkout and the processes have their types.
TypeOK ==
    /\ DOMAIN files = Files
    /\ files[Config] \in Store
    /\ Stores(files) \in Store
    /\ dirs \subseteq Dirs
    /\ head \in 0..MaxHead
    /\ alone \subseteq Procs
    /\ \A p \in Procs : /\ late[p] \subseteq Files
                        /\ job[p].pc \in Phases
                        /\ job[p].outcome \in Outcomes
                        /\ job[p].todo \subseteq Files

\* A file that nobody changed after its check is replaced only while it has
\* the content the command observed, and rolled back only while it has what
\* the command wrote: whatever another command, an editor or Git wrote before
\* the check is not overwritten.  Unless somebody changed the checkout during
\* the command, what is replaced is also what the command was computed from.
ReplacesWhatItChecked ==
    [][\A p \in Procs : \A f \in Files \ late[p] :
          LET j == job[p]
          IN  job'[p] # j /\ files'[f] # files[f] =>
                /\ j.pc = "writing" => files[f] = j.observed[f]
                /\ j.pc = "undoing" => files[f] = j.writes[f]
                /\ j.pc = "writing" /\ p \in alone =>
                     files[f] = IF f = Config THEN j.config
                                ELSE j.snapshot[f]]_vars

\* "Without silent overwrite": no file is replaced that has another content
\* than the command observed.  The code does not keep this for a file that
\* changes after its check: every file is checked before the first is written.
NoSilentOverwrite ==
    [][\A p \in Procs, f \in Files :
          LET j == job[p]
          IN  j.pc = "writing" /\ job'[p] # j /\ files'[f] # files[f] =>
                files[f] = j.observed[f]]_vars

\* A command that reports applied has replaced all its files and nothing
\* else, and one that reports mutation none has left every file as it found
\* it, whatever failed in between, but for what others have put in place of it
\* since.  Undisturbed, it also leaves the directories as they were.
AllOrNothing ==
    [][\A p \in Procs :
          LET j == job[p]
          IN  j.pc \in Applying /\ job'[p].pc = "idle" =>
                /\ \A f \in Files \ late[p] :
                     /\ job'[p].outcome = "applied" =>
                          files'[f] = IF f \in DOMAIN j.writes
                                      THEN j.writes[f] ELSE j.before[f]
                     /\ job'[p].outcome = "none" =>
                          files'[f] = IF f \in DOMAIN j.originals
                                      THEN j.originals[f] ELSE j.before[f]
                /\ job'[p].outcome = "none" /\ p \in alone =>
                     dirs' = j.dirsBefore]_vars

\* What a crash, a failed rollback or a hand edit left torn is not built upon:
\* a command that ran alone and reports applied found the records of the
\* project and the digests in its configuration in agreement.
TornIsRefused ==
    [][\A p \in Procs :
          /\ job[p].pc = "written"
          /\ job'[p].outcome = "applied"
          /\ p \in alone
          => Valid(job[p].before)]_vars
=============================================================================
