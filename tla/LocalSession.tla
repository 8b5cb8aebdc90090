---------------------------- MODULE LocalSession ----------------------------
(***************************************************************************)
(* One Worker sandbox session of the local job-site adapter                 *)
(* (source-control-manager/internal/jobsite/local.go).                      *)
(*                                                                          *)
(* Several goroutines call the session.  The session mutex `mu` covers      *)
(* every operation, but Git, sleep, burn and the network client release it  *)
(* while they wait and take it again to record the outcome, and Cancel and  *)
(* Close keep it while they wait for the processes they killed.  An         *)
(* operation that never waits is one action; one that waits is split where  *)
(* the code unlocks:                                                        *)
(*                                                                          *)
(*     Git, Sleep, Burn, Network  ->  SelectDone / SelectKill  ->  Finish   *)
(*     Cancel, Close              ->  CancelReturns / CloseReturns          *)
(*                                                                          *)
(* The audit chain is abstracted to its newest event and to whether an end  *)
(* (cancel or cleanup) is already on it.  Durations are abstracted to units *)
(* of the CPU limit; the wall-clock and the lease deadline are one instant. *)
(***************************************************************************)
EXTENDS ProjectionPolicy, Integers, FiniteSetsExt

CONSTANTS
  Callers,        \* goroutines that call the session
  Classes,        \* the class map of the session's policy
  Role,           \* the Worker role the session was opened for
  Projection,     \* paths of the exported role projection
  Workloads,      \* what the callers of a session ask for: [callers, paths,
                  \* sizes, git, network, execs], sets of callers and arguments
  LimitProcs, LimitFiles, LimitBytes, LimitMemory, LimitCPU

ASSUME LimitsAssumption ==
  {LimitProcs, LimitFiles, LimitBytes, LimitMemory, LimitCPU} \subseteq Nat

ASSUME ProjectionAssumption ==
  \A p \in Projection : VisibleTo(Classes, Role, p)

ASSUME WorkloadAssumption ==
  \A w \in Workloads : w.callers \subseteq Callers /\ w.sizes \subseteq Nat

VARIABLES
  workload,      \* the workload of this session
  opened,        \* Open has returned the session
  closed, cancelled,
  ctxDone,       \* the session context is done: deadline, cancel or parent
  expired,       \* the clock has reached the wall-clock or lease deadline
  mu,            \* who holds the mutex between two steps
  cmds,          \* calls with a tracked process (s.cmds)
  cpuUsed, writtenFiles, writtenBytes,
  files,         \* paths that exist in the workspace
  writes,        \* recorded writes: path -> create or update
  torn,          \* history: paths a failed write left behind
  call,          \* what each caller is doing
  proc,          \* the process of each call
  last,          \* newest audit event
  ended          \* an accepted cancel or cleanup event is on the audit chain

session == <<workload, opened, closed, cancelled, ctxDone, expired, mu>>
budget == <<cpuUsed, writtenFiles, writtenBytes>>
tree == <<files, writes, torn>>
vars == <<session, cmds, budget, tree, call, proc, last, ended>>

-----------------------------------------------------------------------------
(* Audit events and calls.                                                  *)

(* The properties tell apart accepted work, a denial or other rejection, a  *)
(* limit, and the end of the session; the event type is left out.           *)
NoEvent == "none"
Accepted == "accepted"
Denied == "denied"
LimitEvent == "limit"

appendAudit(event) == last' = IF event = NoEvent THEN last ELSE event

(* A call is idle, is waiting without the mutex, wants the mutex back, or   *)
(* holds it while killed processes die.                                     *)
Free == "free"
Idle == [at |-> "idle", op |-> "none", why |-> "none", ctx |-> "live", memory |-> FALSE]
NoProcess == "none"

Waiting(c) == call[c].at = "waiting"
Unlocked == opened /\ mu = Free

Leave(c) == /\ call' = [call EXCEPT ![c] = Idle]
            /\ proc' = [proc EXCEPT ![c] = NoProcess]

-----------------------------------------------------------------------------
(* What a request is refused for.                                           *)

(* Mutation: the guard trusts the cancelled flag, which a passed            *)
(* deadline does not set.                                                   *)
GuardWithoutContext ==
  CASE closed \/ cancelled  -> "cancelled"
    [] cpuUsed >= LimitCPU  -> "limit"
    [] OTHER                -> "pass"

(* Closed, cancelled, session context, call context, CPU.  A call that      *)
(* starts with a cancelled context of its own changes nothing and is left   *)
(* out here; a context cancelled later is CallerCancels.                    *)
guardLocked ==
  CASE closed \/ cancelled  -> "cancelled"
    [] ctxDone              -> "ended"
    [] cpuUsed >= LimitCPU  -> "limit"
    [] OTHER                -> "pass"

(* The Git subcommands a Worker may run, each with its flags.               *)
AllowedFlags ==
  [sub \in {"cat-file", "rev-parse", "status", "log", "show", "diff", "remote"} |->
     CASE sub = "cat-file"  -> {"-e", "-p", "-t", "-s"}
       [] sub = "rev-parse" -> {"-q", "--verify", "--short", "--abbrev-ref"}
       [] sub = "status"    -> {"-s", "-b", "--porcelain", "--ignored", "-u"}
       [] sub = "log"       -> {"-n", "--oneline", "--stat", "-p", "--format"}
       [] sub = "show"      -> {"-s", "--stat", "--oneline", "-p", "--format"}
       [] sub = "diff"      -> {"-p", "--stat", "--name-only", "--cached"}
       [] sub = "remote"    -> {"-v"}]

checkSubcommandFlag(sub, flag) == flag \in AllowedFlags[sub]

(* An operand that is absolute, climbs out of the root or names .git is     *)
(* "outside"; remote takes no operand at all.                               *)
classifyAndPrepareGitArgs(req) ==
  /\ req.sub \in DOMAIN AllowedFlags
  /\ \A flag \in req.flags : checkSubcommandFlag(req.sub, flag)
  /\ "outside" \notin req.operands
  /\ req.sub = "remote" => req.operands = {}

findMatchingRule(req) == req.rule

networkAllowed(req) ==
  /\ req.executable = "approved-fetch"
  /\ req.destination = "name"
  /\ req.protocol = "https"
  /\ findMatchingRule(req)

(* Mutation: the process about to start is not counted.                     *)
ProcessLimitOffByOne == Cardinality(cmds) > LimitProcs

processLimitReached == Cardinality(cmds) + 1 > LimitProcs

canonicalInRoot(path) == \A i \in DOMAIN path : path[i] \notin {"..", ".git"}

(* No ancestor of the path is a file and the path is no directory: the      *)
(* MkdirAll and WriteFile of the path can succeed.                          *)
Creatable(path) ==
  \A q \in files \ {path} : ~ IsPrefix(q, path) /\ ~ IsPrefix(path, q)

-----------------------------------------------------------------------------
Init ==
  /\ workload \in Workloads
  /\ opened = FALSE /\ closed = FALSE /\ cancelled = FALSE
  /\ ctxDone = FALSE /\ expired = FALSE
  /\ mu = Free
  /\ cmds = {}
  /\ cpuUsed = 0 /\ writtenFiles = 0 /\ writtenBytes = 0
  /\ files = {} /\ writes = << >> /\ torn = {}
  /\ call = [c \in Callers |-> Idle]
  /\ proc = [c \in Callers |-> NoProcess]
  /\ last = NoEvent
  /\ ended = FALSE

(* Open: the projection is copied into a fresh workspace.  A request of     *)
(* another role or with a missing capability, projection or valid limit     *)
(* returns an error and leaves nothing behind.                              *)
Open ==
  /\ ~ opened
  /\ Role \in WorkerRoles
  /\ opened' = TRUE
  /\ files' = Projection
  /\ appendAudit("open")
  /\ UNCHANGED <<workload, closed, cancelled, ctxDone, expired, mu, cmds, budget, writes,
                 torn, call, proc, ended>>

(* Time and the contexts move without the mutex.                            *)
DeadlineReached ==
  /\ opened /\ ~ expired
  /\ expired' = TRUE
  /\ UNCHANGED <<workload, opened, closed, cancelled, ctxDone, mu, cmds, budget, tree, call,
                 proc, last, ended>>

(* The context's timer fires at the deadline or later; the control plane    *)
(* may cancel the context the session was opened with at any time.          *)
ContextDone ==
  /\ opened /\ ~ ctxDone
  /\ ctxDone' = TRUE
  /\ UNCHANGED <<workload, opened, closed, cancelled, expired, mu, cmds, budget, tree, call,
                 proc, last, ended>>

CallerCancels(c) ==
  /\ call[c].op \in {"git", "sleep", "burn", "network"}
  /\ call[c].ctx = "live"
  /\ call' = [call EXCEPT ![c].ctx = "done"]
  /\ UNCHANGED <<session, cmds, budget, tree, proc, last, ended>>

-----------------------------------------------------------------------------
(* Calls that never release the mutex.                                      *)

Begin(c) == Unlocked /\ call[c] = Idle
Passes(c) == Begin(c) /\ guardLocked = "pass"

(* Any guarded call that the guard refuses.                                 *)
Refused(c) ==
  /\ Begin(c) /\ guardLocked \in {"ended", "limit"}
  /\ cancelled' = (cancelled \/ guardLocked = "ended")
  /\ appendAudit(IF guardLocked = "limit" \/ expired THEN LimitEvent ELSE NoEvent)
  /\ UNCHANGED <<workload, opened, closed, ctxDone, expired, mu, cmds, budget, tree, call,
                 proc, ended>>

Answer(event) ==
  /\ appendAudit(event)
  /\ UNCHANGED <<session, cmds, budget, tree, call, proc, ended>>

(* A path outside the root, not visible or missing is denied; a file larger *)
(* than the memory limit is refused.                                        *)
ReadPath(c, path) ==
  /\ Passes(c)
  /\ IF canonicalInRoot(path) /\ VisibleTo(Classes, Role, path) /\ path \in files
     THEN \/ Answer(Accepted)
          \/ path \in Projection /\ Answer(LimitEvent)
     ELSE Answer(Denied)

writeAllowed(path) == canonicalInRoot(path) /\ WritableBy(Classes, Role, path)

writeLimitReached(path, size) ==
  \/ size > LimitMemory
  \/ writtenBytes + size > LimitBytes
  \/ path \notin files /\ writtenFiles + 1 > LimitFiles

(* Mutation: a second write of a path the Worker created is an update.      *)
ActionByPresence(path) == IF path \in files THEN "update" ELSE "create"

recordedAction(path) ==
  IF path \in DOMAIN writes /\ writes[path] = "create" THEN "create"
  ELSE IF path \notin files THEN "create" ELSE "update"

WriteRefused(c, path, size) ==
  /\ Passes(c)
  /\ \/ ~ writeAllowed(path) /\ Answer(Denied)
     \/ writeAllowed(path) /\ writeLimitReached(path, size) /\ Answer(LimitEvent)

WritePath(c, path, size) ==
  /\ Passes(c) /\ writeAllowed(path) /\ ~ writeLimitReached(path, size)
  /\ Creatable(path)
  /\ files' = files \cup {path}
  /\ writes' = [p \in DOMAIN writes \cup {path} |->
                  IF p = path THEN recordedAction(path) ELSE writes[p]]
  /\ writtenFiles' = writtenFiles + IF path \in files THEN 0 ELSE 1
  /\ writtenBytes' = writtenBytes + size
  /\ appendAudit(Accepted)
  /\ UNCHANGED <<session, cmds, cpuUsed, torn, call, proc, ended>>

(* os.WriteFile fails after it created the file: the file stays, and        *)
(* nothing of the write is counted or recorded.                             *)
WriteTorn(c, path, size) ==
  /\ Passes(c) /\ writeAllowed(path) /\ ~ writeLimitReached(path, size)
  /\ Creatable(path) /\ path \notin files
  /\ files' = files \cup {path}
  /\ torn' = torn \cup {path}
  /\ UNCHANGED <<session, cmds, budget, writes, call, proc, last, ended>>

(* The operations of the bundle CollectPatch returns to a call the guard    *)
(* lets pass; the session does not change.                                  *)
CollectPatch == {[path |-> p, action |-> writes[p]] : p \in DOMAIN writes}

-----------------------------------------------------------------------------
(* Calls that wait without the mutex.                                       *)

Wait(c, op) == call' = [call EXCEPT ![c] = [Idle EXCEPT !.at = "waiting", !.op = op]]

(* The process is started and tracked in one critical section.              *)
Start(c, op) ==
  /\ Wait(c, op)
  /\ proc' = [proc EXCEPT ![c] = "alive"]
  /\ cmds' = cmds \cup {c}
  /\ UNCHANGED <<session, budget, tree, last, ended>>

Git(c, req) ==
  /\ Passes(c)
  /\ CASE req.sentinel                      -> Answer(Denied)
       [] ~ req.sentinel /\ processLimitReached -> Answer(LimitEvent)
       [] OTHER -> IF classifyAndPrepareGitArgs(req) THEN Start(c, "git")
                                                     ELSE Answer(Denied)

sleepLocked(c) ==
  /\ Passes(c)
  /\ IF processLimitReached THEN Answer(LimitEvent) ELSE Start(c, "sleep")

(* burn is a loop in the adapter itself, no process.                        *)
burnLocked(c) ==
  /\ Passes(c)
  /\ Wait(c, "burn")
  /\ UNCHANGED <<session, cmds, budget, tree, proc, last, ended>>

networkLocked(c, req) ==
  /\ Passes(c)
  /\ IF networkAllowed(req)
     THEN /\ Wait(c, "network")
          /\ UNCHANGED <<session, cmds, budget, tree, proc, last, ended>>
     ELSE Answer(Denied)

(* Any other executable, a credential in the arguments, or approved-fetch   *)
(* without a network request.                                               *)
ExecuteDenied(c) ==
  /\ Passes(c)
  /\ Answer(Denied)

(* A process exits by itself or because it was killed.  It needs no mutex:  *)
(* the goroutine that reaps it only closes a channel.                       *)
ProcessExits(c) ==
  /\ proc[c] \in {"alive", "killed"}
  /\ proc' = [proc EXCEPT ![c] = "exited"]
  /\ UNCHANGED <<session, cmds, budget, tree, call, last, ended>>

(* The combined output of a Git process, or a response body, passes the     *)
(* memory limit.                                                            *)
OutputExceeds(c) ==
  /\ Waiting(c) /\ call[c].op \in {"git", "network"} /\ ~ call[c].memory
  /\ call[c].op = "git" => proc[c] \in {"alive", "killed"}
  /\ call' = [call EXCEPT ![c].memory = TRUE]
  /\ UNCHANGED <<session, cmds, budget, tree, proc, last, ended>>

(* Mutation: the wait does not watch the session context.                   *)
CausesOfOwnCall(c) ==
  {w \in {"memory", "caller"} :
     \/ w = "memory" /\ call[c].memory /\ call[c].op = "git"
     \/ w = "caller" /\ call[c].ctx = "done"}

(* What else than its result may end a wait.                                *)
Causes(c) ==
  {w \in {"memory", "caller", "session"} :
     \/ w = "memory" /\ call[c].memory /\ call[c].op = "git"
     \/ w = "caller" /\ call[c].ctx = "done"
     \/ w = "session" /\ ctxDone}

ToRelock(c, why) == call' = [call EXCEPT ![c].at = "relock", ![c].why = why]

(* The result is there: the process was reaped, the burn is over, the       *)
(* response was read.                                                       *)
SelectDone(c) ==
  /\ Waiting(c)
  /\ call[c].op \in {"git", "sleep"} => proc[c] = "exited"
  /\ ToRelock(c, "done")
  /\ UNCHANGED <<session, cmds, budget, tree, proc, last, ended>>

SelectKill(c) ==
  /\ Waiting(c)
  /\ \E why \in Causes(c) : ToRelock(c, why)
  /\ proc' = [proc EXCEPT ![c] = IF @ = "alive" THEN "killed" ELSE @]
  /\ UNCHANGED <<session, cmds, budget, tree, last, ended>>

(* Mutation: the outcome of the wait is trusted once it is over.            *)
OwnContextOnly(c) ==
  CASE call[c].why = "caller" \/ call[c].ctx = "done" -> "cancelled"
    [] OTHER -> "proceed"

(* The checks every waiting call repeats once it holds the mutex again.     *)
Recheck(c) ==
  CASE ctxDone /\ expired -> "limit"
    [] ctxDone \/ cancelled \/ closed -> "cancelled"
    [] call[c].why = "caller" \/ call[c].ctx = "done" -> "cancelled"
    [] OTHER -> "proceed"

(* What a call that may proceed puts on the audit chain: the process's exit *)
(* status, a credential in the output, a denied redirect and an I/O error   *)
(* are chosen by the environment.  When the output passed the memory limit  *)
(* and Wait's own error is received first, that error is not an exit status *)
(* and Git returns it before it comes to the limit.                         *)
Outcomes(c) ==
  CASE call[c].memory           -> {LimitEvent} \cup
                                   IF call[c].op = "git" /\ call[c].why = "done"
                                   THEN {NoEvent} ELSE {}
    [] call[c].op = "git"       -> {Accepted, Denied, NoEvent}
    [] call[c].op = "sleep"     -> {Accepted, Denied, NoEvent}
    [] call[c].op = "burn"      -> {Accepted}
    [] call[c].op = "network"   -> {Accepted, Denied, NoEvent}

(* The CPU account saturates at the limit: only cpuUsed >= limit is read.   *)
Charged(c) == IF call[c].op \in {"git", "burn"} THEN {cpuUsed, Min({cpuUsed + 1, LimitCPU})}
                                                ELSE {cpuUsed}

Finish(c) ==
  /\ call[c].at = "relock" /\ proc[c] \notin {"alive", "killed"}
  /\ Unlocked
  /\ cmds' = cmds \ {c}
  /\ cpuUsed' \in Charged(c)
  /\ cancelled' = (cancelled \/ (Recheck(c) = "cancelled" /\ (ctxDone \/ closed)))
  /\ CASE Recheck(c) = "limit"     -> appendAudit(LimitEvent)
       [] Recheck(c) = "cancelled" -> appendAudit(NoEvent)
       [] Recheck(c) = "proceed"   -> \E event \in Outcomes(c) : appendAudit(event)
  /\ Leave(c)
  /\ UNCHANGED <<workload, opened, closed, ctxDone, expired, mu, writtenFiles, writtenBytes, tree, ended>>

-----------------------------------------------------------------------------
(* Cancel and Close keep the mutex until every tracked process is reaped.   *)

Killed == [c \in Callers |-> IF c \in cmds /\ proc[c] = "alive" THEN "killed" ELSE proc[c]]

killAllLocked == \A c \in cmds : proc[c] = "exited"

Hold(c, op) ==
  /\ mu' = c
  /\ call' = [call EXCEPT ![c] = [Idle EXCEPT !.at = "killing", !.op = op]]

Cancel(c) ==
  /\ Begin(c) /\ ~ closed
  /\ cancelled' = TRUE /\ ctxDone' = TRUE
  /\ proc' = Killed
  /\ Hold(c, "cancel")
  /\ UNCHANGED <<workload, opened, closed, expired, cmds, budget, tree, last, ended>>

CancelReturns(c) ==
  /\ mu = c /\ call[c].op = "cancel"
  /\ killAllLocked
  /\ appendAudit("cancel")
  /\ ended' = TRUE
  /\ mu' = Free
  /\ Leave(c)
  /\ UNCHANGED <<workload, opened, closed, cancelled, ctxDone, expired, cmds, budget, tree>>

Close(c) ==
  /\ Begin(c) /\ ~ closed
  /\ closed' = TRUE /\ cancelled' = TRUE /\ ctxDone' = TRUE
  /\ proc' = Killed
  /\ Hold(c, "close")
  /\ UNCHANGED <<workload, opened, expired, cmds, budget, tree, last, ended>>

(* Closing the broker waits for the requests in flight; then the workspace  *)
(* is removed.                                                              *)
CloseReturns(c) ==
  /\ mu = c /\ call[c].op = "close"
  /\ killAllLocked
  /\ \A d \in Callers : call[d].op = "network" => ~ Waiting(d)
  /\ \/ files' = {} /\ appendAudit("cleanup")
     \/ files' = files /\ appendAudit("cleanup")
  /\ ended' = TRUE
  /\ mu' = Free
  /\ Leave(c)
  /\ UNCHANGED <<workload, opened, closed, cancelled, ctxDone, expired, cmds, budget, writes, torn>>

-----------------------------------------------------------------------------
Next ==
  \/ Open
  \/ DeadlineReached
  \/ ContextDone
  \/ \E c \in workload.callers :
       \/ CallerCancels(c)
       \/ Refused(c)
       \/ \E path \in workload.paths : ReadPath(c, path)
       \/ \E path \in workload.paths, size \in workload.sizes : WriteRefused(c, path, size)
       \/ \E path \in workload.paths, size \in workload.sizes : WritePath(c, path, size)
       \/ \E path \in workload.paths, size \in workload.sizes : WriteTorn(c, path, size)
       \/ \E req \in workload.git : Git(c, req)
       \/ "sleep" \in workload.execs /\ sleepLocked(c)
       \/ "burn" \in workload.execs /\ burnLocked(c)
       \/ \E req \in workload.network : networkLocked(c, req)
       \/ "other" \in workload.execs /\ ExecuteDenied(c)
       \/ ProcessExits(c)
       \/ OutputExceeds(c)
       \/ SelectDone(c)
       \/ SelectKill(c)
       \/ Finish(c)
       \/ Cancel(c)
       \/ CancelReturns(c)
       \/ Close(c)
       \/ CloseReturns(c)

(* Time passes, a killed process dies, a goroutine whose select is ready    *)
(* runs, and the mutex does not starve a goroutine that waits for it (Go's  *)
(* mutex hands over in arrival order after a millisecond).  No call is ever *)
(* obliged to start, and a process that is not killed need not exit.        *)
Fairness ==
  /\ WF_vars(DeadlineReached)
  /\ WF_vars(expired /\ ContextDone)
  /\ \A c \in Callers :
       /\ WF_vars(proc[c] = "killed" /\ ProcessExits(c))
       /\ WF_vars(SelectKill(c))
       /\ SF_vars(Finish(c))
       /\ WF_vars(CancelReturns(c))
       /\ WF_vars(CloseReturns(c))

Spec == Init /\ [][Next]_vars /\ Fairness

-----------------------------------------------------------------------------
CallType ==
  [at : {"idle", "waiting", "relock", "killing"},
   op : {"none", "git", "sleep", "burn", "network", "cancel", "close"},
   why : {"none", "done", "memory", "caller", "session"},
   ctx : {"live", "done"},
   memory : BOOLEAN]

(* Types; the tracked processes are those of the Git and sleep calls in     *)
(* flight, so that killAllLocked misses none and none is kept past its call.*)
TypeOK ==
  /\ {opened, closed, cancelled, ctxDone, expired, ended} \subseteq BOOLEAN
  /\ mu \in Callers \cup {Free}
  /\ cpuUsed \in 0 .. LimitCPU
  /\ writtenFiles \in Nat /\ writtenBytes \in Nat
  /\ files \subseteq Projection \cup workload.paths
  /\ DOMAIN writes \subseteq workload.paths
  /\ call \in [Callers -> CallType]
  /\ proc \in [Callers -> {NoProcess, "alive", "killed", "exited"}]
  /\ cmds = {c \in Callers : call[c].op \in {"git", "sleep"}}
  /\ cmds = {c \in Callers : proc[c] # NoProcess}

(* Once Cancel or Close has returned, no process of the session runs (the   *)
(* document's "Cancellation, sandbox-lease expiry, and Close terminate the  *)
(* full process tree"): killing, waiting for the kills and refusing new     *)
(* starts have to cover every interleaving with calls in flight.            *)
NothingRunsAfterEnd ==
  ended => \A c \in Callers : proc[c] \notin {"alive", "killed"}

(* No call that was in flight when the session was cancelled or closed, and *)
(* none started later, is recorded as accepted work after the cancel or     *)
(* cleanup event: what was read before the mutex was released is re-read    *)
(* after it.                                                                *)
NoWorkAfterEnd == ended => last # Accepted

(* The limits hold at every moment and for all callers together: processes, *)
(* new files (but for those a failed write left uncounted) and bytes.       *)
WithinLimits ==
  /\ Cardinality({c \in Callers : proc[c] \in {"alive", "killed"}}) <= LimitProcs
  /\ Cardinality((files \ Projection) \ torn) <= LimitFiles
  /\ writtenBytes <= LimitBytes

(* The operations of a collected patch agree with the projection, and so    *)
(* with the Integration base: create for a path that was not there, update  *)
(* for one that was, whatever the order and number of the writes.  The      *)
(* exception is a path whose first write failed half-way: its retry is      *)
(* recorded as an update of a path the base does not have.                  *)
PatchMatchesBase ==
  \A op \in CollectPatch :
     /\ WritableBy(Classes, Role, op.path)
     /\ op.action = "create" => op.path \notin Projection
     /\ op.action = "update" => op.path \in Projection \cup torn

(* Every call returns: also one that waits for a process that never exits,  *)
(* and Cancel and Close, which hold the mutex other calls need.             *)
CallsReturn == \A c \in Callers : call[c].at # "idle" ~> call[c].at = "idle"

(* From some time after the session context is done no process runs any     *)
(* more, whether or not anyone calls Cancel or Close.                       *)
ExpiryStopsEverything ==
  ctxDone ~> [](\A c \in Callers : proc[c] = NoProcess)

(* The bookkeeping that cancel and the limits rest on: the tracked          *)
(* processes are those that run, and all callers together stay in bounds.   *)
TrackedWithinLimits == TypeOK /\ WithinLimits

(* After Cancel or Close has returned, nothing of the session goes on:      *)
(* neither a process nor a call whose result would count as work.           *)
EndIsFinal == NothingRunsAfterEnd /\ NoWorkAfterEnd
=============================================================================
