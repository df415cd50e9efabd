--------------------------- MODULE UppaalExecutor ---------------------------
(***************************************************************************)
(* One Scheduler object (scheduler.hpp) and the UppaalExecutor inside it:   *)
(* the thread that calls start(), abort(), wait_for_result() and            *)
(* add_subscriber(), the worker thread that execute() spawns, and the       *)
(* verifyta process it forks.  A job is one call of execute(); jobs are     *)
(* numbered in the order of the calls, and a job's number stands for the    *)
(* pid of its child.  The program may hold other Scheduler objects, whose    *)
(* children and workers are the environment of this one.  Data is            *)
(* abstracted: an output of verifyta is its length in pipe blocks, a         *)
(* schedule is the number of the job behind it, a subscription its place in  *)
(* the vector of subscribers.                                                *)
(***************************************************************************)
EXTENDS Integers, Sequences

CONSTANTS
    MaxJobs,       \* bound on the number of execute() calls
    PipeCapacity,  \* blocks the kernel buffers in a pipe nobody reads
    Outputs,       \* the lengths an output of verifyta may have
    MaxSubscriptions, \* bound on the number of add_subscriber() calls
    Kinds,         \* "schedule": Station- and WaypointScheduler, "eta": EtaExtractor
    ForkMayFail    \* may fork() return -1?

ASSUME ExecutorAssumption ==
    /\ MaxJobs \in Nat /\ PipeCapacity \in Nat
    /\ Outputs \subseteq Nat
    /\ MaxSubscriptions \in Nat
    /\ Kinds \subseteq {"schedule", "eta"}
    /\ ForkMayFail \in BOOLEAN

VARIABLES
    process,      \* "up", or why the program has ended
    pc, op,       \* what the calling thread is doing, and inside which call
    job,          \* the number of execute() calls made
    child_pid,    \* std::optional<int>: the job whose pid it holds, or NoPid
    joinable,     \* worker.joinable()
    aborted,      \* what the last executor.abort() returned, since the last fork
    kind,         \* which of the Scheduler classes the object is of
    subscribers,  \* the length of the vector of weak pointers
    child,        \* per job: the verifyta process
    termed,       \* per job: SIGTERM has been sent
    total,        \* per job: the length of the output of a verifyta that ends well
    pipe, got,    \* per job: blocks in the pipe, blocks read by the worker
    wpc,          \* per job: what its worker thread is doing
    target,       \* per job: what its worker found in the captured variable pid
    intact,       \* history: no worker so far has waited for what was not its own child
    status,       \* per job: the worker's local variable status
    visited, last, \* per job: the two iterators of its notification loop
    received      \* per job: the subscriptions notified of the result, in order

schedulerVars == <<kind, subscribers>>
callerVars == <<process, pc, op, job, child_pid, joinable, aborted, schedulerVars>>
childVars  == <<child, termed, total, pipe>>
loopVars   == <<visited, last, received>>
workerVars == <<got, wpc, target, intact, status, loopVars>>
vars == <<callerVars, childVars, workerVars>>

Jobs     == 1 .. MaxJobs
Subscriptions == 1 .. MaxSubscriptions
NoPid    == 0
AnyPid   == -1    \* what a failed fork() returns; to waitpid() any child of the program
StrayPid == -2    \* a number that is not the pid of a child of this executor
Exits    == {"ok", "error", "signaled"}            \* what waitpid() can report
Children == {"none", "nofork", "running", "reaped"} \cup Exits
Workers  == {"none", "entry", "waitpid", "reset", "status", "reset_again",
             "read", "callback", "notify", "done"}
Pcs      == {"idle", "check", "kill", "reset_pid", "join", "start_worker", "fork",
             "set_pid", "spawn", "return"}

TypeOK ==
    /\ process \in {"up", "exited", "assigned_joinable", "destroyed_joinable",
                    "uncaught", "race"}
    /\ pc \in Pcs /\ op \in {"none", "start", "abort", "wait"}
    /\ job \in 0 .. MaxJobs /\ child_pid \in 0 .. MaxJobs
    /\ joinable \in BOOLEAN /\ aborted \in {"none", "true", "false"}
    /\ kind \in Kinds /\ subscribers \in 0 .. MaxSubscriptions
    /\ child \in [Jobs -> Children] /\ termed \in [Jobs -> BOOLEAN]
    /\ total \in [Jobs -> Nat] /\ pipe \in [Jobs -> Nat] /\ got \in [Jobs -> Nat]
    /\ wpc \in [Jobs -> Workers] /\ target \in [Jobs -> StrayPid .. MaxJobs]
    /\ intact \in BOOLEAN
    /\ status \in [Jobs -> {"none"} \cup Exits]
    /\ visited \in [Jobs -> 0 .. MaxSubscriptions] /\ last \in [Jobs -> 0 .. MaxSubscriptions]
    /\ received \in [Jobs -> Seq(Subscriptions)]

Init ==
    /\ process = "up" /\ pc = "idle" /\ op = "none" /\ job = 0
    /\ child_pid = NoPid /\ joinable = FALSE /\ aborted = "none"
    /\ kind \in Kinds /\ subscribers = 0
    /\ child = [j \in Jobs |-> "none"] /\ termed = [j \in Jobs |-> FALSE]
    /\ total = [j \in Jobs |-> 0] /\ pipe = [j \in Jobs |-> 0] /\ got = [j \in Jobs |-> 0]
    /\ wpc = [j \in Jobs |-> "none"] /\ target = [j \in Jobs |-> NoPid] /\ intact = TRUE
    /\ status = [j \in Jobs |-> "none"] /\ received = [j \in Jobs |-> <<>>]
    /\ visited = [j \in Jobs |-> 0] /\ last = [j \in Jobs |-> 0]

-----------------------------------------------------------------------------
(* The calling thread.                                                       *)

Goto(from, to) == process = "up" /\ pc = from /\ pc' = to

\* A public member function is called: start(), abort() or wait_for_result().
Start ==
    /\ Goto("idle", "check") /\ op' = "start" /\ job < MaxJobs
    /\ UNCHANGED <<process, job, child_pid, joinable, aborted, schedulerVars, childVars, workerVars>>

Abort ==
    /\ Goto("idle", "check") /\ op' = "abort"
    /\ UNCHANGED <<process, job, child_pid, joinable, aborted, schedulerVars, childVars, workerVars>>

WaitForResult ==
    /\ Goto("idle", "join") /\ op' = "wait"
    /\ UNCHANGED <<process, job, child_pid, joinable, aborted, schedulerVars, childVars, workerVars>>

\* push_back() of whoever it is, a subscriber of old too.  It may reallocate the
\* vector under a worker that iterates over it: the worker goes on unharmed, to the
\* end it started with, or the program crashes.
AddSubscriber ==
    /\ process = "up" /\ pc = "idle" /\ subscribers < MaxSubscriptions
    /\ subscribers' = subscribers + 1
    /\ \/ process' = process
       \/ process' = "race" /\ \E j \in Jobs : wpc[j] = "notify"
    /\ UNCHANGED <<kind, pc, op, job, child_pid, joinable, aborted, childVars, workerVars>>

\* The object goes out of scope: ~std::thread() terminates if joinable.
Destroy ==
    /\ process = "up" /\ pc = "idle"
    /\ process' = IF joinable THEN "destroyed_joinable" ELSE "exited"
    /\ UNCHANGED <<pc, op, job, child_pid, joinable, aborted, schedulerVars, childVars, workerVars>>

\* UppaalExecutor::abort() returns res, to start() or to the user; Scheduler::abort()
\* turns FALSE into an AbortException, which leaves start() too.
ReturnFromAbort(res) ==
    /\ aborted' = res
    /\ pc' = IF op = "start" /\ res = "true" THEN "start_worker" ELSE "idle"
    /\ op' = IF op = "start" /\ res = "true" THEN op ELSE "none"

\* if (child_pid)
AbortCheck ==
    /\ process = "up" /\ pc = "check"
    /\ \/ child_pid # NoPid /\ pc' = "kill" /\ UNCHANGED <<op, aborted>>
       \/ child_pid = NoPid /\ ReturnFromAbort("true")
    /\ UNCHANGED <<process, job, child_pid, joinable, schedulerVars, childVars, workerVars>>

\* Seeded fault: kill(*child_pid, 0) probes the child and does not stop it.
AbortKillProbing ==
    /\ Goto("kill", "reset_pid")
    /\ UNCHANGED <<process, op, job, child_pid, joinable, aborted, schedulerVars, childVars, workerVars>>

\* kill(*child_pid, SIGTERM).  A reset optional keeps its payload, so this is the
\* last child even if the worker has reset child_pid since the check.  A zombie
\* still takes the signal; a child that is gone is ESRCH.  The -1 of a failed fork()
\* signals every process there is, or fails if there is none it may signal.
AbortKill ==
    /\ process = "up" /\ pc = "kill"
    /\ \/ /\ child[job] \in {"running", "nofork"} \cup Exits
          /\ pc' = "reset_pid"
          /\ termed' = [j \in Jobs |->
                \/ termed[j]
                \/ child[j] = "running" /\ (j = job \/ child[job] = "nofork")]
          /\ UNCHANGED <<op, aborted>>
       \/ /\ child[job] \in {"nofork", "reaped"}
          /\ ReturnFromAbort("false")
          /\ UNCHANGED termed
    /\ UNCHANGED <<process, job, child_pid, joinable, schedulerVars, child, total, pipe, workerVars>>

\* Seeded fault: abort() returns without joining the worker.
AbortResetPidUnjoined ==
    /\ process = "up" /\ pc = "reset_pid" /\ child_pid' = NoPid
    /\ ReturnFromAbort("true")
    /\ UNCHANGED <<process, job, joinable, schedulerVars, childVars, workerVars>>

\* Seeded fault: -1 is stored in the optional instead of resetting it.
AbortResetPidSentinel ==
    /\ Goto("reset_pid", "join") /\ child_pid' = -1
    /\ UNCHANGED <<process, op, job, joinable, aborted, schedulerVars, childVars, workerVars>>

AbortResetPid ==
    /\ Goto("reset_pid", "join") /\ child_pid' = NoPid
    /\ UNCHANGED <<process, op, job, joinable, aborted, schedulerVars, childVars, workerVars>>

\* Seeded fault: detach() in the place of join().
JoinDetaching ==
    /\ process = "up" /\ pc = "join"
    /\ joinable' = FALSE
    /\ \/ op = "wait" /\ pc' = "idle" /\ op' = "none" /\ UNCHANGED aborted
       \/ op # "wait" /\ ReturnFromAbort("true")
    /\ UNCHANGED <<process, job, child_pid, schedulerVars, childVars, workerVars>>

\* wait_for_result(): if (joinable()) join(), which returns once the worker has.
Join ==
    /\ process = "up" /\ pc = "join"
    /\ joinable => wpc[job] = "done"
    /\ joinable' = FALSE
    /\ \/ op = "wait" /\ pc' = "idle" /\ op' = "none" /\ UNCHANGED aborted
       \/ op # "wait" /\ ReturnFromAbort("true")
    /\ UNCHANGED <<process, job, child_pid, schedulerVars, childVars, workerVars>>

\* EtaExtractor::start_worker() gives up when there is no strategy file.
StartWorker ==
    /\ process = "up" /\ pc = "start_worker"
    /\ \/ pc' = "fork" /\ UNCHANGED op
       \/ kind = "eta" /\ pc' = "idle" /\ op' = "none"
    /\ UNCHANGED <<process, job, child_pid, joinable, aborted, schedulerVars, childVars, workerVars>>

\* execute(): both pipes and the fork.
Fork ==
    /\ Goto("fork", "set_pid")
    /\ job' = job + 1
    /\ aborted' = "none"
    /\ \E c \in {"running"} \cup (IF ForkMayFail THEN {"nofork"} ELSE {}), n \in Outputs :
         /\ child' = [child EXCEPT ![job + 1] = c]
         /\ total' = [total EXCEPT ![job + 1] = n]
    /\ UNCHANGED <<process, op, child_pid, joinable, schedulerVars, termed, pipe,
                   workerVars>>

\* child_pid = {pid}, and the parent closes the ends it does not use.
SetPid ==
    /\ Goto("set_pid", "spawn") /\ child_pid' = job
    /\ UNCHANGED <<process, op, job, joinable, aborted, schedulerVars, childVars, workerVars>>

\* Seeded fault: a worker that was not joined is detached before the assignment.
SpawnWorkerDetaching ==
    /\ Goto("spawn", "return") /\ joinable' = TRUE
    /\ wpc' = [wpc EXCEPT ![job] = "entry"]
    /\ UNCHANGED <<process, op, job, child_pid, aborted, schedulerVars, childVars,
                   got, target, intact, status, loopVars>>

\* worker = std::thread(...): assigning to a joinable thread calls std::terminate.
SpawnWorker ==
    /\ process = "up" /\ pc = "spawn"
    /\ \/ joinable /\ process' = "assigned_joinable" /\ UNCHANGED <<pc, joinable, wpc>>
       \/ /\ ~joinable /\ joinable' = TRUE
          /\ wpc' = [wpc EXCEPT ![job] = "entry"]
          /\ pc' = "return" /\ UNCHANGED process
    /\ UNCHANGED <<op, job, child_pid, aborted, schedulerVars, childVars,
                   got, target, intact, status, loopVars>>

\* execute(), start_worker() and start() return; the frame of execute() is gone.
ExecuteReturn ==
    /\ Goto("return", "idle") /\ op' = "none"
    /\ UNCHANGED <<process, job, child_pid, joinable, aborted, schedulerVars, childVars, workerVars>>

CallerStep ==
    AbortCheck \/ AbortKill \/ AbortResetPid \/ Join \/ StartWorker \/ Fork
    \/ SetPid \/ SpawnWorker \/ ExecuteReturn

Call == Start \/ Abort \/ WaitForResult \/ Destroy \/ AddSubscriber

-----------------------------------------------------------------------------
(* The verifyta process of job j.                                            *)

Written(j) == pipe[j] + got[j]

\* A write to a full pipe blocks.
ChildWrite(j) ==
    /\ process = "up" /\ child[j] = "running"
    /\ Written(j) < total[j] /\ pipe[j] < PipeCapacity
    /\ pipe' = [pipe EXCEPT ![j] = @ + 1]
    /\ UNCHANGED <<callerVars, child, termed, total, workerVars>>

\* A signal that is pending is gone with the process, and so is the output it has not
\* come to, which only matters of a child that ends well.
ChildEnds(j, e) ==
    /\ child' = [child EXCEPT ![j] = e]
    /\ termed' = [termed EXCEPT ![j] = FALSE]
    /\ total' = [total EXCEPT ![j] = IF e = "ok" THEN @ ELSE 0]

ChildExit(j) ==
    /\ process = "up" /\ child[j] = "running" /\ Written(j) = total[j]
    /\ ChildEnds(j, "ok")
    /\ UNCHANGED <<callerVars, pipe, workerVars>>

\* verifyta exits with an error, or dies by a signal; a failed execlp() throws in
\* the forked copy of the program, which ends it with SIGABRT.
ChildFail(j) ==
    /\ process = "up" /\ child[j] = "running"
    /\ \E e \in {"error", "signaled"} : ChildEnds(j, e)
    /\ UNCHANGED <<callerVars, pipe, workerVars>>

\* SIGTERM takes effect.
ChildTerminated(j) ==
    /\ process = "up" /\ child[j] = "running" /\ termed[j]
    /\ ChildEnds(j, "signaled")
    /\ UNCHANGED <<callerVars, pipe, workerVars>>

ChildProgress(j) == ChildWrite(j) \/ ChildExit(j)

\* The worker of another scheduler, whose captured pid is as uncertain, waits for
\* this child.
ChildStolen(j) ==
    /\ process = "up" /\ child[j] \in Exits
    /\ child' = [child EXCEPT ![j] = "reaped"]
    /\ intact' = FALSE
    /\ UNCHANGED <<callerVars, termed, total, pipe, got, wpc, target, status, loopVars>>

-----------------------------------------------------------------------------
(* The worker thread of job j: the lambda in execute().                      *)

WorkerGoto(j, from, to) ==
    process = "up" /\ wpc[j] = from /\ wpc' = [wpc EXCEPT ![j] = to]

\* The lambda captured the local variable pid of execute() by reference: its value
\* is certain only while that frame lives.
FrameLives(j) == pc = "return" /\ job = j

\* What execute() stored in pid.
Stored(j) == IF child[j] = "nofork" THEN AnyPid ELSE j

\* Once the frame is gone the memory holds anything: the pid of this or of another
\* child, of another scheduler's or of none, or 0 or -1, which stand for any child.
WorkerReadPid(j) ==
    /\ WorkerGoto(j, "entry", "waitpid")
    /\ \E p \in {Stored(k) : k \in 1 .. job} \cup {AnyPid, StrayPid} :
         /\ FrameLives(j) => p = Stored(j)
         /\ target' = [target EXCEPT ![j] = p]
         /\ intact' = (intact /\ p = Stored(j))
    /\ UNCHANGED <<callerVars, childVars, got, status, loopVars>>

\* The children of this executor that waitpid(pid, ...) waits for.
Awaited(j) == IF target[j] = AnyPid THEN Jobs ELSE {target[j]} \cap Jobs

\* Seeded fault: waitpid() with WNOHANG returns although the child is running.
WorkerWaitpidNoHang(j) ==
    /\ WorkerGoto(j, "waitpid", "reset")
    /\ target' = [target EXCEPT ![j] = NoPid]
    /\ status' = [status EXCEPT ![j] = IF child[j] \in Exits THEN child[j] ELSE "ok"]
    /\ child' = [child EXCEPT ![j] = IF @ \in Exits THEN "reaped" ELSE @]
    /\ UNCHANGED <<callerVars, termed, total, pipe, got, intact, loopVars>>

\* waitpid(pid, &status, 0) blocks until a child it waits for has ended.  One of
\* another scheduler may be among them, or there is none and it fails, which leaves in
\* status what was on the stack: then status may be anything.
WorkerWaitpid(j) ==
    /\ WorkerGoto(j, "waitpid", "reset")
    /\ target' = [target EXCEPT ![j] = NoPid]
    /\ \/ \E k \in Awaited(j) :
            /\ child[k] \in Exits
            /\ child' = [child EXCEPT ![k] = "reaped"]
            /\ status' = [status EXCEPT ![j] = child[k]]
       \/ /\ target[j] \in {AnyPid, StrayPid} \/ \E k \in Awaited(j) : child[k] = "reaped"
          /\ \E e \in Exits : status' = [status EXCEPT ![j] = e]
          /\ UNCHANGED child
    /\ UNCHANGED <<callerVars, termed, total, pipe, got, intact, loopVars>>

\* child_pid = std::nullopt, whatever it holds by now.
WorkerReset(j) ==
    /\ WorkerGoto(j, "reset", "status") /\ child_pid' = NoPid
    /\ UNCHANGED <<process, pc, op, job, joinable, aborted, schedulerVars, childVars,
                   got, target, intact, status, loopVars>>

\* The lambda returns, or an exception leaves it, and its locals are gone.
WorkerEnds(j, from) ==
    /\ WorkerGoto(j, from, "done")
    /\ got' = [got EXCEPT ![j] = 0] /\ status' = [status EXCEPT ![j] = "none"]
    /\ visited' = [visited EXCEPT ![j] = 0] /\ last' = [last EXCEPT ![j] = 0]

\* WIFSIGNALED: leave.  An error status throws out of the thread, which terminates
\* the program.
WorkerStatus(j) ==
    /\ \/ /\ status[j] = "signaled" /\ WorkerGoto(j, "status", "reset_again")
          /\ UNCHANGED <<process, got, status, visited, last>>
       \/ status[j] = "error" /\ WorkerEnds(j, "status") /\ process' = "uncaught"
       \/ /\ status[j] = "ok" /\ WorkerGoto(j, "status", "read")
          /\ UNCHANGED <<process, got, status, visited, last>>
    /\ UNCHANGED <<pc, op, job, child_pid, joinable, aborted, schedulerVars, childVars,
                   target, intact, received>>

WorkerResetAgain(j) ==
    /\ WorkerEnds(j, "reset_again") /\ child_pid' = NoPid
    /\ UNCHANGED <<process, pc, op, job, joinable, aborted, schedulerVars, childVars,
                   target, intact, received>>

\* read(): what the pipe holds, else end of file once no process can write to it.
WorkerRead(j) ==
    /\ process = "up" /\ wpc[j] = "read"
    /\ \/ /\ pipe[j] > 0
          /\ got' = [got EXCEPT ![j] = @ + pipe[j]] /\ pipe' = [pipe EXCEPT ![j] = 0]
          /\ UNCHANGED wpc
       \/ /\ pipe[j] = 0 /\ child[j] # "running"
          /\ wpc' = [wpc EXCEPT ![j] = "callback"]
          /\ UNCHANGED <<got, pipe>>
    /\ UNCHANGED <<callerVars, child, termed, total, target, intact, status, loopVars>>

\* The callback of start_worker(): an output it cannot read makes the parser throw
\* (schedules) or is passed over (eta); else the notification loop starts.
WorkerCallback(j) ==
    /\ \/ /\ WorkerGoto(j, "callback", "notify")
          /\ last' = [last EXCEPT ![j] = subscribers]
          /\ UNCHANGED <<process, got, status, visited>>
       \/ /\ WorkerEnds(j, "callback")
          /\ process' = IF kind = "schedule" THEN "uncaught" ELSE process
    /\ UNCHANGED <<pc, op, job, child_pid, joinable, aborted, schedulerVars, childVars,
                   target, intact, received>>

\* notify_subscribers(), one subscription after the other: lock() fails if the
\* subscriber is gone.
WorkerNotify(j) ==
    /\ \/ /\ visited[j] < last[j] /\ WorkerGoto(j, "notify", "notify")
          /\ visited' = [visited EXCEPT ![j] = @ + 1]
          /\ \/ received' = [received EXCEPT ![j] = Append(@, visited[j] + 1)]
             \/ UNCHANGED received
          /\ UNCHANGED <<got, status, last>>
       \/ visited[j] = last[j] /\ WorkerEnds(j, "notify") /\ UNCHANGED received
    /\ UNCHANGED <<callerVars, childVars, target, intact>>

WorkerStep(j) ==
    WorkerReadPid(j) \/ WorkerWaitpid(j) \/ WorkerReset(j) \/ WorkerStatus(j)
    \/ WorkerResetAgain(j) \/ WorkerRead(j) \/ WorkerCallback(j) \/ WorkerNotify(j)

-----------------------------------------------------------------------------
\* The program has ended: nothing happens any more.
Ended == process # "up" /\ UNCHANGED vars

Next ==
    \/ Call
    \/ CallerStep
    \/ \E j \in Jobs : \/ ChildProgress(j) \/ ChildFail(j) \/ ChildTerminated(j)
                     \/ ChildStolen(j) \/ WorkerStep(j)
    \/ Ended

Spec == Init /\ [][Next]_vars

\* The scheduler of the operating system runs every thread and process that can run;
\* nobody has to call anything.  That verifyta comes to an end is assumed of it.
Fairness ==
    /\ WF_vars(CallerStep)
    /\ \A j \in Jobs : WF_vars(WorkerStep(j)) /\ WF_vars(ChildProgress(j))
                       /\ WF_vars(ChildTerminated(j))

FairSpec == Spec /\ Fairness

-----------------------------------------------------------------------------
(* What the design promises.                                                 *)

Busy(j) == wpc[j] \notin {"none", "done"}

\* The last job whose worker thread has been started.
Launched == IF pc \in {"set_pid", "spawn"} THEN job - 1 ELSE job

\* At most one worker thread exists, it belongs to the last job that got one, and
\* worker is the handle on it: no thread is ever lost track of, even when start()
\* follows an abort() that did not join (then the program ends instead).
OneWorker == \A j \in Jobs : Busy(j) => j = Launched /\ joinable

\* Once abort() has returned true, and until the next execute(), no verifyta started
\* by this executor is running, as long as the workers waited for their own children.
AbortLeavesNoChild ==
    intact /\ aborted = "true" => \A j \in Jobs : child[j] # "running"

\* When execute() forks a child, every earlier child has been reaped: executions of
\* verifyta never overlap and leave no zombies, as long as the workers waited for their
\* own children.
EarlierChildrenReaped ==
    intact => \A j \in Jobs : j < job => child[j] \in {"reaped", "nofork"}

\* The callback runs on the whole output of a verifyta that ended well; it is never
\* given the truncated output of one that was aborted or crashed, as long as the
\* workers waited for their own children.
CallbackSeesWholeOutput ==
    intact => \A j \in Jobs :
      wpc[j] \in {"callback", "notify"} /\ child[j] # "nofork"
        => child[j] = "reaped" /\ status[j] = "ok" /\ got[j] = total[j]

\* abort() returns, even if verifyta is blocked on a pipe that nobody reads.
AbortReturns ==
    pc = "check" ~> pc \in {"idle", "start_worker"} \/ process # "up" \/ ~intact

\* wait_for_result() returns, or the program ends, unless the output is larger than
\* the pipe: the worker reads only after waitpid(), so such a verifyta never exits.
\* After a failed fork() the worker waits for the children of other schedulers.
WaitReturns ==
    pc = "join" /\ op = "wait"
      ~> \/ pc # "join" \/ process # "up" \/ ~intact
         \/ job > 0 /\ (total[job] > PipeCapacity \/ child[job] = "nofork")

\* The two calls that block do return.
CallsReturn == AbortReturns /\ WaitReturns

\* What subscribers see is a ScheduleFeed: of a schedule each subscription is told at
\* most once, never of an outdated one and never after the abort() or wait_for_result()
\* that joined its worker, through every interleaving of start(), abort() and the
\* worker of a former job, and whatever the workers waited for.
Feed == INSTANCE ScheduleFeed WITH
          started <- Launched, open <- joinable, told <- received, up <- (process = "up")

ImplementsFeed == Feed!FeedSpec

-----------------------------------------------------------------------------
(* What comments in the source say, and the code does not do.                *)

\* uppaal_executor.cpp: abort() is to "force join the thread to reset thread state":
\* once it has returned true, worker can be assigned again.
AbortResetsThread == aborted = "true" => ~joinable

\* uppaal_executor.hpp: abort() returns "true if aborted successfully or there was
\* nothing to abort": no verifyta that this executor started is running then.
AbortedOrNothingToAbort == aborted = "true" => \A j \in Jobs : child[j] # "running"
=============================================================================
