---------------------------- MODULE BackgroundTasks ----------------------------
(***************************************************************************)
(* Background tasks of the plug-in: BE_BackgroundTaskAdd starts a detached *)
(* worker thread that performs one HTTP request and queues the SQL that    *)
(* stores its result; the host's thread takes the queue over and executes  *)
(* it, at idle (FileMaker 13 and later) and inside every call of           *)
(* BE_BackgroundTaskAdd and BE_BackgroundTaskList.  The module also holds  *)
(* the two things the tasks share with the rest of the plug-in: the single *)
(* slot for a deferred DDL statement (which BE_FileMakerSQL uses too) and  *)
(* libcurl's global reference count.                                       *)
(*                                                                         *)
(* Threads: the host's thread (program counter "host") and one worker per  *)
(* task ("worker").  A step of the host is what it does between two        *)
(* accesses to something a worker touches as well: the mutex around the    *)
(* queue, the shared_ptr to the task's BECurl, libcurl's count.            *)
(*                                                                         *)
(* Abstracted: the SQL text is its kind ("none" for the empty statement,   *)
(* "dml" for what is executed at once, "ddl" for ALTER/CREATE/DROP), the   *)
(* HTTP exchange is its outcome, time is "at some later step".             *)
(***************************************************************************)
EXTENDS Naturals, Sequences, FiniteSets

CONSTANTS
    MaxTasks,   \* bound on the number of task ids issued
    Calls,      \* the invocations of BE_FileMakerSQL, each made at most once
    NoCommand   \* g_ddl_command.get() == 0

TaskId == 1..MaxTasks
Statement == TaskId \cup Calls
SqlKind == {"none", "dml", "ddl"}
ResultRecord == [sql : SqlKind, id : TaskId]

ASSUME MaxTasksAssumption == MaxTasks \in Nat
ASSUME CallsAssumption == Calls \cap TaskId = {}
ASSUME NoCommandAssumption == NoCommand \notin Statement

VARIABLES
    modern,           \* gFMX_ExternCallPtr->extnVersion >= k130ExtnVersion
    host,             \* what the host's thread is doing
    call,             \* the entry point it is inside
    background_tasks, \* g_background_tasks: the ids ever issued
    completed,        \* g_completed_background_tasks: how often each id occurs
    queue,            \* g_background_task_results, guarded by its mutex
    batch,            \* the local deque of execute_queued_background_task_sql
    worker,           \* the worker thread of each task
    new_id,           \* the id the latest BE_BackgroundTaskAdd issued
    add_outcome,      \* what the latest BE_BackgroundTaskAdd returned
    sql_of,           \* the sql parameter captured by the worker
    curl_error,       \* BECurl::error of each task's transfer
    curl_refs,        \* libcurl's global initialisation count
    ddl_command,      \* g_ddl_command
    called,           \* the BE_FileMakerSQL invocations made so far
    listed,           \* the ids the latest BE_BackgroundTaskList returned
    (* History variables, read by properties only. *)
    arrivals,         \* every record ever queued, in the order of queueing
    executed,         \* how often each statement reached ExecuteFileSQL
    thrown,           \* the tasks whose statement threw before it got that far
    due,              \* the tasks queued when the latest List call began
    cleanup_thread    \* the thread whose curl_global_cleanup reached zero

hostVars == <<host, call, new_id, add_outcome, listed>>
taskVars == <<background_tasks, completed, worker, sql_of, curl_error>>
queueVars == <<queue, batch, arrivals>>
sqlVars == <<ddl_command, executed, thrown, called>>
curlVars == <<curl_refs, cleanup_thread>>
vars == <<modern, hostVars, taskVars, queueVars, sqlVars, curlVars, due>>

Live == {"sleeping", "downloaded", "queued"}   \* the lambda still holds curl
Ids(s) == {s[i].id : i \in DOMAIN s}
IsCompleted(id) == completed[id] > 0

TypeOK ==
    /\ modern \in BOOLEAN
    /\ host \in {"ready", "draining", "spawning", "returning", "unloaded"}
    /\ call \in {"none", "add", "list", "idle"}
    /\ background_tasks \in SUBSET TaskId
    /\ completed \in [TaskId -> Nat]
    /\ queue \in Seq(ResultRecord)
    /\ batch \in Seq(ResultRecord)
    /\ worker \in [TaskId -> Live \cup {"none", "done"}]
    /\ new_id \in TaskId \cup {0}
    /\ add_outcome \in {"none", "ok", "error"}
    /\ sql_of \in [TaskId -> SqlKind]
    /\ curl_error \in [TaskId -> {"ok", "failed"}]
    /\ curl_refs \in Nat
    /\ ddl_command \in Statement \cup {NoCommand}
    /\ called \in SUBSET Calls
    /\ listed \in SUBSET TaskId
    /\ arrivals \in Seq(ResultRecord)
    /\ executed \in [Statement -> Nat]
    /\ thrown \in SUBSET TaskId
    /\ due \in SUBSET TaskId
    /\ cleanup_thread \in {"none", "host", "worker"}

\* Mutant: LoadPlugin without AcquireCurlGlobalReference.
CurlRefsWithoutAcquire == 0

\* The plug-in has just been loaded: LoadPlugin took one libcurl reference.
CurlRefsAfterLoad == 1

Init ==
    /\ modern \in BOOLEAN
    /\ host = "ready"
    /\ call = "none"
    /\ background_tasks = {}
    /\ completed = [id \in TaskId |-> 0]
    /\ queue = <<>>
    /\ batch = <<>>
    /\ worker = [id \in TaskId |-> "none"]
    /\ new_id = 0
    /\ add_outcome = "none"
    /\ sql_of = [id \in TaskId |-> "none"]
    /\ curl_error = [id \in TaskId |-> "ok"]
    /\ curl_refs = CurlRefsAfterLoad
    /\ ddl_command = NoCommand
    /\ called = {}
    /\ listed = {}
    /\ arrivals = <<>>
    /\ executed = [s \in Statement |-> 0]
    /\ thrown = {}
    /\ due = {}
    /\ cleanup_thread = "none"

-----------------------------------------------------------------------------
(* Building blocks shared by several actions. *)

\* curl_global_cleanup on thread t; the one that reaches zero frees libcurl.
ReleaseCurlGlobal(t) ==
    /\ curl_refs' = curl_refs - 1
    /\ cleanup_thread' = IF curl_refs = 1 THEN t ELSE cleanup_thread

\* Mutant: the worker counts as gone once it has handed its result over.
HostIsLastHolderEarly(id) == worker[id] \in {"queued", "done"}

\* The worker has left the lambda, so the host's shared_ptr is the last one.
HostIsLastHolder(id) == worker[id] = "done"

\* Mutant: the worker destroys BECurl whoever else holds it.
WorkerAlwaysDestroys(id) == TRUE

\* The host's local shared_ptr is gone, so the lambda's is the last one.
WorkerIsLastHolder(id) == ~(host = "returning" /\ new_id = id)

\* BESQLCommand::execute on a command that is not waiting: a DDL statement
\* replaces whatever the slot holds, anything else runs at once.
ExecuteSql(kind, s) ==
    \/ /\ kind = "dml"
       /\ executed' = [executed EXCEPT ![s] = @ + 1]
       /\ UNCHANGED <<ddl_command, thrown>>
    \/ /\ kind = "ddl"
       /\ ddl_command' = s
       /\ UNCHANGED <<executed, thrown>>

\* Building the command, fetching the environment or copying a DDL statement
\* throws: nothing has run, and the slot holds what it held.
StatementThrows(id) ==
    /\ thrown' = thrown \cup {id}
    /\ UNCHANGED <<executed, ddl_command>>

\* Mutant: the version check of the idle handler repeated in the drain loop.
ExecuteResultIfModern(r) ==
    \/ modern /\ r.sql # "none" /\ (ExecuteSql(r.sql, r.id) \/ StatementThrows(r.id))
    \/ (~modern \/ r.sql = "none") /\ UNCHANGED <<ddl_command, executed, thrown>>

\* The body of the drain loop: the statement, if there is one, runs, waits in
\* the slot or throws, which is swallowed.
ExecuteResult(r) ==
    \/ r.sql # "none" /\ (ExecuteSql(r.sql, r.id) \/ StatementThrows(r.id))
    \/ r.sql = "none" /\ UNCHANGED <<ddl_command, executed, thrown>>

MarkCompleted(id) == completed' = [completed EXCEPT ![id] = @ + 1]

\* Mutant: the queue is copied, not swapped.
CopyQueue == batch' = queue /\ UNCHANGED <<queue, arrivals>>

\* The whole queue moves to the local batch under the mutex.
SwapOutQueue ==
    /\ batch' = queue
    /\ queue' = <<>>
    /\ UNCHANGED arrivals

\* Mutant: push_front for push_back.
QueueResultFirst(r) ==
    /\ queue' = <<r>> \o queue
    /\ arrivals' = Append(arrivals, r)
    /\ UNCHANGED batch

\* push_back under the mutex, by a worker.
QueueResult(r) ==
    /\ queue' = Append(queue, r)
    /\ arrivals' = Append(arrivals, r)
    /\ UNCHANGED batch

\* Mutant: the largest id looked for among the pending tasks only.
IsNextPendingId(id) ==
    LET pending == {j \in background_tasks : ~IsCompleted(j)} IN
    /\ \A j \in pending : j < id
    /\ id = 1 \/ id - 1 \in pending

\* 1 + max_element of the ids issued so far, 1 for the first.
IsNextId(id) ==
    /\ \A j \in background_tasks : j < id
    /\ id = 1 \/ id - 1 \in background_tasks

-----------------------------------------------------------------------------
(* The host's thread. *)

Begin(c) ==
    /\ host = "ready"
    /\ host' = "draining"
    /\ call' = c

Return ==
    /\ host' = "ready"
    /\ call' = "none"

\* BE_BackgroundTaskAdd up to the swap inside the drain it starts with.
StartAdd ==
    /\ \E id \in TaskId : IsNextId(id)
    /\ Begin("add")
    /\ SwapOutQueue
    /\ UNCHANGED <<modern, new_id, add_outcome, listed, taskVars, sqlVars, curlVars, due>>

\* Mutant: List reports without draining the queue first.
StartListWithoutDrain ==
    /\ Begin("list")
    /\ due' = Ids(arrivals)
    /\ UNCHANGED <<modern, new_id, add_outcome, listed, taskVars, queueVars, sqlVars, curlVars>>

\* BE_BackgroundTaskList up to the swap inside the drain it starts with.
StartList ==
    /\ Begin("list")
    /\ SwapOutQueue
    /\ due' = Ids(arrivals)
    /\ UNCHANGED <<modern, new_id, add_outcome, listed, taskVars, sqlVars, curlVars>>

\* Mutant: g_ddl_command is not reset after it ran.
RunDeferredDdlAgain ==
    /\ UNCHANGED ddl_command
    /\ IF ddl_command = NoCommand THEN UNCHANGED executed
       ELSE executed' = [executed EXCEPT ![ddl_command] = @ + 1]

\* Mutant: idle drains the queue only.
RunDeferredDdlNever == UNCHANGED <<executed, ddl_command>>

\* The deferred DDL statement is executed with waiting = true and dropped.
RunDeferredDdl ==
    \/ /\ ddl_command # NoCommand
       /\ executed' = [executed EXCEPT ![ddl_command] = @ + 1]
       /\ ddl_command' = NoCommand
    \/ /\ ddl_command = NoCommand
       /\ UNCHANGED <<executed, ddl_command>>

\* Hosts before FileMaker 13 crash when SQL runs at idle.
IdleMayRunSql == modern

\* kFMXT_Idle at a safe moment, up to the swap inside the drain.
StartIdle ==
    /\ IdleMayRunSql
    /\ Begin("idle")
    /\ RunDeferredDdl
    /\ SwapOutQueue
    /\ UNCHANGED <<modern, new_id, add_outcome, listed, taskVars, thrown, called, curlVars, due>>

\* Mutant: the catch is outside the loop, so an exception ends it.
DrainTaskThenStop ==
    /\ host = "draining"
    /\ batch # <<>>
    /\ ExecuteResult(Head(batch))
    /\ MarkCompleted(Head(batch).id)
    /\ batch' = IF thrown' = thrown THEN Tail(batch) ELSE <<>>
    /\ UNCHANGED <<modern, hostVars, background_tasks, worker, sql_of, curl_error,
                   queue, arrivals, called, curlVars, due>>

\* One turn of the loop of execute_queued_background_task_sql: the task is
\* marked completed whatever became of its statement.
DrainTask ==
    /\ host = "draining"
    /\ batch # <<>>
    /\ ExecuteResult(Head(batch))
    /\ MarkCompleted(Head(batch).id)
    /\ batch' = Tail(batch)
    /\ UNCHANGED <<modern, hostVars, background_tasks, worker, sql_of, curl_error,
                   queue, arrivals, called, curlVars, due>>

Drained(c) ==
    /\ host = "draining"
    /\ batch = <<>>
    /\ call = c

\* The id is issued before the parameters are read and BECurl is built.
IssueId(id) ==
    /\ IsNextId(id)
    /\ background_tasks' = background_tasks \cup {id}
    /\ new_id' = id

\* The parameters were read and BECurl is built: one more libcurl reference.
BuildTask ==
    /\ Drained("add")
    /\ \E id \in TaskId : IssueId(id)
    /\ host' = "spawning"
    /\ curl_refs' = curl_refs + 1
    /\ UNCHANGED <<modern, call, add_outcome, listed, completed, worker, sql_of, curl_error,
                   queueVars, sqlVars, cleanup_thread, due>>

\* A parameter or the BECurl constructor throws.  When it throws after
\* curl_global_init, no destructor gives the libcurl reference back.
FailToBuildTask ==
    /\ Drained("add")
    /\ \E id \in TaskId : IssueId(id)
    /\ Return
    /\ add_outcome' = "error"
    /\ curl_refs' \in {curl_refs, curl_refs + 1}
    /\ UNCHANGED <<modern, listed, completed, worker, sql_of, curl_error,
                   queueVars, sqlVars, cleanup_thread, due>>

\* std::thread starts; the lambda holds the second shared_ptr.
SpawnWorker ==
    /\ host = "spawning"
    /\ host' = "returning"
    /\ worker' = [worker EXCEPT ![new_id] = "sleeping"]
    /\ \E kind \in SqlKind : sql_of' = [sql_of EXCEPT ![new_id] = kind]
    /\ UNCHANGED <<modern, call, new_id, add_outcome, listed, background_tasks, completed,
                   curl_error, queueVars, sqlVars, curlVars, due>>

\* std::thread throws: both shared_ptrs unwind and ~BECurl runs here.
FailToSpawn ==
    /\ host = "spawning"
    /\ Return
    /\ add_outcome' = "error"
    /\ ReleaseCurlGlobal("host")
    /\ UNCHANGED <<modern, new_id, listed, taskVars, queueVars, sqlVars, due>>

\* The host drops its shared_ptr.  As the last holder it runs ~BECurl, which
\* overwrites g_last_error, and MapError then reports the transfer's error.
ReturnFromAdd ==
    /\ host = "returning"
    /\ Return
    /\ \/ /\ HostIsLastHolder(new_id)
          /\ ReleaseCurlGlobal("host")
          /\ add_outcome' = IF curl_error[new_id] = "ok" THEN "ok" ELSE "error"
       \/ /\ ~HostIsLastHolder(new_id)
          /\ add_outcome' = "ok"
          /\ UNCHANGED curlVars
    /\ UNCHANGED <<modern, new_id, listed, taskVars, queueVars, sqlVars, due>>

\* set_difference of the sorted vectors: the ids issued but not completed.
PendingTasks == {id \in background_tasks : ~IsCompleted(id)}

ReturnFromList ==
    /\ Drained("list")
    /\ Return
    /\ listed' = PendingTasks
    /\ UNCHANGED <<modern, new_id, add_outcome, taskVars, queueVars, sqlVars, curlVars, due>>

ReturnFromIdle ==
    /\ Drained("idle")
    /\ Return
    /\ UNCHANGED <<modern, new_id, add_outcome, listed, taskVars, queueVars, sqlVars, curlVars, due>>

\* BE_FileMakerSQL; for a DDL statement it reports success at once.  (A call
\* that throws returns an error and changes nothing here: no step.)
FileMakerSQL(c, kind) ==
    /\ host = "ready"
    /\ c \notin called
    /\ called' = called \cup {c}
    /\ ExecuteSql(kind, c)
    /\ UNCHANGED <<modern, hostVars, taskVars, queueVars, curlVars, due>>

\* kFMXT_Shutdown: nothing waits for the workers.
UnloadPlugin ==
    /\ host = "ready"
    /\ host' = "unloaded"
    /\ ReleaseCurlGlobal("host")
    /\ UNCHANGED <<modern, call, new_id, add_outcome, listed, taskVars, queueVars, sqlVars, due>>

-----------------------------------------------------------------------------
(* A worker thread. *)

\* sleep_until and curl->download(), which catches the transfer's error.
Download(id) ==
    /\ worker[id] = "sleeping"
    /\ worker' = [worker EXCEPT ![id] = "downloaded"]
    /\ \E e \in {"ok", "failed"} : curl_error' = [curl_error EXCEPT ![id] = e]
    /\ UNCHANGED <<modern, hostVars, background_tasks, completed, sql_of, queueVars,
                   sqlVars, curlVars, due>>

\* The result is substituted into the statement and handed over.
QueueSql(id) ==
    /\ worker[id] = "downloaded"
    /\ worker' = [worker EXCEPT ![id] = "queued"]
    /\ QueueResult([sql |-> sql_of[id], id |-> id])
    /\ UNCHANGED <<modern, hostVars, background_tasks, completed, sql_of, curl_error,
                   sqlVars, curlVars, due>>

\* Mutant: the handler swallows the exception and queues nothing.
QueueNoFailure(id) ==
    /\ worker[id] \in {"sleeping", "downloaded"}
    /\ worker' = [worker EXCEPT ![id] = "queued"]
    /\ UNCHANGED <<modern, hostVars, background_tasks, completed, sql_of, curl_error,
                   queueVars, sqlVars, curlVars, due>>

\* catch ( ... ): an empty statement still marks the task completed.
QueueFailure(id) ==
    /\ worker[id] \in {"sleeping", "downloaded"}
    /\ worker' = [worker EXCEPT ![id] = "queued"]
    /\ QueueResult([sql |-> "none", id |-> id])
    /\ UNCHANGED <<modern, hostVars, background_tasks, completed, sql_of, curl_error,
                   sqlVars, curlVars, due>>

\* The lambda is destroyed; as the last holder it runs ~BECurl on the worker.
ExitWorker(id) ==
    /\ worker[id] = "queued"
    /\ worker' = [worker EXCEPT ![id] = "done"]
    /\ \/ WorkerIsLastHolder(id) /\ ReleaseCurlGlobal("worker")
       \/ ~WorkerIsLastHolder(id) /\ UNCHANGED curlVars
    /\ UNCHANGED <<modern, hostVars, background_tasks, completed, sql_of, curl_error,
                   queueVars, sqlVars, due>>

-----------------------------------------------------------------------------

\* The plug-in is unloaded and every worker is gone.
Terminated ==
    /\ host = "unloaded"
    /\ \A id \in TaskId : worker[id] \notin Live
    /\ UNCHANGED vars

HostStep ==
    \/ DrainTask
    \/ BuildTask \/ FailToBuildTask
    \/ SpawnWorker \/ FailToSpawn
    \/ ReturnFromAdd \/ ReturnFromList \/ ReturnFromIdle

HostCall ==
    \/ StartAdd \/ StartList \/ StartIdle
    \/ \E c \in Calls, kind \in {"dml", "ddl"} : FileMakerSQL(c, kind)
    \/ UnloadPlugin

WorkerStep(id) == Download(id) \/ QueueSql(id) \/ QueueFailure(id) \/ ExitWorker(id)

Next ==
    \/ HostStep
    \/ HostCall
    \/ \E id \in TaskId : WorkerStep(id)
    \/ Terminated

Spec == Init /\ [][Next]_vars

(* Fairness: a call that began runs to its end, an operating-system thread is
   scheduled and libcurl returns from a transfer, and a host whose version calls
   the plug-in at idle keeps doing so whenever it is not inside a call. *)
Fairness ==
    /\ WF_vars(HostStep)
    /\ \A id \in TaskId : WF_vars(WorkerStep(id))
    /\ SF_vars(StartIdle)

FairSpec == Spec /\ Fairness

-----------------------------------------------------------------------------
(* The inductive invariant: where every queued result is. *)

NumDrained == Len(arrivals) - (Len(batch) + Len(queue))

\* The results queued so far are, in order: the drained ones, the rest of the
\* local batch, the queue.
ArrivalsSplit ==
    /\ Len(batch) + Len(queue) <= Len(arrivals)
    /\ \A i \in 1..Len(batch) : batch[i] = arrivals[NumDrained + i]
    /\ \A i \in 1..Len(queue) : queue[i] = arrivals[NumDrained + Len(batch) + i]

\* No task queues two results, whichever way its worker ended.
ArrivalsUnique ==
    \A i, j \in 1..Len(arrivals) : arrivals[i].id = arrivals[j].id => i = j

\* A worker past its hand-over has its result among the arrivals; no other has.
ArrivalsAreHandOvers ==
    \A id \in TaskId :
        worker[id] \in {"queued", "done"} <=> \E i \in 1..Len(arrivals) : arrivals[i].id = id

\* A task is marked completed once if its result was drained, else never.
CompletedAreDrained ==
    \A id \in TaskId :
        /\ completed[id] <= 1
        /\ completed[id] = 1 <=> \E i \in 1..NumDrained : arrivals[i].id = id

\* A task's statement runs at most once, and not before its result is drained.
\* One that threw is not tried again.
TaskSqlOnce ==
    \A id \in TaskId :
        /\ executed[id] <= 1
        /\ executed[id] = 1 => completed[id] = 1
        /\ ddl_command = id => completed[id] = 1 /\ executed[id] = 0
        /\ id \in thrown => completed[id] = 1 /\ executed[id] = 0 /\ ddl_command # id

\* The same for the statements of BE_FileMakerSQL.
CallSqlOnce ==
    \A c \in Calls :
        /\ executed[c] <= 1
        /\ c \notin called => executed[c] = 0 /\ ddl_command # c
        /\ ddl_command = c => executed[c] = 0

\* Only issued tasks have workers; the one being added is past the last step.
WorkersAreIssued ==
    /\ \A id \in TaskId : worker[id] # "none" => id \in background_tasks
    /\ host \in {"spawning", "returning"} => new_id \in background_tasks
    /\ host = "spawning" => worker[new_id] = "none"
    /\ host = "returning" => worker[new_id] # "none"

\* The local batch exists only while execute_queued_background_task_sql runs.
BatchIsLocal == host # "draining" => batch = <<>>

\* Together: every result a worker queued is in exactly one place (drained,
\* batch or queue) whatever the interleaving of the workers' push_back with the
\* host's swap and drain loop.
DrainInv ==
    /\ ArrivalsSplit
    /\ ArrivalsUnique
    /\ ArrivalsAreHandOvers
    /\ CompletedAreDrained
    /\ TaskSqlOnce
    /\ CallSqlOnce
    /\ WorkersAreIssued
    /\ BatchIsLocal

-----------------------------------------------------------------------------
(* Safety properties. *)

\* No statement reaches FileMaker's SQL engine twice, whether a task queued it
\* or BE_FileMakerSQL deferred it, and no task is marked completed twice.
AtMostOnce ==
    /\ \A s \in Statement : executed[s] <= 1
    /\ \A id \in TaskId : completed[id] <= 1

\* Results are applied in the order in which the workers queued them.
FirstInFirstOut ==
    \A i, j \in DOMAIN arrivals :
        i < j /\ IsCompleted(arrivals[j].id) => IsCompleted(arrivals[i].id)

\* A result a worker handed over is never dropped between the queue, the local
\* batch and the list of completed tasks.
HandedOverIsKept ==
    \A id \in Ids(arrivals) : IsCompleted(id) \/ id \in Ids(queue) \cup Ids(batch)

\* After result i, another statement may have been put into the slot: that of a
\* later result, drained by now, or one of BE_FileMakerSQL.
SlotWasTaken(i) ==
    \/ called # {}
    \/ \E j \in DOMAIN arrivals :
           /\ j > i /\ arrivals[j].sql = "ddl"
           /\ IsCompleted(arrivals[j].id) /\ arrivals[j].id \notin thrown

\* What it can mean that a task is completed: its statement has run, once.  One
\* that is DDL may also wait in the slot, and can only be lost to another one
\* that took the slot.  If it threw, it has not run, does not wait and will not
\* be tried again: the exception is swallowed (BESQLCommand.cpp:68) and a script
\* cannot tell such a task from one that ran.  A task that failed runs nothing.
CompletionExplained ==
    \A i \in DOMAIN arrivals :
        LET id == arrivals[i].id
            no_effect == executed[id] = 0 /\ ddl_command # id
        IN
        IsCompleted(id) =>
            \/ arrivals[i].sql = "dml" /\ id \notin thrown /\ executed[id] = 1
            \/ /\ arrivals[i].sql = "ddl" /\ id \notin thrown
               /\ executed[id] = 1 \/ ddl_command = id \/ SlotWasTaken(i)
            \/ arrivals[i].sql # "none" /\ id \in thrown /\ no_effect
            \/ arrivals[i].sql = "none" /\ id \notin thrown /\ no_effect

\* BE_BackgroundTaskList does not report a task whose result was queued before
\* the call began.
ListIsFresh == call # "list" => listed \cap due = {}

\* The BECurl objects alive in a thread.
BuiltTasks ==
    {id \in TaskId : worker[id] \in Live \/ (id = new_id /\ host \in {"spawning", "returning"})}

\* libcurl stays initialised while the plug-in is loaded and while any BECurl
\* of a background task exists, so no worker runs the real curl_global_cleanup
\* before kFMXT_Shutdown (the promise of BECurl.h), and none while a transfer
\* of another one may still be going on.
CurlStaysInitialised ==
    /\ curl_refs >= Cardinality(BuiltTasks) + (IF host = "unloaded" THEN 0 ELSE 1)
    /\ cleanup_thread # "none" => host = "unloaded" /\ BuiltTasks = {}

\* What the script learns from BE_BackgroundTaskAdd: after success its task was
\* started; an error for a task that did start is the error of a transfer that
\* was over, and whose worker was gone, before the call returned.
AddOutcomeExplained ==
    host = "ready" /\ new_id # 0 =>
        /\ add_outcome = "ok" => worker[new_id] # "none"
        /\ add_outcome = "error" /\ worker[new_id] # "none" =>
               worker[new_id] = "done" /\ curl_error[new_id] = "failed"

\* The lifecycle a script sees: see TaskLifecycle.
Lifecycle == INSTANCE TaskLifecycle WITH
    Tasks <- TaskId,
    issued <- background_tasks,
    finished <- completed,
    applied <- [id \in TaskId |-> executed[id]]

ImplementsLifecycle == Lifecycle!Spec

-----------------------------------------------------------------------------
(* Liveness. *)

\* With the idle handler, a task that was started is marked completed unless
\* the plug-in is unloaded first.
TaskCompletes ==
    \A id \in TaskId :
        modern /\ worker[id] = "sleeping" ~> IsCompleted(id) \/ host = "unloaded"

\* Without it the same holds of a script that goes on calling List.
TaskCompletesWhenListed ==
    \A id \in TaskId :
        []<><<StartList>>_vars =>
            (worker[id] = "sleeping" ~> IsCompleted(id) \/ host = "unloaded")

\* With the idle handler, no DDL statement stays in the slot for ever.
DeferredDdlLeaves ==
    \A s \in Statement :
        modern /\ ddl_command = s ~> ddl_command # s \/ host = "unloaded"

-----------------------------------------------------------------------------
(* What the code does not guarantee. *)

\* BESQLCommand.h: the workers "queue the finished sql and the main thread
\* executes it later".  A task that is completed, and whose statement did not
\* throw, has had it executed or has it waiting in the slot.
CompletedSqlIsNotLost ==
    \A i \in DOMAIN arrivals :
        LET id == arrivals[i].id IN
        IsCompleted(id) /\ arrivals[i].sql # "none" /\ id \notin thrown =>
            executed[id] = 1 \/ ddl_command = id

=============================================================================
