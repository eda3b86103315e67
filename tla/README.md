# BaseElements plug-in: TLA+ models and proofs

The BaseElements plug-in adds some 250 functions (`BE_...`) to FileMaker. Most of
them are calls into a library: hash this, transform that, read a file. The parts
that are hard to get right are the ones where something goes on *between* calls or
*beside* them: worker threads, child processes, callbacks of libcurl, results that
wait for the host's next idle event. Those are what this project models. Source
paths below are relative to `src/Source/` unless they start with `src/`.

## 1. The system

### Actors

* **The host's thread.** FileMaker calls `FMExternCallProc` (`BEPlugin.cpp:412`) for
  load, idle and shutdown, and the registered `FMX_PROC` functions directly. Nothing
  of the plug-in runs on that thread between two calls.
* **Background workers.** `BE_BackgroundTaskAdd` starts a detached `std::thread` per
  task. Nothing joins them, not even shutdown.
* **libcurl**, which calls the plug-in's read, write, seek, trace and progress
  callbacks during a transfer, on the thread that started it.
* **Child processes** of `BE_ExecuteSystemCommand` and of the ImageMagick helper, and
  whatever they start in turn.
* **XSLT threads** (`BETask.cpp`), one for each pair of a stylesheet and an output path
  of one call; joined by it, or detached when a script name is given.
* **Other script threads and other processes of the user**, as far as they share the
  directory of temporary attachments. (Most of the plug-in's state is `thread_local`.)
* **The user**, who may cancel a progress dialog.

### Components, their state, their operations

| component | state | operations | what is hard |
|---|---|---|---|
| Background tasks (`BEPluginFunctions.cpp:3248-3390`, `BESQLCommand.cpp:30-75`) | ids issued, ids completed, the mutex-guarded queue of results | Add, List, the worker, the drain at idle and inside Add/List | interleaving, exceptions, ordering, a host that never drains at idle |
| SQL commands (`BESQLCommand.cpp`) | one slot `g_ddl_command` for a deferred DDL statement | `execute`, the idle handler | the slot is shared and holds one |
| libcurl's global state (`Net/BECurl.cpp:71-79, 428, 452`) | a reference count | load, unload, every `BECurl` constructor and destructor, on any thread | which thread releases last |
| Shell commands (`BEShellExec.cpp`) | pipe, job object, child, deadline | one blocking call | child and clock run beside it; descendants |
| Upload cursor (`Net/BECurl.cpp:134-176, 893-918`) | position in the body | read, seek | rewinds in the middle of a body |
| Network session (`Net/BECurl.cpp:86-92, 401-430`, `Net/BESMTP.cpp`, `Net/BECurlOption.cpp`) | per thread: options, custom headers, response code and headers, curl info, the keep-open SMTP connection | every HTTP/FTP/SMTP function, `BE_CurlSetOption`, `BE_CurlGetInfo` | state left behind by one call and read by the next; destructors that write it late |
| Last error (`BEPluginUtilities.cpp:1078-1117`) | `g_last_error`, `g_last_ddl_error` per thread | `NoError`, `MapError` | functions that bypass them, destructors |
| SMTP (`Net/BESMTP*.cpp`) | attachments, temporary files | attach, send, clear | temporary files with one name |
| Progress dialog (`Net/BECurl.cpp:280-343`) | two statics | libcurl's progress callback | state that outlives a transfer |
| XSLT tasks (`BEXSLT.cpp`, `BETask.cpp`) | threads, futures | apply | a detached thread and a dead frame |
| ImageMagick helper (`BEImageMagickHelper.cpp`) | two temporary files | convert | failure of the helper |
| Value lists, arrays, variables (`BEValueList.h`) | a table of arrays, variables, stacks | pure algorithms, index shifts on delete | algorithmic edge cases |
| Script steps, scripts | registration table | register, perform | parameter substitution |
| Files, zip, XML, crypto, images, PDF, JSON, JavaScript, regex, platform dialogs | none between calls | wrappers around libraries | mostly not a matter of states |

How they interact: the workers share with the host's thread only the queue (under a
mutex), the `shared_ptr` to their `BECurl`, libcurl's count, and the `static` flag of
`progress_dialog` (with, on the Mac, the dialog itself); every other piece of session
state is `thread_local`. Mails of different threads meet in the directory
`SMTP_Attachments`, where an attachment is a file named after its container. An XSLT
thread shares with its caller a promise on the caller's stack. The deferred DDL slot is shared between the drain,
`BE_FileMakerSQL` and the idle handler, all on the host's thread.
`BE_ExecuteSystemCommand` and the ImageMagick helper share `RunSystemCommand`.

`PROJECT.json` lists every component with what is modelled of it, and under
"hazards" the places, by line, where this code is hard to test.

## 2. The modules

| module | models | extends / uses |
|---|---|---|
| `BackgroundTasks` | the background tasks, the deferred DDL slot, libcurl's count | instantiates `TaskLifecycle` |
| `TaskLifecycle` | abstract: what a script may rely on of its tasks | |
| `BackgroundTasksProofs` | theorems and proofs | `BackgroundTasks` |
| `ShellExec` | one `RunSystemCommand` with its processes, on both platforms | |
| `ShellExecProofs` | theorems and proofs | `ShellExec` |
| `CurlUpload` | the upload cursor under libcurl's callbacks | instantiates `BodyTransfer` |
| `BodyTransfer` | abstract: what a server may receive of a request's body | |
| `CurlUploadProofs` | theorems and proofs | `CurlUpload` |
| `NetSession` | what the network functions of one thread leave behind for each other | |
| `NetSessionProofs` | theorems and proofs | `NetSession` |
| `ValueLists` | the loops of the value list functions | |
| `ValueListsProofs` | theorems and proofs | `ValueLists` |
| `SmtpAttachments` | the lists of attachments of several threads over one temporary directory | |
| `MCSmtpAttachments` | symmetry for TLC | `SmtpAttachments` |
| `SmtpAttachmentsProofs` | theorems and proofs | `SmtpAttachments` |
| `ProgressDialog` | `progress_dialog`, its flag and the platform's dialog, over several transfers | |
| `ProgressDialogProofs` | theorems and proofs | `ProgressDialog` |
| `XsltTasks` | the frames and threads of one `BE_XSLT_Apply` | |
| `XsltTasksProofs` | theorems and proofs | `XsltTasks` |

In every module, operators whose comment begins with "Mutant:" are faulty variants
of the operator defined after them; no specification uses them. Each is paired with
the property that must catch it in `PROJECT.json`.

### 2.1 BackgroundTasks

One action is what a thread does between two accesses to something another thread
touches too.

| variable | code |
|---|---|
| `background_tasks`, `completed` | `g_background_tasks`, `g_completed_background_tasks` |
| `queue` | `g_background_task_results` |
| `batch` | the local deque of `execute_queued_background_task_sql` |
| `worker[id]` | the thread: sleeping (until it has downloaded), downloaded, queued (past its hand-over, still holding the `shared_ptr`), done |
| `host`, `call`, `new_id` | where the host's thread is, and in which entry point |
| `ddl_command` | `g_ddl_command` |
| `curl_refs` | libcurl's global count |
| `modern` | `extnVersion >= k130ExtnVersion`: whether idle may run SQL |
| `curl_error[id]`, `add_outcome` | `BECurl::error`; what Add returned through `MapError` |
| `arrivals`, `executed`, `thrown`, `due`, `cleanup_thread` | history, read by properties only |

`StartAdd`, `StartList` and `StartIdle` run up to the swap of the queue, which is one
step because of the mutex; `DrainTask` is one turn of the drain loop; then Add issues
the id (`BuildTask`, `FailToBuildTask`), starts the thread (`SpawnWorker`,
`FailToSpawn`) and drops its `shared_ptr` (`ReturnFromAdd`). The two holders of the
`shared_ptr` race: the last one runs `~BECurl`, which releases a libcurl reference on
its own thread and overwrites that thread's `g_last_error`. When this is the host's
thread, `MapError` returns the transfer's error as the error of Add; that is what the
code does, and `AddOutcomeExplained` states when.

A statement is represented by its kind: none (what a failed worker queues), dml
(executed at once), ddl (put into the slot). `executed` counts how often a statement
reached `ExecuteFileSQL`; whether FileMaker then accepts it is not part of the model.
Building or executing a statement of the drain may throw before that
(`StatementThrows`): the exception is swallowed, the task is marked completed all the
same, and `thrown` records it.

### 2.2 TaskLifecycle

Three variables and three actions: ids are issued in increasing order, an issued task
finishes once, its result is applied at most once, with the step that finishes it or
later. `BackgroundTasks` implements it under the mapping given at `Lifecycle`; the
property `ImplementsLifecycle` is checked by TLC and proved.

### 2.3 ShellExec

The caller's program counter follows `RunSystemCommand` statement by statement: on
Windows the poll of the pipe, of the process and of the clock, then the kill or the
exit code, then the closing of the handles; on POSIX the read loop and `waitpid`. The
child, one descendant, the pipe and the clock are the environment: they write, start
a process, close their output, end or crash at any time, or never. `CreateJobObject`
and `AssignProcessToJobObject` may fail, and the code goes on without noticing; so may
`GetExitCodeProcess` and `waitpid` (`CollectFails`, recorded in `uncollected`), and the
status then stays 0.
Output is counted in chunks, and the count starts again at 0 after `MaxChunks`
(`CountOne`): a command may write for ever, and since the pipe holds no more than
`MaxChunks`, equal counts of what was written and what was read still mean that nothing
is in between.

### 2.4 CurlUpload and BodyTransfer

`MemoryStruct` is modelled with addresses as numbers, so the arithmetic of
`SeekFunction` is the code's own. libcurl is external: it calls the read callback
with any size and the seek callback with any origin and offset (also negative and
past the end), in any order. `(size_t) offset` is taken modulo `SizeRange`, the number
of values of a `size_t`. `sent` is what the server has got since libcurl last
started the body.

`BodyTransfer` has no buffer and no pointers: a length, the position the sender started
from, the bytes since, and three actions - the next bytes come, the sender starts again
from a position of the body, or its wish to do so is refused. `CurlUpload` implements it
under the mapping at `Transfer` (a byte is its offset, an empty body starts at 0), which
is checked by TLC and proved.

### 2.5 NetSession

One action is one call of a plug-in function, from `NoError` to `MapError`, on one
thread; the variables are that thread's `thread_local` ones and have their names. Much
of them is written by `~BECurl` (`Destroy`): at the end of a request, when
`BE_SMTPServer` replaces the stored connection, when the constructor of `BESMTP` throws
after that of `BECurl` is over, and when `BE_BackgroundTaskAdd` is the last holder of
its `BECurl`. It runs after the function has read `g_last_error` and before `MapError`,
which is why `MapError` takes two errors: the function's own and the one it finds.

Calls are numbered, and an error, a response, a piece of information or a header is the
number of the call it comes from, so that "stale" can be said: `latest_call`,
`latest_request` and `latest_transfer` record which call a value should come from,
`leftover` whether the latest network call was one that leaves the response or the trace
as it was, `carried` how often a header went out. Each call has its failures as actions: the constructor throws
(`RequestRefused`, which the option it refuses makes certain), the request cannot be
prepared (`RequestNotPrepared`), the transfer fails (`RequestFailed`), the thread cannot
be started (`TaskNotStarted`), the connection cannot be made (`ConnectionRefused`), the
mail fails or has no recipients (`SendResults`), the clean-up of attachments fails
(`AfterCleanUp`). `BE_GetLastError` and `BE_CurlTrace` only read, and do not clear the
last error, so no action is needed for them.

### 2.6 ValueLists

Four loops of `BEValueList`, one action per turn, over any list, filter and count: `it`
is the iterator, `seen` the loop's `std::set`, `count` the map of `times_duplicated`.
`Key` is what `inserted()` puts into the set. A value is a letter with or without lower
case, and a result the set of positions kept, since the loops append in the order they
meet the values. Empty values do not occur: the functions split their text without them.

### 2.7 SmtpAttachments

| variable | code |
|---|---|
| `files[s]` | `BESMTPContainerAttachments::files` of thread `s` |
| `disk`, `content`, `user_files` | the temporary directory (which file is at a path), what a file holds, and the files elsewhere |
| `step[s]`, `job[s]` | where the thread is; the attachment it is writing, and into which file |
| `opened[s]`, `mail[s]` | the `FilePartSource`s of the message being composed; what has been rendered |
| `by_path` | the attachments that were given as a path: their `contents` are empty |
| `asked`, `disturbed`, `left_behind` | history, read by properties only |

Adding an attachment is three steps, since opening the stream truncates the file and
writing it takes time: `OpenForWriting`, then `FinishWriting` (with the `push_back`) or
`FailWriting`. A mail is composed (`StartSend`, `OpenNext` for each attachment, `Render`
or `AbandonSend`), sent (`EndSend`, which stands for success and failure alike) and
followed by `clear` in either case: `ClearNext`, `FailToClear`, `EndClear`. The data of
a container is the number of the call that brought it, so "with the data it was given"
can be said of an attachment. An attachment given as a path goes the same way with empty
contents, since `BE_SMTPAddAttachment` reads no file (`DataGiven`). Two attachments of one name that exist at the same time are
recorded as `disturbed`, because the code then gives them one file. File semantics are
POSIX's: a file that is open outlives its removal; on Windows the removal would fail
instead, which `FailToClear` covers.

### 2.8 ProgressDialog

`visible` is the static of that name; `dialog` has one object per thread (Windows,
`thread_local`) or one for all (Mac), which `Slot` decides; `transfer[t]` is what libcurl
passes to the callback; `callback[t]` are the callback's local variables between its
reading of the flag and its writing (`Callback`, `ReturnFromCallback`), because another
thread's callback may fall in between. `DisplayProgressDialog` and `UpdateProgressDialog`
have the outcomes of the platform functions: no dialogs at all (Linux, iOS), a dialog in
use, a missing one, a cancelled one, a value past the maximum, an error of the system.
Scripts open and update dialogs with `ScriptDisplay` and `ScriptUpdate`, and the user
cancels what may be cancelled.

The history variable `plain[t]` records that the latest transfer is a download of known
size which had the dialog for itself, and `orderly` that so far only such downloads ran,
one at a time, none failed and no script touched their dialogs. These are the conditions
under which the code works; what it does outside them is in section 6.

### 2.9 XsltTasks

`xslt_task` calls itself for the pairs that are left, so frame `i` works on pair `i` and
`depth` is the innermost frame; `phase` says whether the frames are being entered or
left. `worker[i]`, `promise[i]` are the thread and the promise of frame `i`; the thread
has the promise by reference, and `dangling` records its use after the frame is gone.
`FailToStartThread` in an inner frame ends the host: unwinding destroys the outer frame's
joinable thread. `ExecuteScript` may fail, and the thread does not look at its error:
`lost_scripts` records the pairs whose script was asked for and did not start.

## 3. What TLC checks

| run | instance | result |
|---|---|---|
| `tasks` | 2 tasks, 1 SQL call, both kinds of host, under `FairSpec` | passes: 598 thousand states |
| `ddl_lost` | 2 tasks | **violated**: `CompletedSqlIsNotLost` |
| `shell` | pipe of 1, counts up to 3, codes 0, 1, 65537 | passes: 24 thousand states |
| `shell_deadline` | the same | **violated**: `HonoursTimeout` |
| `shell_now` | the same | **violated**: `LaunchedIsLeftRunning` |
| `upload` | bodies of 0 to 5 bytes, chunks of 0 to 3, a `size_t` of 8 values | passes: 187 states |
| `session` | 4 calls | passes: 20 thousand states |
| `stale_error` | 4 calls | **violated**: `LastErrorIsOfThisCall` |
| `attachments` | 2 threads, 2 names (both symmetric), 1 user file, 3 attachments | passes: 301 thousand states |
| `progress` | script thread and 1 task thread, sizes up to 2, a long of 3 values, 2 transfers | passes: 1.8 million states |
| `xslt` | up to 3 pairs, under `FairSpec` | passes: 56 thousand states |
| `value_lists` | lists of up to 4 values, 2 letters in either case | passes: 73 thousand states |

What the passing runs show:

* **Nothing is lost or doubled between a worker and the database.** `DrainInv` places
  every result a worker queued in exactly one of: drained, local batch, queue.
  `AtMostOnce`, `FirstInFirstOut`, `HandedOverIsKept` and `CompletionExplained` are what a
  user of the functions sees of that. The last says what "completed" can mean: the
  statement has run, or is DDL and waits in the slot or lost it to a later one, or threw,
  and then has not run and will not; a failed task executes nothing. `ListIsFresh` says that List never shows a task
  whose result was there before the call.
* **libcurl stays initialised** (`CurlStaysInitialised`): the reference taken at load
  covers the workers' destructors, which is what the comment at `BEPlugin.cpp:95` and
  `BECurl.h` promise, and after unload it is the last of them that frees libcurl, when no
  transfer can be going on.
* **Every started task completes** (`TaskCompletes`) on a host that calls idle;
  on an older host it does if a script goes on calling List (`TaskCompletesWhenListed`).
* **A command that was waited for returns all its output and its own status**
  (`NoOutputLost`, `ReportsTheEnd`; a signal, or a status the system does not tell, reads
  as 0), nothing in the job outlives the call (`NoOrphans`), and the call returns when everything it started has ended
  (`ReturnsWhenAllEnd`). With a timeout it returns in any case but two
  (`LimitedReturns`; section 6, item 2, has the two).
* **A rewound upload is sent correctly** (`SentIsContiguous`, `UploadIsComplete`,
  `ImplementsBodyTransfer`): whatever libcurl asks for, the server gets the next bytes of
  the body, or the bytes from a position of it that libcurl asked to start from.
* **Network calls leak into each other only where they are named**: a custom header
  goes out with one request at most (`HeadersAreSentOnce`; after a request that was
  refused it still waits, for the next one). The response functions tell of the latest
  network call or of none, except after the calls that destroy no `BECurl` on the thread
  (`ResponseIsOfLatestCall`), and the trace is of the latest call, except after those
  that make no `BECurl` (`TraceIsOfLatestCall`); the exceptions are disagreements with the
  documentation (section 6, items 5 and 6). A failed call returns an error that is its own
  (`FailureIsReported`), and where a call that did not fail returns the error of an earlier
  one, it has replaced a connection that was kept open, and that error does not come back
  again (`OldErrorsComeBackOnce`).
* **The value list functions agree with their reference definitions**
  (`UniqueKeepsFirsts`, `FilterOutIsExact`, `TimesAreCounted`). The filter without case
  agrees with its documentation only for lists whose repeats follow a value written like
  its key (`RepeatsFollowTheirKey`); of the others the property says the part that holds
  (section 6, item 7).
* **A mail carries exactly the attachments given since the latest mail or clear**, sent
  or not, a container with its own data unless another of the same name was about, and a
  path as an empty file (`MailCarriesItsAttachments`; section 6, items 8 and 9); the
  clean-up removes no file of the user, and a temporary file that is still there is
  accounted for (`CleanUpIsExact`).
* **A plain download is not aborted by its own progress dialog**, and leaves neither the
  dialog nor the flag behind (`PlainTransferRunsClean`); while only such downloads run no
  callback moves or closes a dialog that a script has opened (`ScriptDialogIsLeftAlone`).
* **A call of BE_XSLT_Apply that waits has every accepted pair's result once**, the last
  pair's first, and an error exactly if a pair was refused (`ResultIsComplete`); with a
  script it returns whatever its threads do (`CallReturns`), and those ask for the script
  once, which starts or is lost, and do not touch a frame that is gone, refused pairs
  excepted (`DetachedThreadsAreOnTheirOwn`; section 6, item 10). Every step
  uses up a part of a fixed stock (`EveryStepIsProgress`), so the recursion ends with the
  last pair and no pair is started twice.

What the violated runs show is described in section 6.

### Bounds

Two tasks are the smallest number with an order between them, with a batch of more
than one, and with one worker queueing while another result is drained. A third task
adds nothing of a new kind. One SQL call is needed for the slot to be overwritten by
something that is not a task; the safety properties also hold of two (checked once,
with the two calls symmetric). A pipe of one chunk makes a process
wait for the reader; counts up to three tell apart what came before, during and after
the child's end, and writing goes on beyond them. 65537 is an exit code whose lower 16 bits differ from it. Five bytes
in chunks of up to three give a body of several unequal chunks, and offsets run from
one below to one above the body, which `SizeRange = 8` still tells apart as a 32-bit
`size_t` does. Four calls are enough to set a header or an option, to
fail, to succeed and to enquire or to replace a connection that has failed before; the
instance with five calls passes too. Four values hold two pairs of duplicates, or three
spellings of one; the proofs have no bound. Three attachments on two threads let
one thread have two, of the same name or of different ones, and the other overwrite what
the first is writing, has listed, has opened or is removing (the instance with four, 8
million states, passes too). A size of two with a long
of three values (`LongRange`) has a size that fits with its successor (1), one whose
successor does not (2), and an unknown one (0); two transfers can overlap, or follow one
another with what the first has left behind. Three pairs have an outermost, an inner and
an innermost frame. `MaxTasks`, `MaxChunks`, `MaxBody`, `MaxChunk`, `MaxCalls`,
`MaxValues`, `MaxAttachments`, `MaxSize`, `MaxTransfers` and `MaxPairs` are the only
bounds, each named in its guard; `LongRange` stands for 2^32, `SizeRange` for 2^32 or 2^64.

### Fairness

`BackgroundTasks!Fairness`: a call that began runs to its end (nothing in it waits for
a worker); each worker is scheduled, and libcurl returns from a transfer (the code sets
no timeout, so this is an assumption on the network); the idle handler has *strong*
fairness, because it is enabled only between calls, and FileMaker sends idle events
whenever it is not busy. There is no fairness on the script: `TaskCompletesWhenListed`
states its assumption about the script as a premise.

`ShellExec!FairSpec`: the calling thread is scheduled and time passes. Nothing is
assumed of the processes, which may run or keep the pipe open for ever;
`ReturnsWhenAllEnd` has their end as a premise.

`XsltTasks!FairSpec`: the calling thread is scheduled. Nothing is assumed of the
transformations; that they end is a premise of `CallReturns` where the call waits.

`NetSession`, `CurlUpload`, `ValueLists`, `SmtpAttachments` and `ProgressDialog` have no
fairness: nothing is promised about what a script calls or when a transfer ends.

Deadlock is checked in every run but `xslt`, where a call that is over and whose threads
have ended really stops; in the others `Terminated`, `Finished` and `Returned` mark the
states in which the systems may stop, and a script may always call something.

## 4. What is proved

With TLAPS, for every value of the constants: any number of tasks and calls, any body,
chunk and pipe size, any number of threads, names, attachments, pairs, any size of a
transfer and any width of a long. Every safety property and every action property that a
passing run checks is proved, and some facts that no run states:

| theorem | states |
|---|---|
| `TypeCorrect` | `Spec => []TypeOK`: among others that libcurl's count never goes negative |
| `DrainAccounted` | `Spec => []DrainInv` |
| `StatementsRunAtMostOnce` | `Spec => []AtMostOnce` |
| `ResultsInOrder` | `Spec => []FirstInFirstOut` |
| `CurlInitialised` | `Spec => []CurlStaysInitialised` |
| `LifecycleImplemented` | `Spec => ImplementsLifecycle` |
| `ResultsAreKept` | `Spec => []HandedOverIsKept` |
| `StartedTasksAreInSight` | a started task is at work, queued, in a batch or completed, and only one of these |
| `CompletionsExplained` | `Spec => []CompletionExplained` |
| `OneDeferredDdlIsNotLost` | `CompletedSqlIsNotLost`, where one DDL result is all the slot gets, of the statements that did not throw |
| `ListsAreFresh` | `Spec => []ListIsFresh` |
| `AddOutcomes` | `Spec => []AddOutcomeExplained` |
| `ShellTypes` | `Spec => []TypeOK` (shell) |
| `OutputIsComplete` | `Spec => []NoOutputLost` |
| `JobLeavesNoOrphans` | `Spec => []NoOrphans` |
| `StatusIsTheChilds` | `Spec => []ReportsTheEnd` |
| `ReadsWaitForTheLiving` | `Spec => []WritersLive`: a read that blocks waits for a process that runs |
| `CursorStaysInBody` | `Spec => []WindowInBody` (uploads) |
| `SentContiguous` | `Spec => []SentIsContiguous` (uploads) |
| `UploadComplete` | `Spec => []UploadIsComplete` (uploads) |
| `RewindsAreAccepted` | a rewind is accepted for exactly the positions of the body, of the offsets `size_t` can tell from them |
| `SentIsOfBody` | every byte that was sent is one of the body |
| `TransferImplemented` | `Spec => ImplementsBodyTransfer` |
| `SessionTypes` | `Spec => []TypeOK` (network session) |
| `HeadersGoOutOnce` | `Spec => []HeadersAreSentOnce`, from `HeadersWaitOnce`: `Spec => []HeaderInv` |
| `ResponsesAreLatest` | `Spec => []ResponseIsOfLatestCall` |
| `FailuresAreReported` | `Spec => []FailureIsReported` |
| `TraceOfLatestCall` | `Spec => []TraceIsOfLatestCall` |
| `OldErrorsComeBack` | `Spec => OldErrorsComeBackOnce`, an action property |
| `LastErrorsWithoutKeepOpen` | `LastErrorIsOfThisCall`, for a script that keeps no connection open |
| `ValueListTypes` | `Spec => []TypeOK` (value lists) |
| `UniqueIsCorrect` | `Spec => []UniqueKeepsFirsts` |
| `FilterOutIsCorrect` | `Spec => []FilterOutIsExact` |
| `FilterOutWithCase` | with case, exactly what is not in the filter is kept |
| `FilterOutWithoutCase` | a remaining value is dropped exactly if it follows the same one not written like its key |
| `DuplicatesAreCorrect` | `Spec => []DuplicatesAreFound` |
| `TimesAreCorrect` | `Spec => []TimesAreCounted` |
| `AttachmentTypes` | `Spec => []TypeOK` (attachments) |
| `CleanUpExact` | `Spec => []CleanUpIsExact` |
| `MailsCarryAttachments` | `Spec => []MailCarriesItsAttachments` |
| `DialogTypesHold` | `Spec => []TypeOK` (progress dialog) |
| `ScriptsKeepTheirDialog` | `Spec => []ScriptDialogIsLeftAlone` |
| `PlainTransfersRunClean` | `Spec => []PlainTransferRunsClean` |
| `XsltTypes` | `Spec => []TypeOK` (XSLT) |
| `ResultComplete` | `Spec => []ResultIsComplete` |
| `DetachedThreads` | `Spec => []DetachedThreadsAreOnTheirOwn` |
| `FuturesAreReady` | without a script, a thread that has ended has set its promise |
| `StepsAreProgress` | `Spec => EveryStepIsProgress`, an action property |
| `CallsAreShort` | the steps left are at most five for each pair, and every step leaves fewer |

The assumptions are those of the modules: `MaxTasks` is a natural number, the names of
calls are not task ids, `NoCommand` is neither; the bounds of the other modules are
natural numbers, the pipe does not hold more than `MaxChunks`, temporary names are not paths of the user's files, the script's thread
is not a task's, a long has at least one value, and a `size_t` has more than the body has
bytes, and two more.

**The argument for the tasks.** "At most once" is not inductive: nothing in it says
that a result about to be drained has not been drained before. `DrainInv` adds the
history of arrivals and cuts it in three (`ArrivalsSplit`): the drained prefix, the
local batch, the queue. A worker appends to history and queue alike; the swap moves
the third part to the second, which is empty unless a drain is running
(`BatchIsLocal`); a turn of the loop moves the border between the first and the second
by one. A task appears once in the history (`ArrivalsUnique`) because a worker queues
when it leaves "sleeping" or "downloaded" and never returns there
(`ArrivalsAreHandOvers`), so the element at the border is not among the drained ones
(`CompletedAreDrained`), which gives one completion and, with the slot
(`TaskSqlOnce`, `CallSqlOnce`), one execution. `FirstInFirstOut` follows because the
completed tasks are a prefix of the history, and the refinement because each of
`DrainTask`, `BuildTask`, `FailToBuildTask` and `StartIdle` is a step of
`TaskLifecycle` and every other action a stutter. What a user sees of the same split:
`ArrivalPlace` says where a given arrival is, which gives `HandedOverIsKept` at once and,
as an invariant of the drain that a call of List makes (`ListInv`: what is due is
completed or in its batch), `ListIsFresh`. `CompletionExplained` is inductive beside
`DrainInv` (`RunStep`): the turn that marks a task is the turn that runs its statement,
puts it into the slot, or sees it throw; a statement leaves the slot by running, or because a later one is
put there, and then the slot was taken (`SlotWasTaken`), which stays true; and the
statement of another task is another one. `AddOutcomeExplained` needs `OutcomeInv`:
between an Add and the next id the outcome and the worker of the latest id agree, since
a worker never returns to "none".

**The argument for the shell**: what has been written is in the pipe or has been read
(`Chunks`, up to the wrap of the count, which the pipe is too small to hide); nothing runs before the launch (`LaunchInv`); the caller leaves the loop for
the exit code only when the child has ended and the pipe was read to its end after that
(`ChildInv`, `OutputInv`); and the job has every process the child started, as the child
was suspended until the job had it (`JobInv`). A status that could not be collected is
0 from the start and nothing writes it. `WritersLive` needs only that ending, by
itself or by a kill, and losing the write end are one step, and that the parent has none.

**The argument for libcurl** counts: the references are at least the plug-in's own
plus one per live `BECurl` (at least, since a constructor that throws leaks one). Each
action changes the set of live objects by at most one element, and the finite-set
theorems of the library carry that over to the cardinality. `CleanedLast` adds that once
somebody has freed libcurl the count is zero for good, so that no object is alive.

**The argument for uploads**: `memory - origin + size` is the length of the body after
every callback, and the bytes sent since the last start are the interval from there to
the cursor; an offset that libcurl asks for is far enough from the ends of `size_t` for
the conversion to move it into the body only if it was there (`SizeFacts`,
`OffsetFacts`). For the refinement the start has to lie in the body too (`BaseInBody`); then
the position of `BodyTransfer` is the length less what remains (`MappedPosition`), a read
is `Receive` of as many bytes as it copies, the concatenation being compared element by
element, and a rewind is `Restart` or `Refuse`.

**The argument for the session**: that a header is not sent twice is not inductive, since
it says nothing of the headers that wait. `HeaderInv` adds that a waiting header was set
by a call that is over, has gone out with nothing, and waits in one map only;
`HeadersStep` shows that any call which empties what it sends, and adds at most a header
of its own to one map, keeps that. The trace needs `KeptExists` (a connection that does
not exist is not kept open), because `BE_SMTPSend` puts one in its place, and `OldErrorsComeBackOnce` needs
`KeptRemembers`: only a connection that is kept open remembers an error, since a mail on
any other takes its error with it. The other two are inductive once the types are known.

**The argument for the value lists** is one loop invariant per loop (`UniqueLoop`,
`FilterOutLoop`, `DuplicatesLoop`, `CountLoop`), stated over the positions visited so
far. `FilterOutLoop` says what the set of the filter has become: the filter and the keys
of the visited values that are not written like their key (`Blocking`), since erasing takes
out the value as it is written. With case there are none of those, and the set is the
filter again after every turn.

**The argument for the attachments**: an attachment is live while it is being written or
listed; a live one is live once, and two live ones of one path are both disturbed
(`LiveInv`); a file is at one path at most (`DiskInv`); so one that is not disturbed is
the only one on its path, nobody truncates or removes its file, and it is on the disk with
what it was given (`Intact`; nothing, for a path: `GivenInv`), also in a file that a message has opened (`OpenedHere`). `ListInv`
ties the list to what the script asked for.

**The argument for the dialog**: `OrderlyInv` and `PlainInv` follow the flag through the
callback: while a transfer is running it is `visible`, inside a callback it is what the
callback is about to write (`VisibleAfter`), between transfers it is down. Beside a raised
flag is a dialog no script has opened, and for a plain transfer its own, at its own
maximum, with more to come; so only the last update, which is one past the maximum, closes
it. `LongIsExact` is where the width of a long comes in.

**The argument for XSLT**: `FrameInv` says which frames and threads there are in each
phase, `ThreadInv` what a thread has done by the time it reaches a place, `JoinInv` that
without a script the frames that have returned have joined their threads (so no promise
outlives its frame), `ResponseInv` that the response so far is that of the frames that
have returned, in descending order. For progress, `FrameInv` says that each pair stands
where its frame and its thread say, so that a step of either takes exactly one element out
of `StepsLeft` (`ThreadMovesOn`, `FrameGoes`), or, when a thread cannot be started, all
that the frames had left; the cardinality follows.

**Out of the prover's reach, left to TLC**: the liveness properties (`TaskCompletes`,
`TaskCompletesWhenListed`, `DeferredDdlLeaves`, `LimitedReturns`, `ReturnsWhenAllEnd`,
`CallReturns`), since fairness involves ENABLED; and anything that needs induction over
data. The safety half of some of them is proved: `StartedTasksAreInSight` says that no
task ends up where nothing will complete it, `CallsAreShort` and `FuturesAreReady` leave a
call of `BE_XSLT_Apply` nothing but its threads to wait for, and `ReadsWaitForTheLiving` a
read nothing but a process that runs.

`HeaderInv` and `DuplicatesAreFound` are proved (`HeadersWaitOnce`,
`DuplicatesAreCorrect`) and no run of their own is spent on them.

## 5. What is not modelled, and why

* The text of statements, responses, JSON and output, code pages and newlines: no
  property here is about them.
* Whether FileMaker calls the plug-in again from inside `ExecuteFileSQL`: nothing in
  this code shows it.
* A deferred DDL statement that throws when the idle handler itself runs it
  (`BEPlugin.cpp:443`, outside the `try` of the drain): the exception leaves
  `FMExternCallProc`, and what the host does then is not this code's.
* Offsets of 4 GB and more in a rewind: on a 32-bit build `(size_t) offset` may fall back
  into the body. libcurl asks for positions of a body that is in memory.
* `kReturnNow` on POSIX is modelled as what the code does there: it is ignored, and
  the call waits (`BEShellExec.cpp:369-372` says so).
* The proxy, the text of mails, content types and MIME layout; HTTP redirects (a redirect
  is a transfer of its own for the progress dialog); `g_last_ddl_error`; the few functions
  that leave the last error of the call before (`BE_NotImplemented`).
* Several script threads in the background tasks. `g_background_tasks` and
  `g_completed_background_tasks` are plain vectors without a mutex
  (`BEPluginFunctions.cpp:150-151`), and nothing in the repository says from which threads
  a host calls; the model has one host thread, as `BEPlugin.cpp`'s idle handler assumes.
* The text of the progress dialog, and the time between two updates (an update may be
  left out or not).
* The transformation itself: `ApplyXSLTInMemory` returns text in every case, since its
  one `throw` tests a variable that nothing sets (`BEXSLT.cpp:245`).
* Wrap-around of `GetTickCount`: the code compares a signed difference, which is exact
  for timeouts below 2^31 ms; the clock is one event here.
* The components marked "not_modelled" in `PROJECT.json`, each with its reason.

## 6. Disagreements between the code and its documentation

Four are checked, each by a run of its own in which TLC must find the counterexample:

1. **A deferred DDL statement can be dropped** (`ddl_lost`). `BESQLCommand::execute`
   swaps a DDL statement into the one slot (`BESQLCommand.cpp:113`) and discards what
   was there. Two DDL results in one batch are enough. With one, and without
   `BE_FileMakerSQL` beside it, nothing is lost (`OneDeferredDdlIsNotLost`).
2. **A timeout is not honoured** (`shell_deadline`, Windows) in two cases. While every
   look at the pipe finds output, the loop at `BEShellExec.cpp:260` goes on reading and
   never comes to the clock. And when a descendant keeps the pipe after the child has
   ended, the last read blocks (`BEShellExec.cpp:274`). `LimitedReturns` names the two and
   holds, so there is no third.
3. **BE_SMTPServer returns an old error** (`stale_error`). Replacing a connection that
   was kept open destroys it, and `~BECurl` writes the error of its latest mail to
   `g_last_error` (`BECurl.cpp:420`) in time for `MapError` to return it. This is the only
   way, and it happens once for each error (`OldErrorsComeBackOnce`, proved); a script that
   keeps no connection open never sees it (`LastErrorsWithoutKeepOpen`).

4. **Timeout 0 kills the command** (`shell_now`, Windows). `BEShellExec.h:35` calls 0
   `kReturnNow`, "only launch and return at once". The child is in a job object with
   `KILL_ON_JOB_CLOSE` (`BEShellExec.cpp:204`), and a call that does not wait goes from the
   launch to the closing of the job (`310`), which kills the command. Only where the job
   could not be made, or did not take the child, does the command go on. `NoOrphans` speaks of calls
   that wait.

The models contain the following too. No run refutes a promise for them; where a property
touches one, it claims the documented behaviour everywhere else and names the exception in
its comment.

5. **The response of an earlier call.** `BE_HTTP_ResponseCode.md:7` promises the code
   "from the previous call made via any of the BE curl functions". The destructor of
   `BECurl` publishes it, so after a request or connection whose constructor throws, a mail
   that is not prepared or goes out on a connection that is kept open, a connection that
   replaces none, and a task that outlives its call, the scripts still see an earlier
   request's. `ResponseIsOfLatestCall` exempts these (`Leaves({"response"})`); what it claims
   of them is only that code and headers are those of the latest request before.
6. **The trace of an earlier call.** `BE_CurlTrace.md:7,26` promises the trace of the most
   recent call only. It starts afresh in `BECurl::Init` (`Net/BECurl.cpp:469`): a call whose
   constructor throws before, and a mail that is not prepared, leave the transcript of an
   earlier one, and mails on a kept-open connection add theirs to it.
   `TraceIsOfLatestCall` exempts these.
7. **BE_ValuesFilterOut drops values.** `BE_ValuesFilterOut.md:7` says it "removes anything
   in the filterValues list and returns the remaining values". Without case, the set of the
   filter keeps a lower-case copy of every value that is not written in lower case
   (`BEValueList.h:375` against `566-570`), so of `A`, `A` only the first comes back.
   `FilterOutIsExact` claims the documented result of all other lists;
   `FilterOutWithoutCase` says exactly which values go missing.
8. **Attachments of one name share one file.** `BE_SMTPAddAttachment.md:26` says several
   attachments are added "by calling this function multiple times"; the file is
   `temporary directory + file name` (`BESMTPContainerAttachments.cpp:41`), so the second
   of a name overwrites the first and the mail carries the later data twice.
   `MailCarriesItsAttachments` exempts the attachments that were `disturbed` in this way.
9. **An attachment given as a path is empty.** `src/CHANGE_LOG:632` says an attachment "may
   be either a container or a file". For a path `BE_SMTPAddAttachment` leaves `contents`
   empty (`BEPluginFunctions.cpp:3512-3518`), and `add` writes an empty file of that name
   below the temporary directory and lists it. `MailCarriesItsAttachments` says that this is
   what the mail carries.
10. **A refused pair and a script.** For a pair that is refused while a script is named the
   script does not run, and the detached thread sets the result of a promise whose frame
   may have gone: the use of a dead stack frame that the detaching is meant to avoid.
   `dangling` records it, and `DetachedThreadsAreOnTheirOwn` confines it to these pairs.
   Also, `BE_XSLTApply.md:32` says the script's parameter is the response if there is
   one; `ExecuteScript` is given `output_path` (`BETask.cpp:40`), and its error is dropped.
11. **A failed Add leaves a ghost.** The id is issued (`BEPluginFunctions.cpp:3261`)
   before anything that may fail; List then reports it for ever. `TaskCompletes`
   speaks only of tasks whose worker was started.
12. **Progress dialog.** A size that is unknown, or that needs more than 32 bits on
   Windows, makes the callback abort the transfer (`BECurl.cpp:319-333`). So does the
   dialog a failed transfer has left behind, and the flag, one for all threads, lets a
   transfer move a dialog that a script has opened. For an upload `dlnow == dltotal` is
   `0 == 0`: no dialog is ever shown, although the code has a title for it. `Plain` and
   `orderly` of `ProgressDialog` are the conditions that exclude these cases.
13. **A status past 16 bits.** The comment at `BEPluginFunctions.cpp:4361` means the exit
   status to be told by `BE_GetLastError`; the conversion to `errcode` keeps 16 bits of it,
   so that 65536 reads as success (`AsErrcode`).

Things the models show, or reading showed, that no document speaks of: on POSIX `read`
is not repeated on `EINTR`, while `waitpid` is (`BEShellExec.cpp:377` against `383`), so a
signal cuts the output short (`NoOutputLost` exempts that case by name). A `std::thread`
that cannot be started in an inner frame of `xslt_task` ends the host (`BETask.cpp:31`),
since unwinding destroys the joinable thread outside it. In code without a model:
`BE_ScriptStepPerform` takes its calculation by the function id FileMaker passes
(`BEPluginFunctions.cpp:4073`) and never looks at the `scriptStepId` that
`BE_ScriptStepPerform.md` documents, and an image of several frames leaves the numbered
files of ImageMagick in the temporary directory (`BEImageMagickHelper.cpp:208`).

## 7. Plan

In the order of importance of the behaviour.

1. *Done:* `BackgroundTasks` with `TaskLifecycle`, and their proofs.
2. *Done:* `ShellExec` and its proofs.
3. *Done:* `CurlUpload` with `BodyTransfer`, and their proofs.
4. *Done:* `NetSession` and its proofs. Left: curl info after a mail
   (`BE_CurlGetInfo` is documented to tell of SMTP too, `BESMTP::send` does not collect
   it), and runs that refute the promises of section 6, items 5 and 6.
5. *Done:* `SmtpAttachments` and `ProgressDialog`, and their proofs.
6. *Done:* `XsltTasks` and its proofs. Left: `MagickHelper`, on `ShellExec`'s child
   process.
7. *Done:* the loops of `ValueLists` and their proofs. Left: arrays (with the shift of ids
   on deletion), `ScriptSteps` (thread-local calculations of a registration that is
   global, parameter substitution), `NormalizeNewlines`.
8. Left: a run for `FilterOutIsExact` without its premise (section 6, item 7), and
   `g_last_ddl_error`, next to the DDL slot in `BackgroundTasks`.

Every safety property and every action property that TLC checks is also proved, and both
refinements. What stays with TLC is liveness.

## 8. Running

    tlc -workers 2 -config tasks.cfg BackgroundTasks
    tlc -workers 2 -config shell.cfg ShellExec
    tlc -workers 2 -config upload.cfg CurlUpload
    tlc -workers 2 -config session.cfg NetSession
    tlc -workers 2 -config value_lists.cfg ValueLists
    tlc -workers 2 -config attachments.cfg MCSmtpAttachments
    tlc -workers 2 -config progress.cfg ProgressDialog
    tlc -workers 2 -config xslt.cfg XsltTasks

    tlc -workers 2 -config ddl_lost.cfg BackgroundTasks          # must find a violation
    tlc -workers 2 -config shell_deadline.cfg ShellExec          # must find a violation
    tlc -workers 2 -config shell_now.cfg ShellExec               # must find a violation
    tlc -workers 2 -config stale_error.cfg NetSession            # must find a violation

    tlapm BackgroundTasksProofs.tla
    tlapm ShellExecProofs.tla
    tlapm CurlUploadProofs.tla
    tlapm NetSessionProofs.tla
    tlapm ValueListsProofs.tla
    tlapm SmtpAttachmentsProofs.tla
    tlapm ProgressDialogProofs.tla
    tlapm XsltTasksProofs.tla
