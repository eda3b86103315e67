------------------------------- MODULE ShellExec -------------------------------
(***************************************************************************)
(* BE_ExecuteSystemCommand: one call of RunSystemCommand with the child it *)
(* starts, one descendant of the child, and the pipe that carries their    *)
(* output.  The Windows version polls the pipe, the process and the clock, *)
(* and keeps the processes in a job object; the POSIX version reads to the *)
(* end of the pipe and then waits for the child.                           *)
(*                                                                         *)
(* Abstracted: output is counted in chunks, modulo more than the pipe      *)
(* holds, so that a command may write for ever and equal counts still mean *)
(* an empty pipe; the clock is one event ("expired": the deadline has      *)
(* passed); decoding of the output is left out.  The behaviour of          *)
(* processes, pipes and job objects is the operating system's, modelled    *)
(* from how the code uses it.                                              *)
(***************************************************************************)
EXTENDS Integers

CONSTANTS
    PipeSize,    \* chunks the pipe holds
    MaxChunks,   \* the largest count of chunks, after which counting starts at 0
    ExitCodes    \* the exit codes a child may end with

ASSUME PipeSizeAssumption == PipeSize \in Nat \ {0}
ASSUME MaxChunksAssumption == MaxChunks \in Nat /\ PipeSize <= MaxChunks
ASSUME ExitCodesAssumption == ExitCodes \subseteq Nat

VARIABLES
    windows,     \* which of the two implementations was compiled
    mode,        \* timeout_ms: < 0 "forever", 0 "now", > 0 "limited"
    caller,      \* where RunSystemCommand is
    procs,       \* the state of the child and of its descendant
    code,        \* the code the child exited with
    writers,     \* who has the write end of the pipe open
    job,         \* the job object of the call
    in_job,      \* the processes in it
    pipe,        \* chunks in the pipe
    written,     \* chunks written, see CountOne
    got,         \* chunks in "raw"
    expired,     \* GetTickCount has reached the deadline
    started, timed_out, exit_code,   \* ShellResult
    last_error,  \* g_last_error when BE_ExecuteSystemCommand returns
    (* History variables, read by properties only. *)
    interrupted, \* a signal ended the POSIX read loop
    uncollected  \* the status of the child could not be obtained

callVars == <<windows, mode>>
procVars == <<procs, code, writers, in_job>>
pipeVars == <<pipe, written, got>>
resultVars == <<started, timed_out, exit_code, last_error>>
historyVars == <<interrupted, uncollected>>
vars == <<callVars, caller, procVars, job, pipeVars, expired, resultVars, historyVars>>

Proc == {"child", "grandchild"}

StillActive == 259       \* GetExitCodeProcess of a running process
Errcode == -32768..32767 \* a 16-bit short
kErrorUnknown == -1
kCommandTimeout == 12000

TypeOK ==
    /\ windows \in BOOLEAN
    /\ mode \in {"forever", "now", "limited"}
    /\ caller \in {"launch", "peek", "check", "clock", "drain", "collect", "kill", "close", "returned"}
    /\ procs \in [Proc -> {"none", "running", "exited", "crashed", "killed"}]
    /\ code \in ExitCodes \cup {0}
    /\ writers \in SUBSET (Proc \cup {"parent"})
    /\ job \in {"none", "open", "closed"}
    /\ in_job \in SUBSET Proc
    /\ pipe \in 0..PipeSize
    /\ written \in 0..MaxChunks
    /\ got \in 0..MaxChunks
    /\ expired \in BOOLEAN
    /\ started \in BOOLEAN
    /\ timed_out \in BOOLEAN
    /\ exit_code \in ExitCodes \cup {0, StillActive}
    /\ last_error \in Errcode
    /\ interrupted \in BOOLEAN
    /\ uncollected \in BOOLEAN

Init ==
    /\ windows \in BOOLEAN
    /\ mode \in {"forever", "now", "limited"}
    /\ caller = "launch"
    /\ procs = [p \in Proc |-> "none"]
    /\ code = 0
    /\ writers = {}
    /\ job = "none"
    /\ in_job = {}
    /\ pipe = 0
    /\ written = 0
    /\ got = 0
    /\ expired = FALSE
    /\ started = FALSE
    /\ timed_out = FALSE
    /\ exit_code = 0
    /\ last_error = 0
    /\ interrupted = FALSE
    /\ uncollected = FALSE

Running == {p \in Proc : procs[p] = "running"}

-----------------------------------------------------------------------------
(* The caller. *)

\* Mutant: a status as wide as the process's.
AsErrcodeWide(n) == n

\* The status is stored in an errcode.
AsErrcode(n) == ((n + 32768) % 65536) - 32768

\* What BE_ExecuteSystemCommand leaves for BE_GetLastError.
LastErrorOf(ok, timeout, status) ==
    IF ~ok THEN kErrorUnknown ELSE IF timeout THEN kCommandTimeout ELSE AsErrcode(status)

\* Mutant: the parent keeps its copy of the write end.
WritersWithParent == {"child", "parent"}

\* Both versions close the parent's write end, so only the child has one.
WritersAtStart == {"child"}

\* Mutant: the child is not created suspended, so what it starts before it is
\* assigned to the job is not in the job.
StartRunning ==
    /\ in_job' = IF job' = "open" THEN {"child"} ELSE {}
    /\ \E g \in {"none", "running"} : procs' = [child |-> "running", grandchild |-> g]

\* CREATE_SUSPENDED, assign, resume: the child runs no code outside the job.
\* The result of AssignProcessToJobObject is ignored.
StartSuspended ==
    /\ IF job' = "open" THEN in_job' \in {{}, {"child"}} ELSE in_job' = {}
    /\ procs' = [procs EXCEPT !["child"] = "running"]

\* Windows: the pipe, the job (CreateJobObject may fail unnoticed), the process.
LaunchWindows ==
    /\ caller = "launch" /\ windows
    /\ job' \in {"open", "none"}
    /\ StartSuspended
    /\ writers' = WritersAtStart
    /\ started' = TRUE
    /\ caller' = IF mode = "now" THEN "close" ELSE "peek"
    /\ UNCHANGED <<callVars, code, pipeVars, expired, timed_out, exit_code, last_error, historyVars>>

\* POSIX: the pipe and /bin/sh; use_shell and timeout_ms are ignored.
LaunchPosix ==
    /\ caller = "launch" /\ ~windows
    /\ procs' = [procs EXCEPT !["child"] = "running"]
    /\ writers' = WritersAtStart
    /\ started' = TRUE
    /\ caller' = "drain"
    /\ UNCHANGED <<callVars, code, in_job, job, pipeVars, expired, timed_out, exit_code, last_error,
                   historyVars>>

\* An empty command, or the pipe or the process cannot be created.
LaunchFails ==
    /\ caller = "launch"
    /\ caller' = "returned"
    /\ last_error' = LastErrorOf(FALSE, FALSE, 0)
    /\ UNCHANGED <<callVars, procVars, job, pipeVars, expired, started, timed_out, exit_code, historyVars>>

\* The count after one more chunk.
CountOne(n) == IF n = MaxChunks THEN 0 ELSE n + 1

Take ==
    /\ pipe > 0
    /\ pipe' = pipe - 1
    /\ got' = CountOne(got)
    /\ UNCHANGED <<callVars, caller, procVars, job, written, expired, resultVars, historyVars>>

\* PeekNamedPipe says there is something, ReadFile takes it.
ReadAvailable == caller = "peek" /\ Take

Goto(from, to) ==
    /\ caller = from
    /\ caller' = to
    /\ UNCHANGED <<callVars, procVars, job, pipeVars, expired, historyVars>>

PeekEmpty == pipe = 0 /\ Goto("peek", "check") /\ UNCHANGED resultVars

\* Mutant: output still in the pipe is not read once the process has ended.
CheckExitNoDrain ==
    /\ Goto("check", IF procs["child"] = "running" THEN "clock" ELSE "collect")
    /\ UNCHANGED resultVars

\* Mutant: the end of the output is taken for the end of the process.
CheckExitByEof ==
    /\ Goto("check", IF procs["child"] = "running" /\ writers # {} THEN "clock" ELSE "drain")
    /\ UNCHANGED resultVars

\* WaitForSingleObject on the child, without waiting.
CheckExit ==
    /\ Goto("check", IF procs["child"] = "running" THEN "clock" ELSE "drain")
    /\ UNCHANGED resultVars

\* Mutant: the deadline is never looked at.
CheckClockNever == Goto("clock", "peek") /\ UNCHANGED resultVars

\* The deadline, after which the loop sleeps and starts again.
CheckClock ==
    \/ /\ mode = "limited" /\ expired
       /\ Goto("clock", "kill")
       /\ timed_out' = TRUE
       /\ UNCHANGED <<started, exit_code, last_error>>
    \/ /\ ~(mode = "limited" /\ expired)
       /\ Goto("clock", "peek")
       /\ UNCHANGED resultVars

\* A read that blocks until there is output or nobody can write any more.
Read == caller = "drain" /\ Take

ReadEof == pipe = 0 /\ writers = {} /\ Goto("drain", "collect") /\ UNCHANGED resultVars

\* What the child's end is reported as: on POSIX only WIFEXITED gives a code.
ExitCodeOf ==
    CASE procs["child"] = "running" -> StillActive
      [] ~windows /\ procs["child"] # "exited" -> 0
      [] OTHER -> code

\* POSIX: a signal interrupts read, which the loop takes for the end.
ReadInterrupted ==
    /\ ~windows
    /\ caller = "drain"
    /\ caller' = "collect"
    /\ interrupted' = TRUE
    /\ UNCHANGED <<callVars, procVars, job, pipeVars, expired, resultVars, uncollected>>

\* GetExitCodeProcess, or waitpid, which waits for the child.
CollectExit ==
    /\ windows \/ procs["child"] # "running"
    /\ Goto("collect", "close")
    /\ exit_code' = ExitCodeOf
    /\ UNCHANGED <<started, timed_out, last_error>>

\* GetExitCodeProcess fails, or waitpid does other than by EINTR: there is no
\* such child any more, as it was waited for elsewhere or SIGCHLD is ignored.
\* The result keeps its 0, and a status that is still 0 counts as WIFEXITED.
CollectFails ==
    /\ windows \/ procs["child"] # "running"
    /\ caller = "collect"
    /\ caller' = "close"
    /\ uncollected' = TRUE
    /\ UNCHANGED <<callVars, procVars, job, pipeVars, expired, resultVars, interrupted>>

\* The processes of ps that still run end, and with them their write ends.
Kill(ps) ==
    /\ procs' = [p \in Proc |-> IF p \in ps \cap Running THEN "killed" ELSE procs[p]]
    /\ writers' = writers \ ps
    /\ UNCHANGED <<code, in_job>>

\* TerminateJobObject, or TerminateProcess when there is no job.
KillAtTimeout ==
    /\ caller = "kill"
    /\ caller' = "close"
    /\ Kill(IF job = "open" THEN in_job ELSE {"child"})
    /\ UNCHANGED <<callVars, job, pipeVars, expired, resultVars, historyVars>>

\* The handles are closed; KILL_ON_JOB_CLOSE ends whatever is left in the job.
CloseAndReturn ==
    /\ caller = "close"
    /\ caller' = "returned"
    /\ Kill(IF job = "open" THEN in_job ELSE {})
    /\ job' = IF job = "open" THEN "closed" ELSE job
    /\ last_error' = LastErrorOf(started, timed_out, exit_code)
    /\ UNCHANGED <<callVars, pipeVars, expired, started, timed_out, exit_code, historyVars>>

-----------------------------------------------------------------------------
(* The operating system's side: the processes and the clock. *)

\* Windows closes the read end with the other handles, POSIX before waitpid.
ReadEndOpen ==
    caller \notin (IF windows THEN {"returned"} ELSE {"collect", "close", "returned"})

\* A process writes while the read end is open and the pipe is not full.
Write(p) ==
    /\ p \in Running \cap writers
    /\ ReadEndOpen /\ pipe < PipeSize
    /\ pipe' = pipe + 1
    /\ written' = CountOne(written)
    /\ UNCHANGED <<callVars, caller, procVars, job, got, expired, resultVars, historyVars>>

\* The child starts a process, with its own output or another.
Spawn ==
    /\ procs["child"] = "running" /\ procs["grandchild"] = "none"
    /\ procs' = [procs EXCEPT !["grandchild"] = "running"]
    /\ in_job' = IF "child" \in in_job THEN Proc ELSE in_job
    /\ \/ "child" \in writers /\ writers' = writers \cup {"grandchild"}
       \/ UNCHANGED writers
    /\ UNCHANGED <<callVars, caller, code, job, pipeVars, expired, resultVars, historyVars>>

CloseOutput(p) ==
    /\ p \in Running \cap writers
    /\ writers' = writers \ {p}
    /\ UNCHANGED <<callVars, caller, procs, code, in_job, job, pipeVars, expired, resultVars, historyVars>>

\* A POSIX exit status has 8 bits.
PossibleCodes == {n \in ExitCodes : windows \/ n <= 255}

\* A process ends by itself, or by an exception or a signal.
End(p) ==
    /\ p \in Running
    /\ \E how \in {"exited", "crashed"} : procs' = [procs EXCEPT ![p] = how]
    /\ IF p = "child" THEN code' \in PossibleCodes ELSE UNCHANGED code
    /\ writers' = writers \ {p}
    /\ UNCHANGED <<callVars, caller, in_job, job, pipeVars, expired, resultVars, historyVars>>

Expire ==
    /\ ~expired /\ started /\ mode = "limited"
    /\ expired' = TRUE
    /\ UNCHANGED <<callVars, caller, procVars, job, pipeVars, resultVars, historyVars>>

-----------------------------------------------------------------------------

Terminated == caller = "returned" /\ Running = {} /\ UNCHANGED vars

CallerStep ==
    \/ LaunchWindows \/ LaunchPosix \/ LaunchFails
    \/ ReadAvailable \/ PeekEmpty \/ CheckExit \/ CheckClock
    \/ Read \/ ReadEof \/ CollectExit \/ CollectFails
    \/ KillAtTimeout \/ CloseAndReturn

Next ==
    \/ CallerStep
    \/ \E p \in Proc : Write(p) \/ CloseOutput(p) \/ End(p)
    \/ Spawn
    \/ Expire
    \/ ReadInterrupted
    \/ Terminated

Spec == Init /\ [][Next]_vars

(* The calling thread is scheduled and time passes.  Nothing is assumed of the
   processes: they may run, or keep the pipe open, for ever. *)
FairSpec == Spec /\ WF_vars(CallerStep) /\ WF_vars(Expire)

-----------------------------------------------------------------------------
(* Safety properties. *)

Finished == caller = "returned" /\ started /\ ~timed_out
Waited == ~windows \/ mode # "now"

\* A command that was waited for to its end returns all the output written to
\* the pipe, also what was written between the last poll and the end, unless on
\* POSIX a signal interrupted the read, which the code takes for the end.
NoOutputLost == Finished /\ Waited /\ ~interrupted => got = written

\* Windows: when the job took the child, nothing that a command started outlives
\* a call that waited for it, whether the command ended or timed out; where there
\* is no job object at all, a timeout still ends the child.  (A call that does
\* not wait is another matter: see LaunchedIsLeftRunning.)
NoOrphans ==
    windows /\ mode # "now" /\ caller = "returned" =>
        /\ "child" \in in_job => Running = {}
        /\ timed_out /\ job = "none" => "child" \notin Running

\* Without a timeout the reported status is the one the child ended with, and
\* the child has ended: no status is reported for a child that still runs.  Two
\* cases are reported as 0, which a script reads as success: a POSIX child that
\* a signal ended, and a status that the system does not tell (uncollected).
ReportsTheEnd ==
    Finished /\ Waited =>
        /\ procs["child"] \in {"exited", "crashed"}
        /\ ~uncollected /\ (windows \/ procs["child"] = "exited") => exit_code = code
        /\ uncollected \/ (~windows /\ procs["child"] = "crashed") => exit_code = 0

-----------------------------------------------------------------------------
(* Liveness. *)

\* Windows: with a timeout the call returns, however long the processes run,
\* unless from some time on every look at the pipe finds output in it, or a
\* descendant keeps the pipe open after the child has ended.
LimitedReturns ==
    \/ <>[](caller = "peek")
    \/ windows /\ mode = "limited" /\ caller = "peek" ~>
           caller = "returned" \/ (procs["child"] # "running" /\ writers # {})

\* A call returns once everything it started has ended, on both platforms.
ReturnsWhenAllEnd == <>[](Running = {}) => <>(caller = "returned")

-----------------------------------------------------------------------------
(* What the code does not do. *)

\* BEShellExec.h: a timeout of 0 means that the command is launched and the call
\* returns at once, without waiting for its output; nothing says that the command
\* is ended with it.
LaunchedIsLeftRunning ==
    mode = "now" /\ caller = "returned" => procs["child"] # "killed"

\* BEShellExec.h: after the timeout the descendants are killed and the call
\* returns with timed_out = true.
HonoursTimeout ==
    windows /\ mode = "limited" /\ caller = "peek" ~> caller = "returned"

=============================================================================
