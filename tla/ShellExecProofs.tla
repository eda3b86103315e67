---------------------------- MODULE ShellExecProofs ----------------------------
(* Proofs about ShellExec, for any pipe, output and exit codes. *)
EXTENDS ShellExec, TLAPS

\* What is written is in the pipe or has been read, as the chunks are counted.
Chunks == written = got + pipe \/ written = got + pipe - (MaxChunks + 1)

\* Nothing runs before the launch, nor when it fails.
LaunchInv ==
    /\ started => caller # "launch"
    /\ ~ started => caller \in {"launch", "returned"} /\ Running = {} /\ ~ timed_out
    /\ timed_out => caller \in {"kill", "close", "returned"}
    /\ caller = "launch" => procs = [p \in Proc |-> "none"] /\ job = "none" /\ in_job = {}

Ended(p) == procs[p] \in {"exited", "crashed"}

\* The call is over, by itself, and has waited for the child.
AwaitedEnd == caller \in {"close", "returned"} /\ started /\ ~ timed_out /\ Waited

\* The child is only killed at the end of a call that does not report it, and
\* the status is 0 until it is obtained.
ChildInv ==
    /\ caller \in {"peek", "check", "clock", "drain", "collect"} =>
           procs["child"] \in {"running", "exited", "crashed"}
    /\ windows /\ caller \in {"drain", "collect"} => Ended("child")
    /\ caller = "kill" => timed_out
    /\ caller \notin {"close", "returned"} => ~ uncollected /\ exit_code = 0
    /\ AwaitedEnd =>
           /\ Ended("child")
           /\ ~ uncollected /\ (windows \/ procs["child"] = "exited") => exit_code = code
           /\ uncollected \/ (~ windows /\ procs["child"] = "crashed") => exit_code = 0

\* The pipe is empty, and stays so, when the read loop has seen its end.
OutputInv ==
    (caller = "collect" \/ AwaitedEnd) /\ ~ interrupted => pipe = 0 /\ writers = {}

\* With the child, all it has started is in the job; a timeout ends the child
\* where there is no job.
JobInv ==
    /\ in_job # {} /\ caller # "returned" => job = "open"
    /\ "child" \in in_job => Running \subseteq in_job
    /\ job = "closed" => caller = "returned"
    /\ caller \in {"close", "returned"} /\ timed_out /\ job = "none" => "child" \notin Running
    /\ windows /\ caller = "returned" /\ "child" \in in_job => Running = {}

Inv == Chunks /\ LaunchInv /\ ChildInv /\ OutputInv /\ JobInv

-----------------------------------------------------------------------------
(* Types.  The flags are kept apart, since they need another prover.        *)

Flags ==
    /\ windows \in BOOLEAN
    /\ expired \in BOOLEAN
    /\ started \in BOOLEAN
    /\ timed_out \in BOOLEAN
    /\ interrupted \in BOOLEAN
    /\ uncollected \in BOOLEAN

Values ==
    /\ mode \in {"forever", "now", "limited"}
    /\ caller \in {"launch", "peek", "check", "clock", "drain", "collect", "kill", "close", "returned"}
    /\ procs \in [Proc -> {"none", "running", "exited", "crashed", "killed"}]
    /\ code \in ExitCodes \cup {0}
    /\ writers \in SUBSET (Proc \cup {"parent"})
    /\ job \in {"none", "open", "closed"}
    /\ in_job \in SUBSET Proc
    /\ pipe \in 0..PipeSize
    /\ written \in 0..MaxChunks
    /\ got \in 0..MaxChunks
    /\ exit_code \in ExitCodes \cup {0, StillActive}
    /\ last_error \in Errcode

\* The two parts make up the type invariant of the model.
LEMMA TypeParts == Flags /\ Values => TypeOK
BY Zenon DEF TypeOK, Flags, Values

\* Both parts hold initially.
LEMMA TypeInit == Init => Flags /\ Values
<1> SUFFICES ASSUME Init PROVE Flags /\ Values
  OBVIOUS
<1>1. Flags
  BY Zenon DEF Init, Flags
<1>2. Values
  <2>1. 0 \in Errcode /\ 0 \in 0..PipeSize /\ 0 \in 0..MaxChunks
    BY PipeSizeAssumption, MaxChunksAssumption DEF Errcode
  <2>2. QED
    BY <2>1 DEF Init, Values
<1>3. QED
  BY <1>1, <1>2

\* A status cut to an errcode is one.
LEMMA ErrcodeType == \A n \in Nat : AsErrcode(n) \in Errcode
BY DEF AsErrcode, Errcode

\* A count of chunks stays one.
LEMMA CountType == \A n \in 0..MaxChunks : CountOne(n) \in 0..MaxChunks
BY MaxChunksAssumption DEF CountOne

\* What a call leaves as last error is an errcode.
LEMMA LastErrorType ==
    ASSUME NEW n \in Nat
    PROVE  LastErrorOf(started, timed_out, n) \in Errcode
<1>1. kErrorUnknown \in Errcode /\ kCommandTimeout \in Errcode
  BY DEF kErrorUnknown, kCommandTimeout, Errcode
<1>2. AsErrcode(n) \in Errcode
  BY ErrcodeType
<1>3. QED
  BY <1>1, <1>2, Zenon DEF LastErrorOf

\* Ending processes keeps the types.
LEMMA KillTypes ==
    ASSUME Values, NEW ps \in SUBSET Proc, Kill(ps)
    PROVE  /\ procs' \in [Proc -> {"none", "running", "exited", "crashed", "killed"}]
           /\ writers' \in SUBSET (Proc \cup {"parent"})
           /\ code' \in ExitCodes \cup {0}
           /\ in_job' \in SUBSET Proc
BY DEF Values, Kill

\* Every step keeps the flags Boolean.
LEMMA FlagsStep == Flags /\ [Next]_vars => Flags'
<1> SUFFICES ASSUME Flags, [Next]_vars PROVE Flags'
  OBVIOUS
<1> USE DEF callVars, procVars, pipeVars, resultVars, historyVars
<1>1. windows' = windows
  BY DEF Next, CallerStep, LaunchWindows, LaunchPosix, LaunchFails, ReadAvailable, Read, Take,
         PeekEmpty, CheckExit, CheckClock, ReadEof, CollectExit, CollectFails, Goto, KillAtTimeout, CloseAndReturn,
         Write, CloseOutput, End, Spawn, Expire, ReadInterrupted, Terminated, vars
<1>2. /\ expired' = expired \/ expired' = TRUE
      /\ interrupted' = interrupted \/ interrupted' = TRUE
      /\ uncollected' = uncollected \/ uncollected' = TRUE
  BY DEF Next, CallerStep, LaunchWindows, LaunchPosix, LaunchFails, ReadAvailable, Read, Take,
         PeekEmpty, CheckExit, CheckClock, ReadEof, CollectExit, CollectFails, Goto, KillAtTimeout, CloseAndReturn,
         Write, CloseOutput, End, Spawn, Expire, ReadInterrupted, Terminated, vars
<1>3. /\ started' = started \/ started' = TRUE
      /\ timed_out' = timed_out \/ timed_out' = TRUE
  BY DEF Next, CallerStep, LaunchWindows, LaunchPosix, LaunchFails, ReadAvailable, Read, Take,
         PeekEmpty, CheckExit, CheckClock, ReadEof, CollectExit, CollectFails, Goto, KillAtTimeout, CloseAndReturn,
         Write, CloseOutput, End, Spawn, Expire, ReadInterrupted, Terminated, vars
<1>4. QED
  BY <1>1, <1>2, <1>3, Zenon DEF Flags

\* Every step keeps the other types.
LEMMA ValuesStep == Values /\ [Next]_vars => Values'
<1> SUFFICES ASSUME Values, [Next]_vars PROVE Values'
  OBVIOUS
<1> USE DEF Values, callVars, procVars, pipeVars, resultVars, historyVars
<1>1. PipeSize \in Nat /\ MaxChunks \in Nat /\ ExitCodes \subseteq Nat
  BY PipeSizeAssumption, MaxChunksAssumption, ExitCodesAssumption
<1>2. CASE LaunchWindows
  BY <1>2 DEF LaunchWindows, StartSuspended, WritersAtStart, Proc
<1>3. CASE LaunchPosix
  BY <1>3 DEF LaunchPosix, WritersAtStart, Proc
<1>4. CASE LaunchFails
  <2>1. LastErrorOf(FALSE, FALSE, 0) \in Errcode
    BY DEF LastErrorOf, kErrorUnknown, Errcode
  <2>2. QED
    BY <1>4, <2>1 DEF LaunchFails
<1>5. CASE ReadAvailable \/ Read
  BY <1>1, <1>5, CountType DEF ReadAvailable, Read, Take
<1>6. CASE PeekEmpty \/ CheckExit \/ ReadEof
  BY <1>6 DEF PeekEmpty, CheckExit, ReadEof, Goto
<1>7. CASE CheckClock
  BY <1>7 DEF CheckClock, Goto
<1>8. CASE CollectExit
  <2>1. ExitCodeOf \in ExitCodes \cup {0, StillActive}
    BY DEF ExitCodeOf
  <2>2. QED
    BY <1>8, <2>1 DEF CollectExit, Goto
<1>9. CASE KillAtTimeout
  <2>1. (IF job = "open" THEN in_job ELSE {"child"}) \in SUBSET Proc
    BY DEF Proc
  <2>2. QED
    BY <1>9, <2>1, KillTypes DEF KillAtTimeout
<1>10. CASE CloseAndReturn
  <2>1. (IF job = "open" THEN in_job ELSE {}) \in SUBSET Proc
    OBVIOUS
  <2>2. exit_code \in Nat
    BY <1>1 DEF StillActive
  <2>3. LastErrorOf(started, timed_out, exit_code) \in Errcode
    BY <2>2, LastErrorType
  <2>4. QED
    BY <1>10, <2>1, <2>3, KillTypes DEF CloseAndReturn
<1>11. ASSUME NEW p \in Proc, Write(p) PROVE Values'
  BY <1>1, <1>11, CountType DEF Write
<1>12. ASSUME NEW p \in Proc, CloseOutput(p) PROVE Values'
  BY <1>12 DEF CloseOutput
<1>13. ASSUME NEW p \in Proc, End(p) PROVE Values'
  <2>1. code' \in ExitCodes \cup {0}
    BY <1>13 DEF End, PossibleCodes
  <2>2. procs' \in [Proc -> {"none", "running", "exited", "crashed", "killed"}]
    BY <1>13 DEF End
  <2>3. QED
    BY <1>13, <2>1, <2>2 DEF End
<1>14. CASE Spawn
  BY <1>14 DEF Spawn, Proc
<1>15. CASE Expire \/ ReadInterrupted \/ CollectFails
  BY <1>15 DEF Expire, ReadInterrupted, CollectFails
<1>16. CASE UNCHANGED vars
  BY <1>16 DEF vars
<1>17. QED
  BY <1>2, <1>3, <1>4, <1>5, <1>6, <1>7, <1>8, <1>9, <1>10, <1>11, <1>12, <1>13, <1>14,
     <1>15, <1>16 DEF Next, CallerStep, Terminated

-----------------------------------------------------------------------------
\* The invariant holds before the launch.
LEMMA InvInit == Init => Inv
<1> SUFFICES ASSUME Init PROVE Inv
  OBVIOUS
<1>1. Running = {}
  BY DEF Init, Running
<1>2. Chunks
  BY MaxChunksAssumption DEF Init, Chunks
<1>3. LaunchInv /\ ChildInv /\ OutputInv
  BY <1>1 DEF Init, LaunchInv, ChildInv, OutputInv, AwaitedEnd
<1>4. JobInv
  BY <1>1 DEF Init, JobInv
<1>5. QED
  BY <1>2, <1>3, <1>4 DEF Inv

\* Every step accounts for every chunk.
LEMMA ChunksStep == Values /\ Chunks /\ [Next]_vars => Chunks'
<1> SUFFICES ASSUME Values, Chunks, [Next]_vars PROVE Chunks'
  OBVIOUS
<1>1. /\ pipe \in Nat /\ pipe <= PipeSize /\ PipeSize <= MaxChunks
      /\ got \in 0..MaxChunks /\ written \in 0..MaxChunks
      /\ MaxChunks \in Nat /\ PipeSize \in Nat
  BY PipeSizeAssumption, MaxChunksAssumption DEF Values
<1>2. CASE ReadAvailable \/ Read
  BY <1>1, <1>2 DEF ReadAvailable, Read, Take, Chunks, CountOne
<1>3. ASSUME NEW p \in Proc, Write(p) PROVE Chunks'
  BY <1>1, <1>3 DEF Write, Chunks, CountOne
<1>4. CASE UNCHANGED pipeVars
  BY <1>4 DEF pipeVars, Chunks
<1>5. QED
  BY <1>2, <1>3, <1>4
     DEF Next, CallerStep, LaunchWindows, LaunchPosix, LaunchFails, PeekEmpty, CheckExit, CheckClock,
         ReadEof, CollectExit, CollectFails, Goto, KillAtTimeout, CloseAndReturn, CloseOutput, End, Spawn, Expire,
         ReadInterrupted, Terminated, vars

\* Each launch that succeeds starts the child, and nothing else.
LEMMA LaunchStep ==
    ASSUME Values, Inv, LaunchWindows \/ LaunchPosix
    PROVE  LaunchInv' /\ ChildInv' /\ OutputInv' /\ JobInv'
<1> USE DEF Values
<1>1. /\ caller = "launch" /\ procs = [p \in Proc |-> "none"]
      /\ started' = TRUE /\ timed_out' = timed_out /\ mode' = mode /\ windows' = windows
      /\ exit_code' = exit_code /\ uncollected' = uncollected
      /\ procs' = [procs EXCEPT !["child"] = "running"]
      /\ caller' \in (IF windows THEN IF mode = "now" THEN {"close"} ELSE {"peek"} ELSE {"drain"})
  BY DEF LaunchWindows, LaunchPosix, StartSuspended, callVars, historyVars, Inv, LaunchInv
<1>2. "child" \in Proc /\ procs'["child"] = "running" /\ Running' = {"child"}
  BY <1>1 DEF Proc, Running
<1>3. LaunchInv'
  BY <1>1 DEF Inv, LaunchInv
<1>4. ~ AwaitedEnd'
  BY <1>1 DEF AwaitedEnd, Waited
<1>5. ChildInv' /\ OutputInv'
  BY <1>1, <1>2, <1>4 DEF Inv, ChildInv, OutputInv
<1>6. JobInv'
  <2>1. in_job = {} /\ job = "none"
    BY <1>1 DEF Inv, LaunchInv
  <2>2. in_job' = {} \/ (in_job' = {"child"} /\ job' = "open")
    BY <2>1 DEF LaunchWindows, LaunchPosix, StartSuspended
  <2>3. caller' # "returned" /\ ~ timed_out' /\ job' # "closed"
    BY <1>1, <2>1 DEF Inv, LaunchInv, LaunchWindows, LaunchPosix
  <2>4. QED
    BY <1>2, <2>2, <2>3 DEF JobInv
<1>7. QED
  BY <1>3, <1>5, <1>6

\* A launch that fails leaves nothing running.
LEMMA LaunchFailsStep ==
    ASSUME Values, Inv, LaunchFails
    PROVE  LaunchInv' /\ ChildInv' /\ OutputInv' /\ JobInv'
<1>1. /\ caller = "launch" /\ caller' = "returned"
      /\ UNCHANGED <<windows, mode, procs, in_job, job, started, timed_out>>
  BY DEF LaunchFails, callVars, procVars
<1>2. /\ ~ started /\ ~ timed_out /\ job = "none"
      /\ Running' = Running /\ Running = {} /\ in_job = {}
  BY <1>1 DEF Inv, LaunchInv, Running, Values
<1>3. QED
  BY <1>1, <1>2 DEF LaunchInv, ChildInv, OutputInv, AwaitedEnd, JobInv

\* The poll and the read loop move the caller and touch no process.
LEMMA WaitingStep ==
    ASSUME Values, Inv,
           \/ ReadAvailable
           \/ PeekEmpty
           \/ CheckExit
           \/ CheckClock
           \/ Read
           \/ ReadEof
           \/ ReadInterrupted
    PROVE  LaunchInv' /\ ChildInv' /\ OutputInv' /\ JobInv'
<1> USE DEF Values, callVars, procVars, pipeVars, resultVars, historyVars
<1>1. /\ UNCHANGED <<windows, mode, procs, code, writers, in_job, job, started, exit_code,
                     uncollected>>
      /\ caller \in {"peek", "check", "clock", "drain"}
      /\ caller' \in {"peek", "check", "clock", "drain", "collect", "kill"}
      /\ caller' = "kill" => timed_out'
  BY DEF ReadAvailable, PeekEmpty, CheckExit, CheckClock, Read, ReadEof, ReadInterrupted, Take, Goto
<1>2. Running' = Running
  BY <1>1 DEF Running
<1>3. started /\ caller' # "launch" /\ ~ AwaitedEnd'
  BY <1>1 DEF Inv, LaunchInv, AwaitedEnd
<1>4. LaunchInv'
  <2>1. timed_out' => caller' = "kill"
    BY <1>1 DEF Inv, LaunchInv, ReadAvailable, PeekEmpty, CheckExit, CheckClock, Read, ReadEof,
                ReadInterrupted, Take, Goto
  <2>2. QED
    BY <1>1, <1>3, <2>1 DEF LaunchInv
<1>5. ChildInv'
  <2>1. procs["child"] \in {"running", "exited", "crashed"}
    BY <1>1 DEF Inv, ChildInv
  <2>2. windows /\ caller' \in {"drain", "collect"} => procs["child"] # "running"
    <3>1. CASE CheckExit
      BY <3>1 DEF CheckExit, Goto
    <3>2. CASE Read \/ ReadEof \/ ReadInterrupted
      BY <3>2 DEF Read, ReadEof, ReadInterrupted, Take, Goto, Inv, ChildInv, Ended
    <3>3. CASE ReadAvailable \/ PeekEmpty \/ CheckClock
      BY <3>3 DEF ReadAvailable, PeekEmpty, CheckClock, Take, Goto
    <3>4. QED
      BY <3>1, <3>2, <3>3
  <2>3. QED
    BY <1>1, <1>3, <2>1, <2>2 DEF Inv, ChildInv, Ended
<1>6. OutputInv'
  <2>1. SUFFICES ASSUME caller' = "collect", ~ interrupted' PROVE pipe' = 0 /\ writers' = {}
    BY <1>3 DEF OutputInv
  <2>2. ReadEof
    BY <2>1 DEF ReadAvailable, PeekEmpty, CheckExit, CheckClock, Read, ReadInterrupted, Take, Goto
  <2>3. QED
    BY <2>2 DEF ReadEof, Goto
<1>7. JobInv'
  <2>1. caller' \notin {"close", "returned"} /\ caller # "returned"
    BY <1>1
  <2>2. QED
    BY <1>1, <1>2, <2>1 DEF Inv, JobInv
<1>8. QED
  BY <1>4, <1>5, <1>6, <1>7

\* The status is taken from the child as it has ended, or is not obtained.
LEMMA CollectStep ==
    ASSUME Values, Inv, CollectExit \/ CollectFails
    PROVE  LaunchInv' /\ ChildInv' /\ OutputInv' /\ JobInv'
<1> USE DEF Values, callVars, procVars, pipeVars, resultVars, historyVars
<1>1. /\ UNCHANGED <<windows, mode, procs, code, writers, in_job, job, pipe, started, timed_out,
                     interrupted>>
      /\ caller = "collect" /\ caller' = "close"
      /\ windows \/ procs["child"] # "running"
  BY DEF CollectExit, CollectFails, Goto
<1>2. Running' = Running
  BY <1>1 DEF Running
<1>3. Ended("child")
  BY <1>1 DEF Inv, ChildInv, Ended
<1>4. ~ uncollected /\ exit_code = 0
  BY <1>1 DEF Inv, ChildInv
<1>5. /\ ~ uncollected' /\ (windows \/ procs["child"] = "exited") => exit_code' = code
      /\ uncollected' \/ (~ windows /\ procs["child"] = "crashed") => exit_code' = 0
  <2>1. CASE CollectExit
    <3>1. uncollected' = uncollected /\ exit_code' = ExitCodeOf
      BY <2>1 DEF CollectExit, Goto
    <3>2. QED
      BY <1>3, <1>4, <3>1 DEF ExitCodeOf, Ended
  <2>2. CASE CollectFails
    BY <1>4, <2>2 DEF CollectFails
  <2>3. QED
    BY <2>1, <2>2
<1>6. LaunchInv'
  BY <1>1, <1>2 DEF Inv, LaunchInv
<1>7. ChildInv' /\ OutputInv'
  BY <1>1, <1>3, <1>5 DEF Inv, ChildInv, OutputInv, Ended
<1>8. JobInv'
  <2>1. ~ timed_out' /\ caller' # "returned" /\ caller # "returned"
    BY <1>1 DEF Inv, LaunchInv
  <2>2. QED
    BY <1>1, <1>2, <2>1 DEF Inv, JobInv
<1>9. QED
  BY <1>6, <1>7, <1>8

\* A call that is at its end kills, but not a child that has ended.
LEMMA KillStep ==
    ASSUME Values, Inv, KillAtTimeout \/ CloseAndReturn
    PROVE  LaunchInv' /\ ChildInv' /\ OutputInv' /\ JobInv'
<1> USE DEF Values, callVars, procVars, pipeVars, resultVars, historyVars
<1> DEFINE ps == IF job = "open" THEN in_job ELSE IF caller = "kill" THEN {"child"} ELSE {}
<1>1. /\ caller \in {"kill", "close"}
      /\ caller' = IF caller = "kill" THEN "close" ELSE "returned"
      /\ Kill(ps)
      /\ UNCHANGED <<windows, mode, pipe, started, timed_out, exit_code, interrupted, uncollected>>
      /\ caller = "kill" => job' = job
  BY DEF KillAtTimeout, CloseAndReturn
<1>2. /\ \A p \in Proc : procs'[p] = IF p \in ps \cap Running THEN "killed" ELSE procs[p]
      /\ writers' \subseteq writers /\ UNCHANGED <<code, in_job>>
  BY <1>1 DEF Kill
<1> HIDE DEF ps
<1>3. Running' = Running \ ps
  BY <1>2 DEF Running
<1>4. started
  BY <1>1 DEF Inv, LaunchInv
<1>5. LaunchInv'
  BY <1>1, <1>4 DEF LaunchInv
<1>6. AwaitedEnd' => caller = "close" /\ AwaitedEnd
  BY <1>1 DEF AwaitedEnd, Waited, Inv, ChildInv
<1>7. ChildInv'
  <2>1. AwaitedEnd' => Ended("child") /\ procs'["child"] = procs["child"]
    BY <1>2, <1>6 DEF Inv, ChildInv, Ended, Running, Proc
  <2>2. QED
    BY <1>1, <1>2, <1>6, <2>1 DEF Inv, ChildInv, Ended
<1>8. OutputInv'
  BY <1>1, <1>2, <1>6 DEF Inv, OutputInv
<1>9. JobInv'
  <2>1. in_job # {} => job = "open"
    BY <1>1 DEF Inv, JobInv
  <2>2. "child" \in in_job => Running \subseteq in_job
    BY DEF Inv, JobInv
  <2>3. "child" \in in_job => Running' = {}
    BY <1>3, <2>1, <2>2 DEF ps
  <2>4. in_job' # {} /\ caller' # "returned" => job' = "open"
    BY <1>1, <1>2, <2>1
  <2>5. job' = "closed" => caller' = "returned"
    BY <1>1 DEF Inv, JobInv, KillAtTimeout, CloseAndReturn
  <2>6. timed_out' /\ job' = "none" => "child" \notin Running'
    <3>1. SUFFICES ASSUME timed_out', job' = "none" PROVE "child" \notin Running'
      OBVIOUS
    <3>2. job = "none"
      BY <3>1 DEF KillAtTimeout, CloseAndReturn
    <3>3. CASE caller = "kill"
      BY <1>3, <3>2, <3>3 DEF ps
    <3>4. CASE caller = "close"
      BY <1>1, <1>3, <3>1, <3>2, <3>4 DEF Inv, JobInv
    <3>5. QED
      BY <1>1, <3>3, <3>4
  <2>7. QED
    BY <1>2, <2>3, <2>4, <2>5, <2>6 DEF JobInv
<1>10. QED
  BY <1>5, <1>7, <1>8, <1>9

\* A process that writes, closes its output, starts another or ends.
LEMMA ProcessStep ==
    ASSUME Values, Inv, Spawn \/ \E p \in Proc : Write(p) \/ CloseOutput(p) \/ End(p)
    PROVE  LaunchInv' /\ ChildInv' /\ OutputInv' /\ JobInv'
<1> USE DEF Values, callVars, procVars, resultVars, historyVars
<1>1. UNCHANGED <<windows, mode, caller, job, started, timed_out, exit_code, interrupted,
                  uncollected>>
  BY DEF Spawn, Write, CloseOutput, End
<1>2. Running # {}
  BY DEF Spawn, Write, CloseOutput, End, Running, Proc
<1>3. started
  BY <1>2 DEF Inv, LaunchInv
<1>4. LaunchInv'
  BY <1>1, <1>3 DEF Inv, LaunchInv
<1>5. procs["child"] # "running" => procs'["child"] = procs["child"] /\ code' = code
  BY DEF Spawn, Write, CloseOutput, End, Running, Proc
<1>6. procs["child"] = "running" => procs'["child"] \in {"running", "exited", "crashed"}
  BY DEF Spawn, Write, CloseOutput, End, Running, Proc
<1>7. ChildInv'
  <2>1. Ended("child") => procs'["child"] = procs["child"] /\ code' = code
    BY <1>5 DEF Ended
  <2>2. AwaitedEnd' = AwaitedEnd
    BY <1>1 DEF AwaitedEnd, Waited
  <2>3. QED
    BY <1>1, <1>5, <1>6, <2>1, <2>2 DEF Inv, ChildInv, Ended
<1>8. OutputInv'
  <2>1. writers = {} => writers' = {} /\ pipe' = pipe
    BY DEF Spawn, Write, CloseOutput, End, pipeVars
  <2>2. QED
    BY <1>1, <2>1 DEF Inv, OutputInv, AwaitedEnd, Waited
<1>9. JobInv'
  <2>0. "child" \notin Running => "child" \notin Running'
    BY <1>5 DEF Running, Proc
  <2>1. CASE Spawn
    <3>1. /\ "child" \in Running
          /\ in_job' = IF "child" \in in_job THEN Proc ELSE in_job
          /\ Running' \subseteq Proc
      BY <2>1 DEF Spawn, Running, Proc
    <3>2. in_job' # {} => in_job # {}
      BY <3>1
    <3>3. "child" \in in_job' => "child" \in in_job /\ Running' \subseteq in_job'
      BY <3>1
    <3>4. windows' /\ caller' = "returned" => "child" \notin in_job'
      BY <1>1, <3>1, <3>3 DEF Inv, JobInv
    <3>5. QED
      BY <1>1, <2>0, <3>2, <3>3, <3>4 DEF Inv, JobInv
  <2>2. CASE \E p \in Proc : Write(p) \/ CloseOutput(p) \/ End(p)
    <3>1. in_job' = in_job /\ Running' \subseteq Running
      BY <2>2 DEF Write, CloseOutput, End, Running
    <3>2. QED
      BY <1>1, <2>0, <3>1 DEF Inv, JobInv
  <2>3. QED
    BY <2>1, <2>2
<1>10. QED
  BY <1>4, <1>7, <1>8, <1>9

\* The clock touches nothing the invariant speaks of.
LEMMA StutterStep ==
    ASSUME Values, Inv, Expire \/ UNCHANGED vars
    PROVE  LaunchInv' /\ ChildInv' /\ OutputInv' /\ JobInv'
<1>1. UNCHANGED <<windows, mode, caller, procs, code, writers, in_job, job, pipe, started, timed_out,
                  exit_code, interrupted, uncollected>>
  BY DEF Expire, vars, callVars, procVars, pipeVars, resultVars, historyVars
<1>2. Running' = Running /\ (Ended("child"))' = Ended("child") /\ AwaitedEnd' = AwaitedEnd
  BY <1>1 DEF Running, Ended, AwaitedEnd, Waited
<1>3. QED
  BY <1>1, <1>2 DEF Inv, LaunchInv, ChildInv, OutputInv, JobInv

\* Every step keeps the invariant.
LEMMA InvStep == Values /\ Inv /\ [Next]_vars => Inv'
<1> SUFFICES ASSUME Values, Inv, [Next]_vars PROVE Inv'
  OBVIOUS
<1>1. Chunks'
  BY ChunksStep DEF Inv
<1>2. LaunchInv' /\ ChildInv' /\ OutputInv' /\ JobInv'
  BY LaunchStep, LaunchFailsStep, WaitingStep, CollectStep, KillStep, ProcessStep, StutterStep
     DEF Next, CallerStep, Terminated
<1>3. QED
  BY <1>1, <1>2 DEF Inv

\* All of it holds of every behaviour.
LEMMA Always == Spec => [](Flags /\ Values /\ Inv)
<1>1. Flags /\ Values /\ Inv /\ [Next]_vars => (Flags /\ Values /\ Inv)'
  BY FlagsStep, ValuesStep, InvStep DEF Inv
<1>2. QED
  BY <1>1, TypeInit, InvInit, PTL DEF Spec

(* The types: among others the 16-bit error code made of any exit code.     *)
THEOREM ShellTypes == Spec => []TypeOK
BY Always, TypeParts, PTL

(* A command that was waited for returns all that was written to its pipe,  *)
(* unless a signal interrupted the read (RunSystemCommand).                 *)
THEOREM OutputIsComplete == Spec => []NoOutputLost
<1>1. Values /\ Inv => NoOutputLost
  <2>1. SUFFICES ASSUME Values, Inv, Finished, Waited, ~ interrupted PROVE got = written
    BY DEF NoOutputLost
  <2>2. pipe = 0
    BY <2>1 DEF Inv, OutputInv, AwaitedEnd, Finished
  <2>3. QED
    BY <2>1, <2>2, MaxChunksAssumption DEF Values, Inv, Chunks
<1>2. QED
  BY <1>1, Always, PTL

(* On Windows nothing the command started outlives a call that waits for it *)
(* when the job object has taken the child.                                 *)
THEOREM JobLeavesNoOrphans == Spec => []NoOrphans
<1>1. Inv => NoOrphans
  BY DEF Inv, JobInv, NoOrphans
<1>2. QED
  BY <1>1, Always, PTL

(* A status is the one the child has ended with (GetExitCodeProcess after   *)
(* the process has ended, waitpid), or 0 in the two cases the property      *)
(* names: a status that could not be obtained, and a signal on POSIX.       *)
THEOREM StatusIsTheChilds == Spec => []ReportsTheEnd
<1>1. Inv => ReportsTheEnd
  BY DEF Inv, ChildInv, AwaitedEnd, Ended, Finished, ReportsTheEnd
<1>2. QED
  BY <1>1, Always, PTL

-----------------------------------------------------------------------------
(* What the read loops wait for: the safety part of ReturnsWhenAllEnd.      *)

\* Only processes that run have the write end of the pipe.
WritersLive == writers \subseteq Running

\* Every step keeps it: who ends or is killed loses its write end, and the
\* parent has none after the launch.
LEMMA WritersStep == Values /\ LaunchInv /\ WritersLive /\ [Next]_vars => WritersLive'
<1> SUFFICES ASSUME Values, LaunchInv, WritersLive, [Next]_vars PROVE WritersLive'
  OBVIOUS
<1> USE DEF Values, WritersLive
<1>1. CASE LaunchWindows \/ LaunchPosix
  <2>1. writers' = {"child"} /\ procs' = [procs EXCEPT !["child"] = "running"]
    BY <1>1 DEF LaunchWindows, LaunchPosix, StartSuspended, WritersAtStart
  <2>2. QED
    BY <2>1 DEF Running, Proc
<1>2. ASSUME NEW ps, Kill(ps) PROVE WritersLive'
  BY <1>2 DEF Kill, Running
<1>3. CASE Spawn
  BY <1>3 DEF Spawn, Running, Proc
<1>4. ASSUME NEW p \in Proc, CloseOutput(p) PROVE WritersLive'
  BY <1>4 DEF CloseOutput, Running
<1>5. ASSUME NEW p \in Proc, End(p) PROVE WritersLive'
  BY <1>5 DEF End, Running
<1>6. CASE UNCHANGED <<procs, writers>>
  BY <1>6 DEF Running
<1>7. QED
  BY <1>1, <1>2, <1>3, <1>4, <1>5, <1>6
     DEF Next, CallerStep, LaunchFails, ReadAvailable, PeekEmpty, CheckExit, CheckClock, Read, ReadEof,
         CollectExit, CollectFails, Goto, Take, KillAtTimeout, CloseAndReturn, Write, Expire, ReadInterrupted,
         Terminated, vars, procVars

(* A read that finds the pipe empty waits only for a process that is still  *)
(* running, never for the call's own copy of the write end, so the loop     *)
(* sees the end of the output once the last such process has ended.         *)
THEOREM ReadsWaitForTheLiving == Spec => []WritersLive
<1>1. Init => WritersLive
  BY DEF Init, WritersLive
<1>2. Values /\ LaunchInv /\ WritersLive /\ [Next]_vars => WritersLive'
  BY WritersStep
<1>3. Inv => LaunchInv
  BY DEF Inv
<1>4. QED
  BY <1>1, <1>2, <1>3, Always, PTL DEF Spec

=============================================================================
