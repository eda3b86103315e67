------------------------- MODULE BackgroundTasksProofs -------------------------
(***************************************************************************)
(* Proofs about BackgroundTasks for any number of tasks and of             *)
(* BE_FileMakerSQL invocations, on any host version.                       *)
(***************************************************************************)
EXTENDS BackgroundTasks, FiniteSetTheorems, TLAPS

-----------------------------------------------------------------------------
(* The libcurl references. *)

\* A reference for every BECurl a task holds, and the plug-in's own.
CurlBound ==
    curl_refs >= Cardinality(BuiltTasks) + (IF host = "unloaded" THEN 0 ELSE 1)

\* The typing half of the invariant with libcurl's count, without which the
\* count could not be shown to be a natural number.
TypeInv == TypeOK /\ CurlBound /\ WorkersAreIssued

\* The set of built tasks is finite in every state.
LEMMA BuiltFinite == IsFiniteSet(BuiltTasks) /\ Cardinality(BuiltTasks) \in Nat
<1>1. IsFiniteSet(TaskId)
  BY MaxTasksAssumption, FS_Interval DEF TaskId
<1>2. BuiltTasks \subseteq TaskId
  BY DEF BuiltTasks
<1>3. QED
  BY <1>1, <1>2, FS_Subset, FS_CardinalityType

\* The initial state is well typed.
LEMMA TypeInit == Init => TypeInv
<1>1. ASSUME Init PROVE TypeOK
  BY <1>1 DEF Init, TypeOK, Live, SqlKind, CurlRefsAfterLoad
<1>2. ASSUME Init PROVE BuiltTasks = {}
  BY <1>2 DEF Init, BuiltTasks, Live
<1>3. ASSUME Init PROVE CurlBound
  <2>1. Cardinality(BuiltTasks) = 0
    BY <1>2, <1>3, FS_EmptySet
  <2>2. QED
    BY <1>3, <2>1 DEF CurlBound, Init, CurlRefsAfterLoad
<1>4. ASSUME Init PROVE WorkersAreIssued
  BY <1>4 DEF WorkersAreIssued, Init
<1>5. QED
  BY <1>1, <1>3, <1>4 DEF TypeInv

\* A state with a built task has at least one reference to give back.
LEMMA ReleaseIsSafe ==
    ASSUME TypeInv, BuiltTasks # {} \/ host # "unloaded"
    PROVE  curl_refs - 1 \in Nat
<1>1. Cardinality(BuiltTasks) \in Nat /\ (BuiltTasks # {} => Cardinality(BuiltTasks) # 0)
  BY BuiltFinite, FS_EmptySet
<1>2. QED
  BY <1>1 DEF TypeInv, TypeOK, CurlBound

\* Executing or deferring a statement keeps the SQL state well typed.
LEMMA ExecuteSqlType ==
    ASSUME executed \in [Statement -> Nat], ddl_command \in Statement \cup {NoCommand},
           NEW kind, NEW s \in Statement, ExecuteSql(kind, s)
    PROVE  /\ executed' \in [Statement -> Nat] /\ ddl_command' \in Statement \cup {NoCommand}
           /\ thrown' = thrown
BY DEF ExecuteSql

\* Every step keeps the state well typed.
LEMMA TypeStep == ASSUME TypeInv, [Next]_vars PROVE TypeOK'
<1> USE DEF TypeInv, TypeOK, hostVars, taskVars, queueVars, sqlVars, curlVars, Live
<1>1. CASE StartAdd
  BY <1>1 DEF StartAdd, Begin, SwapOutQueue
<1>2. CASE StartList
  <2>1. Ids(arrivals) \subseteq TaskId
    <3>1. \A i \in DOMAIN arrivals : arrivals[i] \in ResultRecord
      OBVIOUS
    <3>2. QED
      BY <3>1 DEF Ids, ResultRecord
  <2>2. QED
    BY <1>2, <2>1 DEF StartList, Begin, SwapOutQueue
<1>3. CASE StartIdle
  <2>1. executed' \in [Statement -> Nat] /\ ddl_command' \in Statement \cup {NoCommand}
    BY <1>3, NoCommandAssumption DEF StartIdle, RunDeferredDdl
  <2>2. QED
    BY <1>3, <2>1 DEF StartIdle, Begin, SwapOutQueue
<1>4. CASE DrainTask
  <2>1. Head(batch) \in ResultRecord /\ Tail(batch) \in Seq(ResultRecord)
    BY <1>4 DEF DrainTask
  <2>2. Head(batch).id \in TaskId /\ Head(batch).id \in Statement
    BY <2>1 DEF ResultRecord, Statement
  <2>3. completed' \in [TaskId -> Nat]
    BY <1>4, <2>2 DEF DrainTask, MarkCompleted
  <2>4. /\ executed' \in [Statement -> Nat] /\ ddl_command' \in Statement \cup {NoCommand}
        /\ thrown' \in SUBSET TaskId
    BY <1>4, <2>2, ExecuteSqlType DEF DrainTask, ExecuteResult, StatementThrows
  <2>5. QED
    BY <1>4, <2>1, <2>3, <2>4 DEF DrainTask
<1>5. CASE BuildTask
  BY <1>5 DEF BuildTask, IssueId, Drained
<1>6. CASE FailToBuildTask
  BY <1>6 DEF FailToBuildTask, IssueId, Return, Drained
<1>7. CASE SpawnWorker
  <2>1. new_id \in TaskId
    BY <1>7 DEF SpawnWorker, WorkersAreIssued
  <2>2. worker' \in [TaskId -> Live \cup {"none", "done"}]
    BY <1>7, <2>1 DEF SpawnWorker
  <2>3. sql_of' \in [TaskId -> SqlKind]
    BY <1>7, <2>1 DEF SpawnWorker
  <2>4. QED
    BY <1>7, <2>2, <2>3 DEF SpawnWorker
<1>8. CASE FailToSpawn
  <2>1. curl_refs - 1 \in Nat
    BY <1>8, ReleaseIsSafe DEF FailToSpawn
  <2>2. QED
    BY <1>8, <2>1 DEF FailToSpawn, Return, ReleaseCurlGlobal
<1>9. CASE ReturnFromAdd
  <2>1. curl_refs - 1 \in Nat
    BY <1>9, ReleaseIsSafe DEF ReturnFromAdd
  <2>2. QED
    BY <1>9, <2>1 DEF ReturnFromAdd, Return, ReleaseCurlGlobal, HostIsLastHolder
<1>10. CASE ReturnFromList
  BY <1>10 DEF ReturnFromList, Return, PendingTasks
<1>11. CASE ReturnFromIdle
  BY <1>11 DEF ReturnFromIdle, Return
<1>12. ASSUME NEW c \in Calls, NEW kind \in {"dml", "ddl"}, FileMakerSQL(c, kind) PROVE TypeOK'
  <2>1. /\ executed' \in [Statement -> Nat] /\ ddl_command' \in Statement \cup {NoCommand}
        /\ thrown' = thrown
    <3>1. c \in Statement
      BY DEF Statement
    <3>2. QED
      BY <1>12, <3>1, ExecuteSqlType DEF FileMakerSQL
  <2>2. QED
    BY <1>12, <2>1 DEF FileMakerSQL
<1>13. CASE UnloadPlugin
  <2>1. curl_refs - 1 \in Nat
    BY <1>13, ReleaseIsSafe DEF UnloadPlugin
  <2>2. QED
    BY <1>13, <2>1 DEF UnloadPlugin, ReleaseCurlGlobal
<1>14. ASSUME NEW id \in TaskId, Download(id) PROVE TypeOK'
  BY <1>14 DEF Download
<1>15. ASSUME NEW id \in TaskId, QueueSql(id) PROVE TypeOK'
  <2>1. [sql |-> sql_of[id], id |-> id] \in ResultRecord
    BY DEF ResultRecord
  <2>2. QED
    BY <1>15, <2>1 DEF QueueSql, QueueResult
<1>16. ASSUME NEW id \in TaskId, QueueFailure(id) PROVE TypeOK'
  <2>1. [sql |-> "none", id |-> id] \in ResultRecord
    BY DEF ResultRecord, SqlKind
  <2>2. QED
    BY <1>16, <2>1 DEF QueueFailure, QueueResult
<1>17. ASSUME NEW id \in TaskId, ExitWorker(id) PROVE TypeOK'
  <2>1. id \in BuiltTasks
    BY <1>17 DEF ExitWorker, BuiltTasks
  <2>2. curl_refs - 1 \in Nat
    BY <2>1, ReleaseIsSafe
  <2>3. QED
    BY <1>17, <2>2 DEF ExitWorker, ReleaseCurlGlobal
<1>18. CASE UNCHANGED vars
  BY <1>18 DEF vars
<1>19. QED
  BY <1>1, <1>2, <1>3, <1>4, <1>5, <1>6, <1>7, <1>8, <1>9, <1>10, <1>11, <1>12, <1>13,
     <1>14, <1>15, <1>16, <1>17, <1>18
     DEF Next, HostStep, HostCall, WorkerStep, Terminated

\* A new id is not among the issued ones, so it has no worker yet.
LEMMA NextIdIsNew ==
    ASSUME TypeInv, NEW id \in TaskId, IsNextId(id)
    PROVE  id \notin background_tasks /\ worker[id] = "none"
<1>1. id \notin background_tasks
  BY DEF IsNextId, TaskId
<1>2. QED
  BY <1>1 DEF TypeInv, WorkersAreIssued

\* Every step keeps workers to issued ids.
LEMMA IssuedStep == ASSUME TypeInv, [Next]_vars PROVE WorkersAreIssued'
<1> USE DEF TypeInv, TypeOK, WorkersAreIssued, hostVars, taskVars, queueVars, sqlVars, curlVars
<1>1. CASE StartAdd \/ StartList \/ StartIdle
  BY <1>1 DEF StartAdd, StartList, StartIdle, Begin
<1>2. CASE DrainTask
  BY <1>2 DEF DrainTask
<1>3. CASE BuildTask
  <2>1. PICK id \in TaskId : IssueId(id)
    BY <1>3 DEF BuildTask
  <2>2. worker[id] = "none"
    BY <2>1, NextIdIsNew DEF IssueId
  <2>3. QED
    BY <1>3, <2>1, <2>2 DEF BuildTask, IssueId
<1>4. CASE FailToBuildTask
  BY <1>4 DEF FailToBuildTask, IssueId, Return
<1>5. CASE SpawnWorker
  BY <1>5 DEF SpawnWorker
<1>6. CASE FailToSpawn \/ ReturnFromAdd \/ ReturnFromList \/ ReturnFromIdle
  BY <1>6 DEF FailToSpawn, ReturnFromAdd, ReturnFromList, ReturnFromIdle, Return
<1>7. ASSUME NEW c \in Calls, NEW kind \in {"dml", "ddl"}, FileMakerSQL(c, kind) PROVE WorkersAreIssued'
  BY <1>7 DEF FileMakerSQL
<1>8. CASE UnloadPlugin
  BY <1>8 DEF UnloadPlugin
<1>9. ASSUME NEW id \in TaskId, WorkerStep(id) PROVE WorkersAreIssued'
  BY <1>9 DEF WorkerStep, Download, QueueSql, QueueFailure, ExitWorker
<1>10. CASE UNCHANGED vars
  BY <1>10 DEF vars
<1>11. QED
  BY <1>1, <1>2, <1>3, <1>4, <1>5, <1>6, <1>7, <1>8, <1>9, <1>10
     DEF Next, HostStep, HostCall, Terminated

\* A step that builds and destroys nothing may only leak references.
LEMMA CurlBoundKept ==
    ASSUME TypeInv, BuiltTasks' = BuiltTasks, curl_refs' \in {curl_refs, curl_refs + 1},
           host' = "unloaded" <=> host = "unloaded"
    PROVE  CurlBound'
<1>1. Cardinality(BuiltTasks)' = Cardinality(BuiltTasks)
  OBVIOUS
<1>2. Cardinality(BuiltTasks) \in Nat
  BY BuiltFinite
<1>3. QED
  BY <1>1, <1>2 DEF TypeInv, TypeOK, CurlBound

\* A step that destroys one BECurl gives one reference back.
LEMMA CurlBoundReleased ==
    ASSUME TypeInv, NEW id \in BuiltTasks, BuiltTasks' = BuiltTasks \ {id},
           curl_refs' = curl_refs - 1, host' = "unloaded" <=> host = "unloaded"
    PROVE  CurlBound'
<1>1. Cardinality(BuiltTasks)' = Cardinality(BuiltTasks) - 1
  BY BuiltFinite, FS_RemoveElement
<1>2. Cardinality(BuiltTasks) \in Nat
  BY BuiltFinite
<1>3. QED
  BY <1>1, <1>2 DEF TypeInv, TypeOK, CurlBound

\* Every step keeps a reference for each BECurl a task holds.
LEMMA CurlStep == ASSUME TypeInv, [Next]_vars PROVE CurlBound'
<1> USE DEF hostVars, taskVars, queueVars, sqlVars, curlVars
<1>1. CASE StartAdd \/ StartList \/ StartIdle \/ DrainTask \/ ReturnFromList \/ ReturnFromIdle
  <2>1. /\ BuiltTasks' = BuiltTasks
        /\ curl_refs' = curl_refs
        /\ host # "unloaded" /\ host' # "unloaded"
    BY <1>1 DEF StartAdd, StartList, StartIdle, DrainTask, ReturnFromList, ReturnFromIdle,
               Begin, Drained, Return, BuiltTasks
  <2>2. QED
    BY <2>1, CurlBoundKept
<1>2. CASE BuildTask
  <2>1. PICK id \in TaskId : IssueId(id)
    BY <1>2 DEF BuildTask
  <2>2. worker[id] = "none"
    BY <2>1, NextIdIsNew DEF IssueId
  <2>3. BuiltTasks' = BuiltTasks \cup {id} /\ id \notin BuiltTasks
    BY <1>2, <2>1, <2>2 DEF BuildTask, IssueId, Drained, BuiltTasks, Live
  <2>4. Cardinality(BuiltTasks)' = Cardinality(BuiltTasks) + 1
    BY <2>3, BuiltFinite, FS_AddElement
  <2>5. QED
    BY <1>2, <2>4, BuiltFinite DEF BuildTask, Drained, TypeInv, TypeOK, CurlBound
<1>3. CASE FailToBuildTask
  <2>1. BuiltTasks' = BuiltTasks
    BY <1>3 DEF FailToBuildTask, Drained, Return, BuiltTasks
  <2>2. QED
    BY <1>3, <2>1, CurlBoundKept DEF FailToBuildTask, Drained, Return
<1>4. CASE SpawnWorker
  <2>1. BuiltTasks' = BuiltTasks
    BY <1>4 DEF SpawnWorker, BuiltTasks, Live, TypeInv, TypeOK, WorkersAreIssued
  <2>2. QED
    BY <1>4, <2>1, CurlBoundKept DEF SpawnWorker
<1>5. CASE FailToSpawn
  <2>1. new_id \in BuiltTasks /\ BuiltTasks' = BuiltTasks \ {new_id}
    BY <1>5 DEF FailToSpawn, Return, BuiltTasks, Live, TypeInv, TypeOK, WorkersAreIssued
  <2>2. QED
    BY <1>5, <2>1, CurlBoundReleased DEF FailToSpawn, Return, ReleaseCurlGlobal
<1>6. CASE ReturnFromAdd
  <2>1. new_id \in BuiltTasks
    BY <1>6 DEF ReturnFromAdd, BuiltTasks, TypeInv, TypeOK, WorkersAreIssued
  <2>2. CASE HostIsLastHolder(new_id)
    <3>1. BuiltTasks' = BuiltTasks \ {new_id}
      BY <1>6, <2>2 DEF ReturnFromAdd, Return, HostIsLastHolder, BuiltTasks, Live
    <3>2. QED
      BY <1>6, <2>1, <2>2, <3>1, CurlBoundReleased DEF ReturnFromAdd, Return, ReleaseCurlGlobal
  <2>3. CASE ~HostIsLastHolder(new_id)
    <3>1. worker[new_id] \in Live
      BY <1>6, <2>3 DEF ReturnFromAdd, HostIsLastHolder, Live, TypeInv, TypeOK, WorkersAreIssued
    <3>2. BuiltTasks' = BuiltTasks
      BY <1>6, <3>1 DEF ReturnFromAdd, Return, BuiltTasks
    <3>3. QED
      BY <1>6, <2>3, <3>2, CurlBoundKept DEF ReturnFromAdd, Return
  <2>4. QED
    BY <2>2, <2>3
<1>7. ASSUME NEW c \in Calls, NEW kind \in {"dml", "ddl"}, FileMakerSQL(c, kind) PROVE CurlBound'
  <2>1. BuiltTasks' = BuiltTasks
    BY <1>7 DEF FileMakerSQL, BuiltTasks
  <2>2. QED
    BY <1>7, <2>1, CurlBoundKept DEF FileMakerSQL
<1>8. CASE UnloadPlugin
  <2>1. BuiltTasks' = BuiltTasks
    BY <1>8 DEF UnloadPlugin, BuiltTasks
  <2>2. Cardinality(BuiltTasks)' = Cardinality(BuiltTasks)
    BY <2>1
  <2>3. QED
    BY <1>8, <2>2, BuiltFinite
       DEF UnloadPlugin, ReleaseCurlGlobal, TypeInv, TypeOK, CurlBound
<1>9. ASSUME NEW id \in TaskId, Download(id) \/ QueueSql(id) \/ QueueFailure(id) PROVE CurlBound'
  <2>1. BuiltTasks' = BuiltTasks
    BY <1>9 DEF Download, QueueSql, QueueFailure, BuiltTasks, Live, TypeInv, TypeOK
  <2>2. QED
    BY <1>9, <2>1, CurlBoundKept DEF Download, QueueSql, QueueFailure
<1>10. ASSUME NEW id \in TaskId, ExitWorker(id) PROVE CurlBound'
  <2>1. id \in BuiltTasks
    BY <1>10 DEF ExitWorker, BuiltTasks, Live
  <2>2. CASE WorkerIsLastHolder(id)
    <3>1. BuiltTasks' = BuiltTasks \ {id}
      BY <1>10, <2>2
         DEF ExitWorker, WorkerIsLastHolder, BuiltTasks, Live, TypeInv, TypeOK, WorkersAreIssued
    <3>2. QED
      BY <1>10, <2>1, <2>2, <3>1, CurlBoundReleased DEF ExitWorker, ReleaseCurlGlobal
  <2>3. CASE ~WorkerIsLastHolder(id)
    <3>1. BuiltTasks' = BuiltTasks
      BY <1>10, <2>3 DEF ExitWorker, WorkerIsLastHolder, BuiltTasks, Live, TypeInv, TypeOK
    <3>2. QED
      BY <1>10, <2>3, <3>1, CurlBoundKept DEF ExitWorker
  <2>4. QED
    BY <2>2, <2>3
<1>11. CASE UNCHANGED vars
  <2>1. BuiltTasks' = BuiltTasks
    BY <1>11 DEF vars, BuiltTasks
  <2>2. QED
    BY <1>11, <2>1, CurlBoundKept DEF vars
<1>12. QED
  BY <1>1, <1>2, <1>3, <1>4, <1>5, <1>6, <1>7, <1>8, <1>9, <1>10, <1>11
     DEF Next, HostStep, HostCall, WorkerStep, Terminated

\* Type correctness: whatever the number of tasks and the interleaving of the
\* host with the workers, every variable has its type; in particular libcurl's
\* count never goes below zero.
THEOREM TypeCorrect == Spec => []TypeOK
<1>1. TypeInv /\ [Next]_vars => TypeInv'
  BY TypeStep, IssuedStep, CurlStep DEF TypeInv
<1>2. TypeInv => TypeOK
  BY DEF TypeInv
<1>3. QED
  BY TypeInit, <1>1, <1>2, PTL DEF Spec

-----------------------------------------------------------------------------
(* Where every queued result is. *)

QueuePart == ArrivalsSplit /\ ArrivalsUnique /\ ArrivalsAreHandOvers /\ CompletedAreDrained
SqlPart == TaskSqlOnce /\ CallSqlOnce

\* The lengths the positions are computed from are natural numbers.
LEMMA Lengths ==
    ASSUME TypeOK
    PROVE  Len(arrivals) \in Nat /\ Len(batch) \in Nat /\ Len(queue) \in Nat
BY DEF TypeOK

\* Nothing moves, and no worker passes its hand-over.
LEMMA QueuePartKept ==
    ASSUME QueuePart, UNCHANGED <<arrivals, batch, queue, completed>>,
           \A id \in TaskId : worker'[id] \in {"queued", "done"} <=> worker[id] \in {"queued", "done"}
    PROVE  QueuePart'
BY DEF QueuePart, ArrivalsSplit, ArrivalsUnique, ArrivalsAreHandOvers, CompletedAreDrained, NumDrained

\* The swap moves the whole queue into an empty batch.
LEMMA QueuePartSwap ==
    ASSUME TypeOK, QueuePart, batch = <<>>, SwapOutQueue, UNCHANGED <<completed, worker>>
    PROVE  QueuePart'
<1> USE DEF SwapOutQueue
<1>1. NumDrained' = NumDrained /\ NumDrained \in Int
  BY Lengths DEF NumDrained
<1>2. ArrivalsSplit'
  <2>1. Len(batch') = Len(queue) /\ Len(queue') = 0 /\ Len(batch) = 0
    OBVIOUS
  <2>2. \A i \in 1..Len(queue) : queue[i] = arrivals[NumDrained + i]
    BY <1>1, <2>1, Lengths DEF QueuePart, ArrivalsSplit
  <2>3. QED
    BY <1>1, <2>1, <2>2, Lengths DEF QueuePart, ArrivalsSplit
<1>3. ArrivalsUnique' /\ ArrivalsAreHandOvers'
  BY DEF QueuePart, ArrivalsUnique, ArrivalsAreHandOvers
<1>4. CompletedAreDrained'
  BY <1>1 DEF QueuePart, CompletedAreDrained
<1>5. QED
  BY <1>2, <1>3, <1>4 DEF QueuePart

\* What the drain loop knows of the result it takes next.
LEMMA NextResult ==
    ASSUME TypeOK, QueuePart, batch # <<>>
    PROVE  /\ NumDrained + 1 \in 1..Len(arrivals)
           /\ Head(batch) = arrivals[NumDrained + 1]
           /\ Head(batch) \in ResultRecord
           /\ completed[Head(batch).id] = 0
<1>1. Len(batch) >= 1 /\ Head(batch) = batch[1] /\ Head(batch) \in ResultRecord
  BY Lengths DEF TypeOK
<1>2. NumDrained + 1 \in 1..Len(arrivals) /\ Head(batch) = arrivals[NumDrained + 1]
  BY <1>1, Lengths DEF QueuePart, ArrivalsSplit, NumDrained
<1>3. Head(batch).id \in TaskId
  BY <1>1 DEF ResultRecord
<1>4. ~ \E i \in 1..NumDrained : arrivals[i].id = Head(batch).id
  BY <1>2, Lengths DEF QueuePart, ArrivalsUnique, NumDrained
<1>5. completed[Head(batch).id] = 0
  <2>1. completed[Head(batch).id] \in Nat
    BY <1>3 DEF TypeOK
  <2>2. QED
    BY <1>3, <1>4, <2>1 DEF QueuePart, CompletedAreDrained
<1>6. QED
  BY <1>1, <1>2, <1>5

\* One turn of the loop moves the first result of the batch to the drained ones.
LEMMA QueuePartDrain ==
    ASSUME TypeOK, QueuePart, DrainTask
    PROVE  QueuePart'
<1> DEFINE r == Head(batch)
<1>1. /\ batch # <<>> /\ batch' = Tail(batch) /\ UNCHANGED <<arrivals, queue, worker>>
      /\ completed' = [completed EXCEPT ![r.id] = @ + 1]
  BY DEF DrainTask, MarkCompleted
<1>2. /\ NumDrained + 1 \in 1..Len(arrivals) /\ r = arrivals[NumDrained + 1]
      /\ r.id \in TaskId /\ completed[r.id] = 0
  BY <1>1, NextResult DEF ResultRecord
<1>3. Len(batch') = Len(batch) - 1 /\ Len(batch) >= 1
      /\ \A i \in 1..Len(batch') : batch'[i] = batch[i + 1]
  BY <1>1, Lengths DEF TypeOK
<1>4. NumDrained' = NumDrained + 1 /\ NumDrained \in Nat
  BY <1>1, <1>3, Lengths DEF NumDrained, QueuePart, ArrivalsSplit
<1>5. ArrivalsSplit'
  <2>1. Len(batch') + Len(queue') <= Len(arrivals')
    BY <1>1, <1>3, Lengths DEF QueuePart, ArrivalsSplit
  <2>2. ASSUME NEW i \in 1..Len(batch') PROVE batch'[i] = arrivals'[NumDrained' + i]
    <3>1. i + 1 \in 1..Len(batch) /\ batch'[i] = batch[i + 1]
      BY <1>3, Lengths
    <3>2. batch[i + 1] = arrivals[NumDrained + (i + 1)]
      BY <3>1 DEF QueuePart, ArrivalsSplit
    <3>3. NumDrained + (i + 1) = NumDrained' + i
      BY <1>4
    <3>4. QED
      BY <1>1, <3>1, <3>2, <3>3
  <2>3. ASSUME NEW i \in 1..Len(queue')
        PROVE  queue'[i] = arrivals'[NumDrained' + Len(batch') + i]
    <3>1. queue[i] = arrivals[NumDrained + Len(batch) + i]
      BY <1>1 DEF QueuePart, ArrivalsSplit
    <3>2. NumDrained + Len(batch) + i = NumDrained' + Len(batch') + i
      BY <1>3, <1>4, Lengths
    <3>3. QED
      BY <1>1, <3>1, <3>2
  <2>4. QED
    BY <2>1, <2>2, <2>3 DEF ArrivalsSplit
<1>6. ArrivalsUnique' /\ ArrivalsAreHandOvers'
  BY <1>1 DEF QueuePart, ArrivalsUnique, ArrivalsAreHandOvers
<1>7. CompletedAreDrained'
  <2> SUFFICES ASSUME NEW id \in TaskId
               PROVE  /\ completed'[id] <= 1
                      /\ completed'[id] = 1 <=> \E i \in 1..NumDrained' : arrivals'[i].id = id
    BY DEF CompletedAreDrained
  <2>1. CASE id = r.id
    <3>1. completed'[id] = 1
      BY <1>1, <1>2, <2>1 DEF TypeOK
    <3>2. NumDrained + 1 \in 1..NumDrained' /\ arrivals'[NumDrained + 1].id = id
      BY <1>1, <1>2, <1>4, <2>1
    <3>3. QED
      BY <3>1, <3>2
  <2>2. CASE id # r.id
    <3>1. completed'[id] = completed[id]
      BY <1>1, <2>2 DEF TypeOK
    <3>2. (\E i \in 1..NumDrained' : arrivals'[i].id = id) <=> (\E i \in 1..NumDrained : arrivals[i].id = id)
      BY <1>1, <1>2, <1>4, <2>2
    <3>3. QED
      BY <3>1, <3>2 DEF QueuePart, CompletedAreDrained
  <2>3. QED
    BY <2>1, <2>2
<1>8. QED
  BY <1>5, <1>6, <1>7 DEF QueuePart

\* A worker hands its result over: the arrivals and the queue grow at the end.
LEMMA QueuePartQueue ==
    ASSUME TypeOK, QueuePart, NEW id \in TaskId, NEW k \in SqlKind,
           worker[id] \notin {"queued", "done"}, QueueResult([sql |-> k, id |-> id]),
           worker' = [worker EXCEPT ![id] = "queued"], UNCHANGED completed
    PROVE  QueuePart'
<1> DEFINE r == [sql |-> k, id |-> id]
<1>1. queue' = Append(queue, r) /\ arrivals' = Append(arrivals, r) /\ batch' = batch
  BY DEF QueueResult
<1>2. /\ Len(queue') = Len(queue) + 1 /\ Len(arrivals') = Len(arrivals) + 1
      /\ \A i \in 1..Len(queue) : queue'[i] = queue[i]
      /\ \A i \in 1..Len(arrivals) : arrivals'[i] = arrivals[i]
      /\ queue'[Len(queue) + 1] = r /\ arrivals'[Len(arrivals) + 1] = r
  BY <1>1 DEF TypeOK
<1>3. NumDrained' = NumDrained /\ NumDrained \in Nat
      /\ NumDrained + Len(batch) + Len(queue) = Len(arrivals)
  BY <1>1, <1>2, Lengths DEF NumDrained, QueuePart, ArrivalsSplit
<1>4. \A i \in 1..Len(arrivals) : arrivals[i].id # id
  BY DEF QueuePart, ArrivalsAreHandOvers
<1>5. ArrivalsSplit'
  <2>1. ASSUME NEW i \in 1..Len(batch) PROVE batch'[i] = arrivals'[NumDrained' + i]
    <3>1. NumDrained + i \in 1..Len(arrivals)
      BY <1>3, Lengths
    <3>2. QED
      BY <1>1, <1>2, <1>3, <3>1 DEF QueuePart, ArrivalsSplit
  <2>2. ASSUME NEW i \in 1..Len(queue')
        PROVE  queue'[i] = arrivals'[NumDrained' + Len(batch') + i]
    <3>1. CASE i \in 1..Len(queue)
      <4>1. NumDrained + Len(batch) + i \in 1..Len(arrivals)
        BY <1>3, <3>1, Lengths
      <4>2. QED
        BY <1>1, <1>2, <1>3, <3>1, <4>1 DEF QueuePart, ArrivalsSplit
    <3>2. CASE i = Len(queue) + 1
      <4>1. NumDrained + Len(batch) + i = Len(arrivals) + 1
        BY <1>3, <3>2, Lengths
      <4>2. QED
        BY <1>1, <1>2, <1>3, <3>2, <4>1
    <3>3. QED
      BY <1>2, <3>1, <3>2, Lengths
  <2>3. Len(batch') + Len(queue') <= Len(arrivals')
    BY <1>1, <1>2, Lengths DEF QueuePart, ArrivalsSplit
  <2>4. QED
    BY <1>1, <2>1, <2>2, <2>3 DEF ArrivalsSplit
<1>6. ArrivalsUnique'
  <2> SUFFICES ASSUME NEW i \in 1..Len(arrivals'), NEW j \in 1..Len(arrivals'),
                      arrivals'[i].id = arrivals'[j].id
               PROVE  i = j
    BY DEF ArrivalsUnique
  <2>1. \A n \in 1..Len(arrivals') : n \in 1..Len(arrivals) \/ n = Len(arrivals) + 1
    BY <1>2, Lengths
  <2>2. CASE i \in 1..Len(arrivals) /\ j \in 1..Len(arrivals)
    BY <1>2, <2>2 DEF QueuePart, ArrivalsUnique
  <2>3. QED
    BY <1>2, <1>4, <2>1, <2>2
<1>7. ArrivalsAreHandOvers'
  <2> SUFFICES ASSUME NEW j \in TaskId
               PROVE  worker'[j] \in {"queued", "done"}
                      <=> \E i \in 1..Len(arrivals') : arrivals'[i].id = j
    BY DEF ArrivalsAreHandOvers
  <2>1. CASE j = id
    <3>1. worker'[j] = "queued"
      BY <2>1 DEF TypeOK
    <3>2. Len(arrivals) + 1 \in 1..Len(arrivals') /\ arrivals'[Len(arrivals) + 1].id = j
      BY <1>2, <2>1, Lengths
    <3>3. QED
      BY <3>1, <3>2
  <2>2. CASE j # id
    <3>1. worker'[j] = worker[j]
      BY <2>2 DEF TypeOK
    <3>2. \A n \in 1..Len(arrivals') : n \in 1..Len(arrivals) \/ n = Len(arrivals) + 1
      BY <1>2, Lengths
    <3>3. \A n \in 1..Len(arrivals) : n \in 1..Len(arrivals')
      BY <1>2, Lengths
    <3>4. (\E i \in 1..Len(arrivals') : arrivals'[i].id = j) <=> (\E i \in 1..Len(arrivals) : arrivals[i].id = j)
      BY <1>2, <2>2, <3>2, <3>3
    <3>5. QED
      BY <3>1, <3>4 DEF QueuePart, ArrivalsAreHandOvers
  <2>3. QED
    BY <2>1, <2>2
<1>8. CompletedAreDrained'
  <2>1. \A i \in 1..NumDrained : i \in 1..Len(arrivals)
    BY <1>3, Lengths
  <2>2. QED
    BY <1>2, <1>3, <2>1 DEF QueuePart, CompletedAreDrained
<1>9. QED
  BY <1>5, <1>6, <1>7, <1>8 DEF QueuePart

-----------------------------------------------------------------------------
(* What has happened to every statement. *)

\* Neither the statements nor the marks change.
LEMMA SqlPartKept ==
    ASSUME SqlPart, UNCHANGED <<executed, ddl_command, thrown, called, completed>>
    PROVE  SqlPart'
BY DEF SqlPart, TaskSqlOnce, CallSqlOnce

\* The idle handler runs the deferred statement, which has not run before.
LEMMA SqlPartDeferred ==
    ASSUME TypeOK, SqlPart, RunDeferredDdl, UNCHANGED <<thrown, called, completed>>
    PROVE  SqlPart'
<1>1. CASE ddl_command = NoCommand
  BY <1>1, NoCommandAssumption, SqlPartKept DEF RunDeferredDdl, SqlPart
<1>2. CASE ddl_command # NoCommand
  <2>1. ddl_command \in Statement /\ executed[ddl_command] = 0
    BY <1>2 DEF TypeOK, SqlPart, TaskSqlOnce, CallSqlOnce, Statement
  <2>2. /\ ddl_command' = NoCommand
        /\ \A s \in Statement : executed'[s] = IF s = ddl_command THEN 1 ELSE executed[s]
    BY <1>2, <2>1 DEF RunDeferredDdl, TypeOK
  <2>3. TaskSqlOnce'
    BY <2>1, <2>2, NoCommandAssumption DEF SqlPart, TaskSqlOnce, Statement
  <2>4. CallSqlOnce'
    BY <2>1, <2>2, NoCommandAssumption DEF SqlPart, CallSqlOnce, Statement
  <2>5. QED
    BY <2>3, <2>4 DEF SqlPart
<1>3. QED
  BY <1>1, <1>2

\* A drained result executes or defers the statement of a task not yet marked.
LEMMA SqlPartDrain ==
    ASSUME TypeOK, QueuePart, SqlPart, DrainTask
    PROVE  SqlPart'
<1> DEFINE r == Head(batch)
<1>1. r.id \in TaskId /\ r.id \in Statement /\ r.id \notin Calls /\ completed[r.id] = 0
  BY NextResult, CallsAssumption DEF DrainTask, ResultRecord, Statement
<1>2. /\ completed'[r.id] = 1 /\ called' = called
      /\ \A id \in TaskId : id # r.id => completed'[id] = completed[id]
  BY <1>1 DEF DrainTask, MarkCompleted, TypeOK, sqlVars
<1>3. executed[r.id] = 0 /\ ddl_command # r.id
  BY <1>1 DEF SqlPart, TaskSqlOnce, TypeOK
<1>4. CASE r.sql = "none"
  <2>1. UNCHANGED <<executed, ddl_command, thrown>>
    BY <1>4 DEF DrainTask, ExecuteResult
  <2>2. QED
    BY <1>1, <1>2, <1>3, <2>1 DEF SqlPart, TaskSqlOnce, CallSqlOnce
<1>5. CASE r.sql # "none" /\ StatementThrows(r.id)
  <2>1. UNCHANGED <<executed, ddl_command>> /\ thrown' = thrown \cup {r.id}
    BY <1>5 DEF StatementThrows
  <2>2. TaskSqlOnce'
    BY <1>1, <1>2, <1>3, <2>1 DEF SqlPart, TaskSqlOnce
  <2>3. CallSqlOnce'
    BY <1>2, <2>1 DEF SqlPart, CallSqlOnce
  <2>4. QED
    BY <2>2, <2>3 DEF SqlPart
<1>6. CASE r.sql # "none" /\ ExecuteSql(r.sql, r.id) /\ ddl_command' = ddl_command
  <2>1. /\ \A s \in Statement : executed'[s] = IF s = r.id THEN 1 ELSE executed[s]
        /\ thrown' = thrown
    BY <1>1, <1>3, <1>6 DEF ExecuteSql, TypeOK
  <2>2. TaskSqlOnce'
    BY <1>1, <1>2, <1>3, <1>6, <2>1 DEF SqlPart, TaskSqlOnce, Statement
  <2>3. CallSqlOnce'
    BY <1>1, <1>2, <1>6, <2>1 DEF SqlPart, CallSqlOnce, Statement
  <2>4. QED
    BY <2>2, <2>3 DEF SqlPart
<1>7. CASE r.sql # "none" /\ ExecuteSql(r.sql, r.id) /\ ddl_command' # ddl_command
  <2>1. ddl_command' = r.id /\ executed' = executed /\ thrown' = thrown
    BY <1>7 DEF ExecuteSql
  <2>2. TaskSqlOnce'
    BY <1>1, <1>2, <1>3, <2>1 DEF SqlPart, TaskSqlOnce
  <2>3. CallSqlOnce'
    BY <1>1, <1>2, <2>1 DEF SqlPart, CallSqlOnce
  <2>4. QED
    BY <2>2, <2>3 DEF SqlPart
<1>8. QED
  BY <1>4, <1>5, <1>6, <1>7 DEF DrainTask, ExecuteResult

\* BE_FileMakerSQL executes or defers the statement of a new invocation.
LEMMA SqlPartCall ==
    ASSUME TypeOK, SqlPart, NEW c \in Calls, NEW kind, FileMakerSQL(c, kind)
    PROVE  SqlPart'
<1>1. c \in Statement /\ c \notin TaskId /\ c \notin called /\ called' = called \cup {c}
  BY CallsAssumption DEF FileMakerSQL, Statement
<1>2. executed[c] = 0 /\ ddl_command # c /\ completed' = completed /\ thrown' = thrown
  BY <1>1 DEF SqlPart, CallSqlOnce, FileMakerSQL, ExecuteSql, taskVars
<1>3. CASE ddl_command' = ddl_command
  <2>1. \A s \in Statement : executed'[s] = IF s = c THEN 1 ELSE executed[s]
    BY <1>1, <1>2, <1>3 DEF FileMakerSQL, ExecuteSql, TypeOK
  <2>2. TaskSqlOnce'
    BY <1>1, <1>2, <1>3, <2>1 DEF SqlPart, TaskSqlOnce, Statement
  <2>3. CallSqlOnce'
    BY <1>1, <1>2, <1>3, <2>1 DEF SqlPart, CallSqlOnce, Statement
  <2>4. QED
    BY <2>2, <2>3 DEF SqlPart
<1>4. CASE ddl_command' # ddl_command
  <2>1. ddl_command' = c /\ executed' = executed
    BY <1>4 DEF FileMakerSQL, ExecuteSql
  <2>2. TaskSqlOnce'
    BY <1>1, <1>2, <2>1 DEF SqlPart, TaskSqlOnce
  <2>3. CallSqlOnce'
    BY <1>1, <1>2, <2>1 DEF SqlPart, CallSqlOnce
  <2>4. QED
    BY <2>2, <2>3 DEF SqlPart
<1>5. QED
  BY <1>3, <1>4

-----------------------------------------------------------------------------
(* The inductive invariant. *)

Inv == TypeInv /\ DrainInv

\* DrainInv in the parts the lemmas above treat together.
LEMMA DrainParts == DrainInv <=> QueuePart /\ SqlPart /\ WorkersAreIssued /\ BatchIsLocal
BY DEF DrainInv, QueuePart, SqlPart

\* Nothing is queued and nothing has run when the plug-in is loaded.
LEMMA DrainInit == Init => DrainInv
<1> SUFFICES ASSUME Init PROVE DrainInv
  OBVIOUS
<1>1. Len(arrivals) = 0 /\ Len(batch) = 0 /\ Len(queue) = 0 /\ NumDrained = 0
  <2>1. arrivals = <<>> /\ batch = <<>> /\ queue = <<>>
    BY DEF Init
  <2>2. QED
    <3>1. Len(arrivals) = 0 /\ Len(batch) = 0 /\ Len(queue) = 0
      BY <2>1
    <3>2. QED
      BY <3>1 DEF NumDrained
<1>2. QueuePart
  BY <1>1 DEF Init, QueuePart, ArrivalsSplit, ArrivalsUnique, ArrivalsAreHandOvers, CompletedAreDrained
<1>3. SqlPart
  BY NoCommandAssumption DEF Init, SqlPart, TaskSqlOnce, CallSqlOnce, Statement
<1>4. WorkersAreIssued /\ BatchIsLocal
  BY DEF Init, WorkersAreIssued, BatchIsLocal
<1>5. QED
  BY <1>2, <1>3, <1>4, DrainParts

\* Every step keeps the queued results accounted for.
LEMMA DrainStep == ASSUME Inv, [Next]_vars PROVE DrainInv'
<1>1. TypeOK /\ QueuePart /\ SqlPart /\ WorkersAreIssued /\ BatchIsLocal
  BY DrainParts DEF Inv, TypeInv
<1>2. WorkersAreIssued'
  BY IssuedStep DEF Inv
<1>3. QueuePart' /\ SqlPart' /\ BatchIsLocal'
  <2> USE DEF hostVars, taskVars, queueVars, sqlVars, curlVars
  <2>1. CASE StartAdd \/ StartList \/ StartIdle
    <3>1. batch = <<>> /\ SwapOutQueue /\ UNCHANGED <<completed, worker, called, thrown>> /\ host' = "draining"
      BY <1>1, <2>1 DEF StartAdd, StartList, StartIdle, Begin, BatchIsLocal
    <3>2. QueuePart'
      BY <1>1, <3>1, QueuePartSwap
    <3>3. SqlPart'
      BY <1>1, <2>1, SqlPartKept, SqlPartDeferred DEF StartAdd, StartList, StartIdle
    <3>4. QED
      BY <3>1, <3>2, <3>3 DEF BatchIsLocal
  <2>2. CASE DrainTask
    BY <1>1, <2>2, QueuePartDrain, SqlPartDrain DEF DrainTask, BatchIsLocal
  <2>3. CASE BuildTask \/ FailToBuildTask \/ ReturnFromList \/ ReturnFromIdle
    <3>1. batch' = <<>> /\ UNCHANGED <<arrivals, batch, queue, completed, worker, executed, ddl_command, thrown, called>>
      BY <2>3 DEF BuildTask, FailToBuildTask, ReturnFromList, ReturnFromIdle, Drained, IssueId
    <3>2. QED
      BY <1>1, <3>1, QueuePartKept, SqlPartKept DEF BatchIsLocal
  <2>4. CASE SpawnWorker
    <3>1. UNCHANGED <<arrivals, batch, queue, completed, executed, ddl_command, thrown, called>> /\ host # "draining"
      BY <2>4 DEF SpawnWorker
    <3>2. worker[new_id] = "none" /\ new_id \in TaskId
      BY <1>1, <2>4 DEF SpawnWorker, WorkersAreIssued, TypeOK
    <3>3. \A id \in TaskId : worker'[id] \in {"queued", "done"} <=> worker[id] \in {"queued", "done"}
      BY <1>1, <2>4, <3>2 DEF SpawnWorker, TypeOK
    <3>4. QED
      BY <1>1, <3>1, <3>3, QueuePartKept, SqlPartKept DEF BatchIsLocal
  <2>5. CASE FailToSpawn \/ ReturnFromAdd \/ UnloadPlugin
    <3>1. /\ UNCHANGED <<arrivals, batch, queue, completed, worker, executed, ddl_command, thrown, called>>
          /\ host # "draining"
      BY <2>5 DEF FailToSpawn, ReturnFromAdd, UnloadPlugin
    <3>2. QED
      BY <1>1, <3>1, QueuePartKept, SqlPartKept DEF BatchIsLocal
  <2>6. ASSUME NEW c \in Calls, NEW kind \in {"dml", "ddl"}, FileMakerSQL(c, kind)
        PROVE  QueuePart' /\ SqlPart' /\ BatchIsLocal'
    <3>1. UNCHANGED <<arrivals, batch, queue, completed, worker, host>>
      BY <2>6 DEF FileMakerSQL
    <3>2. QED
      BY <1>1, <2>6, <3>1, QueuePartKept, SqlPartCall DEF BatchIsLocal
  <2>7. ASSUME NEW id \in TaskId, QueueSql(id) \/ QueueFailure(id)
        PROVE  QueuePart' /\ SqlPart' /\ BatchIsLocal'
    <3>1. UNCHANGED <<completed, executed, ddl_command, thrown, called, host, batch>>
      BY <2>7 DEF QueueSql, QueueFailure, QueueResult
    <3>2. \E k \in SqlKind : QueueResult([sql |-> k, id |-> id])
      BY <1>1, <2>7 DEF QueueSql, QueueFailure, TypeOK, SqlKind
    <3>3. worker[id] \notin {"queued", "done"} /\ worker' = [worker EXCEPT ![id] = "queued"]
      BY <2>7 DEF QueueSql, QueueFailure
    <3>4. QueuePart'
      BY <1>1, <3>1, <3>2, <3>3, QueuePartQueue
    <3>5. QED
      BY <1>1, <3>1, <3>4, SqlPartKept DEF BatchIsLocal
  <2>8. ASSUME NEW id \in TaskId, Download(id) \/ ExitWorker(id)
        PROVE  QueuePart' /\ SqlPart' /\ BatchIsLocal'
    <3>1. UNCHANGED <<arrivals, batch, queue, completed, executed, ddl_command, thrown, called, host>>
      BY <2>8 DEF Download, ExitWorker
    <3>2. \A j \in TaskId : worker'[j] \in {"queued", "done"} <=> worker[j] \in {"queued", "done"}
      BY <1>1, <2>8 DEF Download, ExitWorker, TypeOK
    <3>3. QED
      BY <1>1, <3>1, <3>2, QueuePartKept, SqlPartKept DEF BatchIsLocal
  <2>9. CASE UNCHANGED vars
    <3>1. UNCHANGED <<arrivals, batch, queue, completed, worker, executed, ddl_command, thrown, called, host>>
      BY <2>9 DEF vars
    <3>2. QED
      BY <1>1, <3>1, QueuePartKept, SqlPartKept DEF BatchIsLocal
  <2>10. QED
    BY <2>1, <2>2, <2>3, <2>4, <2>5, <2>6, <2>7, <2>8, <2>9
       DEF Next, HostStep, HostCall, WorkerStep, Terminated
<1>4. QED
  BY <1>2, <1>3 DEF DrainInv, QueuePart, SqlPart

\* The invariant holds when the plug-in has just been loaded.
LEMMA InvInit == Init => Inv
BY TypeInit, DrainInit DEF Inv

\* Every step of the host and of the workers keeps the invariant.
LEMMA InvStep == Inv /\ [Next]_vars => Inv'
<1>1. ASSUME Inv, [Next]_vars PROVE Inv'
  BY <1>1, TypeStep, IssuedStep, CurlStep, DrainStep DEF Inv, TypeInv
<1>2. QED
  BY <1>1

\* The invariant holds in every state.
LEMMA InvAlways == Spec => []Inv
BY InvInit, InvStep, PTL DEF Spec

-----------------------------------------------------------------------------
(* The results. *)

\* Every result a worker queued is in exactly one place, in the order of
\* queueing, for any number of workers and any interleaving with the drains.
THEOREM DrainAccounted == Spec => []DrainInv
<1>1. Inv => DrainInv
  BY DEF Inv
<1>2. QED
  BY <1>1, InvAlways, PTL

\* No statement is executed twice and no task is completed twice.
THEOREM StatementsRunAtMostOnce == Spec => []AtMostOnce
<1>1. Inv => AtMostOnce
  BY DEF Inv, DrainInv, TaskSqlOnce, CallSqlOnce, CompletedAreDrained, AtMostOnce, Statement
<1>2. QED
  BY <1>1, InvAlways, PTL

\* Results are applied in the order in which the workers queued them.
THEOREM ResultsInOrder == Spec => []FirstInFirstOut
<1>1. ASSUME Inv PROVE FirstInFirstOut
  <2>1. TypeOK /\ QueuePart
    BY <1>1 DEF Inv, TypeInv, DrainInv, QueuePart
  <2>2. DOMAIN arrivals = 1..Len(arrivals) /\ \A i \in DOMAIN arrivals : arrivals[i].id \in TaskId
    <3>1. DOMAIN arrivals = 1..Len(arrivals) /\ \A i \in DOMAIN arrivals : arrivals[i] \in ResultRecord
      BY <2>1 DEF TypeOK
    <3>2. QED
      BY <3>1 DEF ResultRecord
  <2>3. NumDrained \in Nat /\ NumDrained <= Len(arrivals)
    BY <2>1, Lengths DEF QueuePart, ArrivalsSplit, NumDrained
  <2>4. \A i \in DOMAIN arrivals : IsCompleted(arrivals[i].id) <=> i <= NumDrained
    <3> SUFFICES ASSUME NEW i \in DOMAIN arrivals
                 PROVE  IsCompleted(arrivals[i].id) <=> i <= NumDrained
      OBVIOUS
    <3>1. completed[arrivals[i].id] \in Nat /\ completed[arrivals[i].id] <= 1
      BY <2>1, <2>2 DEF TypeOK, QueuePart, CompletedAreDrained
    <3>2. IsCompleted(arrivals[i].id) <=> completed[arrivals[i].id] = 1
      BY <3>1 DEF IsCompleted
    <3>3. completed[arrivals[i].id] = 1 <=> \E j \in 1..NumDrained : arrivals[j].id = arrivals[i].id
      BY <2>1, <2>2 DEF QueuePart, CompletedAreDrained
    <3>4. \A j \in 1..NumDrained : arrivals[j].id = arrivals[i].id => j = i
      BY <2>1, <2>2, <2>3, Lengths DEF QueuePart, ArrivalsUnique
    <3>5. i \in Nat /\ i >= 1
      BY <2>1, <2>2, Lengths
    <3>6. QED
      BY <2>3, <3>2, <3>3, <3>4, <3>5
  <2>5. QED
    BY <2>1, <2>2, <2>3, <2>4, Lengths DEF FirstInFirstOut
<1>2. Inv => FirstInFirstOut
  BY <1>1
<1>3. QED
  BY <1>2, InvAlways, PTL

\* Whoever frees libcurl gives the last reference back, and nobody takes one after.
CleanedLast == cleanup_thread # "none" => host = "unloaded" /\ curl_refs = 0

\* A BECurl that is alive keeps libcurl from being freed by others.
LEMMA AliveNotCleaned ==
    ASSUME Inv, CleanedLast, BuiltTasks # {} \/ host # "unloaded"
    PROVE  /\ cleanup_thread = "none"
           /\ BuiltTasks # {} /\ host # "unloaded" => curl_refs # 1
<1>1. Cardinality(BuiltTasks) \in Nat /\ (BuiltTasks # {} => Cardinality(BuiltTasks) # 0)
  BY BuiltFinite, FS_EmptySet
<1>2. QED
  BY <1>1 DEF Inv, TypeInv, TypeOK, CurlBound, CleanedLast

\* libcurl stays initialised while the plug-in is loaded and while a transfer may
\* be going on: no task's BECurl, on whichever thread it is destroyed, runs the
\* real curl_global_cleanup before the shutdown or before another task is done.
THEOREM CurlInitialised == Spec => []CurlStaysInitialised
<1>1. Init => CleanedLast
  BY DEF Init, CleanedLast
<1>2. ASSUME Inv, CleanedLast, [Next]_vars PROVE CleanedLast'
  <2> USE DEF hostVars, taskVars, queueVars, sqlVars, curlVars
  <2>1. CASE FailToSpawn \/ ReturnFromAdd
    <3>1. new_id \in BuiltTasks /\ host # "unloaded"
      BY <1>2, <2>1 DEF FailToSpawn, ReturnFromAdd, BuiltTasks, Inv, TypeInv, WorkersAreIssued, TypeOK
    <3>2. curl_refs # 1 /\ cleanup_thread = "none"
      BY <1>2, <3>1, AliveNotCleaned
    <3>3. cleanup_thread' = cleanup_thread
      BY <2>1, <3>2 DEF FailToSpawn, ReturnFromAdd, ReleaseCurlGlobal
    <3>4. QED
      BY <3>2, <3>3 DEF CleanedLast
  <2>2. ASSUME NEW id \in TaskId, ExitWorker(id) PROVE CleanedLast'
    <3>1. id \in BuiltTasks /\ host' = host
      BY <2>2 DEF ExitWorker, BuiltTasks, Live
    <3>2. cleanup_thread = "none" /\ (host # "unloaded" => curl_refs # 1)
      BY <1>2, <3>1, AliveNotCleaned
    <3>3. QED
      BY <2>2, <3>1, <3>2 DEF ExitWorker, ReleaseCurlGlobal, CleanedLast
  <2>3. CASE UnloadPlugin
    <3>1. cleanup_thread = "none"
      BY <1>2, <2>3, AliveNotCleaned DEF UnloadPlugin
    <3>2. QED
      BY <2>3, <3>1 DEF UnloadPlugin, ReleaseCurlGlobal, CleanedLast
  <2>4. CASE StartAdd \/ StartList \/ StartIdle \/ DrainTask \/ BuildTask \/ FailToBuildTask
             \/ SpawnWorker \/ ReturnFromList \/ ReturnFromIdle
    <3>1. cleanup_thread' = cleanup_thread /\ host # "unloaded"
      BY <2>4 DEF StartAdd, StartList, StartIdle, DrainTask, BuildTask, FailToBuildTask, SpawnWorker,
                 ReturnFromList, ReturnFromIdle, Begin, Drained
    <3>2. QED
      BY <1>2, <3>1 DEF CleanedLast
  <2>5. ASSUME NEW c \in Calls, NEW kind \in {"dml", "ddl"}, FileMakerSQL(c, kind) PROVE CleanedLast'
    BY <1>2, <2>5 DEF FileMakerSQL, CleanedLast
  <2>6. ASSUME NEW id \in TaskId, Download(id) \/ QueueSql(id) \/ QueueFailure(id) PROVE CleanedLast'
    BY <1>2, <2>6 DEF Download, QueueSql, QueueFailure, CleanedLast
  <2>7. CASE UNCHANGED vars
    BY <1>2, <2>7 DEF vars, CleanedLast
  <2>8. QED
    BY <1>2, <2>1, <2>2, <2>3, <2>4, <2>5, <2>6, <2>7 DEF Next, HostStep, HostCall, WorkerStep, Terminated
<1>3. Inv /\ CleanedLast /\ [Next]_vars => CleanedLast'
  BY <1>2
<1>4. ASSUME Inv, CleanedLast PROVE CurlStaysInitialised
  <2>1. cleanup_thread # "none" => host = "unloaded" /\ BuiltTasks = {}
    BY <1>4, AliveNotCleaned
  <2>2. QED
    BY <1>4, <2>1 DEF Inv, TypeInv, CurlBound, CurlStaysInitialised
<1>5. Inv /\ CleanedLast => CurlStaysInitialised
  BY <1>4
<1>6. QED
  BY <1>1, <1>3, <1>5, InvAlways, PTL DEF Spec

\* The task lifecycle a script may rely on (TaskLifecycle) is implemented.
THEOREM LifecycleImplemented == Spec => ImplementsLifecycle
<1> DEFINE applied == [id \in TaskId |-> executed[id]]
<1>1. Init => Lifecycle!Init
  BY DEF Init, Lifecycle!Init, Statement
<1>2. ASSUME Inv, [Next]_vars PROVE [Lifecycle!Next]_(Lifecycle!vars)
  <2> USE DEF hostVars, taskVars, queueVars, sqlVars, curlVars
  <2>1. TypeOK /\ QueuePart /\ SqlPart
    BY <1>2 DEF Inv, TypeInv, DrainInv, QueuePart, SqlPart
  <2>2. CASE UNCHANGED <<background_tasks, completed, executed>>
    BY <2>2 DEF Lifecycle!vars
  <2>3. ASSUME NEW id \in TaskId, IssueId(id), UNCHANGED <<completed, executed>>
        PROVE  Lifecycle!Next
    BY <2>3 DEF IssueId, IsNextId, Lifecycle!Next, Lifecycle!Issue
  <2>4. CASE DrainTask
    <3>1. PICK t \in TaskId : t = Head(batch).id /\ completed[t] = 0
      BY <2>1, <2>4, NextResult DEF DrainTask, ResultRecord
    <3>2. t \in background_tasks
      <4>1. \E i \in 1..Len(arrivals) : arrivals[i].id = t
        BY <2>1, <2>4, <3>1, NextResult DEF DrainTask
      <4>2. worker[t] # "none"
        BY <2>1, <3>1, <4>1 DEF QueuePart, ArrivalsAreHandOvers
      <4>3. QED
        BY <1>2, <3>1, <4>2 DEF Inv, TypeInv, WorkersAreIssued
    <3>3. completed' = [completed EXCEPT ![t] = 1] /\ background_tasks' = background_tasks
      BY <2>1, <2>4, <3>1 DEF DrainTask, MarkCompleted, TypeOK
    <3>4. executed[t] = 0
      <4>1. executed[t] \in Nat /\ executed[t] <= 1 /\ executed[t] # 1
        BY <2>1, <3>1 DEF SqlPart, TaskSqlOnce, TypeOK, Statement
      <4>2. QED
        BY <4>1
    <3>5. applied' = applied \/ (applied[t] = 0 /\ applied' = [applied EXCEPT ![t] = 1])
      <4>1. executed' = executed \/ executed' = [executed EXCEPT ![t] = executed[t] + 1]
        BY <2>4, <3>1 DEF DrainTask, ExecuteResult, ExecuteSql, StatementThrows
      <4>2. CASE executed' = executed
        BY <4>2
      <4>3. CASE executed' = [executed EXCEPT ![t] = executed[t] + 1]
        <5>1. \A id \in TaskId : executed'[id] = IF id = t THEN 1 ELSE executed[id]
          BY <2>1, <3>1, <3>4, <4>3 DEF TypeOK, Statement
        <5>2. QED
          BY <3>1, <3>4, <5>1
      <4>4. QED
        BY <4>1, <4>2, <4>3
    <3>6. Lifecycle!Finish(t)
      BY <3>1, <3>2, <3>3, <3>5 DEF Lifecycle!Finish, Lifecycle!Apply
    <3>7. QED
      BY <3>1, <3>6 DEF Lifecycle!Next
  <2>5. CASE StartIdle
    <3>1. UNCHANGED <<background_tasks, completed>> /\ RunDeferredDdl
      BY <2>5 DEF StartIdle
    <3>2. CASE ddl_command \in TaskId
      <4>1. PICK d \in TaskId : d = ddl_command
        BY <3>2
      <4>2. completed[d] = 1 /\ executed[d] = 0
        BY <2>1, <4>1 DEF SqlPart, TaskSqlOnce
      <4>3. \A id \in TaskId : executed'[id] = IF id = d THEN 1 ELSE executed[id]
        BY <2>1, <3>1, <4>1, <4>2, NoCommandAssumption DEF RunDeferredDdl, TypeOK, Statement
      <4>4. applied[d] = 0 /\ applied' = [applied EXCEPT ![d] = 1]
        BY <4>1, <4>2, <4>3
      <4>5. Lifecycle!ApplyLate(d)
        BY <3>1, <4>2, <4>4 DEF Lifecycle!ApplyLate, Lifecycle!Apply
      <4>6. QED
        BY <4>1, <4>5 DEF Lifecycle!Next
    <3>3. CASE ddl_command \notin TaskId
      <4>1. applied' = applied
        BY <2>1, <3>1, <3>3 DEF RunDeferredDdl, TypeOK, Statement
      <4>2. QED
        BY <3>1, <4>1 DEF Lifecycle!vars
    <3>4. QED
      BY <3>2, <3>3
  <2>6. ASSUME NEW c \in Calls, NEW kind \in {"dml", "ddl"}, FileMakerSQL(c, kind)
        PROVE  UNCHANGED Lifecycle!vars
    <3>1. UNCHANGED <<background_tasks, completed>> /\ c \notin TaskId
      BY <2>6, CallsAssumption DEF FileMakerSQL
    <3>2. applied' = applied
      BY <2>1, <2>6, <3>1 DEF FileMakerSQL, ExecuteSql, TypeOK, Statement
    <3>3. QED
      BY <3>1, <3>2 DEF Lifecycle!vars
  <2>7. CASE BuildTask \/ FailToBuildTask
    BY <2>3, <2>7 DEF BuildTask, FailToBuildTask
  <2>8. CASE StartAdd \/ StartList \/ SpawnWorker \/ FailToSpawn \/ ReturnFromAdd \/ ReturnFromList
             \/ ReturnFromIdle \/ UnloadPlugin
    BY <2>2, <2>8 DEF StartAdd, StartList, SpawnWorker, FailToSpawn, ReturnFromAdd, ReturnFromList,
                      ReturnFromIdle, UnloadPlugin
  <2>9. ASSUME NEW id \in TaskId, WorkerStep(id) PROVE UNCHANGED <<background_tasks, completed, executed>>
    BY <2>9 DEF WorkerStep, Download, QueueSql, QueueFailure, ExitWorker
  <2>10. CASE UNCHANGED vars
    BY <2>2, <2>10 DEF vars
  <2>11. QED
    BY <1>2, <2>2, <2>4, <2>5, <2>6, <2>7, <2>8, <2>9, <2>10 DEF Next, HostStep, HostCall, Terminated
<1>3. Inv /\ [Next]_vars => [Lifecycle!Next]_(Lifecycle!vars)
  BY <1>2
<1>4. QED
  BY <1>1, <1>3, InvAlways, PTL DEF Spec, ImplementsLifecycle, Lifecycle!Spec

-----------------------------------------------------------------------------
(* What is neither lost nor shown too late. *)

\* Where the result at position i of the history is.
LEMMA ArrivalPlace ==
    ASSUME Inv, NEW i \in DOMAIN arrivals
    PROVE  /\ arrivals[i].id \in TaskId
           /\ \/ IsCompleted(arrivals[i].id)
              \/ \E j \in DOMAIN batch : batch[j].id = arrivals[i].id
              \/ \E j \in DOMAIN queue : queue[j].id = arrivals[i].id
<1>1. TypeOK /\ ArrivalsSplit /\ CompletedAreDrained
  BY DEF Inv, TypeInv, DrainInv
<1>2. /\ Len(arrivals) \in Nat /\ Len(batch) \in Nat /\ Len(queue) \in Nat
      /\ i \in 1..Len(arrivals) /\ arrivals[i] \in ResultRecord
      /\ DOMAIN batch = 1..Len(batch) /\ DOMAIN queue = 1..Len(queue)
  BY <1>1, Lengths DEF TypeOK
<1>3. arrivals[i].id \in TaskId
  BY <1>2 DEF ResultRecord
<1>4. CASE i <= NumDrained
  <2>1. completed[arrivals[i].id] = 1
    BY <1>1, <1>2, <1>3, <1>4 DEF CompletedAreDrained, NumDrained
  <2>2. QED
    BY <1>3, <2>1 DEF IsCompleted
<1>5. CASE i > NumDrained /\ i <= NumDrained + Len(batch)
  <2>1. i - NumDrained \in 1..Len(batch) /\ NumDrained + (i - NumDrained) = i
    BY <1>2, <1>5 DEF NumDrained
  <2>2. batch[i - NumDrained] = arrivals[i]
    BY <1>1, <2>1 DEF ArrivalsSplit
  <2>3. QED
    BY <1>2, <1>3, <2>1, <2>2
<1>6. CASE i > NumDrained + Len(batch)
  <2> DEFINE j == i - (NumDrained + Len(batch))
  <2>1. j \in 1..Len(queue) /\ NumDrained + Len(batch) + j = i
    BY <1>2, <1>6 DEF NumDrained
  <2>2. queue[j] = arrivals[i]
    BY <1>1, <2>1 DEF ArrivalsSplit
  <2>3. QED
    BY <1>2, <1>3, <2>1, <2>2
<1>7. QED
  BY <1>2, <1>4, <1>5, <1>6 DEF NumDrained

(* A result that a worker has handed over is completed, or still in the     *)
(* batch or the queue.                                                      *)
THEOREM ResultsAreKept == Spec => []HandedOverIsKept
<1>1. ASSUME Inv PROVE HandedOverIsKept
  BY <1>1, ArrivalPlace DEF HandedOverIsKept, Ids
<1>2. QED
  BY <1>1, InvAlways, PTL

(* A task whose thread was started is never out of sight: it is at work, or *)
(* its result is in the queue, in the batch of a drain, or marked, and only *)
(* one of these; and nobody else's result is in any of them.  This is the   *)
(* safety part of TaskCompletes.                                            *)
THEOREM StartedTasksAreInSight ==
    Spec => [](\A id \in TaskId :
                   LET waits == id \in Ids(queue) \cup Ids(batch) IN
                   CASE worker[id] \in {"queued", "done"} -> IsCompleted(id) <=> ~ waits
                     [] OTHER -> ~ IsCompleted(id) /\ ~ waits)
<1>1. ASSUME Inv, NEW id \in TaskId
      PROVE  LET waits == id \in Ids(queue) \cup Ids(batch) IN
             CASE worker[id] \in {"queued", "done"} -> IsCompleted(id) <=> ~ waits
               [] OTHER -> ~ IsCompleted(id) /\ ~ waits
  <2> DEFINE waits == id \in Ids(queue) \cup Ids(batch)
  <2>1. /\ TypeOK /\ ArrivalsSplit /\ ArrivalsUnique /\ ArrivalsAreHandOvers /\ CompletedAreDrained
        /\ Len(arrivals) \in Nat /\ Len(batch) \in Nat /\ Len(queue) \in Nat
        /\ NumDrained \in Nat /\ NumDrained = Len(arrivals) - (Len(batch) + Len(queue))
        /\ DOMAIN batch = 1..Len(batch) /\ DOMAIN queue = 1..Len(queue)
        /\ DOMAIN arrivals = 1..Len(arrivals)
    BY <1>1, Lengths DEF Inv, TypeInv, DrainInv, ArrivalsSplit, NumDrained, TypeOK
  <2>2. IsCompleted(id) <=> \E i \in 1..NumDrained : arrivals[i].id = id
    <3>1. completed[id] \in Nat /\ completed[id] <= 1
      BY <2>1 DEF TypeOK, CompletedAreDrained
    <3>2. QED
      BY <2>1, <3>1 DEF CompletedAreDrained, IsCompleted
  <2>3. waits => \E i \in (NumDrained + 1)..Len(arrivals) : arrivals[i].id = id
    <3>1. ASSUME NEW j \in DOMAIN batch, batch[j].id = id
          PROVE  \E i \in (NumDrained + 1)..Len(arrivals) : arrivals[i].id = id
      <4>1. NumDrained + j \in (NumDrained + 1)..Len(arrivals)
        BY <2>1
      <4>2. arrivals[NumDrained + j].id = id
        BY <2>1, <3>1 DEF ArrivalsSplit
      <4>3. QED
        BY <4>1, <4>2
    <3>2. ASSUME NEW j \in DOMAIN queue, queue[j].id = id
          PROVE  \E i \in (NumDrained + 1)..Len(arrivals) : arrivals[i].id = id
      <4>1. NumDrained + Len(batch) + j \in (NumDrained + 1)..Len(arrivals)
        BY <2>1
      <4>2. arrivals[NumDrained + Len(batch) + j].id = id
        BY <2>1, <3>2 DEF ArrivalsSplit
      <4>3. QED
        BY <4>1, <4>2
    <3>3. QED
      BY <3>1, <3>2 DEF Ids
  <2>4. IsCompleted(id) \/ waits => worker[id] \in {"queued", "done"}
    <3>1. (\E i \in 1..Len(arrivals) : arrivals[i].id = id) => worker[id] \in {"queued", "done"}
      BY <2>1 DEF ArrivalsAreHandOvers
    <3>2. NumDrained <= Len(arrivals)
      BY <2>1
    <3>3. QED
      BY <2>1, <2>2, <2>3, <3>1, <3>2
  <2>5. ~ (IsCompleted(id) /\ waits)
    <3>1. SUFFICES ASSUME NEW i \in 1..NumDrained, NEW j \in (NumDrained + 1)..Len(arrivals),
                          arrivals[i].id = id, arrivals[j].id = id
                   PROVE  FALSE
      BY <2>2, <2>3
    <3>2. i \in 1..Len(arrivals) /\ j \in 1..Len(arrivals) /\ i # j
      BY <2>1
    <3>3. QED
      BY <2>1, <3>1, <3>2 DEF ArrivalsUnique
  <2>6. worker[id] \in {"queued", "done"} => IsCompleted(id) \/ waits
    <3>1. SUFFICES ASSUME NEW i \in DOMAIN arrivals, arrivals[i].id = id
                   PROVE  IsCompleted(id) \/ waits
      BY <2>1 DEF ArrivalsAreHandOvers
    <3>2. QED
      BY <1>1, <3>1, ArrivalPlace DEF Ids
  <2>7. QED
    BY <2>4, <2>5, <2>6
<1>2. Inv => \A id \in TaskId :
                 LET waits == id \in Ids(queue) \cup Ids(batch) IN
                 CASE worker[id] \in {"queued", "done"} -> IsCompleted(id) <=> ~ waits
                   [] OTHER -> ~ IsCompleted(id) /\ ~ waits
  BY <1>1
<1>3. QED
  BY <1>2, InvAlways, PTL

\* What becomes of the statement of a result that was drained.
Outcome(i) ==
    LET id == arrivals[i].id
        no_effect == executed[id] = 0 /\ ddl_command # id
    IN
    \/ arrivals[i].sql = "dml" /\ id \notin thrown /\ executed[id] = 1
    \/ /\ arrivals[i].sql = "ddl" /\ id \notin thrown
       /\ executed[id] = 1 \/ ddl_command = id \/ SlotWasTaken(i)
    \/ arrivals[i].sql # "none" /\ id \in thrown /\ no_effect
    \/ arrivals[i].sql = "none" /\ id \notin thrown /\ no_effect

\* A statement that has run stays so, one that waits runs or is replaced by
\* another, and the next result of the drain loop has the only statement of its
\* task.
LEMMA RunStep == Inv /\ CompletionExplained /\ [Next]_vars => CompletionExplained'
<1> SUFFICES ASSUME Inv, CompletionExplained, [Next]_vars PROVE CompletionExplained'
  OBVIOUS
<1>1. TypeOK /\ QueuePart /\ SqlPart /\ TypeOK' /\ Inv'
  BY DrainParts, InvStep DEF Inv, TypeInv
<1>2. \A i \in DOMAIN arrivals : arrivals[i].id \in TaskId
  BY ArrivalPlace
<1>3. \A id \in TaskId : completed[id] \in Nat /\ executed[id] \in Nat /\ id \in Statement
  BY <1>1 DEF TypeOK, Statement
<1>4. CompletionExplained <=> \A i \in DOMAIN arrivals : IsCompleted(arrivals[i].id) => Outcome(i)
  BY DEF CompletionExplained, Outcome
<1>5. CASE DrainTask
  <2>0. PICK n \in 1..Len(arrivals), r \in ResultRecord : n = NumDrained + 1 /\ r = Head(batch)
    BY <1>1, <1>5, NextResult DEF DrainTask
  <2>1. /\ n \in 1..Len(arrivals) /\ r = arrivals[n]
        /\ n \in Int /\ NumDrained \in Int /\ n = NumDrained + 1
        /\ r \in ResultRecord /\ completed[r.id] = 0
    BY <1>1, <1>5, <2>0, NextResult, Lengths DEF DrainTask, NumDrained
  <2>2. r.id \in TaskId /\ executed[r.id] = 0 /\ ddl_command # r.id /\ r.id \notin thrown
    <3>1. r.id \in TaskId
      BY <2>1 DEF ResultRecord
    <3>2. executed[r.id] # 1 /\ executed[r.id] <= 1 /\ ddl_command # r.id /\ r.id \notin thrown
      BY <1>1, <2>1, <3>1 DEF SqlPart, TaskSqlOnce
    <3>3. QED
      BY <1>3, <3>1, <3>2
  <2>3. /\ arrivals' = arrivals /\ completed' = [completed EXCEPT ![r.id] = @ + 1]
        /\ ExecuteResult(r) /\ UNCHANGED called
    BY <1>5, <2>0 DEF DrainTask, MarkCompleted
  <2>4. DOMAIN arrivals = 1..Len(arrivals)
    BY <1>1 DEF TypeOK
  <2>5. \A i \in DOMAIN arrivals : i < n => IsCompleted(arrivals[i].id)
    <3>1. \A i \in DOMAIN arrivals : i < n => i \in 1..NumDrained
      BY <2>1, <2>4, Lengths, <1>1 DEF NumDrained
    <3>2. QED
      BY <1>1, <1>2, <3>1 DEF QueuePart, CompletedAreDrained, IsCompleted
  <2>6. \A i \in DOMAIN arrivals : IsCompleted(arrivals[i].id) => i < n
    <3>1. SUFFICES ASSUME NEW i \in DOMAIN arrivals, IsCompleted(arrivals[i].id) PROVE i < n
      OBVIOUS
    <3>2. arrivals[i].id \in TaskId /\ completed[arrivals[i].id] = 1
      BY <1>1, <1>2, <1>3, <3>1 DEF QueuePart, CompletedAreDrained, IsCompleted
    <3>3. PICK j \in 1..NumDrained : arrivals[j].id = arrivals[i].id
      BY <1>1, <3>2 DEF QueuePart, CompletedAreDrained
    <3>4. j \in 1..Len(arrivals)
      BY <2>1, <3>3, Lengths, <1>1 DEF NumDrained
    <3>5. i = j
      BY <1>1, <2>4, <3>3, <3>4 DEF QueuePart, ArrivalsUnique
    <3>6. QED
      BY <2>1, <3>3, <3>5
  \* The statement of the result taken.
  <2>7. \/ r.sql = "dml" /\ executed' = [executed EXCEPT ![r.id] = @ + 1]
                         /\ UNCHANGED <<ddl_command, thrown>>
        \/ r.sql = "ddl" /\ ddl_command' = r.id /\ UNCHANGED <<executed, thrown>>
        \/ r.sql # "none" /\ thrown' = thrown \cup {r.id} /\ UNCHANGED <<ddl_command, executed>>
        \/ r.sql = "none" /\ UNCHANGED <<ddl_command, executed, thrown>>
    BY <2>3 DEF ExecuteResult, ExecuteSql, StatementThrows
  <2>8. \A id \in TaskId : id \in DOMAIN executed /\ id \in DOMAIN completed
    BY <1>1, <1>3 DEF TypeOK
  <2>9. (IsCompleted(r.id))'
    BY <1>3, <2>2, <2>3, <2>8 DEF IsCompleted
  <2>10. \A id \in TaskId : IsCompleted(id) => (IsCompleted(id))'
    BY <1>3, <2>2, <2>3, <2>8 DEF IsCompleted
  <2>11. Outcome(n)'
    BY <2>1, <2>2, <2>3, <2>7, <2>8 DEF Outcome
  <2>12. ASSUME NEW i \in DOMAIN arrivals, i # n, (IsCompleted(arrivals[i].id))'
         PROVE  Outcome(i)'
    <3>1. arrivals[i].id \in TaskId /\ arrivals[i].id # r.id
      BY <1>1, <1>2, <2>1, <2>4, <2>12 DEF QueuePart, ArrivalsUnique
    <3>2. IsCompleted(arrivals[i].id) /\ i < n
      BY <2>3, <2>6, <2>8, <2>12, <3>1 DEF IsCompleted
    <3>3. Outcome(i)
      BY <1>4, <3>2
    <3>4. /\ executed'[arrivals[i].id] = executed[arrivals[i].id]
          /\ arrivals[i].id \in thrown' <=> arrivals[i].id \in thrown
      BY <2>7, <2>8, <3>1
    <3>5. SlotWasTaken(i) => SlotWasTaken(i)'
      <4>1. \A id \in TaskId : IsCompleted(id) /\ id \notin thrown => id \notin thrown'
        BY <1>3, <2>1, <2>7 DEF IsCompleted
      <4>2. QED
        BY <1>2, <2>3, <2>10, <4>1 DEF SlotWasTaken
    <3>6. ddl_command' # ddl_command => SlotWasTaken(i)' /\ ddl_command' = r.id
      BY <2>1, <2>2, <2>3, <2>4, <2>7, <2>9, <3>2 DEF SlotWasTaken
    <3>7. QED
      BY <2>3, <3>1, <3>3, <3>4, <3>5, <3>6 DEF Outcome
  <2>13. \A i \in DOMAIN arrivals' : (IsCompleted(arrivals[i].id))' => Outcome(i)'
    BY <2>3, <2>11, <2>12
  <2>14. QED
    BY <2>13 DEF CompletionExplained, Outcome
\* Where no result is drained, it is enough that each keeps its outcome.
<1>6. ASSUME UNCHANGED <<arrivals, completed>>,
             \A i \in DOMAIN arrivals : Outcome(i) => Outcome(i)'
      PROVE  CompletionExplained'
  <2>1. \A i \in DOMAIN arrivals' : (IsCompleted(arrivals[i].id))' => Outcome(i)'
    BY <1>4, <1>6 DEF IsCompleted
  <2>2. QED
    BY <2>1 DEF CompletionExplained, Outcome
<1>7. CASE StartIdle
  <2>1. UNCHANGED <<arrivals, completed, called, thrown>> /\ RunDeferredDdl
    BY <1>7 DEF StartIdle, SwapOutQueue, taskVars
  <2>2. \A id \in TaskId :
            /\ executed[id] = 1 \/ ddl_command = id => executed'[id] = 1
            /\ executed[id] = 0 /\ ddl_command # id => executed'[id] = 0 /\ ddl_command' # id
    <3>1. \A id \in TaskId :
              /\ executed[id] = 1 => ddl_command # id
              /\ ddl_command = id => executed[id] = 0
      BY <1>1, <1>3 DEF SqlPart, TaskSqlOnce
    <3>2. NoCommand \notin TaskId
      BY NoCommandAssumption DEF Statement
    <3>3. QED
      BY <1>1, <1>3, <2>1, <3>1, <3>2 DEF RunDeferredDdl, TypeOK
  <2>3. \A i : SlotWasTaken(i) => SlotWasTaken(i)'
    BY <2>1 DEF SlotWasTaken, IsCompleted
  <2>4. \A i \in DOMAIN arrivals : Outcome(i) => Outcome(i)'
    BY <1>2, <2>1, <2>2, <2>3 DEF Outcome
  <2>5. QED
    BY <1>6, <2>1, <2>4
<1>8. ASSUME NEW c \in Calls, NEW kind, FileMakerSQL(c, kind) PROVE CompletionExplained'
  <2>1. /\ UNCHANGED <<arrivals, completed>> /\ c \notin TaskId /\ ExecuteSql(kind, c)
        /\ called' # {}
    BY <1>8, CallsAssumption DEF FileMakerSQL, queueVars, taskVars
  <2>2. /\ \A id \in TaskId : executed'[id] = executed[id] /\ (ddl_command # id => ddl_command' # id)
        /\ thrown' = thrown
    BY <1>1, <1>3, <2>1 DEF ExecuteSql, TypeOK
  <2>3. \A i : SlotWasTaken(i)'
    BY <2>1 DEF SlotWasTaken
  <2>4. \A i \in DOMAIN arrivals : Outcome(i) => Outcome(i)'
    BY <1>2, <2>1, <2>2, <2>3 DEF Outcome
  <2>5. QED
    BY <1>6, <2>1, <2>4
<1>9. ASSUME NEW id \in TaskId, QueueSql(id) \/ QueueFailure(id) PROVE CompletionExplained'
  <2>1. /\ \E k \in SqlKind : arrivals' = Append(arrivals, [sql |-> k, id |-> id])
        /\ UNCHANGED <<completed, executed, ddl_command, thrown, called>>
        /\ worker[id] \notin {"queued", "done"}
    BY <1>1, <1>9 DEF QueueSql, QueueFailure, QueueResult, TypeOK, SqlKind, sqlVars
  <2>2. completed[id] = 0
    <3>1. ~ \E i \in 1..Len(arrivals) : arrivals[i].id = id
      BY <1>1, <2>1 DEF QueuePart, ArrivalsAreHandOvers
    <3>2. completed[id] # 1 /\ completed[id] <= 1
      <4>1. 1..NumDrained \subseteq 1..Len(arrivals)
        BY <1>1, Lengths DEF NumDrained
      <4>2. QED
        BY <1>1, <3>1, <4>1 DEF QueuePart, CompletedAreDrained
    <3>3. QED
      BY <1>3, <3>2
  <2>3. \A i \in DOMAIN arrivals' : arrivals'[i].id = id \/ (i \in DOMAIN arrivals /\ arrivals'[i] = arrivals[i])
    <3>1. PICK k \in SqlKind : arrivals' = Append(arrivals, [sql |-> k, id |-> id])
      BY <2>1
    <3>2. [sql |-> k, id |-> id] \in ResultRecord /\ arrivals \in Seq(ResultRecord)
      BY <1>1 DEF ResultRecord, TypeOK
    <3> DEFINE rec == [sql |-> k, id |-> id]
    <3>3. rec.id = id
      OBVIOUS
    <3> HIDE DEF rec
    <3>4. arrivals' = Append(arrivals, rec) /\ rec \in ResultRecord
      BY <3>1, <3>2 DEF rec
    <3>5. /\ DOMAIN arrivals = 1..Len(arrivals) /\ Len(arrivals) \in Nat
          /\ DOMAIN arrivals' = 1..(Len(arrivals) + 1)
          /\ arrivals'[Len(arrivals) + 1] = rec
          /\ \A i \in 1..Len(arrivals) : arrivals'[i] = arrivals[i]
      BY <3>2, <3>4
    <3>6. QED
      BY <3>3, <3>5
  <2>4. \A i \in DOMAIN arrivals : i \in DOMAIN arrivals' /\ arrivals'[i] = arrivals[i]
    <3>1. PICK k \in SqlKind : arrivals' = Append(arrivals, [sql |-> k, id |-> id])
      BY <2>1
    <3>2. [sql |-> k, id |-> id] \in ResultRecord /\ arrivals \in Seq(ResultRecord)
      BY <1>1 DEF ResultRecord, TypeOK
    <3> DEFINE rec == [sql |-> k, id |-> id]
    <3> HIDE DEF rec
    <3>3. arrivals' = Append(arrivals, rec)
      BY <3>1 DEF rec
    <3>4. QED
      BY <3>2, <3>3
  <2>5. \A i : SlotWasTaken(i) => SlotWasTaken(i)'
    BY <2>1, <2>4 DEF SlotWasTaken, IsCompleted
  <2>6. \A i \in DOMAIN arrivals' : (IsCompleted(arrivals[i].id))' => Outcome(i)'
    <3>1. SUFFICES ASSUME NEW i \in DOMAIN arrivals', (IsCompleted(arrivals[i].id))'
                   PROVE  Outcome(i)'
      OBVIOUS
    <3>2. i \in DOMAIN arrivals /\ arrivals'[i] = arrivals[i]
      BY <2>1, <2>2, <2>3, <3>1 DEF IsCompleted
    <3>3. Outcome(i)
      BY <1>4, <2>1, <3>1, <3>2 DEF IsCompleted
    <3>4. QED
      BY <2>1, <2>5, <3>2, <3>3 DEF Outcome
  <2>7. QED
    BY <2>6 DEF CompletionExplained, Outcome
<1>10. CASE UNCHANGED <<arrivals, completed, executed, ddl_command, thrown, called>>
  <2>1. \A i : SlotWasTaken(i) => SlotWasTaken(i)'
    BY <1>10 DEF SlotWasTaken, IsCompleted
  <2>2. \A i \in DOMAIN arrivals : Outcome(i) => Outcome(i)'
    BY <1>10, <2>1 DEF Outcome
  <2>3. QED
    BY <1>6, <1>10, <2>2
<1>11. QED
  BY <1>5, <1>7, <1>8, <1>9, <1>10
     DEF Next, HostStep, HostCall, WorkerStep, StartAdd, StartList, SwapOutQueue, BuildTask,
         FailToBuildTask, IssueId, SpawnWorker, FailToSpawn, ReturnFromAdd, ReturnFromList,
         ReturnFromIdle, UnloadPlugin, Download, ExitWorker, Terminated,
         vars, hostVars, taskVars, queueVars, sqlVars

(* A task is completed when its statement has run or threw, when it waits   *)
(* in the slot or has lost its place there to another DDL statement; one    *)
(* that threw is never run after all, and a task that failed runs nothing.  *)
THEOREM CompletionsExplained == Spec => []CompletionExplained
<1>1. Init => CompletionExplained
  BY DEF Init, CompletionExplained
<1>2. QED
  BY <1>1, InvInit, InvStep, RunStep, PTL DEF Spec

(* When the single slot is enough: as long as BE_FileMakerSQL is not used   *)
(* beside the tasks and no two of their results are DDL, the statement of   *)
(* every completed task has run, waits in the slot or threw; BESQLCommand.h *)
(* says of all of them that they are executed.                              *)
THEOREM OneDeferredDdlIsNotLost ==
    Spec => [](/\ called = {}
               /\ \A i, j \in DOMAIN arrivals :
                      arrivals[i].sql = "ddl" /\ arrivals[j].sql = "ddl" => i = j
               => CompletedSqlIsNotLost)
<1>1. ASSUME Inv, CompletionExplained, called = {},
             \A i, j \in DOMAIN arrivals :
                 arrivals[i].sql = "ddl" /\ arrivals[j].sql = "ddl" => i = j
      PROVE  CompletedSqlIsNotLost
  <2>1. DOMAIN arrivals = 1..Len(arrivals) /\ Len(arrivals) \in Nat
    BY <1>1, Lengths DEF Inv, TypeInv, TypeOK
  <2>2. ASSUME NEW i \in DOMAIN arrivals, arrivals[i].sql = "ddl" PROVE ~ SlotWasTaken(i)
    <3>1. \A j \in DOMAIN arrivals : arrivals[j].sql = "ddl" => ~ (j > i)
      BY <1>1, <2>1, <2>2
    <3>2. QED
      BY <1>1, <3>1 DEF SlotWasTaken
  <2>3. QED
    BY <1>1, <2>2 DEF CompletionExplained, CompletedSqlIsNotLost
<1>2. Inv /\ CompletionExplained =>
          (/\ called = {}
           /\ \A i, j \in DOMAIN arrivals :
                  arrivals[i].sql = "ddl" /\ arrivals[j].sql = "ddl" => i = j
           => CompletedSqlIsNotLost)
  BY <1>1
<1>3. QED
  BY <1>2, InvAlways, CompletionsExplained, PTL

\* A call of List is over before the next call begins; until then what it must
\* not show is completed or in its batch.
ListInv ==
    /\ host # "draining" => call # "list"
    /\ call = "list" => \A id \in due : IsCompleted(id) \/ \E j \in DOMAIN batch : batch[j].id = id
    /\ ListIsFresh

\* Every step keeps what List must not show completed or in its batch.
LEMMA ListStep == Inv /\ ListInv /\ [Next]_vars => ListInv'
<1> SUFFICES ASSUME Inv, ListInv, [Next]_vars PROVE ListInv'
  OBVIOUS
<1> USE DEF hostVars, taskVars, queueVars, sqlVars, curlVars
<1>1. TypeOK /\ BatchIsLocal
  BY DEF Inv, TypeInv, DrainInv
<1>2. CASE StartList
  <2>1. /\ host = "ready" /\ host' = "draining" /\ call' = "list" /\ due' = Ids(arrivals)
        /\ batch' = queue /\ UNCHANGED completed
    BY <1>2 DEF StartList, Begin, SwapOutQueue
  <2>2. DOMAIN batch = {}
    BY <1>1, <2>1 DEF BatchIsLocal
  <2>3. \A id \in due' : IsCompleted(id) \/ \E j \in DOMAIN queue : queue[j].id = id
    BY <2>1, <2>2, ArrivalPlace DEF Ids
  <2>4. QED
    BY <2>1, <2>3 DEF ListInv, ListIsFresh, IsCompleted
<1>3. CASE StartAdd \/ StartIdle
  BY <1>3 DEF StartAdd, StartIdle, Begin, ListInv, ListIsFresh
<1>4. CASE DrainTask
  <2> DEFINE r == Head(batch)
  <2>1. /\ batch # <<>> /\ batch' = Tail(batch) /\ completed' = [completed EXCEPT ![r.id] = @ + 1]
        /\ UNCHANGED <<host, call, due, listed>>
    BY <1>4 DEF DrainTask, MarkCompleted
  <2>2. r \in ResultRecord /\ r = batch[1] /\ Len(batch) \in Nat /\ DOMAIN batch = 1..Len(batch)
    BY <1>1, <2>1 DEF TypeOK
  <2>3. r.id \in TaskId /\ completed'[r.id] > 0
    <3>1. r.id \in TaskId
      BY <2>2 DEF ResultRecord
    <3>2. completed'[r.id] = completed[r.id] + 1 /\ completed[r.id] \in Nat
      BY <1>1, <2>1, <3>1 DEF TypeOK
    <3>3. QED
      BY <3>1, <3>2
  <2>4. \A id : IsCompleted(id) /\ id \in TaskId => (IsCompleted(id))'
    BY <1>1, <2>1, <2>3 DEF IsCompleted, TypeOK
  <2>5. \A j \in DOMAIN batch : j = 1 \/ (j - 1 \in DOMAIN batch' /\ batch'[j - 1] = batch[j])
    BY <1>1, <2>1, <2>2 DEF TypeOK
  <2>6. due \subseteq TaskId
    BY <1>1 DEF TypeOK
  <2> HIDE DEF r
  <2>7. ASSUME call = "list", NEW id \in due
        PROVE  (IsCompleted(id))' \/ \E j \in DOMAIN batch' : batch'[j].id = id
    <3>1. CASE IsCompleted(id)
      BY <2>4, <2>6, <2>7, <3>1
    <3>2. ASSUME NEW j \in DOMAIN batch, batch[j].id = id
          PROVE  (IsCompleted(id))' \/ \E k \in DOMAIN batch' : batch'[k].id = id
      <4>1. CASE j = 1
        BY <2>2, <2>3, <3>2, <4>1 DEF IsCompleted
      <4>2. CASE j - 1 \in DOMAIN batch' /\ batch'[j - 1] = batch[j]
        BY <3>2, <4>2
      <4>3. QED
        BY <2>5, <4>1, <4>2
    <3>3. QED
      BY <2>7, <3>1, <3>2 DEF ListInv
  <2>8. QED
    BY <2>1, <2>7 DEF ListInv, ListIsFresh
<1>5. CASE ReturnFromList
  <2>1. /\ call = "list" /\ batch = <<>> /\ call' = "none" /\ host' = "ready"
        /\ listed' = {id \in background_tasks : ~ IsCompleted(id)} /\ due' = due
    BY <1>5 DEF ReturnFromList, Drained, Return, PendingTasks
  <2>2. \A id \in due : IsCompleted(id)
    BY <2>1 DEF ListInv
  <2>3. QED
    BY <2>1, <2>2 DEF ListInv, ListIsFresh
<1>6. CASE BuildTask \/ FailToBuildTask \/ ReturnFromIdle
  BY <1>6 DEF BuildTask, FailToBuildTask, ReturnFromIdle, Drained, Return, ListInv, ListIsFresh
<1>7. CASE SpawnWorker \/ FailToSpawn \/ ReturnFromAdd \/ UnloadPlugin
  BY <1>7 DEF SpawnWorker, FailToSpawn, ReturnFromAdd, UnloadPlugin, Return, ListInv, ListIsFresh
<1>8. CASE UNCHANGED <<host, call, listed, due, completed, batch>>
  BY <1>8 DEF ListInv, ListIsFresh, IsCompleted
<1>9. QED
  BY <1>2, <1>3, <1>4, <1>5, <1>6, <1>7, <1>8
     DEF Next, HostStep, HostCall, WorkerStep, FileMakerSQL, Download, QueueSql, QueueFailure,
         QueueResult, ExitWorker, Terminated, vars

(* List does not show a task whose result was there before the call.        *)
THEOREM ListsAreFresh == Spec => []ListIsFresh
<1>1. Init => ListInv
  BY DEF Init, ListInv, ListIsFresh
<1>2. ListInv => ListIsFresh
  BY DEF ListInv
<1>3. QED
  BY <1>1, <1>2, InvInit, InvStep, ListStep, PTL DEF Spec

\* The outcome of the latest Add, until the next one has issued its id.
OutcomeInv ==
    host \in {"ready", "draining"} /\ new_id # 0 =>
        /\ add_outcome = "ok" => worker[new_id] # "none"
        /\ add_outcome = "error" /\ worker[new_id] # "none" =>
               worker[new_id] = "done" /\ curl_error[new_id] = "failed"

\* Every step keeps the outcome of the latest Add explained.
LEMMA OutcomeStep == Inv /\ OutcomeInv /\ [Next]_vars => OutcomeInv'
<1> SUFFICES ASSUME Inv, OutcomeInv, [Next]_vars PROVE OutcomeInv'
  OBVIOUS
<1> USE DEF hostVars, taskVars, queueVars, sqlVars, curlVars
<1>1. TypeOK /\ WorkersAreIssued
  BY DEF Inv, TypeInv
<1>2. CASE FailToBuildTask
  <2>1. PICK id \in TaskId : IssueId(id)
    BY <1>2 DEF FailToBuildTask
  <2>2. id \notin background_tasks
    BY <2>1, NextIdIsNew DEF IssueId, Inv
  <2>3. new_id' = id /\ worker' = worker /\ worker[id] = "none" /\ add_outcome' = "error"
    BY <1>1, <1>2, <2>1, <2>2 DEF FailToBuildTask, IssueId, WorkersAreIssued
  <2>4. QED
    BY <2>3 DEF OutcomeInv
<1>3. CASE FailToSpawn
  BY <1>1, <1>3 DEF FailToSpawn, WorkersAreIssued, OutcomeInv
<1>4. CASE ReturnFromAdd
  <2>1. /\ host = "returning" /\ UNCHANGED <<new_id, worker, curl_error>>
        /\ worker[new_id] # "none"
    BY <1>1, <1>4 DEF ReturnFromAdd, WorkersAreIssued
  <2>2. \/ worker[new_id] = "done" /\ add_outcome' = IF curl_error[new_id] = "ok" THEN "ok" ELSE "error"
        \/ add_outcome' = "ok"
    BY <1>4 DEF ReturnFromAdd, HostIsLastHolder
  <2>3. new_id # 0 => curl_error[new_id] \in {"ok", "failed"}
    BY <1>1 DEF TypeOK
  <2>4. QED
    BY <2>1, <2>2, <2>3 DEF OutcomeInv
<1>5. CASE BuildTask \/ SpawnWorker \/ UnloadPlugin
  BY <1>5 DEF BuildTask, SpawnWorker, UnloadPlugin, OutcomeInv
<1>6. ASSUME NEW id \in TaskId, WorkerStep(id) PROVE OutcomeInv'
  <2>1. /\ UNCHANGED <<host, new_id, add_outcome>>
        /\ worker[id] \in Live
        /\ \E w \in {"downloaded", "queued", "done"} : worker' = [worker EXCEPT ![id] = w]
        /\ \A j \in TaskId : j # id => curl_error'[j] = curl_error[j]
    BY <1>1, <1>6 DEF WorkerStep, Download, QueueSql, QueueFailure, ExitWorker, Live, TypeOK
  <2>2. \A j \in TaskId : /\ worker[j] # "none" <=> worker'[j] # "none"
                          /\ j # id => worker'[j] = worker[j]
    BY <1>1, <2>1 DEF Live, TypeOK
  <2>3. new_id # 0 => new_id \in TaskId
    BY <1>1 DEF TypeOK
  <2>4. QED
    BY <2>1, <2>2, <2>3 DEF OutcomeInv, Live
<1>7. CASE UNCHANGED <<new_id, add_outcome, worker, curl_error>> /\ host \in {"ready", "draining"}
  BY <1>7 DEF OutcomeInv
<1>8. CASE UNCHANGED vars
  BY <1>8 DEF OutcomeInv, vars
<1>9. QED
  BY <1>2, <1>3, <1>4, <1>5, <1>6, <1>7, <1>8
     DEF Next, HostStep, HostCall, StartAdd, StartList, StartIdle, Begin, DrainTask, Drained,
         ReturnFromList, ReturnFromIdle, FileMakerSQL, Terminated

(* After success of Add its task was started, and an error of a task that   *)
(* did start is the error of its transfer.                                  *)
THEOREM AddOutcomes == Spec => []AddOutcomeExplained
<1>1. Init => OutcomeInv
  BY DEF Init, OutcomeInv
<1>2. OutcomeInv => AddOutcomeExplained
  BY DEF OutcomeInv, AddOutcomeExplained
<1>3. QED
  BY <1>1, <1>2, InvInit, InvStep, OutcomeStep, PTL DEF Spec

=============================================================================
