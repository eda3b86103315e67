---------------------------- MODULE XsltTasksProofs ----------------------------
(* Proofs about XsltTasks, for any number of pairs. *)
EXTENDS XsltTasks, FiniteSets, SequenceTheorems, FiniteSetTheorems, TLAPS

\* Which frames and threads there are, by the phase of the calling thread.
FrameInv ==
    /\ phase # "returned" => depth \in 1..pairs
    /\ phase \in {"calling", "terminated"} => \A i \in Pair : i >= depth => worker[i] = "none"
    /\ phase = "failed" => \A i \in Pair : worker[i] = "none"
    /\ phase = "returned" => depth = 0
    /\ \A i \in Pair : worker[i] # "none" => i <= pairs

\* What a thread has done by the time it has reached a place.
ThreadInv ==
    \A i \in Pair :
        /\ worker[i] \in {"none", "running", "transformed"} =>
               promise[i] = "none" /\ i \notin started_scripts \cup lost_scripts
        /\ worker[i] = "transformed" => Accepted(i)
        /\ worker[i] \in {"ending", "ended"} =>
               /\ promise[i] = IF ~ Accepted(i) THEN "missing"
                               ELSE IF script THEN "none" ELSE "result"
               /\ i \in started_scripts \cup lost_scripts <=> script /\ Accepted(i)
        /\ ~ (i \in started_scripts /\ i \in lost_scripts)

\* Without a script the frames that have returned have joined their threads.
JoinInv ==
    /\ phase \in {"finishing", "returned"} /\ ~ script =>
           \A i \in 1..pairs : i > depth => worker[i] = "ended"
    /\ \A i \in dangling : script /\ ~ Accepted(i)

\* The results collected so far are those of the frames that have returned.
ResponseInv ==
    /\ phase = "calling" => response = <<>> /\ error = "none"
    /\ phase \in {"finishing", "returned"} /\ ~ script =>
           /\ {response[k] : k \in 1..Len(response)} = {i \in (depth + 1)..pairs : Accepted(i)}
           /\ \A j, k \in 1..Len(response) : j < k => response[j] > response[k]
           /\ error = IF \E i \in (depth + 1)..pairs : ~ Accepted(i) THEN "missing" ELSE "none"

Inv == FrameInv /\ ThreadInv /\ JoinInv /\ ResponseInv

-----------------------------------------------------------------------------
\* The types hold initially.
LEMMA TypeInit == Init => TypeOK
<1> SUFFICES ASSUME Init PROVE TypeOK
  OBVIOUS
<1>1. pairs \in Nat /\ pairs >= 1 /\ 1..pairs \subseteq Pair
  BY MaxPairsAssumption DEF Init, Pair
<1>2. <<>> \in Seq(Pair)
  OBVIOUS
<1>3. QED
  BY <1>1, <1>2 DEF Init, TypeOK

\* Every step keeps the types.
LEMMA TypeStep == TypeOK /\ FrameInv /\ [Next]_vars => TypeOK'
<1> SUFFICES ASSUME TypeOK, FrameInv, [Next]_vars PROVE TypeOK'
  OBVIOUS
<1> USE DEF TypeOK, FrameInv, call, scripts
<1>1. pairs \in Nat /\ pairs >= 1 /\ depth \in Nat /\ 1..pairs \subseteq Pair
  BY MaxPairsAssumption DEF Pair
<1>2. CASE StartThread
  BY <1>1, <1>2 DEF StartThread, MorePairs
<1>3. CASE FailToStartThread
  BY <1>1, <1>3 DEF FailToStartThread
<1>4. CASE JoinThread
  <2>1. depth \in Pair /\ depth \in 1..pairs /\ depth - 1 \in 0..pairs
    BY <1>1, <1>4 DEF JoinThread
  <2>2. response' \in Seq(Pair)
    BY <1>4, <2>1, AppendProperties DEF JoinThread
  <2>3. error' \in {"none", "missing", "unknown"}
    BY <1>4 DEF JoinThread, FirstError
  <2>4. depth' = depth - 1 /\ phase' = IF depth = 1 THEN "returned" ELSE phase
    BY <1>4 DEF JoinThread, LeaveFrame
  <2>5. depth' = 0 => phase' = "returned"
    BY <2>1, <2>4
  <2>6. QED
    BY <1>4, <2>1, <2>2, <2>3, <2>4, <2>5 DEF JoinThread
<1>5. CASE DetachThread
  BY <1>1, <1>5 DEF DetachThread, LeaveFrame
<1>6. ASSUME NEW i \in Pair, Transform(i) PROVE TypeOK'
  BY <1>6 DEF Transform
<1>7. ASSUME NEW i \in Pair, RefusePair(i) PROVE TypeOK'
  BY <1>7 DEF RefusePair, SetPromise
<1>8. ASSUME NEW i \in Pair, HandOver(i) PROVE TypeOK'
  BY <1>8 DEF HandOver, SetPromise, ExecuteScript
<1>9. ASSUME NEW i \in Pair, EndThread(i) PROVE TypeOK'
  BY <1>9 DEF EndThread
<1>10. CASE UNCHANGED vars
  BY <1>10 DEF vars, scripts
<1>11. QED
  BY <1>2, <1>3, <1>4, <1>5, <1>6, <1>7, <1>8, <1>9, <1>10 DEF Next, Caller, Thread

\* The invariant holds of the outermost frame.
LEMMA InvInit == Init => Inv
<1> SUFFICES ASSUME Init PROVE Inv
  OBVIOUS
<1>1. pairs \in Nat /\ pairs >= 1
  BY MaxPairsAssumption DEF Init, Pair
<1>2. FrameInv
  BY <1>1 DEF Init, FrameInv
<1>3. ThreadInv
  BY DEF Init, ThreadInv
<1>4. JoinInv /\ ResponseInv
  BY DEF Init, JoinInv, ResponseInv
<1>5. QED
  BY <1>2, <1>3, <1>4 DEF Inv

\* A thread changes only its own promise, after it was started.
LEMMA ThreadStep ==
    ASSUME TypeOK, Inv, NEW i \in Pair, Thread(i)
    PROVE  Inv'
<1> USE DEF TypeOK, Inv, call, scripts
<1>1. /\ UNCHANGED <<pairs, script, paths, stylesheets, phase, depth, response, error>>
      /\ phase # "terminated"
      /\ worker[i] \in {"running", "transformed", "ending"}
      /\ \E w \in {"transformed", "ending", "ended"} : worker' = [worker EXCEPT ![i] = w]
      /\ worker[i] = "ending" => worker'[i] = "ended"
  BY DEF Thread, Transform, RefusePair, HandOver, EndThread, SetPromise, Alive
<1>2. \A j \in Pair : (Accepted(j))' = Accepted(j)
  BY <1>1 DEF Accepted
<1>3. FrameInv'
  BY <1>1 DEF FrameInv
<1>4. ThreadInv'
  <2>1. CASE Transform(i)
    BY <1>2, <2>1 DEF Transform, ThreadInv
  <2>2. CASE RefusePair(i)
    BY <1>2, <2>2 DEF RefusePair, SetPromise, ThreadInv
  <2>3. CASE HandOver(i)
    BY <1>2, <2>3 DEF HandOver, StoresResult, SetPromise, ExecuteScript, ThreadInv
  <2>4. CASE EndThread(i)
    BY <1>2, <2>4 DEF EndThread, ThreadInv
  <2>5. QED
    BY <2>1, <2>2, <2>3, <2>4 DEF Thread
<1>5. FrameLives(i) \/ script
  <2>1. SUFFICES ASSUME ~ script PROVE phase \in {"calling", "finishing"} /\ i <= depth
    BY DEF FrameLives
  <2>2. i <= pairs /\ phase # "failed" /\ worker[i] # "ended" /\ i \in 1..pairs /\ depth \in Int
    BY <1>1 DEF FrameInv, Pair
  <2>3. phase = "calling" => i <= depth
    BY <1>1, <2>2 DEF FrameInv
  <2>4. phase \in {"finishing", "returned"} => i <= depth
    BY <2>1, <2>2 DEF JoinInv
  <2>5. phase # "returned"
    BY <2>2, <2>4 DEF FrameInv
  <2>6. QED
    BY <1>1, <2>2, <2>3, <2>4, <2>5
<1>6. JoinInv'
  <2>1. \A j \in dangling' : script /\ ~ Accepted(j)
    <3>1. CASE Transform(i) \/ EndThread(i)
      BY <3>1 DEF Transform, EndThread, JoinInv
    <3>2. CASE RefusePair(i)
      BY <1>5, <3>2 DEF RefusePair, SetPromise, JoinInv
    <3>3. CASE HandOver(i)
      BY <1>5, <3>3 DEF HandOver, StoresResult, SetPromise, JoinInv
    <3>4. QED
      BY <3>1, <3>2, <3>3 DEF Thread
  <2>2. \A j \in Pair : worker[j] = "ended" => worker'[j] = "ended"
    BY <1>1
  <2>3. pairs \in Nat /\ 1..pairs \subseteq Pair
    BY MaxPairsAssumption DEF Pair
  <2>4. phase \in {"finishing", "returned"} /\ ~ script =>
            \A j \in 1..pairs : j > depth => worker'[j] = "ended"
    BY <2>2, <2>3 DEF JoinInv
  <2>5. \A j \in dangling' : j \in Pair
    BY DEF Thread, Transform, RefusePair, HandOver, EndThread, SetPromise
  <2>6. \A j \in dangling' : script' /\ ~ (Accepted(j))'
    BY <1>1, <1>2, <2>1, <2>5
  <2>7. QED
    BY <1>1, <2>4, <2>6 DEF JoinInv
<1>7. ResponseInv'
  <2>1. pairs \in Nat /\ (depth + 1)..pairs \subseteq Pair
    BY MaxPairsAssumption DEF Pair
  <2>2. \A j \in (depth + 1)..pairs : (Accepted(j))' = Accepted(j)
    BY <1>2, <2>1
  <2>3. {j \in (depth + 1)..pairs : (Accepted(j))'} = {j \in (depth + 1)..pairs : Accepted(j)}
    BY <2>2
  <2>4. (\E j \in (depth + 1)..pairs : ~ (Accepted(j))')
            <=> \E j \in (depth + 1)..pairs : ~ Accepted(j)
    BY <2>2
  <2>5. QED
    BY <1>1, <2>3, <2>4 DEF ResponseInv
<1>8. QED
  BY <1>3, <1>4, <1>6, <1>7

\* The calling thread starts threads on its way in and joins or leaves them
\* on its way out.
LEMMA CallerStep ==
    ASSUME TypeOK, Inv, Caller
    PROVE  Inv'
<1> USE DEF TypeOK, Inv, call, scripts
<1>1. pairs \in Nat /\ pairs >= 1 /\ depth \in Nat /\ 1..pairs \subseteq Pair
  BY MaxPairsAssumption DEF Pair
<1>2. UNCHANGED <<pairs, script, paths, stylesheets, promise, started_scripts, lost_scripts, dangling>>
  BY DEF Caller, StartThread, FailToStartThread, JoinThread, DetachThread
<1>3. \A j \in Pair : (Accepted(j))' = Accepted(j)
  BY <1>2 DEF Accepted
<1>4. \A j \in dangling' : script' /\ ~ (Accepted(j))'
  BY <1>2, <1>3 DEF JoinInv
<1>5. CASE StartThread
  <2>1. /\ phase = "calling" /\ depth \in 1..pairs /\ depth \in Pair
        /\ worker' = [worker EXCEPT ![depth] = "running"]
        /\ UNCHANGED <<response, error>>
        /\ \/ depth < pairs /\ depth' = depth + 1 /\ phase' = "calling"
           \/ depth = pairs /\ phase' = "finishing" /\ depth' = depth
    BY <1>1, <1>5 DEF StartThread, MorePairs, FrameInv
  <2>2. FrameInv'
    BY <1>1, <1>2, <2>1 DEF FrameInv, Pair
  <2>3. ThreadInv'
    <3>1. worker[depth] = "none"
      BY <2>1 DEF FrameInv, Pair
    <3>2. QED
      BY <1>2, <1>3, <2>1, <3>1 DEF ThreadInv
  <2>4. JoinInv'
    BY <1>1, <1>2, <1>4, <2>1 DEF JoinInv
  <2>5. ResponseInv'
    <3>1. response = <<>> /\ error = "none"
      BY <2>1 DEF ResponseInv
    <3>2. CASE phase' = "calling"
      BY <2>1, <3>1, <3>2 DEF ResponseInv
    <3>3. CASE depth = pairs /\ phase' = "finishing" /\ depth' = depth
      <4>1. (depth + 1)..pairs = {} /\ Len(response) = 0
        BY <1>1, <3>1, <3>3
      <4>2. {response[k] : k \in 1..Len(response)} = {} /\ 1..Len(response) = {}
        BY <4>1
      <4>3. {j \in (depth' + 1)..pairs' : (Accepted(j))'} = {}
            /\ ~ \E j \in (depth' + 1)..pairs' : ~ (Accepted(j))'
        BY <1>2, <3>3, <4>1
      <4>4. QED
        BY <2>1, <3>1, <3>3, <4>2, <4>3 DEF ResponseInv
    <3>4. QED
      BY <2>1, <3>2, <3>3
  <2>6. QED
    BY <2>2, <2>3, <2>4, <2>5
<1>6. CASE FailToStartThread
  <2>1. /\ phase = "calling" /\ phase' \in {"failed", "terminated"}
        /\ phase' = "failed" => depth = 1
        /\ UNCHANGED <<depth, worker, response>>
    BY <1>6 DEF FailToStartThread
  <2>2. FrameInv'
    BY <1>1, <1>2, <2>1 DEF FrameInv, Pair
  <2>3. ThreadInv'
    BY <1>2, <1>3, <2>1 DEF ThreadInv
  <2>4. JoinInv' /\ ResponseInv'
    BY <1>4, <2>1 DEF JoinInv, ResponseInv
  <2>5. QED
    BY <2>2, <2>3, <2>4
\* The frame that returns, with or without a script.
<1>7. ASSUME JoinThread \/ DetachThread
      PROVE  /\ phase = "finishing" /\ depth \in 1..pairs /\ depth \in Pair
             /\ depth' = depth - 1 /\ depth' \in Nat
             /\ phase' \in {"finishing", "returned"} /\ (phase' = "returned" <=> depth' = 0)
             /\ UNCHANGED worker
             /\ FrameInv' /\ ThreadInv'
  <2>1. /\ phase = "finishing" /\ depth \in 1..pairs
        /\ depth' = depth - 1 /\ phase' = IF depth = 1 THEN "returned" ELSE phase
        /\ UNCHANGED worker
    BY <1>1, <1>7 DEF JoinThread, DetachThread, LeaveFrame, FrameInv
  <2>2. depth' \in Nat /\ (phase' = "returned" <=> depth' = 0) /\ phase' \in {"finishing", "returned"}
    BY <1>1, <2>1
  <2>3. FrameInv'
    BY <1>1, <1>2, <2>1, <2>2 DEF FrameInv
  <2>4. ThreadInv'
    BY <1>2, <1>3, <2>1 DEF ThreadInv
  <2>5. QED
    BY <1>1, <2>1, <2>2, <2>3, <2>4
<1>8. CASE JoinThread
  <2>1. ~ script /\ worker[depth] = "ended"
    BY <1>8 DEF JoinThread
  <2>2. \A j \in 1..pairs : j > depth - 1 => j = depth \/ j > depth
    BY <1>1
  <2>3. JoinInv'
    BY <1>2, <1>4, <1>7, <1>8, <2>1, <2>2 DEF JoinInv
  <2>4. promise[depth] = IF Accepted(depth) THEN "result" ELSE "missing"
    BY <1>7, <1>8, <2>1 DEF ThreadInv
  <2>5. (depth' + 1)..pairs' = {depth} \cup ((depth + 1)..pairs)
    BY <1>1, <1>2, <1>7, <1>8
  <2>6. \A j \in (depth + 1)..pairs : (Accepted(j))' = Accepted(j)
    BY <1>1, <1>3 DEF Pair
  <2>7. /\ {response[k] : k \in 1..Len(response)} = {j \in (depth + 1)..pairs : Accepted(j)}
        /\ \A j, k \in 1..Len(response) : j < k => response[j] > response[k]
        /\ error = IF \E j \in (depth + 1)..pairs : ~ Accepted(j) THEN "missing" ELSE "none"
    BY <1>7, <1>8, <2>1 DEF ResponseInv
  <2>8. error' = IF \E j \in (depth' + 1)..pairs' : ~ (Accepted(j))' THEN "missing" ELSE "none"
    <3>1. error' = IF error = "none" /\ ~ Accepted(depth) THEN "missing" ELSE error
      BY <1>8, <2>4 DEF JoinThread, FirstError
    <3>2. (\E j \in (depth' + 1)..pairs' : ~ (Accepted(j))')
              <=> ~ Accepted(depth) \/ \E j \in (depth + 1)..pairs : ~ Accepted(j)
      BY <1>3, <1>7, <1>8, <2>5, <2>6
    <3>3. QED
      BY <2>7, <3>1, <3>2
  <2>9. /\ {response'[k] : k \in 1..Len(response')} = {j \in (depth' + 1)..pairs' : (Accepted(j))'}
        /\ \A j, k \in 1..Len(response') : j < k => response'[j] > response'[k]
    <3>1. CASE ~ Accepted(depth)
      <4>1. response' = response
        BY <1>8, <2>4, <3>1 DEF JoinThread
      <4>2. {j \in (depth' + 1)..pairs' : (Accepted(j))'} = {j \in (depth + 1)..pairs : Accepted(j)}
        BY <1>3, <1>7, <1>8, <2>5, <2>6, <3>1
      <4>3. QED
        BY <2>7, <4>1, <4>2
    <3>2. CASE Accepted(depth)
      <4> DEFINE n == Len(response)
      <4>1. response' = Append(response, depth)
        BY <1>8, <2>4, <3>2 DEF JoinThread
      <4>2. /\ n \in Nat /\ Len(response') = n + 1
            /\ \A k \in 1..n : response'[k] = response[k]
            /\ response'[n + 1] = depth
        BY <1>7, <1>8, <4>1, AppendProperties, LenProperties
      <4>3. \A k \in 1..n : response[k] > depth
        <5>1. \A k \in 1..n : response[k] \in {j \in (depth + 1)..pairs : Accepted(j)}
          BY <2>7
        <5>2. \A j \in (depth + 1)..pairs : j > depth
          BY <1>1
        <5>3. QED
          BY <5>1, <5>2
      <4>4. \A k \in 1..(n + 1) : k \in 1..n \/ k = n + 1
        BY <4>2
      <4>5. 1..n \subseteq 1..(n + 1) /\ n + 1 \in 1..(n + 1)
        BY <4>2
      <4>6. {j \in (depth' + 1)..pairs' : (Accepted(j))'}
                = {j \in (depth + 1)..pairs : Accepted(j)} \cup {depth}
        BY <1>3, <1>7, <1>8, <2>5, <2>6, <3>2
      <4> HIDE DEF n
      <4>7. {response'[k] : k \in 1..(n + 1)} = {response[k] : k \in 1..n} \cup {depth}
        BY <4>2, <4>4, <4>5
      <4>8. \A j, k \in 1..(n + 1) : j < k => response'[j] > response'[k]
        <5>1. SUFFICES ASSUME NEW j \in 1..(n + 1), NEW k \in 1..(n + 1), j < k
                       PROVE  response'[j] > response'[k]
          OBVIOUS
        <5>2. j \in 1..n
          BY <4>2, <5>1
        <5>3. CASE k = n + 1
          BY <4>2, <4>3, <5>2, <5>3
        <5>4. CASE k \in 1..n
          BY <2>7, <4>2, <5>1, <5>2, <5>4 DEF n
        <5>5. QED
          BY <4>4, <5>3, <5>4
      <4>9. QED
        BY <2>7, <4>2, <4>6, <4>7, <4>8 DEF n
    <3>3. QED
      BY <3>1, <3>2
  <2>10. ResponseInv'
    BY <1>7, <1>8, <2>8, <2>9 DEF ResponseInv
  <2>11. QED
    BY <1>7, <1>8, <2>3, <2>10
<1>9. CASE DetachThread
  <2>1. script' /\ JoinInv'
    BY <1>2, <1>4, <1>9 DEF DetachThread, JoinInv
  <2>2. ResponseInv'
    BY <1>7, <1>9, <2>1 DEF ResponseInv
  <2>3. QED
    BY <1>7, <1>9, <2>1, <2>2
<1>10. QED
  BY <1>5, <1>6, <1>8, <1>9 DEF Caller

\* Every step keeps the invariant.
LEMMA InvStep == TypeOK /\ Inv /\ [Next]_vars => Inv'
<1> SUFFICES ASSUME TypeOK, Inv, [Next]_vars PROVE Inv'
  OBVIOUS
<1>1. CASE UNCHANGED vars
  <2>1. \A j \in Pair : (Accepted(j))' = Accepted(j)
    BY <1>1 DEF vars, call, Accepted
  <2>2. FrameInv' /\ ThreadInv'
    BY <1>1, <2>1 DEF vars, call, scripts, Inv, FrameInv, ThreadInv
  <2>3. JoinInv' /\ ResponseInv'
    BY <1>1 DEF vars, call, scripts, Inv, JoinInv, ResponseInv, Accepted
  <2>4. QED
    BY <2>2, <2>3 DEF Inv
<1>2. QED
  BY <1>1, CallerStep, ThreadStep DEF Next

\* Types and invariant together, since each needs the other.
LEMMA Always == Spec => [](TypeOK /\ Inv)
<1>1. TypeOK /\ Inv /\ [Next]_vars => (TypeOK /\ Inv)'
  BY TypeStep, InvStep DEF Inv
<1>2. QED
  BY <1>1, TypeInit, InvInit, PTL DEF Spec

(* The types of frames, threads and promises: the recursion of xslt_task    *)
(* never goes past the last pair.                                           *)
THEOREM XsltTypes == Spec => []TypeOK
BY Always, PTL

(* Without a script the call has waited for every thread and has every      *)
(* result once, the last pair's first, and an error if a pair was refused.  *)
THEOREM ResultComplete == Spec => []ResultIsComplete
<1>1. TypeOK /\ Inv => ResultIsComplete
  <2>1. SUFFICES ASSUME TypeOK, Inv, phase = "returned", ~ script
                 PROVE  /\ \A i \in 1..pairs : worker[i] = "ended"
                        /\ {response[k] : k \in 1..Len(response)} = {i \in 1..pairs : Accepted(i)}
                        /\ \A j, k \in 1..Len(response) : j < k => response[j] > response[k]
                        /\ error = "missing" <=> \E i \in 1..pairs : ~ Accepted(i)
    BY DEF ResultIsComplete
  <2>2. depth = 0 /\ depth + 1 = 1
    BY <2>1 DEF Inv, FrameInv
  <2>3. QED
    BY <2>1, <2>2 DEF Inv, JoinInv, ResponseInv
<1>2. QED
  BY <1>1, Always, PTL

(* A detached thread that has done its work leaves the promise alone and     *)
(* asks for its script once, whether or not the script then starts; only a   *)
(* pair that is refused while a script is named uses the promise of a frame  *)
(* that may have returned.                                                   *)
THEOREM DetachedThreads == Spec => []DetachedThreadsAreOnTheirOwn
<1>1. TypeOK /\ Inv => DetachedThreadsAreOnTheirOwn
  BY DEF TypeOK, Inv, ThreadInv, JoinInv, DetachedThreadsAreOnTheirOwn
<1>2. QED
  BY <1>1, Always, PTL

(* A future that is asked has its value: without a script, a thread that    *)
(* has ended has given its promise a value, so that task_reply.get never    *)
(* waits for, or throws for, a promise that was abandoned.                  *)
THEOREM FuturesAreReady ==
    Spec => [](\A i \in Pair : ~ script /\ worker[i] = "ended" => promise[i] # "none")
<1>1. Inv => \A i \in Pair : ~ script /\ worker[i] = "ended" => promise[i] # "none"
  BY DEF Inv, ThreadInv
<1>2. QED
  BY <1>1, Always, PTL

-----------------------------------------------------------------------------
(* The steps a call has left. *)

\* What each place of a thread still asks for.
LEMMA StepsPerPlace ==
    /\ StepsOfThread("none") = 4
    /\ StepsOfThread("running") = 3
    /\ StepsOfThread("transformed") = 2
    /\ StepsOfThread("ending") = 1
    /\ StepsOfThread("ended") = 0
BY DEF StepsOfThread

\* A step in which one thread moves on and no frame comes or goes.
LEMMA ThreadMovesOn ==
    ASSUME TypeOK, FrameInv, UNCHANGED pairs,
           NEW i \in 1..pairs, i \in Pair,
           NEW w, worker' = [worker EXCEPT ![i] = w],
           StepsOfThread(w) \in 0..3, StepsOfThread(worker[i]) \in 1..4,
           StepsOfThread(w) < StepsOfThread(worker[i]),
           \A j \in 1..pairs : (FrameStands(j))' => FrameStands(j)
    PROVE  StepsLeft' \subseteq StepsLeft /\ StepsLeft' # StepsLeft
<1> DEFINE n == StepsOfThread(w)  m == StepsOfThread(worker[i])
<1>1. /\ worker'[i] = w
      /\ \A j \in 1..pairs : j # i => worker'[j] = worker[j]
      /\ n \in 0..3 /\ m \in 1..4 /\ n < m
  BY MaxPairsAssumption DEF TypeOK, Pair
<1>2. \A j \in 1..pairs : \A k \in 0..4 :
          k <= (StepsOfThread(worker[j]))' => k <= StepsOfThread(worker[j])
  <2>1. SUFFICES ASSUME NEW j \in 1..pairs, NEW k \in 0..4, k <= (StepsOfThread(worker[j]))'
                 PROVE  k <= StepsOfThread(worker[j])
    OBVIOUS
  <2>2. CASE j = i
    <3>1. (StepsOfThread(worker[j]))' = n
      BY <1>1, <2>2 DEF StepsOfThread
    <3>2. QED
      BY <1>1, <2>1, <2>2, <3>1
  <2>3. CASE j # i
    BY <1>1, <2>1, <2>3 DEF StepsOfThread
  <2>4. QED
    BY <2>2, <2>3
<1>3. StepsLeft' \subseteq StepsLeft
  BY <1>2 DEF StepsLeft
<1>4. <<i, m>> \in StepsLeft
  BY <1>1 DEF StepsLeft
<1>5. <<i, m>> \notin StepsLeft'
  <2>1. (StepsOfThread(worker[i]))' = n
    BY <1>1 DEF StepsOfThread
  <2>2. m # 0 /\ ~ (m <= n)
    BY <1>1
  <2>3. QED
    BY <2>1, <2>2 DEF StepsLeft
<1>6. QED
  BY <1>3, <1>4, <1>5

\* A step in which a frame goes and no thread moves.
LEMMA FrameGoes ==
    ASSUME UNCHANGED <<pairs, worker>>,
           NEW i \in 1..pairs, FrameStands(i), ~ (FrameStands(i))',
           \A j \in 1..pairs : (FrameStands(j))' => FrameStands(j)
    PROVE  StepsLeft' \subseteq StepsLeft /\ StepsLeft' # StepsLeft
<1>1. <<i, 0>> \in StepsLeft /\ <<i, 0>> \notin StepsLeft'
  BY DEF StepsLeft
<1>2. \A j \in 1..pairs : (StepsOfThread(worker[j]))' = StepsOfThread(worker[j])
  BY DEF StepsOfThread
<1>3. StepsLeft' \subseteq StepsLeft
  BY <1>2 DEF StepsLeft
<1>4. QED
  BY <1>1, <1>3

\* Every step is one of the two.
LEMMA ProgressStep ==
    ASSUME TypeOK, Inv, Next
    PROVE  StepsLeft' \subseteq StepsLeft /\ StepsLeft' # StepsLeft
<1>1. /\ pairs \in Nat /\ pairs >= 1 /\ depth \in Nat /\ 1..pairs \subseteq Pair
      /\ FrameInv
      /\ phase # "returned" => depth \in 1..pairs
      /\ phase = "calling" => worker[depth] = "none"
      /\ \A i \in Pair : worker[i] # "none" => i \in 1..pairs
  BY MaxPairsAssumption DEF TypeOK, Inv, FrameInv, Pair
<1>2. CASE StartThread
  <2>1. /\ phase = "calling" /\ depth \in 1..pairs /\ worker[depth] = "none"
        /\ worker' = [worker EXCEPT ![depth] = "running"]
        /\ UNCHANGED pairs
        /\ phase' \in {"calling", "finishing"} /\ (phase' = "finishing" => depth' = depth)
        /\ depth = pairs \/ phase' = "calling"
    BY <1>1, <1>2 DEF StartThread, MorePairs, call
  <2>2. \A j \in 1..pairs : (FrameStands(j))' => FrameStands(j)
    BY <1>1, <2>1 DEF FrameStands, CallIsOver
  <2>3. PICK i \in 1..pairs : i = depth
    BY <2>1
  <2>4. PICK w \in {"running"} :
            /\ worker' = [worker EXCEPT ![i] = w]
            /\ StepsOfThread(w) \in 0..3 /\ StepsOfThread(worker[i]) \in 1..4
            /\ StepsOfThread(w) < StepsOfThread(worker[i])
    BY <2>1, <2>3, StepsPerPlace
  <2>5. i \in Pair /\ UNCHANGED pairs
    BY <1>1, <2>1
  <2>6. QED
    BY <1>1, <2>2, <2>4, <2>5, ThreadMovesOn
<1>3. CASE FailToStartThread
  <2>1. /\ phase = "calling" /\ phase' \in {"failed", "terminated"}
        /\ UNCHANGED <<pairs, depth, worker>> /\ depth \in 1..pairs
    BY <1>1, <1>3 DEF FailToStartThread, call
  <2>2. FrameStands(depth) /\ \A j \in 1..pairs : ~ (FrameStands(j))'
    BY <2>1 DEF FrameStands, CallIsOver
  <2>3. PICK i \in 1..pairs : i = depth
    BY <2>1
  <2>4. QED
    BY <2>1, <2>2, <2>3, FrameGoes
<1>4. CASE JoinThread \/ DetachThread
  <2>1. /\ phase = "finishing" /\ depth \in 1..pairs
        /\ depth' = depth - 1 /\ phase' = IF depth = 1 THEN "returned" ELSE phase
        /\ UNCHANGED <<pairs, worker>>
    BY <1>1, <1>4 DEF JoinThread, DetachThread, LeaveFrame, call
  <2>2. PICK i \in 1..pairs : i = depth
    BY <2>1
  <2>3. FrameStands(i) /\ ~ (FrameStands(i))'
    BY <1>1, <2>1, <2>2 DEF FrameStands, CallIsOver
  <2>4. \A j \in 1..pairs : (FrameStands(j))' => FrameStands(j)
    BY <1>1, <2>1 DEF FrameStands, CallIsOver
  <2>5. QED
    BY <2>1, <2>2, <2>3, <2>4, FrameGoes
<1>5. ASSUME NEW i \in Pair, Thread(i)
      PROVE  StepsLeft' \subseteq StepsLeft /\ StepsLeft' # StepsLeft
  <2>1. /\ UNCHANGED <<pairs, phase, depth>>
        /\ \/ worker[i] = "running" /\ worker' = [worker EXCEPT ![i] = "transformed"]
           \/ worker[i] = "running" /\ worker' = [worker EXCEPT ![i] = "ending"]
           \/ worker[i] = "transformed" /\ worker' = [worker EXCEPT ![i] = "ending"]
           \/ worker[i] = "ending" /\ worker' = [worker EXCEPT ![i] = "ended"]
    BY <1>5 DEF Thread, Transform, RefusePair, HandOver, EndThread, call
  <2>2. i \in 1..pairs
    BY <1>1, <1>5, <2>1
  <2>3. \A j \in 1..pairs : (FrameStands(j))' => FrameStands(j)
    BY <2>1 DEF FrameStands, CallIsOver
  <2>4. PICK w \in {"transformed", "ending", "ended"} :
            /\ worker' = [worker EXCEPT ![i] = w]
            /\ StepsOfThread(w) \in 0..3 /\ StepsOfThread(worker[i]) \in 1..4
            /\ StepsOfThread(w) < StepsOfThread(worker[i])
    BY <2>1, StepsPerPlace
  <2>5. QED
    BY <1>1, <1>5, <2>1, <2>2, <2>3, <2>4, ThreadMovesOn
<1>6. QED
  BY <1>2, <1>3, <1>4, <1>5 DEF Next, Caller

(* Every step of the caller or of a thread uses up a part of a fixed stock  *)
(* and adds nothing to it: the recursion of xslt_task comes to an end.      *)
THEOREM StepsAreProgress == Spec => EveryStepIsProgress
<1>1. TypeOK /\ Inv /\ [Next]_vars
          => [StepsLeft' \subseteq StepsLeft /\ StepsLeft' # StepsLeft]_vars
  BY ProgressStep
<1>2. QED
  BY <1>1, Always, PTL DEF Spec, EveryStepIsProgress

\* What is left is a finite set, of at most five steps for each pair.
LEMMA StockIsFinite ==
    ASSUME TypeOK
    PROVE  /\ IsFiniteSet(StepsLeft)
           /\ Cardinality(StepsLeft) \in 0..(5 * pairs)
<1>1. pairs \in Nat /\ pairs >= 1
  BY MaxPairsAssumption DEF TypeOK, Pair
<1>2. IsFiniteSet(1..pairs) /\ Cardinality(1..pairs) = pairs
  BY <1>1, FS_Interval
<1>3. IsFiniteSet(0..4) /\ Cardinality(0..4) = 5
  <2>1. 0 \in Int /\ 4 \in Int
    OBVIOUS
  <2>2. IsFiniteSet(0..4) /\ Cardinality(0..4) = IF 0 > 4 THEN 0 ELSE 4 - 0 + 1
    BY <2>1, FS_Interval, Zenon
  <2>3. QED
    BY <2>2
<1>4. /\ IsFiniteSet((1..pairs) \X (0..4))
      /\ Cardinality((1..pairs) \X (0..4)) = pairs * 5
  BY <1>2, <1>3, FS_Product
<1>5. StepsLeft \in SUBSET ((1..pairs) \X (0..4))
  BY DEF StepsLeft
<1>6. /\ IsFiniteSet(StepsLeft) /\ Cardinality(StepsLeft) \in Nat
      /\ Cardinality(StepsLeft) <= pairs * 5
  BY <1>4, <1>5, FS_Subset, FS_CardinalityType
<1>7. pairs * 5 = 5 * pairs
  BY <1>1
<1>8. QED
  BY <1>1, <1>6, <1>7

(* The number of steps left is at most five for each pair at any time, and  *)
(* every step makes it smaller: a call with n pairs is over, or waits for   *)
(* ever, after at most 5n steps.                                            *)
THEOREM CallsAreShort ==
    Spec => /\ [](Cardinality(StepsLeft) \in 0..(5 * pairs))
            /\ [][Cardinality(StepsLeft)' < Cardinality(StepsLeft)]_vars
<1>1. TypeOK => Cardinality(StepsLeft) \in 0..(5 * pairs)
  BY StockIsFinite
<1>2. TypeOK /\ TypeOK' /\ Inv /\ [Next]_vars
          => [Cardinality(StepsLeft)' < Cardinality(StepsLeft)]_vars
  <2>1. SUFFICES ASSUME TypeOK, TypeOK', Inv, Next
                 PROVE  Cardinality(StepsLeft)' < Cardinality(StepsLeft)
    OBVIOUS
  <2>2. StepsLeft' \in SUBSET StepsLeft /\ StepsLeft' # StepsLeft
    BY <2>1, ProgressStep
  <2>3. IsFiniteSet(StepsLeft) /\ Cardinality(StepsLeft) \in Int
    BY <2>1, StockIsFinite
  <2>4. Cardinality(StepsLeft') \in Int
    <3>1. IsFiniteSet(StepsLeft')
      BY <2>2, <2>3, FS_Subset
    <3>2. QED
      BY <3>1, FS_CardinalityType
  <2>5. Cardinality(StepsLeft') <= Cardinality(StepsLeft)
        /\ Cardinality(StepsLeft) # Cardinality(StepsLeft')
    BY <2>2, <2>3, FS_Subset
  <2>6. QED
    BY <2>3, <2>4, <2>5
<1>3. QED
  BY <1>1, <1>2, Always, PTL DEF Spec

=============================================================================
