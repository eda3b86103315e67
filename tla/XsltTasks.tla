------------------------------- MODULE XsltTasks -------------------------------
(***************************************************************************)
(* BE_XSLT_Apply with several pairs of a stylesheet and an output path.    *)
(* xslt_task starts a thread for the first pair and calls itself for the   *)
(* rest, so that all threads run at once; the frames then return from the  *)
(* innermost one outwards.  Without a script each frame joins its thread   *)
(* and takes its result from a promise; with one the threads are detached, *)
(* and each starts the script when it is done.  The promise is a local     *)
(* variable of the frame and the thread has a reference to it.             *)
(*                                                                         *)
(* Abstracted: the transformation is libxslt's; a result is the number of  *)
(* its pair.  Frame i works on pair i.                                     *)
(***************************************************************************)
EXTENDS Integers, Sequences

CONSTANT MaxPairs   \* bound on the pairs of one call

ASSUME MaxPairsAssumption == MaxPairs \in Nat \ {0}

Pair == 1..MaxPairs

VARIABLES
    pairs,      \* how many pairs there are
    script,     \* whether a script is named
    paths,      \* the pairs with an output path
    stylesheets,\* the pairs with a stylesheet
    phase,      \* where the calling thread is
    depth,      \* the frame it is in
    worker,     \* where the thread of each pair is
    promise,    \* what each promise has been given
    response,   \* task_response.second of the frame that returned last
    error,      \* task_response.first of that frame
    started_scripts,
    (* History variables, read by properties only. *)
    lost_scripts,\* the pairs whose script was asked for and did not start
    dangling    \* the pairs whose promise was used after its frame had returned

call == <<pairs, script, paths, stylesheets>>
scripts == <<started_scripts, lost_scripts>>
vars == <<call, phase, depth, worker, promise, response, error, scripts, dangling>>

TypeOK ==
    /\ pairs \in Pair
    /\ script \in BOOLEAN
    /\ paths \subseteq Pair
    /\ stylesheets \subseteq Pair
    /\ phase \in {"calling", "finishing", "returned", "failed", "terminated"}
    /\ depth \in 0..pairs
    /\ depth = 0 => phase = "returned"
    /\ worker \in [Pair -> {"none", "running", "transformed", "ending", "ended"}]
    /\ promise \in [Pair -> {"none", "result", "missing"}]
    /\ response \in Seq(Pair)
    /\ error \in {"none", "missing", "unknown"}
    /\ started_scripts \subseteq Pair
    /\ lost_scripts \subseteq Pair
    /\ dangling \subseteq Pair

Init ==
    /\ pairs \in Pair
    /\ script \in BOOLEAN
    /\ paths \in SUBSET (1..pairs)
    /\ stylesheets \in SUBSET (1..pairs)
    /\ phase = "calling"
    /\ depth = 1
    /\ worker = [i \in Pair |-> "none"]
    /\ promise = [i \in Pair |-> "none"]
    /\ response = <<>>
    /\ error = "none"
    /\ started_scripts = {}
    /\ lost_scripts = {}
    /\ dangling = {}

-----------------------------------------------------------------------------
(* The calling thread: one frame of xslt_task for each pair. *)

FrameLives(i) == phase \in {"calling", "finishing"} /\ i <= depth

\* Mutant: the loop looks for a pair after the last one.
MorePairsThanThereAre == depth <= pairs

\* Both vectors still have elements; the inner frame takes all of them, so
\* that the loop runs at most once.
MorePairs == depth < pairs

StartThread ==
    /\ phase = "calling"
    /\ worker' = [worker EXCEPT ![depth] = "running"]
    /\ IF MorePairs
       THEN depth' = depth + 1 /\ UNCHANGED phase
       ELSE phase' = "finishing" /\ UNCHANGED depth
    /\ UNCHANGED <<call, promise, response, error, scripts, dangling>>

\* The constructor of std::thread throws.  In an inner frame the exception
\* destroys the joinable thread of the frame around it: std::terminate.
FailToStartThread ==
    /\ phase = "calling"
    /\ phase' = IF depth = 1 THEN "failed" ELSE "terminated"
    /\ error' = IF depth = 1 THEN "unknown" ELSE error
    /\ UNCHANGED <<call, depth, worker, promise, response, scripts, dangling>>

LeaveFrame ==
    /\ depth' = depth - 1
    /\ phase' = IF depth = 1 THEN "returned" ELSE phase

\* Mutant: the frame's own error takes the place of the inner ones.
LatestError(inner, own) == own

\* The first error wins, and the inner frames are first.
FirstError(inner, own) == IF inner = "none" THEN own ELSE inner

\* task.join (), then the future's value.
JoinThread ==
    /\ phase = "finishing"
    /\ ~ script
    /\ worker[depth] = "ended"
    /\ promise[depth] # "none"
    /\ IF promise[depth] = "missing"
       THEN error' = FirstError(error, "missing") /\ UNCHANGED response
       ELSE error' = FirstError(error, "none") /\ response' = Append(response, depth)
    /\ LeaveFrame
    /\ UNCHANGED <<call, worker, promise, scripts, dangling>>

\* Mutant: the thread is waited for although there is a script.
DetachWhenEnded(i) == worker[i] = "ended"

\* task.detach () does not wait.
MayDetach(i) == TRUE

DetachThread ==
    /\ phase = "finishing"
    /\ script
    /\ MayDetach(depth)
    /\ LeaveFrame
    /\ UNCHANGED <<call, worker, promise, response, error, scripts, dangling>>

-----------------------------------------------------------------------------
(* The thread of pair i. *)

Alive == phase # "terminated"

\* Only a pair with a stylesheet and no path is refused.
Accepted(i) == i \in paths \/ i \notin stylesheets

SetPromise(i, value) ==
    /\ promise' = [promise EXCEPT ![i] = value]
    /\ dangling' = IF FrameLives(i) THEN dangling ELSE dangling \cup {i}

Transform(i) ==
    /\ Alive
    /\ worker[i] = "running"
    /\ Accepted(i)
    /\ worker' = [worker EXCEPT ![i] = "transformed"]
    /\ UNCHANGED <<call, phase, depth, promise, response, error, scripts, dangling>>

\* kErrorParameterMissing; with a script nobody hears of it.
RefusePair(i) ==
    /\ Alive
    /\ worker[i] = "running"
    /\ ~ Accepted(i)
    /\ SetPromise(i, "missing")
    /\ worker' = [worker EXCEPT ![i] = "ending"]
    /\ UNCHANGED <<call, phase, depth, response, error, scripts>>

\* Mutant: the result is stored in either case.
StoresResultAlways == TRUE

\* The result is for the caller, or else the script is started.
StoresResult == ~ script

\* FMX_StartScript, or what comes before it, may fail, and the thread does not
\* look at the error: nothing tells the user that the script is lost.
ExecuteScript(i) ==
    \/ started_scripts' = started_scripts \cup {i} /\ UNCHANGED lost_scripts
    \/ lost_scripts' = lost_scripts \cup {i} /\ UNCHANGED started_scripts

HandOver(i) ==
    /\ Alive
    /\ worker[i] = "transformed"
    /\ IF StoresResult THEN SetPromise(i, "result") ELSE UNCHANGED <<promise, dangling>>
    /\ IF script THEN ExecuteScript(i) ELSE UNCHANGED scripts
    /\ worker' = [worker EXCEPT ![i] = "ending"]
    /\ UNCHANGED <<call, phase, depth, response, error>>

EndThread(i) ==
    /\ Alive
    /\ worker[i] = "ending"
    /\ worker' = [worker EXCEPT ![i] = "ended"]
    /\ UNCHANGED <<call, phase, depth, promise, response, error, scripts, dangling>>

-----------------------------------------------------------------------------
Caller == StartThread \/ FailToStartThread \/ JoinThread \/ DetachThread

Thread(i) == Transform(i) \/ RefusePair(i) \/ HandOver(i) \/ EndThread(i)

Next == Caller \/ \E i \in Pair : Thread(i)

Spec == Init /\ [][Next]_vars

\* The host runs the calling thread; how long a transformation takes is open.
FairSpec == Spec /\ WF_vars(Caller)

-----------------------------------------------------------------------------
CallIsOver == phase \in {"returned", "failed", "terminated"}

(* Without a script a call that returns has waited for all of its threads, *)
(* and has the result of every accepted pair exactly once, the last pair's *)
(* first; it reports an error if and only if a pair was refused (xslt_task *)
(* over its whole recursion).                                              *)
ResultIsComplete ==
    (phase = "returned" /\ ~ script) =>
        /\ \A i \in 1..pairs : worker[i] = "ended"
        /\ {response[k] : k \in 1..Len(response)} = {i \in 1..pairs : Accepted(i)}
        /\ \A j, k \in 1..Len(response) : j < k => response[j] > response[k]
        /\ error = "missing" <=> \E i \in 1..pairs : ~ Accepted(i)

(* A detached thread that has done its work does not touch the promise of  *)
(* its frame, which may have returned: it asks for its script, once, and    *)
(* the script starts or is lost without a word.  A script is asked for by   *)
(* the accepted pairs and by no other.  The one promise that is used after  *)
(* its frame has returned is a known defect of the code and not excluded    *)
(* here: that of a pair refused while a script is named, whose detached     *)
(* thread still reports kErrorParameterMissing to it.                       *)
DetachedThreadsAreOnTheirOwn ==
    /\ \A i \in dangling : script /\ ~ Accepted(i)
    /\ started_scripts \cap lost_scripts = {}
    /\ \A i \in Pair : worker[i] = "ended" =>
           (i \in started_scripts \cup lost_scripts <=> script /\ Accepted(i))

FrameStands(i) == ~ CallIsOver /\ (phase = "calling" \/ i <= depth)

\* How many steps the thread of a pair still takes.
StepsOfThread(w) ==
    [none |-> 4, running |-> 3, transformed |-> 2, ending |-> 1, ended |-> 0][w]

\* Step 0 of a pair is the return of its frame, the others are its thread's.
StepsLeft ==
    {s \in (1..pairs) \X (0..4) :
        IF s[2] = 0 THEN FrameStands(s[1]) ELSE s[2] <= StepsOfThread(worker[s[1]])}

(* Every step of the caller or of a thread uses up a part of what is left  *)
(* to do and adds nothing to it: the recursion ends with the last pair, no *)
(* pair is started twice, and a call with n pairs is over after at most 5n *)
(* steps, so that it can only hang by waiting (xslt_task, whose vectors    *)
(* shrink by one pair in each frame).                                      *)
EveryStepIsProgress == [][StepsLeft' \subseteq StepsLeft /\ StepsLeft' # StepsLeft]_vars

(* With a script the call returns whatever the threads do; without one it  *)
(* returns if they all end (task.detach and task.join).                    *)
CallReturns ==
    (script \/ <>[](\A i \in 1..pairs : worker[i] \in {"none", "ended"})) => <>CallIsOver

=============================================================================
