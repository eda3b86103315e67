---------------------------- MODULE ProgressDialog ----------------------------
(***************************************************************************)
(* The progress dialog of a transfer for which a script has switched       *)
(* CURLOPT_NOPROGRESS off.  libcurl calls progress_dialog again and again; *)
(* the callback decides with a static flag, one for all threads, whether   *)
(* to open the dialog or to update it, and aborts the transfer when that   *)
(* fails.  The dialog itself is one per thread on Windows and one for the  *)
(* application on the Mac, and scripts use it too.  Transfers run on the   *)
(* host's thread and on the threads of background tasks, whose options are *)
(* those of the thread that added them.                                    *)
(*                                                                         *)
(* Abstracted: what the dialog says; why libcurl or the server end a       *)
(* transfer; sizes are small numbers, and the range of a 32-bit long is    *)
(* LongRange.  A redirect counts as a transfer of its own.                 *)
(***************************************************************************)
EXTENDS Integers

CONSTANTS
    Host,           \* the thread that runs scripts
    Workers,        \* the threads of background tasks
    MaxSize,        \* bound on sizes and on the numbers a script passes
    LongRange,      \* 2^32 on Windows, where a long has 32 bits
    MaxTransfers    \* bound on the transfers started

ASSUME HostAssumption == Host \notin Workers
ASSUME BoundAssumption == MaxSize \in Nat /\ MaxTransfers \in Nat
ASSUME LongRangeAssumption == LongRange \in Nat \ {0}

Threads == {Host} \cup Workers
Size == 0..MaxSize

VARIABLES
    platform,
    visible,    \* static bool visible of progress_dialog
    dialog,     \* the dialog object, where there is one
    state,      \* where a thread's transfer is
    transfer,   \* what libcurl passes to the callback
    callback,   \* the callback's local variables
    started,
    (* History variables, read by properties only. *)
    plain,      \* the latest transfer had the dialog for itself, see StartTransfer
    outcome,    \* how the latest transfer ended
    orderly,    \* so far downloads of known size ran one at a time, none failed, and
                \* scripts left the dialog of a running one alone
    intruded    \* a callback has updated a dialog that a script opened

transfers == <<state, transfer, callback, started>>
history == <<plain, outcome, orderly, intruded>>
vars == <<platform, visible, dialog, transfers, history>>

\* thread_local on Windows, one global on the Mac.
Slot(t) == IF platform = "windows" THEN t ELSE Host

NoDialog == [by |-> "nobody", maximum |-> 0, can_cancel |-> FALSE, cancelled |-> FALSE]
Dialog == [by : {"script", "transfer"}, maximum : Size, can_cancel : BOOLEAN, cancelled : BOOLEAN]
Transfer == [size : Size,       \* dltotal, once the header has come; 0: unknown
             header : BOOLEAN,
             dlnow : Size,
             ultotal : Size,
             ulnow : Size]
NoTransfer == [size |-> 0, header |-> FALSE, dlnow |-> 0, ultotal |-> 0, ulnow |-> 0]
NoCallback == [completed |-> FALSE, error |-> "none"]
Errors == {"none", "unavailable", "missing", "in_use", "cancelled", "system"}

TypeOK ==
    /\ platform \in {"windows", "mac", "none"}
    /\ visible \in BOOLEAN
    /\ dialog \in [Threads -> Dialog \cup {NoDialog}]
    /\ \A t \in Threads : dialog[t].by = "transfer" => ~ dialog[t].cancelled
    /\ state \in [Threads -> {"idle", "running", "callback"}]
    /\ transfer \in [Threads -> Transfer]
    /\ callback \in [Threads -> [completed : BOOLEAN, error : Errors]]
    /\ started \in 0..MaxTransfers
    /\ plain \in [Threads -> BOOLEAN]
    /\ outcome \in [Threads -> {"none", "done", "failed", "aborted"}]
    /\ orderly \in BOOLEAN
    /\ intruded \in BOOLEAN

Init ==
    /\ platform \in {"windows", "mac", "none"}
    /\ visible = FALSE
    /\ dialog = [t \in Threads |-> NoDialog]
    /\ state = [t \in Threads |-> "idle"]
    /\ transfer = [t \in Threads |-> NoTransfer]
    /\ callback = [t \in Threads |-> NoCallback]
    /\ started = 0
    /\ plain = [t \in Threads |-> FALSE]
    /\ outcome = [t \in Threads |-> "none"]
    /\ orderly = TRUE
    /\ intruded = FALSE

-----------------------------------------------------------------------------
(* The dialog of the platform.  Linux and iOS have none. *)

\* unsigned long and DWORD have 32 bits on Windows.
AsLong(n) == IF platform = "windows" THEN n % LongRange ELSE n

\* On the Mac a window that the user closed makes room for another.
InUse(s) ==
    /\ dialog[s] # NoDialog
    /\ ~ (platform = "mac" /\ dialog[s].cancelled)

\* DisplayProgressDialog; what fails on Windows may leave the object behind.
DisplayProgressDialog(s, new, error) ==
    \/ /\ platform = "none"
       /\ error = "unavailable"
       /\ UNCHANGED dialog
    \/ /\ platform # "none" /\ InUse(s)
       /\ error = "in_use"
       /\ UNCHANGED dialog
    \/ /\ platform # "none" /\ ~ InUse(s)
       /\ \/ error = "none" /\ dialog' = [dialog EXCEPT ![s] = new]
          \/ error = "system" /\ dialog' = [dialog EXCEPT ![s] = NoDialog]
          \/ platform = "windows" /\ error = "system" /\ dialog' = [dialog EXCEPT ![s] = new]

\* UpdateProgressDialog: a value past the maximum closes the dialog.
UpdateProgressDialog(s, value, error) ==
    \/ /\ platform = "none"
       /\ error = "unavailable"
       /\ UNCHANGED dialog
    \/ /\ platform # "none" /\ dialog[s] = NoDialog
       /\ error = "missing"
       /\ UNCHANGED dialog
    \/ /\ platform # "none" /\ dialog[s] # NoDialog /\ dialog[s].cancelled
       /\ error = "cancelled"
       /\ dialog' = [dialog EXCEPT ![s] = NoDialog]
    \/ /\ platform # "none" /\ dialog[s] # NoDialog /\ ~ dialog[s].cancelled
       /\ \/ /\ AsLong(value) > dialog[s].maximum
             /\ error = "none"
             /\ dialog' = [dialog EXCEPT ![s] = NoDialog]
          \/ /\ AsLong(value) <= dialog[s].maximum
             /\ error \in {"none", "system"}
             /\ error = "system" => platform = "windows"
             /\ UNCHANGED dialog

-----------------------------------------------------------------------------
(* The transfer, as libcurl and the server make it. *)

\* A download of known size, small enough for a long to hold one more.
Plain(size, up) ==
    /\ size > 0
    /\ up = 0
    /\ AsLong(size + 1) = size + 1

StartTransfer(t, size, up) ==
    /\ state[t] = "idle"
    /\ started < MaxTransfers
    /\ started' = started + 1
    /\ state' = [state EXCEPT ![t] = "running"]
    /\ transfer' = [transfer EXCEPT ![t] = [NoTransfer EXCEPT !.size = size, !.ultotal = up]]
    /\ outcome' = [outcome EXCEPT ![t] = "none"]
    /\ LET alone == \A u \in Threads : state[u] = "idle"
       IN  /\ plain' = [u \in Threads |-> /\ u = t
                                          /\ alone
                                          /\ Plain(size, up)
                                          /\ platform # "none"
                                          /\ ~ visible
                                          /\ dialog[Slot(t)] = NoDialog]
           /\ orderly' = (orderly /\ alone /\ Plain(size, up))
    /\ UNCHANGED <<platform, visible, dialog, callback, intruded>>

\* What libcurl may report next.
Advances(r) ==
    {[r EXCEPT !.header = header, !.dlnow = dlnow, !.ulnow = ulnow] :
        header \in {h \in BOOLEAN : r.header => h},
        dlnow \in {n \in r.dlnow..MaxSize : r.size > 0 => n <= r.size},
        ulnow \in r.ulnow..r.ultotal}

Reported(r) == {n \in Advances(r) : n.dlnow > 0 => n.header}

DownloadTotal(r) == IF r.header THEN r.size ELSE 0

Leave(t, how) ==
    /\ state' = [state EXCEPT ![t] = "idle"]
    /\ transfer' = [transfer EXCEPT ![t] = NoTransfer]
    /\ outcome' = [outcome EXCEPT ![t] = how]

\* The transfer is over, after a callback with the final numbers.
EndTransfer(t) ==
    /\ state[t] = "running"
    /\ transfer[t].header
    /\ transfer[t].size > 0 => transfer[t].dlnow = transfer[t].size
    /\ Leave(t, "done")
    /\ UNCHANGED <<platform, visible, dialog, callback, started, plain, orderly, intruded>>

\* The connection is lost or the server refuses: nothing tells the dialog.
FailTransfer(t) ==
    /\ state[t] = "running"
    /\ Leave(t, "failed")
    /\ orderly' = FALSE
    /\ UNCHANGED <<platform, visible, dialog, callback, started, plain, intruded>>

-----------------------------------------------------------------------------
(* progress_dialog, from the first reading of the flag to its writing. *)

Completed(r) == r.dlnow = DownloadTotal(r)

TotalBytes(r) == IF DownloadTotal(r) > 0 THEN DownloadTotal(r) ELSE r.ultotal

BytesSoFar(r) == IF r.dlnow > 0 THEN r.dlnow ELSE r.ulnow

\* Mutant: the last value is the maximum, which leaves the dialog open.
ValueAsItIs(r) == BytesSoFar(r)

\* One more than the maximum closes the dialog.
ProgressValue(r) == IF Completed(r) THEN BytesSoFar(r) + 1 ELSE BytesSoFar(r)

\* Mutant: the user may cancel, as BE_DialogProgress lets them.
OpenedWithCancel(r) == [NoDialog EXCEPT !.by = "transfer", !.can_cancel = TRUE,
                            !.maximum = AsLong(TotalBytes(r))]

\* The user cannot cancel it.
Opened(r) == [NoDialog EXCEPT !.by = "transfer", !.maximum = AsLong(TotalBytes(r))]

Callback(t, r, error) ==
    /\ state[t] = "running"
    /\ r \in Reported(transfer[t])
    /\ \/ /\ visible
          /\ UpdateProgressDialog(Slot(t), ProgressValue(r), error)
          /\ intruded' = (intruded \/ dialog[Slot(t)].by = "script")
       \/ (* The latest update is less than 200 ms old. *)
          visible /\ ~ Completed(r) /\ error = "none" /\ UNCHANGED <<dialog, intruded>>
       \/ /\ ~ visible /\ ~ Completed(r)
          /\ DisplayProgressDialog(Slot(t), Opened(r), error)
          /\ UNCHANGED intruded
       \/ ~ visible /\ Completed(r) /\ error = "none" /\ UNCHANGED <<dialog, intruded>>
    /\ transfer' = [transfer EXCEPT ![t] = r]
    /\ callback' = [callback EXCEPT ![t] = [completed |-> Completed(r), error |-> error]]
    /\ state' = [state EXCEPT ![t] = "callback"]
    /\ plain' = [plain EXCEPT ![t] = @ /\ error # "system"]
    /\ UNCHANGED <<platform, visible, started, outcome, orderly>>

\* Mutant: the flag does not depend on the outcome.
VisibleUnlessCompleted(c) == ~ c.completed

VisibleAfter(c) == IF c.completed THEN FALSE ELSE c.error = "none"

\* A callback that returns an error aborts the transfer.
ReturnFromCallback(t) ==
    /\ state[t] = "callback"
    /\ visible' = VisibleAfter(callback[t])
    /\ IF callback[t].error = "none"
       THEN /\ state' = [state EXCEPT ![t] = "running"]
            /\ UNCHANGED <<transfer, outcome>>
       ELSE Leave(t, "aborted")
    /\ callback' = [callback EXCEPT ![t] = NoCallback]
    /\ UNCHANGED <<platform, dialog, started, plain, orderly, intruded>>

-----------------------------------------------------------------------------
(* Scripts, and the user. *)

\* A script may use the dialog of a task's transfer.
BesideTransfers ==
    LET sharing == {t \in Threads : Slot(t) = Slot(Host)}
    IN  /\ plain' = [t \in Threads |-> plain[t] /\ t \notin sharing]
        /\ orderly' = (orderly /\ \A t \in sharing : state[t] = "idle")

\* BE_DialogProgress
ScriptDisplay(maximum, can_cancel, error) ==
    /\ state[Host] = "idle"
    /\ DisplayProgressDialog(Slot(Host), [NoDialog EXCEPT !.by = "script",
           !.maximum = maximum, !.can_cancel = can_cancel], error)
    /\ BesideTransfers
    /\ UNCHANGED <<platform, visible, transfers, outcome, intruded>>

\* BE_DialogProgressUpdate
ScriptUpdate(value, error) ==
    /\ state[Host] = "idle"
    /\ UpdateProgressDialog(Slot(Host), value, error)
    /\ BesideTransfers
    /\ UNCHANGED <<platform, visible, transfers, outcome, intruded>>

UserCancels(s) ==
    /\ dialog[s].can_cancel
    /\ dialog' = [dialog EXCEPT ![s].cancelled = TRUE]
    /\ UNCHANGED <<platform, visible, transfers, history>>

-----------------------------------------------------------------------------
Next ==
    \/ \E t \in Threads :
        \/ \E size, up \in Size : StartTransfer(t, size, up)
        \/ \E r \in Reported(transfer[t]), error \in Errors : Callback(t, r, error)
        \/ ReturnFromCallback(t)
        \/ EndTransfer(t)
        \/ FailTransfer(t)
        \/ UserCancels(t)
    \/ \E maximum \in Size, can_cancel \in BOOLEAN, error \in Errors :
           ScriptDisplay(maximum, can_cancel, error)
    \/ \E value \in Size, error \in Errors : ScriptUpdate(value, error)

Spec == Init /\ [][Next]_vars

-----------------------------------------------------------------------------
(* A download of known size that has the dialog for itself is not aborted   *)
(* by it, and when it is over the dialog is closed and the flag down        *)
(* (progress_dialog with UpdateProgressDialog).                             *)
PlainTransferRunsClean ==
    \A t \in Threads : plain[t] =>
        /\ outcome[t] # "aborted"
        /\ outcome[t] = "done" => ~ visible /\ dialog[Slot(t)] = NoDialog

(* As long as downloads of known size run one at a time, none fails and     *)
(* scripts leave their dialogs alone, no callback moves or closes a dialog  *)
(* that a script has opened: a transfer that finds one in its way is        *)
(* refused (DisplayProgressDialog).                                         *)
ScriptDialogIsLeftAlone == orderly => ~ intruded

=============================================================================
