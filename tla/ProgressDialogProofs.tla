-------------------------- MODULE ProgressDialogProofs --------------------------
(***************************************************************************)
(* Proofs about ProgressDialog: for any number of task threads, sizes of   *)
(* any magnitude and any width of a long, on every platform.               *)
(***************************************************************************)
EXTENDS ProgressDialog, TLAPS

-----------------------------------------------------------------------------
(* Numbers in a long. *)

\* The remainder is small, and a small number is its own remainder.
LEMMA Remainder ==
    ASSUME NEW n \in Nat, NEW m \in Nat \ {0}
    PROVE  n % m \in Nat /\ n % m < m /\ n % m <= n /\ (n < m => n % m = n)
<1>1. n % m \in Nat /\ n % m < m
  OBVIOUS
<1>2. ASSUME n < m PROVE n % m = n
  BY <1>2
<1>3. CASE n < m
  BY <1>1, <1>2, <1>3
<1>4. CASE ~ n < m
  BY <1>1, <1>4
<1>5. QED
  BY <1>3, <1>4

\* A size stays a size when it is cut to the width of a long.
LEMMA LongIsSize == ASSUME NEW n \in Size PROVE AsLong(n) \in Size
<1>1. n \in Nat /\ n <= MaxSize /\ MaxSize \in Nat
  BY BoundAssumption DEF Size
<1>2. n % LongRange \in Nat /\ n % LongRange <= n
  BY <1>1, LongRangeAssumption, Remainder
<1>3. n % LongRange \in Size
  BY <1>1, <1>2 DEF Size
<1>4. QED
  BY <1>3 DEF AsLong

\* Where a size and one more fit a long, everything below fits too.
LEMMA LongIsExact ==
    ASSUME NEW size \in Nat, AsLong(size + 1) = size + 1, NEW n \in Nat, n <= size + 1
    PROVE  AsLong(n) = n
<1>1. CASE platform = "windows"
  <2>1. (size + 1) % LongRange = size + 1
    BY <1>1 DEF AsLong
  <2>2. size + 1 < LongRange
    BY <2>1, LongRangeAssumption, Remainder
  <2>3. n < LongRange /\ n \in Nat
    BY <2>2, LongRangeAssumption
  <2>4. n % LongRange = n
    BY <2>3, LongRangeAssumption, Remainder
  <2>5. QED
    BY <2>4 DEF AsLong
<1>2. QED
  BY <1>1 DEF AsLong

-----------------------------------------------------------------------------
(* Types. *)

\* A transfer's own dialog cannot be cancelled, and so is never found so.
DialogTypes ==
    /\ dialog \in [Threads -> Dialog \cup {NoDialog}]
    /\ \A s \in Threads : dialog[s].by = "transfer" => ~ dialog[s].can_cancel /\ ~ dialog[s].cancelled

TransferTypes ==
    /\ state \in [Threads -> {"idle", "running", "callback"}]
    /\ transfer \in [Threads -> Transfer]
    /\ started \in 0..MaxTransfers
    /\ outcome \in [Threads -> {"none", "done", "failed", "aborted"}]

CallbackTypes == callback \in [Threads -> [completed : BOOLEAN, error : Errors]]

FlagTypes ==
    /\ visible \in BOOLEAN
    /\ plain \in [Threads -> BOOLEAN]
    /\ orderly \in BOOLEAN
    /\ intruded \in BOOLEAN

TypeInv ==
    /\ platform \in {"windows", "mac", "none"}
    /\ DialogTypes
    /\ TransferTypes
    /\ CallbackTypes
    /\ FlagTypes

\* The parts make up the type invariant of the model.
LEMMA TypesTogether == TypeInv => TypeOK
BY DEF TypeInv, TypeOK, DialogTypes, TransferTypes, CallbackTypes, FlagTypes

\* A thread's dialog is kept under the name of a thread.
LEMMA SlotType == ASSUME NEW t \in Threads PROVE Slot(t) \in Threads
BY DEF Slot, Threads

\* Where there is no dialog neither script nor transfer owns one.
LEMMA NoDialogIsNobodys == NoDialog.by = "nobody" /\ NoDialog \notin Dialog
BY DEF NoDialog, Dialog

\* Opening a dialog that is sound leaves sound dialogs.
LEMMA DisplayTypes ==
    ASSUME DialogTypes, NEW s \in Threads, NEW new \in Dialog, NEW error,
           new.by = "transfer" => ~ new.can_cancel /\ ~ new.cancelled,
           DisplayProgressDialog(s, new, error)
    PROVE  DialogTypes' /\ error \in Errors
<1>1. error \in Errors
  BY DEF DisplayProgressDialog, Errors
<1>2. \/ dialog' = dialog
      \/ dialog' = [dialog EXCEPT ![s] = new]
      \/ dialog' = [dialog EXCEPT ![s] = NoDialog]
  BY DEF DisplayProgressDialog
<1>3. QED
  BY <1>1, <1>2, NoDialogIsNobodys DEF DialogTypes

\* Updating a dialog leaves sound dialogs.
LEMMA UpdateTypes ==
    ASSUME DialogTypes, NEW s \in Threads, NEW value, NEW error,
           UpdateProgressDialog(s, value, error)
    PROVE  DialogTypes' /\ error \in Errors
<1>1. error \in Errors
  BY DEF UpdateProgressDialog, Errors
<1>2. \/ dialog' = dialog
      \/ dialog' = [dialog EXCEPT ![s] = NoDialog]
  BY DEF UpdateProgressDialog
<1>3. QED
  BY <1>1, <1>2, NoDialogIsNobodys DEF DialogTypes

\* What libcurl reports is of the transfer's type and goes only forward.
LEMMA ReportedType ==
    ASSUME NEW r \in Transfer, NEW n \in Reported(r)
    PROVE  /\ n \in Transfer
           /\ n.size = r.size /\ n.ultotal = r.ultotal
           /\ r.header => n.header
           /\ n.dlnow >= r.dlnow /\ (r.size > 0 => n.dlnow <= r.size)
           /\ n.dlnow > 0 => n.header
           /\ n.ulnow <= r.ultotal
<1>1. /\ r.size \in Nat /\ r.dlnow \in Nat /\ r.ultotal \in Nat /\ r.ulnow \in Nat
      /\ r.ultotal <= MaxSize /\ MaxSize \in Nat
  BY BoundAssumption DEF Transfer, Size
<1> DEFINE After(header, dlnow, ulnow) ==
               [r EXCEPT !.header = header, !.dlnow = dlnow, !.ulnow = ulnow]
           Headers == {h \in BOOLEAN : r.header => h}
           Sofar == {k \in r.dlnow..MaxSize : r.size > 0 => k <= r.size}
           Sent == r.ulnow..r.ultotal
<1>2. PICK header \in {h \in BOOLEAN : r.header => h},
           dlnow \in {k \in r.dlnow..MaxSize : r.size > 0 => k <= r.size},
           ulnow \in r.ulnow..r.ultotal :
           n = [r EXCEPT !.header = header, !.dlnow = dlnow, !.ulnow = ulnow]
  <2> HIDE DEF After, Headers, Sofar, Sent
  <2>1. n \in {After(header, dlnow, ulnow) : header \in Headers, dlnow \in Sofar, ulnow \in Sent}
    <3>1. n \in Advances(r)
      BY DEF Reported
    <3>2. Advances(r) = {After(header, dlnow, ulnow) : header \in Headers, dlnow \in Sofar, ulnow \in Sent}
      BY DEF Advances, After, Headers, Sofar, Sent
    <3>3. QED
      BY <3>1, <3>2
  <2>2. \E header \in Headers, dlnow \in Sofar, ulnow \in Sent : n = After(header, dlnow, ulnow)
    BY <2>1
  <2>3. QED
    BY ONLY <2>2, Zenon DEF After, Headers, Sofar, Sent
<1>3. dlnow \in Size /\ ulnow \in Size /\ dlnow >= r.dlnow /\ ulnow <= r.ultotal
  BY <1>1 DEF Size
<1>4. n \in Transfer
  BY <1>2, <1>3 DEF Transfer
<1>5. /\ n.size = r.size /\ n.ultotal = r.ultotal /\ n.header = header
      /\ n.dlnow = dlnow /\ n.ulnow = ulnow
  BY <1>2 DEF Transfer
<1>6. n.dlnow > 0 => n.header
  BY DEF Reported
<1>7. QED
  BY <1>1, <1>3, <1>4, <1>5, <1>6

\* The dialog a transfer opens is sound.
LEMMA OpenedType ==
    ASSUME NEW r \in Transfer
    PROVE  /\ Opened(r) \in Dialog
           /\ Opened(r).by = "transfer"
           /\ ~ Opened(r).can_cancel /\ ~ Opened(r).cancelled
           /\ Opened(r).maximum = AsLong(TotalBytes(r))
<1>1. TotalBytes(r) \in Size
  BY BoundAssumption DEF TotalBytes, DownloadTotal, Transfer, Size
<1> DEFINE m == AsLong(TotalBytes(r))
<1>2. m \in Size
  BY <1>1, LongIsSize
<1>3. Opened(r) = [NoDialog EXCEPT !.by = "transfer", !.maximum = m]
  BY DEF Opened
<1>4. m = AsLong(TotalBytes(r))
  OBVIOUS
<1> HIDE DEF m
<1>5. Opened(r) = [by |-> "transfer", maximum |-> m, can_cancel |-> FALSE, cancelled |-> FALSE]
  BY <1>3 DEF NoDialog
<1>6. QED
  BY <1>2, <1>4, <1>5 DEF Dialog

\* The types hold initially.
LEMMA TypeInit == Init => TypeInv
<1> SUFFICES ASSUME Init PROVE TypeInv
  OBVIOUS
<1>1. DialogTypes
  BY NoDialogIsNobodys DEF Init, DialogTypes
<1>2. TransferTypes
  <2>1. NoTransfer \in Transfer
    BY BoundAssumption DEF NoTransfer, Transfer, Size
  <2>2. QED
    BY <2>1, BoundAssumption DEF Init, TransferTypes
<1>3. CallbackTypes
  <2>1. NoCallback \in [completed : BOOLEAN, error : Errors]
    BY DEF NoCallback, Errors
  <2>2. QED
    BY <2>1 DEF Init, CallbackTypes
<1>4. FlagTypes
  BY DEF Init, FlagTypes
<1>5. QED
  BY <1>1, <1>2, <1>3, <1>4 DEF Init, TypeInv

\* A transfer ends: the same for the three ways to end.
LEMMA LeaveTypes ==
    ASSUME TransferTypes, NEW t \in Threads, NEW how \in {"none", "done", "failed", "aborted"},
           Leave(t, how), UNCHANGED started
    PROVE  TransferTypes'
<1>1. NoTransfer \in Transfer
  BY BoundAssumption DEF NoTransfer, Transfer, Size
<1>2. QED
  BY <1>1 DEF TransferTypes, Leave

\* Every step keeps the types.
LEMMA TypeStep == TypeInv /\ [Next]_vars => TypeInv'
<1> SUFFICES ASSUME TypeInv, [Next]_vars PROVE TypeInv'
  OBVIOUS
<1> USE DEF transfers, history
<1>1. /\ DialogTypes /\ TransferTypes /\ CallbackTypes /\ FlagTypes
      /\ platform \in {"windows", "mac", "none"}
  BY DEF TypeInv
<1>2. ASSUME NEW t \in Threads, NEW size \in Size, NEW up \in Size, StartTransfer(t, size, up)
      PROVE  TypeInv'
  <2>1. TransferTypes'
    <3>1. [NoTransfer EXCEPT !.size = size, !.ultotal = up] \in Transfer
      <4>1. NoTransfer \in Transfer
        BY BoundAssumption DEF NoTransfer, Transfer, Size
      <4>2. QED
        BY <4>1 DEF Transfer
    <3>2. started' \in 0..MaxTransfers
      BY <1>1, <1>2, BoundAssumption DEF StartTransfer, TransferTypes
    <3>3. QED
      BY <1>1, <1>2, <3>1, <3>2 DEF StartTransfer, TransferTypes
  <2>2. FlagTypes'
    <3>1. plain' \in [Threads -> BOOLEAN] /\ orderly' \in BOOLEAN
      BY <1>2 DEF StartTransfer
    <3>2. QED
      BY <1>1, <1>2, <3>1 DEF StartTransfer, FlagTypes
  <2>3. QED
    BY <1>1, <1>2, <2>1, <2>2 DEF StartTransfer, TypeInv, DialogTypes, CallbackTypes
<1>3. ASSUME NEW t \in Threads, NEW r \in Reported(transfer[t]), NEW error \in Errors, Callback(t, r, error)
      PROVE  TypeInv'
  <2>1. transfer[t] \in Transfer /\ r \in Transfer
    BY <1>1, <1>3, ReportedType DEF TransferTypes
  <2>2. DialogTypes'
    <3>1. CASE UpdateProgressDialog(Slot(t), ProgressValue(r), error)
      BY <1>1, <3>1, SlotType, UpdateTypes
    <3>2. CASE DisplayProgressDialog(Slot(t), Opened(r), error)
      BY <1>1, <2>1, <3>2, SlotType, DisplayTypes, OpenedType
    <3>3. CASE UNCHANGED dialog
      BY <1>1, <3>3 DEF DialogTypes
    <3>4. QED
      BY <1>3, <3>1, <3>2, <3>3 DEF Callback
  <2>3. TransferTypes'
    BY <1>1, <1>3, <2>1 DEF Callback, TransferTypes
  <2>4. CallbackTypes'
    <3>1. [completed |-> Completed(r), error |-> error] \in [completed : BOOLEAN, error : Errors]
      BY <1>3 DEF Completed
    <3>2. QED
      BY <1>1, <1>3, <3>1 DEF Callback, CallbackTypes
  <2>5. FlagTypes'
    <3>1. intruded' \in BOOLEAN
      BY <1>1, <1>3 DEF Callback, FlagTypes
    <3>2. plain' \in [Threads -> BOOLEAN]
      BY <1>1, <1>3 DEF Callback, FlagTypes
    <3>3. QED
      BY <1>1, <1>3, <3>1, <3>2 DEF Callback, FlagTypes
  <2>6. QED
    BY <1>1, <1>3, <2>2, <2>3, <2>4, <2>5 DEF Callback, TypeInv
<1>4. ASSUME NEW t \in Threads, ReturnFromCallback(t) PROVE TypeInv'
  <2>1. TransferTypes'
    <3>1. CASE Leave(t, "aborted")
      BY <1>1, <1>4, <3>1, LeaveTypes DEF ReturnFromCallback
    <3>2. CASE ~ Leave(t, "aborted")
      BY <1>1, <1>4, <3>2 DEF ReturnFromCallback, TransferTypes
    <3>3. QED
      BY <3>1, <3>2
  <2>2. CallbackTypes'
    <3>1. NoCallback \in [completed : BOOLEAN, error : Errors]
      BY DEF NoCallback, Errors
    <3>2. QED
      BY <1>1, <1>4, <3>1 DEF ReturnFromCallback, CallbackTypes
  <2>3. FlagTypes'
    <3>1. visible' \in BOOLEAN
      BY <1>4 DEF ReturnFromCallback, VisibleAfter
    <3>2. QED
      BY <1>1, <1>4, <3>1 DEF ReturnFromCallback, FlagTypes
  <2>4. QED
    BY <1>1, <1>4, <2>1, <2>2, <2>3 DEF ReturnFromCallback, TypeInv, DialogTypes
<1>5. ASSUME NEW t \in Threads, EndTransfer(t) \/ FailTransfer(t) PROVE TypeInv'
  <2>1. TransferTypes'
    BY <1>1, <1>5, LeaveTypes DEF EndTransfer, FailTransfer
  <2>2. FlagTypes'
    BY <1>1, <1>5 DEF EndTransfer, FailTransfer, FlagTypes
  <2>3. QED
    BY <1>1, <1>5, <2>1, <2>2 DEF EndTransfer, FailTransfer, TypeInv, DialogTypes, CallbackTypes
<1>6. ASSUME NEW s \in Threads, UserCancels(s) PROVE TypeInv'
  <2>1. dialog[s] \in Dialog /\ dialog[s].by # "transfer"
    BY <1>1, <1>6 DEF UserCancels, DialogTypes, NoDialog
  <2>2. /\ [dialog[s] EXCEPT !.cancelled = TRUE] \in Dialog
        /\ [dialog[s] EXCEPT !.cancelled = TRUE].by # "transfer"
    BY <2>1 DEF Dialog
  <2>3. DialogTypes'
    BY <1>1, <1>6, <2>2 DEF UserCancels, DialogTypes
  <2>4. QED
    BY <1>1, <1>6, <2>3 DEF UserCancels, TypeInv, TransferTypes, CallbackTypes, FlagTypes
<1>7. ASSUME NEW error, UNCHANGED <<platform, visible, transfers, outcome, intruded>>, BesideTransfers,
             DialogTypes'
      PROVE  TypeInv'
  <2>1. FlagTypes'
    <3>1. plain' \in [Threads -> BOOLEAN] /\ orderly' \in BOOLEAN
      BY <1>7 DEF BesideTransfers
    <3>2. QED
      BY <1>1, <1>7, <3>1 DEF FlagTypes
  <2>2. QED
    BY <1>1, <1>7, <2>1 DEF TypeInv, TransferTypes, CallbackTypes
<1>8. ASSUME NEW maximum \in Size, NEW can_cancel \in BOOLEAN, NEW error \in Errors,
             ScriptDisplay(maximum, can_cancel, error)
      PROVE  TypeInv'
  <2> DEFINE new == [NoDialog EXCEPT !.by = "script", !.maximum = maximum, !.can_cancel = can_cancel]
  <2>1. new \in Dialog /\ new.by # "transfer"
    BY <1>8 DEF NoDialog, Dialog
  <2>2. DialogTypes'
    BY <1>1, <1>8, <2>1, SlotType, DisplayTypes DEF ScriptDisplay, Threads
  <2>3. QED
    BY <1>7, <1>8, <2>2 DEF ScriptDisplay
<1>9. ASSUME NEW value \in Size, NEW error \in Errors, ScriptUpdate(value, error)
      PROVE  TypeInv'
  <2>1. DialogTypes'
    BY <1>1, <1>9, SlotType, UpdateTypes DEF ScriptUpdate, Threads
  <2>2. QED
    BY <1>7, <1>9, <2>1 DEF ScriptUpdate
<1>10. CASE UNCHANGED vars
  BY <1>1, <1>10 DEF vars, TypeInv, DialogTypes, TransferTypes, CallbackTypes, FlagTypes
<1>11. QED
  BY <1>2, <1>3, <1>4, <1>5, <1>6, <1>8, <1>9, <1>10 DEF Next

(* Every variable keeps its type; in particular the dialog of a transfer is *)
(* never found cancelled.                                                   *)
THEOREM DialogTypesHold == Spec => []TypeOK
BY TypeInit, TypeStep, TypesTogether, PTL DEF Spec

-----------------------------------------------------------------------------
(* What a step does to dialogs and flag. *)

\* The flag after a callback.
LEMMA FlagAfter ==
    ASSUME NEW b \in BOOLEAN, NEW e
    PROVE  VisibleAfter([completed |-> b, error |-> e]) <=> ~ b /\ e = "none"
BY DEF VisibleAfter

\* A callback that has an error leaves the flag down.
LEMMA FlagNeedsSuccess ==
    ASSUME NEW c, VisibleAfter(c) PROVE c.error = "none"
BY DEF VisibleAfter

\* Opening and updating touch one dialog only.
LEMMA OneDialog ==
    ASSUME DialogTypes, NEW s \in Threads,
           \/ \E new, error : DisplayProgressDialog(s, new, error)
           \/ \E value, error : UpdateProgressDialog(s, value, error)
    PROVE  \A u \in Threads : u # s => dialog'[u] = dialog[u]
<1>1. \E new : dialog' = [dialog EXCEPT ![s] = new] \/ dialog' = dialog
  BY DEF DisplayProgressDialog, UpdateProgressDialog
<1>2. QED
  BY <1>1 DEF DialogTypes

\* An update leaves the dialog as it is or closes it.
LEMMA UpdateOrClose ==
    ASSUME DialogTypes, NEW s \in Threads, NEW value, NEW error, UpdateProgressDialog(s, value, error)
    PROVE  dialog'[s] = dialog[s] \/ dialog'[s] = NoDialog
BY DEF UpdateProgressDialog, DialogTypes

\* A callback while the flag is up.
FlagUp(t, r, error) ==
    \/ /\ UpdateProgressDialog(Slot(t), ProgressValue(r), error)
       /\ intruded' = (intruded \/ dialog[Slot(t)].by = "script")
    \/ ~ Completed(r) /\ error = "none" /\ UNCHANGED <<dialog, intruded>>

\* A callback while it is down.
FlagDown(t, r, error) ==
    /\ UNCHANGED intruded
    /\ \/ ~ Completed(r) /\ DisplayProgressDialog(Slot(t), Opened(r), error)
       \/ Completed(r) /\ error = "none" /\ UNCHANGED dialog

\* What a callback does, for the two invariants below.
LEMMA CallbackEffect ==
    ASSUME TypeInv, NEW t \in Threads, NEW r \in Reported(transfer[t]), NEW error \in Errors,
           Callback(t, r, error)
    PROVE  /\ state[t] = "running"
           /\ (visible /\ FlagUp(t, r, error)) \/ (~ visible /\ FlagDown(t, r, error))
           /\ UNCHANGED <<platform, visible, outcome, orderly>>
           /\ transfer'[t] = r /\ state'[t] = "callback" /\ callback'[t].error = error
           /\ VisibleAfter(callback'[t]) <=> ~ Completed(r) /\ error = "none"
           /\ \A u \in Threads : u # t => /\ state'[u] = state[u] /\ transfer'[u] = transfer[u]
                                          /\ callback'[u] = callback[u]
           /\ plain'[t] => plain[t] /\ error # "system"
           /\ \A u \in Threads : u # t => (plain'[u] <=> plain[u])
<1> DEFINE c == [completed |-> Completed(r), error |-> error]
<1>1. /\ DialogTypes /\ TransferTypes /\ CallbackTypes /\ FlagTypes
  BY DEF TypeInv
<1>2. /\ state[t] = "running"
      /\ (visible /\ FlagUp(t, r, error)) \/ (~ visible /\ FlagDown(t, r, error))
  BY Zenon DEF Callback, FlagUp, FlagDown
<1>3. /\ UNCHANGED <<platform, visible, outcome, orderly>>
      /\ transfer' = [transfer EXCEPT ![t] = r]
      /\ state' = [state EXCEPT ![t] = "callback"]
      /\ callback' = [callback EXCEPT ![t] = c]
      /\ plain' = [plain EXCEPT ![t] = @ /\ error # "system"]
  BY DEF Callback
<1>4. c.error = error /\ (VisibleAfter(c) <=> ~ Completed(r) /\ error = "none")
  <2>1. Completed(r) \in BOOLEAN
    BY DEF Completed
  <2>2. QED
    BY <2>1, FlagAfter
<1> HIDE DEF c
<1>5. /\ plain'[t] => plain[t] /\ error # "system"
      /\ \A u \in Threads : u # t => (plain'[u] <=> plain[u])
  BY <1>1, <1>3 DEF FlagTypes
<1>6. /\ transfer'[t] = r /\ state'[t] = "callback" /\ callback'[t] = c
      /\ \A u \in Threads : u # t => /\ state'[u] = state[u] /\ transfer'[u] = transfer[u]
                                     /\ callback'[u] = callback[u]
  BY <1>1, <1>3 DEF TransferTypes, CallbackTypes
<1>7. QED
  BY <1>2, <1>3, <1>4, <1>5, <1>6

\* What the return from a callback does.
LEMMA ReturnEffect ==
    ASSUME TypeInv, NEW t \in Threads, ReturnFromCallback(t)
    PROVE  /\ state[t] = "callback"
           /\ visible' <=> VisibleAfter(callback[t])
           /\ UNCHANGED <<platform, dialog, plain, orderly, intruded>>
           /\ \/ /\ callback[t].error = "none" /\ state'[t] = "running"
                 /\ UNCHANGED <<transfer, outcome>>
              \/ callback[t].error # "none" /\ state'[t] = "idle" /\ outcome'[t] = "aborted"
           /\ \A u \in Threads : u # t => /\ state'[u] = state[u] /\ transfer'[u] = transfer[u]
                                          /\ callback'[u] = callback[u] /\ outcome'[u] = outcome[u]
<1>1. TransferTypes /\ CallbackTypes /\ FlagTypes
  BY DEF TypeInv
<1>2. /\ state[t] = "callback" /\ visible' = VisibleAfter(callback[t])
      /\ UNCHANGED <<platform, dialog, plain, orderly, intruded>>
      /\ callback' = [callback EXCEPT ![t] = NoCallback]
  BY DEF ReturnFromCallback
<1>3. \/ /\ callback[t].error = "none" /\ state' = [state EXCEPT ![t] = "running"]
         /\ UNCHANGED <<transfer, outcome>>
      \/ callback[t].error # "none" /\ Leave(t, "aborted")
  BY DEF ReturnFromCallback
<1>4. \A u \in Threads : u # t => callback'[u] = callback[u]
  BY <1>1, <1>2 DEF CallbackTypes
<1>5. QED
  BY <1>1, <1>2, <1>3, <1>4 DEF Leave, TransferTypes

\* A script's call, seen from a transfer.
LEMMA ScriptEffect ==
    ASSUME TypeInv, NEW error,
           \/ \E maximum \in Size, can_cancel \in BOOLEAN : ScriptDisplay(maximum, can_cancel, error)
           \/ \E value \in Size : ScriptUpdate(value, error)
    PROVE  /\ UNCHANGED <<platform, visible, transfers, outcome, intruded>>
           /\ orderly' => orderly
           /\ \A t \in Threads :
                  /\ plain'[t] => plain[t] /\ dialog'[Slot(t)] = dialog[Slot(t)]
                  /\ orderly' /\ state[t] # "idle" => dialog'[Slot(t)] = dialog[Slot(t)]
<1>1. DialogTypes /\ FlagTypes
  BY DEF TypeInv
<1>2. UNCHANGED <<platform, visible, transfers, outcome, intruded>> /\ BesideTransfers
  BY Zenon DEF ScriptDisplay, ScriptUpdate
<1>3. \A u \in Threads : u # Slot(Host) => dialog'[u] = dialog[u]
  <2>1. \/ \E new : DisplayProgressDialog(Slot(Host), new, error)
        \/ \E value : UpdateProgressDialog(Slot(Host), value, error)
    BY Zenon DEF ScriptDisplay, ScriptUpdate
  <2>2. Slot(Host) \in Threads
    BY SlotType DEF Threads
  <2>3. QED
    BY <1>1, <2>1, <2>2, OneDialog
<1>4. \A t \in Threads : /\ plain'[t] => plain[t] /\ Slot(t) # Slot(Host)
                         /\ orderly' /\ state[t] # "idle" => Slot(t) # Slot(Host)
  BY <1>1, <1>2, Zenon DEF BesideTransfers, FlagTypes
<1>5. orderly' => orderly
  BY <1>1, <1>2, Zenon DEF BesideTransfers, FlagTypes
<1>6. QED
  BY <1>2, <1>3, <1>4, <1>5, SlotType

-----------------------------------------------------------------------------
(* Dialogs of scripts. *)

\* What holds of thread t while the transfers are orderly.
OrderlyThread(t) ==
    /\ state[t] # "idle" => transfer[t].size > 0 /\ (transfer[t].dlnow > 0 => transfer[t].header)
    /\ state[t] = "running" /\ visible =>
           dialog[Slot(t)].by # "script" /\ ~ Completed(transfer[t])
    /\ state[t] = "callback" /\ VisibleAfter(callback[t]) =>
           dialog[Slot(t)].by # "script" /\ ~ Completed(transfer[t])

AtMostOne == \A t, u \in Threads : state[t] # "idle" /\ state[u] # "idle" => t = u

\* The flag is down between transfers, and up only beside a dialog that no
\* script has opened.
OrderlyInv ==
    orderly =>
        /\ ~ intruded
        /\ AtMostOne
        /\ (\A t \in Threads : state[t] = "idle") => ~ visible
        /\ \A t \in Threads : OrderlyThread(t)

\* Every step keeps the dialogs of scripts out of reach of orderly transfers.
LEMMA OrderlyStep == TypeInv /\ OrderlyInv /\ [Next]_vars => OrderlyInv'
<1> SUFFICES ASSUME TypeInv, OrderlyInv, [Next]_vars, orderly' PROVE OrderlyInv'
  BY DEF OrderlyInv
<1> USE DEF transfers, history
<1>1. /\ DialogTypes /\ TransferTypes /\ CallbackTypes /\ FlagTypes
  BY DEF TypeInv
<1>2. ASSUME orderly
      PROVE  /\ ~ intruded /\ AtMostOne /\ \A t \in Threads : OrderlyThread(t)
             /\ (\A t \in Threads : state[t] = "idle") => ~ visible
  BY <1>2 DEF OrderlyInv
<1>3. ASSUME NEW t \in Threads, NEW size \in Size, NEW up \in Size, StartTransfer(t, size, up)
      PROVE  OrderlyInv'
  <2>1. orderly /\ (\A u \in Threads : state[u] = "idle") /\ size > 0
    BY <1>3 DEF StartTransfer, Plain
  <2>2. /\ \A u \in Threads : u # t => state'[u] = "idle"
        /\ UNCHANGED <<visible, intruded>>
        /\ transfer'[t].size = size /\ transfer'[t].dlnow = 0 /\ state'[t] = "running"
    BY <1>1, <1>3, <2>1 DEF StartTransfer, TransferTypes, NoTransfer
  <2>3. ~ visible /\ ~ intruded
    BY <1>2, <2>1
  <2>4. \A u \in Threads : OrderlyThread(u)'
    BY <2>1, <2>2, <2>3 DEF OrderlyThread
  <2>5. QED
    BY <2>2, <2>3, <2>4 DEF OrderlyInv, AtMostOne
<1>4. ASSUME NEW t \in Threads, NEW r \in Reported(transfer[t]), NEW error \in Errors, Callback(t, r, error)
      PROVE  OrderlyInv'
  <2>1. /\ state[t] = "running" /\ orderly
        /\ (visible /\ FlagUp(t, r, error)) \/ (~ visible /\ FlagDown(t, r, error))
        /\ transfer'[t] = r /\ state'[t] = "callback"
        /\ VisibleAfter(callback'[t]) <=> ~ Completed(r) /\ error = "none"
        /\ \A u \in Threads : u # t => state'[u] = state[u]
    BY <1>4, CallbackEffect
  <2>2. ~ intruded /\ OrderlyThread(t) /\ \A u \in Threads : u # t => state'[u] = "idle"
    BY <1>2, <2>1 DEF AtMostOne
  <2>3. r.size > 0 /\ (r.dlnow > 0 => r.header)
    BY <1>1, <2>1, <2>2, ReportedType DEF OrderlyThread, TransferTypes
  <2>4. ASSUME visible, FlagUp(t, r, error)
        PROVE  ~ intruded' /\ dialog'[Slot(t)].by # "script"
    <3>1. dialog[Slot(t)].by # "script"
      BY <2>1, <2>2, <2>4 DEF OrderlyThread
    <3>2. ~ intruded'
      BY <2>2, <2>4, <3>1 DEF FlagUp
    <3>3. dialog'[Slot(t)] = dialog[Slot(t)] \/ dialog'[Slot(t)] = NoDialog
      BY <1>1, <2>4, SlotType, UpdateOrClose DEF FlagUp
    <3>4. QED
      BY <3>1, <3>2, <3>3, NoDialogIsNobodys
  <2>5. ASSUME FlagDown(t, r, error)
        PROVE  ~ intruded' /\ (~ Completed(r) /\ error = "none" => dialog'[Slot(t)].by # "script")
    <3>1. ~ intruded'
      BY <2>2, <2>5 DEF FlagDown
    <3>2. ASSUME ~ Completed(r), error = "none" PROVE dialog'[Slot(t)] = Opened(r)
      BY <1>1, <2>5, <3>2, SlotType DEF FlagDown, DisplayProgressDialog, DialogTypes
    <3>3. Opened(r).by = "transfer"
      BY <1>1, <1>4, ReportedType, OpenedType DEF TransferTypes
    <3>4. QED
      BY <3>1, <3>2, <3>3
  <2>6. ~ intruded' /\ (VisibleAfter(callback'[t]) => dialog'[Slot(t)].by # "script" /\ ~ Completed(r))
    BY <2>1, <2>4, <2>5
  <2>7. \A u \in Threads : OrderlyThread(u)'
    <3>1. Slot(t)' = Slot(t)
      BY <1>4, CallbackEffect DEF Slot
    <3>2. OrderlyThread(t)'
      BY <2>1, <2>3, <2>6, <3>1 DEF OrderlyThread, Completed, DownloadTotal
    <3>3. QED
      BY <2>2, <3>2 DEF OrderlyThread
  <2>8. QED
    BY <2>1, <2>2, <2>6, <2>7 DEF OrderlyInv, AtMostOne
<1>5. ASSUME NEW t \in Threads, ReturnFromCallback(t) PROVE OrderlyInv'
  <2>1. /\ state[t] = "callback" /\ orderly /\ (visible' <=> VisibleAfter(callback[t]))
        /\ UNCHANGED <<platform, dialog, intruded>>
        /\ \/ callback[t].error = "none" /\ state'[t] = "running" /\ UNCHANGED transfer
           \/ callback[t].error # "none" /\ state'[t] = "idle"
        /\ \A u \in Threads : u # t => state'[u] = state[u]
    BY <1>5, ReturnEffect
  <2>2. ~ intruded /\ OrderlyThread(t) /\ \A u \in Threads : u # t => state'[u] = "idle"
    BY <1>2, <2>1 DEF AtMostOne
  <2>3. callback[t].error # "none" => ~ visible'
    BY <2>1, FlagNeedsSuccess
  <2>4. Slot(t)' = Slot(t)
    BY <2>1 DEF Slot
  <2>5. \A u \in Threads : OrderlyThread(u)'
    <3>1. OrderlyThread(t)'
      BY <2>1, <2>2, <2>4 DEF OrderlyThread, Completed, DownloadTotal
    <3>2. QED
      BY <2>2, <3>1 DEF OrderlyThread
  <2>6. QED
    BY <2>1, <2>2, <2>3, <2>5 DEF OrderlyInv, AtMostOne
<1>6. ASSUME NEW t \in Threads, EndTransfer(t) PROVE OrderlyInv'
  <2>1. /\ state[t] = "running" /\ orderly /\ UNCHANGED <<visible, intruded>>
        /\ transfer[t].header /\ (transfer[t].size > 0 => transfer[t].dlnow = transfer[t].size)
        /\ state'[t] = "idle" /\ \A u \in Threads : u # t => state'[u] = state[u]
    BY <1>1, <1>6 DEF EndTransfer, Leave, TransferTypes
  <2>2. ~ intruded /\ OrderlyThread(t) /\ \A u \in Threads : state'[u] = "idle"
    BY <1>2, <2>1 DEF AtMostOne
  <2>3. ~ visible'
    BY <2>1, <2>2 DEF OrderlyThread, Completed, DownloadTotal
  <2>4. QED
    BY <2>1, <2>2, <2>3 DEF OrderlyInv, AtMostOne, OrderlyThread
<1>7. ASSUME NEW t \in Threads, FailTransfer(t) PROVE OrderlyInv'
  BY <1>7 DEF FailTransfer
<1>8. ASSUME NEW s \in Threads, UserCancels(s) PROVE OrderlyInv'
  <2>1. \A u \in Threads : dialog'[u].by = dialog[u].by
    BY <1>1, <1>8 DEF UserCancels, DialogTypes, Dialog, NoDialog
  <2>2. /\ orderly /\ UNCHANGED <<platform, visible, state, transfer, callback, intruded>>
        /\ \A u \in Threads : Slot(u)' = Slot(u) /\ Slot(u) \in Threads
    BY <1>8, SlotType DEF UserCancels, Slot
  <2>3. \A u \in Threads : OrderlyThread(u)'
    BY <1>2, <2>1, <2>2 DEF OrderlyThread, Completed, DownloadTotal
  <2>4. QED
    BY <1>2, <2>2, <2>3 DEF OrderlyInv, AtMostOne
<1>9. ASSUME NEW error,
             \/ \E maximum \in Size, can_cancel \in BOOLEAN : ScriptDisplay(maximum, can_cancel, error)
             \/ \E value \in Size : ScriptUpdate(value, error)
      PROVE  OrderlyInv'
  <2>1. /\ orderly /\ UNCHANGED <<platform, visible, state, transfer, callback, intruded>>
        /\ \A u \in Threads : state[u] # "idle" => dialog'[Slot(u)] = dialog[Slot(u)]
    BY <1>9, ScriptEffect
  <2>2. \A u \in Threads : Slot(u)' = Slot(u)
    BY <2>1 DEF Slot
  <2>3. \A u \in Threads : OrderlyThread(u)'
    BY <1>2, <2>1, <2>2 DEF OrderlyThread, Completed, DownloadTotal
  <2>4. QED
    BY <1>2, <2>1, <2>3 DEF OrderlyInv, AtMostOne
<1>10. CASE UNCHANGED vars
  BY <1>2, <1>10 DEF vars, OrderlyInv, AtMostOne, OrderlyThread, Completed, DownloadTotal, Slot
<1>11. QED
  BY <1>3, <1>4, <1>5, <1>6, <1>7, <1>8, <1>9, <1>10 DEF Next

(* While downloads of known size run one at a time and none fails, no       *)
(* callback moves or closes a dialog that a script has opened.              *)
THEOREM ScriptsKeepTheirDialog == Spec => []ScriptDialogIsLeftAlone
<1>1. Init => OrderlyInv
  BY DEF Init, OrderlyInv, AtMostOne, OrderlyThread
<1>2. OrderlyInv => ScriptDialogIsLeftAlone
  BY DEF OrderlyInv, ScriptDialogIsLeftAlone
<1>3. QED
  BY <1>1, <1>2, TypeInit, TypeStep, OrderlyStep, PTL DEF Spec

-----------------------------------------------------------------------------
(* Plain transfers. *)

\* The dialog that the transfer of t has opened, at the size it reports.
OwnDialog(t) ==
    dialog[Slot(t)].by = "transfer" /\ dialog[Slot(t)].maximum = transfer[t].size

\* A download of known size that fits a long.
IsPlain(r) ==
    /\ r.size > 0 /\ r.ultotal = 0 /\ AsLong(r.size + 1) = r.size + 1
    /\ r.dlnow > 0 => r.header

\* The flag is up exactly as long as the dialog is open: while it runs the flag
\* is visible, inside a callback it is what the callback is about to write.
PlainThread(t) ==
    /\ platform # "none"
    /\ \A u \in Threads : u # t => state[u] = "idle"
    /\ outcome[t] # "aborted"
    /\ outcome[t] = "done" => ~ visible /\ dialog[Slot(t)] = NoDialog
    /\ state[t] # "idle" => IsPlain(transfer[t]) /\ outcome[t] = "none"
    /\ state[t] = "running" =>
           /\ visible => OwnDialog(t) /\ ~ Completed(transfer[t])
           /\ ~ visible => dialog[Slot(t)] = NoDialog
    /\ state[t] = "callback" =>
           /\ callback[t].error = "none"
           /\ VisibleAfter(callback[t]) => OwnDialog(t) /\ ~ Completed(transfer[t])
           /\ ~ VisibleAfter(callback[t]) => dialog[Slot(t)] = NoDialog

PlainInv == \A t \in Threads : plain[t] => PlainThread(t)

\* A plain transfer's own callback: it opens, updates or closes its dialog and
\* none of these fails, but for the system.
LEMMA PlainCallback ==
    ASSUME TypeInv, NEW t \in Threads, PlainThread(t),
           NEW r \in Reported(transfer[t]), NEW error \in Errors, error # "system",
           Callback(t, r, error)
    PROVE  /\ error = "none"
           /\ ~ Completed(r) => dialog'[Slot(t)].by = "transfer" /\ dialog'[Slot(t)].maximum = r.size
           /\ Completed(r) => dialog'[Slot(t)] = NoDialog
<1> DEFINE s == Slot(t)
<1>1. /\ DialogTypes /\ TransferTypes /\ s \in Threads
  BY SlotType DEF TypeInv
<1>2. /\ state[t] = "running"
      /\ (visible /\ FlagUp(t, r, error)) \/ (~ visible /\ FlagDown(t, r, error))
  BY CallbackEffect
<1>3. /\ platform # "none" /\ IsPlain(transfer[t])
      /\ visible => OwnDialog(t) /\ ~ Completed(transfer[t])
      /\ ~ visible => dialog[s] = NoDialog
  BY <1>2 DEF PlainThread
<1>4. /\ r \in Transfer /\ r.size = transfer[t].size /\ r.ultotal = 0 /\ r.size > 0
      /\ transfer[t].header => r.header
      /\ r.dlnow <= r.size /\ (r.dlnow > 0 => r.header) /\ r.ulnow <= 0
      /\ AsLong(r.size + 1) = r.size + 1
      /\ r.size \in Nat /\ r.dlnow \in Nat /\ r.ulnow \in Nat
  <2>1. transfer[t] \in Transfer
    BY <1>1 DEF TransferTypes
  <2>2. r \in Transfer /\ r.size \in Nat /\ r.dlnow \in Nat /\ r.ulnow \in Nat
    BY <2>1, ReportedType, BoundAssumption DEF Transfer, Size
  <2>3. QED
    BY <1>3, <2>1, <2>2, ReportedType DEF IsPlain
<1>5. ~ Completed(r) => r.header /\ TotalBytes(r) = r.size
  BY <1>4 DEF Completed, DownloadTotal, TotalBytes
<1>6. CASE visible /\ UpdateProgressDialog(s, ProgressValue(r), error)
  <2>1. dialog[s].by = "transfer" /\ dialog[s].maximum = r.size /\ dialog[s] # NoDialog
    BY <1>3, <1>4, <1>6, NoDialogIsNobodys DEF OwnDialog
  <2>2. ~ dialog[s].cancelled
    BY <1>1, <2>1 DEF DialogTypes
  <2>3. transfer[t].header
    <3>1. transfer[t].dlnow \in Nat
      BY <1>1, BoundAssumption DEF TransferTypes, Transfer, Size
    <3>2. QED
      BY <1>3, <1>6, <3>1 DEF IsPlain, Completed, DownloadTotal
  <2>4. /\ ProgressValue(r) \in Nat /\ ProgressValue(r) <= r.size + 1
        /\ Completed(r) <=> ProgressValue(r) > r.size
    BY <1>4, <2>3 DEF ProgressValue, BytesSoFar, Completed, DownloadTotal
  <2>5. AsLong(ProgressValue(r)) = ProgressValue(r)
    BY <1>4, <2>4, LongIsExact
  <2>6. error \in {"none", "system"}
    BY <1>3, <1>6, <2>1, <2>2 DEF UpdateProgressDialog
  <2>7. \/ ProgressValue(r) > r.size /\ dialog' = [dialog EXCEPT ![s] = NoDialog]
        \/ ProgressValue(r) <= r.size /\ dialog' = dialog
    BY <1>3, <1>6, <2>1, <2>2, <2>5 DEF UpdateProgressDialog
  <2>8. dialog'[s] = IF Completed(r) THEN NoDialog ELSE dialog[s]
    BY <1>1, <1>4, <2>4, <2>7 DEF DialogTypes
  <2>9. QED
    BY <2>1, <2>6, <2>8
<1>7. CASE visible /\ ~ Completed(r) /\ error = "none" /\ UNCHANGED dialog
  BY <1>3, <1>4, <1>7 DEF OwnDialog
<1>8. CASE ~ visible /\ ~ Completed(r) /\ DisplayProgressDialog(s, Opened(r), error)
  <2>1. ~ InUse(s)
    BY <1>3, <1>8 DEF InUse
  <2>2. error = "none" /\ dialog' = [dialog EXCEPT ![s] = Opened(r)]
    BY <1>3, <1>8, <2>1 DEF DisplayProgressDialog
  <2>3. AsLong(r.size) = r.size
    BY <1>4, LongIsExact
  <2>4. Opened(r).by = "transfer" /\ Opened(r).maximum = r.size
    BY <1>4, <1>5, <1>8, <2>3, OpenedType
  <2>5. QED
    BY <1>1, <1>8, <2>2, <2>4 DEF DialogTypes
<1>9. CASE ~ visible /\ Completed(r) /\ error = "none" /\ UNCHANGED dialog
  BY <1>3, <1>9
<1>10. QED
  BY <1>2, <1>6, <1>7, <1>8, <1>9 DEF FlagUp, FlagDown

\* Every step keeps flag and dialog of a plain transfer together.
LEMMA PlainStep == TypeInv /\ PlainInv /\ [Next]_vars => PlainInv'
<1> SUFFICES ASSUME TypeInv, PlainInv, [Next]_vars, NEW t \in Threads, plain'[t]
             PROVE  PlainThread(t)'
  BY DEF PlainInv
<1> USE DEF transfers, history
<1>1. /\ DialogTypes /\ TransferTypes /\ CallbackTypes /\ FlagTypes
  BY DEF TypeInv
<1>2. plain[t] => PlainThread(t)
  BY DEF PlainInv
<1>3. ASSUME NEW u \in Threads, NEW size \in Size, NEW up \in Size, StartTransfer(u, size, up)
      PROVE  PlainThread(t)'
  <2>1. /\ u = t /\ (\A v \in Threads : state[v] = "idle") /\ Plain(size, up)
        /\ platform # "none" /\ ~ visible /\ dialog[Slot(t)] = NoDialog
    BY <1>3, Zenon DEF StartTransfer
  <2>2. /\ \A v \in Threads : v # t => state'[v] = "idle"
        /\ UNCHANGED <<platform, visible, dialog>>
        /\ transfer'[t].size = size /\ transfer'[t].dlnow = 0 /\ transfer'[t].ultotal = up
        /\ state'[t] = "running" /\ outcome'[t] = "none"
    BY <1>1, <1>3, <2>1 DEF StartTransfer, TransferTypes, NoTransfer
  <2>3. IsPlain(transfer[t])'
    BY <2>1, <2>2 DEF IsPlain, Plain, AsLong
  <2>4. QED
    BY <2>1, <2>2, <2>3 DEF PlainThread, Slot
<1>4. ASSUME NEW u \in Threads, NEW r \in Reported(transfer[u]), NEW error \in Errors, Callback(u, r, error)
      PROVE  PlainThread(t)'
  <2>1. /\ state[u] = "running" /\ UNCHANGED <<platform, visible, outcome>>
        /\ transfer'[u] = r /\ state'[u] = "callback" /\ callback'[u].error = error
        /\ VisibleAfter(callback'[u]) <=> ~ Completed(r) /\ error = "none"
        /\ \A v \in Threads : v # u => state'[v] = state[v]
        /\ plain'[u] => plain[u] /\ error # "system"
        /\ \A v \in Threads : v # u => (plain'[v] <=> plain[v])
    BY <1>4, CallbackEffect
  <2>2. plain[t]
    BY <2>1
  <2>3. u = t
    BY <1>2, <2>1, <2>2 DEF PlainThread
  <2>4. /\ error = "none"
        /\ ~ Completed(r) => dialog'[Slot(t)].by = "transfer" /\ dialog'[Slot(t)].maximum = r.size
        /\ Completed(r) => dialog'[Slot(t)] = NoDialog
    BY <1>2, <1>4, <2>1, <2>2, <2>3, PlainCallback
  <2>5. IsPlain(r)'
    <3>1. IsPlain(transfer[t]) /\ transfer[t] \in Transfer
      BY <1>1, <1>2, <2>1, <2>2, <2>3 DEF PlainThread, TransferTypes
    <3>2. r.size = transfer[t].size /\ r.ultotal = transfer[t].ultotal /\ (r.dlnow > 0 => r.header)
      BY <1>4, <2>3, <3>1, ReportedType
    <3>3. QED
      BY <2>1, <3>1, <3>2 DEF IsPlain, AsLong
  <2>6. Slot(t)' = Slot(t)
    BY <2>1 DEF Slot
  <2>7. /\ outcome[t] = "none" /\ platform # "none" /\ \A v \in Threads : v # t => state[v] = "idle"
    BY <1>2, <2>1, <2>2, <2>3 DEF PlainThread
  <2>8. IsPlain(transfer[t])'
    BY <2>1, <2>3, <2>5 DEF IsPlain, AsLong
  <2>9. QED
    BY <2>1, <2>3, <2>4, <2>6, <2>7, <2>8 DEF PlainThread, OwnDialog, Completed, DownloadTotal
<1>5. ASSUME NEW u \in Threads, ReturnFromCallback(u) PROVE PlainThread(t)'
  <2>1. /\ state[u] = "callback" /\ (visible' <=> VisibleAfter(callback[u]))
        /\ UNCHANGED <<platform, dialog, plain>>
        /\ \/ callback[u].error = "none" /\ state'[u] = "running" /\ UNCHANGED <<transfer, outcome>>
           \/ callback[u].error # "none"
        /\ \A v \in Threads : v # u => state'[v] = state[v]
    BY <1>5, ReturnEffect
  <2>2. PlainThread(t) /\ u = t
    BY <1>2, <2>1 DEF PlainThread
  <2>3. Slot(t)' = Slot(t)
    BY <2>1 DEF Slot
  <2>4. IsPlain(transfer[t]) /\ UNCHANGED <<transfer, outcome>> /\ outcome[t] = "none" /\ state'[t] = "running"
    BY <2>1, <2>2 DEF PlainThread
  <2>5. IsPlain(transfer[t])'
    BY <2>1, <2>4 DEF IsPlain, AsLong
  <2>6. QED
    BY <2>1, <2>2, <2>3, <2>4, <2>5 DEF PlainThread, OwnDialog, Completed, DownloadTotal
<1>6. ASSUME NEW u \in Threads, EndTransfer(u) \/ FailTransfer(u) PROVE PlainThread(t)'
  <2>1. /\ state[u] = "running" /\ UNCHANGED <<platform, visible, dialog, plain>>
        /\ state'[u] = "idle" /\ \A v \in Threads : v # u => state'[v] = state[v]
        /\ \/ /\ outcome'[u] = "done" /\ transfer[u].header
              /\ transfer[u].size > 0 => transfer[u].dlnow = transfer[u].size
           \/ outcome'[u] = "failed"
    BY <1>1, <1>6 DEF EndTransfer, FailTransfer, Leave, TransferTypes
  <2>2. PlainThread(t) /\ u = t
    BY <1>2, <2>1 DEF PlainThread
  <2>3. outcome'[t] = "done" => ~ visible /\ dialog[Slot(t)] = NoDialog
    BY <2>1, <2>2 DEF PlainThread, IsPlain, Completed, DownloadTotal
  <2>4. QED
    BY <2>1, <2>2, <2>3 DEF PlainThread, Slot
<1>7. ASSUME NEW s \in Threads, UserCancels(s) PROVE PlainThread(t)'
  <2>1. /\ UNCHANGED <<platform, visible, state, transfer, callback, outcome, plain>>
        /\ dialog' = [dialog EXCEPT ![s].cancelled = TRUE] /\ dialog[s].can_cancel
    BY <1>7 DEF UserCancels
  <2>2. PlainThread(t) /\ Slot(t) \in Threads
    BY <1>2, <2>1, SlotType
  <2>3. dialog[Slot(t)] = NoDialog \/ OwnDialog(t) => dialog'[Slot(t)] = dialog[Slot(t)]
    <3>1. dialog[Slot(t)] = NoDialog \/ OwnDialog(t) => ~ dialog[Slot(t)].can_cancel
      BY <1>1, <2>2 DEF DialogTypes, OwnDialog, NoDialog
    <3>2. QED
      BY <1>1, <2>1, <2>2, <3>1 DEF DialogTypes
  <2>4. QED
    BY <2>1, <2>2, <2>3 DEF PlainThread, OwnDialog, IsPlain, Completed, DownloadTotal, Slot, AsLong
<1>8. ASSUME NEW error,
             \/ \E maximum \in Size, can_cancel \in BOOLEAN : ScriptDisplay(maximum, can_cancel, error)
             \/ \E value \in Size : ScriptUpdate(value, error)
      PROVE  PlainThread(t)'
  <2>1. /\ UNCHANGED <<platform, visible, state, transfer, callback, outcome>>
        /\ plain[t] /\ dialog'[Slot(t)] = dialog[Slot(t)]
    BY <1>8, ScriptEffect
  <2>2. PlainThread(t)
    BY <1>2, <2>1
  <2>3. QED
    BY <2>1, <2>2 DEF PlainThread, OwnDialog, IsPlain, Completed, DownloadTotal, Slot, AsLong
<1>9. CASE UNCHANGED vars
  BY <1>2, <1>9 DEF vars, PlainThread, OwnDialog, IsPlain, Completed, DownloadTotal, Slot, AsLong
<1>10. QED
  BY <1>3, <1>4, <1>5, <1>6, <1>7, <1>8, <1>9 DEF Next

(* A download of known size that has the dialog for itself is not aborted   *)
(* by it and leaves neither dialog nor flag behind.                         *)
THEOREM PlainTransfersRunClean == Spec => []PlainTransferRunsClean
<1>1. Init => PlainInv
  BY DEF Init, PlainInv
<1>2. PlainInv => PlainTransferRunsClean
  BY DEF PlainInv, PlainThread, PlainTransferRunsClean
<1>3. QED
  BY <1>1, <1>2, TypeInit, TypeStep, PlainStep, PTL DEF Spec

=============================================================================
