---------------------------- MODULE SmtpAttachments ----------------------------
(***************************************************************************)
(* The attachments of mails.  BE_SMTPAddAttachment writes a container to a *)
(* temporary file that carries the container's own name and adds its path  *)
(* to the thread's list; given a path instead it does the same with no     *)
(* data and the path for a name.  BE_SMTPSend adds paths of user's files,  *)
(* renders the message from the files and, whatever happened, removes the  *)
(* temporary files and empties the list.  The lists are thread_local, the  *)
(* directory SMTP_Attachments is one for all threads and processes of the  *)
(* user: two attachments of one name are one file.                         *)
(*                                                                         *)
(* Abstracted: the data of a container is the number of the call that gave *)
(* it, a file is the number of the call that created it, and the order of  *)
(* a list of attachments (which no property tells apart) is left out.      *)
(* The file system is POSIX's: an open file survives its removal.          *)
(***************************************************************************)
EXTENDS Integers

CONSTANTS
    Sessions,       \* the threads that run scripts, of one or more processes
    Names,          \* what attachments are called: paths in SMTP_Attachments
    UserFiles,      \* paths of files elsewhere that a script attaches
    MaxAttachments  \* bound on the calls of BE_SMTPAddAttachment

ASSUME MaxAttachmentsAssumption == MaxAttachments \in Nat
ASSUME PathsAssumption == Names \cap UserFiles = {}

None == 0
Attachment == 1..MaxAttachments
Origin == Attachment \cup {None}
Entry == [path : Names, id : Attachment] \cup [path : UserFiles, id : {None}]
Temporary == [path : Names, id : Attachment, file : Attachment]
Part == Temporary \cup [path : UserFiles, id : {None}, file : {None}]

VARIABLES
    made,       \* the number of calls of BE_SMTPAddAttachment so far
    disk,       \* for every temporary path, the file there (None: none)
    content,    \* for every file, whose data it holds (None: empty or partial)
    user_files, \* the user's files that exist
    by_path,    \* the attachments that are given as a path, so without data
    step,       \* where the thread is
    job,        \* the attachment it is writing, and to which file
    files,      \* BESMTPContainerAttachments::files
    opened,     \* the FilePartSources of the message it is composing
    mail,       \* the parts of the message it is sending, with their data
    (* History variables, read by properties only. *)
    asked,      \* what the script attached since the latest mail
    disturbed,  \* attachments whose name another one had at the same time
    left_behind \* temporary paths of attempts to write or remove that failed

shared == <<made, disk, content, user_files, by_path>>
local == <<step, job, files, opened, mail>>
history == <<asked, disturbed, left_behind>>
vars == <<shared, local, history>>

NoJob == [path |-> "none", id |-> None, file |-> None]
Steps == {"ready", "writing", "composing", "sending", "clearing"}

TypeOK ==
    /\ made \in Origin
    /\ disk \in [Names -> Origin]
    /\ content \in [Attachment -> Origin]
    /\ user_files \subseteq UserFiles
    /\ by_path \subseteq Attachment
    /\ step \in [Sessions -> Steps]
    /\ job \in [Sessions -> Temporary \cup {NoJob}]
    /\ files \in [Sessions -> SUBSET Entry]
    /\ opened \in [Sessions -> SUBSET Part]
    /\ mail \in [Sessions -> SUBSET [id : Origin, got : Origin]]
    /\ asked \in [Sessions -> SUBSET Attachment]
    /\ disturbed \subseteq Attachment
    /\ left_behind \subseteq Names

Init ==
    /\ made = 0
    /\ disk = [n \in Names |-> None]
    /\ content = [f \in Attachment |-> None]
    /\ user_files = UserFiles
    /\ by_path = {}
    /\ step = [s \in Sessions |-> "ready"]
    /\ job = [s \in Sessions |-> NoJob]
    /\ files = [s \in Sessions |-> {}]
    /\ opened = [s \in Sessions |-> {}]
    /\ mail = [s \in Sessions |-> {}]
    /\ asked = [s \in Sessions |-> {}]
    /\ disturbed = {}
    /\ left_behind = {}

-----------------------------------------------------------------------------
(* BE_SMTPAddAttachment: write_to_file, then push_back. *)

\* The attachments of path n that have a place in a list or are being written.
Rivals(n) ==
    {a \in Attachment : \E s \in Sessions :
        \/ [path |-> n, id |-> a] \in files[s]
        \/ step[s] = "writing" /\ job[s].path = n /\ job[s].id = a}

\* The stream opens the file there, or creates one, and truncates it.
FileFor(n, new) == IF disk[n] = None THEN new ELSE disk[n]

\* The data that write_to_file gets for an attachment.
DataGiven(id) == IF id \in by_path THEN None ELSE id

\* A container is written with its data; for a path the contents stay empty.  (A
\* path that makes no file name below the directory, one with a drive letter for
\* instance, is an error that changes nothing here.)
OpenForWriting(s, n, container) ==
    LET id == made + 1
        file == FileFor(n, id)
    IN  /\ step[s] = "ready"
        /\ made < MaxAttachments
        /\ made' = id
        /\ disk' = [disk EXCEPT ![n] = file]
        /\ content' = [content EXCEPT ![file] = None]
        /\ job' = [job EXCEPT ![s] = [path |-> n, id |-> id, file |-> file]]
        /\ step' = [step EXCEPT ![s] = "writing"]
        /\ disturbed' = disturbed \cup
               (IF Rivals(n) = {} THEN {} ELSE Rivals(n) \cup {id})
        /\ by_path' = IF container THEN by_path ELSE by_path \cup {id}
        /\ left_behind' = left_behind \ {n}
        /\ UNCHANGED <<user_files, files, opened, mail, asked>>

FinishWriting(s) ==
    /\ step[s] = "writing"
    /\ content' = [content EXCEPT ![job[s].file] = DataGiven(job[s].id)]
    /\ files' = [files EXCEPT ![s] = @ \cup {[path |-> job[s].path, id |-> job[s].id]}]
    /\ asked' = [asked EXCEPT ![s] = @ \cup {job[s].id}]
    /\ job' = [job EXCEPT ![s] = NoJob]
    /\ step' = [step EXCEPT ![s] = "ready"]
    /\ UNCHANGED <<made, disk, user_files, by_path, opened, mail, disturbed, left_behind>>

\* The disk is full, say: the error is returned and nothing removes the file.
FailWriting(s) ==
    /\ step[s] = "writing"
    /\ left_behind' = left_behind \cup {job[s].path}
    /\ job' = [job EXCEPT ![s] = NoJob]
    /\ step' = [step EXCEPT ![s] = "ready"]
    /\ UNCHANGED <<shared, files, opened, mail, asked, disturbed>>

-----------------------------------------------------------------------------
(* BE_SMTPSend: paths of the user's files join the list, which is copied to *)
(* the message; rendering opens every file, then reads them all.            *)

StartSend(s, paths) ==
    /\ step[s] = "ready"
    /\ files' = [files EXCEPT ![s] = @ \cup {[path |-> p, id |-> None] : p \in paths}]
    /\ step' = [step EXCEPT ![s] = "composing"]
    /\ UNCHANGED <<shared, job, opened, mail, history>>

Exists(p) == p \in user_files \/ (p \in Names /\ disk[p] # None)

FileAt(p) == IF p \in Names THEN disk[p] ELSE None

\* add_attachments: a FilePartSource opens the file of the next attachment.
OpenNext(s, e) ==
    /\ step[s] = "composing"
    /\ e \in files[s]
    /\ \A o \in opened[s] : <<o.path, o.id>> # <<e.path, e.id>>
    /\ Exists(e.path)
    /\ opened' = [opened EXCEPT ![s] = @ \cup
           {[path |-> e.path, id |-> e.id, file |-> FileAt(e.path)]}]
    /\ UNCHANGED <<shared, step, job, files, mail, history>>

\* Mutant: the list is cleared only after a mail that was sent.
AfterAbandon == "ready"

\* clear is called whether or not the mail was sent.
AfterFailure == "clearing"

\* A file that is missing, no recipient, a parameter that cannot be read or a
\* lack of memory: there is no message.
AbandonSend(s) ==
    /\ step[s] = "composing"
    /\ opened' = [opened EXCEPT ![s] = {}]
    /\ asked' = [asked EXCEPT ![s] = {}]
    /\ step' = [step EXCEPT ![s] = AfterFailure]
    /\ UNCHANGED <<shared, job, files, mail, disturbed, left_behind>>

DataOf(f) == IF f = None THEN None ELSE content[f]

\* message.write reads the open files into the text that is sent.
Render(s) ==
    /\ step[s] = "composing"
    /\ \A e \in files[s] : \E o \in opened[s] : o.path = e.path /\ o.id = e.id
    /\ mail' = [mail EXCEPT ![s] = {[id |-> o.id, got |-> DataOf(o.file)] : o \in opened[s]}]
    /\ step' = [step EXCEPT ![s] = "sending"]
    /\ UNCHANGED <<shared, job, files, opened, history>>

\* The transfer is over, with or without success, and the message destroyed.
EndSend(s) ==
    /\ step[s] = "sending"
    /\ opened' = [opened EXCEPT ![s] = {}]
    /\ mail' = [mail EXCEPT ![s] = {}]
    /\ asked' = [asked EXCEPT ![s] = {}]
    /\ step' = [step EXCEPT ![s] = "clearing"]
    /\ UNCHANGED <<shared, job, files, disturbed, left_behind>>

-----------------------------------------------------------------------------
(* clear: at the end of BE_SMTPSend, by BE_SMTPAddAttachment without        *)
(* parameters, and by the destructor when the thread ends.                  *)

StartClear(s) ==
    /\ step[s] = "ready"
    /\ asked' = [asked EXCEPT ![s] = {}]
    /\ step' = [step EXCEPT ![s] = "clearing"]
    /\ UNCHANGED <<shared, job, files, opened, mail, disturbed, left_behind>>

\* Mutant: every path of the list is removed, wherever it is.
RemoveAnywhere(p) ==
    /\ disk' = [n \in Names |-> IF n = p THEN None ELSE disk[n]]
    /\ user_files' = user_files \ {p}

\* Only a path that begins with the temporary directory is removed.
RemoveTemporary(p) ==
    /\ disk' = [n \in Names |-> IF n = p THEN None ELSE disk[n]]
    /\ UNCHANGED user_files

ClearNext(s, e) ==
    /\ step[s] = "clearing"
    /\ e \in files[s]
    /\ RemoveTemporary(e.path)
    /\ left_behind' = left_behind \ {e.path}
    /\ files' = [files EXCEPT ![s] = @ \ {e}]
    /\ UNCHANGED <<made, content, by_path, step, job, opened, mail, asked, disturbed>>

\* remove throws: g_last_error is set and the loop goes on.
FailToClear(s, e) ==
    /\ step[s] = "clearing"
    /\ e \in files[s]
    /\ e.path \in Names
    /\ disk[e.path] # None
    /\ left_behind' = left_behind \cup {e.path}
    /\ files' = [files EXCEPT ![s] = @ \ {e}]
    /\ UNCHANGED <<shared, step, job, opened, mail, asked, disturbed>>

EndClear(s) ==
    /\ step[s] = "clearing"
    /\ files[s] = {}
    /\ step' = [step EXCEPT ![s] = "ready"]
    /\ UNCHANGED <<shared, job, files, opened, mail, history>>

-----------------------------------------------------------------------------
Next ==
    \E s \in Sessions :
        \/ \E n \in Names, container \in BOOLEAN : OpenForWriting(s, n, container)
        \/ FinishWriting(s)
        \/ FailWriting(s)
        \/ \E paths \in SUBSET UserFiles : StartSend(s, paths)
        \/ \E e \in files[s] : OpenNext(s, e)
        \/ AbandonSend(s)
        \/ Render(s)
        \/ EndSend(s)
        \/ StartClear(s)
        \/ \E e \in files[s] : ClearNext(s, e)
        \/ \E e \in files[s] : FailToClear(s, e)
        \/ EndClear(s)

Spec == Init /\ [][Next]_vars

-----------------------------------------------------------------------------
(* A mail has as attachments exactly what the script gave since its latest  *)
(* mail or clear, sent or not.  Each container has the data it was given,   *)
(* and each path is an empty file (the change log says it is the file),     *)
(* except (disturbed) where another attachment of the same name was about   *)
(* at the same time and both are one file, be it of one script that adds    *)
(* two, as BE_SMTPAddAttachment.md lets it, or of two (add, clear,          *)
(* add_attachments and the clear at the end of BE_SMTPSend).                *)
MailCarriesItsAttachments ==
    \A s \in Sessions : step[s] = "sending" =>
        /\ {m.id : m \in mail[s]} \ {None} = asked[s]
        /\ \A m \in mail[s] : m.id \in disturbed \/ m.got = DataGiven(m.id)

(* clear removes every temporary file of a list and nothing else: the       *)
(* user's files stay, and a temporary file is still in a list, or being     *)
(* written, or was left by a write or a removal that failed.                *)
CleanUpIsExact ==
    /\ user_files = UserFiles
    /\ \A n \in Names : disk[n] # None =>
           \/ n \in left_behind
           \/ \E s \in Sessions : \E e \in files[s] : e.path = n
           \/ \E s \in Sessions : step[s] = "writing" /\ job[s].path = n

=============================================================================
