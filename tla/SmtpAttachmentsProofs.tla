------------------------- MODULE SmtpAttachmentsProofs -------------------------
(* Proofs about SmtpAttachments, for any sessions, names and bound. *)
EXTENDS SmtpAttachments, TLAPS

\* A thread that is writing knows what.
JobIsKnown == \A s \in Sessions : step[s] = "writing" => job[s] \in Temporary

\* The attachments a session answers for: those in its list, and the one it writes.
Listed(s) == {e \in files[s] : e.id # None}
Pending(s) == {e \in {[path |-> job[s].path, id |-> job[s].id]} : step[s] = "writing"}
Live(s) == Listed(s) \cup Pending(s)

\* An attachment is live once, and two of one path are disturbed.
LiveInv ==
    /\ \A s \in Sessions : \A a \in Live(s) :
           a.path \in Names /\ a.id \in Attachment /\ a.id <= made
    /\ \A s, t \in Sessions : \A a \in Live(s), b \in Live(t) :
           a.id = b.id => s = t /\ a = b
    /\ \A s, t \in Sessions : \A a \in Live(s), b \in Live(t) :
           a.path = b.path /\ a.id # b.id => a.id \in disturbed
    /\ \A s \in Sessions : Listed(s) \cap Pending(s) = {}

\* A file has one path at a time, and a file being written its own or none.
DiskInv ==
    /\ \A n \in Names : disk[n] <= made
    /\ \A m, n \in Names : disk[m] = disk[n] /\ disk[m] # None => m = n
    /\ \A s \in Sessions : step[s] = "writing" =>
           /\ job[s].file <= made
           /\ \A n \in Names : disk[n] = job[s].file => n = job[s].path

\* How an attachment was given is settled with the call that made it.
GivenInv == \A a \in by_path : a <= made

\* A listed attachment that is not disturbed is on the disk, with its data.
Intact ==
    \A s \in Sessions : \A a \in Listed(s) : a.id \notin disturbed =>
        disk[a.path] # None /\ content[disk[a.path]] = DataGiven(a.id)

\* The file being written is on the disk, if nobody disturbs it.
JobHere ==
    \A s \in Sessions : step[s] = "writing" /\ job[s].id \notin disturbed =>
        disk[job[s].path] = job[s].file

\* So is a file that a message holds open.
OpenedHere ==
    \A s \in Sessions : step[s] = "composing" => \A o \in opened[s] :
        o.id # None /\ o.id \notin disturbed => o.file = disk[o.path]

DataInv == Intact /\ JobHere /\ OpenedHere

\* What the script attached is in the list, and what is open is in the list.
ListInv ==
    \A s \in Sessions :
        /\ step[s] = "clearing" => asked[s] = {}
        /\ step[s] # "clearing" => asked[s] = {e.id : e \in Listed(s)}
        /\ step[s] = "composing" =>
               \A o \in opened[s] : [path |-> o.path, id |-> o.id] \in files[s]
        /\ step[s] \in {"ready", "writing", "clearing"} => opened[s] = {}

\* Mails carry their attachments because of all this.
Inv == LiveInv /\ DiskInv /\ GivenInv /\ DataInv /\ ListInv /\ MailCarriesItsAttachments

-----------------------------------------------------------------------------
(* The set of actions, so that each proof names them once. *)

Facts == TypeOK /\ JobIsKnown

\* Types and jobs are right initially.
LEMMA FactsInit == Init => Facts
<1> SUFFICES ASSUME Init PROVE Facts
  OBVIOUS
<1>1. None \in Origin
  BY DEF Origin
<1>2. TypeOK
  <2>1. /\ made \in Origin /\ disk \in [Names -> Origin] /\ content \in [Attachment -> Origin]
        /\ user_files \subseteq UserFiles /\ by_path \subseteq Attachment
    BY <1>1 DEF Init, None
  <2>2. /\ step \in [Sessions -> Steps]
        /\ job \in [Sessions -> Temporary \cup {NoJob}]
        /\ files \in [Sessions -> SUBSET Entry]
        /\ opened \in [Sessions -> SUBSET Part]
    BY DEF Init, Steps
  <2>3. mail \in [Sessions -> SUBSET [id : Origin, got : Origin]]
    BY DEF Init
  <2>4. QED
    BY <2>1, <2>2, <2>3 DEF Init, TypeOK
<1>3. JobIsKnown
  BY DEF Init, JobIsKnown
<1>4. QED
  BY <1>2, <1>3 DEF Facts

\* Every step keeps them right.
LEMMA FactsStep == Facts /\ [Next]_vars => Facts'
<1> SUFFICES ASSUME Facts, [Next]_vars PROVE Facts'
  OBVIOUS
<1> USE DEF Facts, TypeOK, JobIsKnown
<1>1. None \in Origin /\ Attachment \subseteq Origin /\ MaxAttachments \in Nat
  BY MaxAttachmentsAssumption DEF Origin
<1>2. ASSUME NEW s \in Sessions, NEW n \in Names, NEW container \in BOOLEAN,
             OpenForWriting(s, n, container)
      PROVE Facts'
  <2> DEFINE file == FileFor(n, made + 1)
  <2>1. made \in Nat /\ made + 1 \in Attachment
    BY <1>1, <1>2 DEF OpenForWriting, Origin, Attachment, None
  <2>2. file \in Attachment
    BY <2>1 DEF FileFor, Origin
  <2>3. /\ made' = made + 1
        /\ disk' = [disk EXCEPT ![n] = file]
        /\ content' = [content EXCEPT ![file] = None]
        /\ job' = [job EXCEPT ![s] = [path |-> n, id |-> made + 1, file |-> file]]
        /\ step' = [step EXCEPT ![s] = "writing"]
        /\ left_behind' = left_behind \ {n}
        /\ UNCHANGED <<user_files, files, opened, mail, asked>>
    BY <1>2 DEF OpenForWriting
  <2>4. disturbed' \subseteq Attachment /\ by_path' \subseteq Attachment
    BY <1>2, <2>1 DEF OpenForWriting, Rivals
  <2> HIDE DEF file
  <2>5. [path |-> n, id |-> made + 1, file |-> file] \in Temporary
    BY <2>1, <2>2 DEF Temporary
  <2>6. /\ made' \in Origin /\ disk' \in [Names -> Origin]
        /\ content' \in [Attachment -> Origin]
        /\ job' \in [Sessions -> Temporary \cup {NoJob}]
    BY <1>1, <2>1, <2>2, <2>3, <2>5
  <2>7. step' \in [Sessions -> Steps] /\ left_behind' \subseteq Names
    BY <2>3 DEF Steps
  <2>8. JobIsKnown'
    BY <2>3, <2>5
  <2>9. QED
    BY <2>3, <2>4, <2>6, <2>7, <2>8
<1>3. ASSUME NEW s \in Sessions, FinishWriting(s) PROVE Facts'
  <2>1. job[s] \in Temporary
    BY <1>3 DEF FinishWriting
  <2>2. job[s].id \in Attachment /\ job[s].file \in Attachment /\ job[s].path \in Names
    BY <2>1 DEF Temporary
  <2>3. [path |-> job[s].path, id |-> job[s].id] \in Entry
    BY <2>2 DEF Entry
  <2>4. content' \in [Attachment -> Origin]
    BY <1>1, <1>3, <2>2 DEF FinishWriting, DataGiven
  <2>5. files' \in [Sessions -> SUBSET Entry] /\ asked' \in [Sessions -> SUBSET Attachment]
    BY <1>3, <2>2, <2>3 DEF FinishWriting
  <2>6. step' \in [Sessions -> Steps] /\ job' \in [Sessions -> Temporary \cup {NoJob}]
    BY <1>3 DEF FinishWriting, Steps
  <2>7. QED
    BY <1>3, <2>4, <2>5, <2>6 DEF FinishWriting
<1>4. ASSUME NEW s \in Sessions, FailWriting(s) PROVE Facts'
  <2>1. job[s].path \in Names
    BY <1>4 DEF FailWriting, Temporary
  <2>2. QED
    BY <1>4, <2>1 DEF FailWriting, Steps, shared
<1>5. ASSUME NEW s \in Sessions, NEW paths \in SUBSET UserFiles, StartSend(s, paths)
      PROVE Facts'
  <2>1. {[path |-> p, id |-> None] : p \in paths} \subseteq Entry
    BY DEF Entry
  <2>2. files' \in [Sessions -> SUBSET Entry]
    BY <1>5, <2>1 DEF StartSend
  <2>3. QED
    BY <1>5, <2>2 DEF StartSend, Steps, shared, history
<1>6. ASSUME NEW s \in Sessions, NEW e \in files[s], OpenNext(s, e) PROVE Facts'
  <2>1. e \in Entry
    OBVIOUS
  <2>2. [path |-> e.path, id |-> e.id, file |-> FileAt(e.path)] \in Part
    <3>1. CASE e \in [path : Names, id : Attachment]
      BY <1>6, <3>1, PathsAssumption
         DEF OpenNext, Exists, FileAt, Part, Temporary, Origin
    <3>2. CASE e \in [path : UserFiles, id : {None}]
      BY <3>2, PathsAssumption DEF FileAt, Part
    <3>3. QED
      BY <2>1, <3>1, <3>2 DEF Entry
  <2>3. opened' \in [Sessions -> SUBSET Part]
    BY <1>6, <2>2 DEF OpenNext
  <2>4. QED
    BY <1>6, <2>3 DEF OpenNext, shared, history
<1>7. ASSUME NEW s \in Sessions, AbandonSend(s) PROVE Facts'
  BY <1>7 DEF AbandonSend, AfterFailure, Steps, shared
<1>8. ASSUME NEW s \in Sessions, Render(s) PROVE Facts'
  <2>1. \A o \in opened[s] : o.id \in Origin /\ DataOf(o.file) \in Origin
    BY <1>1 DEF Part, Temporary, DataOf
  <2>2. {[id |-> o.id, got |-> DataOf(o.file)] : o \in opened[s]}
            \subseteq [id : Origin, got : Origin]
    BY <2>1
  <2>3. mail' \in [Sessions -> SUBSET [id : Origin, got : Origin]]
    BY <1>8, <2>2 DEF Render
  <2>4. QED
    BY <1>8, <2>3 DEF Render, Steps, shared, history
<1>9. ASSUME NEW s \in Sessions, EndSend(s) PROVE Facts'
  BY <1>9 DEF EndSend, Steps, shared
<1>10. ASSUME NEW s \in Sessions, StartClear(s) PROVE Facts'
  BY <1>10 DEF StartClear, Steps, shared
<1>11. ASSUME NEW s \in Sessions, NEW e \in files[s], ClearNext(s, e) PROVE Facts'
  <2>1. disk' \in [Names -> Origin]
    BY <1>1, <1>11 DEF ClearNext, RemoveTemporary
  <2>2. files' \in [Sessions -> SUBSET Entry] /\ left_behind' \subseteq Names
    BY <1>11 DEF ClearNext
  <2>3. QED
    BY <1>11, <2>1, <2>2 DEF ClearNext, RemoveTemporary
<1>12. ASSUME NEW s \in Sessions, NEW e \in files[s], FailToClear(s, e) PROVE Facts'
  <2>1. files' \in [Sessions -> SUBSET Entry] /\ left_behind' \subseteq Names
    BY <1>12 DEF FailToClear
  <2>2. QED
    BY <1>12, <2>1 DEF FailToClear, shared
<1>13. ASSUME NEW s \in Sessions, EndClear(s) PROVE Facts'
  BY <1>13 DEF EndClear, Steps, shared, history
<1>14. CASE UNCHANGED vars
  BY <1>14 DEF vars, shared, local, history
<1>15. QED
  BY <1>2, <1>3, <1>4, <1>5, <1>6, <1>7, <1>8, <1>9, <1>10, <1>11, <1>12, <1>13, <1>14
     DEF Next

(* The types of the attachments: what is written, listed, opened and sent,  *)
(* and by which thread (the whole of BESMTPContainerAttachments).           *)
THEOREM AttachmentTypes == Spec => []TypeOK
<1>1. Facts => TypeOK
  BY DEF Facts
<1>2. QED
  BY <1>1, FactsInit, FactsStep, PTL DEF Spec

-----------------------------------------------------------------------------
(* Why a file in the temporary directory is there. *)

Kept(n) ==
    \/ n \in left_behind
    \/ \E s \in Sessions : \E e \in files[s] : e.path = n
    \/ \E s \in Sessions : step[s] = "writing" /\ job[s].path = n

\* Every step keeps the clean-up exact.
LEMMA CleanUpStep == Facts /\ CleanUpIsExact /\ [Next]_vars => CleanUpIsExact'
<1> SUFFICES ASSUME Facts, CleanUpIsExact, [Next]_vars PROVE CleanUpIsExact'
  OBVIOUS
<1> USE DEF Facts, TypeOK, JobIsKnown
<1>0. user_files = UserFiles /\ \A n \in Names : disk[n] # None => Kept(n)
  BY DEF CleanUpIsExact, Kept
<1>1. SUFFICES user_files' = UserFiles /\ \A m \in Names : disk'[m] # None => Kept(m)'
  BY DEF CleanUpIsExact, Kept
<1>2. ASSUME NEW s \in Sessions, NEW n \in Names, NEW container \in BOOLEAN,
             OpenForWriting(s, n, container)
      PROVE user_files' = UserFiles /\ \A m \in Names : disk'[m] # None => Kept(m)'
  <2>1. Kept(n)'
    BY <1>2 DEF OpenForWriting, Kept
  <2>2. ASSUME NEW m \in Names, m # n, disk'[m] # None PROVE Kept(m)'
    <3>1. Kept(m)
      BY <1>0, <1>2, <2>2 DEF OpenForWriting
    <3>2. \A t \in Sessions : step[t] = "writing" =>
              t # s /\ step'[t] = "writing" /\ job'[t] = job[t]
      BY <1>2 DEF OpenForWriting
    <3>3. QED
      BY <1>2, <2>2, <3>1, <3>2 DEF OpenForWriting, Kept
  <2>3. QED
    BY <1>0, <1>2, <2>1, <2>2 DEF OpenForWriting
<1>3. ASSUME NEW s \in Sessions, FinishWriting(s)
      PROVE user_files' = UserFiles /\ \A m \in Names : disk'[m] # None => Kept(m)'
  <2>1. \A t \in Sessions : files[t] \subseteq files'[t]
    BY <1>3 DEF FinishWriting
  <2>2. \E e \in files'[s] : e.path = job[s].path
    <3>1. [path |-> job[s].path, id |-> job[s].id] \in files'[s]
      BY <1>3 DEF FinishWriting
    <3>2. QED
      BY <3>1
  <2>3. \A t \in Sessions : t # s /\ step[t] = "writing" =>
            step'[t] = "writing" /\ job'[t] = job[t]
    BY <1>3 DEF FinishWriting
  <2>4. \A m \in Names : Kept(m) => Kept(m)'
    BY <1>3, <2>1, <2>2, <2>3 DEF FinishWriting, Kept
  <2>5. QED
    BY <1>0, <1>3, <2>4 DEF FinishWriting
<1>4. ASSUME NEW s \in Sessions, FailWriting(s)
      PROVE user_files' = UserFiles /\ \A m \in Names : disk'[m] # None => Kept(m)'
  <2>1. \A t \in Sessions : t # s /\ step[t] = "writing" =>
            step'[t] = "writing" /\ job'[t] = job[t]
    BY <1>4 DEF FailWriting
  <2>2. \A m \in Names : Kept(m) => Kept(m)'
    BY <1>4, <2>1 DEF FailWriting, Kept
  <2>3. QED
    BY <1>0, <1>4, <2>2 DEF FailWriting, shared
<1>5. ASSUME NEW s \in Sessions, NEW paths \in SUBSET UserFiles, StartSend(s, paths)
      PROVE user_files' = UserFiles /\ \A m \in Names : disk'[m] # None => Kept(m)'
  <2>1. \A t \in Sessions : files[t] \subseteq files'[t]
    BY <1>5 DEF StartSend
  <2>2. \A t \in Sessions : step[t] = "writing" => step'[t] = "writing"
    BY <1>5 DEF StartSend
  <2>3. \A m \in Names : Kept(m) => Kept(m)'
    BY <1>5, <2>1, <2>2 DEF StartSend, Kept, history
  <2>4. QED
    BY <1>0, <1>5, <2>3 DEF StartSend, shared
<1>6. ASSUME UNCHANGED <<disk, user_files, files, job, left_behind>>,
             \A t \in Sessions : step[t] = "writing" => step'[t] = "writing"
      PROVE user_files' = UserFiles /\ \A m \in Names : disk'[m] # None => Kept(m)'
  BY <1>0, <1>6 DEF Kept
<1>7. ASSUME NEW s \in Sessions, NEW e \in files[s], ClearNext(s, e)
      PROVE user_files' = UserFiles /\ \A m \in Names : disk'[m] # None => Kept(m)'
  <2>1. user_files' = user_files
    BY <1>7 DEF ClearNext, RemoveTemporary
  <2>2. ASSUME NEW m \in Names, disk'[m] # None PROVE Kept(m)'
    <3>1. m # e.path /\ disk[m] # None
      BY <1>7, <2>2 DEF ClearNext, RemoveTemporary
    <3>2. \A t \in Sessions : \A a \in files[t] : a.path = m => a \in files'[t]
      BY <1>7, <3>1 DEF ClearNext
    <3>3. QED
      BY <1>0, <1>7, <3>1, <3>2 DEF ClearNext, Kept
  <2>3. QED
    BY <1>0, <2>1, <2>2
<1>8. ASSUME NEW s \in Sessions, NEW e \in files[s], FailToClear(s, e)
      PROVE user_files' = UserFiles /\ \A m \in Names : disk'[m] # None => Kept(m)'
  <2>1. \A m \in Names : m # e.path => \A t \in Sessions : \A a \in files[t] :
            a.path = m => a \in files'[t]
    BY <1>8 DEF FailToClear
  <2>2. \A m \in Names : Kept(m) => Kept(m)'
    BY <1>8, <2>1 DEF FailToClear, Kept
  <2>3. QED
    BY <1>0, <1>8, <2>2 DEF FailToClear, shared
<1>9. ASSUME NEW s \in Sessions, NEW e \in files[s], OpenNext(s, e)
      PROVE user_files' = UserFiles /\ \A m \in Names : disk'[m] # None => Kept(m)'
  BY <1>6, <1>9 DEF OpenNext, shared, history
<1>10. ASSUME NEW s \in Sessions, AbandonSend(s) \/ Render(s) \/ EndSend(s)
       PROVE user_files' = UserFiles /\ \A m \in Names : disk'[m] # None => Kept(m)'
  BY <1>6, <1>10 DEF AbandonSend, Render, EndSend, AfterFailure, shared, history
<1>11. ASSUME NEW s \in Sessions, StartClear(s) \/ EndClear(s)
       PROVE user_files' = UserFiles /\ \A m \in Names : disk'[m] # None => Kept(m)'
  BY <1>6, <1>11 DEF StartClear, EndClear, shared, history
<1>12. CASE UNCHANGED vars
  BY <1>6, <1>12 DEF vars, shared, local, history
<1>13. QED
  BY <1>2, <1>3, <1>4, <1>5, <1>7, <1>8, <1>9, <1>10, <1>11, <1>12 DEF Next

(* clear removes every temporary file of a list and nothing else, whoever   *)
(* works in the directory at the same time.                                 *)
THEOREM CleanUpExact == Spec => []CleanUpIsExact
<1>1. Init => CleanUpIsExact
  BY DEF Init, CleanUpIsExact
<1>2. QED
  BY <1>1, FactsInit, FactsStep, CleanUpStep, PTL DEF Spec

-----------------------------------------------------------------------------
(* Which attachments are live, and that two of one path are disturbed. *)

\* A step after which no more is live than before keeps what is known of the
\* live ones.
LEMMA LiveShrinks ==
    ASSUME LiveInv, made' = made, disturbed' = disturbed,
           \A t \in Sessions : Live(t)' \subseteq Live(t),
           \A t \in Sessions : Listed(t)' \cap Pending(t)' = {}
    PROVE  LiveInv'
BY DEF LiveInv

\* A step that only moves a thread along changes nothing that is live.
LEMMA QuietStep ==
    ASSUME Facts, Inv,
           UNCHANGED <<made, disk, content, by_path, job, disturbed>>,
           \A t \in Sessions : (step'[t] = "writing") <=> (step[t] = "writing"),
           \A t \in Sessions : Listed(t)' = Listed(t)
    PROVE  LiveInv' /\ DiskInv' /\ Intact' /\ JobHere'
<1>1. \A t \in Sessions : Pending(t)' = Pending(t)
  BY DEF Pending
<1>2. \A t \in Sessions : Live(t)' = Live(t)
  BY <1>1 DEF Live
<1>3. LiveInv'
  <2>1. \A t \in Sessions : Live(t)' \subseteq Live(t)
    BY <1>2
  <2>2. \A t \in Sessions : Listed(t)' \cap Pending(t)' = {}
    BY <1>1 DEF Inv, LiveInv
  <2>3. QED
    BY <2>1, <2>2, LiveShrinks DEF Inv
<1>4. DiskInv'
  BY DEF Inv, DiskInv
<1>5. Intact'
  BY DEF Inv, DataInv, Intact, DataGiven
<1>6. JobHere'
  BY DEF Inv, DataInv, JobHere
<1>7. QED
  BY <1>3, <1>4, <1>5, <1>6

\* Types, as far as the following lemmas need them.
LEMMA LiveTypes ==
    ASSUME Facts
    PROVE  /\ made \in Nat
           /\ \A n \in Names : disk[n] \in Nat /\ (disk[n] # None => disk[n] \in Attachment)
           /\ \A s \in Sessions : step[s] = "writing" =>
                  /\ job[s].path \in Names
                  /\ job[s].id \in Attachment /\ job[s].file \in Attachment
           /\ \A s \in Sessions : \A e \in Listed(s) : e.path \in Names /\ e.id \in Attachment
           /\ \A s \in Sessions : Pending(s) =
                  IF step[s] = "writing" THEN {[path |-> job[s].path, id |-> job[s].id]} ELSE {}
<1> USE DEF Facts, TypeOK, JobIsKnown
<1>1. None \in Nat /\ Attachment \subseteq Nat /\ Origin \subseteq Nat
  BY MaxAttachmentsAssumption DEF None, Attachment, Origin
<1>2. made \in Nat /\ \A n \in Names : disk[n] \in Nat /\ (disk[n] # None => disk[n] \in Attachment)
  BY <1>1 DEF Origin
<1>3. \A s \in Sessions : step[s] = "writing" =>
          job[s].path \in Names /\ job[s].id \in Attachment /\ job[s].file \in Attachment
  BY DEF Temporary
<1>4. \A s \in Sessions : \A e \in Listed(s) : e.path \in Names /\ e.id \in Attachment
  BY DEF Listed, Entry
<1>5. \A s \in Sessions : Pending(s) =
          IF step[s] = "writing" THEN {[path |-> job[s].path, id |-> job[s].id]} ELSE {}
  BY DEF Pending
<1>6. QED
  BY <1>2, <1>3, <1>4, <1>5

\* What an attachment was given stays what it is.
LEMMA GivenStep ==
    ASSUME Facts, GivenInv, [Next]_vars
    PROVE  GivenInv' /\ \A id \in Origin : id <= made => DataGiven(id)' = DataGiven(id)
<1>1. made \in Nat
  BY LiveTypes
<1>2. CASE UNCHANGED <<made, by_path>>
  BY <1>2 DEF GivenInv, DataGiven
<1>3. ASSUME NEW s \in Sessions, NEW n \in Names, NEW container \in BOOLEAN,
             OpenForWriting(s, n, container)
      PROVE  GivenInv' /\ \A id \in Origin : id <= made => DataGiven(id)' = DataGiven(id)
  <2>1. made' = made + 1 /\ by_path' \in {by_path, by_path \cup {made + 1}}
    BY <1>3 DEF OpenForWriting
  <2>2. \A id \in Origin : id \in Int
    BY MaxAttachmentsAssumption DEF Origin, Attachment, None
  <2>3. by_path \subseteq Origin
    BY DEF Facts, TypeOK, Origin
  <2>4. GivenInv'
    BY <1>1, <2>1, <2>2, <2>3 DEF GivenInv
  <2>5. \A id \in Origin : id <= made => (id \in by_path' <=> id \in by_path)
    BY <1>1, <2>1, <2>2
  <2>6. QED
    BY <2>4, <2>5 DEF DataGiven
<1>4. QED
  BY <1>2, <1>3
     DEF Next, FinishWriting, FailWriting, StartSend, OpenNext, AbandonSend, Render, EndSend,
         StartClear, ClearNext, RemoveTemporary, FailToClear, EndClear, vars, shared

\* A new attachment disturbs those of its name, and no others.
LEMMA OpenForWritingStep ==
    ASSUME Facts, Inv, NEW s \in Sessions, NEW n \in Names, NEW container \in BOOLEAN,
           OpenForWriting(s, n, container)
    PROVE  LiveInv' /\ DiskInv' /\ DataInv'
<1> DEFINE id == made + 1
           file == FileFor(n, id)
           new == [path |-> n, id |-> id]
<1>0. \A i \in Origin : i <= made => DataGiven(i)' = DataGiven(i)
  BY GivenStep DEF Inv, Next
<1>1. /\ step[s] = "ready" /\ made < MaxAttachments
      /\ made' = id
      /\ disk' = [disk EXCEPT ![n] = file]
      /\ content' = [content EXCEPT ![file] = None]
      /\ job' = [job EXCEPT ![s] = [path |-> n, id |-> id, file |-> file]]
      /\ step' = [step EXCEPT ![s] = "writing"]
      /\ disturbed' = disturbed \cup (IF Rivals(n) = {} THEN {} ELSE Rivals(n) \cup {id})
      /\ UNCHANGED <<files, opened>>
  BY DEF OpenForWriting
<1>2. made \in Nat /\ id \in Attachment /\ id > made /\ file \in Attachment /\ file # None
  BY <1>1, LiveTypes, MaxAttachmentsAssumption DEF FileFor, Attachment, None
<1>3. \A m \in Names : disk[m] \in Nat /\ (disk[m] # None => disk[m] \in Attachment) /\ disk[m] <= made
  BY LiveTypes DEF Inv, DiskInv
<1>4. \A t \in Sessions : \A a \in Live(t) :
          a.path \in Names /\ a.id \in Attachment /\ a.id <= made
  BY DEF Inv, LiveInv
<1>5. \A t \in Sessions : \A a \in Live(t) : a.path = n => a.id \in Rivals(n)
  <2>1. SUFFICES ASSUME NEW t \in Sessions, NEW a \in Live(t), a.path = n PROVE a.id \in Rivals(n)
    OBVIOUS
  <2>2. CASE a \in Listed(t)
    <3>1. a = [path |-> n, id |-> a.id]
      <4>1. a \in Entry
        BY <2>2 DEF Listed, Facts, TypeOK
      <4>2. QED
        BY <4>1, <2>1 DEF Entry
    <3>2. [path |-> n, id |-> a.id] \in files[t]
      BY <2>2, <3>1 DEF Listed
    <3>3. QED
      BY <1>4, <3>2 DEF Rivals
  <2>3. CASE a \in Pending(t)
    BY <1>4, <2>1, <2>3 DEF Pending, Rivals
  <2>4. QED
    BY <2>2, <2>3 DEF Live
<1>6. \A t \in Sessions : \A a \in Live(t) : a.path = n => a.id \in disturbed' /\ id \in disturbed'
  BY <1>1, <1>5
<1>7. \A t \in Sessions : Listed(t)' = Listed(t)
  BY <1>1 DEF Listed
<1>8. /\ Pending(s) = {} /\ Pending(s)' = {new}
      /\ \A t \in Sessions : t # s => Pending(t)' = Pending(t)
  BY <1>1 DEF Pending, Facts, TypeOK
<1>9. /\ Live(s)' = Live(s) \cup {new}
      /\ \A t \in Sessions : t # s => Live(t)' = Live(t)
  BY <1>7, <1>8 DEF Live
<1>10. disturbed \subseteq disturbed' /\ new.id = id /\ new.path = n
  BY <1>1
<1>11. \A m \in Names : m # n => disk'[m] = disk[m] /\ disk[m] # file
  <2>1. \A m \in Names : m # n => disk'[m] = disk[m]
    BY <1>1 DEF Facts, TypeOK
  <2>2. ASSUME NEW m \in Names, m # n, disk[m] = file PROVE FALSE
    BY <1>2, <1>3, <2>2 DEF FileFor, Inv, DiskInv
  <2>3. QED
    BY <2>1, <2>2
<1>12. disk'[n] = file /\ (file = disk[n] \/ file = id)
  BY <1>1 DEF FileFor, Facts, TypeOK
<1> HIDE DEF id, file, new
<1>13. LiveInv'
  <2>1. \A t \in Sessions : \A a \in Live(t)' : (a = new /\ t = s) \/ a \in Live(t)
    BY <1>9
  <2>2. \A t \in Sessions : \A a \in Live(t)' :
            a.path \in Names /\ a.id \in Attachment /\ a.id <= made'
    <3>1. \A t \in Sessions : \A a \in Live(t) : a.id <= id
      BY <1>2, <1>4 DEF id, Attachment
    <3>2. new.path \in Names /\ new.id \in Attachment /\ new.id <= id
      BY <1>2, <1>10 DEF id
    <3>3. QED
      BY <1>1, <1>4, <2>1, <3>1, <3>2
  <2>3. \A t \in Sessions : \A a \in Live(t) : a.id # id
    BY <1>2, <1>4 DEF Attachment
  <2>4. \A t, u \in Sessions : \A a \in Live(t)', b \in Live(u)' : a.id = b.id => t = u /\ a = b
    BY <1>10, <2>1, <2>3 DEF Inv, LiveInv
  <2>5. \A t, u \in Sessions : \A a \in Live(t)', b \in Live(u)' :
            a.path = b.path /\ a.id # b.id => a.id \in disturbed'
    BY <1>6, <1>10, <2>1 DEF Inv, LiveInv
  <2>6. \A t \in Sessions : Listed(t)' \cap Pending(t)' = {}
    <3>1. new \notin Listed(s)
      BY <1>10, <2>3 DEF Live
    <3>2. QED
      BY <1>7, <1>8, <3>1 DEF Inv, LiveInv
  <2>7. QED
    BY <2>2, <2>4, <2>5, <2>6 DEF LiveInv
<1>14. DiskInv'
  <2>1. \A m \in Names : disk'[m] <= made'
    <3>1. \A m \in Names : disk[m] <= id
      BY <1>2, <1>3 DEF id
    <3>2. id <= id
      BY <1>2 DEF Attachment
    <3>3. QED
      BY <1>1, <1>11, <1>12, <3>1, <3>2
  <2>2. \A l, m \in Names : disk'[l] = disk'[m] /\ disk'[l] # None => l = m
    BY <1>11, <1>12 DEF Inv, DiskInv
  <2>3. ASSUME NEW t \in Sessions, step'[t] = "writing"
        PROVE job'[t].file <= made' /\ \A m \in Names : disk'[m] = job'[t].file => m = job'[t].path
    <3>1. CASE t = s
      <4>1. job'[t].file = file /\ job'[t].path = n
        BY <1>1, <3>1 DEF Facts, TypeOK
      <4>2. file <= id
        BY <1>2, <1>3, <1>12 DEF id
      <4>3. QED
        BY <1>1, <1>11, <4>1, <4>2
    <3>2. CASE t # s
      <4>1. job'[t] = job[t] /\ step[t] = "writing"
        BY <1>1, <2>3, <3>2 DEF Facts, TypeOK
      <4>2. job[t].file <= made /\ job[t].file \in Nat
        BY <4>1, LiveTypes DEF Inv, DiskInv, Attachment
      <4>3. job[t].file <= id /\ job[t].file # id
        BY <1>2, <4>2 DEF id
      <4>4. \A m \in Names : disk'[m] = job[t].file => disk[m] = job[t].file
        BY <1>11, <1>12, <4>3
      <4>5. QED
        BY <1>1, <4>1, <4>3, <4>4 DEF Inv, DiskInv
    <3>3. QED
      BY <3>1, <3>2
  <2>4. QED
    BY <2>1, <2>2, <2>3 DEF DiskInv
<1>15. Intact'
  <2>1. SUFFICES ASSUME NEW t \in Sessions, NEW a \in Listed(t), a.id \notin disturbed'
                 PROVE  disk'[a.path] # None /\ content'[disk'[a.path]] = DataGiven(a.id)
    <3>1. \A t \in Sessions : \A a \in Listed(t) : DataGiven(a.id)' = DataGiven(a.id)
      BY <1>0, <1>4 DEF Live, Origin
    <3>2. QED
      BY <1>7, <3>1 DEF Intact
  <2>2. a.path # n /\ a.path \in Names
    BY <1>4, <1>6, <2>1 DEF Live
  <2>3. disk[a.path] # None /\ content[disk[a.path]] = DataGiven(a.id)
    BY <1>10, <2>1 DEF Inv, DataInv, Intact
  <2>4. disk'[a.path] = disk[a.path] /\ disk[a.path] # file /\ disk[a.path] \in Attachment
    BY <1>3, <1>11, <2>2, <2>3
  <2>5. QED
    BY <1>1, <2>3, <2>4 DEF Facts, TypeOK
<1>16. JobHere'
  <2>1. SUFFICES ASSUME NEW t \in Sessions, step'[t] = "writing", job'[t].id \notin disturbed'
                 PROVE  disk'[job'[t].path] = job'[t].file
    BY DEF JobHere
  <2>2. CASE t = s
    <3>1. job'[t].path = n /\ job'[t].file = file
      BY <1>1, <2>2 DEF Facts, TypeOK
    <3>2. QED
      BY <1>12, <3>1
  <2>3. CASE t # s
    <3>1. job'[t] = job[t] /\ step[t] = "writing"
      BY <1>1, <2>1, <2>3 DEF Facts, TypeOK
    <3>2. [path |-> job[t].path, id |-> job[t].id] \in Live(t)
      BY <3>1, LiveTypes DEF Live
    <3>3. job[t].path # n /\ job[t].path \in Names
      BY <1>4, <1>6, <2>1, <3>1, <3>2
    <3>4. disk[job[t].path] = job[t].file
      BY <1>10, <2>1, <3>1 DEF Inv, DataInv, JobHere
    <3>5. QED
      BY <1>11, <3>1, <3>3, <3>4
  <2>4. QED
    BY <2>2, <2>3
<1>17. OpenedHere'
  <2>1. SUFFICES ASSUME NEW t \in Sessions, step'[t] = "composing", NEW o \in opened[t],
                        o.id # None, o.id \notin disturbed'
                 PROVE  o.file = disk'[o.path]
    BY <1>1 DEF OpenedHere
  <2>2. step[t] = "composing"
    BY <1>1, <2>1 DEF Facts, TypeOK
  <2>3. [path |-> o.path, id |-> o.id] \in Live(t)
    BY <2>1, <2>2 DEF Inv, ListInv, Live, Listed
  <2>4. o.path # n /\ o.path \in Names
    BY <1>4, <1>6, <2>1, <2>3
  <2>5. o.file = disk[o.path]
    BY <1>10, <2>1, <2>2 DEF Inv, DataInv, OpenedHere
  <2>6. QED
    BY <1>11, <2>4, <2>5
<1>18. QED
  BY <1>13, <1>14, <1>15, <1>16, <1>17 DEF DataInv

\* An attachment that is written moves to the list with its data.
LEMMA FinishWritingStep ==
    ASSUME Facts, Inv, NEW s \in Sessions, FinishWriting(s)
    PROVE  LiveInv' /\ DiskInv' /\ DataInv'
<1> DEFINE new == [path |-> job[s].path, id |-> job[s].id]
<1>1. /\ step[s] = "writing"
      /\ content' = [content EXCEPT ![job[s].file] = DataGiven(job[s].id)]
      /\ files' = [files EXCEPT ![s] = @ \cup {new}]
      /\ job' = [job EXCEPT ![s] = NoJob]
      /\ step' = [step EXCEPT ![s] = "ready"]
      /\ UNCHANGED <<made, disk, by_path, disturbed, opened>>
  BY DEF FinishWriting
<1>2. /\ job[s].path \in Names /\ job[s].id \in Attachment /\ job[s].file \in Attachment
      /\ job[s].id # None
  BY <1>1, LiveTypes, MaxAttachmentsAssumption DEF Attachment, None
<1>3. /\ Listed(s)' = Listed(s) \cup {new}
      /\ \A t \in Sessions : t # s => Listed(t)' = Listed(t)
  BY <1>1, <1>2 DEF Listed, Facts, TypeOK
<1>4. /\ Pending(s) = {new} /\ Pending(s)' = {}
      /\ \A t \in Sessions : t # s => Pending(t)' = Pending(t)
  BY <1>1 DEF Pending, Facts, TypeOK
<1>5. new.path = job[s].path /\ new.id = job[s].id
  OBVIOUS
<1> HIDE DEF new
<1>6. LiveInv'
  <2>1. \A t \in Sessions : Live(t)' \subseteq Live(t)
    BY <1>3, <1>4 DEF Live
  <2>2. \A t \in Sessions : Listed(t)' \cap Pending(t)' = {}
    BY <1>3, <1>4 DEF Inv, LiveInv
  <2>3. QED
    BY <1>1, <2>1, <2>2, LiveShrinks DEF Inv
<1>7. \A t \in Sessions : step'[t] = "writing" => step[t] = "writing" /\ job'[t] = job[t]
  BY <1>1 DEF Facts, TypeOK
<1>8. DiskInv'
  BY <1>1, <1>7 DEF Inv, DiskInv
<1>9. Intact'
  <2>1. SUFFICES ASSUME NEW t \in Sessions, NEW a \in Listed(t)', a.id \notin disturbed
                 PROVE  disk[a.path] # None /\ content'[disk[a.path]] = DataGiven(a.id)
    BY <1>1 DEF Intact, DataGiven
  <2>2. CASE t = s /\ a = new
    <3>1. disk[a.path] = job[s].file
      BY <1>1, <1>5, <2>1, <2>2 DEF Inv, DataInv, JobHere
    <3>2. content'[job[s].file] = DataGiven(job[s].id)
      BY <1>1, <1>2 DEF Facts, TypeOK
    <3>3. job[s].file # None
      BY <1>2, MaxAttachmentsAssumption DEF Attachment, None
    <3>4. QED
      BY <1>5, <2>2, <3>1, <3>2, <3>3
  <2>3. CASE ~ (t = s /\ a = new)
    <3>1. a \in Listed(t) /\ a \in Live(t) /\ new \in Live(s)
      BY <1>3, <1>4, <2>3 DEF Live
    <3>2. disk[a.path] # None /\ content[disk[a.path]] = DataGiven(a.id) /\ a.path \in Names
      BY <2>1, <3>1 DEF Inv, LiveInv, DataInv, Intact
    <3>3. disk[a.path] # job[s].file
      <4>1. SUFFICES ASSUME disk[a.path] = job[s].file PROVE FALSE
        OBVIOUS
      <4>2. a.path = new.path
        BY <1>1, <1>5, <3>2, <4>1 DEF Inv, DiskInv
      <4>3. a.id # new.id
        BY <2>3, <3>1 DEF Inv, LiveInv
      <4>4. QED
        BY <2>1, <3>1, <4>2, <4>3 DEF Inv, LiveInv
    <3>4. disk[a.path] \in Attachment
      BY <3>2, LiveTypes
    <3>5. QED
      BY <1>1, <3>2, <3>3, <3>4 DEF Facts, TypeOK
  <2>4. QED
    BY <2>2, <2>3
<1>10. JobHere'
  BY <1>1, <1>7 DEF Inv, DataInv, JobHere
<1>11. OpenedHere'
  <2>1. \A t \in Sessions : step'[t] = "composing" => step[t] = "composing"
    BY <1>1 DEF Facts, TypeOK
  <2>2. QED
    BY <1>1, <2>1 DEF Inv, DataInv, OpenedHere
<1>12. QED
  BY <1>6, <1>8, <1>9, <1>10, <1>11 DEF DataInv

\* An attachment that could not be written is no longer live.
LEMMA FailWritingStep ==
    ASSUME Facts, Inv, NEW s \in Sessions, FailWriting(s)
    PROVE  LiveInv' /\ DiskInv' /\ DataInv'
<1>1. /\ job' = [job EXCEPT ![s] = NoJob]
      /\ step' = [step EXCEPT ![s] = "ready"]
      /\ UNCHANGED <<made, disk, content, by_path, files, opened, disturbed>>
  BY DEF FailWriting, shared
<1>2. \A t \in Sessions : Listed(t)' = Listed(t)
  BY <1>1 DEF Listed
<1>3. \A t \in Sessions : step'[t] = "writing" => step[t] = "writing" /\ job'[t] = job[t]
  BY <1>1 DEF Facts, TypeOK
<1>4. \A t \in Sessions : Pending(t)' \subseteq Pending(t)
  BY <1>3 DEF Pending
<1>5. LiveInv'
  <2>1. \A t \in Sessions : Live(t)' \subseteq Live(t)
    BY <1>2, <1>4 DEF Live
  <2>2. \A t \in Sessions : Listed(t)' \cap Pending(t)' = {}
    BY <1>2, <1>4 DEF Inv, LiveInv
  <2>3. QED
    BY <1>1, <2>1, <2>2, LiveShrinks DEF Inv
<1>6. DiskInv'
  BY <1>1, <1>3 DEF Inv, DiskInv
<1>7. Intact' /\ JobHere'
  BY <1>1, <1>2, <1>3 DEF Inv, DataInv, Intact, JobHere, DataGiven
<1>8. OpenedHere'
  <2>1. \A t \in Sessions : step'[t] = "composing" => step[t] = "composing"
    BY <1>1 DEF Facts, TypeOK
  <2>2. QED
    BY <1>1, <2>1 DEF Inv, DataInv, OpenedHere
<1>9. QED
  BY <1>5, <1>6, <1>7, <1>8 DEF DataInv

\* A send that starts has nothing open yet.
LEMMA StartSendStep ==
    ASSUME Facts, Inv, NEW s \in Sessions, NEW paths \in SUBSET UserFiles, StartSend(s, paths)
    PROVE  LiveInv' /\ DiskInv' /\ DataInv' /\ \A t \in Sessions : Listed(t)' = Listed(t)
<1>1. /\ step[s] = "ready"
      /\ files' = [files EXCEPT ![s] = @ \cup {[path |-> p, id |-> None] : p \in paths}]
      /\ step' = [step EXCEPT ![s] = "composing"]
      /\ UNCHANGED <<made, disk, content, by_path, job, opened, disturbed>>
  BY DEF StartSend, shared, history
<1>2. \A t \in Sessions : Listed(t)' = Listed(t)
  BY <1>1 DEF Listed, Facts, TypeOK
<1>3. \A t \in Sessions : (step'[t] = "writing") <=> (step[t] = "writing")
  BY <1>1 DEF Facts, TypeOK
<1>4. OpenedHere'
  <2>1. opened[s] = {}
    BY <1>1 DEF Inv, ListInv
  <2>2. \A t \in Sessions : t # s /\ step'[t] = "composing" => step[t] = "composing"
    BY <1>1 DEF Facts, TypeOK
  <2>3. QED
    BY <1>1, <2>1, <2>2 DEF Inv, DataInv, OpenedHere
<1>5. QED
  BY <1>1, <1>2, <1>3, <1>4, QuietStep DEF DataInv

\* A message opens the file that the attachment was written to.
LEMMA OpenNextStep ==
    ASSUME Facts, Inv, NEW s \in Sessions, NEW e \in files[s], OpenNext(s, e)
    PROVE  LiveInv' /\ DiskInv' /\ DataInv'
<1> DEFINE new == [path |-> e.path, id |-> e.id, file |-> FileAt(e.path)]
<1>1. /\ opened' = [opened EXCEPT ![s] = @ \cup {new}]
      /\ UNCHANGED <<made, disk, content, by_path, job, step, files, disturbed>>
  BY DEF OpenNext, shared, history
<1>2. \A t \in Sessions : Listed(t)' = Listed(t)
  BY <1>1 DEF Listed
<1>3. new.id # None => new.file = disk[new.path]
  BY DEF FileAt, Facts, TypeOK, Entry
<1> HIDE DEF new
<1>4. OpenedHere'
  BY <1>1, <1>3 DEF Inv, DataInv, OpenedHere, Facts, TypeOK
<1>5. QED
  BY <1>1, <1>2, <1>4, QuietStep DEF DataInv

\* The steps that open, write and remove nothing.
LEMMA MovingStep ==
    ASSUME Facts, Inv, NEW s \in Sessions,
           \/ AbandonSend(s)
           \/ Render(s)
           \/ EndSend(s)
           \/ StartClear(s)
           \/ EndClear(s)
    PROVE  LiveInv' /\ DiskInv' /\ DataInv' /\ \A t \in Sessions : Listed(t)' = Listed(t)
<1>1. UNCHANGED <<made, disk, content, by_path, job, files, disturbed>>
  BY DEF AbandonSend, Render, EndSend, StartClear, EndClear, shared, history
<1>2. \A t \in Sessions : /\ (step'[t] = "writing") <=> (step[t] = "writing")
                          /\ step'[t] = "composing" => step[t] = "composing"
  BY DEF AbandonSend, Render, EndSend, StartClear, EndClear, AfterFailure, Facts, TypeOK
<1>3. \A t \in Sessions : opened'[t] \subseteq opened[t]
  BY DEF AbandonSend, Render, EndSend, StartClear, EndClear, Facts, TypeOK
<1>4. \A t \in Sessions : Listed(t)' = Listed(t)
  BY <1>1 DEF Listed
<1>5. OpenedHere'
  BY <1>1, <1>2, <1>3 DEF Inv, DataInv, OpenedHere
<1>6. QED
  BY <1>1, <1>2, <1>4, <1>5, QuietStep DEF DataInv

\* A removal takes away the file of the attachment's own path.
LEMMA ClearNextStep ==
    ASSUME Facts, Inv, NEW s \in Sessions, NEW e \in files[s],
           ClearNext(s, e) \/ FailToClear(s, e)
    PROVE  LiveInv' /\ DiskInv' /\ DataInv'
<1>1. /\ step[s] = "clearing"
      /\ files' = [files EXCEPT ![s] = @ \ {e}]
      /\ UNCHANGED <<made, content, by_path, step, job, opened, disturbed>>
      /\ \A n \in Names : disk'[n] = IF n = e.path /\ ClearNext(s, e) THEN None ELSE disk[n]
  BY DEF ClearNext, FailToClear, RemoveTemporary, shared, Facts, TypeOK
<1>2. \A t \in Sessions : Pending(t)' = Pending(t) /\ Listed(t)' \subseteq Listed(t)
  BY <1>1 DEF Pending, Listed, Facts, TypeOK
<1>3. LiveInv'
  <2>1. \A t \in Sessions : Live(t)' \subseteq Live(t)
    BY <1>2 DEF Live
  <2>2. \A t \in Sessions : Listed(t)' \cap Pending(t)' = {}
    BY <1>2 DEF Inv, LiveInv
  <2>3. QED
    BY <1>1, <2>1, <2>2, LiveShrinks DEF Inv
<1>4. DiskInv'
  <2>1. \A n \in Names : disk'[n] = None \/ disk'[n] = disk[n]
    BY <1>1
  <2>2. made \in Nat /\ None <= made
    BY LiveTypes DEF None
  <2>3. \A n \in Names : disk'[n] <= made'
    BY <1>1, <2>1, <2>2 DEF Inv, DiskInv
  <2>4. \A m, n \in Names : disk'[m] = disk'[n] /\ disk'[m] # None => m = n
    BY <2>1 DEF Inv, DiskInv
  <2>5. \A t \in Sessions : step[t] = "writing" => job[t].file # None
    BY LiveTypes, MaxAttachmentsAssumption DEF Attachment, None
  <2>6. QED
    BY <1>1, <2>1, <2>3, <2>4, <2>5 DEF Inv, DiskInv
\* What is still live and undisturbed has another path than what is removed.
<1>5. ASSUME NEW t \in Sessions, NEW a \in Live(t), a.id \notin disturbed,
             ~ (t = s /\ a = e)
      PROVE  disk'[a.path] = disk[a.path]
  <2>1. a.path \in Names
    BY <1>5 DEF Inv, LiveInv
  <2>2. SUFFICES ASSUME a.path = e.path PROVE FALSE
    BY <1>1, <2>1
  <2>3. e.id # None
    BY <2>1, <2>2, PathsAssumption, MaxAttachmentsAssumption
       DEF Facts, TypeOK, Entry, Attachment, None
  <2>4. e \in Live(s)
    BY <2>3 DEF Live, Listed
  <2>5. a.id # e.id
    BY <1>5, <2>4 DEF Inv, LiveInv
  <2>6. QED
    BY <1>5, <2>2, <2>4, <2>5 DEF Inv, LiveInv
<1>6. Intact'
  <2>1. \A t \in Sessions : \A a \in Listed(t)' :
            a \in Listed(t) /\ a \in Live(t) /\ ~ (t = s /\ a = e)
    BY <1>1, <1>2 DEF Live, Listed, Facts, TypeOK
  <2>2. QED
    BY <1>1, <1>5, <2>1 DEF Inv, DataInv, Intact, DataGiven
<1>7. JobHere'
  <2>1. SUFFICES ASSUME NEW t \in Sessions, step[t] = "writing", job[t].id \notin disturbed
                 PROVE  disk'[job[t].path] = job[t].file
    BY <1>1 DEF JobHere
  <2>2. [path |-> job[t].path, id |-> job[t].id] \in Live(t) /\ t # s
    BY <1>1, <2>1, LiveTypes DEF Live
  <2>3. disk'[job[t].path] = disk[job[t].path]
    BY <1>5, <2>1, <2>2
  <2>4. QED
    BY <2>1, <2>3 DEF Inv, DataInv, JobHere
<1>8. OpenedHere'
  <2>1. SUFFICES ASSUME NEW t \in Sessions, step[t] = "composing", NEW o \in opened[t],
                        o.id # None, o.id \notin disturbed
                 PROVE  o.file = disk'[o.path]
    BY <1>1 DEF OpenedHere
  <2>2. [path |-> o.path, id |-> o.id] \in Live(t) /\ t # s
    BY <1>1, <2>1 DEF Inv, ListInv, Live, Listed
  <2>3. disk'[o.path] = disk[o.path]
    BY <1>5, <2>1, <2>2
  <2>4. QED
    BY <2>1, <2>3 DEF Inv, DataInv, OpenedHere
<1>9. QED
  BY <1>3, <1>4, <1>6, <1>7, <1>8 DEF DataInv

-----------------------------------------------------------------------------
(* The list is what the script asked for, and the mail is the list. *)

\* Every step keeps the lists what the script asked for.
LEMMA ListStep == Facts /\ Inv /\ [Next]_vars => ListInv'
<1> SUFFICES ASSUME Facts, Inv, [Next]_vars PROVE ListInv'
  OBVIOUS
<1> USE DEF ListInv
<1>0. ListInv
  BY DEF Inv
<1>1. ASSUME NEW s \in Sessions, NEW n \in Names, NEW container \in BOOLEAN,
             OpenForWriting(s, n, container)
      PROVE ListInv'
  <2>1. \A t \in Sessions : Listed(t)' = Listed(t)
    BY <1>1 DEF OpenForWriting, Listed
  <2>2. QED
    BY <1>0, <1>1, <2>1 DEF OpenForWriting, Facts, TypeOK
<1>2. ASSUME NEW s \in Sessions, FinishWriting(s) PROVE ListInv'
  <2> DEFINE new == [path |-> job[s].path, id |-> job[s].id]
  <2>1. /\ step[s] = "writing"
        /\ files' = [files EXCEPT ![s] = @ \cup {new}]
        /\ asked' = [asked EXCEPT ![s] = @ \cup {job[s].id}]
        /\ step' = [step EXCEPT ![s] = "ready"]
        /\ UNCHANGED opened
    BY <1>2 DEF FinishWriting
  <2>2. job[s].id # None /\ new.id = job[s].id
    BY <2>1, LiveTypes, MaxAttachmentsAssumption DEF Attachment, None
  <2> HIDE DEF new
  <2>3. /\ Listed(s)' = Listed(s) \cup {new}
        /\ \A t \in Sessions : t # s => Listed(t)' = Listed(t)
    BY <2>1, <2>2 DEF Listed, Facts, TypeOK
  <2>4. asked'[s] = {e.id : e \in Listed(s)'}
    <3>1. asked'[s] = {e.id : e \in Listed(s)} \cup {new.id}
      BY <1>0, <2>1, <2>2 DEF Facts, TypeOK
    <3>2. QED
      BY <2>3, <3>1
  <2>5. QED
    BY <1>0, <2>1, <2>3, <2>4 DEF Facts, TypeOK
<1>3. ASSUME NEW s \in Sessions, FailWriting(s) PROVE ListInv'
  <2>1. \A t \in Sessions : Listed(t)' = Listed(t)
    BY <1>3 DEF FailWriting, Listed
  <2>2. QED
    BY <1>0, <1>3, <2>1 DEF FailWriting, Facts, TypeOK
<1>4. ASSUME NEW s \in Sessions, NEW paths \in SUBSET UserFiles, StartSend(s, paths)
      PROVE ListInv'
  <2>1. \A t \in Sessions : Listed(t)' = Listed(t)
    BY <1>4, StartSendStep
  <2>2. opened[s] = {}
    BY <1>0, <1>4 DEF StartSend
  <2>3. QED
    BY <1>0, <1>4, <2>1, <2>2 DEF StartSend, history, Facts, TypeOK
<1>5. ASSUME NEW s \in Sessions, NEW e \in files[s], OpenNext(s, e) PROVE ListInv'
  <2> DEFINE new == [path |-> e.path, id |-> e.id, file |-> FileAt(e.path)]
  <2>1. /\ step[s] = "composing"
        /\ opened' = [opened EXCEPT ![s] = @ \cup {new}]
        /\ UNCHANGED <<step, files, asked>>
    BY <1>5 DEF OpenNext, history
  <2>2. \A t \in Sessions : Listed(t)' = Listed(t)
    BY <2>1 DEF Listed
  <2>3. [path |-> new.path, id |-> new.id] \in files[s]
    <3>1. e = [path |-> e.path, id |-> e.id]
      BY DEF Facts, TypeOK, Entry
    <3>2. QED
      BY <3>1
  <2> HIDE DEF new
  <2>4. QED
    BY <1>0, <2>1, <2>2, <2>3 DEF Facts, TypeOK
<1>6. ASSUME NEW s \in Sessions, AbandonSend(s) \/ EndSend(s) \/ StartClear(s) PROVE ListInv'
  <2>1. \A t \in Sessions : Listed(t)' = Listed(t)
    BY <1>6, MovingStep
  <2>2. /\ files' = files /\ asked' = [asked EXCEPT ![s] = {}]
        /\ step' = [step EXCEPT ![s] = "clearing"]
        /\ opened'[s] = {} /\ \A t \in Sessions : t # s => opened'[t] = opened[t]
    BY <1>0, <1>6 DEF AbandonSend, EndSend, StartClear, AfterFailure, shared, Facts, TypeOK
  <2>3. QED
    BY <1>0, <2>1, <2>2 DEF Facts, TypeOK
<1>7. ASSUME NEW s \in Sessions, Render(s) PROVE ListInv'
  <2>1. \A t \in Sessions : Listed(t)' = Listed(t)
    BY <1>7, MovingStep
  <2>2. QED
    BY <1>0, <1>7, <2>1 DEF Render, history, Facts, TypeOK
<1>8. ASSUME NEW s \in Sessions, NEW e \in files[s], ClearNext(s, e) \/ FailToClear(s, e)
      PROVE ListInv'
  <2>1. /\ step[s] = "clearing"
        /\ UNCHANGED <<step, opened, asked>>
        /\ \A t \in Sessions : t # s => files'[t] = files[t]
    BY <1>8 DEF ClearNext, FailToClear, Facts, TypeOK
  <2>2. \A t \in Sessions : t # s => Listed(t)' = Listed(t)
    BY <2>1 DEF Listed
  <2>3. QED
    BY <1>0, <2>1, <2>2
<1>9. ASSUME NEW s \in Sessions, EndClear(s) PROVE ListInv'
  <2>1. \A t \in Sessions : Listed(t)' = Listed(t)
    BY <1>9, MovingStep
  <2>2. Listed(s) = {} /\ asked[s] = {} /\ opened[s] = {}
    BY <1>0, <1>9 DEF EndClear, Listed
  <2>3. QED
    BY <1>0, <1>9, <2>1, <2>2 DEF EndClear, history, Facts, TypeOK
<1>10. CASE UNCHANGED vars
  <2>1. \A t \in Sessions : Listed(t)' = Listed(t)
    BY <1>10 DEF vars, local, Listed
  <2>2. QED
    BY <1>0, <1>10, <2>1 DEF vars, local, history
<1>11. QED
  BY <1>1, <1>2, <1>3, <1>4, <1>5, <1>6, <1>7, <1>8, <1>9, <1>10 DEF Next

\* What Render puts into the mail stays there until the mail is sent.
LEMMA MailStep == Facts /\ Inv /\ [Next]_vars => MailCarriesItsAttachments'
<1> SUFFICES ASSUME Facts, Inv, [Next]_vars PROVE MailCarriesItsAttachments'
  OBVIOUS
<1>1. ASSUME NEW s \in Sessions, Render(s)
      PROVE  /\ {m.id : m \in mail'[s]} \ {None} = asked[s]
             /\ \A m \in mail'[s] : m.id \in disturbed \/ m.got = DataGiven(m.id)
  <2>1. /\ step[s] = "composing"
        /\ \A e \in files[s] : \E o \in opened[s] : o.path = e.path /\ o.id = e.id
        /\ mail'[s] = {[id |-> o.id, got |-> DataOf(o.file)] : o \in opened[s]}
    BY <1>1 DEF Render, Facts, TypeOK
  <2>2. asked[s] = {e.id : e \in Listed(s)}
    BY <2>1 DEF Inv, ListInv
  <2>3. \A o \in opened[s] : [path |-> o.path, id |-> o.id] \in files[s]
    BY <2>1 DEF Inv, ListInv
  <2>4. {m.id : m \in mail'[s]} \ {None} = asked[s]
    <3>1. {m.id : m \in mail'[s]} = {o.id : o \in opened[s]}
      <4>1. \A m \in mail'[s] : \E o \in opened[s] : m.id = o.id
        BY <2>1
      <4>2. ASSUME NEW o \in opened[s] PROVE \E m \in mail'[s] : m.id = o.id
        <5>1. [id |-> o.id, got |-> DataOf(o.file)] \in mail'[s]
          BY <2>1
        <5>2. QED
          BY <5>1
      <4>3. QED
        BY <4>1, <4>2
    <3>2. \A o \in opened[s] : o.id # None => [path |-> o.path, id |-> o.id] \in Listed(s)
      BY <2>3 DEF Listed
    <3>3. ASSUME NEW o \in opened[s], o.id # None PROVE o.id \in asked[s]
      <4>1. [path |-> o.path, id |-> o.id] \in Listed(s)
        BY <3>2, <3>3
      <4>2. [path |-> o.path, id |-> o.id].id \in {e.id : e \in Listed(s)}
        BY <4>1
      <4>3. QED
        BY <2>2, <4>2
    <3>4. \A e \in Listed(s) : e.id # None /\ e.id \in {o.id : o \in opened[s]}
      BY <2>1 DEF Listed
    <3>5. QED
      BY <2>2, <3>1, <3>3, <3>4
  <2>5. ASSUME NEW o \in opened[s] PROVE o.id \in disturbed \/ DataOf(o.file) = DataGiven(o.id)
    <3>1. CASE o.id = None
      BY <3>1, MaxAttachmentsAssumption
         DEF Facts, TypeOK, Part, Temporary, Attachment, None, DataOf, DataGiven
    <3>2. CASE o.id # None /\ o.id \notin disturbed
      <4>1. o.file = disk[o.path]
        BY <2>1, <3>2 DEF Inv, DataInv, OpenedHere
      <4>2. [path |-> o.path, id |-> o.id] \in Listed(s)
        BY <2>3, <3>2 DEF Listed
      <4>3. disk[o.path] # None /\ content[disk[o.path]] = DataGiven(o.id)
        BY <3>2, <4>2 DEF Inv, DataInv, Intact
      <4>4. QED
        BY <4>1, <4>3 DEF DataOf
    <3>3. QED
      BY <3>1, <3>2
  <2>6. QED
    BY <2>1, <2>4, <2>5
<1>2. disturbed \subseteq disturbed'
  BY DEF Next, OpenForWriting, FinishWriting, FailWriting, StartSend, OpenNext, AbandonSend,
         Render, EndSend, StartClear, ClearNext, FailToClear, EndClear, vars, history
<1>3. ASSUME NEW t \in Sessions, step'[t] = "sending"
      PROVE \/ Render(t) /\ UNCHANGED <<asked, disturbed, by_path>>
            \/ step[t] = "sending" /\ mail'[t] = mail[t] /\ asked'[t] = asked[t]
  BY <1>3 DEF Next, OpenForWriting, FinishWriting, FailWriting, StartSend, OpenNext, AbandonSend,
         AfterFailure, Render, EndSend, StartClear, ClearNext, FailToClear, EndClear,
         vars, shared, local, history, Facts, TypeOK
<1>4. ASSUME NEW t \in Sessions, step'[t] = "sending"
      PROVE /\ {m.id : m \in mail'[t]} \ {None} = asked'[t]
            /\ \A m \in mail'[t] : m.id \in disturbed' \/ m.got = DataGiven(m.id)'
  <2>1. CASE Render(t) /\ UNCHANGED <<asked, disturbed, by_path>>
    BY <1>1, <2>1 DEF DataGiven
  <2>2. CASE step[t] = "sending" /\ mail'[t] = mail[t] /\ asked'[t] = asked[t]
    <3>1. \A m \in mail[t] : m.id \in Origin /\ m.id <= made
      <4>1. \A a \in asked[t] : a <= made
        BY <2>2 DEF Inv, ListInv, LiveInv, Live
      <4>2. None <= made
        BY LiveTypes DEF None
      <4>3. \A m \in mail[t] : m.id \in asked[t] \cup {None}
        BY <2>2 DEF Inv, MailCarriesItsAttachments
      <4>4. QED
        BY <4>1, <4>2, <4>3 DEF Facts, TypeOK
    <3>2. \A m \in mail[t] : DataGiven(m.id)' = DataGiven(m.id)
      BY <3>1, GivenStep DEF Inv
    <3>3. QED
      BY <1>2, <2>2, <3>2 DEF Inv, MailCarriesItsAttachments
  <2>3. QED
    BY <1>3, <1>4, <2>1, <2>2
<1>5. QED
  BY <1>4 DEF MailCarriesItsAttachments

\* No attachment is live initially.
LEMMA InvInit == Init => Inv
<1> SUFFICES ASSUME Init PROVE Inv
  OBVIOUS
<1>1. \A s \in Sessions : Listed(s) = {} /\ Pending(s) = {} /\ Live(s) = {}
  BY DEF Init, Listed, Pending, Live
<1>2. LiveInv
  BY <1>1 DEF LiveInv
<1>3. DiskInv
  BY DEF Init, DiskInv, None
<1>4. GivenInv /\ DataInv
  BY <1>1 DEF Init, GivenInv, DataInv, Intact, JobHere, OpenedHere
<1>5. ListInv
  BY <1>1 DEF Init, ListInv
<1>6. MailCarriesItsAttachments
  BY DEF Init, MailCarriesItsAttachments
<1>7. QED
  BY <1>2, <1>3, <1>4, <1>5, <1>6 DEF Inv

\* Every step keeps live attachments where they were written.
LEMMA InvStep == Facts /\ Inv /\ [Next]_vars => Inv'
<1> SUFFICES ASSUME Facts, Inv, [Next]_vars PROVE Inv'
  OBVIOUS
<1>1. ListInv' /\ MailCarriesItsAttachments' /\ GivenInv'
  BY ListStep, MailStep, GivenStep DEF Inv
<1>2. ASSUME NEW s \in Sessions, NEW n \in Names, NEW container \in BOOLEAN,
             OpenForWriting(s, n, container)
      PROVE Inv'
  BY <1>1, <1>2, OpenForWritingStep DEF Inv
<1>3. ASSUME NEW s \in Sessions, FinishWriting(s) PROVE Inv'
  BY <1>1, <1>3, FinishWritingStep DEF Inv
<1>4. ASSUME NEW s \in Sessions, FailWriting(s) PROVE Inv'
  BY <1>1, <1>4, FailWritingStep DEF Inv
<1>5. ASSUME NEW s \in Sessions, NEW paths \in SUBSET UserFiles, StartSend(s, paths)
      PROVE Inv'
  BY <1>1, <1>5, StartSendStep DEF Inv
<1>6. ASSUME NEW s \in Sessions, NEW e \in files[s], OpenNext(s, e) PROVE Inv'
  BY <1>1, <1>6, OpenNextStep DEF Inv
<1>7. ASSUME NEW s \in Sessions,
             AbandonSend(s) \/ Render(s) \/ EndSend(s) \/ StartClear(s) \/ EndClear(s)
      PROVE Inv'
  BY <1>1, <1>7, MovingStep DEF Inv
<1>8. ASSUME NEW s \in Sessions, NEW e \in files[s], ClearNext(s, e) \/ FailToClear(s, e)
      PROVE Inv'
  BY <1>1, <1>8, ClearNextStep DEF Inv
<1>9. CASE UNCHANGED vars
  <2>1. \A t \in Sessions : Listed(t)' = Listed(t)
    BY <1>9 DEF vars, local, Listed
  <2>2. UNCHANGED <<made, disk, content, by_path, job, disturbed, step, opened>>
    BY <1>9 DEF vars, shared, local, history
  <2>3. OpenedHere'
    BY <2>2 DEF Inv, DataInv, OpenedHere
  <2>4. QED
    BY <1>1, <2>1, <2>2, <2>3, QuietStep DEF Inv, DataInv
<1>10. QED
  BY <1>2, <1>3, <1>4, <1>5, <1>6, <1>7, <1>8, <1>9 DEF Next

(* A mail has as attachments exactly what the script gave since its latest  *)
(* mail or clear, a container with its data and a path as an empty file,    *)
(* unless another attachment of the name was about, however many threads    *)
(* send mails.                                                              *)
THEOREM MailsCarryAttachments == Spec => []MailCarriesItsAttachments
<1>1. Inv => MailCarriesItsAttachments
  BY DEF Inv
<1>2. QED
  BY <1>1, FactsInit, FactsStep, InvInit, InvStep, PTL DEF Spec

=============================================================================
