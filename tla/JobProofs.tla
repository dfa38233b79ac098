------------------------------ MODULE JobProofs ------------------------------
(***************************************************************************)
(* Two facts about the jobs on many documents, for any jobs, documents and *)
(* workers, however often a task is lost, delivered again or retried: an   *)
(* archive is there for as long as it is needed, and a job reports what it *)
(* did.                                                                    *)
(***************************************************************************)
EXTENDS DocumentJobs, SequenceTheorems, TLAPS

JobMessage == [task : {"job"}, row : Request, retries : 0 .. 1]
Report     == [status : {"success", "error", "skipped"}, document : Nat]

(* From its loading the row to its acknowledging the message, and while    *)
(* the session is open for the items.                                      *)
Busy    == {"loaded", "unreadable", "item", "write", "close", "committed", "raised"}
Session == {"item", "write", "close"}

(* The numbers of its versions hang from a document's row.                 *)
HasVersions(row) == "versions" \in DOMAIN row

(* The documents that a session says it changed.                           *)
Done(r) == {r.results[i].document : i \in {k \in DOMAIN r.results : r.results[k].status = "success"}}

(* All that it reports on.                                                 *)
Named(r) == {r.results[i].document : i \in DOMAIN r.results}

(* What a session wrote is what it will report.  known are the documents   *)
(* that are committed, n the ids that were made.                           *)
Faithful(r, ask, known, n) ==
  /\ r.results \in Seq(Report)
  /\ DOMAIN r.writes \subseteq 1 .. n
  /\ \A d \in DOMAIN r.writes : HasVersions(r.writes[d])
  /\ DOMAIN r.writes \subseteq Named(r)
  /\ r.granted \subseteq Named(r)
  /\ ask.job_type \in Bulk =>
       /\ Done(r) \subseteq DOMAIN r.writes
       /\ \A d \in DOMAIN r.writes : r.writes[d] = Changed(r.writes[d], ask)
  /\ ask.job_type = "import" =>
       \A i \in DOMAIN r.results :
         /\ r.results[i].document \in {0} \cup known \cup DOMAIN r.writes
         /\ r.results[i].status = "success" =>
              /\ r.results[i].document \in DOMAIN r.writes
              /\ ask.items[i].content =>
                   ask.items[i].version \in r.writes[r.results[i].document].versions
  /\ ask.job_type = "export" => DOMAIN r.writes = {} /\ Done(r) \subseteq known
  /\ ask.job_type # "import" => r.granted = {}

(* What it is about to write is a document there is, or a new one.         *)
Aimed(r, ask, known) ==
  /\ ask.job_type \in Bulk =>
       /\ Len(r.results) + 1 \in DOMAIN ask.items
       /\ ask.items[Len(r.results) + 1].id \in known \cup DOMAIN r.writes
  /\ ask.job_type = "import" => r.target \in {0} \cup known \cup DOMAIN r.writes

Holding(r) ==
  /\ r = [field \in DOMAIN r |-> r[field]]
  /\ "step" \in DOMAIN r
  /\ r # Idle => "message" \in DOMAIN r /\ r.message \in JobMessage
  /\ r.step \in Session => {"results", "writes", "granted", "target"} \subseteq DOMAIN r

(* A process works on jobs whose request has committed.  The archive of an *)
(* export is stored before the job is completed, and that of an import     *)
(* removed when the outcome is.                                            *)
WorkerOK(w) ==
  /\ Holding(running[w])
  /\ running[w].step \in Busy => Visible(Row(w))
  /\ running[w].step = "close" /\ Asks(w).job_type = "export" => Row(w) \in archive
  /\ running[w].step = "committed" =>
       Asks(w).job_type = "import" /\ job[Row(w)].status # "pending"
  /\ running[w].step = "unreadable" => Asks(w).job_type = "import"
  /\ running[w].step \in Session => Faithful(running[w], Asks(w), DOMAIN document, made)
  /\ running[w].step = "write" => Aimed(running[w], Asks(w), DOMAIN document)

Queued == DOMAIN queue \subseteq JobMessage

JobRow(row) == row = [ask |-> row.ask, status |-> row.status, results |-> row.results]

(* The rows and what is stored with them.                                  *)
Stored(j) ==
  /\ JobRow(job[j])
  /\ request[j] = "new" => job[j].status = "pending" /\ job[j].ask = Nothing
  /\ request[j] # "new" => Documents(job[j].ask) \/ Manifest(job[j].ask)
  /\ job[j].ask.job_type = "import" /\ job[j].status = "pending" => j \in archive
  /\ job[j].ask.job_type = "export" /\ job[j].status = "completed" => j \in archive

SharedOK ==
  /\ DOMAIN job = Request /\ DOMAIN request = Request
  /\ Queued /\ made \in Nat /\ DOMAIN document \subseteq 1 .. made
  /\ document = [d \in DOMAIN document |-> document[d]]
  /\ \A d \in DOMAIN document : HasVersions(document[d])
  /\ \A j \in Request : Stored(j)

JobInv ==
  /\ SharedOK
  /\ DOMAIN running = Worker /\ \A w \in Worker : WorkerOK(w)

-----------------------------------------------------------------------------
(* The value of a job's row before its request is no import.               *)
LEMMA NothingIsAsked == Nothing.job_type = "export"
BY DEF Nothing

(* At the start no process works and the library is typed.                 *)
LEMMA JobInitially == Init => JobInv
<1> SUFFICES ASSUME Init PROVE JobInv
  OBVIOUS
<1> USE DEF Init, BrokerInit
<1>1. SharedOK
  <2>1. Library \in Seq(DocumentRow)
    BY JobAssumption
  <2>2. /\ made \in Nat /\ DOMAIN document = 1 .. made
        /\ document = [d \in DOMAIN document |-> document[d]]
        /\ \A d \in DOMAIN document : document[d] \in DocumentRow
    BY <2>1
  <2>3. \A j \in Request : Stored(j)
    BY NothingIsAsked DEF Stored, JobRow
  <2>4. Queued
    BY DEF Queued, EmptyBag, SetToBag
  <2> QED
    BY <2>2, <2>3, <2>4 DEF SharedOK, HasVersions, DocumentRow
<1>2. \A w \in Worker : WorkerOK(w)
  BY DEF WorkerOK, Holding, Idle, Busy, Session
<1> QED
  BY <1>1, <1>2 DEF JobInv

-----------------------------------------------------------------------------
(* What a step of one process may do to what the others rely on.           *)
Steady ==
  /\ \A j \in Request : Visible(j) =>
       /\ Visible(j)' /\ job'[j].ask = job[j].ask
       /\ job[j].status # "pending" => job'[j].status # "pending"
       /\ job[j].ask.job_type = "export" /\ j \in archive => j \in archive'
  /\ made' \in Nat /\ made <= made' /\ DOMAIN document \subseteq DOMAIN document'

(* What holds of a session still holds when more documents are committed   *)
(* and more ids are made.                                                  *)
LEMMA FaithfulGrows ==
  ASSUME NEW r, NEW ask, NEW known, NEW more, known \subseteq more,
         NEW n \in Nat, NEW m \in Nat, n <= m
  PROVE  /\ Faithful(r, ask, known, n) => Faithful(r, ask, more, m)
         /\ Aimed(r, ask, known) => Aimed(r, ask, more)
BY DEF Faithful, Aimed, Done, Named

(* A steady step of one process disturbs no other.                         *)
LEMMA BystanderOK ==
  ASSUME NEW w \in Worker, WorkerOK(w), Steady, made \in Nat, running'[w] = running[w]
  PROVE  WorkerOK(w)'
<1>1. Row(w)' = Row(w)
  BY DEF Row
<1>2. CASE running[w].step \in Busy
  <2>1. running[w] # Idle
    BY <1>2 DEF Idle, Busy
  <2>2. Row(w) \in Request
    BY <2>1 DEF WorkerOK, Holding, JobMessage, Row
  <2>3. Visible(Row(w)) /\ Visible(Row(w))' /\ Asks(w)' = Asks(w)
    BY <1>1, <1>2, <2>2 DEF WorkerOK, Steady, Asks
  <2>4. Faithful(running[w], Asks(w), DOMAIN document, made)
          => Faithful(running[w], Asks(w), DOMAIN document, made)'
    BY <2>3, FaithfulGrows DEF Steady
  <2>5. Aimed(running[w], Asks(w), DOMAIN document)
          => Aimed(running[w], Asks(w), DOMAIN document)'
    BY <2>3, FaithfulGrows DEF Steady
  <2>6. /\ running[w].step = "close" /\ Asks(w).job_type = "export" => Row(w) \in archive'
        /\ running[w].step = "committed" => job'[Row(w)].status # "pending"
    BY <1>2, <2>2, <2>3 DEF WorkerOK, Steady, Asks
  <2> QED
    BY <1>1, <2>3, <2>4, <2>5, <2>6 DEF WorkerOK
<1>3. CASE running[w].step \notin Busy
  BY <1>3 DEF WorkerOK, Busy, Session
<1> QED
  BY <1>2, <1>3

(* To keep the invariant a step keeps the rows, stays steady, and keeps    *)
(* what holds of the one process that took it.                             *)
LEMMA OneWorks ==
  ASSUME JobInv, NEW w \in Worker, Steady, SharedOK', WorkerOK(w)',
         DOMAIN running' = Worker, \A v \in Worker \ {w} : running'[v] = running[v]
  PROVE  JobInv'
BY BystanderOK DEF JobInv, SharedOK

(* A step that leaves the rows alone is steady.                            *)
LEMMA SharedStays ==
  ASSUME SharedOK, Queued', made' \in Nat, made <= made',
         UNCHANGED <<request, job, document, archive>>
  PROVE  SharedOK' /\ Steady
<1>1. \A j \in Request : Stored(j)'
  BY DEF SharedOK, Stored
<1> QED
  BY <1>1 DEF SharedOK, Steady, Visible

(* A step of w that touches nothing shared but the numbers.                *)
LEMMA Alone ==
  ASSUME JobInv, NEW w \in Worker, WorkerOK(w)', DOMAIN running' = Worker,
         \A v \in Worker \ {w} : running'[v] = running[v],
         Queued', made' \in Nat, made <= made', UNCHANGED <<request, job, document, archive>>
  PROVE  JobInv'
BY SharedStays, OneWorks DEF JobInv

(* Of a process that is not at work little is said.                        *)
LEMMA Calm ==
  ASSUME JobInv, NEW w \in Worker, running'[w].step \notin Busy, Holding(running'[w])
  PROVE  WorkerOK(w)'
BY DEF WorkerOK, Busy, Session

(* The same of a step that no process takes.                               *)
LEMMA NobodyWorks ==
  ASSUME JobInv, Steady, SharedOK', running' = running
  PROVE  JobInv'
BY BystanderOK DEF JobInv, SharedOK

(* The queue holds messages of jobs, also with one more.                   *)
LEMMA QueueGrows ==
  ASSUME Queued, NEW m \in JobMessage, queue' = queue (+) SetToBag({m})
  PROVE  Queued'
BY DEF Queued, (+), SetToBag

(* And with some taken out.                                                *)
LEMMA QueueShrinks ==
  ASSUME Queued, NEW S, queue' = queue (-) SetToBag(S)
  PROVE  Queued'
BY DEF Queued, (-), SetToBag

(* What is sent and sent again are messages of jobs.                       *)
LEMMA JobMessages == \A j \in Request, n \in 0 .. 1 : JobTask(j, n) \in JobMessage
BY DEF JobTask, JobMessage

(* A process at work works on a job that is there.                         *)
LEMMA AtWork ==
  ASSUME JobInv, NEW w \in Worker, running[w].step \in Busy
  PROVE  /\ running[w] # Idle /\ Holding(running[w]) /\ running[w].message \in JobMessage
         /\ Row(w) \in Request /\ Visible(Row(w))
         /\ Documents(Asks(w)) \/ Manifest(Asks(w))
<1>1. running[w] # Idle
  BY DEF Idle, Busy
<1>2. Holding(running[w]) /\ Visible(Row(w))
  BY DEF JobInv, WorkerOK
<1>3. running[w].message \in JobMessage
  BY <1>1, <1>2 DEF Holding
<1>4. Row(w) \in Request
  BY <1>3 DEF Row, JobMessage
<1>5. request[Row(w)] # "new" /\ Stored(Row(w))
  BY <1>2, <1>4 DEF Visible, JobInv, SharedOK
<1> QED
  BY <1>1, <1>2, <1>3, <1>4, <1>5 DEF Stored, Asks

(* A process that goes on keeps its message.                               *)
LEMMA GoesOn ==
  ASSUME NEW r, Holding(r), r # Idle, NEW step, step \notin Session \/ r.step \in Session
  PROVE  /\ Holding([r EXCEPT !.step = step])
         /\ [r EXCEPT !.step = step].step = step
         /\ [r EXCEPT !.step = step].message = r.message
BY DEF Holding, Idle, Session

(* A process that moves to another step keeps its message and leaves the   *)
(* others where they are.                                                  *)
LEMMA MovesOn ==
  ASSUME JobInv, NEW w \in Worker, running[w] # Idle, NEW step,
         step \notin Session \/ running[w].step \in Session, Moves(w, step)
  PROVE  /\ Holding(running'[w]) /\ running'[w].step = step /\ Row(w)' = Row(w)
         /\ DOMAIN running' = Worker /\ \A v \in Worker \ {w} : running'[v] = running[v]
<1>1. running' = [running EXCEPT ![w] = [running[w] EXCEPT !.step = step]]
  BY DEF Moves
<1>2. Holding(running[w])
  BY DEF JobInv, WorkerOK
<1> QED
  BY <1>1, <1>2, GoesOn DEF JobInv, Row

-----------------------------------------------------------------------------
(* The requests, and what the broker does.                                 *)
LEMMA SubmitKeeps ==
  ASSUME JobInv, NEW j \in Request, SubmitJob(j)
  PROVE  JobInv'
<1> USE DEF SubmitJob
<1>1. PICK n \in DOMAIN Offer :
        /\ job' = [job EXCEPT ![j].ask = Offer[n]]
        /\ archive' = IF Offer[n].job_type = "import" THEN archive \cup {j} ELSE archive
  OBVIOUS
<1>2. Documents(Offer[n]) \/ Manifest(Offer[n])
  BY JobAssumption
<1>3. Stored(j) /\ DOMAIN job = Request /\ DOMAIN request = Request
  BY DEF JobInv, SharedOK
<1>4. /\ JobRow(job'[j]) /\ job'[j].ask = Offer[n] /\ job'[j].status = "pending"
      /\ \A i \in Request \ {j} : job'[i] = job[i] /\ request'[i] = request[i]
      /\ request[j] = "new" /\ request'[j] = "open"
      /\ DOMAIN job' = Request /\ DOMAIN request' = Request
  BY <1>1, <1>3 DEF Stored, JobRow
<1>5. Queued'
  BY QueueGrows, JobMessages DEF JobInv, SharedOK, Send
<1>6. \A i \in Request : Stored(i)'
  <2>1. Stored(j)'
    BY <1>1, <1>2, <1>4 DEF Stored
  <2>2. ASSUME NEW i \in Request \ {j} PROVE Stored(i)'
    <3>1. Stored(i)
      BY DEF JobInv, SharedOK
    <3> QED
      BY <1>1, <1>4, <3>1 DEF Stored
  <2> QED
    BY <2>1, <2>2
<1>7. SharedOK'
  BY <1>4, <1>5, <1>6 DEF JobInv, SharedOK
<1>8. Steady
  <2>1. \A i \in Request : Visible(i) => i # j
    BY <1>4 DEF Visible
  <2> QED
    BY <1>1, <1>4, <2>1 DEF Steady, Visible, JobInv, SharedOK
<1> QED
  BY <1>7, <1>8, NobodyWorks

(* When a request ends, its job becomes visible with its archive.          *)
LEMMA EndKeeps ==
  ASSUME JobInv, NEW j \in Request, EndRequest(j), UNCHANGED jobVars
  PROVE  JobInv'
<1> USE DEF EndRequest, jobVars
<1>1. SharedOK'
  BY DEF JobInv, SharedOK, Stored, Queued
<1>2. Steady
  BY DEF JobInv, SharedOK, Steady, Visible
<1> QED
  BY <1>1, <1>2, NobodyWorks

(* A process that stops or starts afresh.                                  *)
LEMMA AwayFromWork ==
  ASSUME JobInv, NEW w \in Worker, NEW r, running' = [running EXCEPT ![w] = r],
         Holding(r), r.step \notin Busy, Queued', UNCHANGED <<request, jobVars>>
  PROVE  JobInv'
<1>1. running'[w] = r /\ DOMAIN running' = Worker
      /\ \A v \in Worker \ {w} : running'[v] = running[v]
  BY DEF JobInv
<1>2. WorkerOK(w)'
  BY <1>1, Calm
<1>3. made' \in Nat /\ made <= made'
  BY DEF jobVars, JobInv, SharedOK
<1> QED
  BY <1>1, <1>2, <1>3, Alone DEF jobVars

(* A process with nothing to do is well formed and not at work.            *)
LEMMA IdleHolds == Holding(Idle) /\ Idle.step \notin Busy
BY DEF Holding, Idle, Session, Busy

(* What the broker does touches no row.                                    *)
LEMMA BrokerKeeps ==
  ASSUME JobInv, NEW w \in Worker, UNCHANGED jobVars,
         Take(w) \/ Acknowledge(w) \/ LoseNode(w) \/ LoseChild(w) \/ ExceedVisibility(w)
  PROVE  JobInv'
<1>1. Queued /\ WorkerOK(w)
  BY DEF JobInv, SharedOK
<1>2. CASE Take(w)
  <2>1. PICK m \in BagToSet(queue) :
          /\ queue' = queue (-) SetToBag({m})
          /\ running' = [running EXCEPT ![w] = [step |-> "taken", message |-> m]]
    BY <1>2 DEF Take
  <2>2. m \in JobMessage
    BY <1>1, <2>1 DEF Queued, BagToSet
  <2>3. Holding([step |-> "taken", message |-> m])
    BY <2>2 DEF Holding, Session
  <2> QED
    BY <1>1, <1>2, <2>1, <2>3, AwayFromWork, QueueShrinks DEF Take, Busy
<1>3. CASE Acknowledge(w) \/ LoseChild(w)
  <2>1. running' = [running EXCEPT ![w] = Idle] /\ queue' = queue /\ request' = request
    BY <1>3 DEF Acknowledge, LoseChild, Failure
  <2> QED
    BY <1>1, <2>1, IdleHolds, AwayFromWork DEF Queued
<1>4. CASE LoseNode(w) \/ ExceedVisibility(w)
  <2>1. running[w] # Idle /\ queue' = queue (+) SetToBag({running[w].message})
        /\ request' = request
    BY <1>4 DEF LoseNode, ExceedVisibility, Suffers, Redelivered, Failure
  <2>2. Queued'
    BY <1>1, <2>1, QueueGrows DEF WorkerOK, Holding
  <2>3. CASE running' = [running EXCEPT ![w] = Idle]
    BY <2>1, <2>2, <2>3, IdleHolds, AwayFromWork
  <2>4. CASE running' = running
    BY <2>1, <2>2, <2>4, SharedStays, NobodyWorks DEF jobVars, JobInv, SharedOK
  <2> QED
    BY <1>4, <2>3, <2>4 DEF LoseNode, ExceedVisibility
<1> QED
  BY <1>2, <1>3, <1>4

-----------------------------------------------------------------------------
(* The steps that read, and those that end without a result.               *)
LEMMA LoadKeeps ==
  ASSUME JobInv, NEW w \in Worker, LoadJob(w)
  PROVE  JobInv'
<1>1. running[w].step = "taken" /\ running[w] # Idle
  BY DEF LoadJob, At, Idle
<1>2. PICK step \in {"loaded", "done"} : Moves(w, step) /\ (step = "loaded" => Visible(Row(w)))
  BY DEF LoadJob
<1>3. UNCHANGED <<request, job, document, archive, made>> /\ Queued'
  BY DEF LoadJob, jobVars, JobInv, SharedOK, Queued
<1>4. /\ Holding(running'[w]) /\ running'[w].step = step /\ Row(w)' = Row(w)
      /\ DOMAIN running' = Worker /\ \A v \in Worker \ {w} : running'[v] = running[v]
  BY <1>1, <1>2, MovesOn DEF Session
<1>5. WorkerOK(w)'
  BY <1>2, <1>3, <1>4 DEF WorkerOK, Visible, Session, Busy
<1> QED
  BY <1>3, <1>4, <1>5, SharedStays, OneWorks DEF JobInv, SharedOK

(* A session starts with nothing written and nothing reported; an import   *)
(* whose ZIP is not there goes another way.                                *)
LEMMA StartKeeps ==
  ASSUME JobInv, NEW w \in Worker, MarkRunning(w)
  PROVE  JobInv'
<1> DEFINE step == IF Asks(w).job_type = "import" /\ Row(w) \notin archive
                   THEN "unreadable" ELSE "item"
           r == [step |-> step, message |-> running[w].message,
                 results |-> <<>>, writes |-> <<>>, granted |-> {}, target |-> 0]
<1>1. running' = [running EXCEPT ![w] = r]
  BY DEF MarkRunning, Starts
<1>2. UNCHANGED <<request, job, document, archive, made>> /\ Queued' /\ made \in Nat
  BY DEF MarkRunning, jobVars, JobInv, SharedOK, Queued
<1>3. running[w].step \in Busy
  BY DEF MarkRunning, Starts, At, Busy
<1>4. running[w].message \in JobMessage /\ Visible(Row(w))
  BY <1>3, AtWork
<1>5. /\ r.step = step /\ r.message = running[w].message /\ r.results = <<>> /\ r.writes = <<>>
      /\ r.granted = {}
      /\ step \in {"unreadable", "item"} /\ (step = "unreadable" => Asks(w).job_type = "import")
  OBVIOUS
<1>6. Holding(r)
  BY <1>4 DEF Holding, Session
<1> HIDE DEF r, step
<1>7. running'[w] = r /\ Row(w)' = Row(w) /\ Asks(w)' = Asks(w)
  BY <1>1, <1>2, <1>5 DEF JobInv, Row, Asks
<1>8. Faithful(running[w], Asks(w), DOMAIN document, made)'
  <2>1. <<>> \in Seq(Report) /\ DOMAIN <<>> = {}
    BY EmptySeq
  <2>2. running'[w].results = <<>> /\ running'[w].writes = <<>> /\ running'[w].granted = {}
    BY <1>5, <1>7
  <2> QED
    BY <2>1, <2>2 DEF Faithful, Done, Named
<1>9. WorkerOK(w)'
  BY <1>2, <1>4, <1>5, <1>6, <1>7, <1>8 DEF WorkerOK, Visible, Session
<1>10. DOMAIN running' = Worker /\ \A v \in Worker \ {w} : running'[v] = running[v]
  BY <1>1 DEF JobInv
<1> QED
  BY <1>2, <1>9, <1>10, Alone

(* An exception ends a session with all that it wrote.                     *)
LEMMA RaiseKeeps ==
  ASSUME JobInv, NEW w \in Worker, running[w].step \in Session, Raises(w),
         made' \in Nat, made <= made', UNCHANGED <<request, queue, job, document, archive>>
  PROVE  JobInv'
<1> DEFINE r == [step |-> "raised", message |-> running[w].message]
<1>1. running' = [running EXCEPT ![w] = r]
  BY DEF Raises
<1>2. running[w].message \in JobMessage /\ Visible(Row(w))
  BY AtWork DEF Session, Busy
<1>3. Holding(r) /\ r.step = "raised" /\ r.message = running[w].message
  BY <1>2 DEF Holding, Session
<1> HIDE DEF r
<1>4. running'[w] = r /\ Row(w)' = Row(w)
  BY <1>1, <1>3 DEF JobInv, Row
<1>5. WorkerOK(w)'
  BY <1>2, <1>3, <1>4 DEF WorkerOK, Visible, Session
<1>6. /\ DOMAIN running' = Worker /\ \A v \in Worker \ {w} : running'[v] = running[v]
      /\ Queued'
  BY <1>1 DEF JobInv, SharedOK, Queued
<1> QED
  BY <1>5, <1>6, Alone

-----------------------------------------------------------------------------
(* The items.  What they do to the session, whoever asks for it.           *)

(* To change a row twice is to change it once.                             *)
LEMMA ChangedOnce ==
  ASSUME NEW ask, ask.job_type \in Bulk, NEW row
  PROVE  /\ Changed(Changed(row, ask), ask) = Changed(row, ask)
         /\ HasVersions(row) => HasVersions(Changed(row, ask))
<1>1. CASE ask.job_type = "update"
  BY <1>1 DEF Changed, HasVersions
<1>2. CASE ask.job_type = "delete"
  BY <1>2 DEF Changed, HasVersions
<1>3. CASE ask.job_type = "lifecycle"
  BY <1>3 DEF Changed, HasVersions
<1> QED
  BY <1>1, <1>2, <1>3 DEF Bulk

(* A sequence of reports with one more.                                    *)
LEMMA OneMore ==
  ASSUME NEW results \in Seq(Report), NEW entry \in Report
  PROVE  /\ Append(results, entry) \in Seq(Report)
         /\ DOMAIN Append(results, entry) = DOMAIN results \cup {Len(results) + 1}
         /\ Len(results) + 1 \notin DOMAIN results
         /\ Append(results, entry)[Len(results) + 1] = entry
         /\ \A i \in DOMAIN results : Append(results, entry)[i] = results[i]
<1>1. Len(results) \in Nat /\ DOMAIN results = 1 .. Len(results)
  BY LenProperties
<1> QED
  BY <1>1, AppendProperties

(* Only a success adds its document to those that are done.                *)
LEMMA DoneMore ==
  ASSUME NEW r, NEW q, r.results \in Seq(Report), NEW entry \in Report,
         q.results = Append(r.results, entry)
  PROVE  /\ Done(q) \subseteq Done(r) \cup {entry.document}
         /\ entry.status # "success" => Done(q) \subseteq Done(r)
         /\ Named(r) \subseteq Named(q) /\ entry.document \in Named(q)
<1>1. /\ DOMAIN q.results = DOMAIN r.results \cup {Len(r.results) + 1}
      /\ q.results[Len(r.results) + 1] = entry
      /\ \A i \in DOMAIN r.results : q.results[i] = r.results[i]
  BY OneMore
<1>2. \A i \in DOMAIN r.results : r.results[i] = q.results[i]
  BY <1>1
<1>3. /\ Done(q) \subseteq Done(r) \cup {entry.document}
      /\ entry.status # "success" => Done(q) \subseteq Done(r)
  BY <1>1 DEF Done
<1>4. Named(r) \subseteq Named(q) /\ entry.document \in Named(q)
  BY <1>1 DEF Named
<1> QED
  BY <1>3, <1>4

(* An item that leaves the documents alone.                                *)
LEMMA LeftAlone ==
  ASSUME NEW r, NEW q, NEW ask, NEW known, NEW n \in Nat, Faithful(r, ask, known, n),
         NEW entry \in Report, q.results = Append(r.results, entry), q.writes = r.writes,
         q.granted = r.granted,
         ask.job_type # "export" => entry.status # "success",
         ask.job_type = "export" /\ entry.status = "success" => entry.document \in known,
         ask.job_type = "import" => entry.document \in {0} \cup known \cup DOMAIN r.writes
  PROVE  Faithful(q, ask, known, n)
<1>1. r.results \in Seq(Report)
  BY DEF Faithful
<1>2. /\ Named(r) \subseteq Named(q)
      /\ Done(q) \subseteq Done(r) \cup {entry.document}
      /\ entry.status # "success" => Done(q) \subseteq Done(r)
  BY <1>1, DoneMore
<1>3. ASSUME ask.job_type = "import", NEW i \in DOMAIN q.results
      PROVE  /\ q.results[i].document \in {0} \cup known \cup DOMAIN r.writes
             /\ q.results[i].status = "success" =>
                  /\ q.results[i].document \in DOMAIN r.writes
                  /\ ask.items[i].content =>
                       ask.items[i].version \in r.writes[q.results[i].document].versions
  BY <1>1, <1>3, OneMore DEF Faithful
<1>4. ASSUME ask.job_type \in Bulk PROVE Done(q) \subseteq DOMAIN r.writes
  BY <1>2, <1>4 DEF Faithful, Bulk
<1>5. ASSUME ask.job_type = "export" PROVE Done(q) \subseteq known
  BY <1>2, <1>5 DEF Faithful
<1>6. q.results \in Seq(Report)
  BY <1>1, OneMore
<1>7. /\ DOMAIN q.writes \subseteq 1 .. n
      /\ \A d \in DOMAIN q.writes : HasVersions(q.writes[d])
      /\ DOMAIN q.writes \subseteq Named(q) /\ q.granted \subseteq Named(q)
      /\ ask.job_type \in Bulk => \A d \in DOMAIN q.writes : q.writes[d] = Changed(q.writes[d], ask)
      /\ ask.job_type = "export" => DOMAIN q.writes = {}
      /\ ask.job_type # "import" => q.granted = {}
  BY <1>2 DEF Faithful
<1> QED
  <2>1. DOMAIN q.writes = DOMAIN r.writes
    OBVIOUS
  <2> HIDE DEF Done, Named
  <2> QED
    BY <1>3, <1>4, <1>5, <1>6, <1>7, <2>1 DEF Faithful

(* An item that writes one.                                                *)
LEMMA WritesOne ==
  ASSUME NEW r, NEW q, NEW ask, NEW known, NEW n \in Nat, Faithful(r, ask, known, n),
         NEW m \in Nat, n <= m, NEW d \in 1 .. m, NEW row, HasVersions(row),
         NEW entry \in Report, entry.document = d,
         q.results = Append(r.results, entry), q.writes = Wrote(d, row, r.writes),
         q.granted = r.granted,
         ask.job_type # "export",
         ask.job_type \in Bulk => row = Changed(row, ask),
         ask.job_type = "import" /\ entry.status = "success" =>
           (ask.items[Len(r.results) + 1].content =>
              ask.items[Len(r.results) + 1].version \in row.versions),
         ask.job_type = "import" /\ d \in DOMAIN r.writes =>
           r.writes[d].versions \subseteq row.versions
  PROVE  Faithful(q, ask, known, m)
<1>1. r.results \in Seq(Report)
  BY DEF Faithful
<1>2. /\ DOMAIN q.writes = DOMAIN r.writes \cup {d} /\ q.writes[d] = row
      /\ \A e \in DOMAIN r.writes \ {d} : q.writes[e] = r.writes[e]
  BY DEF Wrote, Over
<1>3. q.results \in Seq(Report)
  BY <1>1, OneMore
<1>4. DOMAIN q.writes \subseteq 1 .. m
  BY <1>2 DEF Faithful
<1>5. \A e \in DOMAIN q.writes : HasVersions(q.writes[e])
  BY <1>2 DEF Faithful
<1>6. ASSUME ask.job_type \in Bulk
      PROVE  /\ Done(q) \subseteq DOMAIN q.writes
             /\ \A e \in DOMAIN q.writes : q.writes[e] = Changed(q.writes[e], ask)
  <2>1. Done(q) \subseteq Done(r) \cup {d}
    BY <1>1, DoneMore
  <2>2. Done(r) \subseteq DOMAIN r.writes
        /\ \A e \in DOMAIN r.writes : r.writes[e] = Changed(r.writes[e], ask)
    BY <1>6 DEF Faithful
  <2>3. row = Changed(row, ask)
    BY <1>6
  <2> QED
    BY <1>2, <2>1, <2>2, <2>3
<1>7. ASSUME ask.job_type = "import", NEW i \in DOMAIN q.results
      PROVE  /\ q.results[i].document \in {0} \cup known \cup DOMAIN q.writes
             /\ q.results[i].status = "success" =>
                  /\ q.results[i].document \in DOMAIN q.writes
                  /\ ask.items[i].content =>
                       ask.items[i].version \in q.writes[q.results[i].document].versions
  <2>1. CASE i = Len(r.results) + 1
    <3>1. q.results[i] = entry
      BY <1>1, <2>1, OneMore
    <3> QED
      BY <1>2, <1>7, <2>1, <3>1
  <2>2. CASE i \in DOMAIN r.results
    <3>1. q.results[i] = r.results[i]
      BY <1>1, <2>2, OneMore
    <3>2. /\ r.results[i].document \in {0} \cup known \cup DOMAIN r.writes
          /\ r.results[i].status = "success" =>
               /\ r.results[i].document \in DOMAIN r.writes
               /\ ask.items[i].content =>
                    ask.items[i].version \in r.writes[r.results[i].document].versions
      BY <1>7, <2>2 DEF Faithful
    <3> QED
      BY <1>2, <1>7, <3>1, <3>2
  <2> QED
    BY <1>1, <1>7, <2>1, <2>2, OneMore
<1>8. DOMAIN q.writes \subseteq Named(q) /\ q.granted \subseteq Named(q)
  <2>1. Named(r) \subseteq Named(q) /\ d \in Named(q)
    BY <1>1, DoneMore
  <2>2. DOMAIN r.writes \subseteq Named(r) /\ r.granted \subseteq Named(r)
    BY DEF Faithful
  <2> QED
    BY <1>2, <2>1, <2>2
<1>9. ask.job_type # "import" => q.granted = {}
  BY DEF Faithful
<1> QED
  BY <1>3, <1>4, <1>5, <1>6, <1>7, <1>8, <1>9 DEF Faithful

-----------------------------------------------------------------------------
(* The items, as a process works on them.                                  *)

(* The process is where it was but in its own record.                      *)
Continues(w) ==
  /\ Holding(running'[w]) /\ running'[w].message = running[w].message
  /\ DOMAIN running' = Worker /\ \A v \in Worker \ {w} : running'[v] = running[v]

(* A step of a session that touches nothing shared, and after which it is  *)
(* faithful, keeps the invariant.                                          *)
LEMMA SessionKeeps ==
  ASSUME JobInv, NEW w \in Worker, running[w].step \in Session, Continues(w),
         running'[w].step \in Session,
         running'[w].step = "close" => Asks(w).job_type # "export",
         made' \in Nat, made <= made', UNCHANGED <<request, queue, job, document, archive>>,
         Faithful(running'[w], Asks(w), DOMAIN document, made'),
         running'[w].step = "write" => Aimed(running'[w], Asks(w), DOMAIN document)
  PROVE  JobInv'
<1>1. Visible(Row(w)) /\ Row(w)' = Row(w) /\ Asks(w)' = Asks(w)
  BY AtWork DEF Session, Busy, Row, Asks, Continues
<1>2. WorkerOK(w)'
  BY <1>1 DEF WorkerOK, Continues, Visible, Session
<1> QED
  BY <1>2, Alone DEF Continues, JobInv, SharedOK, Queued

(* What is known of a process whose session is open.                       *)
LEMMA InSession ==
  ASSUME JobInv, NEW w \in Worker, running[w].step \in Session
  PROVE  /\ Holding(running[w]) /\ running[w] # Idle
         /\ {"step", "message", "results", "writes", "granted", "target"} \subseteq DOMAIN running[w]
         /\ Faithful(running[w], Asks(w), DOMAIN document, made)
         /\ running[w].results \in Seq(Report) /\ made \in Nat
         /\ Documents(Asks(w)) \/ Manifest(Asks(w))
<1>1. Holding(running[w]) /\ running[w] # Idle /\ (Documents(Asks(w)) \/ Manifest(Asks(w)))
  BY AtWork DEF Session, Busy
<1>2. Faithful(running[w], Asks(w), DOMAIN document, made) /\ made \in Nat
  BY DEF JobInv, WorkerOK, SharedOK
<1> QED
  BY <1>1, <1>2 DEF Holding, Faithful

(* Reporting an item appends to the results.                               *)
LEMMA ReportsContinues ==
  ASSUME JobInv, NEW w \in Worker, running[w].step \in Session,
         NEW status, NEW d, Reports(w, status, d)
  PROVE  /\ Continues(w) /\ running'[w].step = "item"
         /\ running'[w].results = Append(running[w].results, [status |-> status, document |-> d])
         /\ running'[w].writes = running[w].writes
         /\ running'[w].granted = running[w].granted
BY InSession DEF Reports, Continues, JobInv, Holding, Idle, Session

(* Aiming at a document leaves results and writes alone.                   *)
LEMMA AimsContinues ==
  ASSUME JobInv, NEW w \in Worker, running[w].step \in Session, NEW d, Aims(w, d)
  PROVE  /\ Continues(w) /\ running'[w].step = "write" /\ running'[w].target = d
         /\ running'[w].results = running[w].results
         /\ running'[w].writes = running[w].writes
         /\ running'[w].granted = running[w].granted
BY InSession DEF Aims, Continues, JobInv, Holding, Idle, Session

(* Writing a document appends its report as well.                          *)
LEMMA WritesContinues ==
  ASSUME JobInv, NEW w \in Worker, running[w].step \in Session, NEW d, NEW row, NEW status,
         Writes(w, status, d, row)
  PROVE  /\ Continues(w) /\ running'[w].step = "item"
         /\ running'[w].results = Append(running[w].results, [status |-> status, document |-> d])
         /\ running'[w].writes = Wrote(d, row, running[w].writes)
         /\ running'[w].granted = running[w].granted
BY InSession DEF Writes, Continues, JobInv, Holding, Idle, Session

(* What a session sees.                                                    *)
LEMMA SeesAll ==
  ASSUME JobInv, NEW w \in Worker, running[w].step \in Session
  PROVE  /\ DOMAIN Sees(w) = DOMAIN document \cup DOMAIN running[w].writes
         /\ DOMAIN Sees(w) \subseteq 1 .. made
         /\ \A d \in DOMAIN running[w].writes : Sees(w)[d] = running[w].writes[d]
         /\ \A d \in DOMAIN document \ DOMAIN running[w].writes : Sees(w)[d] = document[d]
         /\ \A d \in DOMAIN Sees(w) : HasVersions(Sees(w)[d])
<1>1. /\ DOMAIN Sees(w) = DOMAIN document \cup DOMAIN running[w].writes
      /\ \A d \in DOMAIN running[w].writes : Sees(w)[d] = running[w].writes[d]
      /\ \A d \in DOMAIN document \ DOMAIN running[w].writes : Sees(w)[d] = document[d]
  BY DEF Sees, Over
<1>2. /\ DOMAIN running[w].writes \subseteq 1 .. made
      /\ \A d \in DOMAIN running[w].writes : HasVersions(running[w].writes[d])
  BY InSession DEF Faithful
<1>3. DOMAIN document \subseteq 1 .. made /\ \A d \in DOMAIN document : HasVersions(document[d])
  BY DEF JobInv, SharedOK
<1> QED
  BY <1>1, <1>2, <1>3

(* The item whose turn it is.                                              *)
LEMMA ItsTurn ==
  ASSUME JobInv, NEW w \in Worker, running[w].step \in Session, HasItem(w)
  PROVE  /\ Len(running[w].results) + 1 \in DOMAIN Asks(w).items
         /\ Item(w) = Asks(w).items[Len(running[w].results) + 1]
         /\ Asks(w).job_type # "import" => Item(w).id \in Nat
<1>1. Len(running[w].results) \in Nat
  BY InSession, LenProperties
<1>2. Item(w) = Asks(w).items[Len(running[w].results) + 1]
  BY DEF Item, Turn
<1>3. Len(running[w].results) + 1 <= Len(Asks(w).items)
  BY DEF HasItem, Turn
<1>4. CASE Documents(Asks(w))
  <2>1. Asks(w).items \in Seq([id : Nat])
    BY <1>4 DEF Documents
  <2>2. Len(Asks(w).items) \in Nat /\ DOMAIN Asks(w).items = 1 .. Len(Asks(w).items)
    BY <2>1, LenProperties
  <2>3. Len(running[w].results) + 1 \in 1 .. Len(Asks(w).items)
    BY <1>1, <1>3, <2>2
  <2>4. Item(w).id \in Nat
    <3>1. Asks(w).items[Len(running[w].results) + 1] \in [id : Nat]
      BY <2>1, <2>3, ElementOfSeq
    <3> QED
      BY <1>2, <3>1
  <2> QED
    BY <1>2, <2>2, <2>3, <2>4
<1>5. CASE Manifest(Asks(w))
  <2>1. /\ Asks(w).job_type = "import"
        /\ Asks(w).items \in
             Seq(Entry)
    BY <1>5 DEF Manifest
  <2>2. Len(Asks(w).items) \in Nat /\ DOMAIN Asks(w).items = 1 .. Len(Asks(w).items)
    BY <2>1, LenProperties
  <2>3. Len(running[w].results) + 1 \in 1 .. Len(Asks(w).items)
    BY <1>1, <1>3, <2>2
  <2>4. Asks(w).job_type = "import"
    BY <2>1
  <2> QED
    BY <1>2, <2>2, <2>3, <2>4
<1> QED
  BY <1>4, <1>5, InSession

(* Reading an item reports it or aims at a document that is there.         *)
LEMMA ReadKeeps ==
  ASSUME JobInv, NEW w \in Worker, ReadItem(w)
  PROVE  JobInv'
<1>1. /\ running[w].step = "item" /\ running[w].step \in Session /\ HasItem(w)
      /\ UNCHANGED <<request, queue, job, document, archive, made>>
  BY DEF ReadItem, At, Session, ReadBulkItem, ReadExportItem, ReadEntry
<1>2. /\ Faithful(running[w], Asks(w), DOMAIN document, made) /\ made \in Nat
      /\ running[w].results \in Seq(Report)
  BY <1>1, InSession
<1>3. ASSUME NEW status \in {"success", "error", "skipped"}, NEW d \in Nat, Reports(w, status, d),
             Asks(w).job_type # "export" => status # "success",
             Asks(w).job_type = "export" /\ status = "success" => d \in DOMAIN document,
             Asks(w).job_type = "import" => d \in {0} \cup DOMAIN Sees(w)
      PROVE  JobInv'
  <2> DEFINE entry == [status |-> status, document |-> d]
  <2>1. entry \in Report /\ entry.status = status /\ entry.document = d
    BY DEF Report
  <2>2. /\ Continues(w) /\ running'[w].step = "item"
        /\ running'[w].results = Append(running[w].results, entry)
        /\ running'[w].writes = running[w].writes
        /\ running'[w].granted = running[w].granted
    BY <1>1, <1>3, ReportsContinues
  <2> HIDE DEF entry
  <2>3. Faithful(running'[w], Asks(w), DOMAIN document, made)
    BY <1>1, <1>2, <1>3, <2>1, <2>2, LeftAlone, SeesAll
  <2> QED
    BY <1>1, <1>2, <2>2, <2>3, SessionKeeps DEF Session
<1>4. ASSUME NEW d, Aims(w, d),
             Asks(w).job_type \in Bulk => Item(w).id \in DOMAIN Sees(w),
             Asks(w).job_type = "import" => d \in {0} \cup DOMAIN Sees(w)
      PROVE  JobInv'
  <2>1. /\ Continues(w) /\ running'[w].step = "write" /\ running'[w].target = d
        /\ running'[w].results = running[w].results
        /\ running'[w].writes = running[w].writes
        /\ running'[w].granted = running[w].granted
    BY <1>1, <1>4, AimsContinues
  <2>2. Faithful(running'[w], Asks(w), DOMAIN document, made)
    BY <1>2, <2>1 DEF Faithful, Done, Named
  <2>3. Aimed(running'[w], Asks(w), DOMAIN document)
    BY <1>1, <1>4, <2>1, ItsTurn, SeesAll DEF Aimed
  <2> QED
    BY <1>1, <1>2, <2>1, <2>2, <2>3, SessionKeeps DEF Session
<1>5. CASE ReadBulkItem(w)
  <2>1. Asks(w).job_type \in Bulk /\ Asks(w).job_type # "import" /\ Item(w).id \in Nat
    BY <1>1, <1>5, ItsTurn DEF ReadBulkItem, Bulk
  <2>2. CASE Item(w).id \notin DOMAIN Sees(w) \/ Refused(Sees(w)[Item(w).id], Asks(w))
    <3>1. Reports(w, "error", Item(w).id)
      BY <1>5, <2>2 DEF ReadBulkItem
    <3> QED
      BY <1>3, <2>1, <3>1
  <2>3. CASE ~ (Item(w).id \notin DOMAIN Sees(w) \/ Refused(Sees(w)[Item(w).id], Asks(w)))
    <3>1. Aims(w, Item(w).id) /\ Item(w).id \in DOMAIN Sees(w)
      BY <1>5, <2>3 DEF ReadBulkItem
    <3> QED
      BY <1>4, <2>1, <3>1
  <2> QED
    BY <2>2, <2>3
<1>6. CASE ReadExportItem(w)
  <2>1. Asks(w).job_type = "export" /\ Item(w).id \in Nat
    BY <1>1, <1>6, ItsTurn DEF ReadExportItem
  <2>2. PICK status \in {"success", "error"} :
          /\ Reports(w, status, Item(w).id)
          /\ status = "success" => Item(w).id \in DOMAIN document
    BY <1>6 DEF ReadExportItem
  <2> QED
    BY <1>3, <2>1, <2>2
<1>7. CASE ReadEntry(w)
  <2>1. Asks(w).job_type = "import" /\ Asks(w).job_type \notin Bulk
    BY <1>7 DEF ReadEntry, Bulk
  <2>2. CASE Cardinality(Twins(w)) > 1
    <3>1. Reports(w, "error", 0)
      BY <1>7, <2>2 DEF ReadEntry
    <3> QED
      BY <1>3, <3>1
  <2>3. CASE ~ (Cardinality(Twins(w)) > 1)
    <3>1. PICK d \in IF Twins(w) = {} THEN {0} ELSE Twins(w) :
            IF d # 0 /\ Asks(w).parameter = "skip" THEN Reports(w, "skipped", d) ELSE Aims(w, d)
      BY <1>7, <2>3 DEF ReadEntry
    <3>2. d \in {0} \cup DOMAIN Sees(w)
      BY <3>1 DEF Twins
    <3>3. d \in Nat
      <4>1. DOMAIN Sees(w) \subseteq 1 .. made
        BY <1>1, SeesAll
      <4> QED
        BY <1>2, <3>2, <4>1
    <3> QED
      BY <1>3, <1>4, <2>1, <3>1, <3>2, <3>3
  <2> QED
    BY <2>2, <2>3
<1> QED
  BY <1>5, <1>6, <1>7 DEF ReadItem

(* An item that is written, with a success or not, by a session that may.  *)
LEMMA WrittenKeeps ==
  ASSUME JobInv, NEW w \in Worker, running[w].step \in Session,
         NEW d, NEW row, HasVersions(row), NEW status \in {"success", "error"},
         Writes(w, status, d, row), made' \in Nat, made <= made', d \in 1 .. made',
         UNCHANGED <<request, queue, job, document, archive>>,
         Asks(w).job_type # "export",
         Asks(w).job_type \in Bulk => row = Changed(row, Asks(w)),
         Asks(w).job_type = "import" /\ status = "success" =>
           (Item(w).content => Item(w).version \in row.versions),
         Asks(w).job_type = "import" /\ d \in DOMAIN running[w].writes =>
           running[w].writes[d].versions \subseteq row.versions
  PROVE  JobInv'
<1> DEFINE entry == [status |-> status, document |-> d]
<1>1. entry \in Report /\ entry.status = status /\ entry.document = d
  BY DEF Report
<1>2. /\ Continues(w) /\ running'[w].step = "item"
      /\ running'[w].results = Append(running[w].results, entry)
      /\ running'[w].writes = Wrote(d, row, running[w].writes)
      /\ running'[w].granted = running[w].granted
  BY WritesContinues
<1> HIDE DEF entry
<1>3. Faithful(running[w], Asks(w), DOMAIN document, made) /\ made \in Nat
  BY InSession
<1>4. Item(w) = Asks(w).items[Len(running[w].results) + 1]
  BY DEF Item, Turn
<1>5. Faithful(running'[w], Asks(w), DOMAIN document, made')
  BY <1>1, <1>2, <1>3, <1>4, WritesOne
<1> QED
  BY <1>2, <1>5, SessionKeeps DEF Session

(* A bulk job's item: refused by the database, or written as it asks.      *)
LEMMA WriteBulkKeeps ==
  ASSUME JobInv, NEW w \in Worker, WriteItem(w), WriteBulkItem(w)
  PROVE  JobInv'
<1>1. /\ running[w].step = "write" /\ running[w].step \in Session
      /\ Asks(w).job_type \in Bulk /\ Asks(w).job_type \notin {"import", "export"}
      /\ UNCHANGED <<request, queue, job, document, archive, made>> /\ made \in Nat
  BY DEF WriteItem, WriteBulkItem, At, Session, Bulk, JobInv, SharedOK
<1>2. CASE Raises(w)
  BY <1>1, <1>2, RaiseKeeps
<1>3. ASSUME NEW status \in {"success", "error"},
             Writes(w, status, Item(w).id, Changed(Sees(w)[Item(w).id], Asks(w)))
      PROVE  JobInv'
  <2> DEFINE d == Item(w).id
             row == Changed(Sees(w)[d], Asks(w))
  <2>1. Item(w) = Asks(w).items[Len(running[w].results) + 1]
    BY DEF Item, Turn
  <2>2. Aimed(running[w], Asks(w), DOMAIN document)
    BY <1>1 DEF JobInv, WorkerOK
  <2>3. d \in DOMAIN document \cup DOMAIN running[w].writes
    BY <1>1, <2>1, <2>2 DEF Aimed
  <2>4. d \in 1 .. made /\ HasVersions(Sees(w)[d])
    BY <1>1, <2>3, SeesAll
  <2>5. HasVersions(row) /\ row = Changed(row, Asks(w))
    BY <1>1, <2>4, ChangedOnce
  <2>6. Writes(w, status, d, row)
    BY <1>3
  <2> HIDE DEF row, d
  <2>7. /\ Asks(w).job_type # "export" /\ Asks(w).job_type # "import"
        /\ made' \in Nat /\ made <= made' /\ d \in 1 .. made'
    BY <1>1, <2>4
  <2>8. UNCHANGED <<request, queue, job, document, archive>>
    BY <1>1
  <2> QED
    BY <1>1, <2>5, <2>6, <2>7, <2>8, WrittenKeeps
<1> QED
  BY <1>2, <1>3 DEF WriteBulkItem

(* An import's entry: its version collides, or it is written, or the       *)
(* object store does not answer and the document is written without it.    *)
LEMMA WriteEntryKeeps ==
  ASSUME JobInv, NEW w \in Worker, WriteItem(w), WriteEntry(w)
  PROVE  JobInv'
<1> DEFINE d   == IF Overwritten(w) THEN running[w].target ELSE made + 1
           row == [Base(w) EXCEPT !.versions = @ \cup {Item(w).version}]
<1>1. /\ running[w].step = "write" /\ running[w].step \in Session
      /\ Asks(w).job_type = "import" /\ Asks(w).job_type \notin Bulk
      /\ UNCHANGED <<request, queue, job, document, archive>> /\ made \in Nat
      /\ made' = IF Overwritten(w) THEN made ELSE made + 1
  BY DEF WriteItem, WriteEntry, At, Session, Bulk, JobInv, SharedOK
<1>2. Aimed(running[w], Asks(w), DOMAIN document)
  BY <1>1 DEF JobInv, WorkerOK
<1>3. ASSUME Overwritten(w)
      PROVE  running[w].target \in DOMAIN Sees(w) /\ running[w].target \in 1 .. made
  BY <1>1, <1>2, <1>3, SeesAll DEF Aimed, Overwritten
<1>4. made' \in Nat /\ made <= made' /\ d \in 1 .. made'
  BY <1>1, <1>3
<1>5. HasVersions(Base(w)) /\ (Overwritten(w) => Base(w).versions = Sees(w)[d].versions)
  <2>1. CASE Overwritten(w)
    <3>1. HasVersions(Sees(w)[d]) /\ Base(w) = [Sees(w)[d] EXCEPT !.metadata = Item(w).metadata]
      BY <1>1, <1>3, <2>1, SeesAll DEF Base
    <3> HIDE DEF d
    <3> QED
      BY <3>1 DEF HasVersions
  <2>2. CASE ~ Overwritten(w)
    BY <2>2 DEF Base, Fresh, HasVersions
  <2> QED
    BY <2>1, <2>2
<1>6. HasVersions(row) /\ row.versions = Base(w).versions \cup {Item(w).version}
  BY <1>5 DEF HasVersions
<1>7. d \in DOMAIN running[w].writes => running[w].writes[d].versions = Base(w).versions
  <2>1. CASE Overwritten(w)
    BY <1>1, <1>5, <2>1, SeesAll
  <2>2. CASE ~ Overwritten(w)
    <3>1. DOMAIN running[w].writes \subseteq 1 .. made /\ d = made + 1
      BY <1>1, <2>2, InSession DEF Faithful
    <3> QED
      BY <1>1, <3>1
  <2> QED
    BY <2>1, <2>2
<1>8. \/ Raises(w)
      \/ Writes(w, "success", d, row)
      \/ Writes(w, "success", d, Base(w)) /\ ~ Item(w).content
      \/ Writes(w, "error", d, Base(w))
  BY DEF WriteEntry
<1> HIDE DEF d, row
<1>9. CASE Raises(w)
  BY <1>1, <1>4, <1>9, RaiseKeeps
<1>10. CASE Writes(w, "success", d, row)
  <2>1. /\ Item(w).version \in row.versions
        /\ d \in DOMAIN running[w].writes => running[w].writes[d].versions \subseteq row.versions
    BY <1>6, <1>7
  <2>2. HasVersions(row) /\ Asks(w).job_type # "export"
    BY <1>1, <1>6
  <2> QED
    BY <1>1, <1>4, <1>10, <2>1, <2>2, WrittenKeeps
<1>11. ASSUME NEW status \in {"success", "error"}, Writes(w, status, d, Base(w)),
              status = "success" => ~ Item(w).content
       PROVE  JobInv'
  BY <1>1, <1>4, <1>5, <1>7, <1>11, WrittenKeeps
<1> QED
  BY <1>8, <1>9, <1>10, <1>11

(* The entries for the owners, when all items are done.                    *)
LEMMA RecreateKeeps ==
  ASSUME JobInv, NEW w \in Worker, RecreateACLs(w)
  PROVE  JobInv'
<1>1. /\ running[w].step = "item" /\ running[w].step \in Session
      /\ Asks(w).job_type = "import" /\ Asks(w).job_type \notin Bulk
      /\ UNCHANGED <<request, queue, job, document, archive, made>> /\ made \in Nat
      /\ ~ HasItem(w)
  BY DEF RecreateACLs, At, Session, Bulk, jobVars, JobInv, SharedOK
<1>2. CASE Raises(w)
  BY <1>1, <1>2, RaiseKeeps
<1>3. CASE running' = [running EXCEPT ![w].step = "close",
                                      ![w].granted = Recipients(w, Granted(w))]
  <2>1. /\ Continues(w) /\ running'[w].step = "close"
        /\ running'[w].results = running[w].results /\ running'[w].writes = running[w].writes
        /\ running'[w].granted = Recipients(w, Granted(w))
    BY <1>1, <1>3, InSession DEF Continues, JobInv, Holding, Idle, Session
  <2>2. Recipients(w, Granted(w)) \subseteq Named(running[w])
    BY DEF Recipients, Granted, Named
  <2>3. Faithful(running[w], Asks(w), DOMAIN document, made)
    BY <1>1, InSession
  <2>4. Faithful(running'[w], Asks(w), DOMAIN document, made)
    BY <1>1, <2>1, <2>2, <2>3 DEF Faithful, Named
  <2> QED
    BY <1>1, <2>1, <2>4, SessionKeeps DEF Session
<1> QED
  BY <1>2, <1>3 DEF RecreateACLs

-----------------------------------------------------------------------------
(* The end of a job.                                                       *)

(* A job's status and results, and the archives.                           *)
LEMMA RowsAfter ==
  ASSUME JobInv, NEW i \in Request, Visible(i), NEW status, NEW results,
         \/ job' = [job EXCEPT ![i].status = status, ![i].results = results]
         \/ job' = [job EXCEPT ![i].results = results, ![i].status = status]
  PROVE  /\ DOMAIN job' = Request /\ JobRow(job'[i]) /\ job'[i].status = status
         /\ job'[i].results = results /\ \A j \in Request : job'[j].ask = job[j].ask
         /\ \A j \in Request \ {i} : job'[j] = job[j]
<1>1. DOMAIN job = Request /\ JobRow(job[i])
  BY DEF JobInv, SharedOK, Stored
<1> QED
  BY <1>1 DEF JobRow

(* What is stored for the other jobs is not affected.                      *)
LEMMA OthersStored ==
  ASSUME JobInv, NEW i \in Request, request' = request,
         \A j \in Request \ {i} : job'[j] = job[j] /\ (j \in archive => j \in archive'),
         Stored(i)'
  PROVE  \A j \in Request : Stored(j)'
BY DEF JobInv, SharedOK, Stored

(* The ZIP of an export is stored, and its job not yet completed.          *)
LEMMA StoreKeeps ==
  ASSUME JobInv, NEW w \in Worker, StoreArchive(w)
  PROVE  JobInv'
<1>1. /\ running[w].step = "item" /\ running[w].step \in Session
      /\ Asks(w).job_type = "export" /\ archive' = archive \cup {Row(w)} /\ Moves(w, "close")
      /\ UNCHANGED <<request, queue, job, document, made>>
  BY DEF StoreArchive, At, Session
<1>2. /\ Visible(Row(w)) /\ Row(w) \in Request /\ running[w] # Idle
  BY <1>1, AtWork DEF Session, Busy
<1>3. /\ Holding(running'[w]) /\ running'[w].step = "close" /\ Row(w)' = Row(w)
      /\ DOMAIN running' = Worker /\ \A v \in Worker \ {w} : running'[v] = running[v]
  BY <1>1, <1>2, MovesOn
<1>4. /\ running'[w].results = running[w].results /\ running'[w].writes = running[w].writes
      /\ running'[w].granted = running[w].granted /\ Asks(w)' = Asks(w)
  BY <1>1, <1>3, InSession DEF Moves, Asks, JobInv
<1>5. Faithful(running[w], Asks(w), DOMAIN document, made)'
  BY <1>1, <1>4, InSession DEF Faithful, Done, Named
<1>6. WorkerOK(w)'
  BY <1>1, <1>2, <1>3, <1>4, <1>5 DEF WorkerOK, Visible
<1>7. Steady
  BY <1>1 DEF Steady, Visible, JobInv, SharedOK
<1>8. SharedOK'
  BY <1>1 DEF JobInv, SharedOK, Stored, Queued
<1> QED
  BY <1>3, <1>6, <1>7, <1>8, OneWorks

(* What a session commits, with its entries for the owners.                *)
LEMMA CommittedRows ==
  ASSUME JobInv, NEW w \in Worker, running[w].step \in Session, NEW given
  PROVE  /\ DOMAIN WithACLs(w, given) \subseteq 1 .. made
         /\ DOMAIN WithACLs(w, given) = DOMAIN document \cup DOMAIN running[w].writes
         /\ \A d \in DOMAIN WithACLs(w, given) :
              /\ HasVersions(WithACLs(w, given)[d])
              /\ WithACLs(w, given)[d].versions = Sees(w)[d].versions
              /\ d \notin given => WithACLs(w, given)[d] = Sees(w)[d]
         /\ WithACLs(w, given) = [d \in DOMAIN WithACLs(w, given) |-> WithACLs(w, given)[d]]
BY SeesAll DEF WithACLs, HasVersions

(* A session that commits and settles its job, whatever it reports.        *)
LEMMA SettledKeeps ==
  ASSUME JobInv, NEW w \in Worker, running[w].step \in Session, NEW given,
         document' = WithACLs(w, given), NEW results, NEW status \in {"completed", "failed"},
         \/ job' = [job EXCEPT ![Row(w)].status = status, ![Row(w)].results = results]
         \/ job' = [job EXCEPT ![Row(w)].results = results, ![Row(w)].status = status],
         NEW step \in {"committed", "done"}, Moves(w, step),
         step = "committed" => Asks(w).job_type = "import",
         Asks(w).job_type = "export" => Row(w) \in archive,
         UNCHANGED <<request, queue, made, archive>>
  PROVE  JobInv'
<1>1. made \in Nat /\ Visible(Row(w)) /\ Row(w) \in Request /\ running[w] # Idle
  BY AtWork DEF Session, Busy, JobInv, SharedOK
<1> PICK j \in Request : j = Row(w)
  BY <1>1
<1>2. status # "pending"
  OBVIOUS
<1>3. Asks(w) = job[j].ask
  BY DEF Asks
<1>4. /\ DOMAIN job' = Request /\ JobRow(job'[j]) /\ job'[j].status = status
      /\ \A i \in Request : job'[i].ask = job[i].ask
      /\ \A i \in Request \ {j} : job'[i] = job[i]
  BY <1>1, RowsAfter
<1>5. /\ DOMAIN document' \subseteq 1 .. made /\ DOMAIN document \subseteq DOMAIN document'
      /\ \A d \in DOMAIN document' : HasVersions(document'[d])
      /\ document' = [d \in DOMAIN document' |-> document'[d]]
  BY CommittedRows
<1>6. Stored(j)'
  <2>1. Stored(j)
    BY DEF JobInv, SharedOK
  <2> QED
    BY <1>1, <1>2, <1>3, <1>4, <2>1 DEF Stored, Visible
<1>7. SharedOK'
  <2>1. \A i \in Request : Stored(i)'
    BY <1>4, <1>6, OthersStored
  <2> QED
    BY <1>4, <1>5, <2>1 DEF JobInv, SharedOK, Queued
<1>8. Steady
  BY <1>1, <1>2, <1>4, <1>5 DEF Steady, Visible
<1>9. /\ Holding(running'[w]) /\ running'[w].step = step /\ Row(w)' = j
      /\ DOMAIN running' = Worker /\ \A v \in Worker \ {w} : running'[v] = running[v]
  BY <1>1, MovesOn DEF Session
<1>10. WorkerOK(w)'
  <2>1. Asks(w)' = Asks(w)
    BY <1>1, <1>3, <1>4, <1>9 DEF Asks
  <2> QED
    BY <1>1, <1>2, <1>3, <1>4, <1>9, <2>1 DEF WorkerOK, Visible, Session, Busy
<1> QED
  BY <1>7, <1>8, <1>9, <1>10, OneWorks

(* The commit of a session, unless another import was there first.         *)
LEMMA CommitKeeps ==
  ASSUME JobInv, NEW w \in Worker, Commit(w)
  PROVE  JobInv'
<1> DEFINE step == IF Asks(w).job_type = "import" THEN "committed" ELSE "done"
<1>1. /\ running[w].step \in Session /\ ReadyToCommit(w)
      /\ UNCHANGED <<request, queue, made, archive>> /\ made \in Nat
  BY DEF Commit, ReadyToCommit, At, Session, JobInv, SharedOK
<1>2. CASE Raises(w) /\ UNCHANGED <<job, document>>
  BY <1>1, <1>2, RaiseKeeps
<1>3. CASE /\ document' = WithACLs(w, running[w].granted)
           /\ job' = [job EXCEPT ![Row(w)].results = running[w].results,
                                 ![Row(w)].status = Outcome(w)]
           /\ Moves(w, step)
  <2>1. step \in {"committed", "done"} /\ (step = "committed" => Asks(w).job_type = "import")
    OBVIOUS
  <2>2. Outcome(w) \in {"completed", "failed"}
    BY DEF Outcome
  <2>3. Asks(w).job_type = "export" => Row(w) \in archive
    BY <1>1 DEF ReadyToCommit, At, Bulk, JobInv, WorkerOK
  <2> HIDE DEF step
  <2> QED
    BY <1>1, <1>3, <2>1, <2>2, <2>3, SettledKeeps
<1> QED
  BY <1>2, <1>3 DEF Commit

(* An import that breaks off commits what it has written.                  *)
LEMMA BreakOffKeeps ==
  ASSUME JobInv, NEW w \in Worker, BreakOff(w)
  PROVE  JobInv'
<1>1. /\ running[w].step \in Session /\ Asks(w).job_type = "import"
      /\ UNCHANGED <<request, queue, made, archive>> /\ made \in Nat
  BY DEF BreakOff, At, Session, JobInv, SharedOK
<1>2. PICK entries \in SUBSET Granted(w) :
        \/ Raises(w) /\ UNCHANGED <<job, document>>
        \/ /\ document' = WithACLs(w, Recipients(w, entries))
           /\ job' = [job EXCEPT ![Row(w)].status = "failed", ![Row(w)].results = <<>>]
           /\ Moves(w, "done")
  BY DEF BreakOff
<1>3. CASE Raises(w) /\ UNCHANGED <<job, document>>
  BY <1>1, <1>3, RaiseKeeps
<1>4. CASE /\ document' = WithACLs(w, Recipients(w, entries))
           /\ job' = [job EXCEPT ![Row(w)].status = "failed", ![Row(w)].results = <<>>]
           /\ Moves(w, "done")
  BY <1>1, <1>4, SettledKeeps
<1> QED
  BY <1>2, <1>3, <1>4

(* An import whose ZIP is gone is failed, so it is not pending.            *)
LEMMA FailKeeps ==
  ASSUME JobInv, NEW w \in Worker, FailImport(w)
  PROVE  JobInv'
<1>1. /\ running[w].step \in Busy /\ Moves(w, "done") /\ Asks(w).job_type = "import"
      /\ UNCHANGED <<request, queue, document, made, archive>>
      /\ job' = [job EXCEPT ![Row(w)].status = "failed", ![Row(w)].results = <<>>]
  BY DEF FailImport, At, Busy, JobInv, WorkerOK
<1>2. Visible(Row(w)) /\ Row(w) \in Request /\ running[w] # Idle
  BY <1>1, AtWork
<1>3. /\ Holding(running'[w]) /\ running'[w].step = "done"
      /\ DOMAIN running' = Worker /\ \A v \in Worker \ {w} : running'[v] = running[v]
  BY <1>1, <1>2, MovesOn DEF Session
<1> PICK j \in Request : j = Row(w)
  BY <1>2
<1>4. /\ DOMAIN job' = Request /\ JobRow(job'[j]) /\ job'[j].status = "failed"
      /\ \A i \in Request : job'[i].ask = job[i].ask
      /\ \A i \in Request \ {j} : job'[i] = job[i]
  BY <1>1, <1>2, RowsAfter
<1>5. Stored(j)'
  BY <1>1, <1>2, <1>4 DEF JobInv, SharedOK, Stored, Visible
<1>6. SharedOK'
  <2>1. \A i \in Request : Stored(i)'
    BY <1>1, <1>2, <1>4, <1>5, OthersStored
  <2> QED
    BY <1>1, <1>4, <2>1 DEF JobInv, SharedOK, Queued
<1>7. Steady
  BY <1>1, <1>4 DEF Steady, Visible, JobInv, SharedOK
<1>8. WorkerOK(w)'
  BY <1>3, Calm DEF Busy
<1> QED
  BY <1>3, <1>6, <1>7, <1>8, OneWorks

(* The ZIP is removed from a job that is settled.                          *)
LEMMA RemoveKeeps ==
  ASSUME JobInv, NEW w \in Worker, RemoveArchive(w)
  PROVE  JobInv'
<1>1. /\ running[w].step = "committed" /\ Moves(w, "done") /\ archive' = archive \ {Row(w)}
      /\ UNCHANGED <<request, queue, job, document, made>>
  BY DEF RemoveArchive, At
<1>2. /\ Visible(Row(w)) /\ Row(w) \in Request /\ running[w] # Idle
      /\ job[Row(w)].ask.job_type = "import" /\ job[Row(w)].status # "pending"
  BY <1>1, AtWork DEF Busy, JobInv, WorkerOK, Asks
<1>3. /\ Holding(running'[w]) /\ running'[w].step = "done"
      /\ DOMAIN running' = Worker /\ \A v \in Worker \ {w} : running'[v] = running[v]
  BY <1>1, <1>2, MovesOn DEF Session
<1>4. Stored(Row(w)) /\ \A j \in Request : Stored(j)
  BY <1>2 DEF JobInv, SharedOK
<1>5. \A j \in Request : Stored(j)'
  BY <1>1, <1>2, <1>4 DEF Stored
<1>6. SharedOK' /\ Steady
  BY <1>1, <1>2, <1>5 DEF JobInv, SharedOK, Queued, Steady, Visible
<1>7. WorkerOK(w)'
  BY <1>3, Calm DEF Busy
<1> QED
  BY <1>3, <1>6, <1>7, OneWorks

(* A retry sends the message of the same job again.                        *)
LEMMA RetryKeeps ==
  ASSUME JobInv, NEW w \in Worker, RetryJob(w)
  PROVE  JobInv'
<1>1. /\ running[w].step = "raised" /\ Moves(w, "done")
      /\ UNCHANGED <<request, job, document, made, archive>>
      /\ queue' = queue \/ queue' = queue (+) SetToBag({JobTask(Row(w), 1)})
  BY DEF RetryJob, At, Redelivered
<1>2. Row(w) \in Request /\ running[w] # Idle
  BY <1>1, AtWork DEF Busy
<1>3. /\ Holding(running'[w]) /\ running'[w].step = "done"
      /\ DOMAIN running' = Worker /\ \A v \in Worker \ {w} : running'[v] = running[v]
  BY <1>1, <1>2, MovesOn DEF Session
<1>4. Queued'
  <2>1. Queued /\ JobTask(Row(w), 1) \in JobMessage
    BY <1>2, JobMessages DEF JobInv, SharedOK
  <2>2. CASE queue' = queue
    BY <2>1, <2>2 DEF Queued
  <2>3. CASE queue' = queue (+) SetToBag({JobTask(Row(w), 1)})
    BY <2>1, <2>3, QueueGrows
  <2> QED
    BY <1>1, <2>2, <2>3
<1>5. WorkerOK(w)'
  BY <1>3, Calm DEF Busy
<1>6. made' \in Nat /\ made <= made'
  BY <1>1 DEF JobInv, SharedOK
<1> QED
  BY <1>1, <1>3, <1>4, <1>5, <1>6, Alone

(* The victim of a deadlock had a session open.                            *)
LEMMA DeadlockKeeps ==
  ASSUME JobInv, NEW w \in Worker, BreakDeadlock(w)
  PROVE  JobInv'
<1>1. PICK S \in SUBSET Worker : w \in S /\ \E u \in S : WaitsFor(w, u)
  BY DEF BreakDeadlock
<1>2. running[w].step \in Session
  BY <1>1 DEF WaitsFor, At, Session
<1>3. Raises(w) /\ UNCHANGED <<request, queue, job, document, archive, made>>
  BY DEF BreakDeadlock, jobVars
<1> QED
  BY <1>2, <1>3, RaiseKeeps DEF JobInv, SharedOK

-----------------------------------------------------------------------------
(* Every step keeps the invariant.                                         *)
LEMMA JobStep ==
  ASSUME JobInv, [Next]_vars
  PROVE  JobInv'
<1>1. CASE UNCHANGED vars
  <2>1. SharedOK' /\ Steady
    BY <1>1, SharedStays DEF vars, brokerVars, jobVars, JobInv, SharedOK, Queued
  <2> QED
    BY <1>1, <2>1, NobodyWorks DEF vars, brokerVars
<1>2. ASSUME NEW j \in Request, SubmitJob(j) \/ (EndRequest(j) /\ UNCHANGED jobVars)
      PROVE  JobInv'
  BY <1>2, SubmitKeeps, EndKeeps
<1>3. ASSUME NEW w \in Worker, Work(w)
      PROVE  JobInv'
  <2>1. CASE (Take(w) \/ Acknowledge(w)) /\ UNCHANGED jobVars
    BY <2>1, BrokerKeeps
  <2>2. CASE LoadJob(w) \/ MarkRunning(w) \/ ReadItem(w) \/ RecreateACLs(w)
    BY <2>2, LoadKeeps, StartKeeps, ReadKeeps, RecreateKeeps
  <2>3. CASE WriteItem(w)
    BY <2>3, WriteBulkKeeps, WriteEntryKeeps DEF WriteItem
  <2>4. CASE StoreArchive(w) \/ Commit(w) \/ FailImport(w) \/ RemoveArchive(w) \/ RetryJob(w)
    BY <2>4, StoreKeeps, CommitKeeps, FailKeeps, RemoveKeeps, RetryKeeps
  <2> QED
    BY <1>3, <2>1, <2>2, <2>3, <2>4 DEF Work
<1>4. ASSUME NEW w \in Worker,
             (LoseNode(w) \/ LoseChild(w) \/ ExceedVisibility(w)) /\ UNCHANGED jobVars
      PROVE  JobInv'
  BY <1>4, BrokerKeeps
<1> QED
  BY <1>1, <1>2, <1>3, <1>4, DeadlockKeeps, BreakOffKeeps DEF Next

(* An archive is there for as long as it is needed, whichever of the       *)
(* processes at work on a job die, are overtaken by a second delivery of   *)
(* its task or start again (import_export.py 247-260, 527-535).            *)
THEOREM ArchivesStay == Spec => []ArchivesAreThere
<1>1. JobInv => ArchivesAreThere
  BY DEF JobInv, SharedOK, Stored, ArchivesAreThere, Visible
<1> QED
  BY JobInitially, JobStep, <1>1, PTL DEF Spec

-----------------------------------------------------------------------------
(* The reports.  Only the commit of a session and the failure of an import *)
(* change what a job that is there reports.                                *)

(* The documents that a step changes.                                      *)
ChangedNow == {e \in DOMAIN document' : e \in DOMAIN document => document'[e] # document[e]}

(* An item that is a success has its effect.                               *)
Effective(ask, report, i) ==
  LET d == report[i].document
  IN CASE ask.job_type \in Bulk -> document'[d] = Changed(document'[d], ask)
       [] ask.job_type = "import" ->
            /\ d \in DOMAIN document'
            /\ ask.items[i].content => ask.items[i].version \in document'[d].versions
       [] OTHER -> d \in DOMAIN document

(* The statement about one job, without the condition that it changes.     *)
Tells(ask, report) ==
  /\ report # <<>> => ChangedNow \subseteq {report[i].document : i \in DOMAIN report}
  /\ ask.job_type = "export" => ChangedNow = {}
  /\ \A i \in DOMAIN report : report[i].status = "success" => Effective(ask, report, i)

(* A commit tells what the session did, because it is faithful.            *)
LEMMA CommitReports ==
  ASSUME JobInv, NEW w \in Worker, running[w].step \in Session,
         document' = WithACLs(w, running[w].granted),
         job' = [job EXCEPT ![Row(w)].results = running[w].results,
                            ![Row(w)].status = Outcome(w)]
  PROVE  Tells(Asks(w), job'[Row(w)].results)
<1> DEFINE ask == Asks(w)
           r == running[w]
<1>1. Visible(Row(w)) /\ Row(w) \in Request
  BY AtWork DEF Session, Busy
<1> PICK j \in Request : j = Row(w)
  BY <1>1
<1>2. job'[j].results = r.results /\ job[j].ask = ask
  <2>1. DOMAIN job = Request /\ JobRow(job[j])
    BY DEF JobInv, SharedOK, Stored
  <2> QED
    BY <2>1 DEF JobRow, Asks
<1>3. Faithful(r, ask, DOMAIN document, made) /\ (Documents(ask) \/ Manifest(ask))
  BY InSession
<1>4. /\ DOMAIN document' = DOMAIN document \cup DOMAIN r.writes
      /\ \A d \in DOMAIN r.writes : document'[d].versions = r.writes[d].versions
      /\ \A d \in DOMAIN r.writes \ r.granted : document'[d] = r.writes[d]
      /\ \A d \in DOMAIN document \ (DOMAIN r.writes \cup r.granted) : document'[d] = document[d]
  <2>1. /\ DOMAIN document' = DOMAIN document \cup DOMAIN r.writes
        /\ \A d \in DOMAIN document' :
             /\ document'[d].versions = Sees(w)[d].versions
             /\ d \notin r.granted => document'[d] = Sees(w)[d]
    BY CommittedRows
  <2>2. /\ \A d \in DOMAIN r.writes : Sees(w)[d] = r.writes[d]
        /\ \A d \in DOMAIN document \ DOMAIN r.writes : Sees(w)[d] = document[d]
    BY SeesAll
  <2> HIDE DEF r
  <2> QED
    BY <2>1, <2>2
<1> HIDE DEF ask, r
<1>5. ChangedNow \subseteq DOMAIN r.writes \cup r.granted
  BY <1>4 DEF ChangedNow
<1>6. ChangedNow \subseteq Named(r)
  BY <1>3, <1>5 DEF Faithful
<1>7. ask.job_type = "export" => ChangedNow = {}
  BY <1>3, <1>5 DEF Faithful
<1>8. ASSUME ask.job_type \in Bulk, NEW i \in DOMAIN r.results, r.results[i].status = "success"
      PROVE  document'[r.results[i].document] = Changed(document'[r.results[i].document], ask)
  <2>1. r.results[i].document \in DOMAIN r.writes \ r.granted
    BY <1>3, <1>8 DEF Faithful, Done, Bulk
  <2> QED
    BY <1>3, <1>4, <1>8, <2>1 DEF Faithful
<1>9. ASSUME ask.job_type = "import", NEW i \in DOMAIN r.results, r.results[i].status = "success"
      PROVE  /\ r.results[i].document \in DOMAIN document'
             /\ ask.items[i].content =>
                  ask.items[i].version \in document'[r.results[i].document].versions
  BY <1>3, <1>4, <1>9 DEF Faithful
<1>10. ASSUME ask.job_type = "export", NEW i \in DOMAIN r.results, r.results[i].status = "success"
       PROVE  r.results[i].document \in DOMAIN document
  BY <1>3, <1>10 DEF Faithful, Done
<1>11. ask.job_type \in Bulk \/ ask.job_type = "import" \/ ask.job_type = "export"
  BY <1>3 DEF Documents, Manifest
<1>12. Named(r) = {job'[j].results[i].document : i \in DOMAIN job'[j].results}
  BY <1>2 DEF Named
<1>13. \A i \in DOMAIN r.results : r.results[i].status = "success" => Effective(ask, r.results, i)
  BY <1>8, <1>9, <1>10, <1>11 DEF Bulk, Effective
<1> QED
  BY <1>2, <1>6, <1>7, <1>12, <1>13 DEF Tells, ask

(* What a visible job reports is changed by the process at work on it, at  *)
(* its commit or at the failure of an import.                              *)
LEMMA Reporting ==
  ASSUME JobInv, [Next]_vars, NEW j \in Request, Visible(j), job'[j] # job[j]
  PROVE  \E w \in Worker : Row(w) = j /\ (Commit(w) \/ FailImport(w) \/ BreakOff(w))
<1>1. ASSUME UNCHANGED job PROVE FALSE
  BY <1>1
<1>2. CASE UNCHANGED vars
  BY <1>1, <1>2 DEF vars, jobVars
<1>3. ASSUME NEW i \in Request, SubmitJob(i) \/ (EndRequest(i) /\ UNCHANGED jobVars)
      PROVE  FALSE
  <2>1. SubmitJob(i)
    BY <1>1, <1>3 DEF jobVars
  <2>2. i # j
    BY <2>1 DEF SubmitJob, Visible
  <2> QED
    BY <2>1, <2>2 DEF SubmitJob, JobInv, SharedOK
<1>4. ASSUME NEW w \in Worker, LoadJob(w) \/ MarkRunning(w) \/ RecreateACLs(w)
                 \/ BreakDeadlock(w) \/ UNCHANGED jobVars
      PROVE  FALSE
  BY <1>1, <1>4 DEF LoadJob, MarkRunning, RecreateACLs, BreakDeadlock, jobVars
<1>5. ASSUME NEW w \in Worker, ReadItem(w) \/ WriteItem(w) \/ StoreArchive(w)
                 \/ RemoveArchive(w) \/ RetryJob(w)
      PROVE  FALSE
  BY <1>1, <1>5 DEF ReadItem, WriteItem, StoreArchive, RemoveArchive, RetryJob
<1>6. ASSUME NEW w \in Worker, Commit(w) \/ FailImport(w) \/ BreakOff(w)
      PROVE  Row(w) = j
  BY <1>6 DEF Commit, FailImport, BreakOff, JobInv, SharedOK
<1>7. ASSUME NEW w \in Worker,
             \/ Work(w) \/ BreakDeadlock(w) \/ BreakOff(w)
             \/ (LoseNode(w) \/ LoseChild(w) \/ ExceedVisibility(w)) /\ UNCHANGED jobVars
      PROVE  Row(w) = j /\ (Commit(w) \/ FailImport(w) \/ BreakOff(w))
  BY <1>4, <1>5, <1>6, <1>7 DEF Work
<1> QED
  BY <1>2, <1>3, <1>7 DEF Next

(* A failed import reports no item at all.                                 *)
LEMMA FailureReports ==
  ASSUME JobInv, NEW w \in Worker, running[w].step \in Busy, Asks(w).job_type = "import",
         job' = [job EXCEPT ![Row(w)].status = "failed", ![Row(w)].results = <<>>]
  PROVE  Tells(Asks(w), job'[Row(w)].results)
<1>1. DOMAIN job = Request /\ Row(w) \in Request /\ JobRow(job[Row(w)])
  BY AtWork DEF JobInv, SharedOK, Stored
<1>2. job'[Row(w)].results = <<>>
  BY <1>1 DEF JobRow
<1>3. Tells(Asks(w), <<>>)
  BY DEF Tells
<1> QED
  BY <1>2, <1>3

(* A job reports what it did there: a success has its effect in what is    *)
(* committed with the report, an outcome with items names every document   *)
(* that the job has changed, those of its errors included, and an export   *)
(* changes nothing, for any items, also when they name a document twice,   *)
(* when sessions overlap, and when an item fails after it has written      *)
(* (bulk_operations.py 60-117, import_export.py 353-535).                  *)
THEOREM JobsReportWhatTheyDid == Spec => ReportsWhatItDid
<1>1. ASSUME JobInv, [Next]_vars, NEW j \in Request, Visible(j), job'[j] # job[j]
      PROVE  Tells(job[j].ask, job'[j].results)
  <2>1. PICK w \in Worker : Row(w) = j /\ (Commit(w) \/ FailImport(w) \/ BreakOff(w))
    BY <1>1, Reporting
  <2>2. CASE Commit(w)
    <3>1. running[w].step \in Session
      BY <2>2 DEF Commit, ReadyToCommit, At, Session
    <3>2. /\ document' = WithACLs(w, running[w].granted)
          /\ job' = [job EXCEPT ![Row(w)].results = running[w].results,
                                ![Row(w)].status = Outcome(w)]
      BY <1>1, <2>2 DEF Commit
    <3> QED
      BY <1>1, <2>1, <3>1, <3>2, CommitReports DEF Asks
  <2>3. CASE FailImport(w)
    <3>1. running[w].step \in Busy /\ Asks(w).job_type = "import"
      BY <1>1, <2>3 DEF FailImport, At, Busy, JobInv, WorkerOK
    <3> QED
      BY <1>1, <2>1, <2>3, <3>1, FailureReports DEF FailImport, Asks
  <2>4. CASE BreakOff(w)
    <3>1. /\ running[w].step \in Busy /\ Asks(w).job_type = "import"
          /\ job' = [job EXCEPT ![Row(w)].status = "failed", ![Row(w)].results = <<>>]
      BY <1>1, <2>4 DEF BreakOff, At, Busy
    <3> QED
      BY <1>1, <2>1, <3>1, FailureReports DEF Asks
  <2> QED
    BY <2>1, <2>2, <2>3, <2>4
<1>2. JobInv /\ [Next]_vars => [\A j \in Request : Visible(j) /\ job'[j] # job[j] =>
                                    Tells(job[j].ask, job'[j].results)]_vars
  BY <1>1
<1> QED
  BY JobInitially, JobStep, <1>2, PTL
     DEF Spec, ReportsWhatItDid, Tells, Effective, ChangedNow
================================================================================
