----------------------------- MODULE DocumentJobs ------------------------------
(***************************************************************************)
(* Jobs on many documents: bulk updates, deletions and transitions,        *)
(* exports and imports.  A request writes the job's row and sends its      *)
(* task; the task goes through the items in one session, catches what an   *)
(* item raises, and commits once, at the end.                              *)
(***************************************************************************)
EXTENDS TaskBroker

CONSTANTS
  Offer,    \* what jobs may be asked for, a sequence
  Library   \* the documents there are at the start, a sequence

VARIABLES
  job,        \* the bulk_jobs rows: what they are for, status and results
  document,   \* the committed documents, each with its versions and ACL
  made,       \* the number of document ids made: a UUID is never made again
  archive,    \* the jobs whose ZIP is in the object store
  abandoned   \* the jobs whose task failed with no retry left

jobVars == <<job, document, made, archive, abandoned>>
vars    == <<brokerVars, jobVars>>

(* What no documents column holds: a title of more than 500 characters.    *)
Overlong == "overlong"

(* acl: there is an entry for the owner; version numbers are abstract.     *)
DocumentRow == [title : Seq(STRING), metadata : STRING,
                lifecycle_state : {"draft", "review", "approved", "archived"},
                is_deleted : BOOLEAN, signed : BOOLEAN, acl : BOOLEAN, versions : SUBSET Nat]

Bulk == {"update", "delete", "lifecycle"}

(* job_type, the items (the document_ids of a bulk or export request, the  *)
(* manifest of an import's ZIP), and the one of its parameters that counts.*)
Documents(ask) ==
  /\ ask.job_type \in Bulk \cup {"export"}
  /\ ask.items \in Seq([id : Nat]) /\ ask.parameter \in STRING

(* content: the entry names a file of content, and the ZIP holds it.       *)
Entry == [title : Seq(STRING), metadata : STRING, version : Nat, content : BOOLEAN,
          acl : BOOLEAN]

Manifest(ask) ==
  /\ ask.job_type = "import"
  /\ ask.items \in Seq(Entry)
  /\ ask.parameter \in {"skip", "overwrite", "rename"}

ASSUME JobAssumption ==
  /\ Library \in Seq(DocumentRow)
  /\ \A n \in DOMAIN Offer :
       Offer[n].items # <<>> /\ (Documents(Offer[n]) \/ Manifest(Offer[n]))

Nothing   == [job_type |-> "export", items |-> <<>>, parameter |-> ""]
JobStatus == {"pending", "completed", "failed"}

Fresh(title, metadata) ==
  [title |-> title, metadata |-> metadata, lifecycle_state |-> "draft", is_deleted |-> FALSE,
   signed |-> FALSE, acl |-> FALSE, versions |-> {}]

LIFECYCLE_TRANSITIONS ==
  {<<"draft", "review">>, <<"review", "approved">>, <<"review", "draft">>,
   <<"approved", "archived">>}

JobTask(j, n) == [task |-> "job", row |-> j, retries |-> n]

-----------------------------------------------------------------------------
(* The session of a worker's execution.                                    *)

Asks(w)    == job[Row(w)].ask
Turn(w)    == Len(running[w].results) + 1
HasItem(w) == Turn(w) <= Len(Asks(w).items)
Item(w)    == Asks(w).items[Turn(w)]

Over(writes, rows) ==
  [d \in DOMAIN writes \cup DOMAIN rows |-> IF d \in DOMAIN writes THEN writes[d] ELSE rows[d]]

Wrote(d, row, writes) == Over([e \in {d} |-> row], writes)

(* READ COMMITTED: what is committed now, and what it wrote itself.        *)
Sees(w) == Over(running[w].writes, document)

InTransaction(w) ==
  \E step \in {"unreadable", "item", "write", "close"} : At(w, "job", step)

(* The row of the job is locked by status = "running", which is flushed    *)
(* and never committed; a document's by the UPDATE of an item.             *)
JobLocked(j, but) == \E v \in Worker \ {but} : InTransaction(v) /\ Row(v) = j

WaitsFor(w, v) ==
  /\ v # w /\ At(w, "job", "write") /\ InTransaction(v)
  /\ running[w].target \in DOMAIN document \cap DOMAIN running[v].writes

Blocked(w) == \E v \in Worker : WaitsFor(w, v)

(* Mutant: an item that fails is rolled back, with what came before it.    *)
ReportsRolledBack(w, status, d) ==
  running' = [running EXCEPT
    ![w].step = "item", ![w].results = Append(@, [status |-> status, document |-> d]),
    ![w].writes = IF status = "error" THEN <<>> ELSE @]

(* An item's outcome is recorded and the next one's turn comes.            *)
Reports(w, status, d) ==
  running' = [running EXCEPT
    ![w].step = "item", ![w].results = Append(@, [status |-> status, document |-> d])]

Aims(w, d) == running' = [running EXCEPT ![w].step = "write", ![w].target = d]

(* The row is written, and the item done.  What fails later in the item is *)
(* caught too, and reported: the row stays written.                        *)
Writes(w, status, d, row) ==
  running' = [running EXCEPT
    ![w].step = "item", ![w].writes = Wrote(d, row, @),
    ![w].results = Append(@, [status |-> status, document |-> d])]

Fails == failures < MaxFailures /\ failures' = failures + 1

(* A statement the database refuses ends the transaction.  The exception   *)
(* is caught like any other, but the session takes no further statement,   *)
(* the commit included: what follows fails as well, and the task with it.  *)
Raises(w) == running' = [running EXCEPT ![w] = [step |-> "raised", message |-> @.message]]

-----------------------------------------------------------------------------
(* The requests: the job's row is flushed and its task sent, an import's   *)
(* ZIP stored first.                                                       *)
SubmitJob(j) ==
  /\ request[j] = "new"
  /\ request' = [request EXCEPT ![j] = "open"]
  /\ Send({JobTask(j, 0)})
  /\ \E n \in DOMAIN Offer :
       /\ job' = [job EXCEPT ![j].ask = Offer[n]]
       /\ archive' = IF Offer[n].job_type = "import" THEN archive \cup {j} ELSE archive
  /\ UNCHANGED <<running, dropped, failures, document, made, abandoned>>

(* A job that is not there (yet) is skipped.                               *)
LoadJob(w) ==
  /\ At(w, "job", "taken")
  /\ IF Visible(Row(w)) THEN Moves(w, "loaded") ELSE Moves(w, "done")
  /\ UNCHANGED <<request, queue, dropped, failures, jobVars>>

Starts(w) ==
  /\ At(w, "job", "loaded")
  /\ ~ JobLocked(Row(w), w)
  /\ running' = [running EXCEPT ![w] =
       [step |-> IF Asks(w).job_type = "import" /\ Row(w) \notin archive
                 THEN "unreadable" ELSE "item",
        message |-> @.message, results |-> <<>>, writes |-> <<>>, granted |-> {},
        target |-> 0]]

(* Mutant: an import's ZIP is removed once it has been read.               *)
ReadOnce(w) ==
  /\ Starts(w)
  /\ archive' = IF Asks(w).job_type = "import" THEN archive \ {Row(w)} ELSE archive
  /\ UNCHANGED <<request, queue, dropped, failures, job, document, made, abandoned>>

MarkRunning(w) == Starts(w) /\ UNCHANGED <<request, queue, dropped, failures, jobVars>>

-----------------------------------------------------------------------------
(* The items of bulk jobs.  The retention of a document that is deleted is *)
(* looked up, and the answer dropped.                                      *)

Refused(row, ask) ==
  \/ row.is_deleted
  \/ ask.job_type = "update" /\ row.signed
  \/ /\ ask.job_type = "lifecycle"
     /\ <<row.lifecycle_state, ask.parameter>> \notin LIFECYCLE_TRANSITIONS

Changed(row, ask) ==
  CASE ask.job_type = "update"    -> [row EXCEPT !.metadata = ask.parameter]
    [] ask.job_type = "delete"    -> [row EXCEPT !.is_deleted = TRUE]
    [] ask.job_type = "lifecycle" -> [row EXCEPT !.lifecycle_state = ask.parameter]

ReadBulkItem(w) ==
  /\ Asks(w).job_type \in Bulk
  /\ IF Item(w).id \notin DOMAIN Sees(w) \/ Refused(Sees(w)[Item(w).id], Asks(w))
     THEN Reports(w, "error", Item(w).id) ELSE Aims(w, Item(w).id)
  /\ made' = made /\ failures' = failures

(* The audit record of the change is flushed after it, and its task sent,  *)
(* which fails when the broker does not answer.                            *)
WriteBulkItem(w) ==
  /\ Asks(w).job_type \in Bulk
  /\ LET row == Changed(Sees(w)[Item(w).id], Asks(w))
     IN \/ /\ Asks(w).parameter = Overlong
           /\ Raises(w) /\ failures' = failures
        \/ /\ Asks(w).parameter # Overlong
           /\ \/ Writes(w, "success", Item(w).id, row) /\ failures' = failures
              \/ Writes(w, "error", Item(w).id, row) /\ Fails
  /\ made' = made

(* The items of an export are read: a deleted document is found, too.      *)
ReadExportItem(w) ==
  /\ Asks(w).job_type = "export"
  /\ Reports(w, IF Item(w).id \in DOMAIN document THEN "success" ELSE "error", Item(w).id)
  /\ made' = made /\ failures' = failures

-----------------------------------------------------------------------------
(* The entries of an import's manifest.                                    *)

(* Deleted documents have titles, too.                                     *)
Twins(w) == {d \in DOMAIN Sees(w) : Sees(w)[d].title = Item(w).title}

(* scalar_one_or_none() raises when there are several.                     *)
ReadEntry(w) ==
  /\ Asks(w).job_type = "import"
  /\ IF Cardinality(Twins(w)) > 1 THEN Reports(w, "error", 0)
     ELSE \E d \in IF Twins(w) = {} THEN {0} ELSE Twins(w) :
            IF d # 0 /\ Asks(w).parameter = "skip"
            THEN Reports(w, "skipped", d) ELSE Aims(w, d)
  /\ made' = made /\ failures' = failures

(* Whether the entry's twin is changed, and the document if there is none. *)
Overwritten(w) == running[w].target # 0 /\ Asks(w).parameter = "overwrite"

Base(w) ==
  IF Overwritten(w) THEN [Sees(w)[running[w].target] EXCEPT !.metadata = Item(w).metadata]
  ELSE Fresh(IF running[w].target = 0 THEN Item(w).title
             ELSE Append(Item(w).title, "(imported)"), Item(w).metadata)

(* The document is written and its content stored, and the version is      *)
(* inserted with the manifest's number; an entry without content gets no   *)
(* version.  If the object store does not answer, the document stays       *)
(* without it.                                                             *)
WriteEntry(w) ==
  /\ Asks(w).job_type = "import"
  /\ made' = IF Overwritten(w) THEN made ELSE made + 1
  /\ LET d   == IF Overwritten(w) THEN running[w].target ELSE made + 1
         row == [Base(w) EXCEPT !.versions = @ \cup {Item(w).version}]
     IN \/ /\ ~ Item(w).content
           /\ Writes(w, "success", d, Base(w)) /\ failures' = failures
        \/ /\ Item(w).content /\ failures' = failures
           /\ IF Item(w).version \in Base(w).versions THEN Raises(w)
              ELSE Writes(w, "success", d, row)
        \/ /\ Item(w).content
           /\ Writes(w, "error", d, Base(w)) /\ Fails

(* The manifest's access control list, for every entry that has found its  *)
(* document.                                                               *)
Granted(w) ==
  {i \in DOMAIN running[w].results :
     Asks(w).items[i].acl /\ running[w].results[i].document # 0}

Recipients(w, entries) == {running[w].results[i].document : i \in entries}

(* An entry that the document has already, or gets twice, is refused.      *)
Refuses(w, entries) ==
  \/ \E d \in Recipients(w, entries) : Sees(w)[d].acl
  \/ Cardinality(Recipients(w, entries)) < Cardinality(entries)

RecreateACLs(w) ==
  /\ At(w, "job", "item") /\ ~ HasItem(w) /\ Asks(w).job_type = "import"
  /\ IF Refuses(w, Granted(w)) THEN Raises(w)
     ELSE running' = [running EXCEPT ![w].step = "close",
                                     ![w].granted = Recipients(w, Granted(w))]
  /\ UNCHANGED <<request, queue, dropped, failures, jobVars>>

-----------------------------------------------------------------------------
(* Any item, and the end of the job.                                       *)

ReadItem(w) ==
  /\ At(w, "job", "item") /\ HasItem(w)
  /\ ReadBulkItem(w) \/ ReadExportItem(w) \/ ReadEntry(w)
  /\ UNCHANGED <<request, queue, dropped, job, document, archive, abandoned>>

WriteItem(w) ==
  /\ At(w, "job", "write") /\ ~ Blocked(w)
  /\ WriteBulkItem(w) \/ WriteEntry(w)
  /\ UNCHANGED <<request, queue, dropped, job, document, archive, abandoned>>

(* PostgreSQL refuses a statement by which processes would wait for each   *)
(* other in a circle.                                                      *)
BreakDeadlock(w) ==
  /\ \E S \in SUBSET Worker :
       /\ w \in S
       /\ \A v \in S : (\E u \in S : WaitsFor(v, u)) /\ (\E u \in S : WaitsFor(u, v))
  /\ Raises(w)
  /\ UNCHANGED <<request, queue, dropped, failures, jobVars>>

(* The ZIP of an export is stored before the job is committed.             *)
StoreArchive(w) ==
  /\ At(w, "job", "item") /\ ~ HasItem(w) /\ Asks(w).job_type = "export"
  /\ archive' = archive \cup {Row(w)}
  /\ Moves(w, "close")
  /\ UNCHANGED <<request, queue, dropped, failures, job, document, made, abandoned>>

(* A job with nothing but errors has failed.                               *)
Outcome(w) ==
  IF \A i \in DOMAIN running[w].results : running[w].results[i].status = "error"
  THEN "failed" ELSE "completed"

ReadyToCommit(w) ==
  \/ At(w, "job", "close")
  \/ At(w, "job", "item") /\ ~ HasItem(w) /\ Asks(w).job_type \in Bulk

WithACLs(w, given) ==
  [d \in DOMAIN Sees(w) |->
     IF d \in given THEN [Sees(w)[d] EXCEPT !.acl = TRUE] ELSE Sees(w)[d]]

(* An entry for the same document that another import has committed since: *)
(* the flush of the entries has waited for it, and is refused.             *)
Commit(w) ==
  /\ ReadyToCommit(w)
  /\ \/ /\ \E d \in running[w].granted : Sees(w)[d].acl
        /\ Raises(w) /\ UNCHANGED <<job, document>>
     \/ /\ \A d \in running[w].granted : ~ Sees(w)[d].acl
        /\ document' = WithACLs(w, running[w].granted)
        /\ job' = [job EXCEPT ![Row(w)].results = running[w].results,
                              ![Row(w)].status = Outcome(w)]
        /\ Moves(w, IF Asks(w).job_type = "import" THEN "committed" ELSE "done")
  /\ UNCHANGED <<request, queue, dropped, failures, made, archive, abandoned>>

(* An exception of an import that no item catches, and that the database   *)
(* did not raise: the ZIP is not downloaded, an entry of the manifest is   *)
(* no object or one of its lists lacks a key.  The job is failed, and what *)
(* was written so far committed with it, entries of lists included.        *)
BreakOff(w) ==
  /\ At(w, "job", "item") /\ Asks(w).job_type = "import"
  /\ Fails
  /\ \E entries \in SUBSET Granted(w) :
       /\ HasItem(w) => entries = {}
       /\ \/ Refuses(w, entries) /\ Raises(w) /\ UNCHANGED <<job, document>>
          \/ /\ ~ Refuses(w, entries)
             /\ document' = WithACLs(w, Recipients(w, entries))
             /\ job' = [job EXCEPT ![Row(w)].status = "failed", ![Row(w)].results = <<>>]
             /\ Moves(w, "done")
  /\ UNCHANGED <<request, queue, dropped, made, archive, abandoned>>

(* An import whose ZIP is gone is failed as well, whatever it was before.  *)
FailImport(w) ==
  /\ At(w, "job", "unreadable")
  /\ job' = [job EXCEPT ![Row(w)].status = "failed", ![Row(w)].results = <<>>]
  /\ Moves(w, "done")
  /\ UNCHANGED <<request, queue, dropped, failures, document, made, archive, abandoned>>

RemoveArchive(w) ==
  /\ At(w, "job", "committed")
  /\ archive' = archive \ {Row(w)}
  /\ Moves(w, "done")
  /\ UNCHANGED <<request, queue, dropped, failures, job, document, made, abandoned>>

(* Mutant: what the task raised is logged, and that is all.                *)
LogFailure(w) ==
  /\ At(w, "job", "raised")
  /\ Moves(w, "done")
  /\ UNCHANGED <<request, queue, dropped, failures, jobVars>>

(* max_retries = 1.                                                        *)
RetryJob(w) ==
  /\ At(w, "job", "raised")
  /\ IF running[w].message.retries = 0
     THEN queue' = Redelivered(JobTask(Row(w), 1)) /\ abandoned' = abandoned
     ELSE queue' = queue /\ abandoned' = abandoned \cup {Row(w)}
  /\ Moves(w, "done")
  /\ UNCHANGED <<request, dropped, failures, job, document, made, archive>>

-----------------------------------------------------------------------------
Init ==
  /\ BrokerInit
  /\ job = [j \in Request |-> [ask |-> Nothing, status |-> "pending", results |-> <<>>]]
  /\ document = Library /\ made = Len(Library)
  /\ archive = {} /\ abandoned = {}

Work(w) ==
  \/ (Take(w) \/ Acknowledge(w)) /\ UNCHANGED jobVars
  \/ LoadJob(w) \/ MarkRunning(w) \/ ReadItem(w) \/ WriteItem(w)
  \/ RecreateACLs(w) \/ StoreArchive(w)
  \/ Commit(w) \/ FailImport(w) \/ RemoveArchive(w) \/ RetryJob(w)

Next ==
  \/ \E j \in Request : SubmitJob(j) \/ (EndRequest(j) /\ UNCHANGED jobVars)
  \/ \E w \in Worker :
       \/ Work(w) \/ BreakDeadlock(w) \/ BreakOff(w)
       \/ (LoseNode(w) \/ LoseChild(w) \/ ExceedVisibility(w)) /\ UNCHANGED jobVars

(* Processes run, and the database finds a deadlock after a second.        *)
Spec ==
  /\ Init /\ [][Next]_vars
  /\ \A w \in Worker : WF_vars(Work(w))
  /\ WF_vars(\E w \in Worker : BreakDeadlock(w))

-----------------------------------------------------------------------------
TypeOK ==
  /\ DOMAIN document \subseteq 1 .. made
  /\ \A d \in DOMAIN document : document[d] \in DocumentRow
  /\ \A j \in Request : job[j].status \in JobStatus
  /\ archive \subseteq Request /\ abandoned \subseteq Request

(* What a job reports of a document is what it did there.  An item that it *)
(* calls a success has its effect in what is committed with the report:    *)
(* the change, the imported document, and the version if there was         *)
(* content.  An item that it calls an error may have changed its document, *)
(* but an outcome with items names all that the job has changed, and an    *)
(* export changes nothing (bulk_operations.py 60-117, import_export.py     *)
(* 353-515, 519-535).                                                      *)
ReportsWhatItDid ==
  [][\A j \in Request :
       Visible(j) /\ job'[j] # job[j] =>
         LET ask    == job[j].ask
             report == job'[j].results
             d(i)   == report[i].document
             changed == {e \in DOMAIN document' :
                           e \in DOMAIN document => document'[e] # document[e]}
         IN /\ report # <<>> => changed \subseteq {d(i) : i \in DOMAIN report}
            /\ ask.job_type = "export" => changed = {}
            /\ \A i \in DOMAIN report : report[i].status = "success" =>
                 CASE ask.job_type \in Bulk -> document'[d(i)] = Changed(document'[d(i)], ask)
                   [] ask.job_type = "import" ->
                        /\ d(i) \in DOMAIN document'
                        /\ ask.items[i].content => ask.items[i].version \in document'[d(i)].versions
                   [] OTHER -> d(i) \in DOMAIN document]_vars

(* A job whose task waits when its request has committed is settled in the *)
(* end: it is completed or failed, or its task has failed twice, or was    *)
(* killed.  Jobs that wait for each other's documents, and second          *)
(* deliveries that wait for the first, do not wait for ever                *)
(* (bulk_operations.py 15-27, 52-54, import_export.py 20-45, 278-279).     *)
JobsSettle ==
  \A j \in Request :
    (Visible(j) /\ \E n \in 0 .. 1 : BagIn(JobTask(j, n), queue)) ~>
      \/ job[j].status # "pending" \/ j \in abandoned
      \/ \E n \in 0 .. 1 : JobTask(j, n) \in dropped

(* A ZIP is there for as long as it is needed: an import can be tried      *)
(* again until its outcome is committed, whenever its worker dies, and a   *)
(* completed export can be downloaded (import_export.py 247-260, 527-535,  *)
(* routers/import_export.py 177-193).                                      *)
ArchivesAreThere ==
  \A j \in Request : Visible(j) =>
    /\ job[j].ask.job_type = "import" /\ job[j].status = "pending" => j \in archive
    /\ job[j].ask.job_type = "export" /\ job[j].status = "completed" => j \in archive
================================================================================
