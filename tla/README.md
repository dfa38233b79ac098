# Documentum in TLA+

This directory is a verification development of the Documentum clone in `src/`:
a FastAPI backend with PostgreSQL, MinIO, Redis and Celery, in which documents
are stored, versioned, protected and signed, and in which process templates are
executed as workflows by people, by automatic activities and by events.

The models follow the code, function by function; comments name the functions
where the name of the definition does not. `PROJECT.json` maps every definition
to the lines it stands for.

1. [The system](#1-the-system): components, state, operations, hard behaviours
2. [The plan](#2-the-plan): modules, runs and theorems, done and to do
3. [The workflow models](#3-the-workflow-models)
4. [The template model](#4-the-template-model)
5. [The document model](#5-the-document-model)
6. [Folders and access](#6-folders-and-access)
7. [Virtual documents](#7-virtual-documents)
8. [Background tasks](#8-background-tasks): the audit chain, renditions, jobs on many documents
9. [The runs](#9-the-runs): what each one asks and shows, bounds, fairness
10. [The proofs](#10-the-proofs)
11. [Where code and documentation disagree](#11-where-code-and-documentation-disagree)
12. [What is not modelled](#12-what-is-not-modelled)

Paths below are relative to `src/src/app/` unless they start otherwise.

## 1. The system

### Processes and shared state

| process | runs | shares |
|---|---|---|
| API server (async, many requests at once) | routers and services; one SQLAlchemy session per request, committed by `get_db` when the handler returns, rolled back when it raises | PostgreSQL under READ COMMITTED; MinIO, which is in no transaction |
| Celery worker of the default queue (several processes, `acks_late`) | auto activities, join timeouts, bulk, export and import jobs, audit hashes, notifications | the same, plus Redis as broker |
| Celery worker of the queue `renditions` (one process) | renditions | the same |
| Celery beat | polls for auto activities every 10 s, for join timeouts every 15 s, deadlines, retention, metrics | sends tasks only |
| event bus (`services/event_bus.py`) | handlers inside the emitter's request and transaction; their exceptions are caught | the emitter's session |

There is no in-memory state that matters between requests. What interacts,
interacts through rows; what makes the system hard is that sessions read rows,
wait (for MinIO, for an auto method, for a lock) and write them afterwards, and
that tasks are sent before the rows they are about are committed.

### Components

**Process templates** (`services/template_service.py`, `routers/templates.py`).
State: templates with activities, flows and variables, each with a version number,
a family, a state DRAFT, VALIDATED, ACTIVE or DEPRECATED, and `is_installed`.
Operations: create, edit (nine requests that change activities, flows and
variables), validate, install, new version, delete; starting a workflow picks a
version. Hard: what validation found is kept as a state that each edit must take
back; installing one version deprecates others while workflows run on them; a
template may call another that is edited later. Correct when one version of a
family is active, a deprecated one was replaced, a version in use stays
installed, and what is active is sound and ends when it is started.

**Process engine** (`services/engine_service.py`). State per instance: the
workflow row, one row per activity, work items, execution tokens, variables.
Operations: start, complete and reject work items, `_advance_from_activity` with
joins, error handlers, compensation, sub-workflows. Hard: joins fed in every
order, cancelled branches, second rounds after a rejection, sequences of
performers that go back and forth. Correct when no join is left asleep or woken
early, every active task has an item and every open item an active task, and the
workflow row moves along `WORKFLOW_TRANSITIONS`.

**Inbox** (`services/inbox_service.py`). Acquire, release, complete, reject on
behalf of the engine. Correct when an item is held by one user and settled once.

**Workflow management** (`services/workflow_mgmt_service.py`). Halt, resume,
abort, restart. Hard: each rewrites many rows, in any mixture of states.

**Workflow Agent** (`tasks/auto_activity.py`). The poll dispatches active auto
activities; an execution keeps a session open while the method runs, then
advances the workflow, or logs a failure in a second session and starts the error
handler in a third. Hard: stale sessions, two executions of one activity, workers
that die between the transactions. Correct when an activity is given up only
after its attempts, always ends, and never undoes what was committed meanwhile.

**Join timeouts** (`tasks/join_timeout.py`). Forces joins that wait too long.

**Event bus and handlers** (`services/event_bus.py`, `event_handlers.py`).
Completes event activities and the sub-workflow activities of parents. Hard:
handlers that raise half-way, listeners of one event in any order.

**Users, groups, availability, delegation, queues, aliases.** Looked up when
activities start and items are claimed.

**Documents and versions** (`services/document_service.py`). State: the document
row (lock, current version, deleted), version rows, objects in MinIO. Operations:
upload, check-out, check-in, forced unlock, promotion, deletion. Hard: reads, an
upload and a commit that are not one step; objects outside the transaction;
writes that hold only the columns a session believes changed.

**Retention and legal holds** (`services/retention_service.py`),
**digital signatures** (`services/signature_service.py`). Both forbid things of
documents, through checks made before the deed.

**Document lifecycle and access control** (`services/lifecycle_service.py`,
`acl_service.py`). State: a document's place among DRAFT, REVIEW, APPROVED,
ARCHIVED; access entries of documents and of folders for users and groups.
Operations: give and take entries, transitions, whose rules remove entries, and
three computations of access: the check, the source shown to the user, the tree a
user sees. Hard: a document without entries is open to everyone, so taking
entries away can give access; inheritance walks a tree in which folders are
deleted. Correct when a transition only narrows access and the three computations
agree.

**Audit trail** (`services/audit_service.py`, `tasks/audit_chain.py`,
`routers/audit.py`). State: records, each with a hash and a number once it is
chained. Operations: write a record and send its task; find and lock the last
record, append, retry; verify the chain. Hard: the task overtakes the commit, runs
twice, or meets another one at the end of the chain. Correct when the log verifies
as long as its tasks do not meet, and every record is chained in the end.

**Folders** (`services/folder_service.py`, `routers/folders.py`). State: folders
with parents, filings of documents. Operations: create, move, copy with the whole
subtree, delete with the whole subtree, file, unfile. Hard: guards that walk the
tree before the write, recursive queries (`UNION ALL`) that end only in a tree.
Correct when it stays a tree and nothing hangs from what was deleted, in whatever
order requests that overlap read and commit.

**Virtual documents** (`services/virtual_document_service.py`). State: numbered
children of a document. Operations: add, insert, remove, reorder. Hard: numbers
are rewritten row by row under a unique constraint checked at each row.

**Renditions and extraction** (`services/rendition_service.py`,
`tasks/rendition.py`). State: a row with PENDING, PROCESSING, READY or FAILED and
an object in MinIO. Operations: request, convert, store, mark, retry, download.
Hard: messages sent before the row is visible, delivered twice, or lost with the
process that held them. Correct when a READY rendition has its object and none
stays PROCESSING.

**Bulk operations** (`tasks/bulk_operations.py`), **import and export**
(`tasks/import_export.py`). State: a job with its items, status and results; ZIPs
in MinIO. Operations: submit, execute, download. Hard: all items share a session,
what an item raises is caught, and the commit comes once, at the end; row locks are
held until then; the task is delivered again after a crash. Correct when what is
reported as done is done, nothing is done that is not reported, every job ends, and a
ZIP is there while it is needed.

**Notifications and deadlines**, **search and saved
queries**, **CMIS**, **dashboards, monitoring, health**, **identity**, **document
types**, the **web client** and the **migrations**: section 12.

The hazards, each at its line and with the properties that watch it, are listed in
`PROJECT.json`.

## 2. The plan

Done:

| module | what it is |
|---|---|
| `Iteration` | n-fold application of a step, as a recursive function |
| `WorkflowTemplate` | an installed template, as rows the engine reads |
| `WorkflowEngine` | what one engine transaction computes from the rows |
| `WorkflowSystem` | one workflow instance under clients, operators, tasks, events |
| `WorkflowLifecycle` | the abstract life of a workflow row |
| `WorkflowProperties` | the promises, and the populations they are examined under |
| `TemplateFamily` | templates and their versions, edited, installed and used |
| `DocumentStore` | one document under concurrent requests |
| `FolderTree` | folders and filings under concurrent requests |
| `DocumentAccess` | access lists, their inheritance along `FolderTree`, the lifecycle |
| `VirtualDocument` | numbered children under concurrent requests |
| `TaskBroker` | messages, worker processes, and the ways both are lost |
| `AuditChain`, `Renditions` | what two kinds of tasks do, over `TaskBroker` |
| `BackgroundTasks` | requests that send one or both, composed |
| `DocumentJobs` | bulk, export and import jobs, over `TaskBroker` |
| `MCWorkflow`, `MCTemplate`, `MCDocument`, `MCFolder`, `MCTasks`, `MCJobs` | instances for TLC |
| `IterationProofs`, `WorkflowProofs`, `ConductProofs`, `DocumentProofs`, `TemplateProofs`, `FolderProofs`, `TaskProofs`, `JobProofs` | theorems |

Next, in this order. Each item names the code, what is worth asking, and what is
worth proving.

1. `JoinRace` (`engine_service.py` 585-780, 850-862). The engine's transaction
   taken apart into reads and the commit, for the requests that meet at a join or
   number their completions alike (473-480).
2. `SubWorkflow`, `JoinTimeouts`, `Deadlines`: several instances at once, with the
   order of handlers and the transaction they share. Question: is a parent always
   told of its child's end?
3. The lifecycle inside the engine: `DocumentAccess` composed with
   `WorkflowSystem` through `lifecycle_action` (`engine_service.py` 482-506) and
   `lifecycle.changed`, with transitions taken apart into read and write.
4. The rest of `DocumentJobs`: folders, filings and relationships of an archive
   (`tasks/import_export.py` 79-105, 322-355, 447-511), with `FolderTree`.
5. `Extraction`: the search vector written by check-in and by a task.
6. Further proofs: `AndJoinComplete` for templates whose followed reject flows do
   not lead back to a branch of an AND-join; the invariants of the new modules
   above, in the module of the component they extend.

The runs are few and large on purpose: one passing run asks all the questions that
one template and one population can answer.

## 3. The workflow models

### State

`WorkflowSystem` has three variables.

`db` is the committed rows of one workflow instance:

| field | column or rows |
|---|---|
| `wf` | `workflow_instances.state`; `"absent"` before the row exists |
| `act` | `activity_instances.state`. PAUSED is never assigned by the code |
| `tok`, `used` | `execution_tokens`: flows of the unconsumed ones by target, flows of the consumed ones |
| `item` | `work_items` by activity, in the order they were made. DELEGATED is never assigned |
| `var` | `process_variables`, as the valuation conditions read |
| `idx` | `current_performer_index`; NULL and 0 are the same to the code |
| `order` | `completed_order` |
| `clock` | the activities with `join_timeout_started_at` |
| `logs` | how many `auto_activity_logs` an activity has, up to `MaxAttempts` |
| `child` | running child workflows an activity has spawned |

A work item records whether `created_at >= workflow.updated_at` (`fresh`), because
the announcement of new items asks for just that (803-806).

`delegate` is who stands in for whom; `running` is what each worker slot executes:
the activity, the phase, and the workflow state and variables *as the session read
them* before the method ran.

### Actions

| action | code |
|---|---|
| `StartWorkflow` | `engine_service.start_workflow` |
| `AcquireWorkItem`, `ReleaseWorkItem`, `CompleteInboxItem`, `RejectInboxItem` | `inbox_service.py` |
| `CompleteItemDirect` | `POST /workflows/{id}/work-items/{id}/complete`, which asks neither for acquisition nor for the performer |
| `UpdateVariable`, `UpdateAvailability` | `engine_service.update_variable`, `PUT /users/me/availability` |
| `Halt`, `Resume`, `Abort`, `Restart` | `workflow_mgmt_service.py` |
| `Compensate` | `engine_service.trigger_compensation` |
| `RetryActivity`, `SkipActivity` | `routers/workflows.py`, the administrators' retry and skip of an activity in ERROR |
| `AgentBegin`, `AgentSucceed`, `AgentFail`, `AgentAdvanceFails`, `AgentHandle`, `AgentCrash` | `tasks/auto_activity.py`, one per transaction boundary |
| `JoinTimeout` | `tasks/join_timeout.py`, for the joins of one workflow whose time is up |
| `EventFires`, `ChildFinishes`, `ChildFails` | `event_handlers.py` |

A request is one transaction and one step. This is what the code gives for
requests that do not meet on one row; where they do (two branches of one join
completed at the same moment) the module `JoinRace` of the plan takes them apart.
The agent is *not* one step: its session is open while the method runs, for up to
a minute, and so every other action can come between.

A request that raises is rolled back and so is no step. An exception in a handler
of the event bus is different: it is caught, and what the session did before stays
in it; `EventFires` and `ChildFinishes` commit the half-done transaction.

`AdvanceFromActivity` is the engine's loop. A transaction is a record `t` with the
rows as its session sees them, the loop's queue, and the arguments; `Round` is one
turn of the `while`, `FireFlow` one turn of the `for` over outgoing flows. The loop
is `Iterate`, a recursive function over a bounded number of rounds, so that proofs
can speak of it. The number of rounds suffices: each activity but the first enters
the queue only when it leaves DORMANT.

`AgentSucceed` computes the advancement on `Seen(x)`, today's rows overlaid with
what the session read before the method, and `Merged` writes back only the columns
the session changed, as SQLAlchemy does.

### Abstractions

- Expressions are the set of valuations they are true under; one whose evaluation
  fails is in none of them. The output of a task is a choice of valuation.
- Performer types that resolve to a list fixed at the start (user, supervisor,
  group, alias) are `"listed"`. Queue, sequential and runtime selection have code
  of their own and are modelled each. `supervisor_id` is always set at the start.
- At most one performer is overridden per start.
- A listed group leaves the items of its other members open when one of them
  completes; `OpenItemsAreLive` is therefore checked with one performer each.
- `completed_order` decides the audit order of compensation, and no more. The maximum
  that `Completed` counts on is read and written in one step; the code reads it long
  before its commit, so what the model says of equal orders is true of requests that
  do not overlap, and no property is about them (section 11).
- An auto method is any method: it succeeds or fails. One that is not registered
  raises outside the `try` and is an execution that dies.
- Lifecycle actions (482-506), deadlines, escalation and notifications are not in
  the templates modelled.
- A child's start does not raise, except for the agent, which has no user id.
- `workflow.completed` is emitted by `complete_work_item` only; hence the flag
  `announced` of `ChildFinishes`.
- `with_for_update` on an aggregate (853-862) is something PostgreSQL rejects; the
  models follow the path the tests run.

## 4. The template model

`TemplateFamily` has the templates as a sequence of rows (the index is the id),
one row per workflow that is alive, and the number of edits so far. A row has
`state`, `version`, `family`, `is_installed`, `is_deleted`; per activity whether it
is absent, live or deleted, and the one setting its type requires (performer,
method, event or called template); the flows; and whether there is a variable.

| action | code |
|---|---|
| `AddActivity` ... `DeleteVariable` | the nine editing functions (233-630), each with `_check_not_active` and `_reset_to_draft_if_validated` |
| `ValidateTemplate` | `validate_template`: one start, ends, reachability by breadth-first search, flows in and out, settings, conditions |
| `InstallTemplate` | `install_template` with `_check_sub_workflow_depth` and the deprecation of the family's other installed versions |
| `CreateTemplate`, `CreateNewVersion`, `UpdateTemplate`, `DeleteTemplate` | the functions of these names; an update of an active template is a new version |
| `StartWorkflow` | the resolution of a template to an installed version (`engine_service.py` 278-314); `Runs(t, v)`: who starts `t`, or calls it, gets `v` |
| `ChangeWorkflow` | `WORKFLOW_TRANSITIONS`, as far as installation asks |

Each request is one transaction and one step; two requests of template
administrators that overlap are not modelled (section 11 says what they do).
Names, positions, routing types and joins of activities are left out: no check of
this component reads them. A clone loses the template a sub-workflow calls, as it
does in the code (1014-1027).

## 5. The document model

`DocumentStore` is one document: `document` is its row, `versions` its version
rows, `objects` the keys in the bucket, `signed` and `protected` what signatures,
holds and retentions forbid. `session` is, for every request in progress, what it
has read and decided.

| action | code |
|---|---|
| `BeginUpload`, `CommitUpload` | `upload_document` (object first, rows later) |
| `BeginCheckout`, `CommitCheckout` | `checkout_document` |
| `BeginCheckin`, `DecideCheckin`, `CommitCheckin` | `checkin_document`: the row and its lock are read, then the latest version; unchanged content gives back the lock, changed content is uploaded under a new key |
| `BeginForceUnlock`, `CommitUnlock` | `force_unlock_document` |
| `BeginPromote`, `DecidePromote`, `CommitPromote` | `promote_to_major_version` |
| `BeginDelete`, `CommitDelete` | `DELETE /documents/{id}` |
| `BeginBulkDelete` | the DELETE of `tasks/bulk_operations.py` |
| `BeginProtect`, `CommitProtect`, `Lift` | `retention_service.py` |
| `Sign` | `signature_service.py` |
| `Fail` | an exception, the unique constraint's included: rows are rolled back and upload and check-in delete the object they put |
| `Die` | the process dies, or the commit itself fails: nobody deletes the object |

What the granularity stands for:

- Sessions read committed rows at `Begin` and `Decide`, and write at `Commit`.
  Flush and commit are one step: the row lock that an UPDATE takes and the unique
  index make others wait between them.
- An UPDATE holds the columns whose value differs from the one loaded (`Flushed`).
  A session that read minor version 1 and computes 1 writes nothing, whatever the
  column has become.
- The row and its first version are made by one transaction, so the row exists
  when a version does.
- Keys contain fresh UUIDs and are never used again: a counter.
- A rendition or search step that fails without being fatal costs nothing; if it
  breaks the transaction, that is `Die`.
- Several holds or retentions are one protection in force, by kind.

Titles, metadata, ACL rows, renditions, extraction and imports are not in it.

## 6. Folders and access

`FolderTree` has the folder rows (a sequence; `parent` 0 is NULL), the filings, the
documents that are not deleted, and for each request in progress what it decided.
A request is two steps: `Begin...` reads and passes the guards, `Commit...` writes
what was decided then, and anything may have been committed in between. Two history
variables say what was: `overtaken[r]`, that another move committed since the move
`r` has read ("moves"), or a deletion since `r`, or something else since the deletion
`r` ("deletion"); `crossed` collects the same of the requests that have committed.

| action | code |
|---|---|
| `BeginCreateCabinet`, `BeginCreateFolder` | `create_cabinet`, `create_folder` |
| `BeginMove` | `move_folder`; `Descendants` is the recursive query of `_is_descendant` |
| `BeginCopy`, `CommitCopy` | `copy_folder`: one new row per folder of the subtree, parents mapped, filings copied |
| `BeginDelete`, `CommitDelete` | `delete_folder`: rows marked, filings removed |
| `BeginFile`, `Unfile` | `file_document`, `unfile_document` |
| `DeleteDocument`, `Fail` | the document's own deletion, which leaves its filings; an error |

`Below` is the least closed set that holds its anchor, which is what a recursive
query computes when it ends; the code's queries are `UNION ALL` and do not end on
a circle, so a request that meets one does not get past its guard (`f \notin inside`
and the like). A move to where the folder is writes nothing and is left out; a copy
reads the parents of its subtree in the beginning, and the filings as it writes.

`DocumentAccess` extends it with `acl`, `folder_acl`, `lifecycle` and
`performers`, the open work items that give access. `CheckPermission` is
`check_permission` (own entries, inherited entries, group membership, the work
item's READ, and "no entries at all: allowed"), `AccessSource` is
`get_access_source`, `VisibleFolders` is `get_folder_tree`, three functions that
the code writes three times. Both walks up are `Above(F, through)`:
`Ancestors` goes through every folder as the recursive query does, deleted ones too,
`Chain` only through those that are not deleted, as the tree does, and stops at the
first that is. A fourth computation, the one statement of `list_documents`
(`document_service.py` 165), is not modelled. `TransitionLifecycleState` changes the state and removes what
`lifecycle_acl_rules` names; "add" rules write an audit record and no entry
(142-159).

The endpoints' guards are in the actions as "somebody may do it": which user asks
does not matter to the properties. Superusers pass the checks of folder endpoints
by themselves.

## 7. Virtual documents

`VirtualDocument` has the rows of children (key to document and `sort_order`),
whether the virtual document is there, and what each request decided. `Flushes`
writes the new orders key by key and asks the unique constraint each time, as
PostgreSQL does with a constraint that is not deferrable. Keys are random UUIDs: an
insertion takes any free key. The module serves a disagreement
(`bug_reorder`); distinct positions and distinct children hold of its states only
because the database says so, which is nothing a run could add.

## 8. Background tasks

`TaskBroker` has the transactions that send messages (`request`: new, open,
committed, aborted), the `queue` as a bag of messages, what each worker process is
`running`, and the messages that were `dropped`: acknowledged though their task did not
end well, so that nobody tries again. A request's rows are
invisible until `EndRequest`, but its messages are in the queue since it flushed
them: that is the code (`audit_service.py` 35, `rendition_service.py` 35). Workers
serve the queues that `docker-compose.yml` gives them.

| action | what happens |
|---|---|
| `Take`, `Acknowledge` | `acks_late`: the message is gone only when the task has returned |
| `LoseNode` | the machine stops, the broker delivers the message again |
| `LoseChild` | the process that runs the task is killed; its parent acknowledges, since `task_reject_on_worker_lost` is off: dropped |
| `ExceedVisibility` | the task outlives the visibility timeout of Redis: a second delivery beside the first |

`AuditChain` adds `audit`, hash and number of every record. `compute_audit_chain_hash`
is four steps: `LoadRecord` (a record it cannot see is skipped), `ChooseTail` and
`LockTail` (one `SELECT ... FOR UPDATE`, which chooses its row before it waits for
it, and goes on with that row after), `StoreHashes`; `RetryHash` is its retry, and
`RefuseHash` the failures that need no bad luck: a number that is NULL, and records
locked in a circle. `disturbed` is history: a task stored its link while another one
had chosen its tail, or stored it for a record that was linked already.
A hash is what was hashed, the sequence of records back to the first. `Verified`
is what `POST /audit/verify` recomputes.

`Renditions` adds `rendition` (status, key), `objects` and the `retrying`
requests. The PDF and the thumbnail task have the same steps: `LoadRendition`
(PROCESSING is committed), `Upload`, `MarkReady`, `MarkFailed`; `RaiseRendition` is an
error of the database: the handler commits FAILED on the session whose transaction it
aborted, without a rollback (`tasks/rendition.py` 164-167, 296-299), so the commit
raises too, and the message is dropped. `BeginRetry` and `EndRetry` are
`retry_rendition`, whose task may be sent and its commit fail.

`BackgroundTasks` composes them: `UploadVersion` writes an audit record and a
rendition row and sends both tasks in one transaction; `ChangeSomething` is any other
request, which writes an audit record only. `Uploads` says which requests upload.

`DocumentJobs` extends `TaskBroker` with the task of `execute_bulk_job`,
`execute_export_job` and `execute_import_job`, which has one retry. State: `job`
(what was asked, status, results), `document` (the committed rows, each with its
versions and its owner's access entry), `archive` (whose ZIP is in MinIO),
`abandoned` (jobs that failed with no retry left). A worker's session is in
`running`: the results so far and the rows it wrote.

| action | code |
|---|---|
| `SubmitJob` | `create_bulk_job`, `create_export_job`, `create_import_job`: the row is flushed and the task sent, before the commit |
| `LoadJob`, `MarkRunning` | a job that is not visible is skipped; `status = "running"` is flushed, which locks the row |
| `ReadItem`, `WriteItem` | one item, its guard and its UPDATE; the UPDATE waits for whoever wrote that document, and an exception is recorded and the loop goes on. An item can fail after its UPDATE was flushed, when its audit task cannot be sent or its content not stored: an error whose row stays written. An entry of a manifest without content is a success without a version |
| `Raises` | a statement the database refuses (a value too long, a version number or an entry that exists, a deadlock) ends the transaction: the rest fails, and the task |
| `BreakDeadlock` | PostgreSQL raises in one of the sessions that wait in a circle |
| `RecreateACLs`, `StoreArchive` | the last steps of an import and of an export |
| `Commit`, `RemoveArchive` | everything at once; then the ZIP of an import is deleted |
| `BreakOff` | an exception of an import outside the items, before, between or after them, such as a key the manifest lacks: the job is failed, and what was flushed so far committed with it |
| `FailImport` | a second delivery, whose ZIP is gone |
| `RetryJob` | `self.retry` once, then nothing |

"running" is never committed, so nobody sees it, and only the row lock keeps two
executions of one job apart. Versions of a document are numbers without structure;
of the access list there is one entry.

## 9. The runs

`CHECK_DEADLOCK FALSE` in all of them: a finished workflow has no next step, and
histories end at a bound.

### Populations

Some questions about workflows only have an answer for some of the clients; the
specifications in `WorkflowProperties` say for which.

| specification | who acts |
|---|---|
| `InboxSpec` | people at their inboxes |
| `ManagedSpec` | and absences, administrators, compensation |
| `RequestSpec` | everything that is one transaction: no agent |
| `UnattendedSpec` | the agent with crashes, operators who mend; fair |
| `SteadySpec` | people, halts, join timeouts, the agent without crashes; fair |
| `Spec` | everyone (theorems are about this one) |

### Passing runs

| run | question and answer |
|---|---|
| `office` | A sequential pair of signatures, a queue, a path the performer chooses, an AND-join and a cancelling join, under people, absences and administrators. Turns stay in order; suspension follows halting; settled items stay settled; the AND-join starts after both branches; an active task always has an item and a dead one none. |
| `race` | A child workflow, two listeners of one event and a draft race for a cancelling join, beside a timeout join and an n-of-m join, under everything but the agent. No completed join is left asleep; waiting timeout joins have a clock; what was cancelled stays so until a restart; the workflow row refines `WorkflowLifecycle`. |
| `agent` | Two workers, crashes, duplicates, retries, skips, halts, aborts and compensation around an auto activity. It is given up only after its attempts; a stale session never undoes the end of a workflow; an active auto activity always ends, also where its successor cannot be announced and the engine raises each time. |
| `steady` | A timeout join, an auto activity with an error handler, people who may or may not work. The join does not wait for ever, the handler gets its turn, and with people who keep working the workflow finishes. |
| `documents` | Two requests at a time on one document. Numbers have no holes; no row loses its object; no check-in repeats what it follows; before the first promotion the row names the latest version. |
| `templates` | Two templates, the second calling the first, edited, validated again, cloned, installed and deleted while a workflow runs. One active version per family; deprecation leaves a successor; a version in use stays installed; what is active is sound; what calls itself when it is started does so through a version that is not installed. |
| `folders` | Two requests that overlap build, move, copy and delete a tree of up to four folders, then access is given and the lifecycle moves. No circle but by two moves that cross; no orphan and no filing in a deleted folder but by a request that crosses a deletion; until then who may read also sees a folder to find it in; the source shown is the reason; a transition opens nothing. |
| `tasks` | An upload and another request send their tasks before they commit, two processes hash and one makes renditions; attempts fail, the database raises, processes are killed, machines lost, messages delivered again. The chain verifies until two hashes meet or one is stored twice; a READY rendition has its object; every record is chained and no rendition stays PROCESSING whose task was not dropped. |
| `jobs` | Two jobs that meet on two documents, one of them signed: deletions, transitions, updates (one with a value no column holds), an export, imports with each strategy; a worker is lost, an audit task cannot be sent or the object store fails. What a job calls a success has its effect and all that it changed is named; it ends, also after a deadlock or beside its second delivery; a ZIP is there while it is needed. |

Each property has a mutant in `PROJECT.json`, a plausible bug in the function
named, under which the run fails.

Distinct states, with two TLC workers: `office` 151 940 (two minutes), `race`
92 608 (one), `agent` 23 664 (two), `steady` 5 223, `documents` 816 520,
`templates` 906 174 (two minutes), `folders` 118 996 (two), `tasks` 389 369
(two), `jobs` 544 060 (two). Run one with `tlc -workers 2 -config office.cfg MCWorkflow`;
`documents`, `templates`, `folders`, `tasks` and `jobs` belong to `MCDocument`,
`MCTemplate`, `MCFolder`, `MCTasks` and `MCJobs`. `tlapm WorkflowProofs.tla` and the like
check the proofs.

### Violation runs

`bug_rework_stuck`, `bug_chain`, `bug_reorder`: each checks one statement of the
documentation that the code does not keep; section 11.

### Bounds and why they are enough

| bound | meaning | why enough |
|---|---|---|
| `MaxItems` 2 or 3 | items an activity ever had | back and forth of two sequential performers needs 3; a second round needs 2. A restart deletes the items, so what follows it is not cut short |
| `MaxTokens` 2 | unconsumed tokens of an activity | joins have two or three branches; one surplus token is possible |
| `MaxRounds` 4 or 6 | `completed_order` | every activity of a template that is not an END can be completed in one life of the workflow, as far as cancelling joins allow; a restart keeps the orders, so what follows one is explored for the completions that are left |
| `MaxChildren` 1 | children of one activity alive | only a restart can spawn a second beside the first |
| `MaxAttempts` 2 | attempts of an auto activity (3 in the code; a constant of the model, not a bound) | "first", "last", and the change between them. `logs` saturates there, since nothing tells higher counts apart |
| `Depth` 0, `MaxDepth` 1 (workflows) | nesting | one level of children. An instance at the deepest level, whose sub-workflow activities end in ERROR, is covered by the theorems, which hold for every depth |
| `MaxUploads` 3 | keys | two concurrent check-ins after the upload |
| `MaxMajor` 2, `MaxSigned` 1 | promotions, signatures | two promotions race on different and on equal majors |
| `MaxTemplates` 3, `MaxEdits` 2 | templates, changes | two that call each other and a second version of one; an edit before and one after a validation. The theorems of `TemplateProofs` hold for any number |
| `MaxDepth` 2 (`templates`) | `max_sub_workflow_depth` (5 in the code) | a circle of two is within the limit and found because the walk refuses what it visited; a chain of three is as deep as allowed |
| `MaxFolders` 4 | folders ever created | a copy of two inside a tree of two; chains of four. `FolderProofs` holds for any number |
| `MaxEntries` 2 | entries at once | an own entry and an inherited one, or two of each; `TransitionsNarrow` is proved for any number |
| `Level`, `FolderLevel`, `Performer` | what entries may say | the two ends of the hierarchy on documents; one level on folders, where no property compares levels |
| `MaxFailures` 2 | losses, failed attempts, retries | a failure of the second delivery of what failed; `tasks` has two requests, so each fails once or one twice, and an error of the database meets a retry of the rendition. In `jobs` 1: the retry of a job is not counted, so a lost worker, or an item that fails after its UPDATE, meets a failed attempt |
| `Offer`, `Library` | jobs and documents | two jobs in opposite orders of two documents is the smallest deadlock; every kind of job meets every other and itself |

Bounds are guards (`Bounded`, and the guards of the other modules): an action that
would exceed one does not happen. For liveness this could make a bound look like a
stop; the liveness runs use templates that reach their end within the bounds (the
agent's failures saturate rather than count). `Diligence` asks for completions only
where `Bounded` allows them, so a bound that did stop a workflow would show as a
violation of `DiligenceFinishes` and not hide one. In `tasks` the bound counts what
goes wrong; after the last failure things go well, which is what the liveness
properties assume in any case: a task that fails every time is never done.

Users are two, so that a delegate, a second performer and a stranger to a queue
exist. Routing variables have two values where a condition reads one.

`documents` uses symmetry in users, contents and requests, which only safety
properties are checked with.

`folders` has two ACTION_CONSTRAINTS. `TreeFirst`: no folder request reads an access
list and no request of access changes the tree, so the tree is built first and
access is given to trees that are reached and in which nothing has crossed; the
lifecycle moves in trees of two folders. `Overlap`: two requests are in progress at
once in trees of two folders; in those of three only moves and deletions, while
nothing was deleted or filed; no more after the document was deleted, or after one
request has crossed another. The two moves that make a circle, a creation, a move, a
copy and a filing beside a deletion, and two copies at once all fit in: without its
guards (`"moves" \notin crossed`, `"deletion" \notin crossed`) the run refutes each of
`Acyclic`, `NoOrphans` and `FiledInFolders`. The CONSTRAINT `Small`: a tree of four,
a copy's work, and one after both crossings are checked and left alone. Requests are symmetric, and there are only
safety properties. `FolderProofs` has none of these constraints.

`tasks` has what `docker-compose.yml` deploys: a worker of the default queue whose
processes are as many as there are processors, here two, and one with a single
process for renditions; each process can be lost in every way. Two hashes that meet
break the chain, as `bug_chain` shows, and so does a second delivery of one that was
stored. `QuietChainVerifies` says that nothing else does: retries, losses, skipped and
dropped tasks, tails that are waited for and released without a link.

### Fairness

- `SF(AgentBegin(w, a))` for some `w`, for each auto activity. Beat polls every ten
  seconds, the queue is first in first out, and worker slots become free because
  executions end; an activity that is active again and again is taken up in the
  end, though a poll may find it halted or the slot taken at any one moment.
- `SF(Executes(w, a))`. A method ends by success, exception or the soft time limit,
  unless its worker dies; a worker that dies every single time is excluded, one
  that dies any number of times is not.
- `WF(AgentHandle(w))`, where a worker in its last transaction goes on. In
  `SteadySpec`, where `FailureIsHandled` is checked, workers do not die at all: a
  death between the two transactions does lose the handler (section 11).
- `WF(JoinTimeout)`. Beat runs the task every fifteen seconds.
- `WF(Work(w))` in `BackgroundTasks` and `DocumentJobs`: a worker process goes on
  taking messages and with the task it has. `WF(BreakDeadlock)`: PostgreSQL looks for
  circles of waiting processes after `deadlock_timeout`, a second. `WF(EndRequest)`, `WF(EndRetry)`: a request's transaction
  is committed or rolled back in the end, by `get_db` or by its connection's loss.

Nothing is assumed of people in a specification. `DiligenceFinishes` has
`Diligence` as a premise: people claim items while there are any, and complete
those they hold. The formula spells the fairness out with state predicates in
place of ENABLED, and TLC checks it in this form.

## 10. The proofs

The theorems about workflows are about every template that satisfies
`TemplateAssumption` and `ValidTemplateAssumption`, every set of users and workers,
and every value of the bounds; the others about any number of requests, processes,
documents, folders and templates. Every invariant of a passing run, and every
property of one that is not liveness, is stated by a theorem. Five need a condition on
the template; each condition is needed, and said to be so below. What overlapping
requests or tasks can spoil is named in the property itself, by a history variable of
the model, so that the theorem says both when it holds and what alone breaks it.

### `IterationProofs`

What a loop body preserves the loop preserves: `IterateClosed` for a set that each
round maps into itself, `IterateStages` for a different set after each round. Both
rest on `SetInduction`, induction over the naturals as a fact about a set and not
about an operator, which keeps it within first-order reach.

### `WorkflowProofs`

| theorem | statement |
|---|---|
| `TypeCorrect` | `Spec => []TypeOK` |
| `NoActivationIsLost` | `Spec => []NoLostActivation` |
| `WaitingJoinsAreTimed` | `Spec => []WaitingJoinHasClock` |
| `RequestsFollowLifecycle` | `RequestSpec => LifecycleSpec` |

The inductive invariant is `TypeOK /\ Waiting(db)`. `Waiting` says of every dormant
activity that it has fewer tokens than it needs, and of every dormant timeout join
with a token that its clock runs. It has to be stated of a set of rows and not of
the system's variable, because it must hold *inside* a transaction: `FireFlow`
places a token and, if that completes the join, leaves DORMANT in the same step, so
each turn of the loop maps sound transactions to sound ones (`FireFlowSound`,
`RoundSound`), and `IterateClosed` carries this through any number of turns. The
agent's stale session needs an argument of its own: `Seen(x)` makes the executed activity active
again, which cannot wake a dormant activity under tokens, and `Merged` alters
nothing `Waiting` speaks of.

`RequestsFollowLifecycle` is the refinement of `WorkflowLifecycle` with
`state <- db.wf`. Within a transaction `wf` only changes from running to finished,
shown for each function of the loop, and each request maps to one step of the
abstract module or to a stutter. The theorem stops at `RequestSpec`, since with the
agent's stale sessions the refinement is false (section 11).

### `ConductProofs`

| theorem | statement |
|---|---|
| `FailuresAreCounted` | `Spec => []GivesUpAfterMaxAttempts` |
| `SuspensionEnds` | `RequestSpec => []SuspendedOnlyWhileHalted` |
| `CancelledStays` | `RequestSpec => CancelledIsFinal` |
| `SettledItemsAreKept` | `ManagedSpec => SettledItemsStay` |
| `FinishedStays` | `Spec => FinishedIsFinal` |
| `InboxesAlwaysTidy` | `ManagedSpec => [](Inv /\ TidyRows(db))` |
| `NobodyWorksInVain` | `(\A a \in Activity : OnePerformer(a)) /\ ManagedSpec => []OpenItemsAreLive` |
| `ActiveWorkHasItems` | `RejectsInTurn /\ ManagedSpec => []ActiveManualHasWork` |
| `PerformersTakeTurns` | `(\A a \in Activity : PerformedBy(a) = "sequential" => Turned(a)) /\ ManagedSpec => []SequentialTurns` |
| `JoinsInOrder` | `RejectsInTurn /\ NoJoinCompensates /\ RequestSpec => [](Inv /\ JoinRows(db))` |
| `JoinsHaveTheirTokens` | `RejectsInTurn /\ NoJoinCompensates /\ RequestSpec => []AndJoinComplete` |
| `OfficeJoinsHaveTheirTokens` | the same of `ManagedSpec` |

The first five share one lemma about the engine's loop. `Conducted(d, e)` relates the rows
`d` before to the rows `e` after: no auto activity is given up, nothing cancelled is
revived, nothing is newly suspended, and only sub-workflow activities get children; `ItemsStay` adds that a settled item keeps
its state and performer. Both compose, each function of the loop has them, so
`After(d)`, the transactions whose rows `d` may become, is closed under the loop
(`IterateClosed` again).

`Proper(d, e)` is what every step but the agent's satisfies: it also admits halting,
which suspends, and restarting, which revives. `Modest(d, e)` is what the agent's
satisfy too: it may revive and it may give up, but only an activity whose log is
full. The invariant `ConductInv` adds to `GivesUpAfterMaxAttempts`:

- `Counted`: the attempt a worker counts is at most one more than the logs there are,
  and a worker at the error handler has seen them full. It is what makes an
  `attempt` read before the method ran usable after it: logs only grow;
- `Unborn`: without an instance no agent is at work and nothing exists, so that
  `StartWorkflow` overwrites nothing;
- `Spawned`: a child belongs to a sub-workflow activity, so a child that fails gives
  up no auto activity.

`SuspensionEnds`, `CancelledStays` and `SettledItemsAreKept` stop at the populations
in which they hold. An agent writes
what it read before its method ran: it finishes a workflow halted meanwhile, items
suspended, and completes an activity cancelled meanwhile (section 11). And a
direct completion takes a rejected item for an open one. `FinishedStays` includes the
agent: what it writes of the workflow's row is the columns it changed, so it may
finish the workflow again and never start it.

*Inboxes.* `TidyRows` relates, for each activity, its state, its items and its place
in the list of performers: a dormant activity has no items; one that is active and
manual has an open one; one with a single performer has at most one open item, and
only while it is active; and the place in the list is what the completed and rejected
items make it. An item is created when the activity starts, settled when someone
completes or rejects it, and skipped or suspended by administrators, in transactions
that also move the activity; each function of the loop keeps the relation, so each
transaction does. The three properties follow under conditions on the template, named
for what they say of it:

- `OnePerformer`: the first of several performers who are all asked completes the
  activity while the others' items stay available, so inboxes do hold dead work there;
- `RejectsInTurn`, only performers in turn have reject flows: a performer in turn
  rejects to the one before, and the flow is not followed. Any other reviewer's
  rejection settles the item, leaves the activity ACTIVE, and its item does not come
  back (`bug_rework_stuck`);
- `Turned`: a sequential activity that a reject flow or a compensation starts again
  goes on where `current_performer_index` had got to.

*Joins.* `JoinRows` is what counting tokens takes for granted. `Placed`: the waiting
tokens of an activity came along different flows, whose sources are complete.
`Gathered`: an AND-join that has begun has consumed a token of each flow. `Idle`:
nobody has work for a dormant activity. A flow holds a second token only if its source
completes twice without the join firing in between, so a complete activity must not
begin again. Within a transaction the loop has a list of activities to complete,
which are complete and have not placed their tokens yet; of the one at hand, the flows
already visited may have a token and the others have none. What holds so depends
on the round, which is why it needs `IterateStages`.

The conditions exclude what really breaks it: a followed reject flow begins a
complete activity again, its flow gets a second token, and two tokens of one branch
fire the join (section 11); and a compensation begins its activity without
any token. The office template satisfies all five conditions.

### `DocumentProofs`

| theorem | statement |
|---|---|
| `VersionsHaveNoGaps` | `Spec => []NoGaps` |
| `VersionsKeepTheirContent` | `Spec => []EveryVersionHasContent` |
| `ContentIsNotRepeated` | `Spec => []NoRepeatedContent` |
| `DraftsAreCurrent` | `Spec => []CurrentIsLatestDraft` |

None of them is inductive, because requests carry decisions that are about to
become rows. `Inv` adds:

- `UploadAlone`: while an upload is in progress there is no version and no other
  request;
- `PlansFollow`: the version a request will insert follows one that exists, by a
  minor number with other content, or by a major with the same. Versions are never
  deleted, so this stays true while the request waits; with the unique constraint
  it gives `NoGaps` and `NoRepeatedContent` when it commits;
- `Unique`: a number is given to one version;
- `Keys`: keys in use are in the bucket and below the counter, and the key of an
  upload or check-in in progress is named by no version and by no other request's
  plan. A promotion plans the key of a version that exists (`PlansFollow`), so the
  clean-up of a failed check-in takes nobody's object;
- `DraftsFollow`: while everything is a draft, the row names the latest version,
  and a check-in's number is above the one it read from the row, so its UPDATE does
  hold the column. It plans the successor of a version that exists; if the row has
  gone further meanwhile, that number is taken (no gaps) and the unique constraint
  rejects the insertion, and otherwise the row moves on by one.

### `TemplateProofs`

| theorem | statement |
|---|---|
| `OneVersionIsActive` | `Spec => []OneActive` |
| `DeprecationLeavesASuccessor` | `Spec => []DeprecatedHasSuccessor` |
| `VersionsInUseStayInstalled` | `Spec => InstalledWhileInUse` |
| `ActiveTemplatesAreSound` | `Spec => []ActiveIsSound` |
| `CirclesNeedOldVersions` | `Spec => []CirclesGoThroughOldVersions` |

For any drafts, slots, workflows and bounds. Every request but an installation is
`Quiet`: it keeps the family and the installation of each row, makes no state but
DRAFT and VALIDATED, undeletes nothing, and adds only drafts that are not
installed. What is left is the installation. `VersionInv` adds that an active
version is installed: that is how `install_template` finds the one to deprecate,
and without it `OneActive` is not inductive.

`ActiveIsSound` says nothing of VALIDATED versions, which become the active ones;
`SoundInv` says the same of both. A request either validates, or is `Careful`: what
is validated or active after it was so before and is drawn in the same way, because
an edit resets a validated version to DRAFT and is refused on an active one, and a
clone starts as a DRAFT. A validation's search is `Iterate` of a step that keeps every
set with no flow out of it (`SearchStays`, from `IterateClosed`), so a set that holds
the start and has no flow out is everything that is live. This theorem needs
`Slot` finite, as the number of rounds is its size.

A call runs the version it names if that is installed, and otherwise one of its family
(`Runs`). The search goes by the names, so what `CirclesNeedOldVersions` can say is
that in every circle of active versions some call is of the second kind: the circle
through an old version exists in the code (section 11). It follows from
`NoActiveCycle`, no circle of active versions by name, which is inductive as it stands. An active template is not edited, so
a circle of active templates that was not there goes through one that has just been
installed, and its search answered yes. `SearchDefined` shows that the function which
`CheckSubWorkflowDepth` chooses exists (depth by depth, with `IterateDefined`), so it
obeys its equation; `SearchFindsCircles` that from a template of a circle it never
answers yes: while it does, each call calls one more of the circle, one level deeper,
and at `MaxDepth` the answer is no. The theorem holds for every limit.

### `FolderProofs`

| theorem | statement |
|---|---|
| `OnlyMovesMakeCircles` | `Spec => []Acyclic` |
| `OnlyDeletionsLeaveOrphans` | `Spec => []NoOrphans` |
| `FilingsFollowFolders` | `Spec => []FiledInFolders` |
| `WhatIsReadableIsShown` | `Spec => []ReadableIsReachable` |
| `SourcesAreReasons` | `Spec => []SourceExplains` |
| `TransitionsTakeAccessAway` | `Spec => TransitionsNarrow` |

For any number of folders and of requests at once. `TreeInv` is the three tree
properties, the types of the rows, and `Pending`: for each request in progress, what it
found (`Found`) and what of it is still so (`StillTrue`), given how others have
overtaken it. That a move's new parent is not below the folder is still so unless
another move committed; that a parent exists, or that a subtree to delete is closed,
unless a deletion and something else crossed. `GrownPending`, `MovePending`,
`DeletePending` and `SamePending` carry this over the commits of others: a folder that
is created or copied is new and so below nothing a request looked at but its parent,
and a deletion only takes folders out of subtrees. `CreateKeeps`, `MoveKeeps`,
`CopyKeeps`, `DeleteKeeps` and `FileKeeps` say what a commit leaves, given what is
still so.

A move is safe because the new parent is not among the descendants: a set of folders
without a root would have to contain the moved folder, hence its new parent and, going
up, everything on the way, all of it below the moved folder. A copy is safe because the
ids of the copies are an order preserving image of the subtree's, and a rootless set of
copies would be the image of one among the parents it has read (`Rooted`), whatever
moved since. `Below`, the recursive query, is used only as the least closed set that
holds its anchor. A deletion takes the filings of all that is below with it.

`WhatIsReadableIsShown` compares two walks upwards: the one of `check_permission` and
the one that lists the folders to show. `Above` is as many rounds of a step up as there
are folders; round by round (`SetInduction`), the walk from a set of folders finds what
the walks from its members find, and as long as there is no orphan the walk that stops
at deleted folders meets none (`ChainIsAbove`).

`SourcesAreReasons` needs only `Levels`: an entry's level is one of those that are ranked, so that
what includes READ is decided alike by the check and by its explanation.
`TransitionsTakeAccessAway` needs nothing: a rule never removes an ADMIN entry, so a
list with one does not become empty.

### `TaskProofs`

| theorem | statement |
|---|---|
| `DownloadsHaveTheirObject` | `Spec => []ReadyHasObject` |
| `QuietTasksKeepTheChain` | `Spec => []QuietChainVerifies` |

For any number of requests, processes, losses and retries. The first needs one
more conjunct: whoever is at the step "uploaded" has stored its object. The second
rests on `ChainInv`: besides the shapes of rows and sessions, until the chain is
`disturbed` it has `Links`, from which `Verified` follows (numbers are 1 to n, each
once, and each hash is made of the one before), and every process that has chosen its
tail is `Ahead`: the tail is still the last record. Of those that are ahead the first to
store makes the others late, and that is just what `Disturbs` notes; a task that is
executed again after it stored would give its record a second number, and is noted as
well. `bug_chain` shows that the condition is needed.

### `JobProofs`

| theorem | statement |
|---|---|
| `ArchivesStay` | `Spec => []ArchivesAreThere` |
| `JobsReportWhatTheyDid` | `Spec => ReportsWhatItDid` |

For any jobs, items, library, processes, losses, retries and second deliveries.
`JobInv` says of what is shared (`SharedOK`) that messages are of jobs, that documents
are numbered from 1, and of each job (`Stored`) which archive is there: an import's
until its outcome is committed, a completed export's. Of each process (`WorkerOK`) it
says that it works on a visible job, that an export's archive is stored before the
commit that completes it, and:

- `Faithful`: what the session has written so far is among what it will report, as a
  success or as an error. A bulk session's successes are documents it wrote, each
  changed as was asked; an import's successes are documents it wrote, with the version
  they name if they have content; what it gave access entries to it has named; an
  export writes nothing;
- `Aimed`: what it is about to write is a document that exists or a new one.

Other processes commit while a session is open. `Faithful` speaks of the session's own
writes, and of committed documents only that they exist, which no step undoes (a
deletion is a flag); `Steady` names what a step must keep of the shared rows for
`BystanderOK`: it disturbs no other process. A document named twice by one job needs
`ChangedOnce`: asking for the same change again changes nothing. `Tells` is the
statement about one job: `CommitReports` shows it of a commit, `FailureReports` of an
import that fails, which names no item and claims no success.

### Only model-checked

Liveness under fairness (`AutoActivityEnds`, `FailureIsHandled`,
`TimeoutJoinFires`, `DiligenceFinishes`, `EveryRecordIsChained`,
`ProcessingEnds`, `JobsSettle`), and what depends on ENABLED, is beyond the prover. So
is what a recursive definition computes for every input: of `Iterate` the proofs use
which sets it stays in, of `Below` that it is the least closed set, of
`CheckSubWorkflowDepth` and `Ancestors` the equation they satisfy. The runs that expect
a violation have no theorem. `AndJoinComplete`, `OpenItemsAreLive`,
`ActiveManualHasWork` and `SequentialTurns` are not theorems of every template: those
the conditions of `ConductProofs` leave out refute them.

## 11. Where code and documentation disagree

With a run (quotations and lines in `PROJECT.json`):

| run | what happens |
|---|---|
| `bug_rework_stuck` | A reviewer rejects, the draft is done again, and its token finds the reviewer's activity still ACTIVE: the workflow runs with nothing to do. |
| `bug_chain` | Two processes append to the audit chain: on an empty chain there is nothing to lock and both write number 1; later the second gets the row it waited for and gives its number again. A log nobody touched fails its verification. |
| `bug_reorder` | Exchanging two children of a virtual document writes the first row while the second still has its place: the unique constraint refuses the order. |

Seen while modelling, without a run of their own.

Workflows:

- Rework into one branch of an AND-join puts a second token on that branch's flow,
  and the join fires without the other: `_should_activate` counts tokens
  (`engine_service.py` 867), its docstring says "AND-join: requires tokens from ALL
  incoming flows." (835).
- A restarted workflow is DORMANT, and DORMANT can be resumed; the workflow then
  runs with every activity dormant and no token. (`src/tests/test_workflow_mgmt.py`
  193: "Cannot resume a workflow that is not halted.")
- An auto activity followed by an assigned task ends in ERROR: the announcement of
  the new item converts `"system"` to a UUID (`engine_service.py` 808).
- A manual activity that is activated by its join timeout has no work item
  (`tasks/join_timeout.py` 109).
- The poll's locks are gone before the task it dispatched runs, and the next poll
  dispatches again: two workers run one method (`tasks/auto_activity.py` 54).
- An agent's session that read a running workflow finishes it after it was halted
  or aborted (`engine_service.py` 771). The refinement of `WorkflowLifecycle` is
  therefore checked and proved without the agent.
- The auto activities of a halted workflow go on, and so do timeouts and skips.
- A duplicate execution that fails last puts a completed activity in ERROR
  (`auto_activity.py` 318).
- A worker that dies between committing ERROR and starting the handler loses the
  handler (325).
- The next performer of a sequence, and the performer of a reworked task, gets the
  item although they are away and have a delegate (`engine_service.py` 1039).
- Retrying an activity keeps its count of attempts, so one failure more is final.
- A timeout join that is an END or a START makes the timeout task raise, for all
  workflows, every time (`join_timeout.py` 130).
- Two branches of an AND-join completed at the same moment do not see each other's
  token under READ COMMITTED; the lock meant to prevent this is on an aggregate,
  which PostgreSQL refuses (`engine_service.py` 853-862).
- Two requests that complete different activities at the same moment read the same
  `max(completed_order)` and write equal orders (`engine_service.py` 473-480): in which
  order a compensation takes them is then up to the database.
- A child that reaches its END inside `start_workflow` never resumes its parent
  (`engine_service.py` 665-686): nobody listens yet.

Templates:

- Validating an ACTIVE template makes it VALIDATED while it stays installed; it can
  then be edited under the workflows that run on it (`template_service.py` 751,
  `_check_not_active` 73).
- A deprecated version that is still installed can be edited and started, and is
  chosen before the active one when its number is higher
  (`engine_service.py` 298-310); `src/.planning/research/ARCHITECTURE.md` 218 has new instances start
  on the active version.
- A clone loses routing types, performer lists, the sub-workflow's template, event
  filters, joins, labels and the alias set (`template_service.py` 995-1062), so a
  new version of a template with a sub-workflow does not validate until it is given
  again.
- The search for circles goes by template id (638-671), a start by family: an active
  version whose call names an old version of a family may be run by what it calls, and
  no installation notices. `CirclesGoThroughOldVersions` says that there are no other
  circles.
- Deleting an activity keeps its flows (320-353); validation then ignores them.
- Two installations at the same moment leave two active versions, and two clones
  the same version number: nothing is locked.

Documents:

- The bulk task drops the answer of `check_document_deletable`: a document under
  legal hold is deleted (`tasks/bulk_operations.py` 75).
- Two concurrent check-outs both succeed: `locked_by` is tested and set without a
  row lock (`document_service.py` 390), where `src/README.md` 16 promises "check-in/check-out
  locking". (An invariant saying so is violated in `DocumentStore` at once.)
- A check-in that races a promotion leaves a current version that no version row
  has, such as 1.2, and inserts a draft below the new major.
- A forced unlock, or another check-in, during a check-in takes away the lock of the
  user who checked out next.
- A signed version is superseded by a promotion, which does not ask for signatures
  (`document_service.py` 653), or by a check-in that read it before it was signed.
- A hold placed between the check of a deletion and its commit does not stop it
  (`routers/documents.py` 173).

Folders and access:

- Two moves at once, each into the other's subtree, make a circle, and every
  recursive query that meets it runs for ever (`folder_service.py` 311-332; its
  docstring, 314: "with circular-reference guards").
- What is created, copied, moved or filed into a folder while a deletion of it is in
  progress ends up under a deleted parent, where no tree shows it; it is still found
  by its id (`folder_service.py` 128-147, 441-469).
- A lifecycle rule with action "add" writes an audit record and no entry
  (`lifecycle_service.py` 142-159).
- Removing the last entry of a document opens it to everyone (`acl_service.py`
  309). `TransitionsNarrow` therefore speaks of documents with an ADMIN entry.
- A copied folder has no access list: what was restricted is open in the copy.

Virtual documents:

- An insertion or removal that renumbers two rows or more succeeds or fails by the
  order of random keys (`virtual_document_service.py` 261-269, 303-310).
- `_detect_cycle` always answers no: a child is a document, never a virtual one.
- A deleted document stays a child. No migration creates the two tables.

Tasks:

- A task that is taken before its request has committed finds nothing: the audit
  record is never chained, the rendition stays PENDING, and only FAILED can be
  retried (`audit_service.py` 35, `rendition_service.py` 35, 124).
- A hash task delivered again after it stored its hash links the record a second
  time (`tasks/audit_chain.py` 85).
- A killed process leaves its rendition PROCESSING for ever, and so does an error of
  the database while it is converted: FAILED is committed on the session whose
  transaction has failed, which raises, nothing rolls back, and the message is
  acknowledged (`tasks/rendition.py` 164-167, 296-299).
- No deployed worker consumes the queue `extraction` (`celery_app.py` 27,
  `src/docker-compose.yml` 85, 121).
- A check-in overwrites the search vector (`document_service.py` 541-553) while
  `extraction_status` stays "completed" from the version before.

Jobs on many documents:

- `status = "running"` is flushed and never committed: no client ever sees it
  (`tasks/bulk_operations.py` 53, `tasks/import_export.py` 72, 291).
- One refused statement fails the whole job, although each item is in a `try`: the
  session takes nothing more, the commit raises, and after one retry the job stays
  "pending" for ever (`bulk_operations.py` 99-117; its docstring, 3: "Processes
  each document individually, recording success/failure per item"). Nobody rolls
  back, and there is no savepoint.
- An item reported as an error may have been changed: the audit record's task is sent
  after the UPDATE was flushed, and when the broker does not answer the exception is
  caught and the change committed (`bulk_operations.py` 77-104,
  `services/audit_service.py` 35). Of an import, the document is there without a
  version when its content cannot be stored (`import_export.py` 414-445).
- An entry without content, or whose file the ZIP lacks, is imported as a document
  without a version, and is a success (419-440).
- An import that fails outside its items, at a key its manifest lacks say, is "failed"
  and names no item, and the documents it made so far are committed (515-519).
- Importing one's own export where it came from is refused like that: skipped documents
  get their access entries a second time (`import_export.py` 378, 466-477), and
  "overwrite" inserts a version number that exists (426-438).
- A completed import that is delivered again finds its ZIP gone and is "failed"
  (515-519).
- A title that belongs to a deleted document counts as a conflict (368), and one that
  two documents have is an error. "overwrite" stores the content over the object of
  an earlier import of the same file (422), which an earlier version still names.
- Importing an export of folders that are not in a cabinet creates nothing, and
  says nothing.

## 12. What is not modelled

- *Expression evaluation, conversions, extraction, cryptography, mail*: pure
  functions or other programs; the models have their outcomes.
- *Document types, relationships, saved queries, users, groups, roles, queues,
  alias sets*: create, read, update and delete of single rows, where a test reaches
  what a model would.
- *Search, dashboards, analytics, monitoring, health*: read only.
- *CMIS*: a translation to the document service.
- *The list of documents* (`list_documents`, `document_service.py` 165-322): one SQL
  statement that computes access once more; it is not compared with the others.
- *Archives*: file formats; the folders, filings and relationships in them.
- *Deadlines*, *several workflows at once*, the
  engine's transactions taken apart, the lifecycle inside a workflow: the plan.
- *Identity*: tokens, passwords and external providers.
- *Web client, migrations, scripts*.
