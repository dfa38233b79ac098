--------------------------- MODULE WorkflowSystem ---------------------------
(***************************************************************************)
(* One workflow instance under its clients, its operators, the Celery      *)
(* tasks and the event bus.  A request is one transaction and one step; an *)
(* agent keeps a session open while an auto method runs, so its execution  *)
(* is several steps, and other requests commit in between.                 *)
(***************************************************************************)
EXTENDS WorkflowEngine

CONSTANTS
  Worker,       \* slots of the Celery worker that run auto activities
  MaxAttempts,  \* executions after which a failure is final
  MaxItems,     \* bound: work items per activity
  MaxTokens,    \* bound: unconsumed tokens per activity
  MaxRounds,    \* bound: completed_order
  MaxChildren   \* bound: running children per activity

ASSUME SystemAssumption ==
  /\ None \notin Worker
  /\ MaxAttempts \in Nat \ {0}
  /\ {MaxItems, MaxTokens, MaxRounds, MaxChildren} \subseteq Nat

VARIABLES
  db,        \* the committed rows
  delegate,  \* users.delegate_id of the users who are away, None of the others
  running    \* what each worker executes

vars == <<db, delegate, running>>

(* wf and var are the rows as the session read them, not as they are now.  *)
Execution ==
  [phase : {"method", "handler"}, act : Activity, wf : WorkflowState,
   var : Valuation, attempt : Nat]

TypeOK ==
  /\ db \in Database
  /\ delegate \in [User -> User \cup {None}]
  /\ running \in [Worker -> Execution \cup {None}]

Blank(v) ==
  LET zero == [a \in Activity |-> 0]
      none == [a \in Activity |-> <<>>]
  IN  [wf |-> "absent", act |-> [a \in Activity |-> "dormant"], tok |-> none, used |-> {},
       item |-> none, var |-> v, idx |-> zero, order |-> zero, clock |-> {},
       logs |-> zero, child |-> zero]

Init ==
  /\ db \in {Blank(v) : v \in Valuation}
  /\ delegate = [u \in User |-> None]
  /\ running = [w \in Worker |-> None]

NoOverride == [a \in Activity |-> None]

(* The transaction of a request, with the arguments the engine reads.      *)
Transact(d, path, next, over, system) ==
  [db |-> d, ok |-> TRUE, queue |-> <<>>, path |-> path, next |-> next,
   over |-> over, delegate |-> delegate, system |-> system]

Request(d) == Transact(d, "", None, NoOverride, FALSE)

Bounded(d) ==
  \A a \in Activity :
    /\ Len(d.item[a]) <= MaxItems
    /\ Len(d.tok[a]) <= MaxTokens
    /\ d.order[a] <= MaxRounds
    /\ d.child[a] <= MaxChildren

(* A request that raised is rolled back, so it is no step at all.          *)
Commit(t) ==
  /\ t.ok
  /\ Bounded(t.db)
  /\ db' = t.db
  /\ UNCHANGED <<delegate, running>>

Write(d) == Commit(Request(d))

Items(a) == DOMAIN db.item[a]

(* Only a runtime selection reads the argument.                            *)
NextPerformers(a) ==
  IF PerformedBy(a) = "runtime_selection" THEN User \cup {None} ELSE {None}

-----------------------------------------------------------------------------
(* Clients.                                                                *)

(* start_workflow; the performer of at most one activity is overridden.    *)
StartWorkflow ==
  /\ db.wf = "absent"
  /\ \E v \in Valuation, a \in Activity, u \in User \cup {None} :
       LET d    == [Blank(v) EXCEPT !.wf = "running"]
           over == [NoOverride EXCEPT ![a] = u]
       IN  Commit(AdvanceFromActivity(Transact(d, "", None, over, FALSE), StartActivity))

(* Anyone may take an available item, but for a queue's members only.      *)
AcquireWorkItem(u, a, i) ==
  /\ db.item[a][i].state = "available"
  /\ db.item[a][i].queued /\ db.item[a][i].performer = None => u \in Members(a)
  /\ Write([db EXCEPT !.item[a][i].state = "acquired", !.item[a][i].performer = u])

ReleaseWorkItem(u, a, i) ==
  /\ db.item[a][i].state = "acquired"
  /\ db.item[a][i].performer = u
  /\ Write([db EXCEPT !.item[a][i].state = "available", !.item[a][i].performer = None])

CompleteInboxItem(u, a, i) ==
  /\ db.item[a][i].state = "acquired"
  /\ db.item[a][i].performer = u
  /\ \E v \in Valuation, p \in Label, n \in NextPerformers(a) :
       Commit(CompleteWorkItem(Transact(db, p, n, NoOverride, FALSE), a, i, v))

RejectInboxItem(u, a, i) ==
  /\ db.item[a][i].state = "acquired"
  /\ db.item[a][i].performer = u
  /\ Commit(RejectWorkItem(Request(db), a, i))

(* POST /workflows/{id}/work-items/{id}/complete: any user, any item.      *)
CompleteItemDirect(a, i) ==
  \E v \in Valuation, p \in Label, n \in NextPerformers(a) :
    Commit(CompleteWorkItem(Transact(db, p, n, NoOverride, FALSE), a, i, v))

UpdateVariable ==
  /\ db.wf = "running"
  /\ \E v \in Valuation \ {db.var} : Write([db EXCEPT !.var = v])

(* PUT /users/me/availability.                                             *)
UpdateAvailability(u) ==
  /\ \E d \in (User \ {u}) \cup {None} :
       /\ d # delegate[u]
       /\ delegate' = [delegate EXCEPT ![u] = d]
  /\ UNCHANGED <<db, running>>

-----------------------------------------------------------------------------
(* Operators.                                                              *)

Mark(d, S, s) == [d EXCEPT !.item = [a \in Activity |-> SetItems(@[a], S, s)]]

(* Mutant: halting suspends every item.                                    *)
HaltSuspendingAll ==
  /\ db.wf = "running"
  /\ Write(Mark(SetWorkflow(db, "halted"), ItemState, "suspended"))

(* Mutant: items get the state that paused activities have.                *)
HaltPausing ==
  /\ db.wf = "running"
  /\ Write(Mark(SetWorkflow(db, "halted"), {"available", "acquired"}, "paused"))

Halt ==
  /\ db.wf = "running"
  /\ Write(Mark(SetWorkflow(db, "halted"), {"available", "acquired"}, "suspended"))

(* Mutant: resuming forgets the suspended items.                           *)
ResumeOnly == /\ db.wf \in {"dormant", "halted"} /\ Write(SetWorkflow(db, "running"))

Resume ==
  /\ db.wf \in {"dormant", "halted"}
  /\ Write(Mark(SetWorkflow(db, "running"), {"suspended"}, "available"))

(* Mutant: any workflow can be aborted.                                    *)
AbortAny ==
  LET d == Mark(SetWorkflow(db, "failed"), Open, "complete")
  IN  Write([d EXCEPT !.act = [a \in Activity |-> IF @[a] = "active" THEN "complete" ELSE @[a]]])

(* Mutant: aborting closes the items and leaves the activities active.     *)
AbortItemsOnly ==
  /\ db.wf \in {"running", "halted"}
  /\ Write(Mark(SetWorkflow(db, "failed"), Open, "complete"))

Abort ==
  /\ db.wf \in {"running", "halted"}
  /\ LET d == Mark(SetWorkflow(db, "failed"), Open, "complete")
     IN  Write([d EXCEPT !.act = [a \in Activity |->
                                    IF @[a] = "active" THEN "complete" ELSE @[a]]])

(* Rows of work items and tokens go; the rest of the activity row stays.   *)
Restart ==
  /\ db.wf = "failed"
  /\ Write([db EXCEPT !.wf = "dormant", !.act = [a \in Activity |-> "dormant"],
                      !.item = [a \in Activity |-> <<>>],
                      !.tok = [a \in Activity |-> <<>>], !.used = {}])

Compensate ==
  /\ db.wf \in {"running", "failed"}
  /\ ExecuteCompensation(db) # db
  /\ Write(ExecuteCompensation(db))

RetryActivity(a) ==
  /\ db.act[a] = "error"
  /\ Write([db EXCEPT !.act[a] = "active"])

Logged(d, a) == [d EXCEPT !.logs[a] = IF @ < MaxAttempts THEN @ + 1 ELSE @]

SkipActivity(a) ==
  /\ db.act[a] = "error"
  /\ LET t == AdvanceFromActivity(Request([db EXCEPT !.act[a] = "active"]), a)
     IN  Commit([t EXCEPT !.db = Logged(@, a)])

-----------------------------------------------------------------------------
(* The Workflow Agent: tasks/auto_activity.py.                             *)

Busy(w, phase) == running[w] # None /\ running[w].phase = phase

(* The poll dispatches an active auto activity every ten seconds, whether  *)
(* or not another worker is at it, and a retry is one more task.           *)
AgentBegin(w, a) ==
  /\ running[w] = None
  /\ db.act[a] = "active" /\ Type(a) = "auto"
  /\ running' = [running EXCEPT ![w] =
                   [phase |-> "method", act |-> a, wf |-> db.wf, var |-> db.var,
                    attempt |-> db.logs[a] + 1]]
  /\ UNCHANGED <<db, delegate>>

(* The session's rows of the activity, the workflow and the variables are  *)
(* those it read before the method ran.                                    *)
Seen(x) == [db EXCEPT !.act[x.act] = "active", !.wf = x.wf, !.var = x.var]

Advanced(x) ==
  AdvanceFromActivity(Transact(Seen(x), "", None, NoOverride, TRUE), x.act)

(* Mutant: the session writes the whole workflow row.                      *)
MergedOverwriting(d, x) == Logged([d EXCEPT !.var = db.var], x.act)

(* Only the columns the session changed are written.                       *)
Merged(d, x) ==
  Logged([d EXCEPT !.wf = IF @ = x.wf THEN db.wf ELSE @, !.var = db.var], x.act)

AgentSucceed(w) ==
  /\ Busy(w, "method")
  /\ LET x == running[w]
     IN  /\ Advanced(x).ok
         /\ Bounded(Advanced(x).db)
         /\ db' = Merged(Advanced(x).db, x)
  /\ running' = [running EXCEPT ![w] = None]
  /\ UNCHANGED delegate

(* Mutant: the attempts are counted from zero.                             *)
RecordFailureEarly(w) ==
  LET x    == running[w]
      last == x.attempt + 1 >= MaxAttempts
      d    == Logged(db, x.act)
  IN  /\ db' = IF last THEN [d EXCEPT !.act[x.act] = "error"] ELSE d
      /\ running' = [running EXCEPT ![w] = IF last THEN [x EXCEPT !.phase = "handler"]
                                           ELSE None]
      /\ UNCHANGED delegate

(* Mutant: a failure is retried for ever.                                  *)
RecordFailureForever(w) ==
  /\ db' = Logged(db, running[w].act)
  /\ running' = [running EXCEPT ![w] = None]
  /\ UNCHANGED delegate

(* The session is rolled back; a second one logs the failure and, after    *)
(* the last attempt, sets the state without reading it.                    *)
RecordFailure(w) ==
  LET x    == running[w]
      last == x.attempt >= MaxAttempts
      d    == Logged(db, x.act)
  IN  /\ db' = IF last THEN [d EXCEPT !.act[x.act] = "error"] ELSE d
      /\ running' = [running EXCEPT ![w] = IF last THEN [x EXCEPT !.phase = "handler"]
                                           ELSE None]
      /\ UNCHANGED delegate

(* The method raises or exceeds its time.                                  *)
AgentFail(w) == Busy(w, "method") /\ RecordFailure(w)

(* The method succeeds and the engine raises.                              *)
AgentAdvanceFails(w) ==
  /\ Busy(w, "method")
  /\ ~Advanced(running[w]).ok
  /\ RecordFailure(w)

(* _try_activate_error_handler, in a third session.                        *)
AgentHandle(w) ==
  /\ Busy(w, "handler")
  /\ Bounded(HandleActivityError(db, running[w].act))
  /\ db' = HandleActivityError(db, running[w].act)
  /\ running' = [running EXCEPT ![w] = None]
  /\ UNCHANGED delegate

(* The worker dies with whatever it had not committed.                     *)
AgentCrash(w) ==
  /\ running[w] # None
  /\ running' = [running EXCEPT ![w] = None]
  /\ UNCHANGED <<db, delegate>>

-----------------------------------------------------------------------------
(* Other tasks and events.                                                 *)

Expirable ==
  {a \in db.clock : db.act[a] = "dormant" /\ Template.activity[a].timed
                    /\ Trigger(a) = "timeout_join"}

ForceFire(d, S) ==
  [d EXCEPT !.act  = [a \in Activity |-> IF a \in S THEN "active" ELSE @[a]],
            !.tok  = [a \in Activity |-> IF a \in S THEN <<>> ELSE @[a]],
            !.used = @ \cup UNION {{d.tok[a][i] : i \in DOMAIN d.tok[a]} : a \in S}]

(* tasks/join_timeout.py, for the joins whose time is up.  With a start or *)
(* an end among them the engine raises and the whole task is rolled back.  *)
JoinTimeout ==
  \E S \in (SUBSET Expirable) \ {{}} :
    /\ \A a \in S : Type(a) \notin {"start", "end"}
    /\ Write(ForceFire(db, S))

Listening(e) ==
  {a \in Activity : /\ Type(a) = "event" /\ Template.activity[a].event = e
                    /\ db.act[a] = "active"}

(* The event bus completes the listeners one by one, in any order, and     *)
(* swallows the exception that stops it half-way.                          *)
EventFires(e) ==
  /\ db.wf = "running" /\ Listening(e) # {}
  /\ \E order \in [1..Cardinality(Listening(e)) -> Listening(e)] :
       /\ \A i, j \in DOMAIN order : order[i] = order[j] => i = j
       /\ LET t == Iterate([i \in DOMAIN order |-> [x \in Transaction |->
                              IF x.ok THEN AdvanceFromActivity(x, order[i]) ELSE x]],
                           Request(db), Len(order))
          IN  Commit([t EXCEPT !.ok = TRUE])

(* A child workflow of the sub-workflow activity a ends.  Only a child     *)
(* whose last step completes a work item says so to the event bus.         *)
ChildFinishes(a, announced) ==
  /\ db.child[a] > 0
  /\ LET d == [db EXCEPT !.child[a] = @ - 1]
         t == AdvanceFromActivity(Request(d), a)
     IN  IF announced /\ db.act[a] = "active" /\ db.wf = "running"
         THEN Commit([t EXCEPT !.ok = TRUE]) ELSE Write(d)

(* Mutant: the activity fails in whatever state it is.                     *)
ChildFailsBlindly(a) ==
  /\ db.child[a] > 0
  /\ Write([db EXCEPT !.child[a] = @ - 1, !.act[a] = "error"])

ChildFails(a) ==
  /\ db.child[a] > 0
  /\ Write([db EXCEPT !.child[a] = @ - 1,
                      !.act[a] = IF @ = "active" THEN "error" ELSE @])

-----------------------------------------------------------------------------
InboxStep ==
  \E u \in User, a \in Activity : \E i \in Items(a) :
    \/ AcquireWorkItem(u, a, i)
    \/ ReleaseWorkItem(u, a, i)
    \/ CompleteInboxItem(u, a, i)
    \/ RejectInboxItem(u, a, i)

DirectStep == \E a \in Activity : \E i \in Items(a) : CompleteItemDirect(a, i)

ClientStep == StartWorkflow \/ InboxStep \/ UpdateVariable

UserStep == \E u \in User : UpdateAvailability(u)

OperatorStep ==
  \/ Halt \/ Resume \/ Abort \/ Restart \/ Compensate
  \/ \E a \in Activity : RetryActivity(a) \/ SkipActivity(a)

AgentStep ==
  \E w \in Worker :
    \/ \E a \in Activity : AgentBegin(w, a)
    \/ AgentSucceed(w)
    \/ AgentFail(w)
    \/ AgentAdvanceFails(w)
    \/ AgentHandle(w)
    \/ AgentCrash(w)

BusStep ==
  \/ JoinTimeout
  \/ \E e \in {Template.activity[a].event : a \in Activity} : EventFires(e)
  \/ \E a \in Activity : ChildFinishes(a, TRUE) \/ ChildFinishes(a, FALSE) \/ ChildFails(a)

Next == ClientStep \/ DirectStep \/ UserStep \/ OperatorStep \/ AgentStep \/ BusStep

Spec == Init /\ [][Next]_vars
=============================================================================
