------------------------- MODULE WorkflowProperties -------------------------
(***************************************************************************)
(* What the workflow engine owes its users, and the populations of clients *)
(* and tasks under which each promise is examined.                         *)
(***************************************************************************)
EXTENDS WorkflowSystem

-----------------------------------------------------------------------------
(* Populations.                                                            *)

People == StartWorkflow \/ InboxStep \/ UpdateVariable

Administration == Halt \/ Resume \/ Abort \/ Restart

(* Inboxes only; with absences and administrators; and everything that is  *)
(* one transaction, which leaves out the agent.                            *)
InboxSpec    == Init /\ [][People]_vars
ManagedSpec  == Init /\ [][People \/ UserStep \/ Administration \/ Compensate]_vars
RequestSpec  == Init /\ [][ClientStep \/ DirectStep \/ UserStep \/ OperatorStep \/ BusStep]_vars

(* Celery: the queue is first-in first-out and the poll refills it, so an  *)
(* activity that stays active is taken up again and again; executions end, *)
(* by success, exception or the soft time limit, unless the worker dies,   *)
(* and it does not always die.                                             *)
Executes(w, a) ==
  /\ running[w] # None /\ running[w].act = a
  /\ AgentFail(w) \/ AgentSucceed(w) \/ AgentAdvanceFails(w)

AgentFairness ==
  /\ \A a \in {b \in Activity : Type(b) = "auto"} :
       /\ SF_vars(\E w \in Worker : AgentBegin(w, a))
       /\ SF_vars(\E w \in Worker : Executes(w, a))
  /\ \A w \in Worker : WF_vars(AgentHandle(w))

(* Auto activities under operators who do not start all over again, and    *)
(* workers that may die.                                                   *)
Mending == Compensate \/ Halt \/ Resume \/ Abort \/ \E a \in Activity : RetryActivity(a) \/ SkipActivity(a)

UnattendedSpec ==
  Init /\ [][StartWorkflow \/ Mending \/ AgentStep]_vars /\ AgentFairness

SteadyAgent ==
  \E w \in Worker : \/ \E a \in Activity : AgentBegin(w, a)
                    \/ AgentSucceed(w) \/ AgentFail(w)
                    \/ AgentAdvanceFails(w) \/ AgentHandle(w)

(* The tasks of a system whose workers live: beat runs the timeout check   *)
(* every fifteen seconds.  Nothing is asked of people.                     *)
SteadySpec ==
  /\ Init
  /\ [][People \/ Halt \/ Resume \/ JoinTimeout \/ SteadyAgent]_vars
  /\ AgentFairness /\ WF_vars(JoinTimeout)

(* People who keep working: while there are items to claim somebody claims *)
(* one, and items that are held again and again lead to a completion; the  *)
(* weak and the strong fairness of these steps, with the state predicates  *)
(* that enable them.  This is an assumption about users, not about the     *)
(* program, and so a premise of the property that needs it.                *)
SomebodyClaims ==
  \E u \in User, a \in Activity : \E i \in Items(a) : AcquireWorkItem(u, a, i)

CanClaim ==
  \E a \in Activity : \E i \in Items(a) :
    /\ db.item[a][i].state = "available"
    /\ db.item[a][i].queued => Members(a) # {}

SomebodyCompletes ==
  \E u \in User, a \in Activity : \E i \in Items(a) : CompleteInboxItem(u, a, i)

CanComplete ==
  \E a \in Activity : \E i \in Items(a), v \in Valuation, p \in Label, n \in NextPerformers(a) :
    /\ db.item[a][i].state = "acquired"
    /\ LET t == CompleteWorkItem(Transact(db, p, n, NoOverride, FALSE), a, i, v)
       IN  t.ok /\ Bounded(t.db)

Diligence ==
  /\ []<>~CanClaim \/ []<><<SomebodyClaims>>_vars
  /\ <>[]~CanComplete \/ []<><<SomebodyCompletes>>_vars

-----------------------------------------------------------------------------
(* Tokens and joins.                                                       *)

(* A dormant activity never holds enough tokens to fire: the arrival that  *)
(* completes a join activates it, in every order of arrival, and no later  *)
(* step, restart included, makes an activity dormant under its tokens.     *)
NoLostActivation ==
  \A a \in Activity :
    db.act[a] = "dormant" => db.tok[a] = <<>> \/ Len(db.tok[a]) < Needed(a)

(* A dormant timeout join that holds a token has its clock running, so the *)
(* timeout check will find it (join_timeout_started_at is never cleared).  *)
WaitingJoinHasClock ==
  \A a \in Activity :
    /\ Trigger(a) = "timeout_join" /\ db.act[a] = "dormant" /\ db.tok[a] # <<>>
    => a \in db.clock

(* An AND-join starts only after a token came along each of its flows:     *)
(* counting tokens, as _should_activate does, is enough to know that.      *)
AndJoinComplete ==
  \A a \in Activity :
    /\ Trigger(a) = "and_join" /\ Type(a) # "start"
    /\ db.act[a] \in {"active", "complete"}
    => Incoming(a) \subseteq db.used

-----------------------------------------------------------------------------
(* Work items.                                                             *)

OpenItems(a) == {i \in Items(a) : db.item[a][i].state \in Open}

(* An item someone could still work on belongs to an active activity: no   *)
(* cancelled, completed or aborted branch leaves work in an inbox.  (Each  *)
(* activity has one performer here: see the README for groups.)            *)
OpenItemsAreLive ==
  \A a \in Activity : OpenItems(a) # {} => db.act[a] = "active"

(* An active manual activity has an item someone can finish.               *)
ActiveManualHasWork ==
  \A a \in Activity :
    Type(a) = "manual" /\ db.act[a] = "active" => OpenItems(a) # {}

(* The performers of a sequential activity take turns: one open item, and  *)
(* it is at the place in the list the activity instance remembers, back    *)
(* after a rejection and forth after a completion.                         *)
SequentialTurns ==
  \A a \in Activity :
    PerformedBy(a) = "sequential" =>
      /\ Cardinality(OpenItems(a)) <= 1
      /\ db.idx[a] # 0 /\ db.act[a] = "active" =>
           Cardinality({i \in Items(a) : db.item[a][i].state = "complete"}) =
             db.idx[a] + Cardinality({i \in Items(a) : db.item[a][i].state = "rejected"})

(* Suspension and halting go together: no item is left suspended in a      *)
(* workflow that was resumed, aborted or restarted.                        *)
SuspendedOnlyWhileHalted ==
  \A a \in Activity : \A i \in Items(a) :
    db.item[a][i].state = "suspended" => db.wf = "halted"

(* A completed or rejected item keeps its state and its performer through  *)
(* halts, resumptions and aborts, until a restart deletes it.              *)
SettledItemsStay ==
  [][\A a \in Activity : \A i \in Items(a) :
       db.item[a][i].state \in {"complete", "rejected"} =>
         \/ db'.item[a] = <<>>
         \/ /\ db'.item[a][i].state = db.item[a][i].state
            /\ db'.item[a][i].performer = db.item[a][i].performer]_vars

(* With people who keep working and administrators who do not halt it for  *)
(* ever, a workflow finishes: through late branches, halts that meet the   *)
(* agent, failures and their handlers no token is lost, and no join waits  *)
(* for one that never comes.                                               *)
DiligenceFinishes ==
  Diligence /\ <>[](db.wf # "halted") => (db.wf = "running" ~> db.wf = "finished")

-----------------------------------------------------------------------------
(* The workflow instance.                                                  *)

Lifecycle == INSTANCE WorkflowLifecycle WITH state <- db.wf

(* Whatever requests do to a workflow is a step of its lifecycle.          *)
LifecycleSpec == Lifecycle!Spec

(* A finished workflow stays finished, whatever stale session commits.     *)
FinishedIsFinal == [][db.wf = "finished" => db'.wf = "finished"]_vars

(* What a cancelling join cancelled is not revived until a restart.        *)
CancelledIsFinal ==
  [][\A a \in Activity :
       db.act[a] = "cancelled" /\ db'.wf # "dormant" => db'.act[a] = "cancelled"]_vars

(* A running workflow has something in it that can move.                   *)
RunningHasWork ==
  db.wf = "running" =>
    \E a \in Activity : \/ OpenItems(a) # {}
                        \/ db.act[a] = "active" /\ Type(a) # "manual"
                        \/ db.act[a] = "error"

-----------------------------------------------------------------------------
(* The Workflow Agent.                                                     *)

(* An auto activity is given up only after MaxAttempts executions that     *)
(* left a log, crashes and duplicate executions notwithstanding.           *)
GivesUpAfterMaxAttempts ==
  \A a \in Activity :
    Type(a) = "auto" /\ db.act[a] = "error" => db.logs[a] >= MaxAttempts

(* An active auto activity is completed or given up, though workers crash. *)
AutoActivityEnds ==
  \A a \in Activity :
    (Type(a) = "auto" /\ db.act[a] = "active") ~> db.act[a] # "active"

(* A failed activity that has an error handler gets it activated, unless a *)
(* duplicate execution or an operator takes the activity out of its error. *)
FailureIsHandled ==
  \A a \in {b \in Activity : Handler(b) # None} :
    db.act[a] = "error" ~> (db.act[a] # "error" \/ db.act[Handler(a)] # "dormant")

(* A timed timeout join with a token does not wait for ever, in whatever   *)
(* state its workflow is.                                                  *)
TimeoutJoinFires ==
  \A a \in Activity :
    (/\ Trigger(a) = "timeout_join" /\ Template.activity[a].timed
     /\ db.act[a] = "dormant" /\ db.tok[a] # <<>>)
    ~> (db.act[a] # "dormant" \/ db.tok[a] = <<>>)
=============================================================================
