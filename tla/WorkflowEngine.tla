--------------------------- MODULE WorkflowEngine ---------------------------
(***************************************************************************)
(* services/engine_service.py: the rows of one workflow instance and what  *)
(* one transaction of the engine does to them.  Nothing here is a          *)
(* transition of the system: WorkflowSystem commits the results.           *)
(***************************************************************************)
EXTENDS WorkflowTemplate, Iteration

CONSTANTS
  Depth,      \* nesting_depth of the instance
  MaxDepth    \* settings.max_sub_workflow_depth

ASSUME DepthAssumption == Depth \in Nat /\ MaxDepth \in Nat

WorkflowState == {"absent", "dormant", "running", "halted", "failed", "finished"}
ActivityState == {"dormant", "active", "complete", "error", "cancelled"}
ItemState     == {"available", "acquired", "complete", "rejected", "suspended"}
Open          == {"available", "acquired", "suspended"}

(* queued: queue_id is set.  fresh: created_at >= workflow.updated_at.     *)
Item ==
  [performer : User \cup {None}, queued : BOOLEAN, state : ItemState, fresh : BOOLEAN]

(* A place in each list of performers.                                     *)
Places ==
  {p \in [Activity -> Nat] : \A a \in Activity : p[a] = 0 \/ p[a] < Len(Performers(a))}

(* The n-th work item of activity a is <<a, n>>.                           *)
Database ==
  [wf    : WorkflowState,                \* workflow_instances.state
   act   : [Activity -> ActivityState],  \* activity_instances.state
   tok   : [Activity -> Seq(Flow)],      \* flows of the unconsumed tokens, by target
   used  : SUBSET Flow,                  \* flows of the consumed tokens
   item  : [Activity -> Seq(Item)],      \* work_items
   var   : Valuation,                    \* process_variables
   idx   : Places,                       \* current_performer_index, 0 for NULL
   order : [Activity -> Nat],            \* completed_order, 0 for NULL
   clock : SUBSET Activity,              \* join_timeout_started_at is set
   logs  : [Activity -> Nat],            \* rows of auto_activity_logs
   child : [Activity -> Nat]]            \* running child workflows spawned by it

(* A transaction: the rows as its session sees them, whether it is still   *)
(* free of exceptions, and the locals and arguments of the engine's loop.  *)
Transaction ==
  [db       : Database,
   ok       : BOOLEAN,
   queue    : Seq(Activity),                    \* completed, flows not yet fired
   path     : Label,                            \* selected_path
   next     : User \cup {None},                 \* next_performer_id
   over     : [Activity -> User \cup {None}],   \* performer_overrides
   delegate : [User -> User \cup {None}],       \* of the users who are away
   system   : BOOLEAN]                          \* user_id is "system"

(* An exception: what the session did so far stays in it.                  *)
Raise(t) == [t EXCEPT !.ok = FALSE]

-----------------------------------------------------------------------------
(* Work items.                                                             *)

NewItem(u) == [performer |-> u, queued |-> FALSE, state |-> "available", fresh |-> TRUE]

(* One item per performer, or one for nobody in particular.                *)
Assigned(performers) ==
  IF performers = <<>> THEN <<NewItem(None)>>
  ELSE [i \in DOMAIN performers |-> NewItem(performers[i])]

(* resolve_performers: nobody for the types with a creation path of their own. *)
Resolved(a) == IF PerformedBy(a) = "listed" THEN Performers(a) ELSE <<>>

Cover(delegate, u) == IF delegate[u] = None THEN u ELSE delegate[u]

(* _apply_delegation, one level deep.                                      *)
Delegated(delegate, performers) ==
  [i \in DOMAIN performers |-> Cover(delegate, performers[i])]

First(s) == IF s = <<>> THEN <<>> ELSE <<Head(s)>>

Selected(t, a) == PerformedBy(a) = "runtime_selection" /\ t.next # None

(* The performers of an activation, before delegation.                     *)
Chosen(t, a) ==
  CASE PerformedBy(a) = "queue" -> <<>>
    [] PerformedBy(a) = "sequential" -> First(Performers(a))
    [] Selected(t, a) -> <<t.next>>
    [] OTHER -> IF t.over[a] # None THEN <<t.over[a]>> ELSE Resolved(a)

ManualItems(t, a) ==
  IF PerformedBy(a) = "queue" THEN <<[NewItem(None) EXCEPT !.queued = TRUE]>>
  ELSE Assigned(Delegated(t.delegate, Chosen(t, a)))

(* work_item.delegated is emitted with the acting user's UUID: "system"    *)
(* has none, and cannot find a stand-in for anybody.                       *)
MayDelegate(t, a) ==
  t.system => \A i \in DOMAIN Chosen(t, a) : t.delegate[Chosen(t, a)[i]] = None

(* Every item of activity a whose state is in S is given state s.          *)
SetItems(items, S, s) ==
  [i \in DOMAIN items |-> IF items[i].state \in S THEN [items[i] EXCEPT !.state = s]
                          ELSE items[i]]

(* An update of the workflow row: the items there were are older than it.  *)
Aged(items) == [i \in DOMAIN items |-> [items[i] EXCEPT !.fresh = FALSE]]

SetWorkflow(d, s) ==
  [d EXCEPT !.wf = s, !.item = [a \in Activity |-> Aged(d.item[a])]]

-----------------------------------------------------------------------------
(* Joins and activation.                                                   *)

(* Mutant: the items of a cancelled branch stay in the inboxes.            *)
CancelActivitiesOnly(d, a) ==
  LET cut == {b \in {Template.flow[f].source : f \in Incoming(a)} :
                 d.act[b] \in {"dormant", "active"}}
  IN  [d EXCEPT !.act = [b \in Activity |-> IF b \in cut THEN "cancelled" ELSE @[b]]]

CancelRemainingBranches(d, a) ==
  LET cut == {b \in {Template.flow[f].source : f \in Incoming(a)} :
                 d.act[b] \in {"dormant", "active"}}
  IN  [d EXCEPT !.act  = [b \in Activity |-> IF b \in cut THEN "cancelled" ELSE @[b]],
                !.item = [b \in Activity |-> IF b \in cut
                                             THEN SetItems(@[b], Open, "complete")
                                             ELSE @[b]]]

(* All unconsumed tokens of the join go, surplus ones too.                 *)
Consume(d, a) ==
  [d EXCEPT !.act[a] = "active", !.tok[a] = <<>>,
            !.used = @ \cup {d.tok[a][i] : i \in DOMAIN d.tok[a]}]

Join(d, a) ==
  IF Trigger(a) = "cancelling_join" THEN CancelRemainingBranches(Consume(d, a), a)
  ELSE Consume(d, a)

ActivateManual(t, a) ==
  [t EXCEPT !.db = [Join(t.db, a) EXCEPT
                      !.item[a] = @ \o ManualItems(t, a),
                      !.idx[a]  = IF PerformedBy(a) = "sequential" /\ Performers(a) # <<>>
                                  THEN 0 ELSE @],
            !.next = IF Selected(t, a) THEN None ELSE @,
            !.ok   = @ /\ MayDelegate(t, a)]

(* start_workflow needs the UUID of a user to start a child.               *)
ActivateSubWorkflow(t, a) ==
  LET joined == [t EXCEPT !.db = Join(t.db, a)]
  IN  CASE Depth + 1 > MaxDepth -> [joined EXCEPT !.db.act[a] = "error"]
        [] Depth + 1 <= MaxDepth /\ t.system -> Raise(joined)
        [] OTHER -> [joined EXCEPT !.db.child[a] = @ + 1]

Activate(t, a) ==
  CASE Type(a) \in {"start", "end"} ->
         [t EXCEPT !.db = [Join(t.db, a) EXCEPT !.act[a] = "complete"],
                   !.queue = Append(@, a)]
    [] Type(a) = "manual" -> ActivateManual(t, a)
    [] Type(a) = "sub_workflow" -> ActivateSubWorkflow(t, a)
    [] Type(a) \in {"auto", "event"} -> [t EXCEPT !.db = Join(t.db, a)]

(* Mutant: the join is checked before the token is placed.                 *)
FireFlowEarlyCheck(t, f) ==
  LET a      == Target(f)
      placed == [t EXCEPT !.db.tok[a] = Append(@, f)]
      ready  == Len(t.db.tok[a]) >= Needed(a)
  IN  CASE ready /\ t.db.act[a] = "dormant" -> Activate(placed, a)
        [] ready /\ t.db.act[a] # "dormant" -> placed
        [] ~ready /\ Trigger(a) # "timeout_join" -> placed
        [] ~ready /\ Trigger(a) = "timeout_join" ->
             [placed EXCEPT !.db.clock = @ \cup {a}]

(* Mutant: a waiting timeout join never gets its clock.                    *)
FireFlowNoClock(t, f) ==
  LET a      == Target(f)
      placed == [t EXCEPT !.db.tok[a] = Append(@, f)]
  IN  IF Len(placed.db.tok[a]) >= Needed(a) /\ t.db.act[a] = "dormant"
      THEN Activate(placed, a) ELSE placed

(* Mutant: a join needs one token too many.                                *)
FireFlowStrict(t, f) ==
  LET a      == Target(f)
      placed == [t EXCEPT !.db.tok[a] = Append(@, f)]
  IN  IF Len(placed.db.tok[a]) > Needed(a) /\ t.db.act[a] = "dormant"
      THEN Activate(placed, a) ELSE placed

(* Place a token and let it fire the join it completes.                    *)
FireFlow(t, f) ==
  LET a      == Target(f)
      placed == [t EXCEPT !.db.tok[a] = Append(@, f)]
      ready  == Len(placed.db.tok[a]) >= Needed(a)
  IN  CASE ready /\ t.db.act[a] = "dormant" -> Activate(placed, a)
        [] ready /\ t.db.act[a] # "dormant" -> placed
        [] ~ready /\ Trigger(a) # "timeout_join" -> placed
        [] ~ready /\ Trigger(a) = "timeout_join" ->
             [placed EXCEPT !.db.clock = @ \cup {a}]

-----------------------------------------------------------------------------
(* The advancement loop.                                                   *)

FiringFlows(t, a) ==
  LET out == FlowsFrom(a, "normal")
  IN  CASE Routing(a) = "broadcast" -> out
        [] Routing(a) = "performer_chosen" ->
             {f \in out : t.path # "" /\ Template.flow[f].label = t.path}
        [] Routing(a) = "conditional" -> {f \in out : t.db.var \in Template.flow[f].condition}

FireFlows(t, flows) ==
  Iterate([f \in Flow |-> [x \in Transaction |->
             IF x.ok /\ f \in flows THEN FireFlow(x, f) ELSE x]],
          t, Len(Template.flow))

(* An END whose flows do not fire ends the workflow, if it is running.     *)
Conclude(t, a) ==
  CASE Type(a) # "end" -> t
    [] Type(a) = "end" /\ t.db.wf = "running" -> [t EXCEPT !.db = SetWorkflow(@, "finished")]
    [] Type(a) = "end" /\ t.db.wf # "running" -> Raise(t)

(* selected_path is for the first activity of the loop only.               *)
ProcessHead(t) ==
  LET a     == Head(t.queue)
      flows == FiringFlows(t, a)
      rest  == [t EXCEPT !.queue = Tail(@), !.path = ""]
  IN  CASE flows # {} -> FireFlows(rest, flows)
        [] flows = {} /\ Routing(a) = "performer_chosen" -> Raise(rest)
        [] flows = {} /\ Routing(a) # "performer_chosen" -> Conclude(rest, a)

Round(t) ==
  IF t.ok /\ t.queue # <<>> /\ t.db.wf # "finished" THEN ProcessHead(t) ELSE t

MaxOrder(d) == CHOOSE m \in {d.order[a] : a \in Activity} :
                 \A a \in Activity : d.order[a] <= m

(* The maximum is read by a query of its own and written by the commit.    *)
(* As every request here is one transaction, no other one commits between: *)
(* two that overlap in the code read the same maximum, and write orders    *)
(* that are equal.                                                         *)
Completed(t, a) ==
  [t EXCEPT !.db.act[a] = "complete", !.db.order[a] = MaxOrder(t.db) + 1, !.queue = <<a>>]

(* work_item.assigned is emitted for every assigned item still available,  *)
(* with the acting user's UUID: "system" has none.                         *)
AnnounceItems(t) ==
  IF /\ t.ok /\ t.system
     /\ \E a \in Activity : \E i \in DOMAIN t.db.item[a] :
          LET it == t.db.item[a][i]
          IN  it.state = "available" /\ it.performer # None /\ it.fresh
  THEN Raise(t) ELSE t

(* At most Cardinality(Activity) rounds: every activity but the first      *)
(* enters the queue when it leaves "dormant".                              *)
AdvanceFromActivity(t, a) ==
  IF t.db.act[a] \in {"dormant", "active"}
  THEN AnnounceItems(Iterate([n \in 1..Cardinality(Activity) |->
                                [x \in Transaction |-> Round(x)]],
                             Completed(t, a), Cardinality(Activity)))
  ELSE Raise(t)

-----------------------------------------------------------------------------
(* Completing and rejecting a work item.                                   *)

(* The next in line gets the next item, and nobody stands in for them.     *)
PassOn(d, a, n) ==
  [d EXCEPT !.idx[a] = n, !.item[a] = Append(@, NewItem(Performers(a)[n + 1]))]

(* Mutant: a performer in turn keeps the item they completed.              *)
CompleteKeepingItem(t, a, i, v) ==
  LET d == [t.db EXCEPT !.item[a][i].state = "complete", !.var = v]
  IN  IF t.db.wf # "running" \/ t.db.item[a][i].state = "complete" THEN Raise(t)
      ELSE IF PerformedBy(a) = "sequential" /\ d.idx[a] + 1 < Len(Performers(a))
           THEN [t EXCEPT !.db = PassOn(t.db, a, d.idx[a] + 1)]
           ELSE AdvanceFromActivity([t EXCEPT !.db = d], a)

CompleteWorkItem(t, a, i, v) ==
  LET d == [t.db EXCEPT !.item[a][i].state = "complete", !.var = v]
  IN  IF t.db.wf # "running" \/ t.db.item[a][i].state = "complete" THEN Raise(t)
      ELSE CASE PerformedBy(a) = "sequential" /\ d.idx[a] + 1 < Len(Performers(a)) ->
                  [t EXCEPT !.db = PassOn(d, a, d.idx[a] + 1)]
             [] PerformedBy(a) = "runtime_selection" /\ t.next \notin Members(a) -> Raise(t)
             [] OTHER -> AdvanceFromActivity([t EXCEPT !.db = d], a)

(* Reject flows reactivate their targets with fresh, undelegated items.    *)
(* The rejecting activity keeps its state.                                 *)
FollowRejects(d, flows) ==
  LET redo == {Target(f) : f \in flows}
  IN  [d EXCEPT !.act  = [b \in Activity |-> IF b \in redo THEN "active" ELSE @[b]],
                !.item = [b \in Activity |-> IF b \in redo THEN @[b] \o Assigned(Resolved(b))
                                             ELSE @[b]],
                !.used = @ \cup flows]

RejectWorkItem(t, a, i) ==
  LET d     == [t.db EXCEPT !.item[a][i].state = "rejected"]
      flows == FlowsFrom(a, "reject")
      legal == /\ flows # {}
               /\ \A f, g \in flows : Target(f) = Target(g) => f = g
               /\ \A f \in flows : d.act[Target(f)] \in {"dormant", "error", "complete"}
      back  == PerformedBy(a) = "sequential"
  IN  CASE t.db.wf # "running" \/ t.db.item[a][i].state # "acquired" -> Raise(t)
        [] OTHER -> IF back /\ d.idx[a] > 0
                    THEN [t EXCEPT !.db = PassOn(d, a, d.idx[a] - 1)]
                    ELSE IF ~back /\ legal
                         THEN [t EXCEPT !.db = FollowRejects(d, flows)]
                         ELSE Raise(t)

-----------------------------------------------------------------------------
(* Error handlers and compensation.                                        *)

(* The dormant ones of S start, outside the token game.                    *)
Rouse(d, S) ==
  LET roused == {b \in S : d.act[b] = "dormant"}
  IN  [d EXCEPT !.act  = [b \in Activity |-> IF b \in roused THEN "active" ELSE @[b]],
                !.item = [b \in Activity |-> IF b \in roused /\ Type(b) = "manual"
                                             THEN @[b] \o Assigned(Resolved(b)) ELSE @[b]]]

(* Mutant: an activity in error is not looked at again.                    *)
HandleActiveOnly(d, a) ==
  IF Handler(a) # None /\ d.act[a] = "active"
  THEN Rouse([d EXCEPT !.act[a] = "error"], {Handler(a)})
  ELSE d

(* Exceptions are swallowed by _try_activate_error_handler.                *)
HandleActivityError(d, a) ==
  IF Handler(a) # None /\ d.act[a] \in {"active", "error"}
  THEN Rouse([d EXCEPT !.act[a] = "error"], {Handler(a)})
  ELSE d

Compensatable(d) == {a \in Activity : d.act[a] = "complete" /\ Compensation(a) # None}

(* completed_order only decides in which order the starts are logged.      *)
ExecuteCompensation(d) ==
  LET started == Rouse(d, {Compensation(a) : a \in Compensatable(d)})
  IN  CASE Compensatable(d) = {} -> d
        [] Compensatable(d) # {} /\ d.wf = "running" -> SetWorkflow(started, "halted")
        [] Compensatable(d) # {} /\ d.wf # "running" -> started
=============================================================================
