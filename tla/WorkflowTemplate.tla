-------------------------- MODULE WorkflowTemplate --------------------------
(***************************************************************************)
(* An installed process template: the rows of process_templates,           *)
(* activity_templates and flow_templates that a workflow instance reads    *)
(* and never changes.                                                      *)
(***************************************************************************)
EXTENDS Naturals, Sequences, FiniteSets

CONSTANTS
  Activity,    \* the activity templates
  User,        \* the users who may perform, claim or stand in for others
  Valuation,   \* the values of the routing variable that conditions read
  None,        \* NULL in a column of users or activities
  Template     \* [activity |-> the activity rows, flow |-> the flow rows]

ActivityType  == {"start", "end", "manual", "auto", "sub_workflow", "event"}
TriggerType   == {"and_join", "or_join", "n_of_m_join", "cancelling_join", "timeout_join"}
RoutingType   == {"conditional", "performer_chosen", "broadcast"}

(* How a manual activity finds its performers.  "listed" stands for user,  *)
(* supervisor, group and alias: a list the instance fixes when it starts.  *)
PerformerType == {"listed", "queue", "sequential", "runtime_selection"}

(* A label is the path a performer may choose; "" is the absent label.     *)
ActivityRow ==
  [type : ActivityType, trigger : TriggerType, threshold : Nat, timed : BOOLEAN,
   routing : RoutingType, performer : PerformerType, performers : Seq(User),
   handler : Activity \cup {None}, compensation : Activity \cup {None},
   event : STRING]

(* condition holds the valuations under which condition_expression is      *)
(* true: all of them when there is no condition, and none of those whose   *)
(* evaluation fails.                                                       *)
FlowRow ==
  [source : Activity, target : Activity, kind : {"normal", "reject"},
   label : STRING, condition : SUBSET Valuation]

ASSUME TemplateAssumption ==
  /\ IsFiniteSet(Activity)
  /\ None \notin Activity \cup User
  /\ Template \in [activity : [Activity -> ActivityRow], flow : Seq(FlowRow)]

(* What template_service.validate_template lets through, as far as the     *)
(* engine relies on it.                                                    *)
ASSUME ValidTemplateAssumption ==
  /\ \E s \in Activity : \A a \in Activity :
       Template.activity[a].type = "start" <=> a = s
  /\ \A f \in DOMAIN Template.flow :
       Template.flow[f].source # Template.flow[f].target

-----------------------------------------------------------------------------
(* Columns of the rows, by name.                                           *)

Type(a)         == Template.activity[a].type
Trigger(a)      == Template.activity[a].trigger
Performers(a)   == Template.activity[a].performers
Routing(a)      == Template.activity[a].routing
PerformedBy(a)  == Template.activity[a].performer
Handler(a)      == Template.activity[a].handler
Compensation(a) == Template.activity[a].compensation

(* Flows are numbered in row order, the order the engine visits them in.   *)
Flow == DOMAIN Template.flow

Target(f) == Template.flow[f].target

(* The paths a performer may ask for.                                      *)
Label == {Template.flow[f].label : f \in Flow} \cup {""}

FlowsFrom(a, kind) ==
  {f \in Flow : Template.flow[f].source = a /\ Template.flow[f].kind = kind}

Incoming(a) == {f \in Flow : Target(f) = a /\ Template.flow[f].kind = "normal"}

StartActivity == CHOOSE a \in Activity : Type(a) = "start"

Members(a) == {Performers(a)[i] : i \in DOMAIN Performers(a)}

-----------------------------------------------------------------------------
(* Joins.                                                                  *)

(* Mutant: an AND-join that fires on its first token.                      *)
NeededOne(a) == 1

(* The number of unconsumed tokens at which an activity fires.             *)
Needed(a) ==
  LET threshold == Template.activity[a].threshold
  IN  CASE Trigger(a) \in {"and_join", "timeout_join"} -> Cardinality(Incoming(a))
        [] Trigger(a) = "n_of_m_join" ->
             IF threshold = 0 THEN Cardinality(Incoming(a)) ELSE threshold
        [] Trigger(a) = "cancelling_join" -> IF threshold = 0 THEN 1 ELSE threshold
        [] Trigger(a) = "or_join" -> 1
=============================================================================
