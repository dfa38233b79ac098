---------------------------- MODULE TemplateFamily ----------------------------
(***************************************************************************)
(* Process templates: they are drawn, validated and installed, and new     *)
(* versions of them are cloned and installed in their place, while         *)
(* workflows run on the version they started with.  Each request of        *)
(* routers/templates.py is one action.                                     *)
(***************************************************************************)
EXTENDS Integers, Sequences, FiniteSets, Iteration

CONSTANTS
  Slot,          \* the activities that templates are drawn with
  TypeOf,        \* activity_type of each, which no update changes
  Workflow,      \* bound: the workflows alive at once
  Drafts,        \* the templates drawn so far
  NewFlows,      \* bound: the flows that may be added
  Unset, Given,  \* a setting that is NULL, and one that is not
  MaxDepth,      \* settings.max_sub_workflow_depth
  MaxTemplates,  \* bound: templates
  MaxEdits       \* bound: changes to activities, flows and variables

VARIABLES
  templates,     \* process_templates with their activities, flows, variables
  workflows,     \* the template and the state of each workflow
  edits          \* changes made

vars == <<templates, workflows, edits>>

ProcessState  == {"DRAFT", "VALIDATED", "ACTIVE", "DEPRECATED"}
LiveState     == {"RUNNING", "HALTED", "DORMANT"}
WorkflowState == LiveState \cup {"FAILED"}
NoWorkflow    == [template |-> 0, state |-> "FINISHED"]

(* A condition is an expression that stands alone, or the older JSON form, *)
(* which names a process variable.                                         *)
Flow    == [source : Slot, target : Slot, condition : {"none", "json"}]

(* setting holds the one field that the activity's type requires: the      *)
(* performer, the method, the event or the template of a sub-workflow.     *)
Template ==
  [state : ProcessState, version : Nat, family : Nat, is_installed : BOOLEAN,
   is_deleted : BOOLEAN, activity : [Slot -> {"none", "live", "deleted"}],
   setting : [Slot -> {Unset, Given} \cup Nat], flows : SUBSET Flow, variable : BOOLEAN]

ASSUME TemplateAssumption ==
  /\ IsFiniteSet(Slot)
  /\ TypeOf \in [Slot -> {"START", "END", "MANUAL", "AUTO", "SUB_WORKFLOW", "EVENT"}]
  /\ Drafts \in Seq(Template)
  /\ \A t \in 1 .. Len(Drafts) :
       /\ Drafts[t].state = "DRAFT"    /\ ~ Drafts[t].is_installed
       /\ Drafts[t].version = 1        /\ Drafts[t].family = t
       /\ ~ Drafts[t].is_deleted
  /\ NewFlows \subseteq Flow
  /\ MaxDepth \in Nat /\ MaxTemplates \in Nat /\ MaxEdits \in Nat

Ids       == 1 .. Len(templates)
Present   == {t \in Ids : ~ templates[t].is_deleted}
Live(t)   == {a \in Slot : templates[t].activity[a] = "live"}
OfType(t, type) == {a \in Live(t) : TypeOf[a] = type}
Family(t) == {u \in Ids : templates[u].family = templates[t].family}
OnVersion(t, states) ==
  {w \in Workflow : workflows[w].template = t /\ workflows[w].state \in states}

-----------------------------------------------------------------------------
(* Mutant: a change to a validated template leaves it validated.           *)
KeptValidated(row) == row

ResetToDraftIfValidated(row) ==
  IF row.state = "VALIDATED" THEN [row EXCEPT !.state = "DRAFT"] ELSE row

(* _get_template_or_raise and _check_not_active                            *)
Modifiable(t) == t \in Present /\ templates[t].state # "ACTIVE"

Edit(t, row) ==
  /\ edits < MaxEdits
  /\ edits' = edits + 1
  /\ templates' = [templates EXCEPT ![t] = row]
  /\ UNCHANGED workflows

(* add_activity takes a performer and a method from the request, but not   *)
(* the template of a sub-workflow nor the event's type.                    *)
GivenAtCreation(a, value) ==
  \/ value = Unset
  \/ TypeOf[a] \in {"MANUAL", "AUTO"} /\ value = Given

AddActivity(t, a, value) ==
  /\ Modifiable(t)
  /\ templates[t].activity[a] = "none"
  /\ GivenAtCreation(a, value)
  /\ Edit(t, [ResetToDraftIfValidated(templates[t]) EXCEPT !.activity[a] = "live",
                                                           !.setting[a] = value])

(* What the field that the type requires may be set to.                    *)
Settable(a) ==
  {Unset} \cup IF TypeOf[a] = "SUB_WORKFLOW" THEN Ids ELSE {Given}

UpdateActivity(t, a, value) ==
  /\ Modifiable(t)
  /\ a \in Live(t)
  /\ value \in Settable(a)
  /\ Edit(t, [ResetToDraftIfValidated(templates[t]) EXCEPT !.setting[a] = value])

(* The flows of the activity stay.                                         *)
DeleteActivity(t, a) ==
  /\ Modifiable(t)
  /\ a \in Live(t)
  /\ Edit(t, [ResetToDraftIfValidated(templates[t]) EXCEPT !.activity[a] = "deleted"])

AddFlow(t, f) ==
  /\ Modifiable(t)
  /\ f.source # f.target
  /\ f.source \in Live(t) /\ f.target \in Live(t)
  /\ Edit(t, [ResetToDraftIfValidated(templates[t]) EXCEPT !.flows = @ \cup {f}])

UpdateFlow(t, f, condition) ==
  /\ Modifiable(t)
  /\ f \in templates[t].flows
  /\ Edit(t, [ResetToDraftIfValidated(templates[t]) EXCEPT
                !.flows = (@ \ {f}) \cup {[f EXCEPT !.condition = condition]}])

DeleteFlow(t, f) ==
  /\ Modifiable(t)
  /\ f \in templates[t].flows
  /\ Edit(t, [ResetToDraftIfValidated(templates[t]) EXCEPT !.flows = @ \ {f}])

AddVariable(t) ==
  /\ Modifiable(t)
  /\ Edit(t, [ResetToDraftIfValidated(templates[t]) EXCEPT !.variable = TRUE])

(* Another default value; nothing that validation looks at.                *)
UpdateVariable(t) ==
  /\ Modifiable(t) /\ templates[t].variable
  /\ Edit(t, ResetToDraftIfValidated(templates[t]))

DeleteVariable(t) ==
  /\ Modifiable(t) /\ templates[t].variable
  /\ Edit(t, [ResetToDraftIfValidated(templates[t]) EXCEPT !.variable = FALSE])

-----------------------------------------------------------------------------
(* Validation.                                                             *)

Adjacent(t, a) == {f.target : f \in {g \in templates[t].flows : g.source = a}}

(* The breadth-first search from the start activity: as many rounds as     *)
(* there may be activities.                                                *)
Reached(t, root) ==
  LET spread == [R \in SUBSET Slot |-> R \cup ((UNION {Adjacent(t, a) : a \in R}) \cap Live(t))]
  IN  Iterate([n \in 1 .. Cardinality(Slot) |-> spread], root, Cardinality(Slot))

WellConnected(t) ==
  /\ Cardinality(OfType(t, "START")) = 1
  /\ OfType(t, "END") # {}
  /\ Live(t) \subseteq Reached(t, OfType(t, "START"))
  /\ \A a \in Live(t) :
       /\ TypeOf[a] # "START" => \E f \in templates[t].flows : f.target = a
       /\ TypeOf[a] # "END"   => \E f \in templates[t].flows : f.source = a
  /\ \A f \in templates[t].flows : f.source # f.target

Configured(t) ==
  \A a \in Live(t) :
    TypeOf[a] \in {"MANUAL", "AUTO", "SUB_WORKFLOW", "EVENT"} => templates[t].setting[a] # Unset

ConditionsHold(t) ==
  \A f \in templates[t].flows : f.condition = "json" => templates[t].variable

(* Whatever state the template is in.                                      *)
ValidateTemplate(t) ==
  /\ t \in Present
  /\ WellConnected(t) /\ Configured(t) /\ ConditionsHold(t)
  /\ templates' = [templates EXCEPT ![t].state = "VALIDATED"]
  /\ UNCHANGED <<workflows, edits>>

-----------------------------------------------------------------------------
(* Installation.                                                           *)

(* A foreign key: what is set is a template.                               *)
SubTemplates(t) ==
  ({templates[t].setting[a] : a \in OfType(t, "SUB_WORKFLOW")} \ {Unset}) \cap Ids

(* Mutant: looks at the template's own sub-workflows only.                 *)
OneLevelDeep(root) == root \notin SubTemplates(root)

(* A depth-first search by template id, deleted templates included.        *)
CheckSubWorkflowDepth(root) ==
  LET Call(depth, t, visited) == [depth |-> depth, template |-> t, visited |-> visited]
      ok[c \in [depth : Nat, template : Ids, visited : SUBSET Ids]] ==
        /\ c.depth <= MaxDepth
        /\ c.template \notin c.visited
        /\ \A s \in SubTemplates(c.template) :
             ok[Call(c.depth + 1, s, c.visited \cup {c.template})]
  IN ok[Call(0, root, {})]

(* Mutant: only running workflows count.                                   *)
RunningOnly(row, t) ==
  [row EXCEPT !.state = "DEPRECATED", !.is_installed = OnVersion(t, {"RUNNING"}) # {}]

(* Mutant: a version in use is left as it is.                              *)
OnlyIfIdle(row, t) ==
  IF OnVersion(t, LiveState) # {} THEN row
  ELSE [row EXCEPT !.state = "DEPRECATED", !.is_installed = FALSE]

(* A version that workflows still run on stays installed.                  *)
Superseded(row, t) ==
  [row EXCEPT !.state = "DEPRECATED",
              !.is_installed = OnVersion(t, LiveState) # {}]

(* Mutant: the query does not exclude the template itself.                 *)
AllInstalled(t) == {u \in Family(t) \cap Present : templates[u].is_installed}

OldVersions(t) == {u \in Family(t) \cap Present : templates[u].is_installed /\ u # t}

InstallTemplate(t) ==
  /\ t \in Present
  /\ templates[t].state = "VALIDATED"
  /\ CheckSubWorkflowDepth(t)
  /\ templates' = [u \in Ids |->
       IF u \in OldVersions(t) THEN Superseded(templates[u], u)
       ELSE IF u = t THEN [templates[u] EXCEPT !.state = "ACTIVE", !.is_installed = TRUE]
       ELSE templates[u]]
  /\ UNCHANGED <<workflows, edits>>

-----------------------------------------------------------------------------
(* Templates and their versions.                                           *)

NewTemplate(t) ==
  [state |-> "DRAFT", version |-> 1, family |-> t, is_installed |-> FALSE,
   is_deleted |-> FALSE, activity |-> [a \in Slot |-> "none"],
   setting |-> [a \in Slot |-> Unset], flows |-> {}, variable |-> FALSE]

CreateTemplate ==
  /\ Len(templates) < MaxTemplates
  /\ templates' = Append(templates, NewTemplate(Len(templates) + 1))
  /\ UNCHANGED <<workflows, edits>>

(* The clone has the live activities and the flows between them; it loses  *)
(* the template of a sub-workflow and the event's type.                    *)
Clone(t) ==
  [state |-> "DRAFT", version |-> templates[t].version + 1, family |-> templates[t].family,
   is_installed |-> FALSE, is_deleted |-> FALSE,
   activity |-> [a \in Slot |-> IF a \in Live(t) THEN "live" ELSE "none"],
   setting  |-> [a \in Slot |->
     IF a \in Live(t) /\ TypeOf[a] \in {"MANUAL", "AUTO"} THEN templates[t].setting[a] ELSE Unset],
   flows    |-> {f \in templates[t].flows : f.source \in Live(t) /\ f.target \in Live(t)},
   variable |-> templates[t].variable]

CreateNewVersion(t) ==
  /\ t \in Present
  /\ Len(templates) < MaxTemplates
  /\ templates' = Append(templates, Clone(t))
  /\ UNCHANGED <<workflows, edits>>

(* The name and the description: an active template gets a new version     *)
(* that carries them.                                                      *)
UpdateTemplate(t) ==
  \/ /\ t \in Present /\ templates[t].state = "ACTIVE"
     /\ CreateNewVersion(t)
  \/ /\ Modifiable(t)
     /\ templates' = [templates EXCEPT ![t] = ResetToDraftIfValidated(templates[t])]
     /\ UNCHANGED <<workflows, edits>>

DeleteTemplate(t) ==
  /\ t \in Present
  /\ templates' = [templates EXCEPT ![t].is_deleted = TRUE]
  /\ UNCHANGED <<workflows, edits>>

-----------------------------------------------------------------------------
(* Workflows.                                                              *)

(* The template itself if it is installed, or an installed version of its  *)
(* family with the highest number.                                         *)
ResolvesTo(t, v) ==
  \/ templates[t].is_installed /\ v = t
  \/ /\ ~ templates[t].is_installed
     /\ v \in OldVersions(t)
     /\ \A u \in OldVersions(t) : templates[u].version <= templates[v].version

Runs(t, v) == t \in Present /\ ResolvesTo(t, v)

StartWorkflow(w, t, v) ==
  /\ workflows[w] = NoWorkflow
  /\ Runs(t, v)
  /\ OfType(v, "START") # {}
  /\ workflows' = [workflows EXCEPT ![w] = [template |-> v, state |-> "RUNNING"]]
  /\ UNCHANGED <<templates, edits>>

(* WORKFLOW_TRANSITIONS; a finished workflow is of no more interest.       *)
Transition(from) ==
  CASE from = "RUNNING" -> {"HALTED", "FAILED", "FINISHED"}
    [] from = "HALTED"  -> {"RUNNING", "FAILED"}
    [] from = "FAILED"  -> {"DORMANT"}
    [] from = "DORMANT" -> {"RUNNING"}

ChangeWorkflow(w, to) ==
  /\ workflows[w] # NoWorkflow
  /\ to \in Transition(workflows[w].state)
  /\ workflows' = [workflows EXCEPT ![w] =
       IF to = "FINISHED" THEN NoWorkflow ELSE [@ EXCEPT !.state = to]]
  /\ UNCHANGED <<templates, edits>>

-----------------------------------------------------------------------------
(* The endpoints.                                                          *)

TemplateRequest(t) == UpdateTemplate(t) \/ DeleteTemplate(t)

ActivityRequest(t) ==
  \E a \in Slot :
    \/ \E value \in {Unset, Given} : AddActivity(t, a, value)
    \/ \E value \in Settable(a) : UpdateActivity(t, a, value)
    \/ DeleteActivity(t, a)

FlowRequest(t) ==
  \/ \E f \in NewFlows : AddFlow(t, f)
  \/ \E f \in templates[t].flows :
       DeleteFlow(t, f) \/ \E c \in {"none", "json"} : UpdateFlow(t, f, c)

VariableRequest(t) == AddVariable(t) \/ UpdateVariable(t) \/ DeleteVariable(t)

VersionRequest(t) == ValidateTemplate(t) \/ InstallTemplate(t) \/ CreateNewVersion(t)

Init ==
  /\ templates = Drafts
  /\ workflows = [w \in Workflow |-> NoWorkflow]
  /\ edits = 0

Next ==
  \/ CreateTemplate
  \/ \E t \in Ids : \/ TemplateRequest(t) \/ ActivityRequest(t) \/ FlowRequest(t)
                    \/ VariableRequest(t) \/ VersionRequest(t)
  \/ \E w \in Workflow :
       \/ \E t, v \in Ids : StartWorkflow(w, t, v)
       \/ \E to \in WorkflowState \cup {"FINISHED"} : ChangeWorkflow(w, to)

Spec == Init /\ [][Next]_vars

-----------------------------------------------------------------------------
TypeOK ==
  /\ templates \in Seq(Template)
  /\ workflows \in [Workflow -> [template : Nat, state : WorkflowState \cup {"FINISHED"}]]
  /\ edits \in Nat

(* However versions are cloned, validated again, installed and deprecated, *)
(* one version of a family is active at a time (template_service.py        *)
(* 933-962).                                                               *)
OneActive ==
  \A t, u \in Present :
    /\ templates[t].state = "ACTIVE" /\ templates[u].state = "ACTIVE"
    /\ templates[t].family = templates[u].family
    => t = u

(* A deprecated version was replaced: a version of the family is installed *)
(* and not deprecated, so no installation leaves a family without one,     *)
(* though it may be deleted later (template_service.py 934-961).           *)
DeprecatedHasSuccessor ==
  \A t \in Ids : templates[t].state = "DEPRECATED" =>
    \E u \in Family(t) : templates[u].is_installed /\ templates[u].state # "DEPRECATED"

(* A version stops being installed only when no workflow of it is running, *)
(* halted or dormant (template_service.py 957-962).                        *)
InstalledWhileInUse ==
  [][\A t \in Ids :
       /\ templates[t].is_installed
       /\ OnVersion(t, LiveState) # {}
       => templates'[t].is_installed]_vars

(* Nothing separates the live activities of an active template: every one  *)
(* lies behind its only start activity and has what its type requires,     *)
(* whatever edits came between validation and installation                 *)
(* (template_service.py 55-60, 721-746).                                   *)
ActiveIsSound ==
  \A t \in Ids : templates[t].state = "ACTIVE" =>
    /\ Cardinality(OfType(t, "START")) = 1
    /\ Configured(t) /\ ConditionsHold(t)
    /\ \A S \in SUBSET Live(t) :
         \/ S = Live(t)
         \/ OfType(t, "START") \cap S = {}
         \/ \E a \in S : Adjacent(t, a) \cap (Live(t) \ S) # {}

(* The search before an installation follows calls by template id, but a   *)
(* call of a version that is not installed runs an installed version of    *)
(* its family in its stead.  Whatever was edited, cloned and installed,    *)
(* active versions run each other in a circle only through such a call: no *)
(* circle is made of calls that run the version they name                  *)
(* (template_service.py 638-671, engine_service.py 295-314).               *)
CirclesGoThroughOldVersions ==
  \A S \in SUBSET {t \in Ids : templates[t].state = "ACTIVE"} :
    /\ S # {}
    /\ \A t \in S : \E s \in SubTemplates(t), v \in S : Runs(s, v)
    => \E t \in S : \E s \in SubTemplates(t), v \in S : Runs(s, v) /\ s # v
================================================================================
