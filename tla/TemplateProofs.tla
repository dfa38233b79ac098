---------------------------- MODULE TemplateProofs ----------------------------
(***************************************************************************)
(* Versions of a template, for any drafts, activities, workflows and       *)
(* bounds.  Every request but an installation keeps what the theorems on   *)
(* versions are about (Quiet); the installation is then looked at on its   *)
(* own.  The theorem on what a template draws looks at validation instead, *)
(* and the theorem on circles at the search that an installation makes.    *)
(***************************************************************************)
EXTENDS TemplateFamily, IterationProofs, TLAPS

Rows == templates \in Seq(Template)

(* What requests other than an installation do to a row ...                *)
Kept(old, new) ==
  /\ new \in Template
  /\ new.family = old.family
  /\ new.is_installed = old.is_installed
  /\ old.is_deleted => new.is_deleted
  /\ new.state \in {old.state, "DRAFT", "VALIDATED"}

(* ... and what a new row is.                                              *)
Fresh(row) == row \in Template /\ row.state = "DRAFT" /\ ~ row.is_installed

Quiet ==
  /\ Rows'
  /\ Len(templates) <= Len(templates')
  /\ \A t \in Ids : Kept(templates[t], templates'[t])
  /\ \A t \in Ids' \ Ids : Fresh(templates'[t])

-----------------------------------------------------------------------------
LEMMA ReplacedRow ==
  ASSUME Rows, NEW t \in Ids, NEW row, Kept(templates[t], row),
         templates' = [templates EXCEPT ![t] = row]
  PROVE  Quiet
<1>1. row \in Template
  BY DEF Kept
<1>2. templates' \in Seq(Template) /\ Len(templates') = Len(templates)
  BY <1>1 DEF Rows, Ids
<1>3. \A u \in Ids : templates[u] \in Template /\ Kept(templates[u], templates[u])
  BY DEF Rows, Ids, Kept
<1>4. \A u \in Ids : templates'[u] = IF u = t THEN row ELSE templates[u]
  BY DEF Rows, Ids
<1> QED
  BY <1>2, <1>3, <1>4 DEF Quiet, Rows, Ids

LEMMA AddedRow ==
  ASSUME Rows, NEW row, Fresh(row), templates' = Append(templates, row)
  PROVE  Quiet
<1>1. row \in Template
  BY DEF Fresh
<1>2. templates' \in Seq(Template) /\ Len(templates') = Len(templates) + 1
  BY <1>1 DEF Rows
<1>3. \A u \in Ids : templates[u] \in Template /\ templates'[u] = templates[u]
  BY <1>1 DEF Rows, Ids
<1>4. templates'[Len(templates) + 1] = row
  BY <1>1 DEF Rows
<1>5. \A u \in Ids' \ Ids : u = Len(templates) + 1
  BY <1>2 DEF Rows, Ids
<1> QED
  BY <1>2, <1>3, <1>4, <1>5 DEF Quiet, Rows, Ids, Kept

LEMMA ResetKeeps ==
  ASSUME NEW row \in Template
  PROVE  /\ ResetToDraftIfValidated(row) \in Template
         /\ Kept(row, ResetToDraftIfValidated(row))
         /\ ResetToDraftIfValidated(row).activity = row.activity
         /\ ResetToDraftIfValidated(row).setting = row.setting
         /\ ResetToDraftIfValidated(row).flows = row.flows
BY DEF Template, ProcessState, Kept, ResetToDraftIfValidated

LEMMA ActivityQuiet ==
  ASSUME Rows, NEW t \in Ids, ActivityRequest(t)
  PROVE  Quiet
<1> DEFINE row == ResetToDraftIfValidated(templates[t])
<1>1. templates[t] \in Template
  BY DEF Rows, Ids
<1>2. /\ row \in Template /\ Kept(templates[t], row)
      /\ row.activity \in [Slot -> {"none", "live", "deleted"}]
      /\ row.setting \in [Slot -> {Unset, Given} \cup Nat]
  BY <1>1, ResetKeeps DEF Template
<1>3. PICK a \in Slot :
        \/ \E value \in {Unset, Given} : AddActivity(t, a, value)
        \/ \E value \in Settable(a) : UpdateActivity(t, a, value)
        \/ DeleteActivity(t, a)
  BY DEF ActivityRequest
<1>4. Settable(a) \subseteq {Unset, Given} \cup Nat
  BY DEF Settable, Ids
<1>5. ASSUME NEW value \in {Unset, Given}, AddActivity(t, a, value)
      PROVE  Quiet
  <2>1. Kept(templates[t], [row EXCEPT !.activity[a] = "live", !.setting[a] = value])
    BY <1>2 DEF Kept, Template, ProcessState
  <2> QED
    BY <1>5, <2>1, ReplacedRow DEF AddActivity, Edit
<1>6. ASSUME NEW value \in Settable(a), UpdateActivity(t, a, value)
      PROVE  Quiet
  <2>1. Kept(templates[t], [row EXCEPT !.setting[a] = value])
    BY <1>2, <1>4 DEF Kept, Template, ProcessState
  <2> QED
    BY <1>6, <2>1, ReplacedRow DEF UpdateActivity, Edit
<1>7. CASE DeleteActivity(t, a)
  <2>1. Kept(templates[t], [row EXCEPT !.activity[a] = "deleted"])
    BY <1>2 DEF Kept, Template, ProcessState
  <2> QED
    BY <1>7, <2>1, ReplacedRow DEF DeleteActivity, Edit
<1> QED
  BY <1>3, <1>5, <1>6, <1>7

LEMMA FlowQuiet ==
  ASSUME Rows, NEW t \in Ids, FlowRequest(t)
  PROVE  Quiet
<1> USE TemplateAssumption DEF TemplateAssumption
<1> DEFINE row == ResetToDraftIfValidated(templates[t])
<1>1. templates[t] \in Template
  BY DEF Rows, Ids
<1>2. /\ row \in Template /\ Kept(templates[t], row)
      /\ row.flows = templates[t].flows /\ row.flows \subseteq Flow
  BY <1>1, ResetKeeps DEF Template
<1>3. ASSUME NEW flows \in SUBSET Flow
      PROVE  Kept(templates[t], [row EXCEPT !.flows = flows])
  BY <1>2 DEF Kept, Template, ProcessState
<1>4. ASSUME NEW f \in NewFlows, AddFlow(t, f)
      PROVE  Quiet
  <2>1. Kept(templates[t], [row EXCEPT !.flows = @ \cup {f}])
    BY <1>2, <1>3
  <2> QED
    BY <1>4, <2>1, ReplacedRow DEF AddFlow, Edit
<1>5. ASSUME NEW f \in templates[t].flows, DeleteFlow(t, f)
      PROVE  Quiet
  <2>1. Kept(templates[t], [row EXCEPT !.flows = @ \ {f}])
    BY <1>2, <1>3
  <2> QED
    BY <1>5, <2>1, ReplacedRow DEF DeleteFlow, Edit
<1>6. ASSUME NEW f \in templates[t].flows, NEW c \in {"none", "json"}, UpdateFlow(t, f, c)
      PROVE  Quiet
  <2>1. [f EXCEPT !.condition = c] \in Flow
    BY <1>2 DEF Flow
  <2>2. Kept(templates[t], [row EXCEPT !.flows = (@ \ {f}) \cup {[f EXCEPT !.condition = c]}])
    BY <1>2, <1>3, <2>1
  <2> QED
    BY <1>6, <2>2, ReplacedRow DEF UpdateFlow, Edit
<1> QED
  BY <1>4, <1>5, <1>6 DEF FlowRequest

LEMMA VariableQuiet ==
  ASSUME Rows, NEW t \in Ids, VariableRequest(t)
  PROVE  Quiet
<1> DEFINE row == ResetToDraftIfValidated(templates[t])
<1>1. templates[t] \in Template
  BY DEF Rows, Ids
<1>2. row \in Template /\ Kept(templates[t], row)
  BY <1>1, ResetKeeps
<1>3. ASSUME NEW v \in BOOLEAN
      PROVE  Kept(templates[t], [row EXCEPT !.variable = v])
  BY <1>2 DEF Kept, Template, ProcessState
<1>4. CASE AddVariable(t)
  BY <1>3, <1>4, ReplacedRow DEF AddVariable, Edit
<1>5. CASE UpdateVariable(t)
  BY <1>2, <1>5, ReplacedRow DEF UpdateVariable, Edit
<1>6. CASE DeleteVariable(t)
  BY <1>3, <1>6, ReplacedRow DEF DeleteVariable, Edit
<1> QED
  BY <1>4, <1>5, <1>6 DEF VariableRequest

LEMMA NewVersionQuiet ==
  ASSUME Rows, NEW t \in Ids, CreateNewVersion(t)
  PROVE  Quiet
<1>1. templates[t] \in Template
  BY DEF Rows, Ids
<1>2. /\ [a \in Slot |-> IF a \in Live(t) THEN "live" ELSE "none"]
           \in [Slot -> {"none", "live", "deleted"}]
      /\ [a \in Slot |-> IF a \in Live(t) /\ TypeOf[a] \in {"MANUAL", "AUTO"}
                         THEN templates[t].setting[a] ELSE Unset]
           \in [Slot -> {Unset, Given} \cup Nat]
      /\ {f \in templates[t].flows : f.source \in Live(t) /\ f.target \in Live(t)}
           \in SUBSET Flow
  BY <1>1 DEF Template
<1>3. Fresh(Clone(t))
  BY <1>1, <1>2 DEF Fresh, Clone, Template, ProcessState
<1> QED
  BY <1>3, AddedRow DEF CreateNewVersion

LEMMA TemplateQuiet ==
  ASSUME Rows, NEW t \in Ids, TemplateRequest(t)
  PROVE  Quiet
<1>1. templates[t] \in Template
  BY DEF Rows, Ids
<1>2. CASE UpdateTemplate(t)
  BY <1>1, <1>2, ResetKeeps, ReplacedRow, NewVersionQuiet DEF UpdateTemplate
<1>3. CASE DeleteTemplate(t)
  <2>1. Kept(templates[t], [templates[t] EXCEPT !.is_deleted = TRUE])
    BY <1>1 DEF Kept, Template
  <2> QED
    BY <1>3, <2>1, ReplacedRow DEF DeleteTemplate
<1> QED
  BY <1>2, <1>3 DEF TemplateRequest

LEMMA ValidationQuiet ==
  ASSUME Rows, NEW t \in Ids, ValidateTemplate(t)
  PROVE  Quiet
<1>1. templates[t] \in Template
  BY DEF Rows, Ids
<1>2. Kept(templates[t], [templates[t] EXCEPT !.state = "VALIDATED"])
  BY <1>1 DEF Kept, Template, ProcessState
<1> QED
  BY <1>2, ReplacedRow DEF ValidateTemplate

LEMMA CreationQuiet ==
  ASSUME Rows, CreateTemplate
  PROVE  Quiet
<1>1. Len(templates) + 1 \in Nat
  BY DEF Rows
<1>2. Fresh(NewTemplate(Len(templates) + 1))
  BY <1>1 DEF Fresh, NewTemplate, Template, ProcessState
<1> QED
  BY <1>2, AddedRow DEF CreateTemplate

LEMMA UnchangedQuiet ==
  ASSUME Rows, UNCHANGED templates
  PROVE  Quiet
<1>1. \A t \in Ids : Kept(templates[t], templates[t])
  BY DEF Rows, Ids, Kept
<1> QED
  BY <1>1 DEF Quiet, Rows, Ids

(* Every step is an installation or quiet.                                 *)
LEMMA QuietSteps ==
  ASSUME Rows, [Next]_vars
  PROVE  Quiet \/ \E t \in Ids : InstallTemplate(t)
<1>1. CASE CreateTemplate
  BY <1>1, CreationQuiet
<1>2. ASSUME NEW t \in Ids,
             \/ TemplateRequest(t) \/ ActivityRequest(t) \/ FlowRequest(t)
             \/ VariableRequest(t) \/ VersionRequest(t)
      PROVE  Quiet \/ InstallTemplate(t)
  BY <1>2, TemplateQuiet, ActivityQuiet, FlowQuiet, VariableQuiet, ValidationQuiet,
     NewVersionQuiet DEF VersionRequest
<1>3. CASE \E w \in Workflow :
             \/ \E t, v \in Ids : StartWorkflow(w, t, v)
             \/ \E to \in WorkflowState \cup {"FINISHED"} : ChangeWorkflow(w, to)
  BY <1>3, UnchangedQuiet DEF StartWorkflow, ChangeWorkflow
<1>4. CASE UNCHANGED vars
  BY <1>4, UnchangedQuiet DEF vars
<1> QED
  BY <1>1, <1>2, <1>3, <1>4 DEF Next

-----------------------------------------------------------------------------
(* The installation.                                                       *)

LEMMA SequenceOf ==
  ASSUME NEW S, NEW n \in Nat, NEW f \in [1 .. n -> S]
  PROVE  f \in Seq(S) /\ Len(f) = n
OBVIOUS

LEMMA InstallationRows ==
  ASSUME Rows, NEW t \in Ids, InstallTemplate(t)
  PROVE  /\ Rows' /\ Len(templates') = Len(templates)
         /\ t \in Present /\ t \notin OldVersions(t)
         /\ templates'[t].state = "ACTIVE" /\ templates'[t].is_installed
         /\ \A u \in Ids : /\ templates'[u].family = templates[u].family
                           /\ templates'[u].is_deleted = templates[u].is_deleted
         /\ \A u \in OldVersions(t) :
              /\ templates'[u].state = "DEPRECATED"
              /\ templates'[u].is_installed = (OnVersion(u, LiveState) # {})
         /\ \A u \in Ids \ (OldVersions(t) \cup {t}) : templates'[u] = templates[u]
<1> DEFINE after(u) == IF u \in OldVersions(t) THEN Superseded(templates[u], u)
                       ELSE IF u = t THEN [templates[u] EXCEPT !.state = "ACTIVE",
                                                              !.is_installed = TRUE]
                       ELSE templates[u]
<1>1. t \in Present /\ t \notin OldVersions(t) /\ OldVersions(t) \subseteq Ids
  BY DEF InstallTemplate, OldVersions, Present
<1>2. templates' = [u \in 1 .. Len(templates) |-> after(u)]
  BY DEF InstallTemplate, Ids
<1>3. \A u \in Ids : templates[u] \in Template
  BY DEF Rows, Ids
<1>4. \A u \in Ids : after(u) \in Template
  BY <1>3 DEF Superseded, Template, ProcessState
<1>5. Len(templates) \in Nat
  BY DEF Rows
<1>6. \A u \in OldVersions(t) :
           /\ after(u).state = "DEPRECATED"
           /\ after(u).is_installed = (OnVersion(u, LiveState) # {})
           /\ after(u).family = templates[u].family
           /\ after(u).is_deleted = templates[u].is_deleted
  BY <1>1, <1>3 DEF Superseded, Template
<1>7. /\ after(t).state = "ACTIVE" /\ after(t).is_installed
      /\ after(t).family = templates[t].family
      /\ after(t).is_deleted = templates[t].is_deleted
  BY <1>1, <1>3 DEF Template
<1>8. \A u \in Ids \ (OldVersions(t) \cup {t}) : after(u) = templates[u]
  OBVIOUS
<1> HIDE DEF after
<1>9. \A u \in Ids : templates'[u] = after(u)
  BY <1>2 DEF Ids
<1>10. templates' \in [1 .. Len(templates) -> Template]
  BY <1>2, <1>4 DEF Ids
<1>11. Rows' /\ Len(templates') = Len(templates)
  BY <1>5, <1>10, SequenceOf DEF Rows
<1>12. \A u \in Ids : /\ templates'[u].family = templates[u].family
                      /\ templates'[u].is_deleted = templates[u].is_deleted
  <2> SUFFICES ASSUME NEW u \in Ids
               PROVE  /\ after(u).family = templates[u].family
                      /\ after(u).is_deleted = templates[u].is_deleted
    BY <1>9
  <2> QED
    BY <1>6, <1>7, <1>8
<1>13. \A u \in OldVersions(t) : templates'[u] = after(u)
  BY <1>1, <1>9
<1>14. templates'[t] = after(t)
  BY <1>9
<1>15. \A u \in Ids \ (OldVersions(t) \cup {t}) : templates'[u] = templates[u]
  BY <1>8, <1>9
<1> QED
  BY <1>1, <1>6, <1>7, <1>11, <1>12, <1>13, <1>14, <1>15

-----------------------------------------------------------------------------
(* An active version is installed, which is how an installation finds it.  *)
ActiveIsInstalled ==
  \A t \in Ids : templates[t].state = "ACTIVE" => templates[t].is_installed

VersionInv == Rows /\ ActiveIsInstalled /\ OneActive /\ DeprecatedHasSuccessor

LEMMA VersionInit == Init => VersionInv
<1> SUFFICES ASSUME Init PROVE VersionInv
  OBVIOUS
<1> USE TemplateAssumption DEF TemplateAssumption, Init
<1>1. Rows
  BY DEF Rows
<1>2. \A t \in Ids : templates[t].state = "DRAFT"
  BY DEF Ids
<1> QED
  BY <1>1, <1>2 DEF VersionInv, ActiveIsInstalled, OneActive, DeprecatedHasSuccessor, Present

LEMMA VersionQuiet ==
  ASSUME VersionInv, Quiet
  PROVE  VersionInv'
<1> USE DEF VersionInv
<1>1. Rows' /\ Ids \subseteq Ids'
  BY DEF Quiet, Ids, Rows
<1>2. ASSUME NEW t \in Ids', templates'[t].state \in {"ACTIVE", "DEPRECATED"}
      PROVE  t \in Ids /\ templates[t].state = templates'[t].state
  BY <1>2 DEF Quiet, Kept, Fresh
<1>3. ActiveIsInstalled'
  BY <1>2 DEF ActiveIsInstalled, Quiet, Kept
<1>4. OneActive'
  <2> SUFFICES ASSUME NEW t \in Present', NEW u \in Present',
                      templates'[t].state = "ACTIVE", templates'[u].state = "ACTIVE",
                      templates'[t].family = templates'[u].family
               PROVE  t = u
    BY DEF OneActive
  <2>1. /\ t \in Ids /\ templates[t].state = "ACTIVE"
        /\ u \in Ids /\ templates[u].state = "ACTIVE"
    BY <1>2 DEF Present
  <2>2. /\ t \in Present /\ u \in Present
        /\ templates[t].family = templates[u].family
    BY <2>1 DEF Quiet, Kept, Present
  <2> QED
    BY <2>1, <2>2 DEF OneActive
<1>5. DeprecatedHasSuccessor'
  <2> SUFFICES ASSUME NEW t \in Ids', templates'[t].state = "DEPRECATED"
               PROVE  \E u \in Family(t)' :
                        templates'[u].is_installed /\ templates'[u].state # "DEPRECATED"
    BY DEF DeprecatedHasSuccessor
  <2>1. t \in Ids /\ templates[t].state = "DEPRECATED"
    BY <1>2
  <2>2. PICK u \in Family(t) : templates[u].is_installed /\ templates[u].state # "DEPRECATED"
    BY <2>1 DEF DeprecatedHasSuccessor
  <2>3. u \in Ids /\ templates[u].family = templates[t].family
    BY <2>2 DEF Family
  <2>4. /\ templates'[u].is_installed /\ templates'[u].state # "DEPRECATED"
        /\ templates'[u].family = templates'[t].family
    BY <2>1, <2>2, <2>3 DEF Quiet, Kept
  <2> QED
    BY <1>1, <2>3, <2>4 DEF Family
<1> QED
  BY <1>1, <1>3, <1>4, <1>5

LEMMA VersionInstalled ==
  ASSUME VersionInv, NEW t \in Ids, InstallTemplate(t)
  PROVE  VersionInv'
<1> USE DEF VersionInv
<1>1. /\ Rows' /\ Ids' = Ids
      /\ t \in Present /\ t \notin OldVersions(t)
      /\ templates'[t].state = "ACTIVE" /\ templates'[t].is_installed
  BY InstallationRows DEF Ids
<1>2. \A u \in Ids : /\ templates'[u].family = templates[u].family
                     /\ templates'[u].is_deleted = templates[u].is_deleted
  BY InstallationRows
<1>3. \A u \in OldVersions(t) : templates'[u].state = "DEPRECATED"
  BY InstallationRows
<1>4. \A u \in Ids \ (OldVersions(t) \cup {t}) : templates'[u] = templates[u]
  BY InstallationRows
<1>5. ActiveIsInstalled'
  BY <1>1, <1>3, <1>4 DEF ActiveIsInstalled
<1>6. ASSUME NEW u \in Present, u # t, templates[u].family = templates[t].family
      PROVE  templates'[u].state # "ACTIVE"
  <2>1. CASE u \in OldVersions(t)
    BY <2>1, <1>3
  <2>2. CASE u \notin OldVersions(t)
    <3>1. u \in Ids /\ ~ templates[u].is_installed
      BY <1>6, <2>2 DEF OldVersions, Family, Present
    <3> QED
      BY <1>4, <1>6, <2>2, <3>1 DEF ActiveIsInstalled
  <2> QED
    BY <2>1, <2>2
<1>7. OneActive'
  <2> SUFFICES ASSUME NEW x \in Present', NEW y \in Present', x # y,
                      templates'[x].state = "ACTIVE", templates'[y].state = "ACTIVE",
                      templates'[x].family = templates'[y].family
               PROVE  FALSE
    BY DEF OneActive
  <2>1. /\ x \in Present /\ y \in Present
        /\ templates[x].family = templates[y].family
    BY <1>1, <1>2 DEF Present
  <2>2. x # t /\ y # t
    BY <1>6, <2>1
  <2>3. x \notin OldVersions(t) /\ y \notin OldVersions(t)
    BY <1>3
  <2>4. templates[x].state = "ACTIVE" /\ templates[y].state = "ACTIVE"
    BY <1>4, <2>1, <2>2, <2>3 DEF Present
  <2> QED
    BY <2>1, <2>4 DEF OneActive
<1>8. DeprecatedHasSuccessor'
  <2> SUFFICES ASSUME NEW u \in Ids, templates'[u].state = "DEPRECATED"
               PROVE  \E v \in Family(u)' :
                        templates'[v].is_installed /\ templates'[v].state # "DEPRECATED"
    BY <1>1 DEF DeprecatedHasSuccessor
  <2>1. CASE templates[u].family = templates[t].family
    BY <1>1, <1>2, <2>1 DEF Family
  <2>2. CASE templates[u].family # templates[t].family
    <3>1. u \notin OldVersions(t) /\ u # t
      BY <2>2 DEF OldVersions, Family
    <3>2. PICK v \in Family(u) : templates[v].is_installed /\ templates[v].state # "DEPRECATED"
      BY <1>4, <3>1 DEF DeprecatedHasSuccessor
    <3>3. v \in Ids /\ v \notin OldVersions(t) /\ v # t
      BY <2>2, <3>2 DEF OldVersions, Family
    <3>4. templates'[v] = templates[v] /\ v \in Family(u)'
      BY <1>1, <1>2, <1>4, <3>2, <3>3 DEF Family
    <3> QED
      BY <3>2, <3>4
  <2> QED
    BY <2>1, <2>2
<1> QED
  BY <1>1, <1>5, <1>7, <1>8

LEMMA VersionStep ==
  ASSUME VersionInv, [Next]_vars
  PROVE  VersionInv'
BY QuietSteps, VersionQuiet, VersionInstalled DEF VersionInv

(* Of each family of versions at most one is active, however versions are  *)
(* cloned, validated again and installed (template_service.py 933-962).    *)
THEOREM OneVersionIsActive == Spec => []OneActive
<1>1. VersionInv => OneActive
  BY DEF VersionInv
<1> QED
  BY VersionInit, VersionStep, <1>1, PTL DEF Spec

(* Deprecation leaves an installed version that is not deprecated: an      *)
(* installation replaces, and nothing else uninstalls (template_service.py *)
(* 934-961).                                                               *)
THEOREM DeprecationLeavesASuccessor == Spec => []DeprecatedHasSuccessor
<1>1. VersionInv => DeprecatedHasSuccessor
  BY DEF VersionInv
<1> QED
  BY VersionInit, VersionStep, <1>1, PTL DEF Spec

(* No version is uninstalled while a workflow of it is running, halted or  *)
(* dormant (template_service.py 957-962).                                  *)
THEOREM VersionsInUseStayInstalled == Spec => InstalledWhileInUse
<1>1. ASSUME VersionInv, [Next]_vars
      PROVE  [\A t \in Ids :
                /\ templates[t].is_installed
                /\ OnVersion(t, LiveState) # {}
                => templates'[t].is_installed]_vars
  <2>1. CASE Quiet
    BY <2>1 DEF Quiet, Kept
  <2>2. ASSUME NEW t \in Ids, InstallTemplate(t)
        PROVE  \A u \in Ids : /\ templates[u].is_installed
                              /\ OnVersion(u, LiveState) # {}
                              => templates'[u].is_installed
    BY <1>1, <2>2, InstallationRows DEF VersionInv
  <2> QED
    BY <1>1, <2>1, <2>2, QuietSteps DEF VersionInv
<1> QED
  BY VersionInit, VersionStep, <1>1, PTL DEF Spec, InstalledWhileInUse
-----------------------------------------------------------------------------
(* What a validated template draws.                                        *)

Sound(t) ==
  /\ Cardinality(OfType(t, "START")) = 1
  /\ Configured(t) /\ ConditionsHold(t)
  /\ \A S \in SUBSET Live(t) :
       \/ S = Live(t)
       \/ OfType(t, "START") \cap S = {}
       \/ \E a \in S : Adjacent(t, a) \cap (Live(t) \ S) # {}

Examined == {"VALIDATED", "ACTIVE"}

SoundInv == Rows /\ \A t \in Ids : templates[t].state \in Examined => Sound(t)

SameDrawing(old, new) ==
  /\ new.activity = old.activity
  /\ new.setting = old.setting
  /\ new.flows = old.flows
  /\ new.variable = old.variable

(* What every request but a validation does: what is examined afterwards   *)
(* was examined before, and drawn in the same way.                         *)
Careful ==
  /\ Rows'
  /\ \A t \in Ids' :
       templates'[t].state \in Examined =>
         /\ t \in Ids /\ templates[t].state \in Examined
         /\ SameDrawing(templates[t], templates'[t])

(* The search finds nothing outside a set it cannot leave.                 *)
LEMMA SearchStays ==
  ASSUME NEW t, NEW S \in SUBSET Live(t), NEW root \in SUBSET S,
         \A a \in S : Adjacent(t, a) \cap (Live(t) \ S) = {}
  PROVE  Reached(t, root) \subseteq S
<1> DEFINE spread == [R \in SUBSET Slot |->
                        R \cup ((UNION {Adjacent(t, a) : a \in R}) \cap Live(t))]
           n      == Cardinality(Slot)
           F      == [k \in 1 .. n |-> spread]
<1>1. n \in Nat
  BY TemplateAssumption, FS_CardinalityType DEF TemplateAssumption
<1>2. \A R \in SUBSET S : spread[R] \in SUBSET S
  <2>1. SUFFICES ASSUME NEW R \in SUBSET S PROVE spread[R] \subseteq S
    OBVIOUS
  <2>2. R \in SUBSET Slot
    BY DEF Live
  <2>3. (UNION {Adjacent(t, a) : a \in R}) \cap Live(t) \subseteq S
    OBVIOUS
  <2> QED
    BY <2>2, <2>3
<1>3. \A k \in 1 .. n : F[k] = spread
  OBVIOUS
<1>4. \A R \in SUBSET S, k \in 1 .. n : F[k][R] \in SUBSET S
  <2> HIDE DEF spread, F
  <2> QED
    BY <1>2, <1>3
<1>5. Iterate(F, root, n) \in SUBSET S
  <2> HIDE DEF F, n
  <2> QED
    BY <1>1, <1>4, IterateClosed
<1> QED
  BY <1>5 DEF Reached

(* A template that passes the validation is sound.                         *)
LEMMA ValidIsSound ==
  ASSUME NEW t, WellConnected(t), Configured(t), ConditionsHold(t)
  PROVE  Sound(t)
<1> DEFINE root == OfType(t, "START")
<1>1. Cardinality(root) = 1
  BY DEF WellConnected
<1>2. root \subseteq Slot /\ IsFiniteSet(root)
  <2>1. root \subseteq Slot
    BY DEF OfType, Live
  <2> QED
    BY <2>1, TemplateAssumption, FS_Subset DEF TemplateAssumption
<1>3. PICK a : root = {a}
  BY <1>1, <1>2, FS_Singleton
<1>4. ASSUME NEW S \in SUBSET Live(t), root \cap S # {},
             \A b \in S : Adjacent(t, b) \cap (Live(t) \ S) = {}
      PROVE  S = Live(t)
  <2>1. root \subseteq S
    BY <1>3, <1>4
  <2>2. Reached(t, root) \subseteq S
    BY <1>4, <2>1, SearchStays
  <2> QED
    BY <2>2 DEF WellConnected
<1> QED
  BY <1>1, <1>4 DEF Sound

(* Soundness is a matter of what is drawn.                                 *)
LEMMA DrawnAlike ==
  ASSUME NEW t, Sound(t), SameDrawing(templates[t], templates'[t])
  PROVE  Sound(t)'
<1>1. Live(t)' = Live(t)
  BY DEF Live, SameDrawing
<1>2. OfType(t, "START")' = OfType(t, "START")
  BY <1>1 DEF OfType
<1>3. \A a : Adjacent(t, a)' = Adjacent(t, a)
  BY DEF Adjacent, SameDrawing
<1>4. Configured(t)' /\ ConditionsHold(t)'
  BY <1>1 DEF Configured, ConditionsHold, SameDrawing, Sound
<1> QED
  BY <1>1, <1>2, <1>3, <1>4 DEF Sound

(* Careful steps keep what is examined sound.                              *)
LEMMA CarefulSound ==
  ASSUME SoundInv, Careful
  PROVE  SoundInv'
BY DrawnAlike DEF SoundInv, Careful

(* Writing one row that is not examined, or is drawn as it was.            *)
LEMMA CarefulRow ==
  ASSUME Rows, Rows', NEW t \in Ids, NEW row, templates' = [templates EXCEPT ![t] = row],
         \/ row.state \notin Examined
         \/ row.state = templates[t].state /\ SameDrawing(templates[t], row)
  PROVE  Careful
<1>1. Ids' = Ids
  BY DEF Rows, Ids
<1>2. \A u \in Ids : templates'[u] = IF u = t THEN row ELSE templates[u]
  BY DEF Rows, Ids
<1> QED
  BY <1>1, <1>2 DEF Careful, SameDrawing

(* An edit of a template that may be edited leaves it a draft, or          *)
(* deprecated.                                                             *)
LEMMA EditCareful ==
  ASSUME Rows, Rows', NEW t \in Ids, Modifiable(t), NEW row, Edit(t, row),
         row.state = ResetToDraftIfValidated(templates[t]).state
  PROVE  Careful
<1>1. templates[t] \in Template
  BY DEF Rows, Ids
<1>2. row.state \notin Examined
  BY <1>1 DEF Modifiable, ResetToDraftIfValidated, Template, Examined
<1> QED
  BY <1>2, CarefulRow DEF Edit

(* So are the requests on activities,                                      *)
LEMMA ActivityCareful ==
  ASSUME Rows, Rows', NEW t \in Ids, ActivityRequest(t)
  PROVE  Careful
<1> DEFINE row == ResetToDraftIfValidated(templates[t])
<1>1. row \in Template
  BY ResetKeeps DEF Rows, Ids
<1>2. PICK a \in Slot :
        \/ \E value \in {Unset, Given} : AddActivity(t, a, value)
        \/ \E value \in Settable(a) : UpdateActivity(t, a, value)
        \/ DeleteActivity(t, a)
  BY DEF ActivityRequest
<1>3. ASSUME NEW value, AddActivity(t, a, value)
      PROVE  Careful
  <2>1. [row EXCEPT !.activity[a] = "live", !.setting[a] = value].state = row.state
    BY <1>1 DEF Template
  <2> QED
    BY <1>3, <2>1, EditCareful DEF AddActivity
<1>4. ASSUME NEW value, UpdateActivity(t, a, value)
      PROVE  Careful
  <2>1. [row EXCEPT !.setting[a] = value].state = row.state
    BY <1>1 DEF Template
  <2> QED
    BY <1>4, <2>1, EditCareful DEF UpdateActivity
<1>5. CASE DeleteActivity(t, a)
  <2>1. [row EXCEPT !.activity[a] = "deleted"].state = row.state
    BY <1>1 DEF Template
  <2> QED
    BY <1>5, <2>1, EditCareful DEF DeleteActivity
<1> QED
  BY <1>2, <1>3, <1>4, <1>5

(* on flows,                                                               *)
LEMMA FlowCareful ==
  ASSUME Rows, Rows', NEW t \in Ids, FlowRequest(t)
  PROVE  Careful
<1> DEFINE row == ResetToDraftIfValidated(templates[t])
<1>1. row \in Template
  BY ResetKeeps DEF Rows, Ids
<1>2. ASSUME NEW flows PROVE [row EXCEPT !.flows = flows].state = row.state
  BY <1>1 DEF Template
<1>3. ASSUME NEW f, AddFlow(t, f)
      PROVE  Careful
  <2>1. [row EXCEPT !.flows = @ \cup {f}].state = row.state
    BY <1>2
  <2> QED
    BY <1>3, <2>1, EditCareful DEF AddFlow
<1>4. ASSUME NEW f, DeleteFlow(t, f)
      PROVE  Careful
  <2>1. [row EXCEPT !.flows = @ \ {f}].state = row.state
    BY <1>2
  <2> QED
    BY <1>4, <2>1, EditCareful DEF DeleteFlow
<1>5. ASSUME NEW f, NEW c, UpdateFlow(t, f, c)
      PROVE  Careful
  <2>1. [row EXCEPT !.flows = (@ \ {f}) \cup {[f EXCEPT !.condition = c]}].state = row.state
    BY <1>2
  <2> QED
    BY <1>5, <2>1, EditCareful DEF UpdateFlow
<1> QED
  BY <1>3, <1>4, <1>5 DEF FlowRequest

(* and on variables.                                                       *)
LEMMA VariableCareful ==
  ASSUME Rows, Rows', NEW t \in Ids, VariableRequest(t)
  PROVE  Careful
<1> DEFINE row == ResetToDraftIfValidated(templates[t])
<1>1. row \in Template
  BY ResetKeeps DEF Rows, Ids
<1>2. ASSUME NEW v PROVE [row EXCEPT !.variable = v].state = row.state
  BY <1>1 DEF Template
<1>3. CASE AddVariable(t)
  BY <1>2, <1>3, EditCareful DEF AddVariable
<1>4. CASE UpdateVariable(t)
  BY <1>4, EditCareful DEF UpdateVariable
<1>5. CASE DeleteVariable(t)
  BY <1>2, <1>5, EditCareful DEF DeleteVariable
<1> QED
  BY <1>3, <1>4, <1>5 DEF VariableRequest

(* New templates and versions are drafts.                                  *)
LEMMA AddedCareful ==
  ASSUME Rows, Rows', NEW row, row.state = "DRAFT", templates' = Append(templates, row)
  PROVE  Careful
<1>1. \A u \in Ids : templates'[u] = templates[u]
  BY DEF Rows, Ids
<1>2. templates'[Len(templates) + 1] = row
  BY DEF Rows
<1>3. \A u \in Ids' \ Ids : u = Len(templates) + 1
  BY DEF Rows, Ids
<1> QED
  BY <1>1, <1>2, <1>3 DEF Careful, SameDrawing, Examined

(* A changed description makes a draft, or another version; a deleted      *)
(* template is drawn as it was.                                            *)
LEMMA TemplateCareful ==
  ASSUME Rows, Rows', NEW t \in Ids, TemplateRequest(t) \/ CreateNewVersion(t)
  PROVE  Careful
<1>1. templates[t] \in Template
  BY DEF Rows, Ids
<1>2. CASE CreateNewVersion(t)
  <2>1. Clone(t).state = "DRAFT"
    BY DEF Clone
  <2> QED
    BY <1>2, <2>1, AddedCareful DEF CreateNewVersion
<1>3. CASE /\ Modifiable(t)
           /\ templates' = [templates EXCEPT ![t] = ResetToDraftIfValidated(templates[t])]
  <2>1. ResetToDraftIfValidated(templates[t]).state \notin Examined
    BY <1>1, <1>3 DEF Modifiable, ResetToDraftIfValidated, Template, Examined
  <2> QED
    BY <1>3, <2>1, CarefulRow
<1>4. CASE DeleteTemplate(t)
  <2>1. /\ SameDrawing(templates[t], [templates[t] EXCEPT !.is_deleted = TRUE])
        /\ [templates[t] EXCEPT !.is_deleted = TRUE].state = templates[t].state
    BY <1>1 DEF Template, SameDrawing
  <2> QED
    BY <1>4, <2>1, CarefulRow DEF DeleteTemplate
<1> QED
  BY <1>2, <1>3, <1>4 DEF TemplateRequest, UpdateTemplate

(* An installation draws nothing.                                          *)
LEMMA InstallationCareful ==
  ASSUME Rows, NEW t \in Ids, InstallTemplate(t)
  PROVE  Careful
<1>1. /\ Rows' /\ Ids' = Ids
      /\ \A u \in OldVersions(t) : templates'[u].state = "DEPRECATED"
      /\ \A u \in Ids \ (OldVersions(t) \cup {t}) : templates'[u] = templates[u]
  BY InstallationRows DEF Ids
<1>2. templates'[t] = [templates[t] EXCEPT !.state = "ACTIVE", !.is_installed = TRUE]
  BY DEF InstallTemplate, OldVersions
<1>3. templates[t] \in Template /\ templates[t].state = "VALIDATED"
  <2>1. templates[t].state = "VALIDATED"
    BY DEF InstallTemplate
  <2>2. templates[t] \in Template
    BY DEF Rows, Ids
  <2> QED
    BY <2>1, <2>2
<1>4. SameDrawing(templates[t], templates'[t])
  BY <1>2, <1>3 DEF SameDrawing, Template
<1> QED
  BY <1>1, <1>3, <1>4 DEF Careful, Examined, SameDrawing

(* A validation examines one template and draws nothing.                   *)
LEMMA ValidationSound ==
  ASSUME SoundInv, Rows', NEW t \in Ids, ValidateTemplate(t)
  PROVE  SoundInv'
<1>1. Ids' = Ids
  BY DEF SoundInv, Rows, Ids, ValidateTemplate
<1>2. \A u \in Ids : templates'[u] = IF u = t THEN [templates[t] EXCEPT !.state = "VALIDATED"]
                                     ELSE templates[u]
  BY DEF SoundInv, Rows, Ids, ValidateTemplate
<1>3. templates[t] \in Template
  BY DEF SoundInv, Rows, Ids
<1>4. SameDrawing(templates[t], templates'[t])
  BY <1>2, <1>3 DEF SameDrawing, Template
<1>5. Sound(t)
  BY ValidIsSound DEF ValidateTemplate
<1>6. Sound(t)'
  BY <1>4, <1>5, DrawnAlike
<1>7. ASSUME NEW u \in Ids, u # t, templates'[u].state \in Examined
      PROVE  Sound(u)'
  <2>1. Sound(u) /\ SameDrawing(templates[u], templates'[u])
    BY <1>2, <1>7 DEF SoundInv, SameDrawing
  <2> QED
    BY <2>1, DrawnAlike
<1> QED
  BY <1>1, <1>6, <1>7 DEF SoundInv

LEMMA SoundInit == Init => SoundInv
<1> USE TemplateAssumption DEF TemplateAssumption, Init
<1>1. Init => Rows
  BY DEF Rows
<1>2. Init => \A t \in Ids : templates[t].state = "DRAFT"
  BY DEF Ids
<1> QED
  BY <1>1, <1>2 DEF SoundInv, Examined

(* Every request is careful but a validation.                              *)
LEMMA CarefulSteps ==
  ASSUME Rows, [Next]_vars
  PROVE  Rows' /\ (Careful \/ \E t \in Ids : ValidateTemplate(t))
<1>1. Rows'
  <2>1. CASE Quiet
    BY <2>1 DEF Quiet
  <2>2. ASSUME NEW t \in Ids, InstallTemplate(t) PROVE Rows'
    BY <2>2, InstallationRows
  <2> QED
    BY <2>1, <2>2, QuietSteps
<1>2. CASE CreateTemplate
  <2>1. NewTemplate(Len(templates) + 1).state = "DRAFT"
    BY DEF NewTemplate
  <2> QED
    BY <1>1, <1>2, <2>1, AddedCareful DEF CreateTemplate
<1>3. ASSUME NEW t \in Ids,
             \/ TemplateRequest(t) \/ ActivityRequest(t) \/ FlowRequest(t)
             \/ VariableRequest(t) \/ VersionRequest(t)
      PROVE  Careful \/ ValidateTemplate(t)
  <2>1. CASE \/ TemplateRequest(t) \/ ActivityRequest(t) \/ FlowRequest(t)
             \/ VariableRequest(t) \/ CreateNewVersion(t)
    BY <1>1, <2>1, TemplateCareful, ActivityCareful, FlowCareful, VariableCareful
  <2>2. CASE InstallTemplate(t)
    BY <2>2, InstallationCareful
  <2> QED
    BY <1>3, <2>1, <2>2 DEF VersionRequest
<1>4. ASSUME UNCHANGED templates
      PROVE  Careful
  BY <1>1, <1>4 DEF Careful, Ids, SameDrawing
<1>5. CASE \E w \in Workflow :
             \/ \E t, v \in Ids : StartWorkflow(w, t, v)
             \/ \E to \in WorkflowState \cup {"FINISHED"} : ChangeWorkflow(w, to)
  BY <1>1, <1>4, <1>5 DEF StartWorkflow, ChangeWorkflow
<1>6. CASE UNCHANGED vars
  BY <1>1, <1>4, <1>6 DEF vars
<1>7. Careful \/ \E t \in Ids : ValidateTemplate(t)
  BY <1>2, <1>3, <1>5, <1>6 DEF Next
<1> QED
  BY <1>1, <1>7

(* So every step keeps what is examined sound.                             *)
LEMMA SoundStep ==
  ASSUME SoundInv, [Next]_vars
  PROVE  SoundInv'
BY CarefulSteps, CarefulSound, ValidationSound DEF SoundInv

(* What is active is connected from its only start and configured, for any *)
(* number of activities and whatever edits, clones and installations came  *)
(* in between: the search of the validation reaches every live activity,   *)
(* and each change to what it examined takes the validation back           *)
(* (template_service.py 55-60, 721-746).                                   *)
THEOREM ActiveTemplatesAreSound == Spec => []ActiveIsSound
<1>1. SoundInv => ActiveIsSound
  BY DEF SoundInv, ActiveIsSound, Sound, Examined
<1> QED
  BY SoundInit, SoundStep, <1>1, PTL DEF Spec

-----------------------------------------------------------------------------
(* The search for circles of sub-workflows.                                *)

Calls == [depth : Nat, template : Ids, visited : SUBSET Ids]

Call(depth, t, visited) == [depth |-> depth, template |-> t, visited |-> visited]

(* What a call returns if the calls it makes return ok.                    *)
Returns(ok, c) ==
  /\ c.depth <= MaxDepth
  /\ c.template \notin c.visited
  /\ \A s \in SubTemplates(c.template) :
       ok[Call(c.depth + 1, s, c.visited \cup {c.template})]

IsSearch(ok) == ok = [c \in Calls |-> Returns(ok, c)]

(* The calls that a call makes are one deeper.                             *)
LEMMA DeeperCalls ==
  ASSUME NEW c \in Calls, NEW s \in SubTemplates(c.template)
  PROVE  /\ Call(c.depth + 1, s, c.visited \cup {c.template}) \in Calls
         /\ Call(c.depth + 1, s, c.visited \cup {c.template}).depth = c.depth + 1
BY DEF Calls, Call, SubTemplates

(* The recursion ends, at MaxDepth: there is a function that satisfies it. *)
(* Round k makes the calls of depth MaxDepth + 1 - k from those one deeper *)
(* that the round before has made.                                         *)
LEMMA SearchDefined == \E ok : IsSearch(ok)
<1> DEFINE n == MaxDepth + 1
           F == [k \in 1 .. n |-> [f \in [Calls -> BOOLEAN] |-> [c \in Calls |-> Returns(f, c)]]]
           start == [c \in Calls |-> FALSE]
<1>1. MaxDepth \in Nat /\ n \in Nat
  BY TemplateAssumption DEF TemplateAssumption
<1>2. PICK r : IsRun(r, F, start, n)
  BY <1>1, IterateDefined
<1>3. r[0] = start /\ \A k \in 1 .. n : r[k] = F[k][r[k - 1]]
  <2> HIDE DEF F, start, n
  <2> QED
    BY <1>1, <1>2 DEF IsRun
<1>4. \A f \in [Calls -> BOOLEAN], k \in 1 .. n : F[k][f] = [c \in Calls |-> Returns(f, c)]
  OBVIOUS
<1>5. \A f \in [Calls -> BOOLEAN] : [c \in Calls |-> Returns(f, c)] \in [Calls -> BOOLEAN]
  BY DEF Returns
<1> DEFINE P == {k \in Nat : k \in 0 .. n => r[k] \in [Calls -> BOOLEAN]}
<1>6. Nat \subseteq P
  <2>1. 0 \in P
    BY <1>3
  <2>2. ASSUME NEW k \in Nat, k \in P PROVE k + 1 \in P
    <3> SUFFICES ASSUME k + 1 \in 0 .. n PROVE r[k + 1] \in [Calls -> BOOLEAN]
      OBVIOUS
    <3>1. k \in 0 .. n /\ k + 1 \in 1 .. n /\ (k + 1) - 1 = k
      BY <1>1
    <3>2. r[k] \in [Calls -> BOOLEAN]
      BY <2>2, <3>1
    <3> HIDE DEF F, n, P
    <3>3. r[k + 1] = F[k + 1][r[k]]
      BY <1>3, <3>1
    <3>4. F[k + 1][r[k]] = [c \in Calls |-> Returns(r[k], c)]
      BY <1>4, <3>1, <3>2
    <3> QED
      BY <1>5, <3>2, <3>3, <3>4
  <2> HIDE DEF P
  <2> QED
    BY <2>1, <2>2, SetInduction
<1>7. ASSUME NEW k \in 1 .. n
      PROVE  r[k] = [c \in Calls |-> Returns(r[k - 1], c)]
  <2>1. k - 1 \in 0 .. n /\ k - 1 \in Nat
    BY <1>1
  <2>2. r[k - 1] \in [Calls -> BOOLEAN]
    BY <1>6, <2>1
  <2> HIDE DEF F, n
  <2> QED
    BY <1>3, <1>4, <2>2
<1> DEFINE ok == [c \in Calls |-> IF c.depth > MaxDepth THEN FALSE ELSE r[n - c.depth][c]]
<1>8. ASSUME NEW c \in Calls PROVE ok[c] = Returns(ok, c)
  <2>1. c.depth \in Nat
    BY DEF Calls
  <2>2. CASE c.depth > MaxDepth
    <3>1. ok[c] = FALSE
      BY <2>2
    <3> HIDE DEF ok
    <3>2. ~ (c.depth <= MaxDepth)
      BY <1>1, <2>1, <2>2
    <3>3. Returns(ok, c) = FALSE
      BY <3>2 DEF Returns
    <3> QED
      BY <3>1, <3>3
  <2>3. CASE ~ (c.depth > MaxDepth)
    <3>1. n - c.depth \in 1 .. n /\ c.depth <= MaxDepth
      BY <1>1, <2>1, <2>3
    <3>2. ok[c] = Returns(r[(n - c.depth) - 1], c)
      <4> DEFINE k == n - c.depth
      <4>1. ok[c] = r[k][c] /\ k \in 1 .. n
        BY <2>3, <3>1
      <4> HIDE DEF k, n, ok
      <4>2. r[k] = [e \in Calls |-> Returns(r[k - 1], e)]
        BY <1>7, <4>1
      <4>3. ok[c] = Returns(r[k - 1], c)
        BY <4>1, <4>2
      <4> QED
        BY <4>3 DEF k
    <3>3. ASSUME NEW s \in SubTemplates(c.template)
          PROVE  r[(n - c.depth) - 1][Call(c.depth + 1, s, c.visited \cup {c.template})]
                 = ok[Call(c.depth + 1, s, c.visited \cup {c.template})]
      <4> DEFINE e == Call(c.depth + 1, s, c.visited \cup {c.template})
      <4>1. e \in Calls /\ e.depth = c.depth + 1
        BY DeeperCalls
      <4> HIDE DEF e
      <4>2. CASE c.depth = MaxDepth
        <5>1. (n - c.depth) - 1 = 0 /\ e.depth > MaxDepth
          BY <1>1, <2>1, <4>1, <4>2
        <5>2. r[0][e] = FALSE
          BY <1>3, <4>1
        <5> QED
          BY <4>1, <5>1, <5>2 DEF e
      <4>3. CASE c.depth # MaxDepth
        <5>1. (n - c.depth) - 1 = n - e.depth /\ ~ (e.depth > MaxDepth)
          BY <1>1, <2>1, <2>3, <4>1, <4>3
        <5> QED
          BY <4>1, <5>1 DEF e
      <4> QED
        BY <4>2, <4>3
    <3> HIDE DEF ok
    <3>4. Returns(r[(n - c.depth) - 1], c) = Returns(ok, c)
      BY <3>3 DEF Returns
    <3> QED
      BY <3>2, <3>4
  <2> QED
    BY <2>2, <2>3
<1>9. ok = [c \in Calls |-> Returns(ok, c)]
  <2>1. ok = [c \in Calls |-> ok[c]]
    OBVIOUS
  <2> HIDE DEF ok
  <2> QED
    BY <1>8, <2>1
<1> QED
  BY <1>9 DEF IsSearch

(* What the definition of the search chooses.                              *)
LEMMA SearchUnfolds ==
  ASSUME NEW root
  PROVE  \E ok : IsSearch(ok) /\ CheckSubWorkflowDepth(root) = ok[Call(0, root, {})]
<1> DEFINE ok == CHOOSE f : IsSearch(f)
<1>1. IsSearch(ok)
  BY SearchDefined
<1>2. CheckSubWorkflowDepth(root) = ok[Call(0, root, {})]
  BY DEF CheckSubWorkflowDepth, IsSearch, Calls, Call, Returns
<1> QED
  BY <1>1, <1>2

(* Templates that each call one of them.                                   *)
Circle(S) == S # {} /\ \A t \in S : SubTemplates(t) \cap S # {}

(* From a template of a circle the search goes round it, until it has been *)
(* where it is or is too deep.                                             *)
LEMMA SearchFindsCircles ==
  ASSUME NEW S \in SUBSET Ids, Circle(S), NEW root \in S
  PROVE  ~ CheckSubWorkflowDepth(root)
<1> SUFFICES ASSUME CheckSubWorkflowDepth(root) PROVE FALSE
  OBVIOUS
<1>1. PICK ok : IsSearch(ok) /\ CheckSubWorkflowDepth(root) = ok[Call(0, root, {})]
  BY SearchUnfolds
<1>2. \A c \in Calls : ok[c] => Returns(ok, c)
  BY <1>1 DEF IsSearch
<1>3. MaxDepth \in Nat
  BY TemplateAssumption DEF TemplateAssumption
<1> DEFINE P == {d \in Nat : \E c \in Calls : c.depth = d /\ c.template \in S /\ ok[c]}
<1>4. 0 \in P
  BY <1>1 DEF Calls, Call
<1>5. ASSUME NEW d \in Nat, d \in P PROVE d + 1 \in P
  <2>1. PICK c \in Calls : c.depth = d /\ c.template \in S /\ ok[c]
    BY <1>5
  <2>2. PICK s \in SubTemplates(c.template) : s \in S
    BY <2>1 DEF Circle
  <2>3. ok[Call(c.depth + 1, s, c.visited \cup {c.template})]
    BY <1>2, <2>1, <2>2 DEF Returns
  <2>4. /\ Call(c.depth + 1, s, c.visited \cup {c.template}) \in Calls
        /\ Call(c.depth + 1, s, c.visited \cup {c.template}).depth = d + 1
        /\ Call(c.depth + 1, s, c.visited \cup {c.template}).template = s
    BY <2>1, <2>2, DeeperCalls DEF Call
  <2> QED
    BY <2>2, <2>3, <2>4
<1>6. MaxDepth + 1 \in P
  <2>1. Nat \subseteq P
    <3> HIDE DEF P
    <3> QED
      BY <1>4, <1>5, SetInduction
  <2> QED
    BY <1>3, <2>1
<1>7. PICK c \in Calls : c.depth = MaxDepth + 1 /\ ok[c]
  BY <1>6
<1>8. c.depth <= MaxDepth
  BY <1>2, <1>7 DEF Returns
<1> QED
  BY <1>3, <1>7, <1>8

(* A template that is active was active before and calls the same ones, or *)
(* the search has found no circle from it.                                 *)
LEMMA Activated ==
  ASSUME Rows, [Next]_vars, NEW u \in Ids', templates'[u].state = "ACTIVE"
  PROVE  /\ u \in Ids /\ SameDrawing(templates[u], templates'[u])
         /\ templates[u].state = "ACTIVE" \/ CheckSubWorkflowDepth(u)
<1>1. u \in Ids /\ (templates[u].state = "ACTIVE" \/ CheckSubWorkflowDepth(u))
  <2>1. CASE Quiet
    BY <2>1 DEF Quiet, Fresh, Kept
  <2>2. ASSUME NEW t \in Ids, InstallTemplate(t)
        PROVE  u \in Ids /\ (templates[u].state = "ACTIVE" \/ CheckSubWorkflowDepth(u))
    <3>1. /\ Ids' = Ids
          /\ \A v \in OldVersions(t) : templates'[v].state = "DEPRECATED"
          /\ \A v \in Ids \ (OldVersions(t) \cup {t}) : templates'[v] = templates[v]
      BY <2>2, InstallationRows DEF Ids
    <3>2. CheckSubWorkflowDepth(t)
      BY <2>2 DEF InstallTemplate
    <3> QED
      BY <3>1, <3>2
  <2> QED
    BY <2>1, <2>2, QuietSteps
<1>2. SameDrawing(templates[u], templates'[u])
  <2>1. CASE Careful
    BY <2>1 DEF Careful, Examined
  <2>2. ASSUME NEW t \in Ids, ValidateTemplate(t)
        PROVE  SameDrawing(templates[u], templates'[u])
    <3>1. templates' = [templates EXCEPT ![t].state = "VALIDATED"]
      BY <2>2 DEF ValidateTemplate
    <3>2. templates[t] \in Template
      BY DEF Rows, Ids
    <3> QED
      BY <1>1, <3>1, <3>2 DEF Rows, Ids, SameDrawing, Template
  <2> QED
    BY <2>1, <2>2, CarefulSteps
<1> QED
  BY <1>1, <1>2

(* What is drawn alike calls the same templates.                           *)
LEMMA SameCalls ==
  ASSUME Rows, Rows', NEW S \in SUBSET Ids, S \subseteq Ids', NEW t \in S,
         SameDrawing(templates[t], templates'[t])
  PROVE  SubTemplates(t)' \cap S = SubTemplates(t) \cap S
<1>1. OfType(t, "SUB_WORKFLOW")' = OfType(t, "SUB_WORKFLOW")
  BY DEF OfType, Live, SameDrawing
<1> QED
  BY <1>1 DEF SubTemplates, SameDrawing

(* By template id, no active templates call each other in a circle.        *)
NoActiveCycle ==
  \A S \in SUBSET {t \in Ids : templates[t].state = "ACTIVE"} :
    S # {} => \E t \in S : SubTemplates(t) \cap S = {}

CircleInv == Rows /\ NoActiveCycle

(* Drafts are not active.                                                  *)
LEMMA CircleInit == Init => CircleInv
<1> USE TemplateAssumption DEF TemplateAssumption, Init
<1>1. Init => Rows
  BY DEF Rows
<1>2. Init => \A t \in Ids : templates[t].state # "ACTIVE"
  BY DEF Ids
<1> QED
  BY <1>1, <1>2 DEF CircleInv, NoActiveCycle

(* A circle that was not there goes through a template just installed, and *)
(* from there the search would have found it.                              *)
LEMMA CircleStep ==
  ASSUME CircleInv, [Next]_vars
  PROVE  CircleInv'
<1>1. Rows /\ Rows'
  BY CarefulSteps DEF CircleInv
<1> SUFFICES ASSUME NEW S \in SUBSET {t \in Ids' : templates'[t].state = "ACTIVE"}, S # {},
                    \A t \in S : SubTemplates(t)' \cap S # {}
             PROVE  FALSE
  BY <1>1 DEF CircleInv, NoActiveCycle
<1>2. \A t \in S : /\ t \in Ids /\ SameDrawing(templates[t], templates'[t])
                   /\ templates[t].state = "ACTIVE" \/ CheckSubWorkflowDepth(t)
  BY <1>1, Activated
<1>3. Circle(S)
  BY <1>1, <1>2, SameCalls DEF Circle
<1>4. \A t \in S : ~ CheckSubWorkflowDepth(t)
  BY <1>2, <1>3, SearchFindsCircles
<1>5. S \in SUBSET {t \in Ids : templates[t].state = "ACTIVE"}
  BY <1>2, <1>4
<1> QED
  BY <1>3, <1>5 DEF CircleInv, NoActiveCycle, Circle

(* Active versions run each other in a circle only through a call of a     *)
(* version that is not installed, for any number of templates and any      *)
(* depth limit: what is active is not edited, and the search at the        *)
(* installation that would close a circle of calls goes round it until it  *)
(* meets itself or the limit (template_service.py 638-671).                *)
THEOREM CirclesNeedOldVersions == Spec => []CirclesGoThroughOldVersions
<1>1. CircleInv => CirclesGoThroughOldVersions
  <2> SUFFICES ASSUME CircleInv,
                      NEW S \in SUBSET {t \in Ids : templates[t].state = "ACTIVE"}, S # {},
                      \A t \in S : \E s \in SubTemplates(t), v \in S : Runs(s, v)
               PROVE  \E t \in S : \E s \in SubTemplates(t), v \in S : Runs(s, v) /\ s # v
    BY DEF CirclesGoThroughOldVersions
  <2>1. PICK t \in S : SubTemplates(t) \cap S = {}
    BY DEF CircleInv, NoActiveCycle
  <2>2. PICK s \in SubTemplates(t), v \in S : Runs(s, v)
    OBVIOUS
  <2> QED
    BY <2>1, <2>2
<1> QED
  BY CircleInit, CircleStep, <1>1, PTL DEF Spec
================================================================================
