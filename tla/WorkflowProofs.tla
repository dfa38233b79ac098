--------------------------- MODULE WorkflowProofs ---------------------------
(***************************************************************************)
(* Type correctness of the workflow engine, and that no activation is lost *)
(* in it, for every template, every number of users and workers and every  *)
(* bound; and that requests, tasks and events follow the lifecycle.  The   *)
(* loops of the engine are handled by the loop rule of IterationProofs:    *)
(* Sound, the set of the transactions whose rows satisfy the invariant, is *)
(* closed under the body of each.                                          *)
(***************************************************************************)
EXTENDS WorkflowProperties, IterationProofs, TLAPS

-----------------------------------------------------------------------------
(* The invariant, and the changes that cannot break it.                    *)

(* Activity a has started, or has nothing to start with, or waits for more. *)
Waits(d, a) ==
  \/ d.act[a] # "dormant"
  \/ d.tok[a] = <<>>
  \/ /\ Len(d.tok[a]) < Needed(a)
     /\ Trigger(a) = "timeout_join" => a \in d.clock

(* The inductive invariant proper: NoLostActivation and WaitingJoinHasClock *)
(* of the rows d.                                                          *)
Waiting(d) == \A a \in Activity : Waits(d, a)

(* A change of the rows d into e that lets no join be forgotten: nothing   *)
(* becomes dormant, what stays dormant gets no token, and no clock stops.  *)
NoHarm(d, e) ==
  /\ d.clock \subseteq e.clock
  /\ \A a \in Activity :
       e.act[a] = "dormant" => d.act[a] = "dormant" /\ e.tok[a] \in {d.tok[a], <<>>}

(* A function on 1..n is a sequence.                                       *)
LEMMA FunctionIsSequence ==
  ASSUME NEW S, NEW n \in Nat, NEW f \in [1..n -> S]
  PROVE  f \in Seq(S)
BY SMT

(* What TemplateAssumption says of the columns the engine reads.           *)
LEMMA TemplateTypes ==
  /\ Flow = 1..Len(Template.flow) /\ Len(Template.flow) \in Nat
  /\ \A a \in Activity :
       /\ Type(a) \in ActivityType
       /\ Trigger(a) \in TriggerType
       /\ Routing(a) \in RoutingType
       /\ PerformedBy(a) \in PerformerType
       /\ Performers(a) \in Seq(User)
       /\ Handler(a) \in Activity \cup {None}
       /\ Compensation(a) \in Activity \cup {None}
       /\ Template.activity[a].threshold \in Nat
  /\ \A f \in Flow : Target(f) \in Activity /\ Template.flow[f].source \in Activity
                     /\ Template.flow[f].label \in STRING
<1>1. Template.activity \in [Activity -> ActivityRow] /\ Template.flow \in Seq(FlowRow)
  BY TemplateAssumption
<1>2. \A a \in Activity : Template.activity[a] \in ActivityRow
  BY <1>1
<1>3. \A f \in Flow : Template.flow[f] \in FlowRow
  BY <1>1 DEF Flow
<1>4. Flow = 1..Len(Template.flow) /\ Len(Template.flow) \in Nat
  BY <1>1 DEF Flow
<1> QED
  BY <1>2, <1>3, <1>4 DEF ActivityRow, FlowRow, Type, Trigger, Routing, PerformedBy, Performers, Handler,
     Compensation, Target

(* The number of tokens a join needs is a number.                          *)
LEMMA NeededType == ASSUME NEW a \in Activity PROVE Needed(a) \in Nat
<1>1. Incoming(a) \subseteq Flow
  BY DEF Incoming
<1>2. IsFiniteSet(Flow)
  BY TemplateTypes, FS_Interval
<1>3. Cardinality(Incoming(a)) \in Nat
  BY <1>1, <1>2, FS_Subset, FS_CardinalityType
<1> QED BY <1>3, TemplateTypes DEF Needed, TriggerType

(* A harmless change of the rows leaves no join forgotten.                 *)
LEMMA HarmlessSteps ==
  ASSUME NEW d, NEW e, NoHarm(d, e), Waiting(d)
  PROVE  Waiting(e)
BY DEF NoHarm, Waiting, Waits

(* Harmless changes compose.                                               *)
LEMMA HarmlessChain ==
  ASSUME NEW c, NEW d, NEW e, NoHarm(c, d), NoHarm(d, e)
  PROVE  NoHarm(c, e)
BY DEF NoHarm

-----------------------------------------------------------------------------
(* Work items.                                                             *)

(* Setting the states of items leaves items.                               *)
LEMMA SetItemsType ==
  ASSUME NEW items \in Seq(Item), NEW S, NEW s \in ItemState
  PROVE  SetItems(items, S, s) \in Seq(Item)
<1>1. \A i \in DOMAIN items : items[i] \in Item
  OBVIOUS
<1>2. \A it \in Item : [it EXCEPT !.state = s] \in Item
  BY DEF Item
<1>3. DOMAIN items = 1..Len(items) /\ Len(items) \in Nat
  OBVIOUS
<1>4. SetItems(items, S, s) \in [1..Len(items) -> Item]
  BY <1>1, <1>2, <1>3 DEF SetItems
<1> QED BY <1>3, <1>4, FunctionIsSequence

(* Aging items leaves items.                                               *)
LEMMA AgedType ==
  ASSUME NEW items \in Seq(Item)
  PROVE  Aged(items) \in Seq(Item)
<1>1. \A i \in DOMAIN items : items[i] \in Item
  OBVIOUS
<1>2. \A it \in Item : [it EXCEPT !.fresh = FALSE] \in Item
  BY DEF Item
<1>3. DOMAIN items = 1..Len(items) /\ Len(items) \in Nat
  OBVIOUS
<1>4. Aged(items) \in [1..Len(items) -> Item]
  BY <1>1, <1>2, <1>3 DEF Aged
<1> QED BY <1>3, <1>4, FunctionIsSequence

(* A new item is an item.                                                  *)
LEMMA NewItemType ==
  ASSUME NEW u \in User \cup {None}
  PROVE  NewItem(u) \in Item
BY DEF NewItem, Item, ItemState

(* The items of a list of performers are items.                            *)
LEMMA AssignedType ==
  ASSUME NEW performers \in Seq(User \cup {None})
  PROVE  Assigned(performers) \in Seq(Item)
<1>1. CASE performers = <<>>
  BY <1>1, NewItemType DEF Assigned
<1>2. CASE performers # <<>>
  <2>1. DOMAIN performers = 1..Len(performers) /\ Len(performers) \in Nat
    OBVIOUS
  <2>2. \A i \in DOMAIN performers : NewItem(performers[i]) \in Item
    BY NewItemType
  <2>3. Assigned(performers) \in [1..Len(performers) -> Item]
    BY <1>2, <2>1, <2>2 DEF Assigned
  <2> QED BY <2>1, <2>3, FunctionIsSequence
<1> QED BY <1>1, <1>2

(* Delegation maps users to users.                                         *)
LEMMA DelegatedType ==
  ASSUME NEW away \in [User -> User \cup {None}], NEW performers \in Seq(User)
  PROVE  Delegated(away, performers) \in Seq(User \cup {None})
<1>1. DOMAIN performers = 1..Len(performers) /\ Len(performers) \in Nat
  OBVIOUS
<1>2. \A u \in User : Cover(away, u) \in User \cup {None}
  BY DEF Cover
<1>3. Delegated(away, performers) \in [1..Len(performers) -> User \cup {None}]
  BY <1>1, <1>2 DEF Delegated
<1> QED BY <1>1, <1>3, FunctionIsSequence

(* The performers chosen for a manual activity are users.                  *)
LEMMA ChosenType ==
  ASSUME NEW t \in Transaction, NEW a \in Activity
  PROVE  Chosen(t, a) \in Seq(User)
<1>1. Performers(a) \in Seq(User) /\ First(Performers(a)) \in Seq(User)
  BY TemplateTypes DEF First
<1>2. Resolved(a) \in Seq(User)
  BY <1>1 DEF Resolved
<1>3. t.next \in User \cup {None} /\ t.over[a] \in User \cup {None}
  BY DEF Transaction
<1>4. Selected(t, a) => PerformedBy(a) = "runtime_selection" /\ t.next \in User
  BY <1>3 DEF Selected
<1>5. CASE PerformedBy(a) = "queue"
  BY <1>4, <1>5 DEF Chosen
<1>6. CASE PerformedBy(a) = "sequential"
  BY <1>1, <1>4, <1>6 DEF Chosen
<1>7. CASE Selected(t, a)
  BY <1>4, <1>7 DEF Chosen
<1>8. CASE PerformedBy(a) \notin {"queue", "sequential"} /\ ~Selected(t, a)
  <2>1. Chosen(t, a) = IF t.over[a] # None THEN <<t.over[a]>> ELSE Resolved(a)
    BY <1>8 DEF Chosen
  <2> QED BY <1>2, <1>3, <2>1
<1> QED BY <1>5, <1>6, <1>7, <1>8

(* The items of an activated manual activity are items.                    *)
LEMMA ManualItemsType ==
  ASSUME NEW t \in Transaction, NEW a \in Activity
  PROVE  ManualItems(t, a) \in Seq(Item)
<1>1. t.delegate \in [User -> User \cup {None}]
  BY DEF Transaction
<1>2. CASE PerformedBy(a) = "queue"
  <2> DEFINE it == [NewItem(None) EXCEPT !.queued = TRUE]
  <2>1. it \in Item
    BY DEF NewItem, Item, ItemState
  <2>2. ManualItems(t, a) = <<it>>
    BY <1>2 DEF ManualItems
  <2> HIDE DEF it
  <2> QED BY <2>1, <2>2
<1>3. CASE PerformedBy(a) # "queue"
  <2>1. ManualItems(t, a) = Assigned(Delegated(t.delegate, Chosen(t, a)))
    BY <1>3 DEF ManualItems
  <2> QED BY <1>1, <2>1, ChosenType, DelegatedType, AssignedType
<1> QED BY <1>2, <1>3

-----------------------------------------------------------------------------
(* Joins and activation.                                                   *)

(* Setting the state of the workflow touches no token.                     *)
LEMMA SetWorkflowType ==
  ASSUME NEW d \in Database, NEW s \in WorkflowState
  PROVE  SetWorkflow(d, s) \in Database /\ NoHarm(d, SetWorkflow(d, s))
BY AgedType DEF SetWorkflow, Database, NoHarm

(* Cancelling branches makes no activity dormant.                          *)
LEMMA CancelType ==
  ASSUME NEW d \in Database, NEW a \in Activity
  PROVE  /\ CancelRemainingBranches(d, a) \in Database
         /\ NoHarm(d, CancelRemainingBranches(d, a))
         /\ d.act[a] # "dormant" => CancelRemainingBranches(d, a).act[a] # "dormant"
<1>1. CancelRemainingBranches(d, a) \in Database
  BY SetItemsType DEF CancelRemainingBranches, Database, ActivityState, ItemState
<1>2. NoHarm(d, CancelRemainingBranches(d, a))
  BY DEF CancelRemainingBranches, Database, NoHarm
<1> QED BY <1>1, <1>2 DEF NoHarm

(* Consuming the tokens of a join activates it and harms no other.         *)
LEMMA ConsumeType ==
  ASSUME NEW d \in Database, NEW a \in Activity
  PROVE  /\ Consume(d, a) \in Database
         /\ NoHarm(d, Consume(d, a))
         /\ Consume(d, a).act[a] # "dormant"
<1> DEFINE flows == {d.tok[a][i] : i \in DOMAIN d.tok[a]}
           act   == [d.act EXCEPT ![a] = "active"]
           tok   == [d.tok EXCEPT ![a] = <<>>]
           used  == d.used \cup flows
<1>1. flows \subseteq Flow
  <2>1. d.tok[a] \in Seq(Flow)
    BY DEF Database
  <2> QED BY <2>1
<1>2. act \in [Activity -> ActivityState]
  BY DEF Database, ActivityState
<1>3. tok \in [Activity -> Seq(Flow)]
  <2>1. <<>> \in Seq(Flow)
    OBVIOUS
  <2> QED BY <2>1 DEF Database
<1>4. used \subseteq Flow
  BY <1>1 DEF Database
<1>5. Consume(d, a) = [d EXCEPT !.act = act, !.tok = tok, !.used = used]
  BY DEF Consume
<1>6. \A b \in Activity : b # a => act[b] = d.act[b] /\ tok[b] = d.tok[b]
  BY DEF Database
<1>7. act[a] = "active" /\ tok[a] = <<>>
  BY DEF Database
<1> HIDE DEF act, tok, used
<1>8. Consume(d, a) \in Database
  BY <1>2, <1>3, <1>4, <1>5 DEF Database
<1>9. /\ Consume(d, a).act = act
      /\ Consume(d, a).tok = tok
      /\ Consume(d, a).clock = d.clock
  BY <1>5 DEF Database
<1> QED BY <1>6, <1>7, <1>8, <1>9 DEF NoHarm

(* So does its activation as a join, cancelling or not.                    *)
LEMMA JoinType ==
  ASSUME NEW d \in Database, NEW a \in Activity
  PROVE  /\ Join(d, a) \in Database
         /\ NoHarm(d, Join(d, a))
         /\ Join(d, a).act[a] # "dormant"
BY ConsumeType, CancelType, HarmlessChain DEF Join

(* A transaction with other rows is a transaction.                         *)
LEMMA WithDatabase ==
  ASSUME NEW t \in Transaction, NEW d \in Database
  PROVE  /\ [t EXCEPT !.db = d] \in Transaction
         /\ [t EXCEPT !.db = d].db = d
BY DEF Transaction

(* An exception leaves the rows to the session.                            *)
LEMMA RaiseType ==
  ASSUME NEW t \in Transaction
  PROVE  Raise(t) \in Transaction /\ Raise(t).db = t.db
BY DEF Raise, Transaction

(* Transaction u is t with activity a activated.                           *)
Activates(t, a, u) ==
  /\ u \in Transaction
  /\ NoHarm(t.db, u.db)
  /\ u.db.act[a] # "dormant"

(* A manual activity is activated: it gets items and no join is forgotten. *)
LEMMA ActivateManualType ==
  ASSUME NEW t \in Transaction, NEW a \in Activity
  PROVE  Activates(t, a, ActivateManual(t, a))
<1> DEFINE j    == Join(t.db, a)
           item == [j.item EXCEPT ![a] = @ \o ManualItems(t, a)]
           idx  == [j.idx EXCEPT ![a] = IF PerformedBy(a) = "sequential" /\ Performers(a) # <<>>
                                        THEN 0 ELSE @]
           next == IF Selected(t, a) THEN None ELSE t.next
           ok   == t.ok /\ MayDelegate(t, a)
           d    == [j EXCEPT !.item = item, !.idx = idx]
<1>1. t.db \in Database
  BY DEF Transaction
<1>2. j \in Database /\ NoHarm(t.db, j) /\ j.act[a] # "dormant"
  BY <1>1, JoinType
<1>3. ActivateManual(t, a) = [t EXCEPT !.db = d, !.next = next, !.ok = ok]
  BY DEF ActivateManual
<1> HIDE DEF j
<1>4. item \in [Activity -> Seq(Item)]
  <2>1. j.item \in [Activity -> Seq(Item)] /\ ManualItems(t, a) \in Seq(Item)
    BY <1>2, ManualItemsType DEF Database
  <2>2. j.item[a] \o ManualItems(t, a) \in Seq(Item)
    BY <2>1
  <2> QED BY <2>1, <2>2
<1>5. idx \in Places
  BY <1>2 DEF Database, Places
<1>6. next \in User \cup {None} /\ ok \in BOOLEAN
  <2>1. MayDelegate(t, a) \in BOOLEAN
    BY DEF MayDelegate
  <2> QED BY <2>1 DEF Transaction
<1> HIDE DEF item, idx, next, ok
<1>7. d \in Database /\ d.act = j.act /\ d.tok = j.tok /\ d.clock = j.clock
  BY <1>2, <1>4, <1>5 DEF Database
<1> HIDE DEF d
<1>8. [t EXCEPT !.db = d, !.next = next, !.ok = ok] \in Transaction
      /\ [t EXCEPT !.db = d, !.next = next, !.ok = ok].db = d
  BY <1>6, <1>7 DEF Transaction
<1> QED BY <1>2, <1>3, <1>7, <1>8 DEF Activates, NoHarm

(* So is a sub-workflow, within the nesting limit or in error beyond it.   *)
LEMMA ActivateSubWorkflowType ==
  ASSUME NEW t \in Transaction, NEW a \in Activity
  PROVE  Activates(t, a, ActivateSubWorkflow(t, a))
<1> DEFINE j     == Join(t.db, a)
           act   == [j.act EXCEPT ![a] = "error"]
           child == [j.child EXCEPT ![a] = @ + 1]
<1>1. t.db \in Database
  BY DEF Transaction
<1>2. j \in Database /\ NoHarm(t.db, j) /\ j.act[a] # "dormant"
  BY <1>1, JoinType
<1>3. \/ ActivateSubWorkflow(t, a) = [t EXCEPT !.db = [j EXCEPT !.act = act]]
      \/ ActivateSubWorkflow(t, a) = [t EXCEPT !.db = [j EXCEPT !.child = child]]
      \/ ActivateSubWorkflow(t, a) = Raise([t EXCEPT !.db = j])
  <2> DEFINE joined == [t EXCEPT !.db = j]
  <2>1. joined.db = j
    BY DEF Transaction
  <2>2. CASE Depth + 1 > MaxDepth
    <3>1. ~ (Depth + 1 <= MaxDepth)
      BY <2>2, DepthAssumption
    <3>2. ActivateSubWorkflow(t, a) = [joined EXCEPT !.db.act[a] = "error"]
      BY <2>2, <3>1 DEF ActivateSubWorkflow
    <3>3. [joined EXCEPT !.db.act[a] = "error"] = [t EXCEPT !.db = [j EXCEPT !.act = act]]
      <4> HIDE DEF j
      <4> QED BY <2>1 DEF Transaction
    <3> QED BY <3>2, <3>3
  <2>3. CASE Depth + 1 <= MaxDepth /\ t.system
    <3>1. ~ (Depth + 1 > MaxDepth)
      BY <2>3, DepthAssumption
    <3> QED BY <2>3, <3>1 DEF ActivateSubWorkflow
  <2>4. CASE Depth + 1 <= MaxDepth /\ ~t.system
    <3>1. ~ (Depth + 1 > MaxDepth)
      BY <2>4, DepthAssumption
    <3>2. ActivateSubWorkflow(t, a) = [joined EXCEPT !.db.child[a] = @ + 1]
      BY <2>4, <3>1 DEF ActivateSubWorkflow
    <3>3. [joined EXCEPT !.db.child[a] = @ + 1] = [t EXCEPT !.db = [j EXCEPT !.child = child]]
      <4> HIDE DEF j
      <4> QED BY <2>1 DEF Transaction
    <3> QED BY <3>2, <3>3
  <2> QED BY <2>2, <2>3, <2>4, DepthAssumption
<1> HIDE DEF j
<1>4. act \in [Activity -> ActivityState] /\ child \in [Activity -> Nat]
  BY <1>2 DEF Database, ActivityState
<1>5. \A b \in Activity : act[b] = "dormant" => j.act[b] = "dormant"
  BY <1>2 DEF Database
<1>6. act[a] # "dormant"
  BY <1>2 DEF Database
<1> HIDE DEF act, child
<1>7. /\ [j EXCEPT !.act = act] \in Database
      /\ NoHarm(t.db, [j EXCEPT !.act = act])
      /\ [j EXCEPT !.act = act].act[a] # "dormant"
  BY <1>2, <1>4, <1>5, <1>6 DEF Database, NoHarm
<1>8. /\ [j EXCEPT !.child = child] \in Database
      /\ NoHarm(t.db, [j EXCEPT !.child = child])
      /\ [j EXCEPT !.child = child].act[a] # "dormant"
  BY <1>2, <1>4 DEF Database, NoHarm
<1>9. Activates(t, a, Raise([t EXCEPT !.db = j]))
  BY <1>2, WithDatabase, RaiseType DEF Activates
<1>10. \A d \in Database : NoHarm(t.db, d) /\ d.act[a] # "dormant"
                           => Activates(t, a, [t EXCEPT !.db = d])
  BY WithDatabase DEF Activates
<1> QED BY <1>3, <1>7, <1>8, <1>9, <1>10

(* Every type of activity leaves "dormant" when it is activated.           *)
LEMMA ActivateType ==
  ASSUME NEW t \in Transaction, NEW a \in Activity
  PROVE  Activates(t, a, Activate(t, a))
<1> DEFINE j == Join(t.db, a)
<1>1. t.db \in Database
  BY DEF Transaction
<1>2. j \in Database /\ NoHarm(t.db, j) /\ j.act[a] # "dormant"
  BY <1>1, JoinType
<1>3. CASE Type(a) \in {"start", "end"}
  <2> DEFINE act   == [j.act EXCEPT ![a] = "complete"]
             queue == Append(t.queue, a)
             d     == [j EXCEPT !.act = act]
  <2>1. Activate(t, a) = [t EXCEPT !.db = d, !.queue = queue]
    BY <1>3 DEF Activate
  <2> HIDE DEF j
  <2>2. act \in [Activity -> ActivityState]
        /\ act[a] # "dormant"
        /\ \A b \in Activity : act[b] = "dormant" => j.act[b] = "dormant"
    BY <1>2 DEF Database, ActivityState
  <2>3. queue \in Seq(Activity)
    BY DEF Transaction
  <2> HIDE DEF act, queue
  <2>4. d \in Database /\ NoHarm(t.db, d) /\ d.act[a] # "dormant"
    BY <1>2, <2>2 DEF Database, NoHarm
  <2> HIDE DEF d
  <2>5. [t EXCEPT !.db = d, !.queue = queue] \in Transaction
        /\ [t EXCEPT !.db = d, !.queue = queue].db = d
    BY <2>3, <2>4 DEF Transaction
  <2> QED BY <2>1, <2>4, <2>5 DEF Activates
<1>4. CASE Type(a) = "manual"
  BY <1>4, ActivateManualType DEF Activate
<1>5. CASE Type(a) = "sub_workflow"
  BY <1>5, ActivateSubWorkflowType DEF Activate
<1>6. CASE Type(a) \in {"auto", "event"}
  <2>1. Activate(t, a) = [t EXCEPT !.db = j]
    BY <1>6 DEF Activate
  <2> QED BY <1>2, <2>1, WithDatabase DEF Activates
<1> QED BY <1>3, <1>4, <1>5, <1>6, TemplateTypes DEF ActivityType

(* The transactions whose rows satisfy the invariant.                      *)
Sound == {t \in Transaction : Waiting(t.db)}

(* Harmless changes of the rows keep a transaction sound.                  *)
LEMMA SoundRows ==
  ASSUME NEW t \in Sound, NEW d \in Database, NoHarm(t.db, d)
  PROVE  [t EXCEPT !.db = d] \in Sound
BY WithDatabase, HarmlessSteps DEF Sound

-----------------------------------------------------------------------------
(* The advancement loop.                                                   *)

(* Placing a token keeps a transaction sound: the only join it disturbs is *)
(* the target, which fires, or waits for more with its clock running.      *)
LEMMA FireFlowSound ==
  ASSUME NEW t \in Sound, NEW f \in Flow
  PROVE  FireFlow(t, f) \in Sound
<1> DEFINE a      == Target(f)
           tok    == [t.db.tok EXCEPT ![a] = Append(@, f)]
           d      == [t.db EXCEPT !.tok = tok]
           placed == [t EXCEPT !.db = d]
           ready  == Len(tok[a]) >= Needed(a)
           clock  == t.db.clock \cup {a}
           timed  == [d EXCEPT !.clock = clock]
<1>1. t \in Transaction /\ t.db \in Database /\ Waiting(t.db) /\ a \in Activity
  BY TemplateTypes DEF Sound, Transaction
<1>2. tok \in [Activity -> Seq(Flow)]
  BY <1>1 DEF Database
<1>3. \A b \in Activity : b # a => tok[b] = t.db.tok[b]
  BY <1>1 DEF Database
<1>4. Len(tok[a]) \in Nat /\ Needed(a) \in Nat
  <2>1. tok[a] \in Seq(Flow)
    BY <1>1, <1>2
  <2> QED BY <1>1, <2>1, NeededType
<1>5. /\ placed.db = d
      /\ placed.db.tok = tok
      /\ [placed EXCEPT !.db.clock = @ \cup {a}] = [t EXCEPT !.db = timed]
  <2> HIDE DEF tok, a
  <2> QED BY <1>1 DEF Transaction, Database
<1>6. FireFlow(t, f) = IF ready THEN IF t.db.act[a] = "dormant" THEN Activate(placed, a) ELSE placed
                       ELSE IF Trigger(a) = "timeout_join" THEN [t EXCEPT !.db = timed] ELSE placed
  <2>1. placed = [t EXCEPT !.db.tok[a] = Append(@, f)]
    BY <1>1 DEF Transaction, Database
  <2> HIDE DEF placed, tok
  <2> QED BY <1>5, <2>1 DEF FireFlow
<1> HIDE DEF tok, a
<1>7. /\ d \in Database
      /\ d.act = t.db.act
      /\ d.tok = tok
      /\ d.clock = t.db.clock
  BY <1>1, <1>2 DEF Database
<1>8. \A b \in Activity : b # a => Waits(d, b)
  BY <1>1, <1>3, <1>7 DEF Waiting, Waits
<1> HIDE DEF d
<1>9. placed \in Transaction /\ placed.db = d
  BY <1>1, <1>7, WithDatabase
<1>10. CASE ready /\ t.db.act[a] = "dormant"
  <2>1. FireFlow(t, f) = Activate(placed, a)
    BY <1>6, <1>10
  <2>2. Activates(placed, a, Activate(placed, a))
    BY <1>1, <1>9, ActivateType
  <2> DEFINE e == Activate(placed, a).db
  <2>3. NoHarm(d, e) /\ e.act[a] # "dormant" /\ Activate(placed, a) \in Transaction
    BY <1>9, <2>2 DEF Activates
  <2>4. \A b \in Activity : Waits(e, b)
    <3> HIDE DEF e
    <3> QED BY <1>8, <2>3 DEF NoHarm, Waits
  <2> QED BY <2>1, <2>3, <2>4 DEF Sound, Waiting
<1>11. CASE ready /\ t.db.act[a] # "dormant"
  <2>1. FireFlow(t, f) = placed
    BY <1>6, <1>11
  <2>2. Waits(d, a)
    BY <1>7, <1>11 DEF Waits
  <2> QED BY <1>8, <1>9, <2>1, <2>2 DEF Sound, Waiting
<1>12. CASE ~ready /\ Trigger(a) # "timeout_join"
  <2>1. FireFlow(t, f) = placed
    BY <1>6, <1>12
  <2>2. Waits(d, a)
    BY <1>4, <1>7, <1>12 DEF Waits
  <2> QED BY <1>8, <1>9, <2>1, <2>2 DEF Sound, Waiting
<1>13. CASE ~ready /\ Trigger(a) = "timeout_join"
  <2>1. FireFlow(t, f) = [t EXCEPT !.db = timed]
    BY <1>6, <1>13
  <2>2. timed \in Database /\ timed.act = d.act /\ timed.tok = tok /\ timed.clock = d.clock \cup {a}
    BY <1>1, <1>7 DEF Database
  <2>3. Waits(timed, a)
    BY <1>4, <1>13, <2>2 DEF Waits
  <2>4. \A b \in Activity : b # a => Waits(timed, b)
    BY <1>7, <1>8, <2>2 DEF Waits
  <2> HIDE DEF timed
  <2> QED BY <1>1, <2>1, <2>2, <2>3, <2>4, WithDatabase DEF Sound, Waiting
<1> QED BY <1>10, <1>11, <1>12, <1>13

(* So does placing the tokens of several flows.                            *)
LEMMA FireFlowsSound ==
  ASSUME NEW t \in Sound, NEW flows
  PROVE  FireFlows(t, flows) \in Sound
<1> DEFINE F == [f \in Flow |-> [x \in Transaction |->
                    IF x.ok /\ f \in flows THEN FireFlow(x, f) ELSE x]]
           n == Len(Template.flow)
<1>1. n \in Nat /\ Flow = 1..n
  BY TemplateTypes
<1>2. \A x \in Sound, f \in 1..n : F[f][x] \in Sound
  <2>1. SUFFICES ASSUME NEW x \in Sound, NEW f \in Flow PROVE F[f][x] \in Sound
    BY <1>1
  <2>2. x \in Transaction
    BY DEF Sound
  <2>3. F[f][x] = IF x.ok /\ f \in flows THEN FireFlow(x, f) ELSE x
    BY <2>2
  <2> QED BY <2>3, FireFlowSound
<1>3. Iterate(F, t, n) \in Sound
  <2> HIDE DEF F, n
  <2> QED BY <1>1, <1>2, IterateClosed
<1> QED BY <1>3 DEF FireFlows

(* Ending the workflow keeps a transaction sound.                          *)
LEMMA ConcludeSound ==
  ASSUME NEW t \in Sound, NEW a \in Activity
  PROVE  Conclude(t, a) \in Sound
<1>1. t \in Transaction /\ t.db \in Database /\ Waiting(t.db)
  BY DEF Sound, Transaction
<1>2. Raise(t) \in Sound
  BY <1>1, RaiseType DEF Sound
<1>3. [t EXCEPT !.db = SetWorkflow(@, "finished")] \in Sound
  BY <1>1, SetWorkflowType, SoundRows DEF WorkflowState
<1> QED BY <1>1, <1>2, <1>3 DEF Conclude

(* One round of the advancement loop keeps a transaction sound.            *)
LEMMA RoundSound ==
  ASSUME NEW t \in Sound
  PROVE  Round(t) \in Sound
<1>1. SUFFICES ASSUME t.queue # <<>> PROVE ProcessHead(t) \in Sound
  BY DEF Round
<1> DEFINE a    == Head(t.queue)
           rest == [t EXCEPT !.queue = Tail(@), !.path = ""]
<1>2. t \in Transaction /\ Waiting(t.db) /\ t.queue \in Seq(Activity)
  BY DEF Sound, Transaction
<1>3. a \in Activity /\ Tail(t.queue) \in Seq(Activity)
  BY <1>1, <1>2
<1>4. rest \in Sound
  <2> DEFINE queue == Tail(t.queue)
  <2>1. queue \in Seq(Activity) /\ "" \in Label
    BY <1>3 DEF Label
  <2>2. rest = [t EXCEPT !.queue = queue, !.path = ""]
    OBVIOUS
  <2> HIDE DEF queue, rest
  <2>3. rest \in Transaction /\ rest.db = t.db
    BY <1>2, <2>1, <2>2 DEF Transaction
  <2> QED BY <1>2, <2>3 DEF Sound
<1>5. Raise(rest) \in Sound
  BY <1>4, RaiseType DEF Sound
<1>6. \/ ProcessHead(t) = FireFlows(rest, FiringFlows(t, a))
      \/ ProcessHead(t) = Raise(rest)
      \/ ProcessHead(t) = Conclude(rest, a)
  BY DEF ProcessHead
<1> HIDE DEF rest, a
<1> QED BY <1>3, <1>4, <1>5, <1>6, FireFlowsSound, ConcludeSound

(* There is a greatest completion order: there are finitely many.          *)
LEMMA MaxOrderType ==
  ASSUME NEW d \in Database
  PROVE  MaxOrder(d) \in Nat /\ \A a \in Activity : d.order[a] <= MaxOrder(d)
<1> DEFINE orders   == {d.order[a] : a \in Activity}
           above(m) == {k \in orders : k > m}
           T        == {above(m) : m \in orders}
<1>1. orders \subseteq Nat
  BY DEF Database
<1>2. IsFiniteSet(orders)
  <2>1. d.order \in Surjection(Activity, orders)
    BY DEF Database, Surjection
  <2> QED BY <2>1, TemplateAssumption, FS_Surjection
<1>3. orders # {}
  BY ValidTemplateAssumption
<1>4. T \subseteq FiniteSubsetsOf(Nat) /\ T # {}
  <2>1. \A m \in orders : IsFiniteSet(above(m)) /\ above(m) \subseteq Nat
    BY <1>1, <1>2, FS_Subset
  <2> QED BY <1>3, <2>1 DEF FiniteSubsetsOf
<1>5. PICK X \in T : \A Y \in T : ~ (<<Y, X>> \in StrictSubsetOrdering(Nat))
  BY <1>4, FS_StrictSubsetOrderingWellFounded, WFMin
<1>6. PICK m \in orders : X = above(m)
  BY <1>5
<1>7. ASSUME NEW k \in orders, k > m PROVE FALSE
  <2>1. above(k) \subseteq above(m)
    <3>1. SUFFICES ASSUME NEW j \in orders, j > k PROVE j > m
      OBVIOUS
    <3>2. j \in Nat /\ k \in Nat /\ m \in Nat
      BY <1>1
    <3> QED BY <1>7, <3>1, <3>2
  <2>4. k \in above(m) /\ k \notin above(k)
    <3>1. k \in Nat
      BY <1>1
    <3> QED BY <1>7, <3>1
  <2>2. above(m) \subseteq Nat
    BY <1>1
  <2>3. <<above(k), X>> \in StrictSubsetOrdering(Nat)
    BY <1>6, <2>1, <2>2, <2>4 DEF StrictSubsetOrdering
  <2> QED BY <1>5, <2>3
<1>8. \A a \in Activity : d.order[a] <= m
  <2>1. SUFFICES ASSUME NEW a \in Activity PROVE d.order[a] <= m
    OBVIOUS
  <2>2. d.order[a] \in orders
    OBVIOUS
  <2>3. d.order[a] \in Nat /\ m \in Nat /\ ~ (d.order[a] > m)
    BY <1>1, <1>7, <2>2
  <2> QED BY <2>3
<1>9. MaxOrder(d) \in orders /\ \A a \in Activity : d.order[a] <= MaxOrder(d)
  <2>1. \E k \in orders : \A a \in Activity : d.order[a] <= k
    BY <1>8
  <2> QED BY <2>1 DEF MaxOrder
<1> QED BY <1>1, <1>9

(* Completing an activity keeps a transaction sound.                       *)
LEMMA CompletedSound ==
  ASSUME NEW t \in Sound, NEW a \in Activity
  PROVE  Completed(t, a) \in Sound
<1> DEFINE act   == [t.db.act EXCEPT ![a] = "complete"]
           order == [t.db.order EXCEPT ![a] = MaxOrder(t.db) + 1]
           d     == [t.db EXCEPT !.act = act, !.order = order]
           queue == <<a>>
<1>1. t \in Transaction /\ t.db \in Database /\ Waiting(t.db)
  BY DEF Sound, Transaction
<1>2. Completed(t, a) = [t EXCEPT !.db = d, !.queue = queue]
  <2> DEFINE m == MaxOrder(t.db) + 1
  <2> HIDE DEF m
  <2>1. [t EXCEPT !.db.act[a] = "complete", !.db.order[a] = m, !.queue = queue]
        = [t EXCEPT !.db = [t.db EXCEPT !.act = [t.db.act EXCEPT ![a] = "complete"],
                                        !.order = [t.db.order EXCEPT ![a] = m]],
                    !.queue = queue]
    BY <1>1 DEF Transaction, Database
  <2> QED BY <2>1 DEF Completed, m
<1>3. act \in [Activity -> ActivityState]
      /\ \A b \in Activity : act[b] = "dormant" => t.db.act[b] = "dormant"
  BY <1>1 DEF Database, ActivityState
<1>4. order \in [Activity -> Nat]
  <2>1. MaxOrder(t.db) + 1 \in Nat
    BY <1>1, MaxOrderType
  <2> QED BY <1>1, <2>1 DEF Database
<1>5. queue \in Seq(Activity)
  OBVIOUS
<1> HIDE DEF act, order, queue
<1>6. d \in Database /\ NoHarm(t.db, d)
  BY <1>1, <1>3, <1>4 DEF Database, NoHarm
<1> HIDE DEF d
<1>7. [t EXCEPT !.db = d, !.queue = queue] \in Transaction
      /\ [t EXCEPT !.db = d, !.queue = queue].db = d
  BY <1>1, <1>5, <1>6 DEF Transaction
<1> QED BY <1>1, <1>2, <1>6, <1>7, HarmlessSteps DEF Sound

(* An exception keeps a transaction sound.                                 *)
LEMMA RaiseSound ==
  ASSUME NEW t \in Sound
  PROVE  Raise(t) \in Sound
BY RaiseType DEF Sound

(* _advance_from_activity keeps a transaction sound.                       *)
LEMMA AdvanceSound ==
  ASSUME NEW t \in Sound, NEW a \in Activity
  PROVE  AdvanceFromActivity(t, a) \in Sound
<1> DEFINE n == Cardinality(Activity)
           F == [k \in 1..n |-> [x \in Transaction |-> Round(x)]]
<1>1. n \in Nat
  BY TemplateAssumption, FS_CardinalityType
<1>2. \A x \in Sound, k \in 1..n : F[k][x] \in Sound
  BY RoundSound DEF Sound
<1>3. Iterate(F, Completed(t, a), n) \in Sound
  <2> HIDE DEF F, n
  <2> QED BY <1>1, <1>2, CompletedSound, IterateClosed
<1>4. AnnounceItems(Iterate(F, Completed(t, a), n)) \in Sound
  <2> HIDE DEF F, n
  <2> QED BY <1>3, RaiseSound DEF AnnounceItems
<1> QED BY <1>4, RaiseSound DEF AdvanceFromActivity

-----------------------------------------------------------------------------
(* Work items that are completed or rejected, handlers, compensation.      *)

(* Other items touch no token.                                             *)
LEMMA WithItems ==
  ASSUME NEW d \in Database, NEW item \in [Activity -> Seq(Item)]
  PROVE  [d EXCEPT !.item = item] \in Database /\ NoHarm(d, [d EXCEPT !.item = item])
BY DEF Database, NoHarm

(* Appending an item leaves items.                                         *)
LEMMA AppendItem ==
  ASSUME NEW item \in [Activity -> Seq(Item)], NEW a \in Activity, NEW it \in Item
  PROVE  [item EXCEPT ![a] = Append(@, it)] \in [Activity -> Seq(Item)]
<1>1. Append(item[a], it) \in Seq(Item)
  OBVIOUS
<1> QED BY <1>1

(* Handing a sequential activity on stays within the list of performers.   *)
LEMMA PassOnType ==
  ASSUME NEW d \in Database, NEW a \in Activity, NEW n \in Nat, n < Len(Performers(a))
  PROVE  PassOn(d, a, n) \in Database /\ NoHarm(d, PassOn(d, a, n))
<1> DEFINE idx  == [d.idx EXCEPT ![a] = n]
           it   == NewItem(Performers(a)[n + 1])
           item == [d.item EXCEPT ![a] = Append(@, it)]
<1>1. idx \in Places
  BY DEF Database, Places
<1>2. it \in Item
  <2>1. n + 1 \in DOMAIN Performers(a)
    BY TemplateTypes
  <2> QED BY <2>1, TemplateTypes, NewItemType
<1>3. PassOn(d, a, n) = [d EXCEPT !.idx = idx, !.item = item]
  BY DEF PassOn
<1> HIDE DEF idx, it
<1>4. item \in [Activity -> Seq(Item)]
  BY <1>2, AppendItem DEF Database
<1> HIDE DEF item
<1> QED BY <1>1, <1>3, <1>4 DEF Database, NoHarm

(* Setting the state of one item touches no token.                         *)
LEMMA SetItemType ==
  ASSUME NEW d \in Database, NEW a \in Activity, NEW i \in DOMAIN d.item[a],
         NEW s \in ItemState
  PROVE  /\ [d EXCEPT !.item[a][i].state = s] \in Database
         /\ NoHarm(d, [d EXCEPT !.item[a][i].state = s])
         /\ [d EXCEPT !.item[a][i].state = s].idx = d.idx
<1> DEFINE it    == [d.item[a][i] EXCEPT !.state = s]
           items == [d.item[a] EXCEPT ![i] = it]
           item  == [d.item EXCEPT ![a] = items]
<1>1. d.item \in [Activity -> Seq(Item)] /\ d.item[a] \in Seq(Item) /\ d.item[a][i] \in Item
  BY DEF Database
<1>2. it \in Item
  BY <1>1 DEF Item
<1>3. [d EXCEPT !.item[a][i].state = s] = [d EXCEPT !.item = item]
  OBVIOUS
<1> HIDE DEF it
<1>4. items \in Seq(Item)
  BY <1>1, <1>2
<1> HIDE DEF items
<1>5. item \in [Activity -> Seq(Item)]
  BY <1>1, <1>4
<1> HIDE DEF item
<1>6. [d EXCEPT !.item = item].idx = d.idx
  BY DEF Database
<1> QED BY <1>3, <1>5, <1>6, WithItems

(* complete_work_item keeps a transaction sound.                           *)
LEMMA CompleteWorkItemSound ==
  ASSUME NEW t \in Sound, NEW a \in Activity, NEW i \in DOMAIN t.db.item[a],
         NEW v \in Valuation
  PROVE  CompleteWorkItem(t, a, i, v) \in Sound
<1> DEFINE c == [t.db EXCEPT !.item[a][i].state = "complete"]
           d == [c EXCEPT !.var = v]
<1>1. t \in Transaction /\ t.db \in Database /\ Waiting(t.db)
  BY DEF Sound, Transaction
<1>2. c \in Database /\ NoHarm(t.db, c)
  BY <1>1, SetItemType DEF ItemState
<1>3. [t.db EXCEPT !.item[a][i].state = "complete", !.var = v] = d
  OBVIOUS
<1> HIDE DEF c
<1>4. d \in Database /\ NoHarm(t.db, d)
  BY <1>2 DEF Database, NoHarm
<1> HIDE DEF d
<1>5. [t EXCEPT !.db = d] \in Sound
  BY <1>4, SoundRows
<1>6. AdvanceFromActivity([t EXCEPT !.db = d], a) \in Sound
  BY <1>5, AdvanceSound
<1>7. ASSUME d.idx[a] + 1 < Len(Performers(a))
      PROVE  [t EXCEPT !.db = PassOn(d, a, d.idx[a] + 1)] \in Sound
  <2>1. d.idx[a] + 1 \in Nat
    BY <1>4 DEF Database, Places
  <2>2. PassOn(d, a, d.idx[a] + 1) \in Database /\ NoHarm(d, PassOn(d, a, d.idx[a] + 1))
    BY <1>4, <1>7, <2>1, PassOnType
  <2> QED BY <1>4, <2>2, HarmlessChain, SoundRows
<1>8. Raise(t) \in Sound
  BY RaiseSound
<1>9. CASE t.db.wf # "running" \/ t.db.item[a][i].state = "complete"
  BY <1>8, <1>9 DEF CompleteWorkItem
<1>10. CASE ~ (t.db.wf # "running" \/ t.db.item[a][i].state = "complete")
  <2>1. \/ CompleteWorkItem(t, a, i, v) = Raise(t)
        \/ CompleteWorkItem(t, a, i, v) = AdvanceFromActivity([t EXCEPT !.db = d], a)
        \/ /\ d.idx[a] + 1 < Len(Performers(a))
           /\ CompleteWorkItem(t, a, i, v) = [t EXCEPT !.db = PassOn(d, a, d.idx[a] + 1)]
    BY <1>3, <1>10, Zenon DEF CompleteWorkItem
  <2> QED BY <1>6, <1>7, <1>8, <2>1
<1> QED BY <1>9, <1>10

(* Reject flows make no activity dormant.                                  *)
LEMMA FollowRejectsType ==
  ASSUME NEW d \in Database, NEW flows \in SUBSET Flow
  PROVE  FollowRejects(d, flows) \in Database /\ NoHarm(d, FollowRejects(d, flows))
<1> DEFINE redo == {Target(f) : f \in flows}
           act  == [b \in Activity |-> IF b \in redo THEN "active" ELSE d.act[b]]
           item == [b \in Activity |-> IF b \in redo THEN d.item[b] \o Assigned(Resolved(b))
                                       ELSE d.item[b]]
           used == d.used \cup flows
<1>1. FollowRejects(d, flows) = [d EXCEPT !.act = act, !.item = item, !.used = used]
  BY DEF FollowRejects
<1>2. act \in [Activity -> ActivityState]
      /\ \A b \in Activity : act[b] = "dormant" => d.act[b] = "dormant"
  BY DEF Database, ActivityState
<1>3. item \in [Activity -> Seq(Item)]
  <2>1. SUFFICES ASSUME NEW b \in Activity
        PROVE  d.item[b] \in Seq(Item) /\ d.item[b] \o Assigned(Resolved(b)) \in Seq(Item)
    OBVIOUS
  <2>2. d.item[b] \in Seq(Item)
    BY DEF Database
  <2>3. Resolved(b) \in Seq(User \cup {None})
    BY TemplateTypes DEF Resolved
  <2> QED BY <2>2, <2>3, AssignedType
<1>4. used \in SUBSET Flow
  BY DEF Database
<1> HIDE DEF act, item, used
<1> QED BY <1>1, <1>2, <1>3, <1>4 DEF Database, NoHarm

(* reject_work_item keeps a transaction sound.                             *)
LEMMA RejectWorkItemSound ==
  ASSUME NEW t \in Sound, NEW a \in Activity, NEW i \in DOMAIN t.db.item[a]
  PROVE  RejectWorkItem(t, a, i) \in Sound
<1> DEFINE d     == [t.db EXCEPT !.item[a][i].state = "rejected"]
           flows == FlowsFrom(a, "reject")
<1>1. t \in Transaction /\ t.db \in Database /\ Waiting(t.db)
  BY DEF Sound, Transaction
<1>2. d \in Database /\ NoHarm(t.db, d)
  BY <1>1, SetItemType DEF ItemState
<1>3. Raise(t) \in Sound
  BY RaiseSound
<1>4. \/ RejectWorkItem(t, a, i) = Raise(t)
      \/ /\ d.idx[a] > 0
         /\ RejectWorkItem(t, a, i) = [t EXCEPT !.db = PassOn(d, a, d.idx[a] - 1)]
      \/ RejectWorkItem(t, a, i) = [t EXCEPT !.db = FollowRejects(d, flows)]
  <2>1. CASE t.db.wf # "running" \/ t.db.item[a][i].state # "acquired"
    BY <2>1, Zenon DEF RejectWorkItem
  <2>2. CASE ~ (t.db.wf # "running" \/ t.db.item[a][i].state # "acquired")
    BY <2>2, Zenon DEF RejectWorkItem
  <2> QED BY <2>1, <2>2
<1> HIDE DEF d
<1>5. ASSUME d.idx[a] > 0 PROVE [t EXCEPT !.db = PassOn(d, a, d.idx[a] - 1)] \in Sound
  <2>1. d.idx[a] - 1 \in Nat /\ d.idx[a] - 1 < Len(Performers(a))
    <3>1. d.idx[a] \in Nat /\ d.idx[a] < Len(Performers(a))
      BY <1>2, <1>5 DEF Database, Places
    <3>2. Len(Performers(a)) \in Nat
      BY TemplateTypes
    <3> QED BY <1>5, <3>1, <3>2
  <2>2. PassOn(d, a, d.idx[a] - 1) \in Database /\ NoHarm(d, PassOn(d, a, d.idx[a] - 1))
    BY <1>2, <2>1, PassOnType
  <2> QED BY <1>2, <2>2, HarmlessChain, SoundRows
<1>6. [t EXCEPT !.db = FollowRejects(d, flows)] \in Sound
  <2>1. flows \in SUBSET Flow
    BY DEF FlowsFrom
  <2> HIDE DEF flows
  <2> QED BY <1>2, <2>1, FollowRejectsType, HarmlessChain, SoundRows
<1> QED BY <1>3, <1>4, <1>5, <1>6

(* Handlers and compensations that start make no activity dormant.         *)
LEMMA RouseType ==
  ASSUME NEW d \in Database, NEW S
  PROVE  Rouse(d, S) \in Database /\ NoHarm(d, Rouse(d, S))
<1> DEFINE roused == {b \in S : d.act[b] = "dormant"}
           act    == [b \in Activity |-> IF b \in roused THEN "active" ELSE d.act[b]]
           item   == [b \in Activity |-> IF b \in roused /\ Type(b) = "manual"
                                         THEN d.item[b] \o Assigned(Resolved(b)) ELSE d.item[b]]
<1>1. Rouse(d, S) = [d EXCEPT !.act = act, !.item = item]
  BY DEF Rouse
<1>2. act \in [Activity -> ActivityState]
      /\ \A b \in Activity : act[b] = "dormant" => d.act[b] = "dormant"
  BY DEF Database, ActivityState
<1>3. item \in [Activity -> Seq(Item)]
  <2>1. SUFFICES ASSUME NEW b \in Activity
        PROVE  d.item[b] \in Seq(Item) /\ d.item[b] \o Assigned(Resolved(b)) \in Seq(Item)
    OBVIOUS
  <2>2. d.item[b] \in Seq(Item)
    BY DEF Database
  <2>3. Resolved(b) \in Seq(User \cup {None})
    BY TemplateTypes DEF Resolved
  <2> QED BY <2>2, <2>3, AssignedType
<1> HIDE DEF act, item
<1> QED BY <1>1, <1>2, <1>3 DEF Database, NoHarm

(* Setting an activity to a state other than dormant is harmless.          *)
LEMMA SetActivityType ==
  ASSUME NEW d \in Database, NEW a \in Activity, NEW s \in ActivityState \ {"dormant"}
  PROVE  /\ [d EXCEPT !.act[a] = s] \in Database
         /\ NoHarm(d, [d EXCEPT !.act[a] = s])
<1> DEFINE act == [d.act EXCEPT ![a] = s]
<1>1. act \in [Activity -> ActivityState]
      /\ \A b \in Activity : act[b] = "dormant" => d.act[b] = "dormant"
  BY DEF Database
<1> HIDE DEF act
<1>2. [d EXCEPT !.act = act] \in Database /\ NoHarm(d, [d EXCEPT !.act = act])
  BY <1>1 DEF Database, NoHarm
<1> QED BY <1>2 DEF act

(* handle_activity_error is harmless.                                      *)
LEMMA HandleActivityErrorType ==
  ASSUME NEW d \in Database, NEW a \in Activity
  PROVE  HandleActivityError(d, a) \in Database /\ NoHarm(d, HandleActivityError(d, a))
<1> DEFINE e == [d EXCEPT !.act[a] = "error"]
<1>1. e \in Database /\ NoHarm(d, e)
  BY SetActivityType DEF ActivityState
<1>2. HandleActivityError(d, a) = Rouse(e, {Handler(a)}) \/ HandleActivityError(d, a) = d
  BY DEF HandleActivityError
<1> HIDE DEF e
<1>3. NoHarm(d, d)
  BY DEF NoHarm
<1> QED BY <1>1, <1>2, <1>3, RouseType, HarmlessChain

(* execute_compensation is harmless.                                       *)
LEMMA ExecuteCompensationType ==
  ASSUME NEW d \in Database
  PROVE  ExecuteCompensation(d) \in Database /\ NoHarm(d, ExecuteCompensation(d))
<1> DEFINE started == Rouse(d, {Compensation(a) : a \in Compensatable(d)})
<1>1. started \in Database /\ NoHarm(d, started)
  BY RouseType
<1>2. \/ ExecuteCompensation(d) = d
      \/ ExecuteCompensation(d) = started
      \/ ExecuteCompensation(d) = SetWorkflow(started, "halted")
  BY DEF ExecuteCompensation
<1> HIDE DEF started
<1>3. NoHarm(d, d)
  BY DEF NoHarm
<1> QED BY <1>1, <1>2, <1>3, SetWorkflowType, HarmlessChain DEF WorkflowState

(* Suspending, resuming and closing items is harmless.                     *)
LEMMA MarkType ==
  ASSUME NEW d \in Database, NEW S, NEW s \in ItemState
  PROVE  Mark(d, S, s) \in Database /\ NoHarm(d, Mark(d, S, s))
<1> DEFINE item == [a \in Activity |-> SetItems(d.item[a], S, s)]
<1>1. item \in [Activity -> Seq(Item)]
  BY SetItemsType DEF Database
<1>2. Mark(d, S, s) = [d EXCEPT !.item = item]
  BY DEF Mark
<1> HIDE DEF item
<1> QED BY <1>1, <1>2, WithItems

(* Logging an execution is harmless.                                       *)
LEMMA LoggedType ==
  ASSUME NEW d \in Database, NEW a \in Activity
  PROVE  Logged(d, a) \in Database /\ NoHarm(d, Logged(d, a))
<1> DEFINE logs == [d.logs EXCEPT ![a] = IF @ < MaxAttempts THEN @ + 1 ELSE @]
<1>1. logs \in [Activity -> Nat]
  BY DEF Database
<1>2. Logged(d, a) = [d EXCEPT !.logs = logs]
  BY DEF Logged
<1> HIDE DEF logs
<1> QED BY <1>1, <1>2 DEF Database, NoHarm

(* The timeout check is harmless: what it empties it activates.            *)
LEMMA ForceFireType ==
  ASSUME NEW d \in Database, NEW S \in SUBSET Activity
  PROVE  ForceFire(d, S) \in Database /\ NoHarm(d, ForceFire(d, S))
<1> DEFINE act   == [a \in Activity |-> IF a \in S THEN "active" ELSE d.act[a]]
           tok   == [a \in Activity |-> IF a \in S THEN <<>> ELSE d.tok[a]]
           flows == UNION {{d.tok[a][i] : i \in DOMAIN d.tok[a]} : a \in S}
           used  == d.used \cup flows
<1>1. ForceFire(d, S) = [d EXCEPT !.act = act, !.tok = tok, !.used = used]
  BY DEF ForceFire
<1>2. act \in [Activity -> ActivityState]
      /\ \A b \in Activity : act[b] = "dormant" => d.act[b] = "dormant"
  BY DEF Database, ActivityState
<1>3. /\ tok \in [Activity -> Seq(Flow)]
      /\ \A b \in Activity : tok[b] \in {d.tok[b], <<>>}
  <2>1. <<>> \in Seq(Flow)
    OBVIOUS
  <2> QED BY <2>1 DEF Database
<1>4. used \in SUBSET Flow
  <2>1. \A a \in S : \A i \in DOMAIN d.tok[a] : d.tok[a][i] \in Flow
    <3>1. SUFFICES ASSUME NEW a \in S PROVE \A i \in DOMAIN d.tok[a] : d.tok[a][i] \in Flow
      OBVIOUS
    <3>2. d.tok[a] \in Seq(Flow)
      BY DEF Database
    <3> QED BY <3>2
  <2>2. d.used \subseteq Flow
    BY DEF Database
  <2> QED BY <2>1, <2>2
<1> HIDE DEF act, tok, used
<1> QED BY <1>1, <1>2, <1>3, <1>4 DEF Database, NoHarm

(* The invariant of the system.                                            *)
Inv == TypeOK /\ Waiting(db)

(* A request that reads sound rows starts as a sound transaction.          *)
LEMMA TransactSound ==
  ASSUME Inv, NEW d \in Database, Waiting(d), NEW p \in Label, NEW n \in User \cup {None},
         NEW o \in [Activity -> User \cup {None}], NEW s \in BOOLEAN
  PROVE  /\ Transact(d, p, n, o, s) \in Sound
         /\ Transact(d, p, n, o, s).db = d
<1>1. <<>> \in Seq(Activity)
  OBVIOUS
<1>2. delegate \in [User -> User \cup {None}]
  BY DEF Inv, TypeOK
<1>3. Transact(d, p, n, o, s) \in Transaction
  BY <1>1, <1>2 DEF Transact, Transaction
<1> QED BY <1>3 DEF Transact, Sound

(* So does one without arguments.                                          *)
LEMMA RequestSound ==
  ASSUME Inv, NEW d \in Database, Waiting(d)
  PROVE  Request(d) \in Sound /\ Request(d).db = d
<1>1. "" \in Label /\ NoOverride \in [Activity -> User \cup {None}]
  BY DEF Label, NoOverride
<1> QED BY <1>1, TransactSound DEF Request

(* Committing a sound transaction preserves the invariant.                 *)
LEMMA CommitSound ==
  ASSUME Inv, NEW t \in Sound, Commit(t)
  PROVE  Inv'
<1>1. t.db \in Database /\ Waiting(t.db)
  BY DEF Sound, Transaction
<1>2. db' = t.db /\ delegate' = delegate /\ running' = running
  BY DEF Commit
<1> QED BY <1>1, <1>2 DEF Inv, TypeOK, Waiting, Waits

(* So does writing sound rows,                                             *)
LEMMA WriteSound ==
  ASSUME Inv, NEW d \in Database, Waiting(d), Write(d)
  PROVE  Inv'
BY RequestSound, CommitSound DEF Write

(* and making a harmless change.                                           *)
LEMMA WriteHarmless ==
  ASSUME Inv, NEW d \in Database, NoHarm(db, d), Write(d)
  PROVE  Inv'
BY HarmlessSteps, WriteSound DEF Inv

-----------------------------------------------------------------------------
(* The steps of the system.                                                *)

(* The rows of a new instance are sound.                                   *)
LEMMA BlankType ==
  ASSUME NEW v \in Valuation
  PROVE  Blank(v) \in Database /\ Waiting(Blank(v))
<1>1. <<>> \in Seq(Flow) /\ <<>> \in Seq(Item)
  OBVIOUS
<1>2. [a \in Activity |-> 0] \in Places /\ [a \in Activity |-> 0] \in [Activity -> Nat]
  BY DEF Places
<1>3. Blank(v) \in Database
  BY <1>1, <1>2 DEF Blank, Database, ActivityState, WorkflowState
<1> QED BY <1>3 DEF Blank, Waiting, Waits

(* The invariant holds initially.                                          *)
LEMMA InitSound == Init => Inv
BY BlankType DEF Init, Inv, TypeOK

(* Starting, claiming, releasing, completing and rejecting preserve it.    *)
LEMMA ClientSound ==
  ASSUME Inv, ClientStep \/ DirectStep
  PROVE  Inv'
<1>1. db \in Database /\ Waiting(db)
  BY DEF Inv, TypeOK
<1>2. CASE StartWorkflow
  <2>1. PICK v \in Valuation, a \in Activity, u \in User \cup {None} :
          Commit(AdvanceFromActivity(Transact([Blank(v) EXCEPT !.wf = "running"], "", None,
                                              [NoOverride EXCEPT ![a] = u], FALSE),
                                     StartActivity))
    BY <1>2 DEF StartWorkflow
  <2>2. [NoOverride EXCEPT ![a] = u] \in [Activity -> User \cup {None}]
    BY DEF NoOverride
  <2>3. "" \in Label
    BY DEF Label
  <2>4. StartActivity \in Activity
    BY ValidTemplateAssumption DEF StartActivity, Type
  <2>5. [Blank(v) EXCEPT !.wf = "running"] \in Database
        /\ Waiting([Blank(v) EXCEPT !.wf = "running"])
    <3> DEFINE blank == Blank(v)
    <3>1. blank \in Database /\ Waiting(blank)
      BY BlankType
    <3> HIDE DEF blank
    <3>2. [blank EXCEPT !.wf = "running"] \in Database
          /\ NoHarm(blank, [blank EXCEPT !.wf = "running"])
      BY <3>1 DEF Database, WorkflowState, NoHarm
    <3>3. Waiting([blank EXCEPT !.wf = "running"])
      BY <3>1, <3>2, HarmlessSteps
    <3> QED BY <3>2, <3>3 DEF blank
  <2> QED BY <2>1, <2>2, <2>3, <2>4, <2>5, TransactSound, AdvanceSound, CommitSound
<1>3. ASSUME NEW u \in User, NEW a \in Activity, NEW i \in Items(a),
             AcquireWorkItem(u, a, i) \/ ReleaseWorkItem(u, a, i)
      PROVE  Inv'
  <2> DEFINE Held(p, s) == [db EXCEPT !.item[a][i].state = s, !.item[a][i].performer = p]
  <2>1. ASSUME NEW p \in User \cup {None}, NEW s \in ItemState
        PROVE  Held(p, s) \in Database /\ NoHarm(db, Held(p, s))
    <3> DEFINE it    == [db.item[a][i] EXCEPT !.state = s, !.performer = p]
               items == [db.item[a] EXCEPT ![i] = it]
               item  == [db.item EXCEPT ![a] = items]
    <3>1. db.item \in [Activity -> Seq(Item)] /\ db.item[a] \in Seq(Item)
          /\ db.item[a][i] \in Item
      BY <1>1 DEF Database, Items
    <3>2. it \in Item
      BY <3>1 DEF Item
    <3>3. Held(p, s) = [db EXCEPT !.item = item]
      BY <1>1, <3>1 DEF Database, Item, Items
    <3> HIDE DEF it
    <3>4. items \in Seq(Item)
      BY <3>1, <3>2 DEF Items
    <3> HIDE DEF items
    <3>5. item \in [Activity -> Seq(Item)]
      BY <3>1, <3>4
    <3> HIDE DEF item
    <3> QED BY <1>1, <3>3, <3>5, WithItems
  <2>2. Write(Held(u, "acquired")) \/ Write(Held(None, "available"))
    BY <1>3 DEF AcquireWorkItem, ReleaseWorkItem
  <2> HIDE DEF Held
  <2> QED BY <2>1, <2>2, WriteHarmless DEF ItemState
<1>4. ASSUME NEW a \in Activity, NEW i \in Items(a), CompleteItemDirect(a, i)
      PROVE  Inv'
  <2>1. PICK v \in Valuation, p \in Label, n \in NextPerformers(a) :
          Commit(CompleteWorkItem(Transact(db, p, n, NoOverride, FALSE), a, i, v))
    BY <1>4 DEF CompleteItemDirect
  <2>2. n \in User \cup {None} /\ NoOverride \in [Activity -> User \cup {None}]
    BY DEF NextPerformers, NoOverride
  <2> DEFINE t == Transact(db, p, n, NoOverride, FALSE)
  <2>3. t \in Sound /\ t.db = db
    BY <1>1, <2>2, TransactSound
  <2> HIDE DEF t
  <2>4. CompleteWorkItem(t, a, i, v) \in Sound
    BY <2>3, CompleteWorkItemSound DEF Items
  <2> QED BY <2>1, <2>4, CommitSound DEF t
<1>5. ASSUME NEW u \in User, NEW a \in Activity, NEW i \in Items(a),
             CompleteInboxItem(u, a, i)
      PROVE  Inv'
  BY <1>4, <1>5 DEF CompleteInboxItem, CompleteItemDirect
<1>6. ASSUME NEW u \in User, NEW a \in Activity, NEW i \in Items(a), RejectInboxItem(u, a, i)
      PROVE  Inv'
  <2> DEFINE t == Request(db)
  <2>1. t \in Sound /\ t.db = db
    BY <1>1, RequestSound
  <2> HIDE DEF t
  <2>2. RejectWorkItem(t, a, i) \in Sound
    BY <2>1, RejectWorkItemSound DEF Items
  <2>3. Commit(RejectWorkItem(t, a, i))
    BY <1>6 DEF RejectInboxItem, t
  <2> QED BY <2>2, <2>3, CommitSound
<1>7. CASE UpdateVariable
  <2>1. PICK v \in Valuation : Write([db EXCEPT !.var = v])
    BY <1>7 DEF UpdateVariable
  <2>2. [db EXCEPT !.var = v] \in Database /\ NoHarm(db, [db EXCEPT !.var = v])
    BY <1>1 DEF Database, NoHarm
  <2> QED BY <2>1, <2>2, WriteHarmless
<1> QED BY <1>2, <1>3, <1>4, <1>5, <1>6, <1>7 DEF ClientStep, InboxStep, DirectStep

(* Absences preserve it.                                                   *)
LEMMA UserSound ==
  ASSUME Inv, UserStep
  PROVE  Inv'
<1>1. PICK u \in User, d \in User \cup {None} :
        delegate' = [delegate EXCEPT ![u] = d] /\ UNCHANGED <<db, running>>
  BY DEF UserStep, UpdateAvailability
<1> QED BY <1>1 DEF Inv, TypeOK, Waiting, Waits

(* Halting, resuming, aborting, restarting, compensating, retrying and     *)
(* skipping preserve it.                                                   *)
LEMMA OperatorSound ==
  ASSUME Inv, OperatorStep
  PROVE  Inv'
<1>1. db \in Database /\ Waiting(db)
  BY DEF Inv, TypeOK
<1>2. ASSUME NEW s \in WorkflowState, NEW S, NEW r \in ItemState
      PROVE  /\ Mark(SetWorkflow(db, s), S, r) \in Database
             /\ NoHarm(db, Mark(SetWorkflow(db, s), S, r))
  BY <1>1, SetWorkflowType, MarkType, HarmlessChain
<1>3. CASE Halt
  BY <1>2, <1>3, WriteHarmless DEF Halt, WorkflowState, ItemState
<1>4. CASE Resume
  BY <1>2, <1>4, WriteHarmless DEF Resume, WorkflowState, ItemState
<1>5. CASE Abort
  <2> DEFINE d   == Mark(SetWorkflow(db, "failed"), Open, "complete")
             act == [a \in Activity |-> IF d.act[a] = "active" THEN "complete" ELSE d.act[a]]
  <2>1. d \in Database /\ NoHarm(db, d)
    BY <1>2 DEF WorkflowState, ItemState
  <2>2. Write([d EXCEPT !.act = act])
    BY <1>5 DEF Abort
  <2> HIDE DEF d
  <2>3. act \in [Activity -> ActivityState]
        /\ \A a \in Activity : act[a] = "dormant" => d.act[a] = "dormant"
    BY <2>1 DEF Database, ActivityState
  <2> HIDE DEF act
  <2>4. [d EXCEPT !.act = act] \in Database /\ NoHarm(d, [d EXCEPT !.act = act])
    BY <2>1, <2>3 DEF Database, NoHarm
  <2> QED BY <2>1, <2>2, <2>4, HarmlessChain, WriteHarmless
<1>6. CASE Restart
  <2> DEFINE d == [db EXCEPT !.wf = "dormant", !.act = [a \in Activity |-> "dormant"],
                            !.item = [a \in Activity |-> <<>>],
                            !.tok = [a \in Activity |-> <<>>], !.used = {}]
  <2>1. <<>> \in Seq(Flow) /\ <<>> \in Seq(Item)
    OBVIOUS
  <2>2. d \in Database
    BY <1>1, <2>1 DEF Database, WorkflowState, ActivityState
  <2>3. \A a \in Activity : d.tok[a] = <<>>
    BY <1>1 DEF Database
  <2>4. Waiting(d)
    BY <2>3 DEF Waiting, Waits
  <2>5. Write(d)
    BY <1>6 DEF Restart
  <2> HIDE DEF d
  <2> QED BY <2>2, <2>4, <2>5, WriteSound
<1>7. CASE Compensate
  BY <1>1, <1>7, ExecuteCompensationType, WriteHarmless DEF Compensate
<1>8. ASSUME NEW a \in Activity, RetryActivity(a)
      PROVE  Inv'
  BY <1>1, <1>8, SetActivityType, WriteHarmless DEF RetryActivity, ActivityState
<1>9. ASSUME NEW a \in Activity, SkipActivity(a)
      PROVE  Inv'
  <2> DEFINE d == [db EXCEPT !.act[a] = "active"]
             t == AdvanceFromActivity(Request(d), a)
  <2>1. d \in Database /\ Waiting(d)
    BY <1>1, SetActivityType, HarmlessSteps DEF ActivityState
  <2>2. Commit([t EXCEPT !.db = Logged(t.db, a)])
    BY <1>9 DEF SkipActivity
  <2> HIDE DEF d
  <2>3. t \in Sound /\ t.db \in Database
    BY <2>1, RequestSound, AdvanceSound DEF Sound, Transaction
  <2> HIDE DEF t
  <2>4. [t EXCEPT !.db = Logged(t.db, a)] \in Sound
    BY <2>3, LoggedType, SoundRows
  <2> QED BY <2>2, <2>4, CommitSound
<1> QED BY <1>3, <1>4, <1>5, <1>6, <1>7, <1>8, <1>9 DEF OperatorStep

(* The Workflow Agent preserves it, though it writes what it read before.  *)
LEMMA AgentSound ==
  ASSUME Inv, AgentStep
  PROVE  Inv'
<1>1. db \in Database /\ Waiting(db)
  BY DEF Inv, TypeOK
<1>2. running \in [Worker -> Execution \cup {None}] /\ delegate \in [User -> User \cup {None}]
  BY DEF Inv, TypeOK
<1>3. ASSUME NEW w \in Worker, running[w] # None
      PROVE  running[w] \in Execution /\ running[w].act \in Activity
  BY <1>2, <1>3 DEF Execution
<1>4. ASSUME NEW w \in Worker, NEW x \in Execution \cup {None},
             running' = [running EXCEPT ![w] = x], delegate' = delegate,
             db' \in Database, NoHarm(db, db')
      PROVE  Inv'
  <2>1. running' \in [Worker -> Execution \cup {None}]
    BY <1>2, <1>4
  <2>2. Waiting(db')
    BY <1>1, <1>4, HarmlessSteps
  <2>3. Waiting(db)'
    BY <2>2 DEF Waiting, Waits
  <2> QED BY <1>2, <1>4, <2>1, <2>3 DEF Inv, TypeOK
<1>5. NoHarm(db, db)
  BY DEF NoHarm
<1>6. ASSUME NEW w \in Worker, NEW a \in Activity, AgentBegin(w, a)
      PROVE  Inv'
  <2> DEFINE x == [phase |-> "method", act |-> a, wf |-> db.wf, var |-> db.var,
                   attempt |-> db.logs[a] + 1]
  <2>1. x \in Execution
    BY <1>1 DEF Execution, Database
  <2>2. running' = [running EXCEPT ![w] = x] /\ db' = db /\ delegate' = delegate
    BY <1>6 DEF AgentBegin
  <2> HIDE DEF x
  <2> QED BY <1>1, <1>4, <1>5, <2>1, <2>2
<1>7. ASSUME NEW w \in Worker, AgentSucceed(w)
      PROVE  Inv'
  <2> DEFINE x == running[w]
             t == Transact(Seen(x), "", None, NoOverride, TRUE)
             d == Advanced(x).db
             e == [d EXCEPT !.wf = IF @ = x.wf THEN db.wf ELSE @, !.var = db.var]
  <2>1. x \in Execution /\ x.act \in Activity
    BY <1>3, <1>7 DEF AgentSucceed, Busy
  <2>2. Seen(x) \in Database /\ Waiting(Seen(x))
    <3> DEFINE act == [db.act EXCEPT ![x.act] = "active"]
    <3>1. act \in [Activity -> ActivityState]
          /\ \A a \in Activity : act[a] = "dormant" => db.act[a] = "dormant"
      BY <1>1, <2>1 DEF Database, ActivityState
    <3>2. Seen(x) = [db EXCEPT !.act = act, !.wf = x.wf, !.var = x.var]
      BY DEF Seen
    <3>3. x.wf \in WorkflowState /\ x.var \in Valuation
      BY <2>1 DEF Execution
    <3> HIDE DEF act, x
    <3>4. Seen(x) \in Database /\ NoHarm(db, Seen(x))
      BY <1>1, <3>1, <3>2, <3>3 DEF Database, NoHarm
    <3> QED BY <1>1, <3>4, HarmlessSteps
  <2>3. Advanced(x) \in Sound
    <3>1. "" \in Label /\ NoOverride \in [Activity -> User \cup {None}]
      BY DEF Label, NoOverride
    <3>2. t \in Sound
      BY <2>2, <3>1, TransactSound
    <3> HIDE DEF t
    <3>3. AdvanceFromActivity(t, x.act) \in Sound
      BY <2>1, <3>2, AdvanceSound
    <3> QED BY <3>3 DEF Advanced, t
  <2>4. d \in Database /\ Waiting(d)
    BY <2>3 DEF Sound, Transaction
  <2>5. e \in Database /\ NoHarm(d, e)
    <3> DEFINE wf == IF d.wf = x.wf THEN db.wf ELSE d.wf
    <3>1. wf \in WorkflowState /\ db.var \in Valuation
      BY <1>1, <2>4 DEF Database
    <3>2. e = [d EXCEPT !.wf = wf, !.var = db.var]
      OBVIOUS
    <3> HIDE DEF wf, d, e
    <3> QED BY <2>4, <3>1, <3>2 DEF Database, NoHarm
  <2>6. db' = Logged(e, x.act) /\ running' = [running EXCEPT ![w] = None] /\ delegate' = delegate
    BY <1>7 DEF AgentSucceed, Merged
  <2> HIDE DEF x, d, e
  <2>7. db' \in Database /\ Waiting(db')
    BY <2>1, <2>4, <2>5, <2>6, LoggedType, HarmlessSteps
  <2>8. Waiting(db)'
    BY <2>7 DEF Waiting, Waits
  <2> QED BY <1>2, <2>6, <2>7, <2>8 DEF Inv, TypeOK
<1>8. ASSUME NEW w \in Worker, running[w] # None, RecordFailure(w)
      PROVE  Inv'
  <2> DEFINE x == running[w]
             d == Logged(db, x.act)
             y == [x EXCEPT !.phase = "handler"]
  <2>1. x \in Execution /\ x.act \in Activity
    BY <1>3, <1>8
  <2>2. d \in Database /\ NoHarm(db, d)
    BY <1>1, <2>1, LoggedType
  <2>3. [d EXCEPT !.act[x.act] = "error"] \in Database
        /\ NoHarm(db, [d EXCEPT !.act[x.act] = "error"])
    <3> HIDE DEF d
    <3> QED BY <2>1, <2>2, SetActivityType, HarmlessChain DEF ActivityState
  <2>4. y \in Execution
    BY <2>1 DEF Execution
  <2>5. /\ db' = d \/ db' = [d EXCEPT !.act[x.act] = "error"]
        /\ running' = [running EXCEPT ![w] = y] \/ running' = [running EXCEPT ![w] = None]
        /\ delegate' = delegate
    BY <1>8 DEF RecordFailure
  <2> HIDE DEF x, d, y
  <2> QED BY <1>4, <2>2, <2>3, <2>4, <2>5
<1>9. ASSUME NEW w \in Worker, AgentFail(w) \/ AgentAdvanceFails(w)
      PROVE  Inv'
  BY <1>8, <1>9 DEF AgentFail, AgentAdvanceFails, Busy
<1>10. ASSUME NEW w \in Worker, AgentHandle(w)
       PROVE  Inv'
  <2>1. running[w].act \in Activity
    BY <1>3, <1>10 DEF AgentHandle, Busy
  <2> QED BY <1>1, <1>4, <1>10, <2>1, HandleActivityErrorType DEF AgentHandle
<1>11. ASSUME NEW w \in Worker, AgentCrash(w)
       PROVE  Inv'
  BY <1>1, <1>4, <1>5, <1>11 DEF AgentCrash
<1> QED BY <1>6, <1>7, <1>9, <1>10, <1>11 DEF AgentStep

(* Timeouts, events and the ends of children preserve it.                  *)
LEMMA BusSound ==
  ASSUME Inv, BusStep
  PROVE  Inv'
<1>1. db \in Database /\ Waiting(db)
  BY DEF Inv, TypeOK
<1>2. CASE JoinTimeout
  <2>1. PICK S \in SUBSET Expirable : Write(ForceFire(db, S))
    BY <1>2 DEF JoinTimeout
  <2>2. Expirable \subseteq Activity
    BY <1>1 DEF Expirable, Database
  <2>3. S \in SUBSET Activity
    BY <2>2
  <2> QED BY <1>1, <2>1, <2>3, ForceFireType, WriteHarmless
<1>3. ASSUME NEW t \in Sound
      PROVE  [t EXCEPT !.ok = TRUE] \in Sound
  BY DEF Sound, Transaction
<1>4. ASSUME NEW e, EventFires(e)
      PROVE  Inv'
  <2> DEFINE F(order) == [i \in DOMAIN order |-> [x \in Transaction |->
                            IF x.ok THEN AdvanceFromActivity(x, order[i]) ELSE x]]
             t(order) == Iterate(F(order), Request(db), Len(order))
  <2>1. PICK order \in [1..Cardinality(Listening(e)) -> Listening(e)] :
          Commit([t(order) EXCEPT !.ok = TRUE])
    BY <1>4 DEF EventFires
  <2>2. Cardinality(Listening(e)) \in Nat
    BY TemplateAssumption, FS_Subset, FS_CardinalityType DEF Listening
  <2>3. /\ Len(order) \in Nat
        /\ DOMAIN order = 1..Len(order)
        /\ \A i \in DOMAIN order : order[i] \in Activity
    BY <2>1, <2>2 DEF Listening
  <2>4. \A x \in Sound, i \in 1..Len(order) : F(order)[i][x] \in Sound
    BY <2>3, AdvanceSound DEF Sound
  <2>5. Request(db) \in Sound
    BY <1>1, RequestSound
  <2>6. t(order) \in Sound
    <3> DEFINE G == F(order)
    <3> HIDE DEF F, G
    <3>1. \A x \in Sound, i \in 1..Len(order) : G[i][x] \in Sound
      BY <2>4 DEF G
    <3>2. Iterate(G, Request(db), Len(order)) \in Sound
      BY <2>3, <2>5, <3>1, IterateClosed
    <3> QED BY <3>2 DEF G
  <2> HIDE DEF t
  <2> QED BY <1>3, <2>1, <2>6, CommitSound
<1>5. ASSUME NEW a \in Activity, db.child[a] > 0
      PROVE  /\ [db EXCEPT !.child[a] = @ - 1] \in Database
             /\ NoHarm(db, [db EXCEPT !.child[a] = @ - 1])
  <2> DEFINE child == [db.child EXCEPT ![a] = @ - 1]
  <2>1. child \in [Activity -> Nat]
    <3>1. db.child \in [Activity -> Nat] /\ db.child[a] - 1 \in Nat
      BY <1>1, <1>5 DEF Database
    <3> QED BY <3>1
  <2> HIDE DEF child
  <2>2. [db EXCEPT !.child = child] \in Database /\ NoHarm(db, [db EXCEPT !.child = child])
    BY <1>1, <2>1 DEF Database, NoHarm
  <2> QED BY <2>2 DEF child
<1>6. ASSUME NEW a \in Activity, NEW announced \in BOOLEAN, ChildFinishes(a, announced)
      PROVE  Inv'
  <2> DEFINE d == [db EXCEPT !.child[a] = @ - 1]
             t == AdvanceFromActivity(Request(d), a)
  <2>1. d \in Database /\ NoHarm(db, d) /\ Waiting(d)
    BY <1>1, <1>5, <1>6, HarmlessSteps DEF ChildFinishes
  <2>2. Write(d) \/ Commit([t EXCEPT !.ok = TRUE])
    BY <1>6 DEF ChildFinishes
  <2> HIDE DEF d
  <2>3. t \in Sound
    BY <2>1, RequestSound, AdvanceSound
  <2> HIDE DEF t
  <2> QED BY <1>3, <2>1, <2>2, <2>3, WriteHarmless, CommitSound
<1>7. ASSUME NEW a \in Activity, ChildFails(a)
      PROVE  Inv'
  <2> DEFINE d == [db EXCEPT !.child[a] = @ - 1]
             act == [d.act EXCEPT ![a] = IF @ = "active" THEN "error" ELSE @]
  <2>1. d \in Database /\ NoHarm(db, d)
    BY <1>1, <1>5, <1>7 DEF ChildFails
  <2>2. Write([d EXCEPT !.act = act])
    <3>1. d.act = db.act
      BY <1>1 DEF Database
    <3>2. [db EXCEPT !.child[a] = @ - 1, !.act[a] = IF @ = "active" THEN "error" ELSE @]
          = [d EXCEPT !.act = act]
      BY <1>1, <3>1 DEF Database
    <3> HIDE DEF d, act
    <3> QED BY <1>7, <3>2 DEF ChildFails
  <2> HIDE DEF d
  <2>3. act \in [Activity -> ActivityState]
        /\ \A b \in Activity : act[b] = "dormant" => d.act[b] = "dormant"
    BY <2>1 DEF Database, ActivityState
  <2> HIDE DEF act
  <2>4. [d EXCEPT !.act = act] \in Database /\ NoHarm(d, [d EXCEPT !.act = act])
    BY <2>1, <2>3 DEF Database, NoHarm
  <2> QED BY <2>1, <2>2, <2>4, HarmlessChain, WriteHarmless
<1> QED BY <1>2, <1>4, <1>6, <1>7 DEF BusStep

(* Every step preserves the invariant.                                     *)
LEMMA InvStep == Inv /\ [Next]_vars => Inv'
<1>1. ASSUME Inv, UNCHANGED vars PROVE Inv'
  BY <1>1 DEF vars, Inv, TypeOK, Waiting, Waits
<1> QED
  BY <1>1, ClientSound, UserSound, OperatorSound, AgentSound, BusSound DEF Next

-----------------------------------------------------------------------------
(* The theorems.                                                           *)

(* The invariant always holds, whatever the template, the users and the    *)
(* number of workers.                                                      *)
THEOREM InvAlways == Spec => []Inv
BY InitSound, InvStep, PTL DEF Spec

(* Every reachable state has the types the schema declares, and the place of *)
(* a sequential activity never leaves its list of performers.              *)
THEOREM TypeCorrect == Spec => []TypeOK
<1>1. Inv => TypeOK
  BY DEF Inv
<1> QED BY <1>1, InvAlways, PTL

(* No activation is lost: a dormant activity never holds the tokens it needs. *)
THEOREM NoActivationIsLost == Spec => []NoLostActivation
<1>1. Inv => NoLostActivation
  BY DEF Inv, Waiting, Waits, NoLostActivation
<1> QED BY <1>1, InvAlways, PTL

(* A timeout join that waits with a token has its clock running.           *)
THEOREM WaitingJoinsAreTimed == Spec => []WaitingJoinHasClock
<1>1. Inv => WaitingJoinHasClock
  BY DEF Inv, Waiting, Waits, WaitingJoinHasClock
<1> QED BY <1>1, InvAlways, PTL

-----------------------------------------------------------------------------
(* The lifecycle.  Whatever is one transaction (a request, a task, an      *)
(* event) implements WorkflowLifecycle.  The Workflow Agent, whose         *)
(* sessions are several steps, does not: see section 11 of the README.     *)

-----------------------------------------------------------------------------
(* Activating and placing tokens keep the state of the workflow.           *)

(* A join keeps it.                                                        *)
LEMMA JoinState ==
  ASSUME NEW d \in Database, NEW a \in Activity
  PROVE  Join(d, a).wf = d.wf
<1>1. Consume(d, a).wf = d.wf
  BY DEF Consume, Database
<1>2. \A e \in Database : CancelRemainingBranches(e, a).wf = e.wf
  BY DEF CancelRemainingBranches, Database
<1> QED BY <1>1, <1>2, ConsumeType DEF Join

(* So does activating an activity of any type.                             *)
LEMMA ActivateState ==
  ASSUME NEW t \in Transaction, NEW a \in Activity
  PROVE  Activate(t, a).db.wf = t.db.wf
<1> DEFINE j == Join(t.db, a)
<1>1. t.db \in Database
  BY DEF Transaction
<1>2. j \in Database /\ j.wf = t.db.wf
  BY <1>1, JoinType, JoinState
<1> HIDE DEF j
<1>4. CASE Type(a) \in {"start", "end"}
  <2>1. Activate(t, a).db = [j EXCEPT !.act[a] = "complete"]
    BY <1>4 DEF Activate, Transaction, j
  <2> QED BY <1>2, <2>1 DEF Database
<1>5. CASE Type(a) = "manual"
  <2> DEFINE item == [j.item EXCEPT ![a] = @ \o ManualItems(t, a)]
             idx  == [j.idx EXCEPT ![a] = IF PerformedBy(a) = "sequential" /\ Performers(a) # <<>>
                                          THEN 0 ELSE @]
  <2>1. Activate(t, a).db = [j EXCEPT !.item = item, !.idx = idx]
    BY <1>5 DEF Activate, ActivateManual, Transaction, j
  <2> HIDE DEF item, idx
  <2> QED BY <1>2, <2>1 DEF Database
<1>6. CASE Type(a) = "sub_workflow"
  <2> DEFINE joined == [t EXCEPT !.db = j]
  <2>1. joined.db = j /\ Raise(joined).db = j
    BY DEF Transaction, Raise
  <2>2. /\ [joined EXCEPT !.db.act[a] = "error"].db.wf = j.wf
        /\ [joined EXCEPT !.db.child[a] = @ + 1].db.wf = j.wf
    BY <1>2, <2>1 DEF Transaction, Database
  <2>3. \/ ActivateSubWorkflow(t, a) = [joined EXCEPT !.db.act[a] = "error"]
        \/ ActivateSubWorkflow(t, a) = Raise(joined)
        \/ ActivateSubWorkflow(t, a) = [joined EXCEPT !.db.child[a] = @ + 1]
    <3>1. CASE Depth + 1 > MaxDepth
      <4>1. ~ (Depth + 1 <= MaxDepth)
        BY <3>1, DepthAssumption
      <4> QED BY <3>1, <4>1 DEF ActivateSubWorkflow, j
    <3>2. CASE Depth + 1 <= MaxDepth
      <4>1. ~ (Depth + 1 > MaxDepth)
        BY <3>2, DepthAssumption
      <4> QED BY <3>2, <4>1 DEF ActivateSubWorkflow, j
    <3> QED BY <3>1, <3>2, DepthAssumption
  <2> HIDE DEF joined
  <2> QED BY <1>2, <1>6, <2>1, <2>2, <2>3 DEF Activate
<1>7. CASE Type(a) \in {"auto", "event"}
  <2>1. Activate(t, a).db = j
    BY <1>7 DEF Activate, Transaction, j
  <2> QED BY <1>2, <2>1
<1> QED BY <1>4, <1>5, <1>6, <1>7, TemplateTypes DEF ActivityType

(* So does placing a token.                                                *)
LEMMA FireFlowState ==
  ASSUME NEW t \in Transaction, NEW f \in Flow
  PROVE  FireFlow(t, f).db.wf = t.db.wf
<1> DEFINE a      == Target(f)
           placed == [t EXCEPT !.db.tok[a] = Append(@, f)]
           timed  == [placed EXCEPT !.db.clock = @ \cup {a}]
<1>1. t.db \in Database /\ a \in Activity
  BY TemplateTypes DEF Transaction
<1>2. placed \in Transaction /\ placed.db.wf = t.db.wf
  <2> DEFINE tok == [t.db.tok EXCEPT ![a] = Append(@, f)]
  <2>1. tok \in [Activity -> Seq(Flow)]
    BY <1>1 DEF Database
  <2>2. placed = [t EXCEPT !.db = [t.db EXCEPT !.tok = tok]]
    OBVIOUS
  <2> HIDE DEF tok, placed
  <2>3. [t.db EXCEPT !.tok = tok] \in Database /\ [t.db EXCEPT !.tok = tok].wf = t.db.wf
    BY <1>1, <2>1 DEF Database
  <2> QED BY <2>2, <2>3, WithDatabase
<1>3. Activate(placed, a).db.wf = t.db.wf
  BY <1>1, <1>2, ActivateState
<1>4. timed.db.wf = t.db.wf
  <2> HIDE DEF placed
  <2> QED BY <1>2 DEF Transaction, Database
<1>5. FireFlow(t, f) \in {placed, timed, Activate(placed, a)}
  BY DEF FireFlow
<1> HIDE DEF placed, timed
<1> QED BY <1>2, <1>3, <1>4, <1>5

-----------------------------------------------------------------------------
(* The advancement loop keeps it too, or ends a running workflow.          *)

(* The sound transactions in which the workflow is in state w.             *)
At(w) == {t \in Sound : t.db.wf = w}

(* Those that began in state w.                                            *)
From(w) == {t \in Sound : t.db.wf = w \/ (w = "running" /\ t.db.wf = "finished")}

(* The flows of one activity keep the state.                               *)
LEMMA FireFlowsState ==
  ASSUME NEW w, NEW t \in At(w), NEW flows
  PROVE  FireFlows(t, flows) \in At(w)
<1> DEFINE F == [f \in Flow |-> [x \in Transaction |->
                    IF x.ok /\ f \in flows THEN FireFlow(x, f) ELSE x]]
           n == Len(Template.flow)
<1>1. n \in Nat /\ Flow = 1..n
  BY TemplateTypes
<1>2. \A x \in At(w), f \in 1..n : F[f][x] \in At(w)
  <2>1. SUFFICES ASSUME NEW x \in At(w), NEW f \in Flow PROVE F[f][x] \in At(w)
    BY <1>1
  <2>2. x \in Sound /\ x \in Transaction /\ x.db.wf = w
    BY DEF At, Sound
  <2>3. F[f][x] = IF x.ok /\ f \in flows THEN FireFlow(x, f) ELSE x
    BY <2>2
  <2> QED BY <2>2, <2>3, FireFlowSound, FireFlowState DEF At
<1>3. Iterate(F, t, n) \in At(w)
  <2> HIDE DEF F, n
  <2> QED BY <1>1, <1>2, IterateClosed
<1> QED BY <1>3 DEF FireFlows

(* A round of the loop keeps it, or ends a running workflow.               *)
LEMMA RoundState ==
  ASSUME NEW w, NEW t \in From(w)
  PROVE  Round(t) \in From(w)
<1> DEFINE a    == Head(t.queue)
           rest == [t EXCEPT !.queue = Tail(@), !.path = ""]
<1>1. t \in Sound /\ t \in Transaction
  BY DEF From, Sound
<1>2. SUFFICES ASSUME t.queue # <<>>, t.db.wf # "finished" PROVE ProcessHead(t) \in From(w)
  BY DEF Round
<1>3. t.db.wf = w
  BY <1>2 DEF From
<1>4. rest \in At(w)
  <2> DEFINE queue == Tail(t.queue)
  <2>1. queue \in Seq(Activity)
    BY <1>1, <1>2 DEF Transaction
  <2>2. "" \in Label
    BY DEF Label
  <2>3. rest = [t EXCEPT !.queue = queue, !.path = ""]
    OBVIOUS
  <2> HIDE DEF queue, rest
  <2>4. rest \in Transaction /\ rest.db = t.db
    BY <1>1, <2>1, <2>2, <2>3 DEF Transaction
  <2> QED BY <1>1, <1>3, <2>4 DEF At, Sound
<1>5. a \in Activity
  BY <1>1, <1>2 DEF Transaction
<1>6. \/ ProcessHead(t) = FireFlows(rest, FiringFlows(t, a))
      \/ ProcessHead(t) = Raise(rest)
      \/ ProcessHead(t) = Conclude(rest, a)
  BY DEF ProcessHead
<1> HIDE DEF rest, a
<1>7. At(w) \subseteq From(w)
  BY DEF At, From
<1>8. FireFlows(rest, FiringFlows(t, a)) \in From(w)
  BY <1>4, <1>7, FireFlowsState
<1>9. rest \in Sound /\ rest \in Transaction /\ rest.db \in Database /\ rest.db.wf = w
  BY <1>4 DEF At, Sound, Transaction
<1>10. Raise(rest) \in From(w)
  BY <1>9, RaiseSound, RaiseType DEF From
<1>11. Conclude(rest, a) \in From(w)
  <2> DEFINE ended == [rest EXCEPT !.db = SetWorkflow(@, "finished")]
  <2>1. \/ Conclude(rest, a) = rest
        \/ Conclude(rest, a) = Raise(rest)
        \/ rest.db.wf = "running" /\ Conclude(rest, a) = ended
    BY DEF Conclude
  <2>2. Conclude(rest, a) \in Sound
    BY <1>5, <1>9, ConcludeSound
  <2>3. ended.db.wf = "finished"
    BY <1>9 DEF Transaction, SetWorkflow, Database
  <2> HIDE DEF ended
  <2> QED BY <1>4, <1>7, <1>9, <1>10, <2>1, <2>2, <2>3 DEF From
<1> QED BY <1>6, <1>8, <1>10, <1>11

(* So does _advance_from_activity.                                         *)
LEMMA AdvanceState ==
  ASSUME NEW w, NEW t \in From(w), NEW a \in Activity
  PROVE  AdvanceFromActivity(t, a) \in From(w)
<1> DEFINE n == Cardinality(Activity)
           F == [k \in 1..n |-> [x \in Transaction |-> Round(x)]]
<1>1. n \in Nat
  BY TemplateAssumption, FS_CardinalityType
<1>2. \A x \in From(w), k \in 1..n : F[k][x] \in From(w)
  BY RoundState DEF From, Sound
<1>3. t \in Sound /\ t \in Transaction /\ t.db \in Database
  BY DEF From, Sound, Transaction
<1>4. Completed(t, a) \in From(w)
  <2>1. Completed(t, a) \in Sound
    BY <1>3, CompletedSound
  <2>2. Completed(t, a).db.wf = t.db.wf
    BY <1>3 DEF Completed, Transaction, Database
  <2> QED BY <2>1, <2>2 DEF From
<1>5. \A x \in From(w) : Raise(x) \in From(w)
  BY RaiseSound, RaiseType DEF From, Sound
<1>6. Iterate(F, Completed(t, a), n) \in From(w)
  <2> HIDE DEF F, n
  <2> QED BY <1>1, <1>2, <1>4, IterateClosed
<1>7. AnnounceItems(Iterate(F, Completed(t, a), n)) \in From(w)
  <2> HIDE DEF F, n
  <2> QED BY <1>5, <1>6 DEF AnnounceItems
<1> QED BY <1>5, <1>7 DEF AdvanceFromActivity

-----------------------------------------------------------------------------
(* Completing and rejecting items, handlers, compensation.                 *)

(* Other rows of the same state.                                           *)
LEMMA FromRows ==
  ASSUME NEW w, NEW t \in From(w), NEW d \in Database, NoHarm(t.db, d), d.wf = t.db.wf
  PROVE  [t EXCEPT !.db = d] \in From(w)
<1>1. t \in Sound /\ t \in Transaction
  BY DEF From, Sound
<1> QED BY <1>1, SoundRows, WithDatabase DEF From

(* complete_work_item.                                                     *)
LEMMA CompleteWorkItemState ==
  ASSUME NEW w, NEW t \in From(w), NEW a \in Activity, NEW i \in DOMAIN t.db.item[a],
         NEW v \in Valuation
  PROVE  CompleteWorkItem(t, a, i, v) \in From(w)
<1> DEFINE c == [t.db EXCEPT !.item[a][i].state = "complete"]
           d == [c EXCEPT !.var = v]
           p == PassOn(d, a, d.idx[a] + 1)
<1>1. t \in Sound /\ t \in Transaction /\ t.db \in Database
  BY DEF From, Sound, Transaction
<1>2. c \in Database /\ NoHarm(t.db, c) /\ c.wf = t.db.wf
  BY <1>1, SetItemType DEF ItemState, Database
<1>3. [t.db EXCEPT !.item[a][i].state = "complete", !.var = v] = d
  OBVIOUS
<1> HIDE DEF c
<1>4. d \in Database /\ NoHarm(t.db, d) /\ d.wf = t.db.wf
  BY <1>2 DEF Database, NoHarm
<1> HIDE DEF d
<1>5. AdvanceFromActivity([t EXCEPT !.db = d], a) \in From(w)
  BY <1>4, FromRows, AdvanceState
<1>6. Raise(t) \in From(w)
  BY <1>1, RaiseSound, RaiseType DEF From
<1>7. [t EXCEPT !.db = p].db.wf = t.db.wf
  BY <1>1, <1>4 DEF PassOn, Transaction, Database
<1>8. CASE t.db.wf # "running" \/ t.db.item[a][i].state = "complete"
  BY <1>6, <1>8 DEF CompleteWorkItem
<1>9. CASE ~ (t.db.wf # "running" \/ t.db.item[a][i].state = "complete")
  <2>1. CompleteWorkItem(t, a, i, v)
          \in {Raise(t), AdvanceFromActivity([t EXCEPT !.db = d], a), [t EXCEPT !.db = p]}
    BY <1>3, <1>9, Zenon DEF CompleteWorkItem
  <2>2. CompleteWorkItem(t, a, i, v) \in Sound
    BY <1>1, CompleteWorkItemSound
  <2> QED BY <1>5, <1>6, <1>7, <2>1, <2>2 DEF From
<1> QED BY <1>8, <1>9

(* reject_work_item.                                                       *)
LEMMA RejectWorkItemState ==
  ASSUME NEW w, NEW t \in From(w), NEW a \in Activity, NEW i \in DOMAIN t.db.item[a]
  PROVE  RejectWorkItem(t, a, i) \in From(w)
<1> DEFINE d == [t.db EXCEPT !.item[a][i].state = "rejected"]
           p == PassOn(d, a, d.idx[a] - 1)
           r == FollowRejects(d, FlowsFrom(a, "reject"))
<1>1. t \in Sound /\ t \in Transaction /\ t.db \in Database
  BY DEF From, Sound, Transaction
<1>2. d \in Database /\ d.wf = t.db.wf
  BY <1>1, SetItemType DEF ItemState, Database
<1>3. RejectWorkItem(t, a, i) \in {Raise(t), [t EXCEPT !.db = p], [t EXCEPT !.db = r]}
  <2>1. CASE t.db.wf # "running" \/ t.db.item[a][i].state # "acquired"
    BY <2>1, Zenon DEF RejectWorkItem
  <2>2. CASE ~ (t.db.wf # "running" \/ t.db.item[a][i].state # "acquired")
    BY <2>2, Zenon DEF RejectWorkItem
  <2> QED BY <2>1, <2>2
<1> HIDE DEF d
<1>4. [t EXCEPT !.db = p].db.wf = t.db.wf /\ [t EXCEPT !.db = r].db.wf = t.db.wf
  BY <1>1, <1>2 DEF PassOn, FollowRejects, Transaction, Database
<1>5. Raise(t).db.wf = t.db.wf
  BY <1>1, RaiseType
<1>6. RejectWorkItem(t, a, i) \in Sound
  BY <1>1, RejectWorkItemSound
<1> QED BY <1>3, <1>4, <1>5, <1>6 DEF From

(* execute_compensation.                                                   *)
LEMMA ExecuteCompensationState ==
  ASSUME NEW d \in Database
  PROVE  \/ ExecuteCompensation(d).wf = d.wf
         \/ d.wf = "running" /\ ExecuteCompensation(d).wf = "halted"
<1> DEFINE started == Rouse(d, {Compensation(a) : a \in Compensatable(d)})
<1>1. started \in Database
  BY RouseType
<1>2. started.wf = d.wf
  BY DEF Rouse, Database
<1>3. \/ ExecuteCompensation(d) = d
      \/ ExecuteCompensation(d) = started
      \/ d.wf = "running" /\ ExecuteCompensation(d) = SetWorkflow(started, "halted")
  BY DEF ExecuteCompensation
<1> HIDE DEF started
<1>4. SetWorkflow(started, "halted").wf = "halted"
  BY <1>1 DEF SetWorkflow, Database
<1> QED BY <1>2, <1>3, <1>4

-----------------------------------------------------------------------------
(* The steps.                                                              *)

(* A state of the workflow and its next one.                               *)
Legal(v, w) ==
  \/ v = w
  \/ v = "absent"  /\ w \in {"running", "finished"}
  \/ v = "dormant" /\ w = "running"
  \/ v = "running" /\ w \in {"halted", "failed", "finished"}
  \/ v = "halted"  /\ w \in {"running", "failed"}
  \/ v = "failed"  /\ w = "dormant"

(* Legal pairs are the steps of WorkflowLifecycle.                         *)
LEMMA LegalSteps ==
  ASSUME Legal(db.wf, db'.wf)
  PROVE  [Lifecycle!Next]_(db.wf)
BY DEF Legal, Lifecycle!Next, Lifecycle!Start, Lifecycle!Halt, Lifecycle!Resume, Lifecycle!Fail,
       Lifecycle!Finish, Lifecycle!Restart

(* The rows of a transaction that begins with those of a request.          *)
LEMMA RequestState ==
  ASSUME Inv, NEW d \in Database, Waiting(d)
  PROVE  Request(d) \in From(d.wf)
BY RequestSound DEF From

(* Committing a transaction that began in the present state is legal.      *)
LEMMA CommitState ==
  ASSUME NEW t \in From(db.wf), Commit(t)
  PROVE  Legal(db.wf, db'.wf)
BY DEF Commit, From, Legal

(* Rows that are written are the next rows.                                *)
LEMMA WriteNext == ASSUME NEW d, Write(d) PROVE db' = d
BY DEF Write, Commit, Request, Transact

(* Clients.                                                                *)
LEMMA ClientLegal ==
  ASSUME Inv, ClientStep \/ DirectStep
  PROVE  Legal(db.wf, db'.wf)
<1>1. db \in Database /\ Waiting(db)
  BY DEF Inv, TypeOK
<1>2. CASE StartWorkflow
  <2>1. PICK v \in Valuation, a \in Activity, u \in User \cup {None} :
          Commit(AdvanceFromActivity(Transact([Blank(v) EXCEPT !.wf = "running"], "", None,
                                              [NoOverride EXCEPT ![a] = u], FALSE),
                                     StartActivity))
    BY <1>2 DEF StartWorkflow
  <2>2. [NoOverride EXCEPT ![a] = u] \in [Activity -> User \cup {None}]
    BY DEF NoOverride
  <2>3. "" \in Label
    BY DEF Label
  <2>4. StartActivity \in Activity
    BY ValidTemplateAssumption DEF StartActivity, Type
  <2> DEFINE blank == Blank(v)
             d     == [blank EXCEPT !.wf = "running"]
             t     == Transact(d, "", None, [NoOverride EXCEPT ![a] = u], FALSE)
  <2>5. d \in Database /\ Waiting(d) /\ d.wf = "running"
    <3>1. blank \in Database /\ Waiting(blank)
      BY BlankType
    <3> HIDE DEF blank
    <3>2. d \in Database /\ NoHarm(blank, d) /\ d.wf = "running"
      BY <3>1 DEF Database, WorkflowState, NoHarm
    <3> HIDE DEF d
    <3> QED BY <3>1, <3>2, HarmlessSteps
  <2>6. Commit(AdvanceFromActivity(t, StartActivity))
    BY <2>1
  <2> HIDE DEF d
  <2>7. t \in Sound /\ t.db = d
    BY <2>2, <2>3, <2>5, TransactSound
  <2> HIDE DEF t
  <2>8. AdvanceFromActivity(t, StartActivity) \in From("running")
    BY <2>4, <2>5, <2>7, AdvanceState DEF From
  <2>9. db.wf = "absent"
    BY <1>2 DEF StartWorkflow
  <2> QED BY <2>6, <2>8, <2>9 DEF Commit, From, Legal
<1>3. ASSUME NEW u \in User, NEW a \in Activity, NEW i \in Items(a),
             AcquireWorkItem(u, a, i) \/ ReleaseWorkItem(u, a, i)
      PROVE  Legal(db.wf, db'.wf)
  <2> DEFINE Held(p, s) == [db EXCEPT !.item[a][i].state = s, !.item[a][i].performer = p]
  <2>1. \A p, s : Held(p, s).wf = db.wf
    BY <1>1 DEF Database
  <2>2. db' = Held(u, "acquired") \/ db' = Held(None, "available")
    BY <1>3, WriteNext DEF AcquireWorkItem, ReleaseWorkItem
  <2> HIDE DEF Held
  <2> QED BY <2>1, <2>2 DEF Legal
<1>4. ASSUME NEW a \in Activity, NEW i \in Items(a), CompleteItemDirect(a, i)
      PROVE  Legal(db.wf, db'.wf)
  <2>1. PICK v \in Valuation, p \in Label, n \in NextPerformers(a) :
          Commit(CompleteWorkItem(Transact(db, p, n, NoOverride, FALSE), a, i, v))
    BY <1>4 DEF CompleteItemDirect
  <2>2. n \in User \cup {None} /\ NoOverride \in [Activity -> User \cup {None}]
    BY DEF NextPerformers, NoOverride
  <2> DEFINE t == Transact(db, p, n, NoOverride, FALSE)
  <2>3. t \in From(db.wf) /\ t.db = db
    BY <1>1, <2>2, TransactSound DEF From
  <2> HIDE DEF t
  <2>4. CompleteWorkItem(t, a, i, v) \in From(db.wf)
    BY <2>3, CompleteWorkItemState DEF Items
  <2> QED BY <2>1, <2>4, CommitState DEF t
<1>5. ASSUME NEW u \in User, NEW a \in Activity, NEW i \in Items(a), CompleteInboxItem(u, a, i)
      PROVE  Legal(db.wf, db'.wf)
  BY <1>4, <1>5 DEF CompleteInboxItem, CompleteItemDirect
<1>6. ASSUME NEW u \in User, NEW a \in Activity, NEW i \in Items(a), RejectInboxItem(u, a, i)
      PROVE  Legal(db.wf, db'.wf)
  <2> DEFINE t == Request(db)
  <2>1. t \in From(db.wf) /\ t.db = db
    BY <1>1, RequestSound DEF From
  <2> HIDE DEF t
  <2>2. RejectWorkItem(t, a, i) \in From(db.wf)
    BY <2>1, RejectWorkItemState DEF Items
  <2>3. Commit(RejectWorkItem(t, a, i))
    BY <1>6 DEF RejectInboxItem, t
  <2> QED BY <2>2, <2>3, CommitState
<1>7. CASE UpdateVariable
  <2>1. db'.wf = db.wf
    BY <1>1, <1>7 DEF UpdateVariable, Write, Commit, Request, Transact, Database
  <2> QED BY <2>1 DEF Legal
<1> QED BY <1>2, <1>3, <1>4, <1>5, <1>6, <1>7 DEF ClientStep, InboxStep, DirectStep

(* Operators.                                                              *)
LEMMA OperatorLegal ==
  ASSUME Inv, OperatorStep
  PROVE  Legal(db.wf, db'.wf)
<1>1. db \in Database /\ Waiting(db)
  BY DEF Inv, TypeOK
<1>2. ASSUME NEW s, NEW S, NEW r PROVE Mark(SetWorkflow(db, s), S, r).wf = s
  BY <1>1 DEF Mark, SetWorkflow, Database
<1>4. CASE Halt
  BY <1>2, <1>4, WriteNext DEF Halt, Legal
<1>5. CASE Resume
  BY <1>2, <1>5, WriteNext DEF Resume, Legal
<1>6. CASE Abort
  <2> DEFINE d == Mark(SetWorkflow(db, "failed"), Open, "complete")
  <2>1. d.wf = "failed" /\ d \in Database
    BY <1>1, <1>2, SetWorkflowType, MarkType DEF WorkflowState, ItemState
  <2>2. db' = [d EXCEPT !.act = [a \in Activity |-> IF d.act[a] = "active" THEN "complete"
                                                    ELSE d.act[a]]]
    BY <1>6, WriteNext DEF Abort
  <2> HIDE DEF d
  <2>3. db'.wf = "failed"
    BY <2>1, <2>2 DEF Database
  <2> QED BY <1>6, <2>3 DEF Abort, Legal
<1>7. CASE Restart
  <2>1. db'.wf = "dormant"
    BY <1>1, <1>7, WriteNext DEF Restart, Database
  <2> QED BY <1>7, <2>1 DEF Restart, Legal
<1>8. CASE Compensate
  BY <1>1, <1>8, ExecuteCompensationState, WriteNext DEF Compensate, Legal
<1>9. ASSUME NEW a \in Activity, RetryActivity(a)
      PROVE  Legal(db.wf, db'.wf)
  <2>1. db'.wf = db.wf
    BY <1>1, <1>9, WriteNext DEF RetryActivity, Database
  <2> QED BY <2>1 DEF Legal
<1>10. ASSUME NEW a \in Activity, SkipActivity(a)
       PROVE  Legal(db.wf, db'.wf)
  <2> DEFINE d == [db EXCEPT !.act[a] = "active"]
             t == AdvanceFromActivity(Request(d), a)
  <2>1. d \in Database /\ Waiting(d) /\ d.wf = db.wf
    <3>1. d \in Database /\ NoHarm(db, d)
      BY <1>1, SetActivityType DEF ActivityState
    <3>2. d.wf = db.wf
      BY <1>1 DEF Database
    <3> QED BY <1>1, <3>1, <3>2, HarmlessSteps
  <2>2. Commit([t EXCEPT !.db = Logged(t.db, a)])
    BY <1>10 DEF SkipActivity
  <2> HIDE DEF d
  <2>3. t \in From(db.wf) /\ t.db \in Database
    <3>1. t \in From(db.wf)
      BY <2>1, RequestState, AdvanceState
    <3> QED BY <3>1 DEF From, Sound, Transaction
  <2> HIDE DEF t
  <2>4. Logged(t.db, a).wf = t.db.wf
    BY <2>3 DEF Logged, Database
  <2>5. [t EXCEPT !.db = Logged(t.db, a)] \in From(db.wf)
    BY <2>3, <2>4, LoggedType, FromRows
  <2> QED BY <2>2, <2>5, CommitState
<1> QED BY <1>4, <1>5, <1>6, <1>7, <1>8, <1>9, <1>10 DEF OperatorStep

(* Timeouts, events and the ends of children.                              *)
LEMMA BusLegal ==
  ASSUME Inv, BusStep
  PROVE  Legal(db.wf, db'.wf)
<1>1. db \in Database /\ Waiting(db)
  BY DEF Inv, TypeOK
<1>2. CASE JoinTimeout
  <2>1. PICK S : db' = ForceFire(db, S)
    BY <1>2, WriteNext DEF JoinTimeout
  <2>2. ForceFire(db, S).wf = db.wf
    BY <1>1 DEF ForceFire, Database
  <2> QED BY <2>1, <2>2 DEF Legal
<1>3. ASSUME NEW t \in From(db.wf) PROVE [t EXCEPT !.ok = TRUE] \in From(db.wf)
  BY DEF From, Sound, Transaction
<1>4. ASSUME NEW e, EventFires(e)
      PROVE  Legal(db.wf, db'.wf)
  <2> DEFINE F(order) == [i \in DOMAIN order |-> [x \in Transaction |->
                            IF x.ok THEN AdvanceFromActivity(x, order[i]) ELSE x]]
             t(order) == Iterate(F(order), Request(db), Len(order))
  <2>1. PICK order \in [1..Cardinality(Listening(e)) -> Listening(e)] :
          Commit([t(order) EXCEPT !.ok = TRUE])
    BY <1>4 DEF EventFires
  <2>2. Cardinality(Listening(e)) \in Nat
    BY TemplateAssumption, FS_Subset, FS_CardinalityType DEF Listening
  <2>3. /\ Len(order) \in Nat
        /\ DOMAIN order = 1..Len(order)
        /\ \A i \in DOMAIN order : order[i] \in Activity
    BY <2>1, <2>2 DEF Listening
  <2>4. \A x \in From(db.wf), i \in 1..Len(order) : F(order)[i][x] \in From(db.wf)
    <3>1. SUFFICES ASSUME NEW x \in From(db.wf), NEW i \in DOMAIN order
          PROVE  F(order)[i][x] \in From(db.wf)
      BY <2>3
    <3>2. F(order)[i][x] = IF x.ok THEN AdvanceFromActivity(x, order[i]) ELSE x
      BY DEF From, Sound
    <3> HIDE DEF F
    <3> QED BY <2>3, <3>2, AdvanceState
  <2>5. Request(db) \in From(db.wf)
    BY <1>1, RequestState
  <2>6. t(order) \in From(db.wf)
    <3> DEFINE G == F(order)
    <3> HIDE DEF F, G
    <3>1. \A x \in From(db.wf), i \in 1..Len(order) : G[i][x] \in From(db.wf)
      BY <2>4 DEF G
    <3>2. Iterate(G, Request(db), Len(order)) \in From(db.wf)
      BY <2>3, <2>5, <3>1, IterateClosed
    <3> QED BY <3>2 DEF G
  <2> HIDE DEF t
  <2> QED BY <1>3, <2>1, <2>6, CommitState
<1>5. ASSUME NEW a \in Activity, NEW announced \in BOOLEAN, ChildFinishes(a, announced)
      PROVE  Legal(db.wf, db'.wf)
  <2> DEFINE d == [db EXCEPT !.child[a] = @ - 1]
             t == AdvanceFromActivity(Request(d), a)
  <2>1. d \in Database /\ Waiting(d) /\ d.wf = db.wf
    <3> DEFINE child == [db.child EXCEPT ![a] = @ - 1]
    <3>1. child \in [Activity -> Nat]
      <4>1. db.child \in [Activity -> Nat] /\ db.child[a] - 1 \in Nat
        BY <1>1, <1>5 DEF ChildFinishes, Database
      <4> QED BY <4>1
    <3> HIDE DEF child
    <3>2. [db EXCEPT !.child = child] \in Database /\ NoHarm(db, [db EXCEPT !.child = child])
          /\ [db EXCEPT !.child = child].wf = db.wf
      BY <1>1, <3>1 DEF Database, NoHarm
    <3> QED BY <1>1, <3>2, HarmlessSteps DEF child
  <2>2. Write(d) \/ Commit([t EXCEPT !.ok = TRUE])
    BY <1>5 DEF ChildFinishes
  <2> HIDE DEF d
  <2>3. CASE Write(d)
    BY <2>1, <2>3 DEF Write, Commit, Request, Transact, Legal
  <2>4. CASE Commit([t EXCEPT !.ok = TRUE])
    <3>1. t \in From(db.wf)
      BY <2>1, RequestState, AdvanceState
    <3> HIDE DEF t
    <3> QED BY <1>3, <2>4, <3>1, CommitState
  <2> QED BY <2>2, <2>3, <2>4
<1>6. ASSUME NEW a \in Activity, ChildFails(a)
      PROVE  Legal(db.wf, db'.wf)
  <2>1. db'.wf = db.wf
    BY <1>1, <1>6 DEF ChildFails, Write, Commit, Request, Transact, Database
  <2> QED BY <2>1 DEF Legal
<1> QED BY <1>2, <1>4, <1>5, <1>6 DEF BusStep

(* Requests, tasks and events implement the lifecycle of the workflow:     *)
(* initial states map to initial states and steps to steps or stutters.    *)
THEOREM RequestsFollowLifecycle == RequestSpec => LifecycleSpec
<1> DEFINE Step == ClientStep \/ DirectStep \/ UserStep \/ OperatorStep \/ BusStep
<1>1. Init => Inv /\ Lifecycle!Init
  BY InitSound DEF Init, Lifecycle!Init, Blank
<1>2. Inv /\ [Step]_vars => Inv'
  BY InvStep DEF Next
<1>3. Inv /\ [Step]_vars => [Lifecycle!Next]_(db.wf)
  <2>1. ASSUME Inv, UserStep \/ UNCHANGED vars PROVE db' = db
    BY <2>1 DEF UserStep, UpdateAvailability, vars
  <2>2. ASSUME Inv, Step PROVE [Lifecycle!Next]_(db.wf)
    BY <2>1, <2>2, ClientLegal, OperatorLegal, BusLegal, LegalSteps
  <2> QED BY <2>1, <2>2
<1> QED BY <1>1, <1>2, <1>3, PTL DEF RequestSpec, LifecycleSpec, Lifecycle!Spec
=============================================================================
