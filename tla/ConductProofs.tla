--------------------------- MODULE ConductProofs ---------------------------
(***************************************************************************)
(* What the engine never does while it advances a workflow: it gives up no *)
(* auto activity, revives nothing that was cancelled, suspends no item,    *)
(* and touches no settled one.  From this, what the requests and the agent *)
(* never do.  Then two invariants of templates of certain kinds: whose     *)
(* inboxes match their activities, and whose AND-joins do not start before *)
(* all their tokens are there.                                             *)
(***************************************************************************)
EXTENDS WorkflowProofs

-----------------------------------------------------------------------------
(* The conduct, as a relation of the rows before and after.                *)

Settled == {"complete", "rejected"}

(* The items r of an activity that had the items s: none is newly suspended. *)
NoneSuspended(s, r) ==
  \A i \in DOMAIN r :
    r[i].state = "suspended" => i \in DOMAIN s /\ s[i].state = "suspended"

(* The settled ones are still there, and settled in the same way.          *)
SettledStay(s, r) ==
  \A i \in DOMAIN s :
    s[i].state \in Settled =>
      /\ i \in DOMAIN r
      /\ r[i].state = s[i].state
      /\ r[i].performer = s[i].performer

(* The rows d may become the rows e.                                       *)
Conducted(d, e) ==
  /\ e.logs = d.logs
  /\ \A a \in Activity :
       /\ Type(a) = "auto" /\ e.act[a] = "error" => d.act[a] = "error"
       /\ d.act[a] = "cancelled" => e.act[a] = "cancelled"
       /\ e.child[a] > 0 => d.child[a] > 0 \/ Type(a) = "sub_workflow"
       /\ NoneSuspended(d.item[a], e.item[a])

ItemsStay(d, e) == \A a \in Activity : SettledStay(d.item[a], e.item[a])

(* Both: the conduct of the engine's loop.                                 *)
Kept(d, e) == Conducted(d, e) /\ ItemsStay(d, e)

(* Doing nothing is proper conduct,                                        *)
LEMMA KeptNothing == ASSUME NEW d PROVE Kept(d, d)
BY DEF Kept, Conducted, ItemsStay, NoneSuspended, SettledStay

(* and so is one proper thing after another.                               *)
LEMMA ConductedChain ==
  ASSUME NEW c, NEW d, NEW e, Conducted(c, d), Conducted(d, e)
  PROVE  Conducted(c, e)
BY DEF Conducted, NoneSuspended

(* The same of settled items.                                              *)
LEMMA StayChain ==
  ASSUME NEW c, NEW d, NEW e, ItemsStay(c, d), ItemsStay(d, e)
  PROVE  ItemsStay(c, e)
BY DEF ItemsStay, SettledStay

(* And of both.                                                            *)
LEMMA KeptChain ==
  ASSUME NEW c, NEW d, NEW e, Kept(c, d), Kept(d, e)
  PROVE  Kept(c, e)
BY ConductedChain, StayChain DEF Kept

-----------------------------------------------------------------------------
(* Items.                                                                  *)

(* Closing, suspending or resuming what is open touches nothing settled.   *)
LEMMA SetItemsKept ==
  ASSUME NEW items \in Seq(Item), NEW S \in SUBSET Open, NEW s \in ItemState
  PROVE  /\ SettledStay(items, SetItems(items, S, s))
         /\ s # "suspended" => NoneSuspended(items, SetItems(items, S, s))
<1>1. DOMAIN SetItems(items, S, s) = DOMAIN items
  BY DEF SetItems
<1>2. ASSUME NEW i \in DOMAIN items
      PROVE  /\ items[i].state \in S => SetItems(items, S, s)[i].state = s
             /\ items[i].state \notin S => SetItems(items, S, s)[i] = items[i]
  <2>1. items[i] \in Item
    OBVIOUS
  <2> QED BY <2>1 DEF SetItems, Item
<1> QED BY <1>1, <1>2 DEF SettledStay, NoneSuspended, Settled, Open

(* Nor does an update of the workflow row.                                 *)
LEMMA AgedKept ==
  ASSUME NEW items \in Seq(Item)
  PROVE  SettledStay(items, Aged(items)) /\ NoneSuspended(items, Aged(items))
<1>1. DOMAIN Aged(items) = DOMAIN items
  BY DEF Aged
<1>2. ASSUME NEW i \in DOMAIN items
      PROVE  /\ Aged(items)[i].state = items[i].state
             /\ Aged(items)[i].performer = items[i].performer
  <2>1. items[i] \in Item
    OBVIOUS
  <2> QED BY <2>1 DEF Aged, Item
<1> QED BY <1>1, <1>2 DEF SettledStay, NoneSuspended

(* Nor do new items, which are available.                                  *)
LEMMA AppendKept ==
  ASSUME NEW items \in Seq(Item), NEW new \in Seq(Item),
         \A i \in DOMAIN new : new[i].state = "available"
  PROVE  SettledStay(items, items \o new) /\ NoneSuspended(items, items \o new)
<1>1. /\ DOMAIN items = 1..Len(items) /\ Len(items) \in Nat
      /\ DOMAIN new = 1..Len(new) /\ Len(new) \in Nat
      /\ DOMAIN (items \o new) = 1..(Len(items) + Len(new))
  OBVIOUS
<1>2. \A i \in DOMAIN items : i \in DOMAIN (items \o new) /\ (items \o new)[i] = items[i]
  BY <1>1
<1>3. ASSUME NEW i \in DOMAIN (items \o new), i \notin DOMAIN items
      PROVE  (items \o new)[i].state = "available"
  <2>1. i - Len(items) \in DOMAIN new
    BY <1>1, <1>3
  <2>2. (items \o new)[i] = new[i - Len(items)]
    BY <1>1, <1>3
  <2> QED BY <2>1, <2>2
<1> QED BY <1>2, <1>3 DEF SettledStay, NoneSuspended

(* One new item.                                                           *)
LEMMA AppendOneKept ==
  ASSUME NEW items \in Seq(Item), NEW u \in User \cup {None}
  PROVE  /\ SettledStay(items, Append(items, NewItem(u)))
         /\ NoneSuspended(items, Append(items, NewItem(u)))
<1> DEFINE it == NewItem(u)
<1>1. it \in Item /\ it.state = "available"
  BY NewItemType DEF NewItem
<1> HIDE DEF it
<1>2. /\ DOMAIN items = 1..Len(items) /\ Len(items) \in Nat
      /\ DOMAIN Append(items, it) = 1..(Len(items) + 1)
      /\ Append(items, it)[Len(items) + 1] = it
      /\ \A i \in DOMAIN items : Append(items, it)[i] = items[i]
  OBVIOUS
<1> QED BY <1>1, <1>2 DEF SettledStay, NoneSuspended, it

(* The items of a list of performers are new.                              *)
LEMMA AssignedNew ==
  ASSUME NEW performers
  PROVE  \A i \in DOMAIN Assigned(performers) : Assigned(performers)[i].state = "available"
<1>1. CASE performers = <<>>
  BY <1>1 DEF Assigned, NewItem
<1>2. CASE performers # <<>>
  BY <1>2 DEF Assigned, NewItem
<1> QED BY <1>1, <1>2

(* So are those of an activated manual activity.                           *)
LEMMA ManualItemsNew ==
  ASSUME NEW t, NEW a
  PROVE  \A i \in DOMAIN ManualItems(t, a) : ManualItems(t, a)[i].state = "available"
<1>1. CASE PerformedBy(a) = "queue"
  BY <1>1 DEF ManualItems, NewItem
<1>2. CASE PerformedBy(a) # "queue"
  BY <1>2, AssignedNew DEF ManualItems
<1> QED BY <1>1, <1>2

-----------------------------------------------------------------------------
(* The advancement loop.                                                   *)

(* Rows that agree on what the conduct speaks of.                          *)
LEMMA KeptSame ==
  ASSUME NEW d, NEW e, e.logs = d.logs, e.act = d.act,
         e.child = d.child, e.item = d.item
  PROVE  Kept(d, e)
BY DEF Kept, Conducted, ItemsStay, NoneSuspended, SettledStay

(* Rows that agree on all but the states of activities and the items.      *)
LEMMA KeptStates ==
  ASSUME NEW d, NEW e, e.logs = d.logs, e.child = d.child,
         \A a \in Activity :
           /\ Type(a) = "auto" /\ e.act[a] = "error" => d.act[a] = "error"
           /\ d.act[a] = "cancelled" => e.act[a] = "cancelled"
           /\ SettledStay(d.item[a], e.item[a])
           /\ NoneSuspended(d.item[a], e.item[a])
  PROVE  Kept(d, e)
BY DEF Kept, Conducted, ItemsStay

(* Setting the state of the workflow.                                      *)
LEMMA SetWorkflowKept ==
  ASSUME NEW d \in Database, NEW s
  PROVE  Kept(d, SetWorkflow(d, s))
<1> DEFINE e == SetWorkflow(d, s)
<1>1. /\ e.logs = d.logs /\ e.act = d.act /\ e.child = d.child
      /\ \A a \in Activity : e.item[a] = Aged(d.item[a])
  BY DEF SetWorkflow, Database
<1>2. \A a \in Activity : d.item[a] \in Seq(Item)
  BY DEF Database
<1> HIDE DEF e
<1>3. \A a \in Activity : SettledStay(d.item[a], e.item[a]) /\ NoneSuspended(d.item[a], e.item[a])
  BY <1>1, <1>2, AgedKept
<1> QED BY <1>1, <1>3, KeptStates DEF e

(* Cancelling the other branches of a join.                                *)
LEMMA CancelKept ==
  ASSUME NEW d \in Database, NEW a \in Activity
  PROVE  Kept(d, CancelRemainingBranches(d, a))
<1> DEFINE e == CancelRemainingBranches(d, a)
<1>1. /\ e.logs = d.logs /\ e.child = d.child
      /\ \A b \in Activity :
           /\ e.act[b] \in {d.act[b], "cancelled"}
           /\ e.item[b] \in {d.item[b], SetItems(d.item[b], Open, "complete")}
  BY DEF CancelRemainingBranches, Database
<1>2. \A b \in Activity : d.item[b] \in Seq(Item)
  BY DEF Database
<1>3. \A b \in Activity : SettledStay(d.item[b], d.item[b]) /\ NoneSuspended(d.item[b], d.item[b])
  BY DEF SettledStay, NoneSuspended
<1>4. \A b \in Activity : SettledStay(d.item[b], e.item[b]) /\ NoneSuspended(d.item[b], e.item[b])
  <2> HIDE DEF e
  <2> QED BY <1>1, <1>2, <1>3, SetItemsKept DEF ItemState
<1> HIDE DEF e
<1>5. \A b \in Activity : /\ e.act[b] = "error" => d.act[b] = "error"
                          /\ d.act[b] = "cancelled" => e.act[b] = "cancelled"
  BY <1>1
<1> QED BY <1>1, <1>4, <1>5, KeptStates DEF e

(* A join fires: its activity was not cancelled.                           *)
LEMMA JoinKept ==
  ASSUME NEW d \in Database, NEW a \in Activity, d.act[a] # "cancelled"
  PROVE  Kept(d, Join(d, a))
<1> DEFINE c == Consume(d, a)
<1>1. c \in Database
  BY ConsumeType
<1>2. /\ c.logs = d.logs /\ c.child = d.child /\ c.item = d.item
      /\ c.act[a] = "active" /\ \A b \in Activity : b # a => c.act[b] = d.act[b]
  BY DEF Consume, Database
<1> HIDE DEF c
<1>3. Kept(d, c)
  BY <1>2 DEF Kept, Conducted, ItemsStay, NoneSuspended, SettledStay
<1> QED BY <1>1, <1>3, CancelKept, KeptChain DEF Join, c

(* The activity of a join is active, whatever branches it cancels.         *)
LEMMA JoinActivates ==
  ASSUME NEW d \in Database, NEW a \in Activity
  PROVE  Join(d, a).act[a] = "active"
<1> DEFINE c == Consume(d, a)
<1>1. c \in Database /\ c.act[a] = "active"
  <2>1. c.act[a] = "active"
    BY DEF Consume, Database
  <2> QED BY <2>1, ConsumeType
<1>2. a \notin {Template.flow[f].source : f \in Incoming(a)}
  BY ValidTemplateAssumption DEF Incoming, Target, Flow
<1>3. ASSUME NEW e \in Database, e.act[a] = "active"
      PROVE  CancelRemainingBranches(e, a).act[a] = "active"
  <2> DEFINE cut == {b \in {Template.flow[f].source : f \in Incoming(a)} :
                       e.act[b] \in {"dormant", "active"}}
  <2>1. CancelRemainingBranches(e, a).act = [b \in Activity |-> IF b \in cut THEN "cancelled"
                                                               ELSE e.act[b]]
    BY DEF CancelRemainingBranches, Database
  <2>2. a \notin cut
    BY <1>2
  <2> QED BY <1>3, <2>1, <2>2
<1>4. Join(d, a) \in {c, CancelRemainingBranches(c, a)}
  BY DEF Join
<1> HIDE DEF c
<1>5. CancelRemainingBranches(c, a).act[a] = "active"
  BY <1>1, <1>3
<1> QED BY <1>1, <1>4, <1>5

(* An activity starts: it was not cancelled.                               *)
LEMMA ActivateKept ==
  ASSUME NEW t \in Transaction, NEW a \in Activity, t.db.act[a] # "cancelled"
  PROVE  Kept(t.db, Activate(t, a).db)
<1> DEFINE j == Join(t.db, a)
<1>1. t.db \in Database
  BY DEF Transaction
<1>2. j \in Database /\ Kept(t.db, j)
  BY <1>1, JoinType, JoinKept
<1>3. j.act[a] # "cancelled"
  BY <1>1, JoinActivates
<1> HIDE DEF j
<1>4. CASE Type(a) \in {"start", "end"}
  <2>1. Activate(t, a).db = [j EXCEPT !.act[a] = "complete"]
    BY <1>4 DEF Activate, Transaction, j
  <2>2. Kept(j, [j EXCEPT !.act[a] = "complete"])
    <3> DEFINE e == [j EXCEPT !.act[a] = "complete"]
    <3>1. /\ e.logs = j.logs /\ e.child = j.child /\ e.item = j.item
          /\ e.act[a] = "complete" /\ \A b \in Activity : b # a => e.act[b] = j.act[b]
      BY <1>2 DEF Database
    <3> HIDE DEF e
    <3> QED BY <1>3, <3>1
        DEF Kept, Conducted, ItemsStay, NoneSuspended, SettledStay
  <2> QED BY <1>2, <2>1, <2>2, KeptChain
<1>5. CASE Type(a) = "manual"
  <2> DEFINE item == [j.item EXCEPT ![a] = @ \o ManualItems(t, a)]
             idx  == [j.idx EXCEPT ![a] = IF PerformedBy(a) = "sequential" /\ Performers(a) # <<>>
                                          THEN 0 ELSE @]
             e    == [j EXCEPT !.item = item, !.idx = idx]
  <2>1. Activate(t, a).db = e
    BY <1>5 DEF Activate, ActivateManual, Transaction, j
  <2>2. /\ item[a] = j.item[a] \o ManualItems(t, a)
        /\ \A b \in Activity : b # a => item[b] = j.item[b]
    BY <1>2 DEF Database
  <2> HIDE DEF item, idx
  <2>3. /\ e.logs = j.logs /\ e.child = j.child /\ e.act = j.act
        /\ e.item = item
    BY <1>2 DEF Database
  <2> HIDE DEF e
  <2>4. \A b \in Activity : SettledStay(j.item[b], item[b]) /\ NoneSuspended(j.item[b], item[b])
    <3>1. j.item[a] \in Seq(Item)
      BY <1>2 DEF Database
    <3>2. SettledStay(j.item[a], item[a]) /\ NoneSuspended(j.item[a], item[a])
      BY <2>2, <3>1, ManualItemsType, ManualItemsNew, AppendKept
    <3> QED BY <2>2, <3>2 DEF SettledStay, NoneSuspended
  <2>5. Kept(j, e)
    BY <2>3, <2>4 DEF Kept, Conducted, ItemsStay
  <2> QED BY <1>2, <2>1, <2>5, KeptChain
<1>6. CASE Type(a) = "sub_workflow"
  <2> DEFINE joined == [t EXCEPT !.db = j]
             failed == [joined EXCEPT !.db.act[a] = "error"]
             begun  == [joined EXCEPT !.db.child[a] = @ + 1]
  <2>1. joined.db = j /\ Raise(joined).db = j
    BY DEF Transaction, Raise
  <2>2. /\ failed.db.logs = j.logs /\ failed.db.child = j.child
        /\ failed.db.item = j.item
        /\ failed.db.act[a] = "error" /\ \A b \in Activity : b # a => failed.db.act[b] = j.act[b]
        /\ begun.db.logs = j.logs /\ begun.db.act = j.act
        /\ begun.db.item = j.item
        /\ \A b \in Activity : b # a => begun.db.child[b] = j.child[b]
    BY <1>2, <2>1 DEF Transaction, Database
  <2>3. \/ ActivateSubWorkflow(t, a) = failed
        \/ ActivateSubWorkflow(t, a) = Raise(joined)
        \/ ActivateSubWorkflow(t, a) = begun
    <3>1. CASE Depth + 1 > MaxDepth
      <4>1. ~ (Depth + 1 <= MaxDepth)
        BY <3>1, DepthAssumption
      <4> QED BY <3>1, <4>1 DEF ActivateSubWorkflow, j
    <3>2. CASE Depth + 1 <= MaxDepth
      <4>1. ~ (Depth + 1 > MaxDepth)
        BY <3>2, DepthAssumption
      <4> QED BY <3>2, <4>1 DEF ActivateSubWorkflow, j
    <3> QED BY <3>1, <3>2, DepthAssumption
  <2> HIDE DEF joined, failed, begun
  <2>4. Kept(j, failed.db) /\ Kept(j, begun.db) /\ Kept(j, j)
    BY <1>3, <1>6, <2>2
    DEF Kept, Conducted, ItemsStay, NoneSuspended, SettledStay
  <2> QED BY <1>2, <1>6, <2>1, <2>3, <2>4, KeptChain DEF Activate
<1>7. CASE Type(a) \in {"auto", "event"}
  <2>1. Activate(t, a).db = j
    BY <1>7 DEF Activate, Transaction, j
  <2> QED BY <1>2, <2>1
<1> QED BY <1>4, <1>5, <1>6, <1>7, TemplateTypes DEF ActivityType

(* Placing a token.                                                        *)
LEMMA FireFlowKept ==
  ASSUME NEW t \in Transaction, NEW f \in Flow
  PROVE  Kept(t.db, FireFlow(t, f).db)
<1> DEFINE a      == Target(f)
           tok    == [t.db.tok EXCEPT ![a] = Append(@, f)]
           placed == [t EXCEPT !.db = [t.db EXCEPT !.tok = tok]]
           timed  == [placed EXCEPT !.db.clock = @ \cup {a}]
<1>1. t.db \in Database /\ a \in Activity
  BY TemplateTypes DEF Transaction
<1>2. placed \in Transaction /\ placed.db = [t.db EXCEPT !.tok = tok]
  <2>1. tok \in [Activity -> Seq(Flow)]
    BY <1>1 DEF Database
  <2> HIDE DEF tok
  <2>2. [t.db EXCEPT !.tok = tok] \in Database
    BY <1>1, <2>1 DEF Database
  <2> QED BY <2>2, WithDatabase
<1>3. \/ FireFlow(t, f) \in {placed, timed}
      \/ t.db.act[a] = "dormant" /\ FireFlow(t, f) = Activate(placed, a)
  <2>1. placed = [t EXCEPT !.db.tok[a] = Append(@, f)]
    BY <1>1 DEF Transaction, Database
  <2> HIDE DEF placed
  <2> QED BY <2>1 DEF FireFlow
<1> HIDE DEF tok
<1>4. /\ placed.db.act = t.db.act
      /\ Kept(t.db, placed.db)
  <2>1. /\ placed.db.logs = t.db.logs
        /\ placed.db.act = t.db.act /\ placed.db.child = t.db.child
        /\ placed.db.item = t.db.item
    BY <1>1, <1>2 DEF Database
  <2> HIDE DEF placed
  <2> QED BY <2>1, KeptSame
<1> HIDE DEF placed
<1>5. Kept(t.db, timed.db)
  <2>1. /\ timed.db.logs = placed.db.logs
        /\ timed.db.act = placed.db.act /\ timed.db.child = placed.db.child
        /\ timed.db.item = placed.db.item
    BY <1>2 DEF Transaction, Database
  <2> HIDE DEF timed
  <2> QED BY <1>4, <2>1, KeptSame, KeptChain
<1> HIDE DEF timed, a
<1>6. t.db.act[a] = "dormant" => Kept(t.db, Activate(placed, a).db)
  <2>1. SUFFICES ASSUME t.db.act[a] = "dormant" PROVE Kept(t.db, Activate(placed, a).db)
    OBVIOUS
  <2>2. Kept(placed.db, Activate(placed, a).db)
    BY <1>1, <1>2, <1>4, <2>1, ActivateKept
  <2> QED BY <1>4, <2>2, KeptChain
<1> QED BY <1>3, <1>4, <1>5, <1>6

(* The sound transactions that the rows d may have become.                 *)
After(d) == {t \in Sound : Kept(d, t.db)}

(* Placing the tokens of several flows.                                    *)
LEMMA FireFlowsKept ==
  ASSUME NEW d, NEW t \in After(d), NEW flows
  PROVE  FireFlows(t, flows) \in After(d)
<1> DEFINE F == [f \in Flow |-> [x \in Transaction |->
                    IF x.ok /\ f \in flows THEN FireFlow(x, f) ELSE x]]
           n == Len(Template.flow)
<1>1. n \in Nat /\ Flow = 1..n
  BY TemplateTypes
<1>2. \A x \in After(d), f \in 1..n : F[f][x] \in After(d)
  <2>1. SUFFICES ASSUME NEW x \in After(d), NEW f \in Flow PROVE F[f][x] \in After(d)
    BY <1>1
  <2>2. x \in Sound /\ x \in Transaction /\ Kept(d, x.db)
    BY DEF After, Sound
  <2>3. F[f][x] = IF x.ok /\ f \in flows THEN FireFlow(x, f) ELSE x
    BY <2>2
  <2>4. FireFlow(x, f) \in Sound /\ Kept(d, FireFlow(x, f).db)
    BY <2>2, FireFlowSound, FireFlowKept, KeptChain
  <2> QED BY <2>2, <2>3, <2>4 DEF After
<1>3. Iterate(F, t, n) \in After(d)
  <2> HIDE DEF F, n
  <2> QED BY <1>1, <1>2, IterateClosed
<1> QED BY <1>3 DEF FireFlows

(* A round of the loop.                                                    *)
LEMMA RoundKept ==
  ASSUME NEW d, NEW t \in After(d)
  PROVE  Round(t) \in After(d)
<1> DEFINE a    == Head(t.queue)
           rest == [t EXCEPT !.queue = Tail(@), !.path = ""]
<1>1. t \in Sound /\ t \in Transaction /\ Kept(d, t.db)
  BY DEF After, Sound
<1>2. SUFFICES ASSUME t.queue # <<>> PROVE ProcessHead(t) \in After(d)
  BY DEF Round
<1>3. rest \in After(d)
  <2> DEFINE queue == Tail(t.queue)
  <2>1. queue \in Seq(Activity)
    BY <1>1, <1>2 DEF Transaction
  <2>2. "" \in Label
    BY DEF Label
  <2>3. rest = [t EXCEPT !.queue = queue, !.path = ""]
    OBVIOUS
  <2> HIDE DEF queue, rest
  <2>4. rest \in Transaction /\ rest.db = t.db
    BY <1>1, <2>1, <2>2, <2>3 DEF Transaction
  <2> QED BY <1>1, <2>4 DEF After, Sound
<1>4. a \in Activity
  BY <1>1, <1>2 DEF Transaction
<1>5. \/ ProcessHead(t) = FireFlows(rest, FiringFlows(t, a))
      \/ ProcessHead(t) = Raise(rest)
      \/ ProcessHead(t) = Conclude(rest, a)
  BY DEF ProcessHead
<1> HIDE DEF rest, a
<1>6. FireFlows(rest, FiringFlows(t, a)) \in After(d)
  BY <1>3, FireFlowsKept
<1>7. rest \in Sound /\ rest \in Transaction /\ rest.db \in Database /\ Kept(d, rest.db)
  BY <1>3 DEF After, Sound, Transaction
<1>8. Raise(rest) \in After(d)
  BY <1>7, RaiseSound, RaiseType DEF After
<1>9. Conclude(rest, a) \in After(d)
  <2> DEFINE ended == [rest EXCEPT !.db = SetWorkflow(@, "finished")]
  <2>1. \/ Conclude(rest, a) = rest
        \/ Conclude(rest, a) = Raise(rest)
        \/ Conclude(rest, a) = ended
    BY DEF Conclude
  <2>2. Conclude(rest, a) \in Sound
    BY <1>4, <1>7, ConcludeSound
  <2>3. ended.db = SetWorkflow(rest.db, "finished")
    BY <1>7 DEF Transaction
  <2> HIDE DEF ended
  <2>4. Kept(d, ended.db)
    BY <1>7, <2>3, SetWorkflowKept, KeptChain
  <2> QED BY <1>3, <1>8, <2>1, <2>2, <2>4 DEF After
<1> QED BY <1>5, <1>6, <1>8, <1>9

(* Completing an activity that has not ended.                              *)
LEMMA CompletedKept ==
  ASSUME NEW t \in Transaction, NEW a \in Activity, t.db.act[a] \in {"dormant", "active"}
  PROVE  Kept(t.db, Completed(t, a).db)
<1> DEFINE m     == MaxOrder(t.db) + 1
           act   == [t.db.act EXCEPT ![a] = "complete"]
           order == [t.db.order EXCEPT ![a] = m]
           e     == [t.db EXCEPT !.act = act, !.order = order]
<1>1. t.db \in Database
  BY DEF Transaction
<1>2. Completed(t, a).db = e
  <2> HIDE DEF m
  <2>1. [t EXCEPT !.db.act[a] = "complete", !.db.order[a] = m, !.queue = <<a>>].db = e
    BY <1>1 DEF Transaction, Database
  <2> QED BY <2>1 DEF Completed, m
<1>3. /\ act[a] = "complete" /\ \A b \in Activity : b # a => act[b] = t.db.act[b]
      /\ order[a] = m /\ \A b \in Activity : b # a => order[b] = t.db.order[b]
  BY <1>1 DEF Database
<1> HIDE DEF act, order, m
<1>5. /\ e.logs = t.db.logs /\ e.child = t.db.child /\ e.item = t.db.item
      /\ e.act = act /\ e.order = order
  BY <1>1 DEF Database
<1> HIDE DEF e
<1> QED BY <1>2, <1>3, <1>5 DEF Kept, Conducted, ItemsStay, NoneSuspended, SettledStay

(* _advance_from_activity.                                                 *)
LEMMA AdvanceKept ==
  ASSUME NEW d, NEW t \in After(d), NEW a \in Activity
  PROVE  AdvanceFromActivity(t, a) \in After(d)
<1> DEFINE n == Cardinality(Activity)
           F == [k \in 1..n |-> [x \in Transaction |-> Round(x)]]
<1>1. n \in Nat
  BY TemplateAssumption, FS_CardinalityType
<1>2. \A x \in After(d), k \in 1..n : F[k][x] \in After(d)
  BY RoundKept DEF After, Sound
<1>3. t \in Sound /\ t \in Transaction /\ t.db \in Database /\ Kept(d, t.db)
  BY DEF After, Sound, Transaction
<1>4. \A x \in After(d) : Raise(x) \in After(d)
  BY RaiseSound, RaiseType DEF After, Sound
<1>5. ASSUME t.db.act[a] \in {"dormant", "active"}
      PROVE  AnnounceItems(Iterate(F, Completed(t, a), n)) \in After(d)
  <2>1. Completed(t, a) \in After(d)
    BY <1>3, <1>5, CompletedSound, CompletedKept, KeptChain DEF After
  <2> HIDE DEF F, n
  <2>2. Iterate(F, Completed(t, a), n) \in After(d)
    BY <1>1, <1>2, <2>1, IterateClosed
  <2> QED BY <1>4, <2>2 DEF AnnounceItems
<1> QED BY <1>4, <1>5 DEF AdvanceFromActivity

-----------------------------------------------------------------------------
(* Completing and rejecting items, handlers and compensation.              *)

(* Other items of one activity, of which one has changed, and that one was *)
(* not settled.                                                            *)
LEMMA OneItemKept ==
  ASSUME NEW d, NEW e, NEW a \in Activity, NEW i \in DOMAIN d.item[a],
         e.logs = d.logs, e.act = d.act, e.child = d.child,
         \A b \in Activity : b # a => e.item[b] = d.item[b],
         DOMAIN e.item[a] = DOMAIN d.item[a],
         \A j \in DOMAIN d.item[a] : j # i => e.item[a][j] = d.item[a][j],
         e.item[a][i].state # "suspended"
  PROVE  /\ Conducted(d, e)
         /\ d.item[a][i].state \notin Settled => Kept(d, e)
<1>1. \A b \in Activity : NoneSuspended(d.item[b], e.item[b])
  BY DEF NoneSuspended
<1>2. d.item[a][i].state \notin Settled => \A b \in Activity : SettledStay(d.item[b], e.item[b])
  BY DEF SettledStay
<1> QED BY <1>1, <1>2 DEF Kept, Conducted, ItemsStay

(* Handing a sequential activity on.                                       *)
LEMMA PassOnKept ==
  ASSUME NEW d \in Database, NEW a \in Activity, NEW n \in Nat, n < Len(Performers(a))
  PROVE  Kept(d, PassOn(d, a, n))
<1> DEFINE e == PassOn(d, a, n)
           u == Performers(a)[n + 1]
<1>1. u \in User \cup {None}
  <2>1. n + 1 \in DOMAIN Performers(a)
    BY TemplateTypes
  <2> QED BY <2>1, TemplateTypes
<1>2. d.item[a] \in Seq(Item)
  BY DEF Database
<1>3. /\ e.logs = d.logs /\ e.act = d.act /\ e.child = d.child
      /\ e.item[a] = Append(d.item[a], NewItem(u))
      /\ \A b \in Activity : b # a => e.item[b] = d.item[b]
  BY DEF PassOn, Database
<1> HIDE DEF e, u
<1>4. \A b \in Activity : SettledStay(d.item[b], e.item[b]) /\ NoneSuspended(d.item[b], e.item[b])
  <2>1. SettledStay(d.item[a], e.item[a]) /\ NoneSuspended(d.item[a], e.item[a])
    BY <1>1, <1>2, <1>3, AppendOneKept
  <2> QED BY <1>3, <2>1 DEF SettledStay, NoneSuspended
<1> QED BY <1>3, <1>4, KeptStates DEF e

(* complete_work_item: the item it completes may have been rejected, since *)
(* the direct request does not ask.                                        *)
LEMMA CompleteWorkItemKept ==
  ASSUME NEW t \in Sound, NEW a \in Activity, NEW i \in DOMAIN t.db.item[a],
         NEW v \in Valuation
  PROVE  /\ Conducted(t.db, CompleteWorkItem(t, a, i, v).db)
         /\ t.db.item[a][i].state \notin Settled
              => Kept(t.db, CompleteWorkItem(t, a, i, v).db)
<1> DEFINE c == [t.db EXCEPT !.item[a][i].state = "complete"]
           d == [c EXCEPT !.var = v]
           p == PassOn(d, a, d.idx[a] + 1)
           u == [t EXCEPT !.db = d]
           r == CompleteWorkItem(t, a, i, v)
<1>1. t \in Transaction /\ t.db \in Database
  BY DEF Sound, Transaction
<1>2. c \in Database /\ NoHarm(t.db, c)
  BY <1>1, SetItemType DEF ItemState
<1>3. [t.db EXCEPT !.item[a][i].state = "complete", !.var = v] = d
  OBVIOUS
<1>4. Conducted(t.db, c) /\ (t.db.item[a][i].state \notin Settled => Kept(t.db, c))
  <2>1. /\ c.logs = t.db.logs /\ c.act = t.db.act
        /\ c.child = t.db.child
        /\ \A b \in Activity : b # a => c.item[b] = t.db.item[b]
        /\ c.item[a] = [t.db.item[a] EXCEPT ![i].state = "complete"]
    BY <1>1 DEF Database
  <2>2. t.db.item[a] \in Seq(Item) /\ t.db.item[a][i] \in Item
    BY <1>1 DEF Database
  <2> HIDE DEF c
  <2>3. /\ DOMAIN c.item[a] = DOMAIN t.db.item[a]
        /\ \A j \in DOMAIN t.db.item[a] : j # i => c.item[a][j] = t.db.item[a][j]
        /\ c.item[a][i].state = "complete"
    BY <2>1, <2>2 DEF Item
  <2> QED BY <2>1, <2>3, OneItemKept
<1> HIDE DEF c
<1>5. d \in Database /\ NoHarm(t.db, d) /\ Kept(c, d)
  <2>1. d \in Database /\ NoHarm(t.db, d)
    BY <1>2 DEF Database, NoHarm
  <2>2. /\ d.logs = c.logs /\ d.act = c.act /\ d.child = c.child
        /\ d.item = c.item
    BY <1>2 DEF Database
  <2> HIDE DEF d
  <2> QED BY <2>1, <2>2, KeptSame
<1> HIDE DEF d
<1>6. u \in After(d)
  <2>1. u \in Sound /\ u.db = d
    BY <1>1, <1>5, SoundRows, WithDatabase
  <2> QED BY <2>1, KeptNothing DEF After
<1>7. Kept(d, AdvanceFromActivity(u, a).db)
  BY <1>6, AdvanceKept DEF After
<1>8. ASSUME d.idx[a] + 1 < Len(Performers(a)) PROVE Kept(d, [t EXCEPT !.db = p].db)
  <2>1. d.idx[a] + 1 \in Nat
    BY <1>5 DEF Database, Places
  <2>2. [t EXCEPT !.db = p].db = p
    BY <1>1 DEF Transaction
  <2> QED BY <1>5, <1>8, <2>1, <2>2, PassOnKept
<1>9. \/ r = Raise(t)
      \/ r = AdvanceFromActivity(u, a)
      \/ d.idx[a] + 1 < Len(Performers(a)) /\ r = [t EXCEPT !.db = p]
  <2>1. CASE t.db.wf # "running" \/ t.db.item[a][i].state = "complete"
    BY <2>1 DEF CompleteWorkItem
  <2>2. CASE ~ (t.db.wf # "running" \/ t.db.item[a][i].state = "complete")
    BY <1>3, <2>2, Zenon DEF CompleteWorkItem
  <2> QED BY <2>1, <2>2
<1> HIDE DEF u, p, r
<1>10. Raise(t).db = t.db
  BY <1>1, RaiseType
<1>11. r.db = t.db \/ Kept(d, r.db)
  BY <1>7, <1>8, <1>9, <1>10 DEF u
<1>12. CASE r.db = t.db
  BY <1>12, KeptNothing DEF r, Kept
<1>13. CASE Kept(d, r.db)
  <2>1. Kept(c, r.db)
    BY <1>5, <1>13, KeptChain
  <2>2. Conducted(t.db, r.db)
    BY <1>4, <2>1, ConductedChain DEF Kept
  <2>3. t.db.item[a][i].state \notin Settled => Kept(t.db, r.db)
    BY <1>4, <2>1, KeptChain
  <2> QED BY <2>2, <2>3 DEF r
<1> QED BY <1>11, <1>12, <1>13

(* Reject flows lead to activities that were not cancelled.                *)
LEMMA FollowRejectsKept ==
  ASSUME NEW d \in Database, NEW flows \in SUBSET Flow,
         \A f \in flows : d.act[Target(f)] # "cancelled"
  PROVE  Kept(d, FollowRejects(d, flows))
<1> DEFINE redo == {Target(f) : f \in flows}
           e    == FollowRejects(d, flows)
<1>1. /\ e.logs = d.logs /\ e.child = d.child
      /\ \A b \in Activity :
           /\ e.act[b] = IF b \in redo THEN "active" ELSE d.act[b]
           /\ e.item[b] = IF b \in redo THEN d.item[b] \o Assigned(Resolved(b)) ELSE d.item[b]
  BY DEF FollowRejects, Database
<1> HIDE DEF e
<1>2. \A b \in Activity : /\ e.act[b] = "error" => d.act[b] = "error"
                          /\ d.act[b] = "cancelled" => e.act[b] = "cancelled"
  BY <1>1
<1> HIDE DEF redo
<1>3. \A b \in Activity : SettledStay(d.item[b], e.item[b]) /\ NoneSuspended(d.item[b], e.item[b])
  <2>1. SUFFICES ASSUME NEW b \in Activity
        PROVE  SettledStay(d.item[b], e.item[b]) /\ NoneSuspended(d.item[b], e.item[b])
    OBVIOUS
  <2>2. d.item[b] \in Seq(Item)
    BY DEF Database
  <2>3. Resolved(b) \in Seq(User \cup {None})
    BY TemplateTypes DEF Resolved
  <2>4. CASE b \in redo
    BY <1>1, <2>2, <2>3, <2>4, AssignedType, AssignedNew, AppendKept
  <2>5. CASE b \notin redo
    BY <1>1, <2>5 DEF SettledStay, NoneSuspended
  <2> QED BY <2>4, <2>5
<1> QED BY <1>1, <1>2, <1>3, KeptStates DEF e

(* reject_work_item settles an item that was acquired.                     *)
LEMMA RejectWorkItemKept ==
  ASSUME NEW t \in Sound, NEW a \in Activity, NEW i \in DOMAIN t.db.item[a]
  PROVE  Kept(t.db, RejectWorkItem(t, a, i).db)
<1> DEFINE d     == [t.db EXCEPT !.item[a][i].state = "rejected"]
           flows == FlowsFrom(a, "reject")
           r     == RejectWorkItem(t, a, i)
           p     == PassOn(d, a, d.idx[a] - 1)
           q     == FollowRejects(d, flows)
<1>1. t \in Transaction /\ t.db \in Database
  BY DEF Sound, Transaction
<1>2. d \in Database
  BY <1>1, SetItemType DEF ItemState
<1>3. t.db.item[a][i].state = "acquired" => Kept(t.db, d)
  <2>1. /\ d.logs = t.db.logs /\ d.act = t.db.act
        /\ d.child = t.db.child
        /\ \A b \in Activity : b # a => d.item[b] = t.db.item[b]
        /\ d.item[a] = [t.db.item[a] EXCEPT ![i].state = "rejected"]
    BY <1>1 DEF Database
  <2>2. t.db.item[a] \in Seq(Item) /\ t.db.item[a][i] \in Item
    BY <1>1 DEF Database
  <2> HIDE DEF d
  <2>3. /\ DOMAIN d.item[a] = DOMAIN t.db.item[a]
        /\ \A j \in DOMAIN t.db.item[a] : j # i => d.item[a][j] = t.db.item[a][j]
        /\ d.item[a][i].state = "rejected"
    BY <2>1, <2>2 DEF Item
  <2> QED BY <2>1, <2>3, OneItemKept DEF Settled
<1>4. \/ r = Raise(t)
      \/ /\ t.db.item[a][i].state = "acquired"
         /\ \/ d.idx[a] > 0 /\ r = [t EXCEPT !.db = p]
            \/ /\ \A f \in flows : d.act[Target(f)] \in {"dormant", "error", "complete"}
               /\ r = [t EXCEPT !.db = q]
  <2>1. CASE t.db.wf # "running" \/ t.db.item[a][i].state # "acquired"
    BY <2>1, Zenon DEF RejectWorkItem
  <2>2. CASE ~ (t.db.wf # "running" \/ t.db.item[a][i].state # "acquired")
    BY <2>2, Zenon DEF RejectWorkItem
  <2> QED BY <2>1, <2>2
<1> HIDE DEF d
<1>5. ASSUME d.idx[a] > 0 PROVE Kept(d, p)
  <2>1. d.idx[a] - 1 \in Nat /\ d.idx[a] - 1 < Len(Performers(a))
    <3>1. d.idx[a] \in Nat /\ d.idx[a] < Len(Performers(a))
      BY <1>2, <1>5 DEF Database, Places
    <3>2. Len(Performers(a)) \in Nat
      BY TemplateTypes
    <3> QED BY <1>5, <3>1, <3>2
  <2> QED BY <1>2, <2>1, PassOnKept
<1>6. ASSUME \A f \in flows : d.act[Target(f)] \in {"dormant", "error", "complete"}
      PROVE  Kept(d, q)
  <2>1. flows \in SUBSET Flow
    BY DEF FlowsFrom
  <2> HIDE DEF flows
  <2> QED BY <1>2, <1>6, <2>1, FollowRejectsKept
<1>7. [t EXCEPT !.db = p].db = p /\ [t EXCEPT !.db = q].db = q
  BY <1>1 DEF Transaction
<1> HIDE DEF p, q, r, flows
<1>8. r = Raise(t) => Kept(t.db, r.db)
  BY <1>1, RaiseType, KeptNothing
<1> QED BY <1>3, <1>4, <1>5, <1>6, <1>7, <1>8, KeptChain DEF r

(* Handlers and compensations start what was dormant.                      *)
LEMMA RouseKept ==
  ASSUME NEW d \in Database, NEW S
  PROVE  Kept(d, Rouse(d, S))
<1> DEFINE e == Rouse(d, S)
<1>1. /\ e.logs = d.logs /\ e.child = d.child
      /\ \A b \in Activity :
           /\ e.act[b] = d.act[b] \/ (d.act[b] = "dormant" /\ e.act[b] = "active")
           /\ e.item[b] \in {d.item[b], d.item[b] \o Assigned(Resolved(b))}
  BY DEF Rouse, Database
<1> HIDE DEF e
<1>2. \A b \in Activity : /\ e.act[b] = "error" => d.act[b] = "error"
                          /\ d.act[b] = "cancelled" => e.act[b] = "cancelled"
  BY <1>1
<1>3. \A b \in Activity : SettledStay(d.item[b], e.item[b]) /\ NoneSuspended(d.item[b], e.item[b])
  <2>1. SUFFICES ASSUME NEW b \in Activity
        PROVE  SettledStay(d.item[b], e.item[b]) /\ NoneSuspended(d.item[b], e.item[b])
    OBVIOUS
  <2>2. d.item[b] \in Seq(Item)
    BY DEF Database
  <2>3. Resolved(b) \in Seq(User \cup {None})
    BY TemplateTypes DEF Resolved
  <2>4. CASE e.item[b] = d.item[b] \o Assigned(Resolved(b))
    BY <2>2, <2>3, <2>4, AssignedType, AssignedNew, AppendKept
  <2>5. CASE e.item[b] = d.item[b]
    BY <2>5 DEF SettledStay, NoneSuspended
  <2> QED BY <1>1, <2>4, <2>5
<1> QED BY <1>1, <1>2, <1>3, KeptStates DEF e

(* execute_compensation.                                                   *)
LEMMA ExecuteCompensationKept ==
  ASSUME NEW d \in Database
  PROVE  Kept(d, ExecuteCompensation(d))
<1> DEFINE started == Rouse(d, {Compensation(a) : a \in Compensatable(d)})
<1>1. started \in Database /\ Kept(d, started)
  BY RouseType, RouseKept
<1>2. ExecuteCompensation(d) \in {d, started, SetWorkflow(started, "halted")}
  BY DEF ExecuteCompensation
<1> HIDE DEF started
<1>3. Kept(d, SetWorkflow(started, "halted"))
  BY <1>1, SetWorkflowKept, KeptChain
<1> QED BY <1>1, <1>2, <1>3, KeptNothing

(* Closing or resuming open items.                                         *)
LEMMA MarkKept ==
  ASSUME NEW d \in Database, NEW S \in SUBSET Open, NEW s \in ItemState
  PROVE  ItemsStay(d, Mark(d, S, s)) /\ (s # "suspended" => Kept(d, Mark(d, S, s)))
<1> DEFINE e == Mark(d, S, s)
<1>1. /\ e.logs = d.logs /\ e.act = d.act /\ e.child = d.child
      /\ \A a \in Activity : e.item[a] = SetItems(d.item[a], S, s)
  BY DEF Mark, Database
<1>2. \A a \in Activity : d.item[a] \in Seq(Item)
  BY DEF Database
<1> HIDE DEF e
<1>3. \A a \in Activity : /\ SettledStay(d.item[a], e.item[a])
                          /\ s # "suspended" => NoneSuspended(d.item[a], e.item[a])
  BY <1>1, <1>2, SetItemsKept
<1> QED BY <1>1, <1>3, KeptStates DEF e, ItemsStay

(* A log more, where there were too few.                                   *)
LEMMA LoggedRows ==
  ASSUME NEW d \in Database, NEW a \in Activity
  PROVE  /\ \A b \in Activity : Logged(d, a).logs[b] >= d.logs[b]
         /\ d.logs[a] + 1 >= MaxAttempts => Logged(d, a).logs[a] >= MaxAttempts
         /\ \/ Logged(d, a).logs[a] = d.logs[a] + 1
            \/ Logged(d, a).logs[a] >= MaxAttempts
        
         /\ Logged(d, a).act = d.act
         /\ Logged(d, a).child = d.child
         /\ Logged(d, a).item = d.item
         /\ Logged(d, a).wf = d.wf
<1> DEFINE e == Logged(d, a)
<1>1. /\ e.act = d.act /\ e.child = d.child /\ e.item = d.item
      /\ e.wf = d.wf
  BY DEF Logged, Database
<1>2. /\ e.logs[a] = IF d.logs[a] < MaxAttempts THEN d.logs[a] + 1 ELSE d.logs[a]
      /\ \A b \in Activity : b # a => e.logs[b] = d.logs[b]
  BY DEF Logged, Database
<1>3. MaxAttempts \in Nat /\ \A b \in Activity : d.logs[b] \in Nat
  BY SystemAssumption DEF Database
<1> HIDE DEF e
<1>4. \A b \in Activity : e.logs[b] >= d.logs[b]
  BY <1>2, <1>3
<1>5. /\ d.logs[a] + 1 >= MaxAttempts => e.logs[a] >= MaxAttempts
      /\ e.logs[a] = d.logs[a] + 1 \/ e.logs[a] >= MaxAttempts
  BY <1>2, <1>3
<1> QED BY <1>1, <1>4, <1>5 DEF e

-----------------------------------------------------------------------------
(* What a step may do.                                                     *)

(* Any step: the agent gives an activity up when its log is full.          *)
Modest(d, e) ==
  /\ d.wf # "absent" => e.wf # "absent"
  /\ \A a \in Activity :
       /\ e.logs[a] >= d.logs[a]
       /\ Type(a) = "auto" /\ e.act[a] = "error"
            => d.act[a] = "error" \/ e.logs[a] >= MaxAttempts
       /\ e.child[a] > 0 => d.child[a] > 0 \/ Type(a) = "sub_workflow"

(* A step that is one transaction: nothing cancelled is revived, and what  *)
(* is suspended afterwards is so in a halted workflow.                     *)
Proper(d, e) ==
  /\ Modest(d, e)
  /\ \A a \in Activity :
       /\ d.act[a] = "cancelled" /\ e.wf # "dormant" => e.act[a] = "cancelled"
       /\ \A i \in DOMAIN e.item[a] :
            e.item[a][i].state = "suspended" =>
              \/ e.wf = "halted"
              \/ /\ d.wf # "halted"
                 /\ i \in DOMAIN d.item[a]
                 /\ d.item[a][i].state = "suspended"

(* Good conduct is proper, unless it lets a halted workflow go on.         *)
LEMMA ConductedProper ==
  ASSUME NEW d \in Database, NEW e \in Database, Conducted(d, e),
         d.wf = "halted" => e.wf = "halted",
         d.wf # "absent" => e.wf # "absent"
  PROVE  Proper(d, e)
<1>1. \A a \in Activity : e.logs[a] >= d.logs[a]
  BY DEF Conducted, Database
<1> QED BY <1>1 DEF Conducted, Proper, Modest, NoneSuspended

(* More logs make no step improper.                                        *)
LEMMA MoreLogs ==
  ASSUME NEW c \in Database, NEW d \in Database, NEW e \in Database, Proper(c, d),
         e.act = d.act, e.child = d.child, e.item = d.item, e.wf = d.wf,
         \A a \in Activity : e.logs[a] >= c.logs[a] /\ e.logs[a] >= d.logs[a]
  PROVE  Proper(c, e)
<1>1. \A a \in Activity : d.logs[a] >= MaxAttempts => e.logs[a] >= MaxAttempts
  <2>1. MaxAttempts \in Nat /\ \A a \in Activity : d.logs[a] \in Nat /\ e.logs[a] \in Nat
    BY SystemAssumption DEF Database
  <2> QED BY <2>1
<1> QED BY <1>1 DEF Proper, Modest

(* What a transaction that began in state w ends with.                     *)
LEMMA FromRead ==
  ASSUME NEW w, NEW t \in From(w)
  PROVE  t.db \in Database /\ (t.db.wf = w \/ (w = "running" /\ t.db.wf = "finished"))
<1>1. t \in Transaction /\ (t.db.wf = w \/ (w = "running" /\ t.db.wf = "finished"))
  BY DEF From, Sound
<1> QED BY <1>1 DEF Transaction

(* Committing what began with the present rows is proper.                  *)
LEMMA CommitProper ==
  ASSUME db \in Database, NEW t \in From(db.wf), Commit(t), Conducted(db, t.db)
  PROVE  Proper(db, db')
<1>1. t.db \in Database /\ (t.db.wf = db.wf \/ (db.wf = "running" /\ t.db.wf = "finished"))
  BY FromRead
<1>2. db' = t.db
  BY DEF Commit
<1>3. Proper(db, t.db)
  BY <1>1, ConductedProper
<1> QED BY <1>2, <1>3

(* So is writing rows of good conduct in the same state of the workflow.   *)
LEMMA WriteProper ==
  ASSUME db \in Database, NEW d \in Database, Write(d), Conducted(db, d), d.wf = db.wf
  PROVE  Proper(db, db')
<1>1. db' = d
  BY WriteNext
<1>2. Proper(db, d)
  BY ConductedProper
<1> QED BY <1>1, <1>2

(* The rows of an instance that is not there, and no agent at them.        *)
Unborn ==
  db.wf = "absent" =>
    /\ db \in {Blank(v) : v \in Valuation}
    /\ \A w \in Worker : running[w] = None

(* Only sub-workflow activities have children.                             *)
Spawned(d) == \A a \in Activity : d.child[a] > 0 => Type(a) = "sub_workflow"

(* Completing an item directly.                                            *)
LEMMA CompleteProper ==
  ASSUME Inv, NEW a \in Activity, NEW i \in Items(a), CompleteItemDirect(a, i)
  PROVE  /\ Proper(db, db')
         /\ db.item[a][i].state \notin Settled => ItemsStay(db, db')
<1>1. db \in Database /\ Waiting(db)
  BY DEF Inv, TypeOK
<1>2. PICK v \in Valuation, p \in Label, n \in NextPerformers(a) :
        Commit(CompleteWorkItem(Transact(db, p, n, NoOverride, FALSE), a, i, v))
  BY DEF CompleteItemDirect
<1>3. n \in User \cup {None} /\ NoOverride \in [Activity -> User \cup {None}]
  BY DEF NextPerformers, NoOverride
<1> DEFINE t == Transact(db, p, n, NoOverride, FALSE)
           r == CompleteWorkItem(t, a, i, v)
<1>4. t \in Sound /\ t.db = db
  BY <1>1, <1>3, TransactSound
<1>5. Commit(r)
  BY <1>2
<1> HIDE DEF t
<1>6. t \in From(db.wf) /\ i \in DOMAIN t.db.item[a]
  BY <1>4 DEF From, Items
<1>7. r \in From(db.wf)
  BY <1>6, CompleteWorkItemState
<1>8. Conducted(db, r.db) /\ (db.item[a][i].state \notin Settled => ItemsStay(db, r.db))
  BY <1>4, <1>6, CompleteWorkItemKept DEF Kept
<1> HIDE DEF r
<1>9. db' = r.db
  BY <1>5 DEF Commit
<1> QED BY <1>1, <1>5, <1>7, <1>8, <1>9, CommitProper

(* Starting a workflow.                                                    *)
LEMMA StartProper ==
  ASSUME Inv, Unborn, StartWorkflow
  PROVE  /\ Proper(db, db') /\ ItemsStay(db, db')
         /\ db'.wf # "absent" /\ \A w \in Worker : running'[w] = None
<1>1. db \in Database /\ db.wf = "absent"
  BY DEF Inv, TypeOK, StartWorkflow
<1>2. PICK v \in Valuation, a \in Activity, u \in User \cup {None} :
        Commit(AdvanceFromActivity(Transact([Blank(v) EXCEPT !.wf = "running"], "", None,
                                            [NoOverride EXCEPT ![a] = u], FALSE),
                                   StartActivity))
  BY DEF StartWorkflow
<1>3. [NoOverride EXCEPT ![a] = u] \in [Activity -> User \cup {None}]
  BY DEF NoOverride
<1>4. "" \in Label
  BY DEF Label
<1>5. StartActivity \in Activity
  BY ValidTemplateAssumption DEF StartActivity, Type
<1> DEFINE blank == Blank(v)
           d     == [blank EXCEPT !.wf = "running"]
           t     == Transact(d, "", None, [NoOverride EXCEPT ![a] = u], FALSE)
           r     == AdvanceFromActivity(t, StartActivity)
<1>6. PICK x \in Valuation : db = Blank(x)
  BY <1>1 DEF Unborn
<1>7. d \in Database /\ Waiting(d) /\ d.wf = "running" /\ Kept(db, d)
  <2>1. blank \in Database /\ Waiting(blank)
    BY BlankType
  <2>2. /\ db.logs = blank.logs /\ db.act = blank.act
        /\ db.child = blank.child /\ db.item = blank.item
    BY <1>6 DEF Blank
  <2> HIDE DEF blank
  <2>3. d \in Database /\ NoHarm(blank, d) /\ d.wf = "running"
    BY <2>1 DEF Database, WorkflowState, NoHarm
  <2>4. /\ d.logs = blank.logs /\ d.act = blank.act
        /\ d.child = blank.child /\ d.item = blank.item
    BY <2>1 DEF Database
  <2> HIDE DEF d
  <2> QED BY <2>1, <2>2, <2>3, <2>4, HarmlessSteps, KeptSame
<1>8. Commit(r)
  BY <1>2
<1> HIDE DEF d
<1>9. t \in Sound /\ t.db = d
  BY <1>3, <1>4, <1>7, TransactSound
<1> HIDE DEF t
<1>10. r \in From("running") /\ r \in After(db)
  BY <1>5, <1>7, <1>9, AdvanceState, AdvanceKept DEF From, After
<1> HIDE DEF r
<1>11. r.db \in Database /\ r.db.wf \in {"running", "finished"} /\ Kept(db, r.db)
  BY <1>10 DEF From, After, Sound, Transaction
<1>12. db' = r.db /\ running' = running
  BY <1>8 DEF Commit
<1>13. Proper(db, r.db)
  BY <1>1, <1>11, ConductedProper DEF Kept
<1> QED BY <1>1, <1>11, <1>12, <1>13 DEF Kept, Unborn

(* The steps of the inbox leave settled items alone.                       *)
LEMMA InboxProper ==
  ASSUME Inv, InboxStep
  PROVE  Proper(db, db') /\ ItemsStay(db, db')
<1>1. db \in Database /\ Waiting(db)
  BY DEF Inv, TypeOK
<1>2. PICK u \in User, a \in Activity : \E i \in Items(a) :
        \/ AcquireWorkItem(u, a, i)
        \/ ReleaseWorkItem(u, a, i)
        \/ CompleteInboxItem(u, a, i)
        \/ RejectInboxItem(u, a, i)
  BY DEF InboxStep
<1>3. PICK i \in Items(a) :
        \/ AcquireWorkItem(u, a, i)
        \/ ReleaseWorkItem(u, a, i)
        \/ CompleteInboxItem(u, a, i)
        \/ RejectInboxItem(u, a, i)
  BY <1>2
<1>4. CASE AcquireWorkItem(u, a, i) \/ ReleaseWorkItem(u, a, i)
  <2> DEFINE Held(p, s) == [db EXCEPT !.item[a][i].state = s, !.item[a][i].performer = p]
  <2>1. ASSUME NEW p \in User \cup {None}, NEW s \in {"acquired", "available"},
               db.item[a][i].state \notin Settled, Write(Held(p, s))
        PROVE  Proper(db, db') /\ ItemsStay(db, db')
    <3> DEFINE it    == [db.item[a][i] EXCEPT !.state = s, !.performer = p]
               items == [db.item[a] EXCEPT ![i] = it]
               item  == [db.item EXCEPT ![a] = items]
               e     == [db EXCEPT !.item = item]
    <3>1. db.item \in [Activity -> Seq(Item)] /\ db.item[a] \in Seq(Item)
          /\ db.item[a][i] \in Item /\ i \in DOMAIN db.item[a]
      BY <1>1 DEF Database, Items
    <3>2. it \in Item /\ it.state = s
      BY <3>1 DEF Item, ItemState
    <3>3. Held(p, s) = e
      BY <1>1, <3>1 DEF Database, Item
    <3> HIDE DEF it
    <3>4. /\ items \in Seq(Item) /\ items[i] = it /\ DOMAIN items = DOMAIN db.item[a]
          /\ \A j \in DOMAIN db.item[a] : j # i => items[j] = db.item[a][j]
      BY <3>1, <3>2
    <3> HIDE DEF items
    <3>5. /\ item \in [Activity -> Seq(Item)] /\ item[a] = items
          /\ \A b \in Activity : b # a => item[b] = db.item[b]
      BY <3>1, <3>4
    <3> HIDE DEF item
    <3>6. e \in Database
      BY <1>1, <3>5, WithItems
    <3>7. /\ e.logs = db.logs /\ e.act = db.act /\ e.child = db.child
          /\ e.wf = db.wf /\ e.item = item
      BY <1>1 DEF Database
    <3>8. Write(e)
      BY <2>1, <3>3
    <3> HIDE DEF e
    <3>9. Kept(db, e)
      BY <2>1, <3>1, <3>2, <3>4, <3>5, <3>7, OneItemKept
    <3>10. Proper(db, db')
      BY <1>1, <3>6, <3>7, <3>8, <3>9, WriteProper DEF Kept
    <3>11. db' = e
      BY <3>8, WriteNext
    <3> QED BY <3>9, <3>10, <3>11 DEF Kept
  <2>2. /\ db.item[a][i].state \notin Settled
        /\ Write(Held(u, "acquired")) \/ Write(Held(None, "available"))
    BY <1>4 DEF AcquireWorkItem, ReleaseWorkItem, Settled
  <2> HIDE DEF Held
  <2> QED BY <2>1, <2>2
<1>5. CASE CompleteInboxItem(u, a, i)
  <2>1. db.item[a][i].state \notin Settled /\ CompleteItemDirect(a, i)
    BY <1>5 DEF CompleteInboxItem, CompleteItemDirect, Settled
  <2> QED BY <2>1, CompleteProper
<1>6. CASE RejectInboxItem(u, a, i)
  <2> DEFINE t == Request(db)
             r == RejectWorkItem(t, a, i)
  <2>1. t \in Sound /\ t \in From(db.wf) /\ t.db = db /\ i \in DOMAIN t.db.item[a]
    BY <1>1, RequestSound DEF From, Items
  <2>2. Commit(r)
    BY <1>6 DEF RejectInboxItem
  <2> HIDE DEF t
  <2>3. r \in From(db.wf) /\ Kept(db, r.db)
    BY <2>1, RejectWorkItemState, RejectWorkItemKept
  <2> HIDE DEF r
  <2>4. db' = r.db
    BY <2>2 DEF Commit
  <2> QED BY <1>1, <2>2, <2>3, <2>4, CommitProper DEF Kept
<1> QED BY <1>3, <1>4, <1>5, <1>6

(* So do changes of variables.                                             *)
LEMMA VariableProper ==
  ASSUME Inv, UpdateVariable
  PROVE  Proper(db, db') /\ ItemsStay(db, db')
<1>1. db \in Database
  BY DEF Inv, TypeOK
<1>2. PICK v \in Valuation : Write([db EXCEPT !.var = v])
  BY DEF UpdateVariable
<1> DEFINE e == [db EXCEPT !.var = v]
<1>3. /\ e \in Database /\ e.wf = db.wf
      /\ e.logs = db.logs /\ e.act = db.act /\ e.child = db.child
      /\ e.item = db.item
  BY <1>1 DEF Database
<1>4. Write(e)
  BY <1>2
<1> HIDE DEF e
<1>5. Kept(db, e) /\ db' = e
  BY <1>3, <1>4, KeptSame, WriteNext
<1> QED BY <1>1, <1>3, <1>4, <1>5, WriteProper DEF Kept

(* Halting, resuming, aborting and restarting: items that are settled stay *)
(* so, until a restart deletes them all.                                   *)
LEMMA AdministrationProper ==
  ASSUME Inv, Administration
  PROVE  Proper(db, db') /\ (ItemsStay(db, db') \/ \A a \in Activity : db'.item[a] = <<>>)
<1>1. db \in Database
  BY DEF Inv, TypeOK
<1>2. ASSUME NEW s \in WorkflowState, NEW S \in SUBSET Open, NEW r \in ItemState
      PROVE  /\ Mark(SetWorkflow(db, s), S, r) \in Database
             /\ Mark(SetWorkflow(db, s), S, r).wf = s
             /\ ItemsStay(db, Mark(SetWorkflow(db, s), S, r))
             /\ r # "suspended" => Kept(db, Mark(SetWorkflow(db, s), S, r))
             /\ Mark(SetWorkflow(db, s), S, r).logs = db.logs
            
             /\ Mark(SetWorkflow(db, s), S, r).act = db.act
             /\ Mark(SetWorkflow(db, s), S, r).child = db.child
             /\ \A a \in Activity : \A i \in DOMAIN Mark(SetWorkflow(db, s), S, r).item[a] :
                  "suspended" \in S => Mark(SetWorkflow(db, s), S, r).item[a][i].state # "suspended" \/ r = "suspended"
  <2> DEFINE d == SetWorkflow(db, s)
             e == Mark(d, S, r)
  <2>1. d \in Database /\ Kept(db, d) /\ d.wf = s
        /\ d.logs = db.logs /\ d.act = db.act /\ d.child = db.child
    BY <1>1, SetWorkflowType, SetWorkflowKept DEF SetWorkflow, Database
  <2> HIDE DEF d
  <2>2. e \in Database /\ ItemsStay(d, e) /\ (r # "suspended" => Kept(d, e))
    BY <2>1, MarkType, MarkKept
  <2>3. /\ e.wf = d.wf /\ e.logs = d.logs /\ e.act = d.act
        /\ e.child = d.child
        /\ \A a \in Activity : e.item[a] = SetItems(d.item[a], S, r)
    BY <2>1 DEF Mark, Database
  <2> HIDE DEF e
  <2>4. ASSUME NEW a \in Activity, NEW i \in DOMAIN e.item[a], "suspended" \in S, r # "suspended"
        PROVE  e.item[a][i].state # "suspended"
    <3>1. e.item[a] = SetItems(d.item[a], S, r) /\ d.item[a] \in Seq(Item)
      BY <2>1, <2>3 DEF Database
    <3>2. i \in DOMAIN d.item[a] /\ d.item[a][i] \in Item
      BY <2>4, <3>1 DEF SetItems
    <3>3. e.item[a][i] = IF d.item[a][i].state \in S THEN [d.item[a][i] EXCEPT !.state = r]
                         ELSE d.item[a][i]
      BY <3>1, <3>2 DEF SetItems
    <3> QED BY <2>4, <3>2, <3>3 DEF Item
  <2>5. ItemsStay(db, e) /\ (r # "suspended" => Kept(db, e))
    BY <2>1, <2>2, StayChain, KeptChain DEF Kept
  <2> QED BY <2>1, <2>2, <2>3, <2>4, <2>5 DEF e, d
<1>3. CASE Halt
  <2> DEFINE d == Mark(SetWorkflow(db, "halted"), {"available", "acquired"}, "suspended")
  <2>1. /\ d.wf = "halted" /\ ItemsStay(db, d)
        /\ d.logs = db.logs /\ d.act = db.act /\ d.child = db.child
    BY <1>2 DEF WorkflowState, ItemState, Open
  <2>2. db' = d /\ db.wf = "running"
    BY <1>3, WriteNext DEF Halt
  <2> HIDE DEF d
  <2>3. \A a \in Activity : d.logs[a] >= db.logs[a]
    BY <1>1, <2>1 DEF Database
  <2>4. Proper(db, d)
    BY <2>1, <2>2, <2>3 DEF Proper, Modest
  <2> QED BY <2>1, <2>2, <2>4
<1>4. ASSUME NEW s \in {"running", "failed"}, NEW S \in SUBSET Open,
             NEW r \in {"available", "complete"}, "suspended" \in S,
             NEW e \in Database, e.wf = s, e.item = Mark(SetWorkflow(db, s), S, r).item,
             Conducted(db, e)
      PROVE  Proper(db, e) /\ ItemsStay(db, e)
  <2>1. \A a \in Activity : \A i \in DOMAIN e.item[a] : e.item[a][i].state # "suspended"
    BY <1>2, <1>4 DEF WorkflowState, ItemState
  <2>2. ItemsStay(db, e)
    BY <1>2, <1>4 DEF WorkflowState, ItemState, ItemsStay
  <2>3. \A a \in Activity : e.logs[a] >= db.logs[a]
    BY <1>1, <1>4 DEF Conducted, Database
  <2>4. Proper(db, e)
    BY <1>4, <2>1, <2>3 DEF Proper, Modest, Conducted
  <2> QED BY <2>2, <2>4
<1>5. CASE Resume
  <2> DEFINE d == Mark(SetWorkflow(db, "running"), {"suspended"}, "available")
  <2>1. d \in Database /\ d.wf = "running" /\ Conducted(db, d)
    BY <1>2 DEF WorkflowState, ItemState, Open, Kept
  <2>2. db' = d
    BY <1>5, WriteNext DEF Resume
  <2>3. Proper(db, d) /\ ItemsStay(db, d)
    <3>1. {"suspended"} \in SUBSET Open
      BY DEF Open
    <3> QED BY <1>4, <2>1, <3>1
  <2> QED BY <2>2, <2>3
<1>6. CASE Abort
  <2> DEFINE d   == Mark(SetWorkflow(db, "failed"), Open, "complete")
             act == [a \in Activity |-> IF d.act[a] = "active" THEN "complete" ELSE d.act[a]]
             e   == [d EXCEPT !.act = act]
  <2>1. d \in Database /\ d.wf = "failed" /\ Conducted(db, d)
    BY <1>2 DEF WorkflowState, ItemState, Kept
  <2>2. db' = e
    BY <1>6, WriteNext DEF Abort
  <2>3. act \in [Activity -> ActivityState]
    BY <2>1 DEF Database, ActivityState
  <2>4. e \in Database /\ e.wf = "failed" /\ e.item = d.item /\ Conducted(d, e)
    <3>1. /\ e \in Database /\ e.wf = d.wf /\ e.item = d.item
          /\ e.logs = d.logs /\ e.child = d.child /\ e.act = act
      <4> HIDE DEF d, act
      <4> QED BY <2>1, <2>3 DEF Database
    <3>2. \A a \in Activity : /\ e.act[a] = "error" => d.act[a] = "error"
                              /\ d.act[a] = "cancelled" => e.act[a] = "cancelled"
      <4> HIDE DEF d, e
      <4> QED BY <3>1
    <3> HIDE DEF d, e, act
    <3>3. \A a \in Activity : SettledStay(d.item[a], e.item[a]) /\ NoneSuspended(d.item[a], e.item[a])
      BY <3>1 DEF SettledStay, NoneSuspended
    <3>4. Kept(d, e)
      BY <3>1, <3>2, <3>3, KeptStates
    <3> QED BY <2>1, <3>1, <3>4 DEF Kept
  <2>5. Conducted(db, e)
    BY <2>1, <2>4, ConductedChain
  <2>6. Proper(db, e) /\ ItemsStay(db, e)
    <3> HIDE DEF e, act
    <3>1. Open \in SUBSET Open /\ "suspended" \in Open
      BY DEF Open
    <3> QED BY <1>4, <2>4, <2>5, <3>1
  <2> QED BY <2>2, <2>6
<1>7. CASE Restart
  <2> DEFINE e == [db EXCEPT !.wf = "dormant", !.act = [a \in Activity |-> "dormant"],
                            !.item = [a \in Activity |-> <<>>],
                            !.tok = [a \in Activity |-> <<>>], !.used = {}]
  <2>1. /\ e.wf = "dormant" /\ e.logs = db.logs /\ e.child = db.child
        /\ \A a \in Activity : e.act[a] = "dormant" /\ e.item[a] = <<>>
    BY <1>1 DEF Database
  <2>2. db' = e
    BY <1>7, WriteNext DEF Restart
  <2> HIDE DEF e
  <2>3. \A a \in Activity : e.logs[a] >= db.logs[a]
    BY <1>1, <2>1 DEF Database
  <2>4. Proper(db, e)
    BY <2>1, <2>3 DEF Proper, Modest
  <2> QED BY <2>1, <2>2, <2>4
<1> QED BY <1>3, <1>5, <1>6, <1>7 DEF Administration

-----------------------------------------------------------------------------
(* Operators, tasks and events.                                            *)

(* Compensation may halt a workflow; it suspends nothing.                  *)
LEMMA CompensateProper ==
  ASSUME Inv, Compensate
  PROVE  Proper(db, db') /\ ItemsStay(db, db')
<1>1. db \in Database /\ db.wf \in {"running", "failed"}
  BY DEF Inv, TypeOK, Compensate
<1> DEFINE e == ExecuteCompensation(db)
<1>2. db' = e
  BY WriteNext DEF Compensate
<1>3. e \in Database /\ Kept(db, e) /\ (e.wf = db.wf \/ e.wf = "halted")
  BY <1>1, ExecuteCompensationType, ExecuteCompensationKept, ExecuteCompensationState
<1> HIDE DEF e
<1>4. Proper(db, e)
  BY <1>1, <1>3, ConductedProper DEF Kept
<1> QED BY <1>2, <1>3, <1>4 DEF Kept

(* Taking an activity out of its error.                                    *)
LEMMA MendKept ==
  ASSUME NEW d \in Database, NEW a \in Activity, d.act[a] = "error"
  PROVE  /\ [d EXCEPT !.act[a] = "active"] \in Database
         /\ NoHarm(d, [d EXCEPT !.act[a] = "active"])
         /\ [d EXCEPT !.act[a] = "active"].wf = d.wf
         /\ Kept(d, [d EXCEPT !.act[a] = "active"])
<1> DEFINE e == [d EXCEPT !.act[a] = "active"]
<1>1. e \in Database /\ NoHarm(d, e)
  BY SetActivityType DEF ActivityState
<1>2. /\ e.logs = d.logs /\ e.child = d.child /\ e.item = d.item
      /\ e.wf = d.wf
      /\ e.act[a] = "active"
      /\ \A b \in Activity : b # a => e.act[b] = d.act[b]
  BY DEF Database
<1> HIDE DEF e
<1>3. \A b \in Activity : /\ e.act[b] = "error" => d.act[b] = "error"
                          /\ d.act[b] = "cancelled" => e.act[b] = "cancelled"
  BY <1>2
<1>4. \A b \in Activity : SettledStay(d.item[b], e.item[b]) /\ NoneSuspended(d.item[b], e.item[b])
  BY <1>2 DEF SettledStay, NoneSuspended
<1>5. Kept(d, e)
  BY <1>2, <1>3, <1>4, KeptStates
<1> QED BY <1>1, <1>2, <1>5 DEF e

(* Retrying and skipping.                                                  *)
LEMMA MendProper ==
  ASSUME Inv, NEW a \in Activity, RetryActivity(a) \/ SkipActivity(a)
  PROVE  Proper(db, db')
<1> DEFINE d == [db EXCEPT !.act[a] = "active"]
<1>1. db \in Database /\ Waiting(db) /\ db.act[a] = "error"
  BY DEF Inv, TypeOK, RetryActivity, SkipActivity
<1>2. d \in Database /\ NoHarm(db, d) /\ d.wf = db.wf /\ Kept(db, d)
  BY <1>1, MendKept
<1>3. CASE RetryActivity(a)
  <2>1. Write(d)
    BY <1>3 DEF RetryActivity
  <2> HIDE DEF d
  <2> QED BY <1>1, <1>2, <2>1, WriteProper DEF Kept
<1>4. CASE SkipActivity(a)
  <2> DEFINE t == AdvanceFromActivity(Request(d), a)
             e == Logged(t.db, a)
  <2>1. Commit([t EXCEPT !.db = e])
    BY <1>4 DEF SkipActivity
  <2> HIDE DEF d
  <2>2. Waiting(d)
    BY <1>1, <1>2, HarmlessSteps
  <2>3. Request(d) \in Sound /\ Request(d).db = d
    BY <1>2, <2>2, RequestSound
  <2>4. t \in From(db.wf) /\ t \in After(db)
    BY <1>2, <2>3, AdvanceState, AdvanceKept DEF From, After
  <2> HIDE DEF t
  <2>5. t.db \in Database /\ (t.db.wf = db.wf \/ (db.wf = "running" /\ t.db.wf = "finished"))
    BY <2>4, FromRead
  <2>6. Conducted(db, t.db) /\ t \in Transaction
    BY <2>4 DEF After, Kept, Sound
  <2>7. Proper(db, t.db)
    BY <1>1, <2>5, <2>6, ConductedProper
  <2>8. /\ \A b \in Activity : e.logs[b] >= t.db.logs[b]
        /\ e.act = t.db.act /\ e.child = t.db.child
        /\ e.item = t.db.item /\ e.wf = t.db.wf /\ e \in Database
    BY <2>5, LoggedRows, LoggedType
  <2>9. db' = e
    BY <2>1, <2>6 DEF Commit, Transaction
  <2> HIDE DEF e
  <2>10. \A b \in Activity : e.logs[b] >= db.logs[b]
    <3>1. t.db.logs = db.logs
      BY <2>6 DEF Conducted
    <3> QED BY <2>8, <3>1
  <2>11. Proper(db, e)
    BY <1>1, <2>5, <2>7, <2>8, <2>10, MoreLogs
  <2> QED BY <2>9, <2>11
<1> QED BY <1>3, <1>4

(* The timeout check activates what was dormant.                           *)
LEMMA TimeoutProper ==
  ASSUME Inv, JoinTimeout
  PROVE  Proper(db, db')
<1>1. db \in Database
  BY DEF Inv, TypeOK
<1>2. PICK S \in SUBSET Expirable : Write(ForceFire(db, S))
  BY DEF JoinTimeout
<1>3. S \in SUBSET Activity /\ \A b \in S : db.act[b] = "dormant"
  BY <1>1 DEF Expirable, Database
<1> DEFINE e == ForceFire(db, S)
<1>4. e \in Database
  BY <1>1, <1>3, ForceFireType
<1>5. /\ e.logs = db.logs /\ e.child = db.child /\ e.item = db.item
      /\ e.wf = db.wf
      /\ \A b \in Activity : e.act[b] = IF b \in S THEN "active" ELSE db.act[b]
  BY <1>1 DEF ForceFire, Database
<1>6. Write(e)
  BY <1>2
<1> HIDE DEF e
<1>7. \A b \in Activity : /\ e.act[b] = "error" => db.act[b] = "error"
                          /\ db.act[b] = "cancelled" => e.act[b] = "cancelled"
  BY <1>3, <1>5
<1>8. \A b \in Activity : SettledStay(db.item[b], e.item[b]) /\ NoneSuspended(db.item[b], e.item[b])
  BY <1>5 DEF SettledStay, NoneSuspended
<1>9. Kept(db, e)
  BY <1>5, <1>7, <1>8, KeptStates
<1> QED BY <1>1, <1>4, <1>5, <1>6, <1>9, WriteProper DEF Kept

(* A transaction that is committed though it raised: an exception of a     *)
(* handler is swallowed by the event bus.                                  *)
LEMMA SwallowedProper ==
  ASSUME db \in Database, NEW t \in From(db.wf), t \in After(db), Commit([t EXCEPT !.ok = TRUE])
  PROVE  Proper(db, db')
<1> DEFINE r == [t EXCEPT !.ok = TRUE]
<1>1. t \in Transaction
  BY DEF From, Sound
<1>2. r \in From(db.wf) /\ r.db = t.db
  BY <1>1 DEF From, Sound, Transaction
<1>3. Conducted(db, r.db)
  BY <1>2 DEF After, Kept
<1>4. Commit(r)
  OBVIOUS
<1> HIDE DEF r
<1> QED BY <1>2, <1>3, <1>4, CommitProper

(* Advancing from rows that kept to good conduct.                          *)
LEMMA AdvanceProper ==
  ASSUME db \in Database, NEW w, NEW t \in From(w), t \in After(db), NEW a \in Activity
  PROVE  AdvanceFromActivity(t, a) \in From(w) /\ AdvanceFromActivity(t, a) \in After(db)
<1>1. t \in Sound /\ t.db \in Database /\ Kept(db, t.db)
  BY FromRead DEF After
<1>2. AdvanceFromActivity(t, a) \in From(w)
  BY AdvanceState
<1>3. AdvanceFromActivity(t, a) \in After(t.db)
  BY <1>1, AdvanceKept, KeptNothing DEF After
<1>4. Kept(db, AdvanceFromActivity(t, a).db)
  BY <1>1, <1>3, KeptChain DEF After
<1> QED BY <1>2, <1>3, <1>4 DEF After

(* An event completes the activities that listen to it.                    *)
LEMMA EventProper ==
  ASSUME Inv, NEW e, EventFires(e)
  PROVE  Proper(db, db')
<1> DEFINE F(order) == [i \in DOMAIN order |-> [x \in Transaction |->
                          IF x.ok THEN AdvanceFromActivity(x, order[i]) ELSE x]]
           t(order) == Iterate(F(order), Request(db), Len(order))
           Good     == From(db.wf) \cap After(db)
<1>1. db \in Database /\ Waiting(db)
  BY DEF Inv, TypeOK
<1>2. PICK order \in [1..Cardinality(Listening(e)) -> Listening(e)] :
        Commit([t(order) EXCEPT !.ok = TRUE])
  BY DEF EventFires
<1>3. Cardinality(Listening(e)) \in Nat
  BY TemplateAssumption, FS_Subset, FS_CardinalityType DEF Listening
<1>4. /\ Len(order) \in Nat
      /\ DOMAIN order = 1..Len(order)
      /\ \A i \in DOMAIN order : order[i] \in Activity
  BY <1>2, <1>3 DEF Listening
<1>5. Good \subseteq Transaction
  BY DEF From, Sound
<1> HIDE DEF Good
<1>6. \A x \in Good, i \in 1..Len(order) : F(order)[i][x] \in Good
  <2>1. SUFFICES ASSUME NEW x \in Good, NEW i \in DOMAIN order
        PROVE  F(order)[i][x] \in Good
    BY <1>4
  <2>2. F(order)[i][x] = IF x.ok THEN AdvanceFromActivity(x, order[i]) ELSE x
    BY <1>5
  <2>3. x \in From(db.wf) /\ x \in After(db)
    BY DEF Good
  <2>4. AdvanceFromActivity(x, order[i]) \in Good
    BY <1>1, <1>4, <2>3, AdvanceProper DEF Good
  <2> HIDE DEF F
  <2> QED BY <2>2, <2>4
<1>7. Request(db) \in Good
  <2>1. Request(db) \in From(db.wf) /\ Request(db) \in Sound /\ Request(db).db = db
    BY <1>1, RequestState, RequestSound
  <2> QED BY <2>1, KeptNothing DEF Good, After
<1>8. t(order) \in Good
  <2> DEFINE G == F(order)
  <2> HIDE DEF F, G
  <2>1. \A x \in Good, i \in 1..Len(order) : G[i][x] \in Good
    BY <1>6 DEF G
  <2>2. Iterate(G, Request(db), Len(order)) \in Good
    BY <1>4, <1>7, <2>1, IterateClosed
  <2> QED BY <2>2 DEF G
<1> HIDE DEF t
<1> QED BY <1>1, <1>2, <1>8, SwallowedProper DEF Good

(* A child fewer.                                                          *)
LEMMA ChildKept ==
  ASSUME Inv, NEW a \in Activity, db.child[a] > 0
  PROVE  /\ [db EXCEPT !.child[a] = @ - 1] \in Database
         /\ Waiting([db EXCEPT !.child[a] = @ - 1])
         /\ [db EXCEPT !.child[a] = @ - 1].wf = db.wf
         /\ [db EXCEPT !.child[a] = @ - 1].act = db.act
         /\ Kept(db, [db EXCEPT !.child[a] = @ - 1])
<1> DEFINE child == [db.child EXCEPT ![a] = @ - 1]
           e     == [db EXCEPT !.child = child]
<1>1. db \in Database /\ Waiting(db)
  BY DEF Inv, TypeOK
<1>2. child \in [Activity -> Nat] /\ \A b \in Activity : child[b] > 0 => db.child[b] > 0
  <2>1. db.child \in [Activity -> Nat] /\ db.child[a] - 1 \in Nat
    BY <1>1 DEF Database
  <2> QED BY <2>1
<1> HIDE DEF child
<1>3. /\ e \in Database /\ NoHarm(db, e)
      /\ e.wf = db.wf /\ e.logs = db.logs /\ e.act = db.act
      /\ e.item = db.item /\ e.child = child
  BY <1>1, <1>2 DEF Database, NoHarm
<1> HIDE DEF e
<1>4. Kept(db, e)
  <2>2. ItemsStay(db, e) /\ \A b \in Activity : NoneSuspended(db.item[b], e.item[b])
    BY <1>3 DEF ItemsStay, SettledStay, NoneSuspended
  <2> QED BY <1>2, <1>3, <2>2 DEF Kept, Conducted
<1>5. Waiting(e)
  BY <1>1, <1>3, HarmlessSteps
<1> QED BY <1>3, <1>4, <1>5 DEF e, child

(* The end of a child.                                                     *)
LEMMA ChildProper ==
  ASSUME Inv, Spawned(db), NEW a \in Activity, NEW announced \in BOOLEAN,
         ChildFinishes(a, announced) \/ ChildFails(a)
  PROVE  Proper(db, db')
<1> DEFINE d == [db EXCEPT !.child[a] = @ - 1]
<1>1. db \in Database /\ Waiting(db) /\ db.child[a] > 0
  BY DEF Inv, TypeOK, ChildFinishes, ChildFails
<1>2. d \in Database /\ Waiting(d) /\ d.wf = db.wf /\ d.act = db.act /\ Kept(db, d)
  BY <1>1, ChildKept
<1>3. CASE ChildFinishes(a, announced)
  <2> DEFINE t == AdvanceFromActivity(Request(d), a)
  <2>1. Write(d) \/ Commit([t EXCEPT !.ok = TRUE])
    BY <1>3 DEF ChildFinishes
  <2> HIDE DEF d
  <2>2. CASE Write(d)
    BY <1>1, <1>2, <2>2, WriteProper DEF Kept
  <2>3. CASE Commit([t EXCEPT !.ok = TRUE])
    <3>1. Request(d) \in From(db.wf) /\ Request(d) \in After(db)
      BY <1>2, RequestState, RequestSound DEF After
    <3>2. t \in From(db.wf) /\ t \in After(db)
      BY <1>1, <3>1, AdvanceProper
    <3> HIDE DEF t
    <3> QED BY <1>1, <2>3, <3>2, SwallowedProper
  <2> QED BY <2>1, <2>2, <2>3
<1>4. CASE ChildFails(a)
  <2> DEFINE act == [d.act EXCEPT ![a] = IF @ = "active" THEN "error" ELSE @]
             e   == [d EXCEPT !.act = act]
  <2>1. Write(e)
    <3>1. [db EXCEPT !.child[a] = @ - 1, !.act[a] = IF @ = "active" THEN "error" ELSE @] = e
      BY <1>1, <1>2 DEF Database
    <3> HIDE DEF d, e
    <3> QED BY <1>4, <3>1 DEF ChildFails
  <2> HIDE DEF d
  <2>2. act \in [Activity -> ActivityState]
    BY <1>2 DEF Database, ActivityState
  <2>3. Type(a) # "auto"
    BY <1>1 DEF Spawned
  <2>4. \A b \in Activity : /\ Type(b) = "auto" /\ act[b] = "error" => d.act[b] = "error"
                            /\ d.act[b] = "cancelled" => act[b] = "cancelled"
    BY <1>2, <2>3 DEF Database
  <2> HIDE DEF act
  <2>5. /\ e \in Database /\ e.wf = d.wf /\ e.logs = d.logs
        /\ e.item = d.item /\ e.child = d.child /\ e.act = act
    BY <1>2, <2>2 DEF Database
  <2> HIDE DEF e
  <2>6. \A b \in Activity : SettledStay(d.item[b], e.item[b]) /\ NoneSuspended(d.item[b], e.item[b])
    BY <2>5 DEF SettledStay, NoneSuspended
  <2>7. Kept(d, e)
    BY <2>4, <2>5, <2>6, KeptStates
  <2>8. Conducted(db, e)
    BY <1>2, <2>7, ConductedChain DEF Kept
  <2> QED BY <1>1, <1>2, <2>1, <2>5, <2>8, WriteProper
<1> QED BY <1>3, <1>4

(* Everything that is one transaction.                                     *)
Transactional == ClientStep \/ DirectStep \/ OperatorStep \/ BusStep

(* Each is proper, and leaves the agent alone.                             *)
LEMMA TransactionalProper ==
  ASSUME Inv, Spawned(db), Unborn, Transactional
  PROVE  Proper(db, db') /\ running' = running
<1>1. ASSUME NEW d, Write(d) PROVE running' = running
  BY <1>1 DEF Write, Commit
<1>2. CASE StartWorkflow
  <2>1. running' = running
    BY <1>2 DEF StartWorkflow, Commit
  <2> QED BY <1>2, <2>1, StartProper
<1>3. CASE InboxStep
  <2>1. ASSUME NEW u \in User, NEW a \in Activity, NEW i \in Items(a),
               \/ AcquireWorkItem(u, a, i) \/ ReleaseWorkItem(u, a, i)
               \/ CompleteInboxItem(u, a, i) \/ RejectInboxItem(u, a, i)
        PROVE  running' = running
    <3>1. CASE AcquireWorkItem(u, a, i) \/ ReleaseWorkItem(u, a, i)
      BY <1>1, <3>1 DEF AcquireWorkItem, ReleaseWorkItem
    <3>2. CASE CompleteInboxItem(u, a, i) \/ RejectInboxItem(u, a, i)
      BY <3>2 DEF CompleteInboxItem, RejectInboxItem, Commit
    <3> QED BY <2>1, <3>1, <3>2
  <2>2. running' = running
    BY <1>3, <2>1 DEF InboxStep
  <2> QED BY <1>3, <2>2, InboxProper
<1>4. CASE UpdateVariable
  BY <1>1, <1>4, VariableProper DEF UpdateVariable
<1>5. CASE DirectStep
  BY <1>5, CompleteProper DEF DirectStep, CompleteItemDirect, Commit
<1>6. CASE OperatorStep
  <2>1. CASE Halt \/ Resume \/ Abort \/ Restart
    BY <1>1, <2>1, AdministrationProper DEF Administration, Halt, Resume, Abort, Restart
  <2>2. CASE Compensate
    BY <1>1, <2>2, CompensateProper DEF Compensate
  <2>3. ASSUME NEW a \in Activity, RetryActivity(a) \/ SkipActivity(a)
        PROVE  Proper(db, db') /\ running' = running
    BY <1>1, <2>3, MendProper DEF RetryActivity, SkipActivity, Commit
  <2> QED BY <1>6, <2>1, <2>2, <2>3 DEF OperatorStep
<1>7. CASE BusStep
  <2>1. CASE JoinTimeout
    BY <1>1, <2>1, TimeoutProper DEF JoinTimeout
  <2>2. ASSUME NEW e, EventFires(e) PROVE Proper(db, db') /\ running' = running
    BY <2>2, EventProper DEF EventFires, Commit
  <2>3. ASSUME NEW a \in Activity, NEW announced \in BOOLEAN,
               ChildFinishes(a, announced) \/ ChildFails(a)
        PROVE  Proper(db, db') /\ running' = running
    BY <1>1, <2>3, ChildProper DEF ChildFinishes, ChildFails, Commit
  <2> QED BY <1>7, <2>1, <2>2, <2>3 DEF BusStep
<1> QED BY <1>2, <1>3, <1>4, <1>5, <1>6, <1>7 DEF Transactional, ClientStep

-----------------------------------------------------------------------------
(* The Workflow Agent.                                                     *)

(* An execution counts the logs there were when it began, and only one     *)
(* whose activity has all of them hands it to the error handler.           *)
Counted ==
  \A w \in Worker :
    running[w] # None =>
      /\ running[w].attempt <= db.logs[running[w].act] + 1
      /\ running[w].phase = "handler" => db.logs[running[w].act] >= MaxAttempts

(* The inductive invariant.                                                *)
ConductInv ==
  /\ Inv
  /\ Unborn
  /\ Spawned(db)
  /\ Counted
  /\ GivesUpAfterMaxAttempts

(* More logs, the same executions: still counted.                          *)
LEMMA CountedGrows ==
  ASSUME Inv, Counted, db' \in Database, \A a \in Activity : db'.logs[a] >= db.logs[a]
  PROVE  \A w \in Worker :
           running[w] # None =>
             /\ running[w].act \in Activity
             /\ running[w].attempt <= db'.logs[running[w].act] + 1
             /\ running[w].phase = "handler" => db'.logs[running[w].act] >= MaxAttempts
<1>1. SUFFICES ASSUME NEW w \in Worker, running[w] # None
      PROVE  /\ running[w].act \in Activity
             /\ running[w].attempt <= db'.logs[running[w].act] + 1
             /\ running[w].phase = "handler" => db'.logs[running[w].act] >= MaxAttempts
  OBVIOUS
<1> DEFINE a == running[w].act
           n == running[w].attempt
<1>2. a \in Activity /\ n \in Nat
  BY <1>1 DEF Inv, TypeOK, Execution
<1>3. db.logs[a] \in Nat /\ db'.logs[a] \in Nat /\ MaxAttempts \in Nat
  BY <1>2, SystemAssumption DEF Inv, TypeOK, Database
<1>4. /\ n <= db.logs[a] + 1
      /\ running[w].phase = "handler" => db.logs[a] >= MaxAttempts
      /\ db'.logs[a] >= db.logs[a]
  BY <1>1, <1>2 DEF Counted
<1> HIDE DEF a, n
<1>5. n <= db'.logs[a] + 1 /\ (running[w].phase = "handler" => db'.logs[a] >= MaxAttempts)
  BY <1>2, <1>3, <1>4
<1> QED BY <1>2, <1>5 DEF a, n

(* What a modest step with well-counted executions preserves.              *)
LEMMA ModestStep ==
  ASSUME ConductInv, Inv', Modest(db, db'), Unborn', Counted'
  PROVE  ConductInv'
<1>1. Spawned(db)'
  BY DEF ConductInv, Modest, Spawned
<1>2. GivesUpAfterMaxAttempts'
  <2>1. SUFFICES ASSUME NEW a \in Activity, Type(a) = "auto", db'.act[a] = "error"
        PROVE  db'.logs[a] >= MaxAttempts
    BY DEF GivesUpAfterMaxAttempts
  <2>2. CASE db.act[a] = "error"
    <3>1. db.logs[a] >= MaxAttempts /\ db'.logs[a] >= db.logs[a]
      BY <2>1, <2>2 DEF ConductInv, GivesUpAfterMaxAttempts, Modest
    <3>2. db.logs[a] \in Nat /\ db'.logs[a] \in Nat /\ MaxAttempts \in Nat
      BY SystemAssumption DEF ConductInv, Inv, TypeOK, Database
    <3> QED BY <3>1, <3>2
  <2>3. CASE db.act[a] # "error"
    BY <2>1, <2>3 DEF Modest
  <2> QED BY <2>2, <2>3
<1> QED BY <1>1, <1>2 DEF ConductInv

(* An instance that is not there can only be started.                      *)
LEMMA UnbornStep ==
  ASSUME Inv, Unborn, db.wf = "absent"
  PROVE  (Transactional => StartWorkflow) /\ ~AgentStep
<1>1. PICK v \in Valuation : db = Blank(v)
  BY DEF Unborn
<1>2. /\ \A a \in Activity : db.item[a] = <<>> /\ db.act[a] = "dormant" /\ db.child[a] = 0
      /\ db.clock = {} /\ db.wf = "absent"
  BY <1>1 DEF Blank
<1>3. \A a \in Activity : Items(a) = {}
  BY <1>2 DEF Items
<1>4. \A w \in Worker : running[w] = None
  BY DEF Unborn
<1>5. ~InboxStep /\ ~UpdateVariable /\ ~DirectStep
  BY <1>2, <1>3 DEF InboxStep, UpdateVariable, DirectStep
<1>6. ~OperatorStep
  BY <1>2 DEF OperatorStep, Halt, Resume, Abort, Restart, Compensate, RetryActivity, SkipActivity
<1>7. ~AgentStep
  <2>1. \A w \in Worker, a \in Activity : ~AgentBegin(w, a)
    BY <1>2 DEF AgentBegin
  <2>2. \A w \in Worker :
          ~AgentSucceed(w) /\ ~AgentFail(w) /\ ~AgentAdvanceFails(w) /\ ~AgentHandle(w)
          /\ ~AgentCrash(w)
    BY <1>4 DEF AgentSucceed, AgentFail, AgentAdvanceFails, AgentHandle, AgentCrash, Busy
  <2> QED BY <2>1, <2>2 DEF AgentStep
<1>8. ~BusStep
  <2>1. Expirable = {}
    BY <1>2 DEF Expirable
  <2>2. ~JoinTimeout
    BY <2>1 DEF JoinTimeout
  <2>3. \A e : ~EventFires(e)
    BY <1>2 DEF EventFires
  <2>4. \A a \in Activity, b \in BOOLEAN : ~ChildFinishes(a, b) /\ ~ChildFails(a)
    BY <1>2 DEF ChildFinishes, ChildFails
  <2> QED BY <2>2, <2>3, <2>4 DEF BusStep
<1> QED BY <1>5, <1>6, <1>7, <1>8 DEF Transactional, ClientStep

(* Transactions preserve the invariant.                                    *)
LEMMA TransactionalConduct ==
  ASSUME ConductInv, Transactional
  PROVE  ConductInv'
<1>1. Proper(db, db') /\ running' = running
  BY TransactionalProper DEF ConductInv
<1>2. Inv'
  BY InvStep DEF ConductInv, Transactional, Next
<1>3. Modest(db, db')
  BY <1>1 DEF Proper
<1>4. db'.wf # "absent"
  <2>1. CASE db.wf = "absent"
    BY <2>1, UnbornStep, StartProper DEF ConductInv
  <2>2. CASE db.wf # "absent"
    BY <1>3, <2>2 DEF Modest
  <2> QED BY <2>1, <2>2
<1>5. Unborn'
  BY <1>4 DEF Unborn
<1>6. Counted'
  <2>1. db' \in Database /\ \A a \in Activity : db'.logs[a] >= db.logs[a]
    BY <1>2, <1>3 DEF Inv, TypeOK, Modest
  <2> QED BY <1>1, <2>1, CountedGrows DEF ConductInv, Counted
<1> QED BY <1>2, <1>3, <1>5, <1>6, ModestStep

(* The rows as an execution sees them: the activity is active, and the     *)
(* rest is as it is.                                                       *)
LEMMA SeenRows ==
  ASSUME Inv, NEW x \in Execution
  PROVE  /\ Seen(x) \in Database /\ Waiting(Seen(x)) /\ Seen(x).wf = x.wf
         /\ Seen(x).logs = db.logs /\ Seen(x).child = db.child
         /\ Seen(x).act[x.act] = "active"
         /\ \A a \in Activity : a # x.act => Seen(x).act[a] = db.act[a]
<1> DEFINE act == [db.act EXCEPT ![x.act] = "active"]
           e   == Seen(x)
<1>1. db \in Database /\ Waiting(db) /\ x.act \in Activity /\ x.wf \in WorkflowState
      /\ x.var \in Valuation
  BY DEF Inv, TypeOK, Execution
<1>2. /\ act \in [Activity -> ActivityState] /\ act[x.act] = "active"
      /\ \A a \in Activity : /\ act[a] = "dormant" => db.act[a] = "dormant"
                             /\ a # x.act => act[a] = db.act[a]
  BY <1>1 DEF Database, ActivityState
<1>3. e = [db EXCEPT !.act = act, !.wf = x.wf, !.var = x.var]
  BY DEF Seen
<1> HIDE DEF act, e
<1>4. /\ e \in Database /\ NoHarm(db, e) /\ e.wf = x.wf /\ e.act = act
      /\ e.logs = db.logs /\ e.child = db.child
  BY <1>1, <1>2, <1>3 DEF Database, NoHarm
<1>5. Waiting(e)
  BY <1>1, <1>4, HarmlessSteps
<1> QED BY <1>2, <1>4, <1>5 DEF e

(* An execution that succeeds is modest.                                   *)
LEMMA SucceedModest ==
  ASSUME Inv, NEW w \in Worker, AgentSucceed(w)
  PROVE  Modest(db, db') /\ (db'.wf = db.wf \/ db'.wf = "finished")
<1> DEFINE x == running[w]
           s == Seen(x)
           t == Transact(s, "", None, NoOverride, TRUE)
           r == AdvanceFromActivity(t, x.act)
           d == r.db
           e == [d EXCEPT !.wf = IF @ = x.wf THEN db.wf ELSE @, !.var = db.var]
<1>1. x \in Execution /\ x.act \in Activity /\ db \in Database
  BY DEF AgentSucceed, Busy, Inv, TypeOK, Execution
<1>2. db' = Logged(e, x.act)
  BY DEF AgentSucceed, Merged, Advanced
<1> HIDE DEF x
<1>3. /\ s \in Database /\ Waiting(s) /\ s.wf = x.wf
      /\ s.logs = db.logs /\ s.child = db.child
      /\ s.act[x.act] = "active"
      /\ \A a \in Activity : a # x.act => s.act[a] = db.act[a]
  BY <1>1, SeenRows
<1> HIDE DEF s
<1>4. "" \in Label /\ NoOverride \in [Activity -> User \cup {None}]
  BY DEF Label, NoOverride
<1>5. t \in Sound /\ t.db = s
  BY <1>3, <1>4, TransactSound
<1>6. t \in From(x.wf)
  BY <1>3, <1>5 DEF From
<1> HIDE DEF t
<1>7. r \in From(x.wf) /\ Kept(s, d)
  <2>1. r \in From(x.wf)
    BY <1>1, <1>6, AdvanceState
  <2>2. r \in After(s)
    <3>1. t \in After(s)
      BY <1>5, KeptNothing DEF After
    <3> QED BY <1>1, <3>1, AdvanceKept
  <2> QED BY <2>1, <2>2 DEF After
<1>8. d \in Database /\ (d.wf = x.wf \/ d.wf = "finished")
  BY <1>7, FromRead
<1> HIDE DEF r
<1>9. /\ e \in Database /\ e.logs = d.logs /\ e.act = d.act
      /\ e.child = d.child /\ (e.wf = db.wf \/ e.wf = "finished")
  <2> DEFINE wf == IF d.wf = x.wf THEN db.wf ELSE d.wf
  <2>1. wf \in WorkflowState /\ db.var \in Valuation /\ (wf = db.wf \/ wf = "finished")
    BY <1>1, <1>8 DEF Database
  <2>2. e = [d EXCEPT !.wf = wf, !.var = db.var]
    OBVIOUS
  <2> HIDE DEF wf, d, e
  <2> QED BY <1>8, <2>1, <2>2 DEF Database
<1> HIDE DEF d, e
<1>10. /\ \A a \in Activity : db'.logs[a] >= e.logs[a]
       /\ db'.act = e.act /\ db'.child = e.child /\ db'.wf = e.wf
  BY <1>1, <1>2, <1>9, LoggedRows
<1>11. e.logs = db.logs
  BY <1>3, <1>7, <1>9, <1>10 DEF Kept, Conducted
<1>12. \A a \in Activity :
         /\ Type(a) = "auto" /\ db'.act[a] = "error" => db.act[a] = "error"
         /\ db'.child[a] > 0 => db.child[a] > 0 \/ Type(a) = "sub_workflow"
  BY <1>3, <1>7, <1>9, <1>10 DEF Kept, Conducted
<1> QED BY <1>9, <1>10, <1>11, <1>12 DEF Modest

(* One that fails is: it gives up when the logs it counted and its own     *)
(* make MaxAttempts.                                                       *)
LEMMA FailureModest ==
  ASSUME ConductInv, NEW w \in Worker, running[w] # None, RecordFailure(w)
  PROVE  /\ Modest(db, db') /\ db'.wf = db.wf
         /\ running'[w] # None => running'[w].act = running[w].act
                                  /\ running'[w].attempt = running[w].attempt
                                  /\ db'.logs[running[w].act] >= MaxAttempts
<1> DEFINE x    == running[w]
           a    == x.act
           n    == x.attempt
           last == n >= MaxAttempts
           d    == Logged(db, a)
           e    == [d EXCEPT !.act[a] = "error"]
<1>1. x \in Execution /\ a \in Activity /\ n \in Nat /\ db \in Database
  BY DEF ConductInv, Inv, TypeOK, Execution
<1>2. running \in [Worker -> Execution \cup {None}]
  BY DEF ConductInv, Inv, TypeOK
<1>3. n <= db.logs[a] + 1
  BY DEF ConductInv, Counted
<1>4. /\ db' = IF last THEN e ELSE d
      /\ running' = [running EXCEPT ![w] = IF last THEN [x EXCEPT !.phase = "handler"] ELSE None]
  BY DEF RecordFailure
<1> HIDE DEF x, a, n
<1>5. /\ d \in Database
      /\ \A b \in Activity : d.logs[b] >= db.logs[b]
      /\ db.logs[a] + 1 >= MaxAttempts => d.logs[a] >= MaxAttempts
      /\ d.act = db.act /\ d.child = db.child /\ d.wf = db.wf
  BY <1>1, LoggedType, LoggedRows
<1>6. last => d.logs[a] >= MaxAttempts
  <2>1. db.logs[a] \in Nat /\ MaxAttempts \in Nat
    BY <1>1, SystemAssumption DEF Database
  <2> QED BY <1>1, <1>3, <1>5, <2>1
<1> HIDE DEF d
<1>7. /\ e.logs = d.logs /\ e.child = d.child /\ e.wf = d.wf
      /\ \A b \in Activity : b # a => e.act[b] = d.act[b]
  BY <1>1, <1>5 DEF Database
<1> HIDE DEF e
<1>8. Modest(db, d) /\ d.wf = db.wf
  BY <1>5 DEF Modest
<1>9. last => Modest(db, e) /\ e.wf = db.wf
  BY <1>5, <1>6, <1>7 DEF Modest
<1>10. ASSUME running'[w] # None
       PROVE  running'[w].act = a /\ running'[w].attempt = n /\ db'.logs[a] >= MaxAttempts
  <2>1. last
    BY <1>2, <1>4, <1>10
  <2>2. running'[w] = [x EXCEPT !.phase = "handler"]
    BY <1>2, <1>4, <2>1
  <2>3. running'[w].act = x.act /\ running'[w].attempt = x.attempt
    BY <1>1, <2>2 DEF Execution
  <2> QED BY <1>4, <1>6, <1>7, <2>1, <2>3 DEF a, n
<1> QED BY <1>4, <1>8, <1>9, <1>10 DEF x, a, n

(* Calling the error handler is: the logs are full.                        *)
LEMMA HandleModest ==
  ASSUME ConductInv, NEW w \in Worker, AgentHandle(w)
  PROVE  Modest(db, db') /\ db'.wf = db.wf
<1> DEFINE a == running[w].act
           d == [db EXCEPT !.act[a] = "error"]
<1>1. a \in Activity /\ db \in Database
  BY DEF AgentHandle, Busy, ConductInv, Inv, TypeOK, Execution
<1>2. db.logs[a] >= MaxAttempts
  BY DEF AgentHandle, Busy, ConductInv, Counted
<1>3. db' = db \/ db' = Rouse(d, {Handler(a)})
  BY DEF AgentHandle, HandleActivityError
<1> HIDE DEF a
<1>4. d \in Database
  BY <1>1, SetActivityType DEF ActivityState
<1>5. /\ d.logs = db.logs /\ d.child = db.child /\ d.wf = db.wf
      /\ \A b \in Activity : b # a => d.act[b] = db.act[b]
  BY <1>1 DEF Database
<1> HIDE DEF d
<1>6. /\ Conducted(d, Rouse(d, {Handler(a)}))
      /\ Rouse(d, {Handler(a)}).wf = d.wf
  BY <1>4, RouseKept DEF Kept, Rouse, Database
<1>7. \A b \in Activity : db.logs[b] >= db.logs[b]
  BY <1>1 DEF Database
<1>8. CASE db' = db
  BY <1>7, <1>8 DEF Modest
<1>9. CASE db' = Rouse(d, {Handler(a)})
  <2> DEFINE e == Rouse(d, {Handler(a)})
  <2>1. /\ e.logs = db.logs /\ e.wf = db.wf
        /\ \A b \in Activity :
             /\ Type(b) = "auto" /\ e.act[b] = "error" => d.act[b] = "error"
             /\ e.child[b] > 0 => db.child[b] > 0 \/ Type(b) = "sub_workflow"
    <3>2. Conducted(d, e) /\ e.wf = d.wf
      BY <1>6
    <3> HIDE DEF e
    <3> QED BY <1>5, <3>2 DEF Conducted
  <2> HIDE DEF e
  <2>2. \A b \in Activity : Type(b) = "auto" /\ e.act[b] = "error"
                              => db.act[b] = "error" \/ e.logs[b] >= MaxAttempts
    BY <1>2, <1>5, <2>1
  <2>3. Modest(db, e) /\ e.wf = db.wf
    BY <1>7, <2>1, <2>2 DEF Modest
  <2> QED BY <1>9, <2>3 DEF e
<1> QED BY <1>3, <1>8, <1>9

(* The agent preserves the invariant.                                      *)
LEMMA AgentConduct ==
  ASSUME ConductInv, AgentStep
  PROVE  ConductInv'
<1>1. db \in Database /\ running \in [Worker -> Execution \cup {None}]
  BY DEF ConductInv, Inv, TypeOK
<1>2. Inv'
  BY InvStep DEF ConductInv, Next
<1>3. db.wf # "absent"
  BY UnbornStep DEF ConductInv
<1>4. ASSUME NEW w \in Worker, Modest(db, db'),
             \A v \in Worker : v # w => running'[v] = running[v],
             running'[w] # None =>
               /\ running'[w].attempt <= db'.logs[running'[w].act] + 1
               /\ running'[w].phase = "handler" => db'.logs[running'[w].act] >= MaxAttempts
      PROVE  ConductInv'
  <2>1. db' \in Database /\ \A a \in Activity : db'.logs[a] >= db.logs[a]
    BY <1>2, <1>4 DEF Inv, TypeOK, Modest
  <2>2. \A v \in Worker :
          running[v] # None =>
            /\ running[v].attempt <= db'.logs[running[v].act] + 1
            /\ running[v].phase = "handler" => db'.logs[running[v].act] >= MaxAttempts
    BY <2>1, CountedGrows DEF ConductInv
  <2>3. Counted'
    BY <1>4, <2>2 DEF Counted
  <2>4. Unborn'
    BY <1>3, <1>4 DEF Modest, Unborn
  <2> QED BY <1>2, <1>4, <2>3, <2>4, ModestStep
<1>5. ASSUME db' = db PROVE Modest(db, db')
  BY <1>1, <1>5 DEF Modest, Database
<1>6. ASSUME NEW w \in Worker, NEW a \in Activity, AgentBegin(w, a)
      PROVE  ConductInv'
  <2> DEFINE x == [phase |-> "method", act |-> a, wf |-> db.wf, var |-> db.var,
                   attempt |-> db.logs[a] + 1]
  <2>1. db' = db /\ running' = [running EXCEPT ![w] = x]
    BY <1>6 DEF AgentBegin
  <2>2. x.act = a /\ x.attempt = db.logs[a] + 1 /\ x.phase = "method"
    OBVIOUS
  <2> HIDE DEF x
  <2>3. db.logs[a] + 1 <= db.logs[a] + 1
    BY <1>1 DEF Database
  <2>4. running'[w] = x /\ \A v \in Worker : v # w => running'[v] = running[v]
    BY <1>1, <2>1
  <2> QED BY <1>4, <1>5, <2>1, <2>2, <2>3, <2>4
<1>7. ASSUME NEW w \in Worker, running' = [running EXCEPT ![w] = None], Modest(db, db')
      PROVE  ConductInv'
  <2>1. running'[w] = None /\ \A v \in Worker : v # w => running'[v] = running[v]
    BY <1>1, <1>7
  <2> QED BY <1>4, <1>7, <2>1
<1>8. ASSUME NEW w \in Worker, AgentSucceed(w)
      PROVE  ConductInv'
  BY <1>7, <1>8, SucceedModest DEF AgentSucceed, ConductInv
<1>9. ASSUME NEW w \in Worker, AgentFail(w) \/ AgentAdvanceFails(w)
      PROVE  ConductInv'
  <2>1. running[w] # None /\ RecordFailure(w)
    BY <1>9 DEF AgentFail, AgentAdvanceFails, Busy
  <2>2. /\ Modest(db, db')
        /\ running'[w] # None => running'[w].act = running[w].act
                                 /\ running'[w].attempt = running[w].attempt
                                 /\ db'.logs[running[w].act] >= MaxAttempts
    BY <2>1, FailureModest
  <2>3. \A v \in Worker : v # w => running'[v] = running[v]
    BY <1>1, <2>1 DEF RecordFailure
  <2>4. running[w].attempt <= db'.logs[running[w].act] + 1
    <3>1. db' \in Database /\ \A a \in Activity : db'.logs[a] >= db.logs[a]
      BY <1>2, <2>2 DEF Inv, TypeOK, Modest
    <3> QED BY <2>1, <3>1, CountedGrows DEF ConductInv
  <2> QED BY <1>4, <2>2, <2>3, <2>4
<1>10. ASSUME NEW w \in Worker, AgentHandle(w)
       PROVE  ConductInv'
  BY <1>7, <1>10, HandleModest DEF AgentHandle
<1>11. ASSUME NEW w \in Worker, AgentCrash(w)
       PROVE  ConductInv'
  BY <1>5, <1>7, <1>11 DEF AgentCrash
<1> QED BY <1>6, <1>8, <1>9, <1>10, <1>11 DEF AgentStep

(* Every step preserves the invariant.                                     *)
LEMMA ConductStep == ConductInv /\ [Next]_vars => ConductInv'
<1>1. ASSUME ConductInv, UserStep \/ UNCHANGED vars PROVE ConductInv'
  <2>1. db' = db /\ running' = running
    BY <1>1 DEF UserStep, UpdateAvailability, vars
  <2>2. Inv'
    BY <1>1, InvStep DEF ConductInv, Next
  <2> QED BY <1>1, <2>1, <2>2 DEF ConductInv, Unborn, Spawned, Counted,
                                  GivesUpAfterMaxAttempts
<1> QED BY <1>1, TransactionalConduct, AgentConduct DEF Next, Transactional

(* It holds initially.                                                     *)
LEMMA ConductInit == Init => ConductInv
<1>1. SUFFICES ASSUME Init PROVE ConductInv
  OBVIOUS
<1>2. PICK v \in Valuation : db = Blank(v)
  BY <1>1 DEF Init
<1>3. \A a \in Activity : db.order[a] = 0 /\ db.child[a] = 0 /\ db.act[a] = "dormant"
  BY <1>2 DEF Blank
<1>4. \A w \in Worker : running[w] = None
  BY <1>1 DEF Init
<1>5. Inv
  BY <1>1, InitSound
<1> QED BY <1>2, <1>3, <1>4, <1>5 DEF ConductInv, Unborn, Spawned, Counted,
                                     GivesUpAfterMaxAttempts

-----------------------------------------------------------------------------
(* The theorems.                                                           *)

(* The invariant of this module always holds.                              *)
THEOREM ConductAlways == Spec => []ConductInv
BY ConductInit, ConductStep, PTL DEF Spec

(* No auto activity is given up before MaxAttempts executions of it left a *)
(* log, with any number of workers, duplicates and crashes among them: the *)
(* attempt an execution counts is never ahead of the logs by more than     *)
(* itself.                                                                 *)
THEOREM FailuresAreCounted == Spec => []GivesUpAfterMaxAttempts
<1>1. ConductInv => GivesUpAfterMaxAttempts
  BY DEF ConductInv
<1> QED BY <1>1, ConductAlways, PTL

(* The agent leaves the state of a workflow alone, or ends the workflow.   *)
LEMMA AgentEnds ==
  ASSUME ConductInv, AgentStep
  PROVE  db'.wf = db.wf \/ db'.wf = "finished"
<1>1. Inv
  BY DEF ConductInv
<1>2. ASSUME NEW w \in Worker, AgentFail(w) \/ AgentAdvanceFails(w)
      PROVE  db'.wf = db.wf
  BY <1>2, FailureModest DEF AgentFail, AgentAdvanceFails, Busy
<1> QED BY <1>1, <1>2, SucceedModest, HandleModest DEF AgentStep, AgentBegin, AgentCrash

(* A finished workflow stays finished: no request, task or event starts it *)
(* again, and a session that still has it running writes the columns it    *)
(* changed and no others (tasks/auto_activity.py 206-256).                 *)
THEOREM FinishedStays == Spec => FinishedIsFinal
<1>1. ASSUME ConductInv, Next, db.wf = "finished" PROVE db'.wf = "finished"
  <2>1. Inv
    BY <1>1 DEF ConductInv
  <2>2. CASE UserStep
    BY <1>1, <2>2 DEF UserStep, UpdateAvailability
  <2>3. CASE Transactional
    BY <1>1, <2>1, <2>3, ClientLegal, OperatorLegal, BusLegal DEF Transactional, Legal
  <2>4. CASE AgentStep
    BY <1>1, <2>4, AgentEnds
  <2> QED BY <1>1, <2>2, <2>3, <2>4 DEF Next, Transactional
<1>2. ConductInv /\ [Next]_vars => [db.wf = "finished" => db'.wf = "finished"]_vars
  BY <1>1
<1> QED BY <1>2, ConductInit, ConductStep, PTL DEF Spec, FinishedIsFinal

(* A step of RequestSpec is proper, or somebody's absence, or nothing.     *)
LEMMA RequestStep ==
  ASSUME ConductInv, [ClientStep \/ DirectStep \/ UserStep \/ OperatorStep \/ BusStep]_vars
  PROVE  ConductInv' /\ (Proper(db, db') \/ db' = db)
<1>1. ConductInv'
  BY ConductStep DEF Next
<1>2. CASE UserStep \/ UNCHANGED vars
  BY <1>1, <1>2 DEF UserStep, UpdateAvailability, vars
<1>3. CASE Transactional
  BY <1>1, <1>3, TransactionalProper DEF ConductInv
<1> QED BY <1>1, <1>2, <1>3 DEF Transactional

(* What is one transaction leaves no item suspended in a workflow that is  *)
(* not halted: suspension is undone by whatever ends the halt.             *)
THEOREM SuspensionEnds == RequestSpec => []SuspendedOnlyWhileHalted
<1> DEFINE Step == ClientStep \/ DirectStep \/ UserStep \/ OperatorStep \/ BusStep
           K    == ConductInv /\ SuspendedOnlyWhileHalted
<1>1. Init => K
  <2>1. Init => \A a \in Activity : db.item[a] = <<>>
    BY DEF Init, Blank
  <2> QED BY <2>1, ConductInit DEF SuspendedOnlyWhileHalted, Items
<1>2. K /\ [Step]_vars => K'
  <2>1. SUFFICES ASSUME K, [Step]_vars PROVE K'
    OBVIOUS
  <2>2. ConductInv' /\ (Proper(db, db') \/ db' = db)
    BY <2>1, RequestStep
  <2>3. CASE db' = db
    BY <2>1, <2>2, <2>3 DEF SuspendedOnlyWhileHalted, Items
  <2>4. CASE Proper(db, db')
    <3>1. SUFFICES ASSUME NEW a \in Activity, NEW i \in DOMAIN db'.item[a],
                          db'.item[a][i].state = "suspended"
          PROVE  db'.wf = "halted"
      BY <2>2 DEF SuspendedOnlyWhileHalted, Items
    <3>2. \/ db'.wf = "halted"
          \/ db.wf # "halted" /\ i \in DOMAIN db.item[a] /\ db.item[a][i].state = "suspended"
      BY <2>4, <3>1 DEF Proper
    <3> QED BY <2>1, <3>2 DEF SuspendedOnlyWhileHalted, Items
  <2> QED BY <2>2, <2>3, <2>4
<1>3. K => SuspendedOnlyWhileHalted
  OBVIOUS
<1> QED BY <1>1, <1>2, <1>3, PTL DEF RequestSpec

(* What a cancelling join cancelled, no request, task or event revives: a  *)
(* late reject flow, a handler or an expired clock included, unless the    *)
(* workflow is restarted.                                                  *)
THEOREM CancelledStays == RequestSpec => CancelledIsFinal
<1> DEFINE Step == ClientStep \/ DirectStep \/ UserStep \/ OperatorStep \/ BusStep
           Stay == \A a \in Activity :
                     db.act[a] = "cancelled" /\ db'.wf # "dormant" => db'.act[a] = "cancelled"
<1>1. ConductInv /\ [Step]_vars => ConductInv'
  BY RequestStep
<1>2. ConductInv /\ [Step]_vars => [Stay]_vars
  BY RequestStep DEF Proper
<1> QED BY ConductInit, <1>1, <1>2, PTL DEF RequestSpec, CancelledIsFinal

(* A settled item keeps its state and its performer through everything     *)
(* people and administrators do, until a restart deletes the items.        *)
THEOREM SettledItemsAreKept == ManagedSpec => SettledItemsStay
<1> DEFINE Step == People \/ UserStep \/ Administration \/ Compensate
           Stay == \A a \in Activity : \A i \in Items(a) :
                     db.item[a][i].state \in {"complete", "rejected"} =>
                       \/ db'.item[a] = <<>>
                       \/ /\ db'.item[a][i].state = db.item[a][i].state
                          /\ db'.item[a][i].performer = db.item[a][i].performer
<1>1. ConductInv /\ [Step]_vars => ConductInv'
  <2>1. Step => Next
    BY DEF People, Administration, Next, ClientStep, OperatorStep
  <2> QED BY <2>1, ConductStep
<1>2. ConductInv /\ [Step]_vars => [Stay]_vars
  <2>1. ASSUME ItemsStay(db, db') \/ \A a \in Activity : db'.item[a] = <<>>
        PROVE  Stay
    BY <2>1 DEF ItemsStay, SettledStay, Settled, Items
  <2>2. ASSUME ConductInv, Step PROVE Stay
    <3>1. CASE UserStep
      <4>1. db' = db
        BY <3>1 DEF UserStep, UpdateAvailability
      <4> QED BY <4>1
    <3>2. CASE People
      BY <2>1, <2>2, <3>2, StartProper, InboxProper, VariableProper DEF People, ConductInv
    <3>3. CASE Administration
      BY <2>1, <2>2, <3>3, AdministrationProper DEF ConductInv
    <3>4. CASE Compensate
      BY <2>1, <2>2, <3>4, CompensateProper DEF ConductInv
    <3> QED BY <2>2, <3>1, <3>2, <3>3, <3>4
  <2> QED BY <2>2
<1> QED BY ConductInit, <1>1, <1>2, PTL DEF ManagedSpec, SettledItemsStay

-----------------------------------------------------------------------------
(* Inboxes.  What follows is about templates of certain kinds: a group of  *)
(* performers each of whom gets an item, or a reviewer who sends the work  *)
(* back without being one of several in turn, leave items and activities   *)
(* that do not match (the README tells how).                               *)

(* At most one listed performer.                                           *)
OnePerformer(a) == PerformedBy(a) = "listed" => Len(Performers(a)) <= 1

(* Only performers in turn reject: no reject flow is ever followed.        *)
RejectsInTurn ==
  \A f \in Flow :
    Template.flow[f].kind = "reject" => PerformedBy(Template.flow[f].source) = "sequential"

(* A reject flow leads there.                                              *)
Recalled(a) == \E f \in Flow : Template.flow[f].kind = "reject" /\ Target(f) = a

(* Performers in turn who start at the head of their list, always: reject  *)
(* flows and compensations do not reset current_performer_index.           *)
Turned(a) ==
  /\ PerformedBy(a) = "sequential"
  /\ ~ Recalled(a)
  /\ \A b \in Activity : Compensation(b) # a

OpenIn(r) == {i \in DOMAIN r : r[i].state \in Open}

StateIn(r, s) == {i \in DOMAIN r : r[i].state = s}

(* An activity in state s with items r, n its place in the list.           *)
Tidy(a, s, r, n) ==
  /\ s = "dormant" => r = <<>>
  /\ Type(a) # "manual" /\ ~ Recalled(a) => r = <<>> /\ n = 0
  /\ RejectsInTurn /\ Type(a) = "manual" /\ s = "active" => OpenIn(r) # {}
  /\ OnePerformer(a) =>
       (\A i, j \in OpenIn(r) : i = j) /\ (OpenIn(r) # {} => s = "active")
  /\ Turned(a) /\ s = "active" =>
       Cardinality(StateIn(r, "complete")) = n + Cardinality(StateIn(r, "rejected"))

TidyRows(d) == \A a \in Activity : Tidy(a, d.act[a], d.item[a], d.idx[a])

(* The same items, some open ones open in another state.                   *)
SameButOpen(r, q) ==
  /\ DOMAIN q = DOMAIN r
  /\ \A i \in DOMAIN r : q[i].state = r[i].state \/ (q[i].state \in Open /\ r[i].state \in Open)

(* Items r, of which i has been given state s.                             *)
Settles(r, i, s, q) ==
  /\ DOMAIN q = DOMAIN r /\ i \in DOMAIN r
  /\ q[i].state = s
  /\ \A j \in DOMAIN r : j # i => q[j] = r[j]

(* Claiming, releasing, halting and resuming disturb nothing.              *)
LEMMA SameIsTidy ==
  ASSUME NEW a \in Activity, NEW s, NEW n, NEW r \in Seq(Item), NEW q \in Seq(Item),
         Tidy(a, s, r, n), SameButOpen(r, q)
  PROVE  Tidy(a, s, q, n)
<1>1. OpenIn(q) = OpenIn(r)
  BY DEF OpenIn, SameButOpen
<1>2. StateIn(q, "complete") = StateIn(r, "complete") /\ StateIn(q, "rejected") = StateIn(r, "rejected")
  BY DEF StateIn, SameButOpen, Open
<1>3. r = <<>> => q = <<>>
  BY DEF SameButOpen
<1> QED BY <1>1, <1>2, <1>3 DEF Tidy

(* Nor does ending an activity, if no item of it is left open.             *)
LEMMA EndedIsTidy ==
  ASSUME NEW a \in Activity, NEW s, NEW n, NEW r \in Seq(Item), NEW q \in Seq(Item),
         NEW e, Tidy(a, s, r, n), DOMAIN q = DOMAIN r,
         e # "active", e = "dormant" => s = "dormant",
         OnePerformer(a) => OpenIn(q) = {}
  PROVE  Tidy(a, e, q, n)
<1>1. r = <<>> => q = <<>>
  OBVIOUS
<1> QED BY <1>1 DEF Tidy

(* A dormant activity starts with new items,                               *)
LEMMA StartedIsTidy ==
  ASSUME NEW a \in Activity, NEW n, NEW r \in Seq(Item), NEW q \in Seq(Item), NEW m \in Nat,
         Tidy(a, "dormant", r, n), Type(a) = "manual" \/ Recalled(a),
         q # <<>>, \A i \in DOMAIN q : q[i].state = "available",
         OnePerformer(a) => Len(q) = 1, Turned(a) => m = 0
  PROVE  Tidy(a, "active", r \o q, m)
<1>1. r \o q = q
  BY DEF Tidy
<1>2. DOMAIN q = 1..Len(q) /\ Len(q) \in Nat /\ Len(q) # 0
  OBVIOUS
<1>3. OpenIn(q) = 1..Len(q)
  BY <1>2 DEF OpenIn, Open
<1>4. StateIn(q, "complete") = {} /\ StateIn(q, "rejected") = {}
  BY DEF StateIn
<1>5. Turned(a) => Cardinality(StateIn(q, "complete")) = m + Cardinality(StateIn(q, "rejected"))
  <2>1. Cardinality(StateIn(q, "complete")) = 0 /\ Cardinality(StateIn(q, "rejected")) = 0
    BY <1>4, FS_EmptySet
  <2> QED BY <2>1
<1>6. ASSUME OnePerformer(a), NEW i \in OpenIn(q), NEW j \in OpenIn(q) PROVE i = j
  <2>1. i \in 1..1 /\ j \in 1..1
    BY <1>3, <1>6
  <2> QED BY <2>1
<1>7. OpenIn(q) # {}
  BY <1>2, <1>3
<1> QED BY <1>1, <1>5, <1>6, <1>7 DEF Tidy

(* or, if nobody performs it, without.                                     *)
LEMMA ActivatedIsTidy ==
  ASSUME NEW a \in Activity, NEW n \in Nat, NEW r, NEW s,
         Tidy(a, "dormant", r, n), Type(a) # "manual"
  PROVE  Tidy(a, s, r, n)
<1>1. r = <<>>
  BY DEF Tidy
<1>2. OpenIn(r) = {} /\ StateIn(r, "complete") = {} /\ StateIn(r, "rejected") = {}
  BY <1>1 DEF OpenIn, StateIn
<1>3. Turned(a) => n = 0
  BY DEF Turned, Tidy
<1>4. Turned(a) => Cardinality(StateIn(r, "complete")) = n + Cardinality(StateIn(r, "rejected"))
  BY <1>2, <1>3, FS_EmptySet
<1> QED BY <1>1, <1>2, <1>4 DEF Tidy

(* When the only open item is settled, none is open.                       *)
LEMMA SettledWasLast ==
  ASSUME NEW a \in Activity, NEW s, NEW n, NEW r \in Seq(Item), NEW q \in Seq(Item),
         NEW i, NEW e \in Settled, Tidy(a, s, r, n), r[i].state \in Open, Settles(r, i, e, q),
         OnePerformer(a)
  PROVE  s = "active" /\ OpenIn(q) = {}
<1>1. i \in OpenIn(r)
  BY DEF OpenIn, Settles
<1>2. OpenIn(q) \subseteq OpenIn(r) /\ i \notin OpenIn(q)
  BY DEF OpenIn, Settles, Settled, Open
<1> QED BY <1>1, <1>2 DEF Tidy

(* The next in line gets an item: a place further for a completed one, a   *)
(* place back for a rejected one.                                          *)
LEMMA PassedOnIsTidy ==
  ASSUME NEW a \in Activity, NEW s, NEW n \in Nat, NEW r \in Seq(Item), NEW q \in Seq(Item),
         NEW i, NEW e \in Settled, NEW it \in Item, NEW m \in Nat,
         Tidy(a, s, r, n), r[i].state \in Open, Settles(r, i, e, q),
         PerformedBy(a) = "sequential", it.state = "available",
         e = "complete" => m = n + 1, e = "rejected" => n = m + 1
  PROVE  Tidy(a, s, Append(q, it), m)
<1> DEFINE p == Append(q, it)
           k == Len(q) + 1
<1>1. OnePerformer(a)
  BY DEF OnePerformer
<1>2. s = "active" /\ OpenIn(q) = {}
  BY <1>1, SettledWasLast
<1>3. /\ DOMAIN p = DOMAIN q \cup {k} /\ p[k] = it /\ k \notin DOMAIN q
      /\ \A j \in DOMAIN q : p[j] = q[j]
  <2>1. DOMAIN q = 1..Len(q) /\ Len(q) \in Nat
    OBVIOUS
  <2>2. DOMAIN p = 1..(Len(q) + 1)
    OBVIOUS
  <2> QED BY <2>1, <2>2
<1> HIDE DEF p, k
<1>4. OpenIn(p) = {k}
  BY <1>2, <1>3 DEF OpenIn, Open
<1>5. r # <<>>
  BY DEF Settles
<1>6. /\ StateIn(p, e) = StateIn(r, e) \cup {i} /\ i \notin StateIn(r, e)
      /\ \A x \in Settled : x # e => StateIn(p, x) = StateIn(r, x)
  <2>1. \A x \in Settled : StateIn(p, x) = StateIn(q, x)
    BY <1>3 DEF StateIn, Settled
  <2>2. StateIn(q, e) = StateIn(r, e) \cup {i} /\ i \notin StateIn(r, e)
    BY DEF StateIn, Settles, Settled, Open
  <2>3. \A x \in Settled : x # e => StateIn(q, x) = StateIn(r, x)
    BY DEF StateIn, Settles, Settled, Open
  <2> QED BY <2>1, <2>2, <2>3
<1>7. \A x : IsFiniteSet(StateIn(r, x))
  <2>1. DOMAIN r = 1..Len(r) /\ Len(r) \in Nat
    OBVIOUS
  <2>2. IsFiniteSet(DOMAIN r)
    BY <2>1, FS_Interval
  <2>3. \A x : StateIn(r, x) \in SUBSET DOMAIN r
    BY DEF StateIn
  <2> QED BY <2>2, <2>3, FS_Subset
<1>8. \A x : Cardinality(StateIn(r, x)) \in Nat
  BY <1>7, FS_CardinalityType
<1>9. Cardinality(StateIn(p, e)) = Cardinality(StateIn(r, e)) + 1
  BY <1>6, <1>7, FS_AddElement
<1>10. ASSUME Turned(a)
       PROVE  Cardinality(StateIn(p, "complete")) = m + Cardinality(StateIn(p, "rejected"))
  <2>1. Cardinality(StateIn(r, "complete")) = n + Cardinality(StateIn(r, "rejected"))
    BY <1>2, <1>10 DEF Tidy
  <2>2. CASE e = "complete"
    <3>1. StateIn(p, "rejected") = StateIn(r, "rejected")
      BY <1>6, <2>2 DEF Settled
    <3> QED BY <1>8, <1>9, <2>1, <2>2, <3>1
  <2>3. CASE e = "rejected"
    <3>1. StateIn(p, "complete") = StateIn(r, "complete")
      BY <1>6, <2>3 DEF Settled
    <3> QED BY <1>8, <1>9, <2>1, <2>3, <3>1
  <2> QED BY <2>2, <2>3 DEF Settled
<1>11. Tidy(a, s, p, m)
  BY <1>2, <1>4, <1>5, <1>10 DEF Tidy
<1> QED BY <1>11 DEF p

-----------------------------------------------------------------------------
(* Inboxes under the advancement loop.                                     *)

(* The types of what TidyRows reads.                                       *)
LEMMA RowTypes ==
  ASSUME NEW d \in Database, NEW a \in Activity
  PROVE  d.item[a] \in Seq(Item) /\ d.idx[a] \in Nat
         /\ (d.idx[a] = 0 \/ d.idx[a] < Len(Performers(a)))
BY DEF Database, Places

(* Rows that agree on what it reads.                                       *)
LEMMA TidyAgrees ==
  ASSUME NEW d, NEW e, TidyRows(d), e.act = d.act, e.item = d.item, e.idx = d.idx
  PROVE  TidyRows(e)
BY DEF TidyRows

(* Setting the state of the workflow, with other states of open items or   *)
(* without.                                                                *)
LEMMA AgedIsSame ==
  ASSUME NEW r \in Seq(Item)
  PROVE  Aged(r) \in Seq(Item) /\ SameButOpen(r, Aged(r))
<1>1. DOMAIN Aged(r) = DOMAIN r
  BY DEF Aged
<1>2. \A i \in DOMAIN r : Aged(r)[i].state = r[i].state
  <2>1. SUFFICES ASSUME NEW i \in DOMAIN r PROVE Aged(r)[i].state = r[i].state
    OBVIOUS
  <2>2. r[i] \in Item
    OBVIOUS
  <2> QED BY <2>2 DEF Aged, Item
<1> QED BY <1>1, <1>2, AgedType DEF SameButOpen

(* Ageing the items of all activities.                                     *)
LEMMA SetWorkflowTidy ==
  ASSUME NEW d \in Database, TidyRows(d), NEW s
  PROVE  TidyRows(SetWorkflow(d, s))
<1>1. /\ SetWorkflow(d, s).act = d.act /\ SetWorkflow(d, s).idx = d.idx
      /\ \A a \in Activity : SetWorkflow(d, s).item[a] = Aged(d.item[a])
  BY DEF SetWorkflow, Database
<1> QED BY <1>1, RowTypes, AgedIsSame, SameIsTidy DEF TidyRows

(* The branches a join cuts off are left without open items.               *)
LEMMA ClosedItems ==
  ASSUME NEW r \in Seq(Item), NEW s \in Settled
  PROVE  /\ SetItems(r, Open, s) \in Seq(Item)
         /\ DOMAIN SetItems(r, Open, s) = DOMAIN r
         /\ OpenIn(SetItems(r, Open, s)) = {}
<1> DEFINE q == SetItems(r, Open, s)
<1>1. q \in Seq(Item) /\ DOMAIN q = DOMAIN r
  BY SetItemsType DEF SetItems, Settled, ItemState
<1>2. \A i \in DOMAIN r : q[i].state \notin Open
  <2>1. SUFFICES ASSUME NEW i \in DOMAIN r PROVE q[i].state \notin Open
    OBVIOUS
  <2>2. r[i] \in Item
    OBVIOUS
  <2> QED BY <2>2 DEF SetItems, Item, Open, Settled
<1> QED BY <1>1, <1>2 DEF OpenIn

(* Cancelling a branch closes the items of what it cancels.                *)
LEMMA CancelTidy ==
  ASSUME NEW d \in Database, NEW a \in Activity, NEW b \in Activity,
         Tidy(b, d.act[b], d.item[b], d.idx[b])
  PROVE  LET e == CancelRemainingBranches(d, a)
         IN  Tidy(b, e.act[b], e.item[b], e.idx[b])
<1> DEFINE e == CancelRemainingBranches(d, a)
<1>1. /\ e.idx = d.idx
      /\ \/ e.act[b] = d.act[b] /\ e.item[b] = d.item[b]
         \/ e.act[b] = "cancelled" /\ e.item[b] = SetItems(d.item[b], Open, "complete")
  BY DEF CancelRemainingBranches, Database
<1> HIDE DEF e
<1>2. CASE e.act[b] = "cancelled" /\ e.item[b] = SetItems(d.item[b], Open, "complete")
  <2>1. d.item[b] \in Seq(Item)
    BY RowTypes
  <2>2. e.item[b] \in Seq(Item) /\ DOMAIN e.item[b] = DOMAIN d.item[b] /\ OpenIn(e.item[b]) = {}
    BY <1>2, <2>1, ClosedItems DEF Settled
  <2>3. Tidy(b, e.act[b], e.item[b], d.idx[b])
    BY <1>2, <2>1, <2>2, EndedIsTidy
  <2> QED BY <1>1, <2>3 DEF e
<1> QED BY <1>1, <1>2 DEF e

(* A dormant join fires: the other activities stay tidy, and its own has   *)
(* become active without an item.                                          *)
LEMMA JoinTidy ==
  ASSUME NEW d \in Database, NEW a \in Activity, TidyRows(d), d.act[a] = "dormant"
  PROVE  LET j == Join(d, a)
         IN  /\ \A b \in Activity : b # a => Tidy(b, j.act[b], j.item[b], j.idx[b])
             /\ j.act[a] = "active" /\ j.item[a] = d.item[a] /\ j.idx = d.idx
<1> DEFINE c == Consume(d, a)
           e == CancelRemainingBranches(c, a)
<1>1. c \in Database
  BY ConsumeType
<1>2. /\ c.act[a] = "active" /\ c.item = d.item /\ c.idx = d.idx
      /\ \A b \in Activity : b # a => c.act[b] = d.act[b]
  BY DEF Consume, Database
<1> HIDE DEF c
<1>3. \A b \in Activity : b # a => Tidy(b, c.act[b], c.item[b], c.idx[b])
  BY <1>2 DEF TidyRows
<1>4. \A b \in Activity : b # a => Tidy(b, e.act[b], e.item[b], e.idx[b])
  BY <1>1, <1>3, CancelTidy
<1>5. e.item[a] = c.item[a] /\ e.idx = c.idx
  <2> DEFINE cut == {b \in {Template.flow[f].source : f \in Incoming(a)} :
                       c.act[b] \in {"dormant", "active"}}
  <2>1. a \notin cut
    BY ValidTemplateAssumption DEF Incoming, Target, Flow
  <2>2. /\ e.item = [b \in Activity |-> IF b \in cut THEN SetItems(c.item[b], Open, "complete")
                                        ELSE c.item[b]]
        /\ e.idx = c.idx
    BY <1>1 DEF CancelRemainingBranches, Database
  <2> QED BY <2>1, <2>2
<1>6. Join(d, a) \in {c, e}
  BY DEF Join, c
<1>7. Join(d, a).act[a] = "active"
  BY JoinActivates
<1> HIDE DEF e
<1> QED BY <1>2, <1>3, <1>4, <1>5, <1>6, <1>7

(* The number of items of an activation.                                   *)
LEMMA AssignedItems ==
  ASSUME NEW p \in Seq(User \cup {None})
  PROVE  Assigned(p) # <<>> /\ (Len(p) <= 1 => Len(Assigned(p)) = 1)
<1>1. CASE p = <<>>
  BY <1>1 DEF Assigned
<1>2. CASE p # <<>>
  <2>1. Assigned(p) = [i \in DOMAIN p |-> NewItem(p[i])] /\ DOMAIN p = 1..Len(p)
        /\ Len(p) \in Nat /\ Len(p) # 0
    BY <1>2 DEF Assigned
  <2>2. Assigned(p) \in Seq(Item)
    BY AssignedType
  <2>3. DOMAIN Assigned(p) = 1..Len(p)
    BY <2>1
  <2>4. Len(Assigned(p)) = Len(p)
    BY <2>1, <2>2, <2>3
  <2> QED BY <2>1, <2>2, <2>4
<1> QED BY <1>1, <1>2

(* The items of a reactivation outside the token game.                     *)
LEMMA ResolvedItems ==
  ASSUME NEW a \in Activity
  PROVE  /\ Assigned(Resolved(a)) \in Seq(Item)
         /\ Assigned(Resolved(a)) # <<>>
         /\ OnePerformer(a) => Len(Assigned(Resolved(a))) = 1
<1>1. Resolved(a) \in Seq(User \cup {None})
  BY TemplateTypes DEF Resolved
<1>2. OnePerformer(a) => Len(Resolved(a)) <= 1
  BY DEF OnePerformer, Resolved
<1> QED BY <1>1, <1>2, AssignedItems, AssignedType

(* The items of an activation.                                             *)
LEMMA ManualItemsOne ==
  ASSUME NEW t \in Transaction, NEW a \in Activity
  PROVE  ManualItems(t, a) # <<>> /\ (OnePerformer(a) => Len(ManualItems(t, a)) = 1)
<1>1. CASE PerformedBy(a) = "queue"
  BY <1>1 DEF ManualItems
<1>2. CASE PerformedBy(a) # "queue"
  <2> DEFINE c == Chosen(t, a)
             p == Delegated(t.delegate, c)
  <2>1. c \in Seq(User)
    BY ChosenType
  <2>2. OnePerformer(a) => Len(c) <= 1
    <3>1. OnePerformer(a) => Len(Resolved(a)) <= 1
      BY DEF OnePerformer, Resolved
    <3>2. Len(First(Performers(a))) <= 1
      BY DEF First
    <3>3. Len(<<t.next>>) <= 1 /\ Len(<<t.over[a]>>) <= 1
      OBVIOUS
    <3>4. c \in {First(Performers(a)), <<t.next>>, <<t.over[a]>>, Resolved(a)}
      BY <1>2 DEF Chosen
    <3> HIDE DEF c
    <3> QED BY <3>1, <3>2, <3>3, <3>4
  <2>3. ManualItems(t, a) = Assigned(p)
    BY <1>2 DEF ManualItems
  <2>4. p \in Seq(User \cup {None}) /\ Len(p) = Len(c)
    <3>1. p \in Seq(User \cup {None})
      BY <2>1, DelegatedType DEF Transaction
    <3>2. DOMAIN p = DOMAIN c
      BY DEF Delegated
    <3> HIDE DEF p, c
    <3> QED BY <2>1, <3>1, <3>2
  <2> HIDE DEF p, c
  <2> QED BY <2>2, <2>3, <2>4, AssignedItems
<1> QED BY <1>1, <1>2

(* An activity starts.                                                     *)
LEMMA ActivateTidy ==
  ASSUME NEW t \in Transaction, NEW a \in Activity, t.db.act[a] = "dormant", TidyRows(t.db)
  PROVE  TidyRows(Activate(t, a).db)
<1> DEFINE d == t.db
           j == Join(d, a)
           e == Activate(t, a).db
<1>1. d \in Database /\ j \in Database
  BY JoinType DEF Transaction
<1>2. /\ \A b \in Activity : b # a => Tidy(b, j.act[b], j.item[b], j.idx[b])
      /\ j.act[a] = "active" /\ j.item[a] = d.item[a] /\ j.idx = d.idx
  BY <1>1, JoinTidy
<1>3. Tidy(a, "dormant", d.item[a], d.idx[a])
  BY DEF TidyRows
<1>4. d.item[a] \in Seq(Item) /\ d.idx[a] \in Nat
      /\ (d.idx[a] = 0 \/ d.idx[a] < Len(Performers(a)))
  BY <1>1, RowTypes
<1>5. CASE Type(a) = "manual"
  <2> DEFINE q == ManualItems(t, a)
             m == IF PerformedBy(a) = "sequential" /\ Performers(a) # <<>> THEN 0 ELSE j.idx[a]
  <2>1. e = [j EXCEPT !.item[a] = @ \o q, !.idx[a] = m]
    BY <1>5 DEF Activate, ActivateManual, Transaction
  <2>2. /\ e.act = j.act /\ e.item[a] = j.item[a] \o q /\ e.idx[a] = m
        /\ \A b \in Activity : b # a => e.item[b] = j.item[b] /\ e.idx[b] = j.idx[b]
    <3> HIDE DEF q, m, j, e
    <3> QED BY <1>1, <2>1 DEF Database, Places
  <2>3. q \in Seq(Item) /\ q # <<>> /\ (OnePerformer(a) => Len(q) = 1)
        /\ \A i \in DOMAIN q : q[i].state = "available"
    BY ManualItemsType, ManualItemsNew, ManualItemsOne
  <2>4. m \in Nat /\ (Turned(a) => m = 0)
    <3>1. Performers(a) = <<>> => d.idx[a] = 0
      BY <1>4
    <3> HIDE DEF d, j
    <3> QED BY <1>2, <1>4, <3>1 DEF Turned
  <2> HIDE DEF q, m, d, j, e
  <2>5. Tidy(a, "active", d.item[a] \o q, m)
    BY <1>3, <1>4, <1>5, <2>3, <2>4, StartedIsTidy
  <2>6. Tidy(a, e.act[a], e.item[a], e.idx[a])
    BY <1>2, <2>2, <2>5
  <2>7. ASSUME NEW b \in Activity, b # a PROVE Tidy(b, e.act[b], e.item[b], e.idx[b])
    BY <1>2, <2>2, <2>7
  <2>8. TidyRows(e)
    BY <2>6, <2>7 DEF TidyRows
  <2> QED BY <2>8 DEF e
<1>6. CASE Type(a) # "manual"
  <2>1. /\ e.item = j.item /\ e.idx = j.idx
        /\ \A b \in Activity : b # a => e.act[b] = j.act[b]
    <3>1. CASE Type(a) \in {"start", "end"}
      BY <1>1, <3>1 DEF Activate, Transaction, Database
    <3>2. CASE Type(a) = "sub_workflow"
      <4> DEFINE joined == [t EXCEPT !.db = j]
                 failed == [joined EXCEPT !.db.act[a] = "error"]
                 begun  == [joined EXCEPT !.db.child[a] = @ + 1]
      <4>1. Activate(t, a) \in {failed, Raise(joined), begun}
        BY <3>2, DepthAssumption DEF Activate, ActivateSubWorkflow
      <4>2. /\ joined.db = j /\ Raise(joined).db = j
            /\ failed.db.item = j.item /\ failed.db.idx = j.idx
            /\ \A b \in Activity : b # a => failed.db.act[b] = j.act[b]
            /\ begun.db.item = j.item /\ begun.db.idx = j.idx /\ begun.db.act = j.act
        BY <1>1 DEF Transaction, Database, Raise
      <4> HIDE DEF joined, failed, begun, j
      <4> QED BY <4>1, <4>2
    <3>3. CASE Type(a) \in {"auto", "event"}
      BY <3>3 DEF Activate, Transaction
    <3> QED BY <1>6, <3>1, <3>2, <3>3, TemplateTypes DEF ActivityType
  <2> HIDE DEF d, j, e
  <2>2. Tidy(a, e.act[a], d.item[a], d.idx[a])
    BY <1>3, <1>4, <1>6, ActivatedIsTidy
  <2>3. Tidy(a, e.act[a], e.item[a], e.idx[a])
    BY <1>2, <2>1, <2>2
  <2>4. ASSUME NEW b \in Activity, b # a PROVE Tidy(b, e.act[b], e.item[b], e.idx[b])
    BY <1>2, <2>1, <2>4
  <2>5. TidyRows(e)
    BY <2>3, <2>4 DEF TidyRows
  <2> QED BY <2>5 DEF e
<1> QED BY <1>5, <1>6

(* Placing a token.                                                        *)
LEMMA FireFlowTidy ==
  ASSUME NEW t \in Transaction, NEW f \in Flow, TidyRows(t.db)
  PROVE  TidyRows(FireFlow(t, f).db)
<1> DEFINE a      == Target(f)
           tok    == [t.db.tok EXCEPT ![a] = Append(@, f)]
           placed == [t EXCEPT !.db = [t.db EXCEPT !.tok = tok]]
           timed  == [placed EXCEPT !.db.clock = @ \cup {a}]
<1>1. t.db \in Database /\ a \in Activity
  BY TemplateTypes DEF Transaction
<1>2. placed \in Transaction /\ placed.db = [t.db EXCEPT !.tok = tok]
  <2>1. tok \in [Activity -> Seq(Flow)]
    BY <1>1 DEF Database
  <2> HIDE DEF tok
  <2>2. [t.db EXCEPT !.tok = tok] \in Database
    BY <1>1, <2>1 DEF Database
  <2> QED BY <2>2, WithDatabase
<1>3. \/ FireFlow(t, f) \in {placed, timed}
      \/ t.db.act[a] = "dormant" /\ FireFlow(t, f) = Activate(placed, a)
  <2>1. placed = [t EXCEPT !.db.tok[a] = Append(@, f)]
    BY <1>1 DEF Transaction, Database
  <2> HIDE DEF placed
  <2> QED BY <2>1 DEF FireFlow
<1>4. /\ placed.db.act = t.db.act /\ placed.db.item = t.db.item /\ placed.db.idx = t.db.idx
      /\ timed.db.act = t.db.act /\ timed.db.item = t.db.item /\ timed.db.idx = t.db.idx
  <2> HIDE DEF tok
  <2> QED BY <1>1, <1>2 DEF Database, Transaction
<1> HIDE DEF tok, placed, timed, a
<1>5. TidyRows(placed.db) /\ TidyRows(timed.db)
  BY <1>4, TidyAgrees
<1>6. t.db.act[a] = "dormant" => TidyRows(Activate(placed, a).db)
  BY <1>1, <1>2, <1>4, <1>5, ActivateTidy
<1> QED BY <1>3, <1>5, <1>6

(* Sound transactions with tidy rows.                                      *)
Orderly == {t \in Sound : TidyRows(t.db)}

(* What an orderly transaction is.                                         *)
LEMMA OrderlyRead ==
  ASSUME NEW t \in Orderly
  PROVE  t \in Sound /\ t \in Transaction /\ t.db \in Database /\ TidyRows(t.db)
BY DEF Orderly, Sound, Transaction

(* Placing the tokens of several flows.                                    *)
LEMMA FireFlowsTidy ==
  ASSUME NEW t \in Orderly, NEW flows
  PROVE  FireFlows(t, flows) \in Orderly
<1> DEFINE F == [f \in Flow |-> [x \in Transaction |->
                    IF x.ok /\ f \in flows THEN FireFlow(x, f) ELSE x]]
           n == Len(Template.flow)
<1>1. n \in Nat /\ Flow = 1..n
  BY TemplateTypes
<1>2. \A x \in Orderly, f \in 1..n : F[f][x] \in Orderly
  <2>1. SUFFICES ASSUME NEW x \in Orderly, NEW f \in Flow PROVE F[f][x] \in Orderly
    BY <1>1
  <2>2. x \in Sound /\ x \in Transaction /\ TidyRows(x.db)
    BY OrderlyRead
  <2>3. F[f][x] = IF x.ok /\ f \in flows THEN FireFlow(x, f) ELSE x
    BY <2>2
  <2>4. FireFlow(x, f) \in Orderly
    BY <2>2, FireFlowSound, FireFlowTidy DEF Orderly
  <2> QED BY <2>3, <2>4
<1>3. Iterate(F, t, n) \in Orderly
  <2> HIDE DEF F, n
  <2> QED BY <1>1, <1>2, IterateClosed
<1> QED BY <1>3 DEF FireFlows

(* A round of the loop.                                                    *)
LEMMA RoundTidy ==
  ASSUME NEW t \in Orderly
  PROVE  Round(t) \in Orderly
<1> DEFINE a    == Head(t.queue)
           rest == [t EXCEPT !.queue = Tail(@), !.path = ""]
<1>1. t \in Sound /\ t \in Transaction /\ t.db \in Database /\ TidyRows(t.db)
  BY OrderlyRead
<1>2. Round(t) \in Sound
  BY <1>1, RoundSound
<1>3. SUFFICES ASSUME t.queue # <<>>, Round(t) = ProcessHead(t)
               PROVE  TidyRows(ProcessHead(t).db)
  BY <1>1, <1>2 DEF Round, Orderly
<1>4. rest \in Orderly
  <2> DEFINE queue == Tail(t.queue)
  <2>1. queue \in Seq(Activity)
    BY <1>1, <1>3 DEF Transaction
  <2>2. "" \in Label
    BY DEF Label
  <2>3. rest = [t EXCEPT !.queue = queue, !.path = ""]
    OBVIOUS
  <2> HIDE DEF queue, rest
  <2>4. rest \in Transaction /\ rest.db = t.db
    BY <1>1, <2>1, <2>2, <2>3 DEF Transaction
  <2> QED BY <1>1, <2>4 DEF Orderly, Sound
<1>5. \/ ProcessHead(t) = FireFlows(rest, FiringFlows(t, a))
      \/ ProcessHead(t) = Raise(rest)
      \/ ProcessHead(t) = Conclude(rest, a)
  BY DEF ProcessHead
<1> HIDE DEF rest, a
<1>6. rest \in Transaction /\ rest.db \in Database /\ TidyRows(rest.db)
  BY <1>4, OrderlyRead
<1>7. TidyRows(FireFlows(rest, FiringFlows(t, a)).db)
  BY <1>4, FireFlowsTidy, OrderlyRead
<1>8. Raise(rest).db = rest.db
  BY <1>6, RaiseType
<1>9. TidyRows(Conclude(rest, a).db)
  <2> DEFINE ended == [rest EXCEPT !.db = SetWorkflow(@, "finished")]
  <2>1. \/ Conclude(rest, a) = rest
        \/ Conclude(rest, a) = Raise(rest)
        \/ Conclude(rest, a) = ended
    BY DEF Conclude
  <2>2. ended.db = SetWorkflow(rest.db, "finished")
    BY <1>6 DEF Transaction
  <2> HIDE DEF ended
  <2> QED BY <1>6, <1>8, <2>1, <2>2, SetWorkflowTidy
<1> QED BY <1>5, <1>6, <1>7, <1>8, <1>9

(* _advance_from_activity, once the activity itself is left tidy.          *)
LEMMA AdvanceTidy ==
  ASSUME NEW t \in Sound, NEW a \in Activity,
         t.db.act[a] \in {"dormant", "active"} => TidyRows(Completed(t, a).db)
  PROVE  LET r == AdvanceFromActivity(t, a) IN r.ok => TidyRows(r.db)
<1> DEFINE n == Cardinality(Activity)
           F == [k \in 1..n |-> [x \in Transaction |-> Round(x)]]
<1>1. n \in Nat
  BY TemplateAssumption, FS_CardinalityType
<1>2. \A x \in Orderly, k \in 1..n : F[k][x] \in Orderly
  BY RoundTidy, OrderlyRead
<1>3. ~ Raise(t).ok
  BY DEF Raise, Sound, Transaction
<1>4. ASSUME t.db.act[a] \in {"dormant", "active"}
      PROVE  TidyRows(AnnounceItems(Iterate(F, Completed(t, a), n)).db)
  <2>1. Completed(t, a) \in Orderly
    BY <1>4, CompletedSound DEF Orderly
  <2> HIDE DEF F, n
  <2>2. Iterate(F, Completed(t, a), n) \in Orderly
    BY <1>1, <1>2, <2>1, IterateClosed
  <2> QED BY <2>2, OrderlyRead, RaiseType DEF AnnounceItems
<1> QED BY <1>3, <1>4 DEF AdvanceFromActivity

-----------------------------------------------------------------------------
(* Inboxes when items are completed and rejected, and activities roused.   *)

(* Completing or rejecting one item.                                       *)
LEMMA SettleItem ==
  ASSUME NEW d \in Database, NEW a \in Activity, NEW i \in DOMAIN d.item[a], NEW s \in Settled
  PROVE  LET e == [d EXCEPT !.item[a][i].state = s]
         IN  /\ e \in Database /\ NoHarm(d, e)
             /\ e.act = d.act /\ e.idx = d.idx
             /\ \A b \in Activity : b # a => e.item[b] = d.item[b]
             /\ Settles(d.item[a], i, s, e.item[a])
<1> DEFINE e == [d EXCEPT !.item[a][i].state = s]
<1>1. e \in Database /\ NoHarm(d, e)
  BY SetItemType DEF Settled, ItemState
<1>2. /\ e.act = d.act /\ e.idx = d.idx
      /\ \A b \in Activity : b # a => e.item[b] = d.item[b]
      /\ e.item[a] = [d.item[a] EXCEPT ![i].state = s]
  BY DEF Database
<1>3. d.item[a] \in Seq(Item) /\ d.item[a][i] \in Item
  BY DEF Database
<1>4. Settles(d.item[a], i, s, e.item[a])
  <2> HIDE DEF e
  <2> QED BY <1>2, <1>3 DEF Settles, Item
<1> QED BY <1>1, <1>2, <1>4

(* Only one activity is disturbed, and that one is left tidy.              *)
LEMMA TidyButOne ==
  ASSUME NEW d, NEW e, NEW a \in Activity, TidyRows(d),
         \A b \in Activity : b # a =>
           e.act[b] = d.act[b] /\ e.item[b] = d.item[b] /\ e.idx[b] = d.idx[b],
         Tidy(a, e.act[a], e.item[a], e.idx[a])
  PROVE  TidyRows(e)
<1>1. ASSUME NEW b \in Activity, b # a PROVE Tidy(b, e.act[b], e.item[b], e.idx[b])
  BY <1>1 DEF TidyRows
<1> QED BY <1>1 DEF TidyRows

(* complete_work_item, on an open item.                                    *)
LEMMA CompleteWorkItemTidy ==
  ASSUME NEW t \in Sound, NEW a \in Activity, NEW i \in DOMAIN t.db.item[a],
         NEW v \in Valuation, TidyRows(t.db), t.db.item[a][i].state \in Open
  PROVE  LET r == CompleteWorkItem(t, a, i, v) IN r.ok => TidyRows(r.db)
<1> DEFINE c == [t.db EXCEPT !.item[a][i].state = "complete"]
           d == [c EXCEPT !.var = v]
           n == d.idx[a] + 1
           p == PassOn(d, a, n)
           u == [t EXCEPT !.db = d]
           r == CompleteWorkItem(t, a, i, v)
<1>1. t \in Transaction /\ t.db \in Database
  BY DEF Sound, Transaction
<1>2. /\ c \in Database /\ NoHarm(t.db, c)
      /\ c.act = t.db.act /\ c.idx = t.db.idx
      /\ \A b \in Activity : b # a => c.item[b] = t.db.item[b]
      /\ Settles(t.db.item[a], i, "complete", c.item[a])
  BY <1>1, SettleItem DEF Settled
<1>3. [t.db EXCEPT !.item[a][i].state = "complete", !.var = v] = d
  OBVIOUS
<1> HIDE DEF c
<1>4. /\ d \in Database /\ NoHarm(t.db, d)
      /\ d.act = t.db.act /\ d.idx = t.db.idx
      /\ \A b \in Activity : b # a => d.item[b] = t.db.item[b]
      /\ Settles(t.db.item[a], i, "complete", d.item[a])
  <2>1. d \in Database /\ d.act = c.act /\ d.idx = c.idx /\ d.item = c.item /\ NoHarm(t.db, d)
    BY <1>2 DEF Database, NoHarm
  <2> QED BY <1>2, <2>1
<1> HIDE DEF d
<1>5. /\ t.db.item[a] \in Seq(Item) /\ d.item[a] \in Seq(Item)
      /\ t.db.idx[a] \in Nat /\ n \in Nat
      /\ Tidy(a, t.db.act[a], t.db.item[a], t.db.idx[a])
  BY <1>1, <1>4, RowTypes DEF TidyRows
<1>6. ASSUME PerformedBy(a) = "sequential", n < Len(Performers(a))
      PROVE  TidyRows([t EXCEPT !.db = p].db)
  <2> DEFINE it == NewItem(Performers(a)[n + 1])
  <2>1. it \in Item /\ it.state = "available"
    <3>1. n + 1 \in DOMAIN Performers(a)
      BY <1>5, <1>6, TemplateTypes
    <3> QED BY <3>1, TemplateTypes, NewItemType DEF NewItem
  <2>2. /\ p.act = d.act /\ p.item[a] = Append(d.item[a], it) /\ p.idx[a] = n
        /\ \A b \in Activity : b # a => p.item[b] = d.item[b] /\ p.idx[b] = d.idx[b]
    BY <1>4 DEF PassOn, Database, Places
  <2>3. [t EXCEPT !.db = p].db = p
    BY <1>1 DEF Transaction
  <2> HIDE DEF p, it, n
  <2>4. Tidy(a, t.db.act[a], Append(d.item[a], it), n)
    <3>1. "complete" \in Settled /\ n = t.db.idx[a] + 1
      BY <1>4 DEF Settled, n
    <3> HIDE DEF n
    <3> QED BY <1>4, <1>5, <1>6, <2>1, <3>1, PassedOnIsTidy
  <2>5. Tidy(a, p.act[a], p.item[a], p.idx[a])
    BY <1>4, <2>2, <2>4
  <2>6. \A b \in Activity : b # a =>
          p.act[b] = t.db.act[b] /\ p.item[b] = t.db.item[b] /\ p.idx[b] = t.db.idx[b]
    BY <1>4, <2>2
  <2>7. TidyRows(p)
    BY <2>5, <2>6, TidyButOne
  <2> QED BY <2>3, <2>7
<1>7. ASSUME r = AdvanceFromActivity(u, a) PROVE r.ok => TidyRows(r.db)
  <2>1. u \in Sound /\ u \in Transaction /\ u.db = d
    BY <1>1, <1>4, SoundRows, WithDatabase DEF Sound
  <2> DEFINE e == Completed(u, a).db
  <2>2. /\ e.item = d.item /\ e.idx = d.idx
        /\ e.act[a] = "complete" /\ \A b \in Activity : b # a => e.act[b] = d.act[b]
    BY <1>4, <2>1 DEF Completed, Transaction, Database
  <2>3. Tidy(a, "complete", d.item[a], t.db.idx[a])
    <3>1. DOMAIN d.item[a] = DOMAIN t.db.item[a]
      BY <1>4 DEF Settles
    <3>2. OnePerformer(a) => OpenIn(d.item[a]) = {}
      BY <1>4, <1>5, SettledWasLast DEF Settled
    <3> QED BY <1>5, <3>1, <3>2, EndedIsTidy
  <2> HIDE DEF u, e
  <2>4. Tidy(a, e.act[a], e.item[a], e.idx[a])
    BY <1>4, <2>2, <2>3
  <2>5. \A b \in Activity : b # a =>
          e.act[b] = t.db.act[b] /\ e.item[b] = t.db.item[b] /\ e.idx[b] = t.db.idx[b]
    BY <1>4, <2>2
  <2>6. TidyRows(e)
    BY <2>4, <2>5, TidyButOne
  <2> QED BY <1>7, <2>1, <2>6, AdvanceTidy DEF e
<1>8. ~ Raise(t).ok
  BY <1>1 DEF Raise, Transaction
<1>9. \/ r = Raise(t)
      \/ r = AdvanceFromActivity(u, a)
      \/ /\ PerformedBy(a) = "sequential" /\ n < Len(Performers(a))
         /\ r = [t EXCEPT !.db = p]
  <2>1. CASE t.db.wf # "running" \/ t.db.item[a][i].state = "complete"
    BY <2>1 DEF CompleteWorkItem
  <2>2. CASE ~ (t.db.wf # "running" \/ t.db.item[a][i].state = "complete")
    BY <1>3, <2>2, Zenon DEF CompleteWorkItem
  <2> QED BY <2>1, <2>2
<1> HIDE DEF u, p, r
<1>10. r.ok => TidyRows(r.db)
  BY <1>6, <1>7, <1>8, <1>9
<1> QED BY <1>10 DEF r

(* reject_work_item: the previous in line gets an item, or the targets of  *)
(* the reject flows, none of which has an open item, get new ones.         *)
LEMMA RejectWorkItemTidy ==
  ASSUME NEW t \in Sound, NEW a \in Activity, NEW i \in DOMAIN t.db.item[a], TidyRows(t.db)
  PROVE  LET r == RejectWorkItem(t, a, i) IN r.ok => TidyRows(r.db)
<1> DEFINE d     == [t.db EXCEPT !.item[a][i].state = "rejected"]
           flows == FlowsFrom(a, "reject")
           r     == RejectWorkItem(t, a, i)
           n     == d.idx[a] - 1
           p     == PassOn(d, a, n)
           q     == FollowRejects(d, flows)
<1>1. t \in Transaction /\ t.db \in Database
  BY DEF Sound, Transaction
<1>2. /\ d \in Database /\ d.act = t.db.act /\ d.idx = t.db.idx
      /\ \A b \in Activity : b # a => d.item[b] = t.db.item[b]
      /\ Settles(t.db.item[a], i, "rejected", d.item[a])
  BY <1>1, SettleItem DEF Settled
<1>3. \/ r = Raise(t)
      \/ /\ t.db.item[a][i].state = "acquired"
         /\ \/ /\ PerformedBy(a) = "sequential" /\ d.idx[a] > 0
               /\ r = [t EXCEPT !.db = p]
            \/ /\ PerformedBy(a) # "sequential" /\ flows # {}
               /\ \A f \in flows : d.act[Target(f)] \in {"dormant", "error", "complete"}
               /\ r = [t EXCEPT !.db = q]
  <2>1. CASE t.db.wf # "running" \/ t.db.item[a][i].state # "acquired"
    BY <2>1, Zenon DEF RejectWorkItem
  <2>2. CASE ~ (t.db.wf # "running" \/ t.db.item[a][i].state # "acquired")
    BY <2>2, Zenon DEF RejectWorkItem
  <2> QED BY <2>1, <2>2
<1> HIDE DEF d
<1>4. /\ t.db.item[a] \in Seq(Item) /\ d.item[a] \in Seq(Item)
      /\ d.idx[a] \in Nat /\ d.idx[a] = t.db.idx[a]
      /\ d.idx[a] = 0 \/ d.idx[a] < Len(Performers(a))
      /\ Tidy(a, t.db.act[a], t.db.item[a], t.db.idx[a])
  BY <1>1, <1>2, RowTypes DEF TidyRows
<1>5. t.db.item[a][i].state = "acquired" => t.db.item[a][i].state \in Open
  BY DEF Open
<1>6. ASSUME PerformedBy(a) = "sequential", d.idx[a] > 0, t.db.item[a][i].state = "acquired"
      PROVE  TidyRows(p)
  <2> DEFINE it == NewItem(Performers(a)[n + 1])
  <2>1. n \in Nat /\ n + 1 = d.idx[a]
    BY <1>4, <1>6
  <2>2. it \in Item /\ it.state = "available"
    <3>1. n + 1 \in DOMAIN Performers(a)
      BY <1>4, <1>6, <2>1, TemplateTypes
    <3> QED BY <3>1, TemplateTypes, NewItemType DEF NewItem
  <2>3. /\ p.act = d.act /\ p.item[a] = Append(d.item[a], it) /\ p.idx[a] = n
        /\ \A b \in Activity : b # a => p.item[b] = d.item[b] /\ p.idx[b] = d.idx[b]
    BY <1>2 DEF PassOn, Database, Places
  <2> HIDE DEF p, it, n
  <2>4. Tidy(a, t.db.act[a], Append(d.item[a], it), n)
    <3>1. "rejected" \in Settled /\ t.db.idx[a] = n + 1 /\ t.db.idx[a] \in Nat
      BY <1>4, <2>1 DEF Settled
    <3> QED BY <1>2, <1>4, <1>5, <1>6, <2>1, <2>2, <3>1, PassedOnIsTidy
  <2>5. Tidy(a, p.act[a], p.item[a], p.idx[a])
    BY <1>2, <2>3, <2>4
  <2>6. \A b \in Activity : b # a =>
          p.act[b] = t.db.act[b] /\ p.item[b] = t.db.item[b] /\ p.idx[b] = t.db.idx[b]
    BY <1>2, <2>3
  <2> QED BY <2>5, <2>6, TidyButOne
<1>7. ASSUME PerformedBy(a) # "sequential", flows # {}, t.db.item[a][i].state = "acquired",
             \A f \in flows : d.act[Target(f)] \in {"dormant", "error", "complete"}
      PROVE  TidyRows(q)
  <2>1. ~ RejectsInTurn
    BY <1>7 DEF RejectsInTurn, FlowsFrom
  <2>2. Tidy(a, d.act[a], d.item[a], d.idx[a])
    <3>1. t.db.item[a] # <<>> /\ ~ Turned(a)
      BY <1>2, <1>7 DEF Settles, Turned
    <3>2. OnePerformer(a) => OpenIn(d.item[a]) = {}
      BY <1>2, <1>4, <1>5, <1>7, SettledWasLast DEF Settled
    <3> QED BY <1>2, <1>4, <2>1, <3>1, <3>2 DEF Tidy
  <2>3. TidyRows(d)
    BY <1>2, <2>2, TidyButOne
  <2> DEFINE redo == {Target(f) : f \in flows}
  <2>4. /\ q.idx = d.idx
        /\ \A b \in Activity :
             /\ q.act[b] = IF b \in redo THEN "active" ELSE d.act[b]
             /\ q.item[b] = IF b \in redo THEN d.item[b] \o Assigned(Resolved(b)) ELSE d.item[b]
    BY <1>2 DEF FollowRejects, Database
  <2>5. \A b \in redo : Recalled(b) /\ d.act[b] \in {"dormant", "error", "complete"}
    BY <1>7 DEF Recalled, FlowsFrom
  <2> HIDE DEF q, redo
  <2>6. ASSUME NEW b \in Activity, b \in redo PROVE Tidy(b, q.act[b], q.item[b], q.idx[b])
    <3> DEFINE new == Assigned(Resolved(b))
    <3>1. new \in Seq(Item) /\ new # <<>> /\ (OnePerformer(b) => Len(new) = 1)
          /\ \A k \in DOMAIN new : new[k].state = "available"
      BY ResolvedItems, AssignedNew
    <3>2. d.item[b] \in Seq(Item) /\ Tidy(b, d.act[b], d.item[b], d.idx[b])
      BY <1>2, <2>3, RowTypes DEF TidyRows
    <3>3. ~ Turned(b) /\ Recalled(b) /\ d.act[b] # "active"
      BY <2>5, <2>6 DEF Turned
    <3>4. q.act[b] = "active" /\ q.item[b] = d.item[b] \o new
      BY <2>4, <2>6
    <3> HIDE DEF new
    <3>5. /\ DOMAIN (d.item[b] \o new) = 1..(Len(d.item[b]) + Len(new))
          /\ \A k \in 1..Len(d.item[b]) : (d.item[b] \o new)[k] = d.item[b][k]
          /\ \A k \in 1..Len(new) : (d.item[b] \o new)[Len(d.item[b]) + k] = new[k]
          /\ DOMAIN d.item[b] = 1..Len(d.item[b]) /\ DOMAIN new = 1..Len(new)
          /\ Len(d.item[b]) \in Nat /\ Len(new) \in Nat /\ Len(new) # 0
      BY <3>1, <3>2
    <3>6. OnePerformer(b) => OpenIn(d.item[b]) = {}
      BY <3>2, <3>3 DEF Tidy
    <3>7. Len(d.item[b]) + 1 \in OpenIn(q.item[b])
      <4>1. 1 \in 1..Len(new) /\ new[1].state = "available"
        BY <3>1, <3>5
      <4>2. /\ Len(d.item[b]) + 1 \in DOMAIN (d.item[b] \o new)
            /\ (d.item[b] \o new)[Len(d.item[b]) + 1] = new[1]
        BY <3>5, <4>1
      <4> QED BY <3>4, <4>1, <4>2 DEF OpenIn, Open
    <3>8. OnePerformer(b) => OpenIn(q.item[b]) \subseteq {Len(d.item[b]) + 1}
      <4>1. SUFFICES ASSUME OnePerformer(b), NEW k \in OpenIn(q.item[b])
                     PROVE  k = Len(d.item[b]) + 1
        OBVIOUS
      <4>2. k \in 1..(Len(d.item[b]) + 1) /\ q.item[b][k].state \in Open
        BY <3>1, <3>4, <3>5, <4>1 DEF OpenIn
      <4>3. k \notin 1..Len(d.item[b])
        BY <3>4, <3>5, <3>6, <4>1, <4>2 DEF OpenIn
      <4> DEFINE l == Len(d.item[b])
      <4>4. l \in Nat
        BY <3>5
      <4> HIDE DEF l
      <4>5. k \in 1..(l + 1) /\ k \notin 1..l
        BY <4>2, <4>3 DEF l
      <4>6. k = l + 1
        BY <4>4, <4>5
      <4> QED BY <4>6 DEF l
    <3> QED BY <3>3, <3>4, <3>7, <3>8 DEF Tidy
  <2>7. ASSUME NEW b \in Activity, b \notin redo PROVE Tidy(b, q.act[b], q.item[b], q.idx[b])
    BY <2>3, <2>4, <2>7 DEF TidyRows
  <2> QED BY <2>6, <2>7 DEF TidyRows
<1>8. [t EXCEPT !.db = p].db = p /\ [t EXCEPT !.db = q].db = q /\ ~ Raise(t).ok
  BY <1>1 DEF Transaction, Raise
<1> HIDE DEF p, q, r, flows
<1>9. r.ok => TidyRows(r.db)
  BY <1>3, <1>6, <1>7, <1>8
<1> QED BY <1>9 DEF r

(* Compensations start what was dormant.                                   *)
LEMMA RouseTidy ==
  ASSUME NEW d \in Database, NEW S, TidyRows(d), \A b \in S \cap Activity : ~ Turned(b)
  PROVE  TidyRows(Rouse(d, S))
<1> DEFINE e      == Rouse(d, S)
           roused == {b \in S : d.act[b] = "dormant"}
<1>1. /\ e.idx = d.idx
      /\ \A b \in Activity :
           /\ e.act[b] = IF b \in roused THEN "active" ELSE d.act[b]
           /\ e.item[b] = IF b \in roused /\ Type(b) = "manual"
                          THEN d.item[b] \o Assigned(Resolved(b)) ELSE d.item[b]
  BY DEF Rouse, Database
<1>2. \A b \in Activity : b \in roused => ~ Turned(b) /\ d.act[b] = "dormant"
  OBVIOUS
<1> HIDE DEF e, roused
<1>3. ASSUME NEW b \in Activity PROVE Tidy(b, e.act[b], e.item[b], e.idx[b])
  <2>1. d.item[b] \in Seq(Item) /\ d.idx[b] \in Nat /\ Tidy(b, d.act[b], d.item[b], d.idx[b])
    BY RowTypes DEF TidyRows
  <2>2. CASE b \notin roused
    BY <1>1, <2>1, <2>2
  <2>3. CASE b \in roused /\ Type(b) = "manual"
    <3> DEFINE new == Assigned(Resolved(b))
    <3>1. new \in Seq(Item) /\ new # <<>> /\ (OnePerformer(b) => Len(new) = 1)
          /\ \A k \in DOMAIN new : new[k].state = "available"
      BY ResolvedItems, AssignedNew
    <3>2. e.act[b] = "active" /\ e.item[b] = d.item[b] \o new /\ e.idx[b] = d.idx[b]
      BY <1>1, <2>3
    <3>3. Tidy(b, "dormant", d.item[b], d.idx[b]) /\ ~ Turned(b)
      BY <1>2, <2>1, <2>3
    <3> HIDE DEF new
    <3>4. Tidy(b, "active", d.item[b] \o new, d.idx[b])
      BY <2>1, <2>3, <3>1, <3>3, StartedIsTidy
    <3> QED BY <3>2, <3>4
  <2>4. CASE b \in roused /\ Type(b) # "manual"
    <3>1. Tidy(b, "active", d.item[b], d.idx[b])
      BY <1>2, <2>1, <2>4, ActivatedIsTidy
    <3> QED BY <1>1, <2>4, <3>1
  <2> QED BY <2>2, <2>3, <2>4
<1>4. TidyRows(e)
  BY <1>3 DEF TidyRows
<1> QED BY <1>4 DEF e

(* execute_compensation.                                                   *)
LEMMA ExecuteCompensationTidy ==
  ASSUME NEW d \in Database, TidyRows(d)
  PROVE  TidyRows(ExecuteCompensation(d))
<1> DEFINE S       == {Compensation(a) : a \in Compensatable(d)}
           started == Rouse(d, S)
<1>1. \A b \in S \cap Activity : ~ Turned(b)
  BY DEF Turned, Compensatable
<1> HIDE DEF S
<1>2. started \in Database /\ TidyRows(started)
  BY <1>1, RouseType, RouseTidy
<1>3. ExecuteCompensation(d) \in {d, started, SetWorkflow(started, "halted")}
  BY DEF ExecuteCompensation, S
<1> HIDE DEF started
<1> QED BY <1>2, <1>3, SetWorkflowTidy

-----------------------------------------------------------------------------
(* Inboxes in the life of a workflow under people and administrators.      *)

(* Starting a workflow.                                                    *)
LEMMA StartTidy ==
  ASSUME Inv, StartWorkflow
  PROVE  TidyRows(db')
<1>1. PICK v \in Valuation, a \in Activity, u \in User \cup {None} :
        Commit(AdvanceFromActivity(Transact([Blank(v) EXCEPT !.wf = "running"], "", None,
                                            [NoOverride EXCEPT ![a] = u], FALSE),
                                   StartActivity))
  BY DEF StartWorkflow
<1>2. [NoOverride EXCEPT ![a] = u] \in [Activity -> User \cup {None}]
  BY DEF NoOverride
<1>3. "" \in Label
  BY DEF Label
<1>4. StartActivity \in Activity
  BY ValidTemplateAssumption DEF StartActivity, Type
<1> DEFINE blank == Blank(v)
           d     == [blank EXCEPT !.wf = "running"]
           t     == Transact(d, "", None, [NoOverride EXCEPT ![a] = u], FALSE)
           r     == AdvanceFromActivity(t, StartActivity)
           e     == Completed(t, StartActivity).db
<1>5. d \in Database /\ Waiting(d)
      /\ \A b \in Activity : d.item[b] = <<>> /\ d.idx[b] = 0
  <2>1. blank \in Database /\ Waiting(blank)
    BY BlankType
  <2>2. \A b \in Activity : blank.item[b] = <<>> /\ blank.idx[b] = 0
    BY DEF Blank
  <2> HIDE DEF blank
  <2>3. d \in Database /\ NoHarm(blank, d) /\ d.item = blank.item /\ d.idx = blank.idx
    BY <2>1 DEF Database, WorkflowState, NoHarm
  <2> QED BY <2>1, <2>2, <2>3, HarmlessSteps
<1>6. \A b \in Activity : d.act[b] = "dormant"
  BY DEF Blank
<1>7. Commit(r)
  BY <1>1
<1> HIDE DEF d
<1>8. t \in Sound /\ t \in Transaction /\ t.db = d
  BY <1>2, <1>3, <1>5, TransactSound DEF Sound
<1> HIDE DEF t
<1>9. /\ e.item = d.item /\ e.idx = d.idx
      /\ \A b \in Activity : b # StartActivity => e.act[b] = d.act[b]
      /\ e.act[StartActivity] = "complete"
  BY <1>4, <1>5, <1>8 DEF Completed, Transaction, Database
<1>10. \A b \in Activity : OpenIn(<<>>) = {} /\ StateIn(<<>>, "complete") = {}
                           /\ StateIn(<<>>, "rejected") = {}
  BY DEF OpenIn, StateIn
<1> HIDE DEF e
<1>11. TidyRows(e)
  <2>1. \A b \in Activity : e.act[b] # "active" /\ e.item[b] = <<>> /\ e.idx[b] = 0
    BY <1>5, <1>6, <1>9
  <2> QED BY <1>10, <2>1 DEF TidyRows, Tidy
<1>12. r.ok => TidyRows(r.db)
  BY <1>4, <1>8, <1>11, AdvanceTidy DEF e
<1> HIDE DEF r
<1> QED BY <1>7, <1>12 DEF Commit

(* The inbox.                                                              *)
LEMMA InboxTidy ==
  ASSUME Inv, InboxStep, TidyRows(db)
  PROVE  TidyRows(db')
<1>1. db \in Database /\ Waiting(db)
  BY DEF Inv, TypeOK
<1>2. PICK u \in User, a \in Activity : \E i \in Items(a) :
        \/ AcquireWorkItem(u, a, i)
        \/ ReleaseWorkItem(u, a, i)
        \/ CompleteInboxItem(u, a, i)
        \/ RejectInboxItem(u, a, i)
  BY DEF InboxStep
<1>3. PICK i \in Items(a) :
        \/ AcquireWorkItem(u, a, i)
        \/ ReleaseWorkItem(u, a, i)
        \/ CompleteInboxItem(u, a, i)
        \/ RejectInboxItem(u, a, i)
  BY <1>2
<1>4. ASSUME NEW p, NEW s \in {"acquired", "available"}, db.item[a][i].state \in Open,
             p \in User \cup {None},
             db' = [db EXCEPT !.item[a][i].state = s, !.item[a][i].performer = p]
      PROVE  TidyRows(db')
  <2> DEFINE it    == [db.item[a][i] EXCEPT !.state = s, !.performer = p]
             items == [db.item[a] EXCEPT ![i] = it]
             e     == [db EXCEPT !.item[a] = items]
  <2>1. db.item \in [Activity -> Seq(Item)] /\ db.item[a] \in Seq(Item)
        /\ db.item[a][i] \in Item /\ i \in DOMAIN db.item[a]
    BY <1>1 DEF Database, Items
  <2>2. it \in Item /\ it.state = s
    BY <1>4, <2>1 DEF Item, ItemState
  <2>3. db' = e
    BY <1>1, <1>4, <2>1 DEF Database, Item
  <2> HIDE DEF it
  <2>4. /\ items \in Seq(Item) /\ SameButOpen(db.item[a], items)
    <3>1. items \in Seq(Item) /\ DOMAIN items = DOMAIN db.item[a] /\ items[i] = it
          /\ \A j \in DOMAIN db.item[a] : j # i => items[j] = db.item[a][j]
      BY <2>1, <2>2
    <3>2. s \in Open
      BY DEF Open
    <3> QED BY <1>4, <2>2, <3>1, <3>2 DEF SameButOpen
  <2> HIDE DEF items
  <2>5. /\ e.act = db.act /\ e.idx = db.idx /\ e.item[a] = items
        /\ \A b \in Activity : b # a => e.item[b] = db.item[b]
    BY <1>1 DEF Database
  <2> HIDE DEF e
  <2>6. Tidy(a, db.act[a], items, db.idx[a])
    BY <2>1, <2>4, SameIsTidy DEF TidyRows
  <2>7. Tidy(a, e.act[a], e.item[a], e.idx[a])
    BY <2>5, <2>6
  <2>8. \A b \in Activity : b # a =>
          e.act[b] = db.act[b] /\ e.item[b] = db.item[b] /\ e.idx[b] = db.idx[b]
    BY <2>5
  <2> QED BY <2>3, <2>7, <2>8, TidyButOne
<1>5. CASE AcquireWorkItem(u, a, i)
  <2> DEFINE e == [db EXCEPT !.item[a][i].state = "acquired", !.item[a][i].performer = u]
  <2>1. db.item[a][i].state \in Open /\ Write(e)
    BY <1>5 DEF AcquireWorkItem, Open
  <2>2. db' = e
    BY <2>1, WriteNext
  <2> QED BY <1>4, <2>1, <2>2
<1>6. CASE ReleaseWorkItem(u, a, i)
  <2> DEFINE e == [db EXCEPT !.item[a][i].state = "available", !.item[a][i].performer = None]
  <2>1. db.item[a][i].state \in Open /\ Write(e)
    BY <1>6 DEF ReleaseWorkItem, Open
  <2>2. db' = e
    BY <2>1, WriteNext
  <2> QED BY <1>4, <2>1, <2>2
<1>7. CASE CompleteInboxItem(u, a, i)
  <2>1. PICK v \in Valuation, p \in Label, n \in NextPerformers(a) :
          Commit(CompleteWorkItem(Transact(db, p, n, NoOverride, FALSE), a, i, v))
    BY <1>7 DEF CompleteInboxItem
  <2>2. n \in User \cup {None} /\ NoOverride \in [Activity -> User \cup {None}]
    BY DEF NextPerformers, NoOverride
  <2> DEFINE t == Transact(db, p, n, NoOverride, FALSE)
             r == CompleteWorkItem(t, a, i, v)
  <2>3. t \in Sound /\ t.db = db
    BY <1>1, <2>2, TransactSound
  <2>4. Commit(r)
    BY <2>1
  <2> HIDE DEF t
  <2>5. i \in DOMAIN t.db.item[a] /\ t.db.item[a][i].state \in Open
    BY <1>7, <2>3 DEF Items, CompleteInboxItem, Open
  <2>6. r.ok => TidyRows(r.db)
    BY <2>3, <2>5, CompleteWorkItemTidy
  <2> HIDE DEF r
  <2> QED BY <2>4, <2>6 DEF Commit
<1>8. CASE RejectInboxItem(u, a, i)
  <2> DEFINE t == Request(db)
             r == RejectWorkItem(t, a, i)
  <2>1. t \in Sound /\ t.db = db /\ i \in DOMAIN t.db.item[a]
    BY <1>1, RequestSound DEF Items
  <2>2. Commit(r)
    BY <1>8 DEF RejectInboxItem
  <2> HIDE DEF t
  <2>3. r.ok => TidyRows(r.db)
    BY <2>1, RejectWorkItemTidy
  <2> HIDE DEF r
  <2> QED BY <2>2, <2>3 DEF Commit
<1> QED BY <1>3, <1>5, <1>6, <1>7, <1>8

(* Halting and resuming put open items into another open state, aborting   *)
(* closes them with their activities, and a restart deletes them.          *)
LEMMA AdministrationTidy ==
  ASSUME Inv, Administration, TidyRows(db)
  PROVE  TidyRows(db')
<1>1. db \in Database
  BY DEF Inv, TypeOK
<1>2. ASSUME NEW s \in WorkflowState, NEW S \in SUBSET Open, NEW o \in Open,
             db' = Mark(SetWorkflow(db, s), S, o)
      PROVE  TidyRows(db')
  <2> DEFINE d == SetWorkflow(db, s)
             e == Mark(d, S, o)
  <2>1. d \in Database /\ TidyRows(d)
    BY <1>1, SetWorkflowType, SetWorkflowTidy
  <2> HIDE DEF d
  <2>2. /\ e.act = d.act /\ e.idx = d.idx
        /\ \A a \in Activity : e.item[a] = SetItems(d.item[a], S, o)
    BY <2>1 DEF Mark, Database
  <2>3. ASSUME NEW a \in Activity
        PROVE  /\ SetItems(d.item[a], S, o) \in Seq(Item)
               /\ SameButOpen(d.item[a], SetItems(d.item[a], S, o))
    <3>1. d.item[a] \in Seq(Item) /\ o \in ItemState
      BY <2>1, RowTypes DEF Open, ItemState
    <3>2. \A i \in DOMAIN d.item[a] : d.item[a][i] \in Item
      BY <3>1
    <3> QED BY <3>1, <3>2, SetItemsType DEF SetItems, SameButOpen, Item
  <2> HIDE DEF e
  <2>4. \A a \in Activity : Tidy(a, e.act[a], e.item[a], e.idx[a])
    BY <2>1, <2>2, <2>3, RowTypes, SameIsTidy DEF TidyRows
  <2> QED BY <1>2, <2>4 DEF TidyRows, e, d
<1>3. CASE Halt
  BY <1>2, <1>3, WriteNext DEF Halt, WorkflowState, Open
<1>4. CASE Resume
  BY <1>2, <1>4, WriteNext DEF Resume, WorkflowState, Open
<1>5. CASE Abort
  <2> DEFINE d   == SetWorkflow(db, "failed")
             m   == Mark(d, Open, "complete")
             act == [a \in Activity |-> IF m.act[a] = "active" THEN "complete" ELSE m.act[a]]
             e   == [m EXCEPT !.act = act]
  <2>1. db' = e
    BY <1>5, WriteNext DEF Abort
  <2>2. d \in Database /\ TidyRows(d)
    BY <1>1, SetWorkflowType, SetWorkflowTidy DEF WorkflowState
  <2> HIDE DEF d
  <2>3. m \in Database /\ m.act = d.act /\ m.idx = d.idx
        /\ \A a \in Activity : m.item[a] = SetItems(d.item[a], Open, "complete")
    <3>1. m \in Database
      BY <2>2, MarkType DEF ItemState
    <3> QED BY <2>2, <3>1 DEF Mark, Database
  <2> HIDE DEF m
  <2>4. e.act = act /\ e.idx = m.idx /\ e.item = m.item
    BY <2>3 DEF Database
  <2>5. \A a \in Activity : act[a] # "active" /\ (act[a] = "dormant" => d.act[a] = "dormant")
    BY <2>3
  <2> HIDE DEF e, act
  <2>6. ASSUME NEW a \in Activity PROVE Tidy(a, e.act[a], e.item[a], e.idx[a])
    <3>1. d.item[a] \in Seq(Item) /\ Tidy(a, d.act[a], d.item[a], d.idx[a])
      BY <2>2, RowTypes DEF TidyRows
    <3>2. /\ e.item[a] \in Seq(Item) /\ DOMAIN e.item[a] = DOMAIN d.item[a]
          /\ OpenIn(e.item[a]) = {}
      BY <2>3, <2>4, <3>1, ClosedItems DEF Settled
    <3>3. e.act[a] # "active" /\ (e.act[a] = "dormant" => d.act[a] = "dormant")
      BY <2>4, <2>5
    <3>4. Tidy(a, e.act[a], e.item[a], d.idx[a])
      BY <3>1, <3>2, <3>3, EndedIsTidy
    <3> QED BY <2>3, <2>4, <3>4
  <2> QED BY <2>1, <2>6 DEF TidyRows
<1>6. CASE Restart
  <2> DEFINE e == [db EXCEPT !.wf = "dormant", !.act = [a \in Activity |-> "dormant"],
                            !.item = [a \in Activity |-> <<>>],
                            !.tok = [a \in Activity |-> <<>>], !.used = {}]
  <2>1. db' = e
    BY <1>6, WriteNext DEF Restart
  <2>2. e.idx = db.idx /\ \A a \in Activity : e.act[a] = "dormant" /\ e.item[a] = <<>>
    BY <1>1 DEF Database
  <2>3. OpenIn(<<>>) = {}
    BY DEF OpenIn
  <2> HIDE DEF e
  <2>4. \A a \in Activity : Tidy(a, e.act[a], e.item[a], e.idx[a])
    BY <2>2, <2>3 DEF TidyRows, Tidy
  <2> QED BY <2>1, <2>4 DEF TidyRows
<1> QED BY <1>3, <1>4, <1>5, <1>6 DEF Administration

(* The invariant under people and administrators.                          *)
THEOREM InboxesAlwaysTidy == ManagedSpec => [](Inv /\ TidyRows(db))
<1> DEFINE Step == People \/ UserStep \/ Administration \/ Compensate
<1>1. Init => Inv /\ TidyRows(db)
  <2>1. Init => \A a \in Activity : db.act[a] = "dormant" /\ db.item[a] = <<>> /\ db.idx[a] = 0
    BY DEF Init, Blank
  <2>2. OpenIn(<<>>) = {}
    BY DEF OpenIn
  <2> QED BY <2>1, <2>2, InitSound DEF TidyRows, Tidy
<1>2. Inv /\ TidyRows(db) /\ [Step]_vars => (Inv /\ TidyRows(db))'
  <2>1. Step => Next
    BY DEF People, Administration, Next, ClientStep, OperatorStep
  <2>2. ASSUME Inv, TidyRows(db), Step PROVE TidyRows(db')
    <3>1. CASE UserStep
      BY <2>2, <3>1 DEF UserStep, UpdateAvailability
    <3>2. CASE UpdateVariable
      <4>1. PICK v \in Valuation : db' = [db EXCEPT !.var = v]
        BY <3>2, WriteNext DEF UpdateVariable
      <4>2. db'.act = db.act /\ db'.item = db.item /\ db'.idx = db.idx
        BY <2>2, <4>1 DEF Inv, TypeOK, Database
      <4> QED BY <2>2, <4>2, TidyAgrees
    <3>3. CASE Compensate
      <4>1. db' = ExecuteCompensation(db) /\ db \in Database
        BY <2>2, <3>3, WriteNext DEF Compensate, Inv, TypeOK
      <4> QED BY <2>2, <4>1, ExecuteCompensationTidy
    <3> QED BY <2>2, <3>1, <3>2, <3>3, StartTidy, InboxTidy, AdministrationTidy DEF People
  <2>3. Inv /\ [Step]_vars => Inv'
    BY <2>1, InvStep
  <2>4. TidyRows(db) /\ UNCHANGED vars => TidyRows(db')
    BY DEF vars
  <2>5. ASSUME Inv, TidyRows(db), [Step]_vars PROVE TidyRows(db)'
    BY <2>2, <2>4, <2>5
  <2> QED BY <2>3, <2>5
<1> QED BY <1>1, <1>2, PTL DEF ManagedSpec

(* Where each activity has one performer at a time, an item someone could  *)
(* still work on belongs to an active activity (engine_service.py          *)
(* 1018-1127, workflow_mgmt_service.py 60-240).                            *)
THEOREM NobodyWorksInVain ==
  (\A a \in Activity : OnePerformer(a)) /\ ManagedSpec => []OpenItemsAreLive
<1>1. (\A a \in Activity : OnePerformer(a)) /\ Inv /\ TidyRows(db) => OpenItemsAreLive
  BY DEF TidyRows, Tidy, OpenItemsAreLive, OpenItems, OpenIn, Items
<1>2. CASE \A a \in Activity : OnePerformer(a)
  <2>1. Inv /\ TidyRows(db) => OpenItemsAreLive
    BY <1>1, <1>2
  <2> QED BY <2>1, InboxesAlwaysTidy, PTL
<1> QED BY <1>2

(* Where nobody sends work back who is not one of several in turn, an      *)
(* active manual activity has an item someone can finish: halts, aborts,   *)
(* cancelled branches and compensations included.                          *)
THEOREM ActiveWorkHasItems == RejectsInTurn /\ ManagedSpec => []ActiveManualHasWork
<1>1. RejectsInTurn /\ Inv /\ TidyRows(db) => ActiveManualHasWork
  BY DEF TidyRows, Tidy, ActiveManualHasWork, OpenItems, OpenIn, Items
<1>2. CASE RejectsInTurn
  <2>1. Inv /\ TidyRows(db) => ActiveManualHasWork
    BY <1>1, <1>2
  <2> QED BY <2>1, InboxesAlwaysTidy, PTL
<1> QED BY <1>2

(* The performers of a sequential activity take turns, and the list's      *)
(* place is theirs, where no reject flow and no compensation starts the    *)
(* activity in the middle of the list.                                     *)
THEOREM PerformersTakeTurns ==
  (\A a \in Activity : PerformedBy(a) = "sequential" => Turned(a)) /\ ManagedSpec
    => []SequentialTurns
<1> DEFINE K == \A a \in Activity : PerformedBy(a) = "sequential" => Turned(a)
<1>1. ASSUME K, Inv, TidyRows(db) PROVE SequentialTurns
  <2>1. SUFFICES ASSUME NEW a \in Activity, PerformedBy(a) = "sequential"
        PROVE  /\ Cardinality(OpenItems(a)) <= 1
               /\ db.act[a] = "active" =>
                    Cardinality({i \in Items(a) : db.item[a][i].state = "complete"}) =
                      db.idx[a] + Cardinality({i \in Items(a) : db.item[a][i].state = "rejected"})
    BY DEF SequentialTurns
  <2>2. OnePerformer(a) /\ Turned(a) /\ Tidy(a, db.act[a], db.item[a], db.idx[a])
    BY <1>1, <2>1 DEF OnePerformer, TidyRows
  <2>3. OpenItems(a) = OpenIn(db.item[a])
    BY DEF OpenItems, OpenIn, Items
  <2>4. \A i, j \in OpenItems(a) : i = j
    BY <2>2, <2>3 DEF Tidy
  <2>5. Cardinality(OpenItems(a)) <= 1
    <3>1. CASE OpenItems(a) = {}
      BY <3>1, FS_EmptySet
    <3>2. CASE OpenItems(a) # {}
      <4>1. PICK i : OpenItems(a) = {i}
        BY <2>4, <3>2
      <4> QED BY <4>1, FS_Singleton
    <3> QED BY <3>1, <3>2
  <2> QED BY <2>2, <2>5 DEF Tidy, StateIn, Items
<1>2. CASE K
  <2>1. Inv /\ TidyRows(db) => SequentialTurns
    BY <1>1, <1>2
  <2> HIDE DEF K
  <2> QED BY <2>1, InboxesAlwaysTidy, PTL
<1> QED BY <1>2

-----------------------------------------------------------------------------
(* Joins.  Tokens are counted, not looked at: to know that an AND-join has *)
(* one of each incoming flow, one must know that no activity completes     *)
(* twice, and that nothing starts the join behind the tokens' back.        *)

AndJoin(a) == Trigger(a) = "and_join" /\ Type(a) # "start"

Begun == {"active", "complete", "error"}

Source(f) == Template.flow[f].source

(* No token of flow f is waiting.                                          *)
Unplaced(d, f) == \A i \in DOMAIN d.tok[Target(f)] : d.tok[Target(f)][i] # f

(* The waiting tokens of an activity are of different flows, whose sources *)
(* have completed.                                                         *)
Placed(d) ==
  \A a \in Activity : \A i \in DOMAIN d.tok[a] :
    /\ d.tok[a][i] \in Incoming(a)
    /\ d.act[Source(d.tok[a][i])] = "complete"
    /\ \A j \in DOMAIN d.tok[a] : d.tok[a][j] = d.tok[a][i] => j = i

(* An AND-join that has begun has consumed a token of each flow.           *)
Gathered(d) ==
  \A a \in Activity : AndJoin(a) /\ d.act[a] \in Begun => Incoming(a) \subseteq d.used

(* Nobody has work for a dormant activity.                                 *)
Idle(d) == \A a \in Activity : d.act[a] = "dormant" => d.item[a] = <<>>

JoinRows(d) == Placed(d) /\ Gathered(d) /\ Idle(d)

(* The rows d become the rows e without a new token, and no AND-join       *)
(* begins short of its tokens.                                             *)
Onward(d, e) ==
  /\ d.used \subseteq e.used
  /\ \A a \in Activity :
       /\ e.tok[a] = d.tok[a] \/ e.tok[a] = <<>>
       /\ d.act[a] = "complete" => e.act[a] = "complete"
       /\ e.act[a] = "dormant" =>
            d.act[a] = "dormant" /\ (d.item[a] = <<>> => e.item[a] = <<>>)
       /\ AndJoin(a) /\ e.act[a] \in Begun =>
            d.act[a] \in Begun \/ Incoming(a) \subseteq e.used

(* Rows that agree but for states of items go onward,                      *)
LEMMA OnwardSame ==
  ASSUME NEW d, NEW e, e.act = d.act, e.tok = d.tok, e.used = d.used,
         \A a \in Activity : d.item[a] = <<>> => e.item[a] = <<>>
  PROVE  Onward(d, e)
BY DEF Onward

(* and so does what goes onward twice.                                     *)
LEMMA OnwardChain ==
  ASSUME NEW c, NEW d, NEW e, Onward(c, d), Onward(d, e)
  PROVE  Onward(c, e)
<1>1. c.used \subseteq e.used
  BY DEF Onward
<1>2. ASSUME NEW a \in Activity
      PROVE  /\ e.tok[a] = c.tok[a] \/ e.tok[a] = <<>>
             /\ c.act[a] = "complete" => e.act[a] = "complete"
             /\ e.act[a] = "dormant" =>
                  c.act[a] = "dormant" /\ (c.item[a] = <<>> => e.item[a] = <<>>)
             /\ AndJoin(a) /\ e.act[a] \in Begun =>
                  c.act[a] \in Begun \/ Incoming(a) \subseteq e.used
  BY DEF Onward
<1> QED BY <1>1, <1>2 DEF Onward

(* What goes onward keeps the joins in order, and places no token.         *)
LEMMA OnwardJoins ==
  ASSUME NEW d, NEW e, Onward(d, e)
  PROVE  /\ JoinRows(d) => JoinRows(e)
         /\ \A f \in Flow : Unplaced(d, f) => Unplaced(e, f)
<1>1. ASSUME Placed(d) PROVE Placed(e)
  <2>1. SUFFICES ASSUME NEW a \in Activity, NEW i \in DOMAIN e.tok[a]
        PROVE  /\ e.tok[a][i] \in Incoming(a)
               /\ e.act[Source(e.tok[a][i])] = "complete"
               /\ \A j \in DOMAIN e.tok[a] : e.tok[a][j] = e.tok[a][i] => j = i
    BY DEF Placed
  <2>2. e.tok[a] = d.tok[a]
    BY <2>1 DEF Onward
  <2>3. e.tok[a][i] \in Incoming(a) /\ d.act[Source(e.tok[a][i])] = "complete"
    BY <1>1, <2>1, <2>2 DEF Placed
  <2>4. Source(e.tok[a][i]) \in Activity
    BY <2>3, TemplateTypes DEF Incoming, Source
  <2> QED BY <1>1, <2>1, <2>2, <2>3, <2>4 DEF Placed, Onward
<1>2. Gathered(d) => Gathered(e)
  BY DEF Gathered, Onward
<1>3. Idle(d) => Idle(e)
  BY DEF Idle, Onward
<1>4. \A f \in Flow : Unplaced(d, f) => Unplaced(e, f)
  BY TemplateTypes DEF Unplaced, Onward
<1> QED BY <1>1, <1>2, <1>3, <1>4 DEF JoinRows

(* As many tokens as an AND-join has flows are tokens of all of them.      *)
LEMMA AllTokensThere ==
  ASSUME NEW d \in Database, NEW a \in Activity, Placed(d), Trigger(a) = "and_join",
         Len(d.tok[a]) >= Needed(a)
  PROVE  Incoming(a) \subseteq {d.tok[a][i] : i \in DOMAIN d.tok[a]}
<1> DEFINE s == d.tok[a]
           n == Len(s)
<1>1. s \in Seq(Flow) /\ n \in Nat /\ DOMAIN s = 1..n
  BY DEF Database
<1>2. IsFiniteSet(Incoming(a)) /\ Cardinality(Incoming(a)) \in Nat
  <2>1. Incoming(a) \in SUBSET Flow /\ IsFiniteSet(Flow)
    BY TemplateTypes, FS_Interval DEF Incoming
  <2> QED BY <2>1, FS_Subset, FS_CardinalityType
<1>3. s \in Injection(1..n, Incoming(a))
  <2>1. \A i \in 1..n : s[i] \in Incoming(a)
    BY <1>1 DEF Placed
  <2>2. \A i, j \in 1..n : s[i] = s[j] => i = j
    BY <1>1 DEF Placed
  <2>3. s \in [1..n -> Incoming(a)]
    BY <1>1, <2>1
  <2> HIDE DEF s, n
  <2> QED BY <2>2, <2>3 DEF Injection, IsInjective
<1>4. n >= Cardinality(Incoming(a))
  BY DEF Needed
<1>5. Cardinality(1..n) = n
  BY <1>1, FS_Interval
<1> HIDE DEF s, n
<1>6. s \in Surjection(1..n, Incoming(a))
  <2>1. n <= Cardinality(Incoming(a)) /\ (n = Cardinality(Incoming(a)) <=> s \in Surjection(1..n, Incoming(a)))
    BY <1>2, <1>3, <1>5, FS_Injection
  <2> QED BY <1>1, <1>2, <1>4, <2>1
<1>7. \A f \in Incoming(a) : \E i \in 1..n : s[i] = f
  BY <1>6 DEF Surjection
<1> QED BY <1>1, <1>7 DEF s

(* Cancelling branches goes onward.                                        *)
LEMMA CancelOnward ==
  ASSUME NEW d \in Database, NEW a \in Activity
  PROVE  Onward(d, CancelRemainingBranches(d, a))
<1> DEFINE e == CancelRemainingBranches(d, a)
<1>1. /\ e.tok = d.tok /\ e.used = d.used
      /\ \A b \in Activity :
           \/ e.act[b] = d.act[b] /\ e.item[b] = d.item[b]
           \/ e.act[b] = "cancelled" /\ d.act[b] \in {"dormant", "active"}
  BY DEF CancelRemainingBranches, Database
<1> HIDE DEF e
<1>2. Onward(d, e)
  BY <1>1 DEF Onward, Begun
<1> QED BY <1>2 DEF e

(* So does the firing of a join that has its tokens.                       *)
LEMMA JoinOnward ==
  ASSUME NEW d \in Database, NEW a \in Activity, d.act[a] = "dormant",
         AndJoin(a) => Incoming(a) \subseteq {d.tok[a][i] : i \in DOMAIN d.tok[a]}
  PROVE  Onward(d, Join(d, a))
<1> DEFINE c == Consume(d, a)
<1>1. c \in Database
  BY ConsumeType
<1>2. /\ c.act[a] = "active" /\ c.tok[a] = <<>> /\ c.item = d.item
      /\ c.used = d.used \cup {d.tok[a][i] : i \in DOMAIN d.tok[a]}
      /\ \A b \in Activity : b # a => c.act[b] = d.act[b] /\ c.tok[b] = d.tok[b]
  BY DEF Consume, Database
<1> HIDE DEF c
<1>3. Onward(d, c)
  <2>1. AndJoin(a) => Incoming(a) \subseteq c.used
    BY <1>2
  <2>2. d.used \subseteq c.used
    BY <1>2
  <2> QED BY <1>2, <2>1, <2>2 DEF Onward
<1> QED BY <1>1, <1>3, CancelOnward, OnwardChain DEF Join, c

(* So does the rest of an activation.                                      *)
LEMMA ActivateOnward ==
  ASSUME NEW t \in Transaction, NEW a \in Activity, t.db.act[a] = "dormant",
         AndJoin(a) => Incoming(a) \subseteq {t.db.tok[a][i] : i \in DOMAIN t.db.tok[a]}
  PROVE  LET u == Activate(t, a)
         IN  /\ Onward(t.db, u.db)
             /\ u.db.act[a] # "dormant"
             /\ \/ u.queue = t.queue
                \/ u.queue = Append(t.queue, a) /\ u.db.act[a] = "complete"
<1> DEFINE j == Join(t.db, a)
           u == Activate(t, a)
<1>1. t.db \in Database
  BY DEF Transaction
<1>2. j \in Database /\ Onward(t.db, j) /\ j.act[a] = "active"
  BY <1>1, JoinType, JoinOnward, JoinActivates
<1> HIDE DEF j
<1>3. SUFFICES /\ u.db.tok = j.tok /\ u.db.used = j.used /\ u.db.act[a] \in Begun
               /\ \A b \in Activity : b # a => u.db.act[b] = j.act[b] /\ u.db.item[b] = j.item[b]
               /\ \/ u.queue = t.queue
                  \/ u.queue = Append(t.queue, a) /\ u.db.act[a] = "complete"
  <2> HIDE DEF u
  <2>1. ASSUME /\ u.db.tok = j.tok /\ u.db.used = j.used /\ u.db.act[a] \in Begun
               /\ \A b \in Activity : b # a => u.db.act[b] = j.act[b] /\ u.db.item[b] = j.item[b]
        PROVE  Onward(j, u.db) /\ u.db.act[a] # "dormant"
    BY <1>2, <2>1 DEF Onward, Begun
  <2> QED BY <1>2, <1>3, <2>1, OnwardChain DEF u
<1>4. CASE Type(a) \in {"start", "end"}
  BY <1>1, <1>2, <1>4 DEF Activate, Transaction, Database, Begun, j
<1>5. CASE Type(a) = "manual"
  <2> DEFINE q == ManualItems(t, a)
             m == IF PerformedBy(a) = "sequential" /\ Performers(a) # <<>> THEN 0 ELSE j.idx[a]
  <2>1. u.db = [j EXCEPT !.item[a] = @ \o q, !.idx[a] = m] /\ u.queue = t.queue
    BY <1>5 DEF Activate, ActivateManual, Transaction, j
  <2> HIDE DEF q, m, u
  <2> QED BY <1>2, <2>1 DEF Database, Begun
<1>6. CASE Type(a) = "sub_workflow"
  <2> DEFINE joined == [t EXCEPT !.db = j]
             failed == [joined EXCEPT !.db.act[a] = "error"]
             begun  == [joined EXCEPT !.db.child[a] = @ + 1]
  <2>1. u \in {failed, Raise(joined), begun}
    BY <1>6, DepthAssumption DEF Activate, ActivateSubWorkflow, j
  <2> DEFINE Fine(x) ==
        /\ x.db.item = j.item /\ x.db.tok = j.tok /\ x.db.used = j.used /\ x.queue = t.queue
        /\ x.db.act[a] \in Begun /\ \A b \in Activity : b # a => x.db.act[b] = j.act[b]
  <2>2. joined.db = j /\ joined \in Transaction /\ joined.queue = t.queue
    BY <1>2 DEF Transaction
  <2> HIDE DEF joined
  <2>3. Fine(failed)
    BY <1>2, <2>2 DEF Transaction, Database, Begun
  <2>4. Fine(Raise(joined))
    BY <1>2, <2>2 DEF Transaction, Raise, Begun
  <2>5. Fine(begun)
    BY <1>2, <2>2 DEF Transaction, Database, Begun
  <2> HIDE DEF failed, begun, u
  <2> QED BY <2>1, <2>3, <2>4, <2>5
<1>7. CASE Type(a) \in {"auto", "event"}
  BY <1>2, <1>7 DEF Activate, Transaction, Begun, j
<1> QED BY <1>4, <1>5, <1>6, <1>7, TemplateTypes DEF ActivityType

-----------------------------------------------------------------------------
(* The loop: a token is placed for a flow only once, because the activity  *)
(* it comes from is complete and stays so.                                 *)

(* No complete activity is reopened and no begun one forgotten.            *)
Steady(d, e) ==
  \A a \in Activity : /\ d.act[a] = "complete" => e.act[a] = "complete"
                      /\ e.act[a] = "dormant" => d.act[a] = "dormant"

(* A token of a flow whose source has just completed keeps the joins.      *)
LEMMA TokenJoins ==
  ASSUME NEW d \in Database, JoinRows(d), NEW f \in Flow, f \in Incoming(Target(f)),
         d.act[Source(f)] = "complete", Unplaced(d, f),
         NEW e, e.act = d.act, e.item = d.item, e.used = d.used,
         e.tok = [d.tok EXCEPT ![Target(f)] = Append(@, f)]
  PROVE  JoinRows(e) /\ \A g \in Flow : g # f /\ Unplaced(d, g) => Unplaced(e, g)
<1> DEFINE a == Target(f)
<1>1. a \in Activity /\ d.tok[a] \in Seq(Flow) /\ d.tok \in [Activity -> Seq(Flow)]
  BY TemplateTypes DEF Database
<1>2. /\ e.tok[a] = Append(d.tok[a], f)
      /\ \A b \in Activity : b # a => e.tok[b] = d.tok[b]
  BY <1>1
<1>3. /\ DOMAIN e.tok[a] = 1..(Len(d.tok[a]) + 1)
      /\ e.tok[a][Len(d.tok[a]) + 1] = f
      /\ \A i \in DOMAIN d.tok[a] : e.tok[a][i] = d.tok[a][i]
      /\ DOMAIN d.tok[a] = 1..Len(d.tok[a]) /\ Len(d.tok[a]) \in Nat
  BY <1>1, <1>2
<1>4. \A i \in DOMAIN e.tok[a] : i \in DOMAIN d.tok[a] \/ i = Len(d.tok[a]) + 1
  BY <1>3
<1>5. \A i \in DOMAIN d.tok[a] : d.tok[a][i] # f
  BY DEF Unplaced
<1>6. ASSUME NEW g \in Flow, g # f, Unplaced(d, g) PROVE Unplaced(e, g)
  <2>1. CASE Target(g) = a
    BY <1>3, <1>4, <1>6, <2>1 DEF Unplaced
  <2>2. CASE Target(g) # a
    BY <1>2, <1>6, <2>2, TemplateTypes DEF Unplaced
  <2> QED BY <2>1, <2>2
<1>7. Placed(e)
  <2>1. SUFFICES ASSUME NEW b \in Activity, NEW i \in DOMAIN e.tok[b]
        PROVE  /\ e.tok[b][i] \in Incoming(b)
               /\ e.act[Source(e.tok[b][i])] = "complete"
               /\ \A j \in DOMAIN e.tok[b] : e.tok[b][j] = e.tok[b][i] => j = i
    BY DEF Placed
  <2>2. CASE b # a
    BY <1>2, <2>1, <2>2 DEF Placed, JoinRows
  <2>3. CASE b = a /\ i \in DOMAIN d.tok[a]
    <3>1. /\ e.tok[b][i] = d.tok[a][i] /\ d.tok[a][i] \in Incoming(a)
          /\ d.act[Source(d.tok[a][i])] = "complete"
          /\ \A j \in DOMAIN d.tok[a] : d.tok[a][j] = d.tok[a][i] => j = i
      BY <1>1, <1>3, <2>3 DEF Placed, JoinRows
    <3>2. ASSUME NEW j \in DOMAIN e.tok[a], e.tok[a][j] = e.tok[a][i] PROVE j = i
      <4>1. CASE j \in DOMAIN d.tok[a]
        BY <1>3, <2>3, <3>1, <3>2, <4>1
      <4>2. CASE j = Len(d.tok[a]) + 1
        BY <1>3, <1>5, <2>3, <3>2, <4>2
      <4> QED BY <1>4, <4>1, <4>2
    <3> QED BY <2>3, <3>1, <3>2
  <2>4. CASE b = a /\ i = Len(d.tok[a]) + 1
    <3>1. e.tok[b][i] = f
      BY <1>3, <2>4
    <3>2. ASSUME NEW j \in DOMAIN e.tok[a], e.tok[a][j] = f PROVE j = i
      <4>1. CASE j \in DOMAIN d.tok[a]
        BY <1>3, <1>5, <3>2, <4>1
      <4> QED BY <1>4, <2>4, <4>1
    <3> QED BY <2>4, <3>1, <3>2
  <2> QED BY <1>4, <2>2, <2>3, <2>4
<1>8. Gathered(e) /\ Idle(e)
  BY DEF JoinRows, Gathered, Idle
<1> QED BY <1>6, <1>7, <1>8 DEF JoinRows

(* Placing a token, firing the join included.                              *)
LEMMA FireFlowJoins ==
  ASSUME NEW t \in Transaction, NEW f \in Flow, JoinRows(t.db), f \in Incoming(Target(f)),
         t.db.act[Source(f)] = "complete", Unplaced(t.db, f)
  PROVE  LET u == FireFlow(t, f)
             a == Target(f)
         IN  /\ JoinRows(u.db) /\ Steady(t.db, u.db)
             /\ \A g \in Flow : g # f /\ Unplaced(t.db, g) => Unplaced(u.db, g)
             /\ \/ u.queue = t.queue
                \/ /\ u.queue = Append(t.queue, a)
                   /\ t.db.act[a] = "dormant" /\ u.db.act[a] = "complete"
<1> DEFINE a      == Target(f)
           tok    == [t.db.tok EXCEPT ![a] = Append(@, f)]
           placed == [t EXCEPT !.db = [t.db EXCEPT !.tok = tok]]
           timed  == [placed EXCEPT !.db.clock = @ \cup {a}]
           u      == FireFlow(t, f)
<1>1. t.db \in Database /\ a \in Activity
  BY TemplateTypes DEF Transaction
<1>2. placed \in Transaction /\ placed.db = [t.db EXCEPT !.tok = tok] /\ placed.queue = t.queue
  <2>1. tok \in [Activity -> Seq(Flow)]
    BY <1>1 DEF Database
  <2> HIDE DEF tok
  <2>2. [t.db EXCEPT !.tok = tok] \in Database
    BY <1>1, <2>1 DEF Database
  <2>3. placed.queue = t.queue
    BY DEF Transaction
  <2> QED BY <2>2, <2>3, WithDatabase
<1>3. \/ u \in {placed, timed}
      \/ /\ t.db.act[a] = "dormant" /\ u = Activate(placed, a)
         /\ Len(placed.db.tok[a]) >= Needed(a)
  <2>1. placed = [t EXCEPT !.db.tok[a] = Append(@, f)]
    BY <1>1 DEF Transaction, Database
  <2> HIDE DEF placed
  <2> QED BY <2>1 DEF FireFlow
<1>4. /\ placed.db.act = t.db.act /\ placed.db.item = t.db.item /\ placed.db.used = t.db.used
      /\ placed.db.tok = tok
      /\ timed.db.act = t.db.act /\ timed.db.item = t.db.item /\ timed.db.used = t.db.used
      /\ timed.db.tok = tok /\ timed.queue = t.queue
  <2> HIDE DEF tok
  <2> QED BY <1>1, <1>2 DEF Database, Transaction
<1>5. ASSUME NEW e, e.act = t.db.act, e.item = t.db.item, e.used = t.db.used, e.tok = tok
      PROVE  /\ JoinRows(e) /\ Steady(t.db, e)
             /\ \A g \in Flow : g # f /\ Unplaced(t.db, g) => Unplaced(e, g)
  BY <1>1, <1>5, TokenJoins DEF Steady
<1> HIDE DEF tok, placed, timed, u
<1>6. CASE u \in {placed, timed}
  BY <1>2, <1>4, <1>5, <1>6 DEF u, a
<1>7. CASE t.db.act[a] = "dormant" /\ u = Activate(placed, a) /\ Len(placed.db.tok[a]) >= Needed(a)
  <2>1. /\ JoinRows(placed.db) /\ Steady(t.db, placed.db)
        /\ \A g \in Flow : g # f /\ Unplaced(t.db, g) => Unplaced(placed.db, g)
    BY <1>4, <1>5
  <2>2. placed.db \in Database /\ placed.db.act[a] = "dormant"
    BY <1>2, <1>4, <1>7 DEF Transaction
  <2>3. AndJoin(a) => Incoming(a) \subseteq {placed.db.tok[a][i] : i \in DOMAIN placed.db.tok[a]}
    BY <1>1, <1>7, <2>1, <2>2, AllTokensThere DEF AndJoin, JoinRows
  <2>4. /\ Onward(placed.db, u.db)
        /\ u.queue = placed.queue
           \/ (u.queue = Append(placed.queue, a) /\ u.db.act[a] = "complete")
    BY <1>1, <1>2, <1>7, <2>2, <2>3, ActivateOnward
  <2>5. JoinRows(u.db) /\ \A g \in Flow : Unplaced(placed.db, g) => Unplaced(u.db, g)
    BY <2>1, <2>4, OnwardJoins
  <2>6. Steady(t.db, u.db)
    BY <2>1, <2>4 DEF Steady, Onward
  <2> QED BY <1>2, <1>7, <2>1, <2>4, <2>5, <2>6 DEF u, a
<1> QED BY <1>3, <1>6, <1>7

(* The activities of the queue are complete, each once, and have placed no *)
(* token.                                                                  *)
Pending(t) ==
  \A i \in DOMAIN t.queue :
    /\ t.db.act[t.queue[i]] = "complete"
    /\ \A f \in FlowsFrom(t.queue[i], "normal") : Unplaced(t.db, f)
    /\ \A j \in DOMAIN t.queue : t.queue[j] = t.queue[i] => j = i

(* Transactions in the loop; the activities of L have begun.               *)
Looping(L) ==
  {t \in Sound : /\ JoinRows(t.db) /\ Pending(t)
                 /\ \A b \in L \cap Activity : t.db.act[b] # "dormant"}

(* The loop is at flow n + 1 of the activity a that left the queue.        *)
Visiting(L, a, n) ==
  {t \in Looping(L) :
     /\ t.db.act[a] = "complete"
     /\ \A i \in DOMAIN t.queue : t.queue[i] # a
     /\ \A f \in FlowsFrom(a, "normal") : f > n => Unplaced(t.db, f)}

(* What a transaction in the loop is.                                      *)
LEMMA LoopingRead ==
  ASSUME NEW L, NEW t \in Looping(L)
  PROVE  /\ t \in Sound /\ t \in Transaction /\ t.db \in Database /\ t.queue \in Seq(Activity)
         /\ JoinRows(t.db) /\ Pending(t)
         /\ \A b \in L \cap Activity : t.db.act[b] # "dormant"
BY DEF Looping, Sound, Transaction

(* One more flow.                                                          *)
LEMMA VisitFlow ==
  ASSUME NEW L, NEW a \in Activity, NEW f \in Flow, NEW t \in Visiting(L, a, f - 1),
         f \in FlowsFrom(a, "normal")
  PROVE  FireFlow(t, f) \in Visiting(L, a, f)
<1> DEFINE u == FireFlow(t, f)
           b == Target(f)
<1>1. /\ t \in Sound /\ t \in Transaction /\ t.db \in Database /\ t.queue \in Seq(Activity)
      /\ JoinRows(t.db) /\ Pending(t)
      /\ \A c \in L \cap Activity : t.db.act[c] # "dormant"
  BY LoopingRead DEF Visiting
<1>2. /\ t.db.act[a] = "complete"
      /\ \A i \in DOMAIN t.queue : t.queue[i] # a
      /\ \A g \in FlowsFrom(a, "normal") : g > f - 1 => Unplaced(t.db, g)
  BY DEF Visiting
<1>3. Flow \subseteq Nat /\ b \in Activity /\ f > f - 1
  BY TemplateTypes
<1>4. Source(f) = a /\ f \in Incoming(b) /\ Unplaced(t.db, f)
  BY <1>2, <1>3 DEF FlowsFrom, Source, Incoming
<1>5. /\ JoinRows(u.db) /\ Steady(t.db, u.db)
      /\ \A g \in Flow : g # f /\ Unplaced(t.db, g) => Unplaced(u.db, g)
      /\ \/ u.queue = t.queue
         \/ /\ u.queue = Append(t.queue, b)
            /\ t.db.act[b] = "dormant" /\ u.db.act[b] = "complete"
  BY <1>1, <1>2, <1>4, FireFlowJoins
<1>6. u \in Sound
  BY <1>1, FireFlowSound
<1> HIDE DEF u, b
<1>7. \A c \in Activity : c # a => \A g \in FlowsFrom(c, "normal") : g # f /\ g \in Flow
  BY <1>4 DEF FlowsFrom, Source
<1>8. ASSUME t.db.act[b] = "dormant", NEW g \in FlowsFrom(b, "normal") PROVE Unplaced(t.db, g)
  <2>1. g \in Flow /\ Source(g) = b /\ Target(g) \in Activity
    BY TemplateTypes DEF FlowsFrom, Source
  <2>2. \A i \in DOMAIN t.db.tok[Target(g)] : t.db.act[Source(t.db.tok[Target(g)][i])] = "complete"
    BY <1>1, <2>1 DEF JoinRows, Placed
  <2> QED BY <1>8, <2>1, <2>2 DEF Unplaced
<1>9. ASSUME NEW i \in DOMAIN t.queue
      PROVE  /\ u.db.act[t.queue[i]] = "complete" /\ t.queue[i] # a
             /\ \A g \in FlowsFrom(t.queue[i], "normal") : Unplaced(u.db, g)
             /\ \A j \in DOMAIN t.queue : t.queue[j] = t.queue[i] => j = i
             /\ t.db.act[t.queue[i]] = "complete"
  <2>1. /\ t.queue[i] \in Activity /\ t.queue[i] # a /\ t.db.act[t.queue[i]] = "complete"
        /\ \A g \in FlowsFrom(t.queue[i], "normal") : Unplaced(t.db, g)
        /\ \A j \in DOMAIN t.queue : t.queue[j] = t.queue[i] => j = i
    BY <1>1, <1>2 DEF Pending
  <2>2. \A g \in FlowsFrom(t.queue[i], "normal") : Unplaced(u.db, g)
    BY <1>5, <1>7, <2>1
  <2> QED BY <1>5, <2>1, <2>2 DEF Steady
<1>10. Pending(u) /\ \A i \in DOMAIN u.queue : u.queue[i] # a
  <2>1. CASE u.queue = t.queue
    BY <1>9, <2>1 DEF Pending
  <2>2. CASE /\ u.queue = Append(t.queue, b)
             /\ t.db.act[b] = "dormant" /\ u.db.act[b] = "complete"
    <3> DEFINE l == Len(t.queue)
    <3>1. /\ DOMAIN u.queue = 1..(l + 1) /\ l \in Nat /\ DOMAIN t.queue = 1..l
          /\ \A i \in 1..l : u.queue[i] = t.queue[i]
          /\ u.queue[l + 1] = b
      BY <1>1, <1>3, <2>2
    <3> HIDE DEF l
    <3>2. b # a /\ \A i \in 1..l : u.queue[i] # b
      BY <1>2, <1>9, <2>2, <3>1
    <3>3. \A g \in FlowsFrom(b, "normal") : Unplaced(u.db, g)
      BY <1>3, <1>5, <1>7, <1>8, <2>2, <3>2
    <3>4. \A i \in 1..(l + 1) : i \in 1..l \/ i = l + 1
      BY <3>1
    <3>5. ASSUME NEW i \in DOMAIN u.queue
          PROVE  /\ u.db.act[u.queue[i]] = "complete" /\ u.queue[i] # a
                 /\ \A g \in FlowsFrom(u.queue[i], "normal") : Unplaced(u.db, g)
                 /\ \A j \in DOMAIN u.queue : u.queue[j] = u.queue[i] => j = i
      <4>1. CASE i \in 1..l
        <5>1. /\ u.db.act[u.queue[i]] = "complete" /\ u.queue[i] # a
              /\ \A g \in FlowsFrom(u.queue[i], "normal") : Unplaced(u.db, g)
          BY <1>9, <3>1, <4>1
        <5>2. ASSUME NEW j \in DOMAIN u.queue, u.queue[j] = u.queue[i] PROVE j = i
          <6>1. j \in 1..l
            BY <3>1, <3>2, <3>4, <4>1, <5>2
          <6> QED BY <1>9, <3>1, <4>1, <5>2, <6>1
        <5> QED BY <5>1, <5>2
      <4>2. CASE i = l + 1
        BY <2>2, <3>1, <3>2, <3>3, <3>4, <4>2
      <4> QED BY <3>1, <3>4, <4>1, <4>2
    <3> QED BY <3>5 DEF Pending
  <2> QED BY <1>5, <2>1, <2>2
<1>11. ASSUME NEW g \in FlowsFrom(a, "normal"), g > f PROVE Unplaced(u.db, g)
  <2>1. g \in Flow /\ g \in Nat /\ f \in Nat
    BY <1>3 DEF FlowsFrom
  <2>2. g > f - 1 /\ g # f
    BY <1>11, <2>1
  <2> QED BY <1>2, <1>5, <2>1, <2>2
<1>12. u.db.act[a] = "complete" /\ \A c \in L \cap Activity : u.db.act[c] # "dormant"
  BY <1>1, <1>2, <1>5 DEF Steady
<1> QED BY <1>5, <1>6, <1>10, <1>11, <1>12 DEF Visiting, Looping, u

(* All of them.                                                            *)
LEMMA FireFlowsJoins ==
  ASSUME NEW L, NEW a \in Activity, NEW t \in Visiting(L, a, 0),
         NEW flows \in SUBSET FlowsFrom(a, "normal")
  PROVE  FireFlows(t, flows) \in Looping(L)
<1> DEFINE F == [f \in Flow |-> [x \in Transaction |->
                    IF x.ok /\ f \in flows THEN FireFlow(x, f) ELSE x]]
           n == Len(Template.flow)
           S == [i \in 0..n |-> Visiting(L, a, i)]
<1>1. n \in Nat /\ Flow = 1..n
  BY TemplateTypes
<1>2. ASSUME NEW f \in Flow, NEW x \in Visiting(L, a, f - 1) PROVE F[f][x] \in Visiting(L, a, f)
  <2>1. x \in Transaction /\ x \in Looping(L)
    BY LoopingRead DEF Visiting
  <2>2. F[f][x] = IF x.ok /\ f \in flows THEN FireFlow(x, f) ELSE x
    BY <2>1
  <2>3. x \in Visiting(L, a, f)
    <3>1. f \in Nat /\ FlowsFrom(a, "normal") \subseteq Nat
      BY <1>1 DEF FlowsFrom
    <3>2. \A g \in FlowsFrom(a, "normal") : g > f => g > f - 1
      BY <3>1
    <3> QED BY <3>2 DEF Visiting
  <2> HIDE DEF F
  <2> QED BY <2>2, <2>3, VisitFlow
<1>3. \A i \in 1..n : \A x \in S[i - 1] : F[i][x] \in S[i]
  <2>1. SUFFICES ASSUME NEW i \in 1..n, NEW x \in S[i - 1] PROVE F[i][x] \in S[i]
    OBVIOUS
  <2>2. i - 1 \in 0..n /\ i \in 0..n /\ i \in Flow
    BY <1>1
  <2> HIDE DEF F, n
  <2> QED BY <1>2, <2>1, <2>2
<1>4. t \in S[0]
  BY <1>1
<1>5. Iterate(F, t, n) \in S[n]
  <2> HIDE DEF F, n, S
  <2> QED BY <1>1, <1>3, <1>4, IterateStages
<1>6. S[n] \subseteq Looping(L)
  BY <1>1 DEF Visiting
<1> QED BY <1>5, <1>6 DEF FireFlows

(* The flows that fire are flows of the activity.                          *)
LEMMA FiringFlowsFrom ==
  ASSUME NEW t, NEW a \in Activity
  PROVE  FiringFlows(t, a) \subseteq FlowsFrom(a, "normal")
BY TemplateTypes DEF FiringFlows, RoutingType

(* Rows that go onward leave the loop in order.                            *)
LEMMA LoopingOnward ==
  ASSUME NEW L, NEW t \in Looping(L), NEW d \in Database, NoHarm(t.db, d), Onward(t.db, d)
  PROVE  [t EXCEPT !.db = d] \in Looping(L)
<1> DEFINE u == [t EXCEPT !.db = d]
<1>1. /\ t \in Sound /\ t \in Transaction /\ t.queue \in Seq(Activity)
      /\ JoinRows(t.db) /\ Pending(t)
      /\ \A b \in L \cap Activity : t.db.act[b] # "dormant"
  BY LoopingRead
<1>2. u \in Sound /\ u.db = d /\ u.queue = t.queue
  BY <1>1, SoundRows, WithDatabase DEF Transaction
<1> HIDE DEF u
<1>3. JoinRows(d) /\ \A f \in Flow : Unplaced(t.db, f) => Unplaced(d, f)
  BY <1>1, OnwardJoins
<1>4. Pending(u)
  <2>1. SUFFICES ASSUME NEW i \in DOMAIN t.queue
        PROVE  /\ d.act[t.queue[i]] = "complete"
               /\ \A f \in FlowsFrom(t.queue[i], "normal") : Unplaced(d, f)
               /\ \A j \in DOMAIN t.queue : t.queue[j] = t.queue[i] => j = i
    BY <1>2 DEF Pending
  <2>2. t.queue[i] \in Activity
    BY <1>1
  <2> QED BY <1>1, <1>3, <2>1, <2>2 DEF Pending, Onward, FlowsFrom
<1> QED BY <1>1, <1>2, <1>3, <1>4 DEF Looping, Onward, u

(* A round of the loop.                                                    *)
LEMMA RoundJoins ==
  ASSUME NEW L, NEW t \in Looping(L)
  PROVE  Round(t) \in Looping(L)
<1> DEFINE a    == Head(t.queue)
           rest == [t EXCEPT !.queue = Tail(@), !.path = ""]
<1>1. /\ t \in Sound /\ t \in Transaction /\ t.db \in Database /\ t.queue \in Seq(Activity)
      /\ JoinRows(t.db) /\ Pending(t)
      /\ \A b \in L \cap Activity : t.db.act[b] # "dormant"
  BY LoopingRead
<1>2. SUFFICES ASSUME t.queue # <<>> PROVE ProcessHead(t) \in Looping(L)
  BY DEF Round
<1>3. /\ a \in Activity /\ a = t.queue[1] /\ 1 \in DOMAIN t.queue
      /\ Tail(t.queue) \in Seq(Activity)
      /\ \A i \in DOMAIN Tail(t.queue) : i + 1 \in DOMAIN t.queue /\ Tail(t.queue)[i] = t.queue[i + 1]
                                         /\ i \in Nat /\ i # 0
  BY <1>1, <1>2
<1>4. rest \in Sound /\ rest.db = t.db /\ rest.queue = Tail(t.queue)
  <2> DEFINE queue == Tail(t.queue)
  <2>1. "" \in Label
    BY DEF Label
  <2>2. rest = [t EXCEPT !.queue = queue, !.path = ""] /\ queue \in Seq(Activity)
    BY <1>3
  <2> HIDE DEF queue, rest
  <2>3. rest \in Transaction /\ rest.db = t.db /\ rest.queue = queue
    BY <1>1, <2>1, <2>2 DEF Transaction
  <2> QED BY <1>1, <2>3 DEF Sound, queue
<1>5. \/ ProcessHead(t) = FireFlows(rest, FiringFlows(t, a))
      \/ ProcessHead(t) = Raise(rest)
      \/ ProcessHead(t) = Conclude(rest, a)
  BY DEF ProcessHead
<1> HIDE DEF rest, a
<1>6. Pending(rest)
  <2>1. SUFFICES ASSUME NEW i \in DOMAIN rest.queue
        PROVE  /\ t.db.act[rest.queue[i]] = "complete"
               /\ \A f \in FlowsFrom(rest.queue[i], "normal") : Unplaced(t.db, f)
               /\ \A j \in DOMAIN rest.queue : rest.queue[j] = rest.queue[i] => j = i
    BY <1>4 DEF Pending
  <2>2. i + 1 \in DOMAIN t.queue /\ rest.queue[i] = t.queue[i + 1] /\ i \in Nat
    BY <1>3, <1>4, <2>1
  <2>3. ASSUME NEW j \in DOMAIN rest.queue, rest.queue[j] = rest.queue[i] PROVE j = i
    <3>1. j + 1 \in DOMAIN t.queue /\ rest.queue[j] = t.queue[j + 1] /\ j \in Nat
      BY <1>3, <1>4, <2>3
    <3>2. j + 1 = i + 1
      BY <1>1, <2>2, <2>3, <3>1 DEF Pending
    <3> QED BY <2>2, <3>1, <3>2
  <2> QED BY <1>1, <2>2, <2>3 DEF Pending
<1>7. rest \in Looping(L)
  BY <1>1, <1>4, <1>6 DEF Looping
<1>8. rest \in Visiting(L, a, 0)
  <2>1. t.db.act[a] = "complete" /\ \A f \in FlowsFrom(a, "normal") : Unplaced(t.db, f)
    BY <1>1, <1>3 DEF Pending
  <2>2. ASSUME NEW i \in DOMAIN rest.queue PROVE rest.queue[i] # a
    <3>1. i + 1 \in DOMAIN t.queue /\ rest.queue[i] = t.queue[i + 1] /\ i + 1 # 1
      BY <1>3, <1>4, <2>2
    <3> QED BY <1>1, <1>3, <3>1 DEF Pending
  <2> QED BY <1>4, <1>7, <2>1, <2>2 DEF Visiting
<1>9. FireFlows(rest, FiringFlows(t, a)) \in Looping(L)
  BY <1>3, <1>8, FireFlowsJoins, FiringFlowsFrom
<1>10. ASSUME NEW u \in Looping(L) PROVE Raise(u) \in Looping(L)
  <2>1. u \in Sound /\ u \in Transaction /\ JoinRows(u.db) /\ Pending(u)
        /\ \A b \in L \cap Activity : u.db.act[b] # "dormant"
    BY LoopingRead
  <2>2. Raise(u) \in Sound /\ Raise(u).db = u.db /\ Raise(u).queue = u.queue
    BY <2>1, RaiseSound DEF Raise, Transaction
  <2> QED BY <2>1, <2>2 DEF Looping, Pending
<1>11. Conclude(rest, a) \in Looping(L)
  <2> DEFINE d     == SetWorkflow(rest.db, "finished")
             ended == [rest EXCEPT !.db = SetWorkflow(@, "finished")]
  <2>1. \/ Conclude(rest, a) = rest
        \/ Conclude(rest, a) = Raise(rest)
        \/ Conclude(rest, a) = ended
    BY DEF Conclude
  <2>2. ended = [rest EXCEPT !.db = d]
    OBVIOUS
  <2>3. d \in Database /\ NoHarm(rest.db, d)
    BY <1>1, <1>4, SetWorkflowType DEF WorkflowState
  <2>4. Onward(rest.db, d)
    <3>1. d.act = rest.db.act /\ d.tok = rest.db.tok /\ d.used = rest.db.used
          /\ \A b \in Activity : d.item[b] = Aged(rest.db.item[b])
      BY <1>1, <1>4 DEF SetWorkflow, Database
    <3>2. Aged(<<>>) = <<>>
      BY DEF Aged
    <3> HIDE DEF d
    <3> QED BY <3>1, <3>2, OnwardSame
  <2> HIDE DEF ended, d
  <2>5. ended \in Looping(L)
    BY <1>7, <2>2, <2>3, <2>4, LoopingOnward
  <2> QED BY <1>7, <1>10, <2>1, <2>5
<1> QED BY <1>5, <1>7, <1>9, <1>10, <1>11

(* _advance_from_activity, of an activity that is not a join waiting for   *)
(* its tokens.  What it leaves when it raises is in order too: the event   *)
(* bus swallows the exception and commits it.                              *)
LEMMA AdvanceJoins ==
  ASSUME NEW t \in Sound, NEW a \in Activity, JoinRows(t.db),
         t.db.act[a] # "dormant" \/ Type(a) = "start",
         NEW L, \A b \in L \cap Activity : t.db.act[b] # "dormant"
  PROVE  LET r == AdvanceFromActivity(t, a)
         IN  /\ r \in Sound /\ JoinRows(r.db)
             /\ \A b \in L \cap Activity : r.db.act[b] # "dormant"
<1> DEFINE n == Cardinality(Activity)
           F == [k \in 1..n |-> [x \in Transaction |-> Round(x)]]
           c == Completed(t, a)
           r == AdvanceFromActivity(t, a)
<1>1. n \in Nat
  BY TemplateAssumption, FS_CardinalityType
<1>2. \A x \in Looping(L), k \in 1..n : F[k][x] \in Looping(L)
  BY RoundJoins, LoopingRead
<1>3. t \in Transaction /\ t.db \in Database
  BY DEF Sound, Transaction
<1>4. r \in Sound
  BY AdvanceSound
<1>5. CASE t.db.act[a] \in {"dormant", "active"}
  <2>1. /\ c.db.tok = t.db.tok /\ c.db.used = t.db.used /\ c.db.item = t.db.item
        /\ c.db.act[a] = "complete" /\ \A b \in Activity : b # a => c.db.act[b] = t.db.act[b]
        /\ c.queue = <<a>> /\ c \in Sound
    BY <1>3, CompletedSound DEF Completed, Transaction, Database
  <2> HIDE DEF c
  <2>2. Onward(t.db, c.db)
    <3>1. AndJoin(a) => t.db.act[a] \in Begun
      BY <1>5 DEF AndJoin, Begun
    <3> QED BY <2>1, <3>1 DEF Onward
  <2>3. JoinRows(c.db)
    BY <2>2, OnwardJoins
  <2>4. ASSUME NEW f \in FlowsFrom(a, "normal") PROVE Unplaced(c.db, f)
    <3>1. f \in Flow /\ Source(f) = a /\ Target(f) \in Activity
      BY TemplateTypes DEF FlowsFrom, Source
    <3>2. \A i \in DOMAIN t.db.tok[Target(f)] : t.db.act[Source(t.db.tok[Target(f)][i])] = "complete"
      BY <3>1 DEF JoinRows, Placed
    <3> QED BY <1>5, <2>1, <3>1, <3>2 DEF Unplaced
  <2>5. Pending(c)
    BY <2>1, <2>4 DEF Pending
  <2>6. c \in Looping(L)
    BY <2>1, <2>3, <2>5 DEF Looping
  <2>7. Iterate(F, c, n) \in Looping(L)
    <3> HIDE DEF F, n
    <3> QED BY <1>1, <1>2, <2>6, IterateClosed
  <2>8. r = AnnounceItems(Iterate(F, c, n))
    BY <1>5 DEF AdvanceFromActivity, c
  <2> HIDE DEF F, n, r
  <2>9. r.db = Iterate(F, c, n).db
    BY <2>7, <2>8, LoopingRead, RaiseType DEF AnnounceItems
  <2> QED BY <1>4, <2>7, <2>9, LoopingRead DEF r
<1>6. CASE t.db.act[a] \notin {"dormant", "active"}
  <2>1. r = Raise(t)
    BY <1>6 DEF AdvanceFromActivity
  <2> HIDE DEF r
  <2> QED BY <1>3, <1>4, <2>1, RaiseType DEF r
<1> QED BY <1>5, <1>6

(* complete_work_item.                                                     *)
LEMMA CompleteWorkItemJoins ==
  ASSUME NEW t \in Sound, NEW a \in Activity, NEW i \in DOMAIN t.db.item[a],
         NEW v \in Valuation, JoinRows(t.db)
  PROVE  LET r == CompleteWorkItem(t, a, i, v) IN r.ok => JoinRows(r.db)
<1> DEFINE d == [t.db EXCEPT !.item[a][i].state = "complete", !.var = v]
           n == d.idx[a] + 1
           p == PassOn(d, a, n)
           u == [t EXCEPT !.db = d]
           r == CompleteWorkItem(t, a, i, v)
<1>1. t \in Transaction /\ t.db \in Database
  BY DEF Sound, Transaction
<1>2. t.db.item[a] # <<>> /\ t.db.act[a] # "dormant"
  <2>1. t.db.item[a] # <<>>
    OBVIOUS
  <2> QED BY <2>1 DEF JoinRows, Idle
<1>3. d \in Database /\ NoHarm(t.db, d) /\ d.act = t.db.act /\ d.tok = t.db.tok
      /\ d.used = t.db.used /\ \A b \in Activity : b # a => d.item[b] = t.db.item[b]
  <2> DEFINE c == [t.db EXCEPT !.item[a][i].state = "complete"]
  <2>1. c \in Database /\ NoHarm(t.db, c)
    BY <1>1, SetItemType DEF ItemState
  <2>2. c.act = t.db.act /\ c.tok = t.db.tok /\ c.used = t.db.used
        /\ \A b \in Activity : b # a => c.item[b] = t.db.item[b]
    BY <1>1 DEF Database
  <2>3. d = [c EXCEPT !.var = v]
    OBVIOUS
  <2> HIDE DEF c, d
  <2> QED BY <2>1, <2>2, <2>3 DEF Database, NoHarm
<1> HIDE DEF d
<1>4. Onward(t.db, d) /\ d.act[a] # "dormant"
  BY <1>2, <1>3 DEF Onward
<1>5. JoinRows(d)
  BY <1>4, OnwardJoins
<1>6. ASSUME r = [t EXCEPT !.db = p] PROVE JoinRows(r.db)
  <2>1. p.act = d.act /\ p.tok = d.tok /\ p.used = d.used
        /\ \A b \in Activity : b # a => p.item[b] = d.item[b]
    BY <1>3 DEF PassOn, Database
  <2>2. r.db = p
    BY <1>1, <1>6 DEF Transaction
  <2> HIDE DEF p, r
  <2>3. Onward(d, p)
    BY <1>4, <2>1 DEF Onward
  <2> QED BY <1>5, <2>2, <2>3, OnwardJoins
<1>7. ASSUME r = AdvanceFromActivity(u, a) PROVE JoinRows(r.db)
  <2>1. u \in Sound /\ u.db = d
    BY <1>1, <1>3, SoundRows, WithDatabase
  <2>2. \A b \in {} \cap Activity : u.db.act[b] # "dormant"
    OBVIOUS
  <2> HIDE DEF u, r
  <2>3. JoinRows(AdvanceFromActivity(u, a).db)
    BY <1>4, <1>5, <2>1, <2>2, AdvanceJoins
  <2> QED BY <1>7, <2>3
<1>8. ~ Raise(t).ok
  BY <1>1 DEF Raise, Transaction
<1>9. r = Raise(t) \/ r = AdvanceFromActivity(u, a) \/ r = [t EXCEPT !.db = p]
  <2>1. CASE t.db.wf # "running" \/ t.db.item[a][i].state = "complete"
    BY <2>1 DEF CompleteWorkItem
  <2>2. CASE ~ (t.db.wf # "running" \/ t.db.item[a][i].state = "complete")
    BY <2>2, Zenon DEF CompleteWorkItem, d
  <2> QED BY <2>1, <2>2
<1> HIDE DEF u, p, r
<1>10. r.ok => JoinRows(r.db)
  BY <1>6, <1>7, <1>8, <1>9
<1> QED BY <1>10 DEF r

(* reject_work_item, where only performers in turn send work back.         *)
LEMMA RejectWorkItemJoins ==
  ASSUME RejectsInTurn,
         NEW t \in Sound, NEW a \in Activity, NEW i \in DOMAIN t.db.item[a], JoinRows(t.db)
  PROVE  LET r == RejectWorkItem(t, a, i) IN r.ok => JoinRows(r.db)
<1> DEFINE d == [t.db EXCEPT !.item[a][i].state = "rejected"]
           n == d.idx[a] - 1
           p == PassOn(d, a, n)
           r == RejectWorkItem(t, a, i)
<1>1. t \in Transaction /\ t.db \in Database
  BY DEF Sound, Transaction
<1>2. t.db.item[a] # <<>> /\ t.db.act[a] # "dormant"
  <2>1. t.db.item[a] # <<>>
    OBVIOUS
  <2> QED BY <2>1 DEF JoinRows, Idle
<1>3. d \in Database /\ d.act = t.db.act /\ d.tok = t.db.tok
      /\ d.used = t.db.used /\ \A b \in Activity : b # a => d.item[b] = t.db.item[b]
  <2>1. d \in Database
    BY <1>1, SetItemType DEF ItemState
  <2> QED BY <1>1, <2>1 DEF Database
<1>4. r = Raise(t) \/ r = [t EXCEPT !.db = p]
  <2>1. CASE t.db.wf # "running" \/ t.db.item[a][i].state # "acquired"
    BY <2>1, Zenon DEF RejectWorkItem
  <2>2. CASE ~ (t.db.wf # "running" \/ t.db.item[a][i].state # "acquired")
    <3>1. FlowsFrom(a, "reject") # {} => PerformedBy(a) = "sequential"
      BY DEF RejectsInTurn, FlowsFrom
    <3> QED BY <2>2, <3>1, Zenon DEF RejectWorkItem
  <2> QED BY <2>1, <2>2
<1>5. p.act = d.act /\ p.tok = d.tok /\ p.used = d.used
      /\ \A b \in Activity : b # a => p.item[b] = d.item[b]
  BY <1>3 DEF PassOn, Database
<1>6. [t EXCEPT !.db = p].db = p /\ ~ Raise(t).ok
  BY <1>1 DEF Transaction, Raise
<1> HIDE DEF d, p, r
<1>7. Onward(t.db, p)
  BY <1>2, <1>3, <1>5 DEF Onward
<1>8. r.ok => JoinRows(r.db)
  BY <1>4, <1>6, <1>7, OnwardJoins
<1> QED BY <1>8 DEF r

-----------------------------------------------------------------------------
(* Joins in the life of a workflow.                                        *)

(* No AND-join that waits for tokens compensates another activity: the     *)
(* compensation would start it without them.                               *)
NoJoinCompensates ==
  \A a, b \in Activity : AndJoin(a) /\ Compensation(b) = a => Incoming(a) = {}

(* execute_compensation.                                                   *)
LEMMA CompensationOnward ==
  ASSUME NoJoinCompensates, NEW d \in Database
  PROVE  Onward(d, ExecuteCompensation(d))
<1> DEFINE S       == {Compensation(a) : a \in Compensatable(d)}
           started == Rouse(d, S)
           halted  == SetWorkflow(started, "halted")
<1>1. /\ started.tok = d.tok /\ started.used = d.used
      /\ \A b \in Activity :
           \/ started.act[b] = d.act[b] /\ started.item[b] = d.item[b]
           \/ b \in S /\ d.act[b] = "dormant" /\ started.act[b] = "active"
  BY DEF Rouse, Database
<1>2. started \in Database
  BY RouseType
<1> HIDE DEF started
<1>3. \A b \in Activity : b \in S /\ AndJoin(b) => Incoming(b) \subseteq started.used
  BY DEF NoJoinCompensates, Compensatable
<1>4. Onward(d, started)
  BY <1>1, <1>3 DEF Onward, Begun
<1>5. Onward(started, halted)
  <2>1. halted.act = started.act /\ halted.tok = started.tok /\ halted.used = started.used
        /\ \A b \in Activity : halted.item[b] = Aged(started.item[b])
    BY <1>2 DEF SetWorkflow, Database
  <2>2. Aged(<<>>) = <<>>
    BY DEF Aged
  <2> HIDE DEF halted
  <2> QED BY <2>1, <2>2, OnwardSame
<1>6. Onward(d, d)
  BY OnwardSame
<1>7. ExecuteCompensation(d) \in {d, started, halted}
  BY DEF ExecuteCompensation, S, started
<1> HIDE DEF halted
<1> QED BY <1>4, <1>5, <1>6, <1>7, OnwardChain

(* A request that goes onward,                                             *)
LEMMA WriteJoins ==
  ASSUME JoinRows(db), NEW d, Write(d), Onward(db, d)
  PROVE  JoinRows(db')
BY WriteNext, OnwardJoins

(* or that changes items of activities that have begun,                    *)
LEMMA ItemsJoins ==
  ASSUME JoinRows(db), NEW d, Write(d), d.act = db.act, d.tok = db.tok, d.used = db.used,
         \A a \in Activity : db.item[a] = <<>> => d.item[a] = <<>>
  PROVE  JoinRows(db')
BY OnwardSame, WriteJoins

(* or that advances rows that are in order.                                *)
LEMMA AdvancedJoins ==
  ASSUME Inv, NEW d \in Database, Waiting(d), JoinRows(d), NEW a \in Activity, d.act[a] # "dormant"
  PROVE  JoinRows(AdvanceFromActivity(Request(d), a).db)
<1>1. Request(d) \in Sound /\ Request(d).db = d
  BY RequestSound
<1>2. \A b \in {} \cap Activity : Request(d).db.act[b] # "dormant"
  OBVIOUS
<1> QED BY <1>1, <1>2, AdvanceJoins

(* Starting a workflow.                                                    *)
LEMMA StartJoins ==
  ASSUME Inv, StartWorkflow
  PROVE  JoinRows(db')
<1>1. PICK v \in Valuation, a \in Activity, u \in User \cup {None} :
        Commit(AdvanceFromActivity(Transact([Blank(v) EXCEPT !.wf = "running"], "", None,
                                            [NoOverride EXCEPT ![a] = u], FALSE),
                                   StartActivity))
  BY DEF StartWorkflow
<1>2. [NoOverride EXCEPT ![a] = u] \in [Activity -> User \cup {None}]
  BY DEF NoOverride
<1>3. "" \in Label
  BY DEF Label
<1>4. StartActivity \in Activity /\ Type(StartActivity) = "start"
  BY ValidTemplateAssumption DEF StartActivity, Type
<1> DEFINE blank == Blank(v)
           d     == [blank EXCEPT !.wf = "running"]
           t     == Transact(d, "", None, [NoOverride EXCEPT ![a] = u], FALSE)
           r     == AdvanceFromActivity(t, StartActivity)
<1>5. d \in Database /\ Waiting(d) /\ JoinRows(d)
  <2>1. blank \in Database /\ Waiting(blank)
    BY BlankType
  <2>2. \A b \in Activity : blank.item[b] = <<>> /\ blank.tok[b] = <<>> /\ blank.act[b] = "dormant"
    BY DEF Blank
  <2> HIDE DEF blank
  <2>3. d \in Database /\ NoHarm(blank, d)
        /\ d.item = blank.item /\ d.tok = blank.tok /\ d.act = blank.act
    BY <2>1 DEF Database, WorkflowState, NoHarm
  <2> HIDE DEF d
  <2>4. JoinRows(d)
    BY <2>2, <2>3 DEF JoinRows, Placed, Gathered, Idle, Begun
  <2> QED BY <2>1, <2>3, <2>4, HarmlessSteps
<1>6. Commit(r)
  BY <1>1
<1> HIDE DEF d
<1>7. t \in Sound /\ t.db = d
  BY <1>2, <1>3, <1>5, TransactSound
<1> HIDE DEF t
<1>8. \A b \in {} \cap Activity : t.db.act[b] # "dormant"
  OBVIOUS
<1>9. JoinRows(r.db)
  BY <1>4, <1>5, <1>7, <1>8, AdvanceJoins
<1> HIDE DEF r
<1> QED BY <1>6, <1>9 DEF Commit

(* Completing an item.                                                     *)
LEMMA CompleteJoins ==
  ASSUME Inv, JoinRows(db), NEW a \in Activity, NEW i \in Items(a), CompleteItemDirect(a, i)
  PROVE  JoinRows(db')
<1>1. db \in Database /\ Waiting(db)
  BY DEF Inv, TypeOK
<1>2. PICK v \in Valuation, p \in Label, n \in NextPerformers(a) :
        Commit(CompleteWorkItem(Transact(db, p, n, NoOverride, FALSE), a, i, v))
  BY DEF CompleteItemDirect
<1>3. n \in User \cup {None} /\ NoOverride \in [Activity -> User \cup {None}]
  BY DEF NextPerformers, NoOverride
<1> DEFINE t == Transact(db, p, n, NoOverride, FALSE)
           r == CompleteWorkItem(t, a, i, v)
<1>4. t \in Sound /\ t.db = db
  BY <1>1, <1>3, TransactSound
<1>5. Commit(r)
  BY <1>2
<1> HIDE DEF t
<1>6. r.ok => JoinRows(r.db)
  BY <1>4, CompleteWorkItemJoins DEF Items
<1> HIDE DEF r
<1> QED BY <1>5, <1>6 DEF Commit

(* The inbox.                                                              *)
LEMMA InboxJoins ==
  ASSUME RejectsInTurn, Inv, JoinRows(db), InboxStep
  PROVE  JoinRows(db')
<1>1. db \in Database /\ Waiting(db)
  BY DEF Inv, TypeOK
<1>2. PICK u \in User, a \in Activity : \E i \in Items(a) :
        \/ AcquireWorkItem(u, a, i)
        \/ ReleaseWorkItem(u, a, i)
        \/ CompleteInboxItem(u, a, i)
        \/ RejectInboxItem(u, a, i)
  BY DEF InboxStep
<1>3. PICK i \in Items(a) :
        \/ AcquireWorkItem(u, a, i)
        \/ ReleaseWorkItem(u, a, i)
        \/ CompleteInboxItem(u, a, i)
        \/ RejectInboxItem(u, a, i)
  BY <1>2
<1>4. ASSUME NEW s, NEW p, Write([db EXCEPT !.item[a][i].state = s, !.item[a][i].performer = p])
      PROVE  JoinRows(db')
  <2> DEFINE e == [db EXCEPT !.item[a][i].state = s, !.item[a][i].performer = p]
  <2>1. e.act = db.act /\ e.tok = db.tok /\ e.used = db.used
        /\ \A b \in Activity : b # a => e.item[b] = db.item[b]
    BY <1>1 DEF Database
  <2>2. db.item[a] # <<>>
    BY DEF Items
  <2>3. Write(e)
    BY <1>4
  <2> HIDE DEF e
  <2> QED BY <2>1, <2>2, <2>3, ItemsJoins
<1>5. CASE AcquireWorkItem(u, a, i) \/ ReleaseWorkItem(u, a, i)
  BY <1>4, <1>5 DEF AcquireWorkItem, ReleaseWorkItem
<1>6. CASE CompleteInboxItem(u, a, i)
  <2>1. CompleteItemDirect(a, i)
    BY <1>6 DEF CompleteInboxItem, CompleteItemDirect
  <2> QED BY <2>1, CompleteJoins
<1>7. CASE RejectInboxItem(u, a, i)
  <2> DEFINE t == Request(db)
             r == RejectWorkItem(t, a, i)
  <2>1. t \in Sound /\ t.db = db /\ i \in DOMAIN t.db.item[a]
    BY <1>1, RequestSound DEF Items
  <2>2. Commit(r)
    BY <1>7 DEF RejectInboxItem
  <2> HIDE DEF t
  <2>3. r.ok => JoinRows(r.db)
    BY <2>1, RejectWorkItemJoins
  <2> HIDE DEF r
  <2> QED BY <2>2, <2>3 DEF Commit
<1> QED BY <1>3, <1>5, <1>6, <1>7

(* Operators.                                                              *)
LEMMA OperatorJoins ==
  ASSUME NoJoinCompensates, Inv, JoinRows(db), OperatorStep
  PROVE  JoinRows(db')
<1>1. db \in Database /\ Waiting(db)
  BY DEF Inv, TypeOK
<1>2. ASSUME NEW s \in WorkflowState, NEW S, NEW o
      PROVE  LET e == Mark(SetWorkflow(db, s), S, o)
             IN  /\ e.act = db.act /\ e.tok = db.tok /\ e.used = db.used
                 /\ \A a \in Activity : db.item[a] = <<>> => e.item[a] = <<>>
  <2> DEFINE d == SetWorkflow(db, s)
             e == Mark(d, S, o)
  <2>1. d \in Database
    BY <1>1, SetWorkflowType
  <2>2. d.act = db.act /\ d.tok = db.tok /\ d.used = db.used
        /\ \A a \in Activity : d.item[a] = Aged(db.item[a])
    BY <1>1 DEF SetWorkflow, Database
  <2> HIDE DEF d
  <2>3. e.act = d.act /\ e.tok = d.tok /\ e.used = d.used
        /\ \A a \in Activity : e.item[a] = SetItems(d.item[a], S, o)
    BY <2>1 DEF Mark, Database
  <2>4. Aged(<<>>) = <<>> /\ SetItems(<<>>, S, o) = <<>>
    BY DEF Aged, SetItems
  <2> HIDE DEF e
  <2>5. /\ e.act = db.act /\ e.tok = db.tok /\ e.used = db.used
        /\ \A a \in Activity : db.item[a] = <<>> => e.item[a] = <<>>
    BY <2>2, <2>3, <2>4
  <2> QED BY <2>5 DEF e, d
<1>3. ASSUME NEW s \in WorkflowState, NEW S, NEW o, Write(Mark(SetWorkflow(db, s), S, o))
      PROVE  JoinRows(db')
  BY <1>2, <1>3, ItemsJoins
<1>4. CASE Halt
  BY <1>3, <1>4 DEF Halt, WorkflowState
<1>5. CASE Resume
  BY <1>3, <1>5 DEF Resume, WorkflowState
<1>6. CASE Abort
  <2> DEFINE m == Mark(SetWorkflow(db, "failed"), Open, "complete")
             e == [m EXCEPT !.act = [a \in Activity |-> IF @[a] = "active" THEN "complete" ELSE @[a]]]
  <2>1. Write(e)
    BY <1>6 DEF Abort
  <2>2. /\ m.act = db.act /\ m.tok = db.tok /\ m.used = db.used
        /\ \A a \in Activity : db.item[a] = <<>> => m.item[a] = <<>>
    BY <1>2 DEF WorkflowState
  <2>3. m \in Database
    BY <1>1, SetWorkflowType, MarkType DEF WorkflowState, ItemState
  <2> HIDE DEF m
  <2>4. /\ e.tok = m.tok /\ e.used = m.used /\ e.item = m.item
        /\ \A a \in Activity : e.act[a] = IF m.act[a] = "active" THEN "complete" ELSE m.act[a]
    BY <2>3 DEF Database
  <2> HIDE DEF e
  <2>5. Onward(db, e)
    BY <2>2, <2>4 DEF Onward, Begun
  <2> QED BY <2>1, <2>5, WriteJoins
<1>7. CASE Restart
  <2> DEFINE e == [db EXCEPT !.wf = "dormant", !.act = [a \in Activity |-> "dormant"],
                            !.item = [a \in Activity |-> <<>>],
                            !.tok = [a \in Activity |-> <<>>], !.used = {}]
  <2>1. db' = e
    BY <1>7, WriteNext DEF Restart
  <2>2. \A a \in Activity : e.act[a] = "dormant" /\ e.item[a] = <<>> /\ e.tok[a] = <<>>
    BY <1>1 DEF Database
  <2> HIDE DEF e
  <2> QED BY <2>1, <2>2 DEF JoinRows, Placed, Gathered, Idle, Begun
<1>8. CASE Compensate
  BY <1>1, <1>8, CompensationOnward, WriteJoins DEF Compensate
<1>9. ASSUME NEW a \in Activity, RetryActivity(a) \/ SkipActivity(a) PROVE JoinRows(db')
  <2> DEFINE d == [db EXCEPT !.act[a] = "active"]
  <2>1. db.act[a] = "error"
    BY <1>9 DEF RetryActivity, SkipActivity
  <2>2. d \in Database /\ NoHarm(db, d)
    BY <1>1, <2>1, MendKept
  <2>3. d.tok = db.tok /\ d.used = db.used /\ d.item = db.item /\ d.act[a] = "active"
        /\ \A b \in Activity : b # a => d.act[b] = db.act[b]
    BY <1>1 DEF Database
  <2> HIDE DEF d
  <2>4. Onward(db, d)
    BY <2>1, <2>3 DEF Onward, Begun
  <2>5. CASE RetryActivity(a)
    BY <2>4, <2>5, WriteJoins DEF RetryActivity, d
  <2>6. CASE SkipActivity(a)
    <3> DEFINE t == AdvanceFromActivity(Request(d), a)
               e == Logged(t.db, a)
    <3>1. Commit([t EXCEPT !.db = e])
      BY <2>6 DEF SkipActivity, d
    <3>2. Waiting(d) /\ JoinRows(d)
      BY <1>1, <2>2, <2>4, HarmlessSteps, OnwardJoins
    <3>3. JoinRows(t.db)
      BY <2>2, <2>3, <3>2, AdvancedJoins
    <3>4. t \in Sound
      BY <2>2, <3>2, RequestSound, AdvanceSound
    <3> HIDE DEF t
    <3>5. t \in Transaction /\ t.db \in Database
      BY <3>4 DEF Sound, Transaction
    <3>6. e.act = t.db.act /\ e.tok = t.db.tok /\ e.used = t.db.used /\ e.item = t.db.item
      BY <3>5 DEF Logged, Database
    <3>7. db' = e
      BY <3>1, <3>5 DEF Commit, Transaction
    <3> HIDE DEF e
    <3>8. Onward(t.db, e)
      BY <3>6, OnwardSame
    <3> QED BY <3>3, <3>7, <3>8, OnwardJoins
  <2> QED BY <1>9, <2>5, <2>6
<1> QED BY <1>4, <1>5, <1>6, <1>7, <1>8, <1>9 DEF OperatorStep

(* The event bus: its listeners are active, and remain begun while the     *)
(* others complete.                                                        *)
LEMMA EventJoins ==
  ASSUME Inv, JoinRows(db), NEW e, EventFires(e)
  PROVE  JoinRows(db')
<1> DEFINE F(order) == [i \in DOMAIN order |-> [x \in Transaction |->
                          IF x.ok THEN AdvanceFromActivity(x, order[i]) ELSE x]]
           t(order) == Iterate(F(order), Request(db), Len(order))
           L        == Listening(e)
           Good     == {x \in Sound : JoinRows(x.db) /\ \A b \in L \cap Activity : x.db.act[b] # "dormant"}
<1>1. db \in Database /\ Waiting(db)
  BY DEF Inv, TypeOK
<1>2. PICK order \in [1..Cardinality(L) -> L] : Commit([t(order) EXCEPT !.ok = TRUE])
  BY DEF EventFires
<1>3. Cardinality(L) \in Nat /\ L \subseteq Activity /\ \A b \in L : db.act[b] = "active"
  BY TemplateAssumption, FS_Subset, FS_CardinalityType DEF Listening
<1> HIDE DEF L
<1>4. /\ Len(order) \in Nat
      /\ DOMAIN order = 1..Len(order)
      /\ \A i \in DOMAIN order : order[i] \in L
  BY <1>2, <1>3
<1>5. \A x \in Good, i \in 1..Len(order) : F(order)[i][x] \in Good
  <2>1. SUFFICES ASSUME NEW x \in Good, NEW i \in DOMAIN order
        PROVE  F(order)[i][x] \in Good
    BY <1>4
  <2>2. x \in Sound /\ x \in Transaction /\ JoinRows(x.db)
        /\ \A b \in L \cap Activity : x.db.act[b] # "dormant"
    BY DEF Sound
  <2>3. F(order)[i][x] = IF x.ok THEN AdvanceFromActivity(x, order[i]) ELSE x
    BY <2>2
  <2>4. order[i] \in Activity /\ x.db.act[order[i]] # "dormant"
    BY <1>3, <1>4, <2>2
  <2> HIDE DEF F
  <2>5. AdvanceFromActivity(x, order[i]) \in Good
    BY <2>2, <2>4, AdvanceJoins
  <2> HIDE DEF Good
  <2> QED BY <2>3, <2>5
<1>6. Request(db) \in Good
  BY <1>1, <1>3, RequestSound
<1>7. t(order) \in Good
  <2> DEFINE G == F(order)
  <2> HIDE DEF F, G, Good
  <2>1. \A x \in Good, i \in 1..Len(order) : G[i][x] \in Good
    BY <1>5 DEF G
  <2>2. Iterate(G, Request(db), Len(order)) \in Good
    BY <1>4, <1>6, <2>1, IterateClosed
  <2> QED BY <2>2 DEF G
<1> HIDE DEF t
<1>8. t(order) \in Transaction
  BY <1>7 DEF Sound
<1>9. db' = t(order).db
  BY <1>2, <1>8 DEF Commit, Transaction
<1> QED BY <1>7, <1>9

(* Timeouts, events and child workflows.                                   *)
LEMMA BusJoins ==
  ASSUME Inv, JoinRows(db), BusStep
  PROVE  JoinRows(db')
<1>1. db \in Database /\ Waiting(db)
  BY DEF Inv, TypeOK
<1>2. CASE JoinTimeout
  <2>1. PICK S \in SUBSET Expirable : Write(ForceFire(db, S))
    BY <1>2 DEF JoinTimeout
  <2>2. \A b \in S : ~ AndJoin(b)
    BY DEF Expirable, AndJoin
  <2> DEFINE e == ForceFire(db, S)
  <2>3. /\ e.item = db.item /\ db.used \subseteq e.used
        /\ \A b \in Activity : /\ e.act[b] = IF b \in S THEN "active" ELSE db.act[b]
                               /\ e.tok[b] = IF b \in S THEN <<>> ELSE db.tok[b]
    BY <1>1 DEF ForceFire, Database
  <2>4. \A b \in S : db.act[b] = "dormant"
    BY DEF Expirable
  <2>5. Write(e)
    BY <2>1
  <2> HIDE DEF e
  <2>6. Onward(db, e)
    BY <2>2, <2>3, <2>4 DEF Onward
  <2> QED BY <2>5, <2>6, WriteJoins
<1>3. ASSUME NEW a \in Activity, NEW announced \in BOOLEAN,
             ChildFinishes(a, announced) \/ ChildFails(a)
      PROVE  JoinRows(db')
  <2> DEFINE d == [db EXCEPT !.child[a] = @ - 1]
  <2>1. db.child[a] > 0
    BY <1>3 DEF ChildFinishes, ChildFails
  <2>2. d \in Database /\ Waiting(d) /\ d.act = db.act
    BY <2>1, ChildKept
  <2>3. d.tok = db.tok /\ d.used = db.used /\ d.item = db.item
    BY <1>1 DEF Database
  <2> HIDE DEF d
  <2>4. Onward(db, d) /\ JoinRows(d)
    BY <2>2, <2>3, OnwardSame, OnwardJoins
  <2>5. CASE ChildFinishes(a, announced)
    <3> DEFINE t == AdvanceFromActivity(Request(d), a)
    <3>1. Write(d) \/ (db.act[a] = "active" /\ Commit([t EXCEPT !.ok = TRUE]))
      BY <2>5 DEF ChildFinishes, d
    <3>2. ASSUME db.act[a] = "active", Commit([t EXCEPT !.ok = TRUE]) PROVE JoinRows(db')
      <4>1. JoinRows(t.db)
        BY <2>2, <2>4, <3>2, AdvancedJoins
      <4>2. t \in Transaction
        BY <2>2, RequestSound, AdvanceSound DEF Sound
      <4> HIDE DEF t
      <4>3. db' = t.db
        BY <3>2, <4>2 DEF Commit, Transaction
      <4> QED BY <4>1, <4>3
    <3> QED BY <2>4, <3>1, <3>2, WriteJoins
  <2>6. CASE ChildFails(a)
    <3> DEFINE e == [d EXCEPT !.act[a] = IF @ = "active" THEN "error" ELSE @]
    <3>1. Write(e)
      <4>1. [db EXCEPT !.child[a] = @ - 1, !.act[a] = IF @ = "active" THEN "error" ELSE @] = e
        BY <1>1, <2>2 DEF Database, d
      <4> HIDE DEF e
      <4> QED BY <2>6, <4>1 DEF ChildFails
    <3>2. /\ e.tok = d.tok /\ e.used = d.used /\ e.item = d.item
          /\ e.act[a] = d.act[a] \/ (d.act[a] = "active" /\ e.act[a] = "error")
          /\ \A b \in Activity : b # a => e.act[b] = d.act[b]
      BY <2>2 DEF Database
    <3> HIDE DEF e
    <3>3. Onward(d, e)
      BY <3>2 DEF Onward, Begun
    <3> QED BY <2>4, <3>1, <3>3, OnwardChain, WriteJoins
  <2> QED BY <1>3, <2>5, <2>6
<1> QED BY <1>2, <1>3, EventJoins DEF BusStep

(* The invariant of everything that is one transaction.                    *)
THEOREM JoinsInOrder ==
  RejectsInTurn /\ NoJoinCompensates /\ RequestSpec => [](Inv /\ JoinRows(db))
<1> DEFINE Step == ClientStep \/ DirectStep \/ UserStep \/ OperatorStep \/ BusStep
           K    == RejectsInTurn /\ NoJoinCompensates
<1>1. Init => Inv /\ JoinRows(db)
  <2>1. Init => \A a \in Activity : /\ db.act[a] = "dormant"
                                    /\ db.item[a] = <<>> /\ db.tok[a] = <<>>
    BY DEF Init, Blank
  <2> QED BY <2>1, InitSound DEF JoinRows, Placed, Gathered, Idle, Begun
<1>2. K /\ Inv /\ JoinRows(db) /\ [Step]_vars => (Inv /\ JoinRows(db))'
  <2>1. Inv /\ [Step]_vars => Inv'
    BY InvStep DEF Next
  <2>2. ASSUME K, Inv, JoinRows(db), Step PROVE JoinRows(db')
    <3>1. CASE UserStep
      BY <2>2, <3>1 DEF UserStep, UpdateAvailability
    <3>2. CASE UpdateVariable
      <4>1. PICK v \in Valuation : Write([db EXCEPT !.var = v])
        BY <3>2 DEF UpdateVariable
      <4> DEFINE e == [db EXCEPT !.var = v]
      <4>2. e.act = db.act /\ e.tok = db.tok /\ e.used = db.used /\ e.item = db.item
        BY <2>2 DEF Inv, TypeOK, Database
      <4>3. Write(e)
        BY <4>1
      <4> HIDE DEF e
      <4> QED BY <2>2, <4>2, <4>3, ItemsJoins
    <3>3. CASE DirectStep
      BY <2>2, <3>3, CompleteJoins DEF DirectStep
    <3> QED BY <2>2, <3>1, <3>2, <3>3, StartJoins, InboxJoins, OperatorJoins, BusJoins DEF ClientStep
  <2>3. JoinRows(db) /\ UNCHANGED vars => JoinRows(db')
    BY DEF vars
  <2>4. ASSUME K, Inv, JoinRows(db), [Step]_vars PROVE JoinRows(db)'
    BY <2>2, <2>3, <2>4
  <2> HIDE DEF K, Step
  <2> QED BY <2>1, <2>4
<1>3. CASE K
  <2>1. Inv /\ JoinRows(db) /\ [Step]_vars => (Inv /\ JoinRows(db))'
    BY <1>2, <1>3
  <2> HIDE DEF K
  <2> QED BY <1>1, <2>1, PTL DEF RequestSpec
<1> QED BY <1>3

(* What people, absences and administrators do are requests.               *)
LEMMA ManagedIsRequested == ManagedSpec => RequestSpec
<1> DEFINE A == People \/ UserStep \/ Administration \/ Compensate
           B == ClientStep \/ DirectStep \/ UserStep \/ OperatorStep \/ BusStep
<1>1. [A]_vars => [B]_vars
  BY DEF People, Administration, ClientStep, OperatorStep
<1> HIDE DEF A, B
<1>2. [][A]_vars => [][B]_vars
  BY <1>1, PTL
<1> QED BY <1>2 DEF ManagedSpec, RequestSpec, A, B

(* Counting tokens, as _should_activate does (engine_service.py 1130-1185), *)
(* is enough to know that each branch of an AND-join has arrived, provided *)
(* that work is sent back only within a list of performers and no join is  *)
(* the compensation of another activity.                                   *)
THEOREM JoinsHaveTheirTokens ==
  RejectsInTurn /\ NoJoinCompensates /\ RequestSpec => []AndJoinComplete
<1>1. Inv /\ JoinRows(db) => AndJoinComplete
  BY DEF JoinRows, Gathered, AndJoinComplete, AndJoin, Begun
<1> QED BY <1>1, JoinsInOrder, PTL

(* The same of the population the office run examines.                     *)
COROLLARY OfficeJoinsHaveTheirTokens ==
  RejectsInTurn /\ NoJoinCompensates /\ ManagedSpec => []AndJoinComplete
BY JoinsHaveTheirTokens, ManagedIsRequested

=============================================================================
