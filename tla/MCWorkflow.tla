----------------------------- MODULE MCWorkflow -----------------------------
(***************************************************************************)
(* Small templates and client populations for TLC.                         *)
(***************************************************************************)
EXTENDS WorkflowProperties

Staff == {"ann", "bob"}
Writer == {"ann"}

(* One routing variable with two values.                                   *)
Choice == {"low", "high"}
Single == {"low"}

Plain ==
  [type |-> "manual", trigger |-> "and_join", threshold |-> 0, timed |-> FALSE,
   routing |-> "broadcast", performer |-> "listed", performers |-> <<>>,
   handler |-> None, compensation |-> None, event |-> ""]

StartRow == [Plain EXCEPT !.type = "start", !.routing = "conditional"]
EndRow   == [Plain EXCEPT !.type = "end"]
AutoRow  == [Plain EXCEPT !.type = "auto"]

Task(u) == [Plain EXCEPT !.performers = <<u>>]

(* Flows without a condition.                                              *)
Arrow(a, b)       == [source |-> a, target |-> b, kind |-> "normal",
                      label |-> "", condition |-> Valuation]
Choose(a, b, l)   == [Arrow(a, b) EXCEPT !.label = l]
When(a, b, V)     == [Arrow(a, b) EXCEPT !.condition = V]
RejectTo(a, b)    == [Arrow(a, b) EXCEPT !.kind = "reject"]

(* An activity the flow graph reaches but no flow ever fires.              *)
Detached(a, b) == When(a, b, {})

-----------------------------------------------------------------------------
(* A draft goes, as its writer chooses, straight to an audit or to two     *)
(* branches that meet in an AND-join: two people sign in turn, and a       *)
(* member of a queue files it, which calls in the audit, too.  Whichever   *)
(* way gets there first makes the other one superfluous.                   *)
OfficeActivity == {"start", "draft", "sign", "file", "audit", "merge", "close", "end"}
OfficeTemplate ==
  [activity |->
     [start |-> StartRow,
      draft |-> [Task("ann") EXCEPT !.routing = "performer_chosen"],
      sign  |-> [Plain EXCEPT !.performer = "sequential", !.performers = <<"ann", "bob">>],
      file  |-> [Plain EXCEPT !.performer = "queue", !.performers = <<"bob">>],
      audit |-> [Task("bob") EXCEPT !.trigger = "or_join"],
      merge |-> Task("ann"),
      close |-> [Task("ann") EXCEPT !.trigger = "cancelling_join", !.threshold = 1],
      end   |-> EndRow],
   flow |-> <<Arrow("start", "draft"), Choose("draft", "sign", "full"),
              Choose("draft", "file", "full"), Choose("draft", "audit", "short"),
              Arrow("sign", "merge"), Arrow("file", "merge"), Arrow("file", "audit"),
              Arrow("merge", "close"), Arrow("audit", "close"), Arrow("close", "end")>>]

(* A reviewer may send the draft back.                                     *)
LoopActivity == {"start", "draft", "review", "end"}
LoopTemplate ==
  [activity |->
     [start |-> StartRow, draft |-> Task("ann"), review |-> Task("bob"), end |-> EndRow],
   flow |-> <<Arrow("start", "draft"), Arrow("draft", "review"), Arrow("review", "end"),
              RejectTo("review", "draft")>>]

(* A draft, a child workflow and two listeners to one event race for a     *)
(* cancelling join, unless a variable sends a listener elsewhere; two of   *)
(* them also feed a timeout join; the failure of the child is handled.     *)
RaceActivity == {"start", "left", "child", "wait", "hear", "first", "late", "alert", "end"}
RaceTemplate ==
  [activity |->
     [start |-> StartRow, left |-> Task("ann"),
      child |-> [Plain EXCEPT !.type = "sub_workflow", !.handler = "alert"],
      wait  |-> [Plain EXCEPT !.type = "event", !.event = "document.uploaded"],
      hear  |-> [Plain EXCEPT !.type = "event", !.event = "document.uploaded",
                              !.routing = "conditional"],
      first |-> [Task("ann") EXCEPT !.trigger = "cancelling_join", !.threshold = 1],
      late  |-> [AutoRow EXCEPT !.trigger = "timeout_join", !.timed = TRUE],
      alert |-> Plain,
      end   |-> [EndRow EXCEPT !.trigger = "n_of_m_join", !.threshold = 2]],
   flow |-> <<Arrow("start", "left"), Arrow("start", "child"),
              Arrow("start", "wait"), Arrow("start", "hear"),
              Arrow("left", "first"), Arrow("child", "first"), Arrow("wait", "first"),
              When("hear", "first", {"high"}), When("hear", "alert", {"low"}),
              Arrow("left", "late"), Arrow("wait", "late"),
              Arrow("first", "end"), Arrow("late", "end"), Arrow("alert", "end")>>]

(* A second signature is waited for, though not for ever; what follows is  *)
(* an auto activity with an error handler.                                 *)
WaitActivity == {"start", "left", "right", "both", "alert", "end"}
WaitTemplate ==
  [activity |->
     [start |-> StartRow, left |-> Task("ann"), right |-> Task("ann"),
      both  |-> [AutoRow EXCEPT !.trigger = "timeout_join", !.timed = TRUE,
                                !.handler = "alert"],
      alert |-> Plain, end |-> [EndRow EXCEPT !.trigger = "or_join"]],
   flow |-> <<Arrow("start", "left"), Arrow("start", "right"), Detached("start", "alert"),
              Arrow("left", "both"), Arrow("right", "both"), Arrow("both", "end"),
              Arrow("alert", "end")>>]

(* An auto activity with an error handler and a compensation; what follows *)
(* the compensation cannot be announced to its performer.                  *)
AutoActivity == {"start", "pay", "alert", "undo", "tell", "end"}
AutoTemplate ==
  [activity |->
     [start |-> StartRow,
      pay   |-> [AutoRow EXCEPT !.handler = "alert", !.compensation = "undo"],
      alert |-> Plain, undo |-> AutoRow, tell |-> Task("ann"),
      end   |-> [EndRow EXCEPT !.trigger = "or_join"]],
   flow |-> <<Arrow("start", "pay"), Detached("start", "alert"), Detached("start", "undo"),
              Arrow("pay", "end"), Arrow("alert", "end"), Arrow("undo", "tell"),
              Arrow("tell", "end")>>]
=============================================================================
