------------------------------ MODULE MCTemplate ------------------------------
(* A small instance for TLC: two templates that hold one sub-workflow   *)
(* activity each; the second already calls the first.                      *)
EXTENDS TemplateFamily, TLC
CONSTANTS start, work, call, end, w1

MCSlot   == {start, work, call, end}
MCTypeOf == start :> "START" @@ work :> "MANUAL" @@ call :> "SUB_WORKFLOW" @@ end :> "END"
Arrow(a, b) == [source |-> a, target |-> b, condition |-> "none"]

Drawn ==
  [NewTemplate(1) EXCEPT
     !.activity = [a \in Slot |-> IF a = work THEN "none" ELSE "live"],
     !.flows = {Arrow(start, call), Arrow(call, end)}]

MCDrafts   == <<Drawn, [Drawn EXCEPT !.family = 2, !.setting[call] = 1]>>
MCNewFlows == {Arrow(start, work), Arrow(start, end)}
=============================================================================
