--------------------------- MODULE BackgroundTasks ----------------------------
(* Requests that write an audit record, of which uploads and check-ins ask *)
(* for a rendition as well, with the workers that make both.               *)
EXTENDS AuditChain, Renditions

CONSTANT Uploads   \* the requests that upload or check in a version

vars == <<brokerVars, auditVars, renditionVars>>

(* The messages are sent when the rows are flushed, before the commit.     *)
Opens(r) ==
  /\ request[r] = "new"
  /\ request' = [request EXCEPT ![r] = "open"]
  /\ CreateAuditRecord(r)
  /\ UNCHANGED <<running, dropped, failures, objects, retrying>>

UploadVersion(r) ==
  /\ r \in Uploads /\ Opens(r)
  /\ CreateRenditionRequest(r) /\ Send({Hash(r), Render(r)})

ChangeSomething(r) ==
  /\ r \notin Uploads /\ Opens(r)
  /\ rendition' = rendition /\ Send({Hash(r)})

Init == BrokerInit /\ AuditInit /\ RenditionInit

Work(w) ==
  \/ (Take(w) \/ Acknowledge(w)) /\ UNCHANGED <<auditVars, renditionVars>>
  \/ HashStep(w) /\ UNCHANGED renditionVars
  \/ RenderStep(w) /\ UNCHANGED auditVars

Trouble(w) ==
  \/ (LoseNode(w) \/ LoseChild(w) \/ ExceedVisibility(w)) /\ UNCHANGED <<auditVars, renditionVars>>
  \/ RetryHash(w) /\ UNCHANGED renditionVars
  \/ RaiseRendition(w) /\ UNCHANGED auditVars

Next ==
  \/ \E r \in Request :
       \/ UploadVersion(r) \/ ChangeSomething(r)
       \/ EndRequest(r) /\ UNCHANGED <<auditVars, renditionVars>>
       \/ (BeginRetry(r) \/ EndRetry(r)) /\ UNCHANGED auditVars
  \/ \E w \in Worker : Work(w) \/ Trouble(w)

(* Worker processes run, and a request's transaction ends.                 *)
Fairness ==
  /\ \A w \in Worker : WF_vars(Work(w))
  /\ \A r \in Request :
       /\ WF_vars(EndRequest(r) /\ UNCHANGED <<auditVars, renditionVars>>)
       /\ WF_vars(EndRetry(r) /\ UNCHANGED auditVars)

Spec == Init /\ [][Next]_vars /\ Fairness
================================================================================
