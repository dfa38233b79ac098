------------------------------ MODULE Renditions ------------------------------
(***************************************************************************)
(* Renditions of document versions: a PDF and a thumbnail, made by a task  *)
(* that keeps the row's status, and kept in the object store.              *)
(***************************************************************************)
EXTENDS TaskBroker

VARIABLES
  rendition,   \* the row of each request: status and minio_object_key
  objects,     \* the renditions whose object is in the store
  retrying     \* retry requests that have found their rendition FAILED

renditionVars == <<rendition, objects, retrying>>

RenditionStatus == {"PENDING", "PROCESSING", "READY", "FAILED"}

Render(r) == [task |-> "rendition", row |-> r]

(* The row is flushed by the upload or the check-in, its task sent.        *)
CreateRenditionRequest(r) ==
  rendition' = [rendition EXCEPT ![r] = [status |-> "PENDING", key |-> FALSE]]

-----------------------------------------------------------------------------
(* The task, of either type.                                               *)
LoadRendition(w) ==
  /\ At(w, "rendition", "taken")
  /\ IF Visible(Row(w))
     THEN /\ rendition' = [rendition EXCEPT ![Row(w)].status = "PROCESSING"]
          /\ Moves(w, "processing")
     ELSE rendition' = rendition /\ Moves(w, "done")
  /\ UNCHANGED <<request, queue, dropped, failures, objects, retrying>>

(* Mutant: the row is marked before the object is stored.                  *)
MarkReadyFirst(w) ==
  /\ At(w, "rendition", "processing")
  /\ rendition' = [rendition EXCEPT ![Row(w)] = [status |-> "READY", key |-> TRUE]]
  /\ Moves(w, "uploaded")
  /\ UNCHANGED <<request, queue, dropped, failures, objects, retrying>>

(* The source was fetched and converted: the result is stored.             *)
Upload(w) ==
  /\ At(w, "rendition", "processing")
  /\ objects' = objects \cup {Row(w)}
  /\ Moves(w, "uploaded")
  /\ UNCHANGED <<request, queue, dropped, failures, rendition, retrying>>

MarkReady(w) ==
  /\ At(w, "rendition", "uploaded")
  /\ rendition' = [rendition EXCEPT ![Row(w)] = [status |-> "READY", key |-> TRUE]]
  /\ Moves(w, "done")
  /\ UNCHANGED <<request, queue, dropped, failures, objects, retrying>>

(* No converter, a type it cannot convert, a store that does not answer.   *)
MarkFailed(w) ==
  /\ At(w, "rendition", "processing") \/ At(w, "rendition", "uploaded")
  /\ rendition' = [rendition EXCEPT ![Row(w)].status = "FAILED"]
  /\ Moves(w, "done")
  /\ UNCHANGED <<request, queue, dropped, failures, objects, retrying>>

(* What the database raises aborts the transaction, and the FAILED of the  *)
(* handler is written in the same one: its commit raises as well, nothing  *)
(* is retried, and the message is acknowledged.                            *)
RaiseRendition(w) ==
  /\ \E step \in {"taken", "processing", "uploaded"} : At(w, "rendition", step)
  /\ failures < MaxFailures /\ failures' = failures + 1
  /\ dropped' = dropped \cup {running[w].message}
  /\ Moves(w, "done")
  /\ UNCHANGED <<request, queue, renditionVars>>

RenderStep(w) == LoadRendition(w) \/ Upload(w) \/ MarkReady(w) \/ MarkFailed(w)

-----------------------------------------------------------------------------
(* Only a failed rendition is retried.                                     *)
BeginRetry(r) ==
  /\ Visible(r) /\ rendition[r].status = "FAILED"
  /\ r \notin retrying
  /\ failures < MaxFailures
  /\ failures' = failures + 1
  /\ retrying' = retrying \cup {r}
  /\ UNCHANGED <<request, queue, running, dropped, rendition, objects>>

(* The status is written with the commit, the task sent before it: if the  *)
(* commit fails the task is there all the same.                            *)
EndRetry(r) ==
  /\ r \in retrying
  /\ retrying' = retrying \ {r}
  /\ Send({Render(r)})
  /\ \/ rendition' = [rendition EXCEPT ![r].status = "PENDING"]
     \/ rendition' = rendition
  /\ UNCHANGED <<request, running, dropped, failures, objects>>

RenditionInit ==
  /\ rendition = [r \in Request |-> [status |-> "PENDING", key |-> FALSE]]
  /\ objects = {} /\ retrying = {}

-----------------------------------------------------------------------------
RenditionTypeOK ==
  /\ rendition \in [Request -> [status : RenditionStatus, key : BOOLEAN]]
  /\ objects \subseteq Request /\ retrying \subseteq Request

(* A rendition offered for download has its object in the store, whoever   *)
(* dies between the upload and the commit, and whatever a retry or a       *)
(* second delivery does to the row (rendition.py 143-152, 276-288,         *)
(* rendition_service.py 167-180).                                          *)
ReadyHasObject ==
  \A r \in Request : rendition[r].status = "READY" => rendition[r].key /\ r \in objects

(* A rendition that a task has taken up is READY or FAILED in the end: a   *)
(* lost machine or a second delivery does not leave it PROCESSING, which   *)
(* nobody could retry.  A task that failed with the database, its handler  *)
(* included, does, and so does one whose process alone was killed          *)
(* (rendition.py 105-173, rendition_service.py 124-128).                   *)
ProcessingEnds ==
  \A r \in Request :
    rendition[r].status = "PROCESSING" ~>
      (rendition[r].status \in {"READY", "FAILED"} \/ Render(r) \in dropped)
================================================================================
