------------------------------ MODULE TaskBroker ------------------------------
(***************************************************************************)
(* Background tasks: requests send messages before they commit, worker     *)
(* processes take them and acknowledge them late, when the task has        *)
(* returned.  Acknowledgement after the work is why a message whose worker *)
(* is lost is delivered again.                                             *)
(***************************************************************************)
EXTENDS Integers, Sequences, FiniteSets, Bags

CONSTANTS
  Request,      \* the requests that send messages, each with rows of its own
  Worker,
  Serves,       \* the queue each worker process consumes
  Loss,         \* which losses happen: pairs of a queue and a kind
  MaxFailures   \* bound: losses and failed attempts

VARIABLES
  request,      \* what became of each request's transaction
  queue,        \* the messages waiting, a bag
  running,      \* what each worker process is at
  dropped,      \* the messages acknowledged though their task did not return
  failures

brokerVars == <<request, queue, running, dropped, failures>>

(* A job's task counts its retries, of which it has one.                   *)
Message == [task : {"hash", "rendition"}, row : Request]
           \cup [task : {"job"}, row : Request, retries : 0 .. 1]

(* task_routes                                                             *)
QueueOf(m) == IF m.task = "rendition" THEN "renditions" ELSE "celery"

Idle == [step |-> "idle"]

ASSUME BrokerAssumption ==
  /\ Serves \in [Worker -> {"celery", "renditions"}]
  /\ Loss \subseteq {"celery", "renditions"} \X {"node", "child", "visibility"}
  /\ MaxFailures \in 0 .. 3   \* compute_audit_chain_hash has three retries

BrokerTypeOK ==
  /\ request \in [Request -> {"new", "open", "committed", "aborted"}]
  /\ IsABag(queue) /\ BagToSet(queue) \subseteq Message
  /\ \A w \in Worker : running[w].step = "idle" \/ running[w].message \in Message
  /\ dropped \subseteq Message
  /\ failures \in 0 .. MaxFailures

BrokerInit ==
  /\ request = [r \in Request |-> "new"]
  /\ queue = EmptyBag
  /\ running = [w \in Worker |-> Idle]
  /\ dropped = {} /\ failures = 0

Visible(r) == request[r] = "committed"

Send(messages) == queue' = queue (+) SetToBag(messages)

At(w, task, step) == running[w].step = step /\ running[w].message.task = task

Row(w) == running[w].message.row

Moves(w, step) == running' = [running EXCEPT ![w].step = step]

-----------------------------------------------------------------------------
(* get_db commits a request when its endpoint has returned.                *)
EndRequest(r) ==
  /\ request[r] = "open"
  /\ \E outcome \in {"committed", "aborted"} : request' = [request EXCEPT ![r] = outcome]
  /\ UNCHANGED <<queue, running, dropped, failures>>

Take(w) ==
  /\ running[w] = Idle
  /\ \E m \in BagToSet(queue) :
       /\ QueueOf(m) = Serves[w]
       /\ queue' = queue (-) SetToBag({m})
       /\ running' = [running EXCEPT ![w] = [step |-> "taken", message |-> m]]
  /\ UNCHANGED <<request, dropped, failures>>

Acknowledge(w) ==
  /\ running[w].step = "done"
  /\ running' = [running EXCEPT ![w] = Idle]
  /\ UNCHANGED <<request, queue, dropped, failures>>

(* Mutant: a message is acknowledged when it is taken.                     *)
EarlyAcknowledged(m) == queue

Redelivered(m) == queue (+) SetToBag({m})

Failure ==
  /\ failures < MaxFailures
  /\ failures' = failures + 1
  /\ request' = request

Suffers(w, kind) == running[w] # Idle /\ <<Serves[w], kind>> \in Loss

(* A worker's machine stops: what it had not acknowledged comes back.      *)
LoseNode(w) ==
  /\ Suffers(w, "node") /\ Failure
  /\ queue' = Redelivered(running[w].message)
  /\ running' = [running EXCEPT ![w] = Idle]
  /\ dropped' = dropped

(* The child process alone is killed: its parent acknowledges the message, *)
(* task_reject_on_worker_lost being off.                                   *)
LoseChild(w) ==
  /\ Suffers(w, "child") /\ Failure
  /\ queue' = queue
  /\ running' = [running EXCEPT ![w] = Idle]
  /\ dropped' = dropped \cup {running[w].message}

(* A task runs for longer than the broker waits for its acknowledgement.   *)
ExceedVisibility(w) ==
  /\ Suffers(w, "visibility") /\ Failure
  /\ queue' = Redelivered(running[w].message)
  /\ UNCHANGED <<running, dropped>>
================================================================================
