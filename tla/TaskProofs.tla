------------------------------ MODULE TaskProofs ------------------------------
(***************************************************************************)
(* Two facts about the background tasks, for any number of requests,       *)
(* workers, losses and retries: a rendition that is READY has its object,  *)
(* and tasks that do not meet keep the audit chain verifiable.             *)
(***************************************************************************)
EXTENDS BackgroundTasks, FiniteSetTheorems, TLAPS

(* What a worker process holds: a message and, once it has chosen one, the *)
(* tail of the audit chain.                                                *)
Holding(job) ==
  /\ job = [field \in DOMAIN job |-> job[field]]
  /\ "step" \in DOMAIN job
  /\ job # Idle => "message" \in DOMAIN job

RowsOK ==
  /\ rendition \in [Request -> [status : RenditionStatus, key : BOOLEAN]]
  /\ DOMAIN running = Worker
  /\ \A w \in Worker : Holding(running[w])

(* The object is stored before its row is marked, and never removed.       *)
UploadedHasObject == \A w \in Worker : running[w].step = "uploaded" => Row(w) \in objects

RenditionInv == RowsOK /\ UploadedHasObject /\ ReadyHasObject

-----------------------------------------------------------------------------
LEMMA Holdings ==
  /\ Holding(Idle)
  /\ \A step, m : Holding([step |-> step, message |-> m])
  /\ \A step, m, row : Holding([step |-> step, message |-> m, loaded |-> row])
  /\ \A step, m, row, tail :
       Holding([step |-> step, message |-> m, loaded |-> row, tail |-> tail])
BY DEF Holding, Idle

LEMMA RenditionInitially == Init => RenditionInv
BY Holdings DEF Init, BrokerInit, RenditionInit, RenditionInv, RowsOK, UploadedHasObject,
                ReadyHasObject, Idle, RenditionStatus

(* A process that advances keeps its message.                              *)
LEMMA Advances ==
  ASSUME NEW job, Holding(job), job # Idle, NEW step
  PROVE  /\ Holding([job EXCEPT !.step = step])
         /\ [job EXCEPT !.step = step].step = step
         /\ [job EXCEPT !.step = step].message = job.message
BY DEF Holding, Idle

(* A step that leaves the renditions alone and starts no upload.           *)
Elsewhere ==
  /\ rendition' = rendition /\ objects' = objects
  /\ DOMAIN running' = Worker
  /\ \A w \in Worker : /\ Holding(running'[w])
                       /\ \/ running'[w] = running[w]
                          \/ running'[w].step # "uploaded"

LEMMA ElsewhereKeeps ==
  ASSUME RenditionInv, Elsewhere
  PROVE  RenditionInv'
BY DEF RenditionInv, RowsOK, UploadedHasObject, ReadyHasObject, Row, Elsewhere

LEMMA IdleAgain ==
  ASSUME RowsOK, NEW w \in Worker, running' = [running EXCEPT ![w] = Idle],
         rendition' = rendition, objects' = objects
  PROVE  Elsewhere
BY Holdings DEF Elsewhere, RowsOK, Idle

LEMMA MovesOn ==
  ASSUME RowsOK, NEW w \in Worker, NEW step, running[w] # Idle, Moves(w, step)
  PROVE  /\ DOMAIN running' = Worker
         /\ \A v \in Worker : Holding(running'[v])
         /\ running'[w].step = step /\ Row(w)' = Row(w)
         /\ \A v \in Worker \ {w} : running'[v] = running[v]
<1>1. running' = [running EXCEPT ![w] = [running[w] EXCEPT !.step = step]]
  BY DEF Moves
<1>2. Holding(running[w])
  BY DEF RowsOK
<1> QED
  BY <1>1, <1>2, Advances DEF RowsOK, Row

(* Nothing takes an object away.                                           *)
LEMMA UploadsStay ==
  ASSUME RowsOK, UploadedHasObject, NEW w \in Worker, NEW step,
         running[w] # Idle, Moves(w, step),
         objects \subseteq objects', step = "uploaded" => Row(w) \in objects'
  PROVE  UploadedHasObject'
<1> SUFFICES ASSUME NEW v \in Worker, running'[v].step = "uploaded"
             PROVE  Row(v)' \in objects'
  BY DEF UploadedHasObject
<1>1. CASE v = w
  BY <1>1, MovesOn
<1>2. CASE v # w
  BY <1>2, MovesOn DEF UploadedHasObject, Row
<1> QED
  BY <1>1, <1>2

LEMMA BrokerElsewhere ==
  ASSUME RowsOK, NEW w \in Worker, UNCHANGED renditionVars,
         Take(w) \/ Acknowledge(w) \/ LoseNode(w) \/ LoseChild(w) \/ ExceedVisibility(w)
                 \/ RetryHash(w) \/ RefuseHash(w)
  PROVE  Elsewhere
<1> USE DEF renditionVars
<1>1. CASE Take(w)
  <2>1. PICK m \in BagToSet(queue) :
          running' = [running EXCEPT ![w] = [step |-> "taken", message |-> m]]
    BY <1>1 DEF Take
  <2> QED
    BY <2>1, Holdings DEF Elsewhere, RowsOK, renditionVars
<1>2. CASE ExceedVisibility(w)
  BY <1>2 DEF ExceedVisibility, Elsewhere, RowsOK
<1>3. CASE Acknowledge(w) \/ LoseNode(w) \/ LoseChild(w) \/ RetryHash(w) \/ RefuseHash(w)
  BY <1>3, IdleAgain DEF Acknowledge, LoseNode, LoseChild, RetryHash, RefuseHash, TryAgain
<1> QED
  BY <1>1, <1>2, <1>3

LEMMA HashElsewhere ==
  ASSUME RowsOK, NEW w \in Worker, HashStep(w), UNCHANGED renditionVars
  PROVE  Elsewhere
<1> USE DEF renditionVars
<1>1. ASSUME NEW job, Holding(job), job.step # "uploaded", running' = [running EXCEPT ![w] = job]
      PROVE  Elsewhere
  BY <1>1 DEF Elsewhere, RowsOK
<1>2. CASE ChooseTail(w)
  <2>1. PICK tail : running' = [running EXCEPT ![w] =
          [step |-> "chosen", message |-> running[w].message, loaded |-> running[w].loaded,
           tail |-> tail]]
    BY <1>2 DEF ChooseTail
  <2> QED
    BY <1>1, <2>1, Holdings
<1>3. ASSUME NEW step, step # "uploaded", running[w] # Idle, Moves(w, step)
      PROVE  Elsewhere
  BY <1>3, MovesOn DEF Elsewhere
<1>4. CASE LoadRecord(w)
  <2>1. CASE running' = [running EXCEPT ![w] =
          [step |-> "loaded", message |-> running[w].message, loaded |-> audit[Row(w)]]]
    BY <1>1, <2>1, Holdings
  <2>2. CASE Moves(w, "done")
    BY <1>3, <1>4, <2>2 DEF LoadRecord, At, Idle
  <2> QED
    BY <1>4, <2>1, <2>2 DEF LoadRecord
<1>5. CASE LockTail(w) \/ StoreHashes(w)
  BY <1>3, <1>5 DEF LockTail, StoreHashes, At, Idle
<1>6. CASE RefuseHash(w)
  BY <1>6, BrokerElsewhere
<1> QED
  BY <1>2, <1>4, <1>5, <1>6 DEF HashStep

-----------------------------------------------------------------------------
(* The steps of the rendition task.                                        *)
LEMMA RenderKeeps ==
  ASSUME RenditionInv, NEW w \in Worker, RenderStep(w) \/ RaiseRendition(w)
  PROVE  RenditionInv'
<1> USE DEF RenditionInv
<1>1. running[w] # Idle
  BY DEF RenderStep, LoadRendition, Upload, MarkReady, MarkFailed, RaiseRendition, At, Idle
<1>2. ASSUME NEW step, Moves(w, step),
             rendition' \in [Request -> [status : RenditionStatus, key : BOOLEAN]]
      PROVE  RowsOK'
  BY <1>1, <1>2, MovesOn DEF RowsOK
<1>3. CASE LoadRendition(w)
  <2>1. /\ Moves(w, "processing") \/ Moves(w, "done")
        /\ rendition' \in [Request -> [status : RenditionStatus, key : BOOLEAN]]
        /\ objects' = objects
        /\ \A r \in Request : rendition'[r].status = "READY" => rendition'[r] = rendition[r]
    BY <1>3 DEF LoadRendition, RowsOK, RenditionStatus
  <2>2. UploadedHasObject'
    BY <1>1, <2>1, UploadsStay
  <2> QED
    BY <1>2, <2>1, <2>2 DEF ReadyHasObject
<1>4. CASE Upload(w)
  <2>1. /\ Moves(w, "uploaded") /\ rendition' = rendition
        /\ objects' = objects \cup {Row(w)}
    BY <1>4 DEF Upload
  <2>2. UploadedHasObject'
    BY <1>1, <2>1, UploadsStay
  <2> QED
    BY <1>2, <2>1, <2>2 DEF ReadyHasObject, RowsOK
<1>5. CASE MarkReady(w)
  <2>1. /\ Moves(w, "done") /\ objects' = objects
        /\ rendition' = [rendition EXCEPT ![Row(w)] = [status |-> "READY", key |-> TRUE]]
        /\ running[w].step = "uploaded"
    BY <1>5 DEF MarkReady, At
  <2>2. UploadedHasObject'
    BY <1>1, <2>1, UploadsStay
  <2>3. rendition' \in [Request -> [status : RenditionStatus, key : BOOLEAN]]
    BY <2>1 DEF RowsOK, RenditionStatus
  <2>4. ReadyHasObject'
    BY <2>1 DEF ReadyHasObject, RowsOK, UploadedHasObject
  <2> QED
    BY <1>2, <2>1, <2>2, <2>3, <2>4
<1>6. CASE MarkFailed(w)
  <2>1. /\ Moves(w, "done") /\ objects' = objects
        /\ rendition' \in [Request -> [status : RenditionStatus, key : BOOLEAN]]
        /\ \A r \in Request : rendition'[r].status = "READY" => rendition'[r] = rendition[r]
    BY <1>6 DEF MarkFailed, RowsOK, RenditionStatus
  <2>2. UploadedHasObject'
    BY <1>1, <2>1, UploadsStay
  <2> QED
    BY <1>2, <2>1, <2>2 DEF ReadyHasObject
<1>7. CASE RaiseRendition(w)
  <2>1. Moves(w, "done") /\ UNCHANGED <<rendition, objects>>
    BY <1>7 DEF RaiseRendition, renditionVars
  <2>2. UploadedHasObject'
    BY <1>1, <2>1, UploadsStay
  <2> QED
    BY <1>2, <2>1, <2>2 DEF ReadyHasObject, RowsOK
<1> QED
  BY <1>3, <1>4, <1>5, <1>6, <1>7 DEF RenderStep

(* Requests set a row back to PENDING at most.                             *)
LEMMA RequestKeeps ==
  ASSUME RenditionInv, UNCHANGED <<running, objects>>,
         NEW r \in Request, NEW row \in [status : {"PENDING"}, key : BOOLEAN],
         rendition' = [rendition EXCEPT ![r] = row]
  PROVE  RenditionInv'
BY DEF RenditionInv, RowsOK, UploadedHasObject, Row, ReadyHasObject, RenditionStatus

LEMMA RenditionStep ==
  ASSUME RenditionInv, [Next]_vars
  PROVE  RenditionInv'
<1>1. RowsOK
  BY DEF RenditionInv
<1>2. ASSUME UNCHANGED <<running, objects, rendition>>
      PROVE  RenditionInv'
  BY <1>2 DEF RenditionInv, RowsOK, UploadedHasObject, Row, ReadyHasObject
<1>3. ASSUME NEW r \in Request, UploadVersion(r) \/ ChangeSomething(r)
      PROVE  RenditionInv'
  BY <1>2, <1>3, RequestKeeps DEF UploadVersion, ChangeSomething, Opens, CreateRenditionRequest
<1>4. ASSUME NEW r \in Request, BeginRetry(r)
      PROVE  RenditionInv'
  BY <1>2, <1>4 DEF BeginRetry
<1>5. ASSUME NEW r \in Request, EndRetry(r)
      PROVE  RenditionInv'
  <2>1. CASE rendition' = [rendition EXCEPT ![r].status = "PENDING"]
    <3> DEFINE row == [rendition[r] EXCEPT !.status = "PENDING"]
    <3>1. row \in [status : {"PENDING"}, key : BOOLEAN]
      BY <1>1 DEF RowsOK
    <3>2. rendition' = [rendition EXCEPT ![r] = row] /\ UNCHANGED <<running, objects>>
      BY <1>5, <2>1 DEF EndRetry
    <3> HIDE DEF row
    <3> QED
      BY <3>1, <3>2, RequestKeeps
  <2>2. CASE rendition' = rendition
    BY <1>2, <1>5, <2>2 DEF EndRetry
  <2> QED
    BY <1>5, <2>1, <2>2 DEF EndRetry
<1>6. ASSUME NEW w \in Worker, Work(w) \/ Trouble(w)
      PROVE  RenditionInv'
  <2>1. CASE RenderStep(w) \/ RaiseRendition(w)
    BY <2>1, RenderKeeps
  <2>2. CASE HashStep(w) /\ UNCHANGED renditionVars
    BY <1>1, <2>2, HashElsewhere, ElsewhereKeeps
  <2>3. CASE /\ UNCHANGED renditionVars
             /\ Take(w) \/ Acknowledge(w) \/ LoseNode(w) \/ LoseChild(w)
                        \/ ExceedVisibility(w) \/ RetryHash(w)
    BY <1>1, <2>3, BrokerElsewhere, ElsewhereKeeps
  <2> QED
    BY <1>6, <2>1, <2>2, <2>3 DEF Work, Trouble
<1>7. CASE UNCHANGED vars
  BY <1>2, <1>7 DEF vars, brokerVars, renditionVars
<1>8. ASSUME NEW r \in Request, EndRequest(r), UNCHANGED <<auditVars, renditionVars>>
      PROVE  RenditionInv'
  BY <1>2, <1>8 DEF EndRequest, renditionVars
<1> QED
  BY <1>3, <1>4, <1>5, <1>6, <1>7, <1>8 DEF Next

(* A rendition offered for download has its object in the store, whoever   *)
(* dies between the upload and the commit, and however often its task is   *)
(* delivered or retried (rendition.py 143-152, 276-288).                   *)
THEOREM DownloadsHaveTheirObject == Spec => []ReadyHasObject
<1>1. RenditionInv => ReadyHasObject
  BY DEF RenditionInv
<1> QED
  BY RenditionInitially, RenditionStep, <1>1, PTL DEF Spec

-----------------------------------------------------------------------------
(* The audit chain.  From its loading the record to its storing the hashes *)
(* a process is linking.                                                   *)
Linking == {"loaded", "chosen", "locked"}

Processes ==
  /\ DOMAIN running = Worker
  /\ \A w \in Worker :
       Holding(running[w]) /\ (running[w] # Idle => running[w].message \in Message)

Waiting == DOMAIN queue \subseteq Message

Rows ==
  /\ DOMAIN audit = Request /\ DOMAIN request = Request
  /\ \A r \in Request : Chained(r) => Visible(r)

(* What is linked is the record of a request that has committed.           *)
Working(w) ==
  running[w].step \in Linking =>
    /\ running[w].message.task = "hash" /\ Visible(Row(w))
    /\ "loaded" \in DOMAIN running[w]

(* The tail that was chosen is still the last record.                      *)
Ahead(w) ==
  running[w].step \in {"chosen", "locked"} =>
    /\ "tail" \in DOMAIN running[w]
    /\ \/ running[w].tail \in Tails
       \/ Chain = {} /\ running[w].tail = GENESIS

Links ==
  /\ IsFiniteSet(Chain)
  /\ {audit[r].chain_sequence : r \in Chain} = 1 .. Cardinality(Chain)
  /\ \A r, s \in Chain : audit[r].chain_sequence = audit[s].chain_sequence => r = s
  /\ \A r \in Chain :
       \/ /\ audit[r].chain_sequence = 1
          /\ audit[r].chain_hash = <<r>> \o GENESIS
       \/ \E s \in Chain : /\ audit[s].chain_sequence = audit[r].chain_sequence - 1
                           /\ audit[r].chain_hash = <<r>> \o audit[s].chain_hash

(* Once two tasks have met nothing is said of the links; until then every  *)
(* task that has chosen its tail is ahead of the others, because the first *)
(* one to store would disturb it.                                          *)
ChainInv ==
  /\ Processes /\ Waiting /\ Rows
  /\ \A w \in Worker : Working(w)
  /\ ~ disturbed => Links /\ \A w \in Worker : Ahead(w)

-----------------------------------------------------------------------------
LEMMA HashMessages ==
  /\ \A r \in Request : Hash(r) \in Message /\ Render(r) \in Message
  /\ \A m \in Message : m.row \in Request
BY DEF Message, Hash, Render

(* The queue holds messages, also with some more or some less.             *)
LEMMA QueueChanges ==
  ASSUME Waiting, NEW S \in SUBSET Message,
         queue' = queue (+) SetToBag(S) \/ queue' = queue (-) SetToBag(S) \/ queue' = queue
  PROVE  Waiting'
BY DEF Waiting, (+), (-), SetToBag

(* The links of a chain that stays as it is.                               *)
LEMMA SameChain ==
  ASSUME Chain' = Chain, \A r \in Chain : audit'[r] = audit[r]
  PROVE  (Links => Links') /\ Tails' = Tails
<1>1. Tails' = Tails
  BY DEF Tails
<1> SUFFICES ASSUME Links PROVE Links'
  BY <1>1
<1>2. {audit'[r].chain_sequence : r \in Chain} = {audit[r].chain_sequence : r \in Chain}
  OBVIOUS
<1>3. {audit'[r].chain_sequence : r \in Chain'} = 1 .. Cardinality(Chain')
  BY <1>2 DEF Links
<1>4. IsFiniteSet(Chain')
  BY DEF Links
<1>5. \A r, s \in Chain' : audit'[r].chain_sequence = audit'[s].chain_sequence => r = s
  BY DEF Links
<1>6. \A r \in Chain' :
        \/ /\ audit'[r].chain_sequence = 1
           /\ audit'[r].chain_hash = <<r>> \o GENESIS
        \/ \E s \in Chain' : /\ audit'[s].chain_sequence = audit'[r].chain_sequence - 1
                             /\ audit'[r].chain_hash = <<r>> \o audit'[s].chain_hash
  <2> TAKE r \in Chain'
  <2>1. audit'[r] = audit[r] /\ r \in Chain
    OBVIOUS
  <2>2. CASE \E s \in Chain : /\ audit[s].chain_sequence = audit[r].chain_sequence - 1
                              /\ audit[r].chain_hash = <<r>> \o audit[s].chain_hash
    <3>1. PICK s \in Chain : /\ audit[s].chain_sequence = audit[r].chain_sequence - 1
                             /\ audit[r].chain_hash = <<r>> \o audit[s].chain_hash
      BY <2>2
    <3>2. s \in Chain' /\ audit'[s] = audit[s]
      BY <3>1
    <3> QED
      BY <2>1, <3>1, <3>2
  <2> QED
    BY <2>1, <2>2 DEF Links
<1> QED
  BY <1>3, <1>4, <1>5, <1>6 DEF Links

(* What the verification recomputes is what the links say.                 *)
LEMMA LinksVerify == ASSUME Rows, Links PROVE Verified
<1> SUFFICES ASSUME NEW r \in Chain
             PROVE  audit[r].chain_hash =
                      <<r>> \o (IF audit[r].chain_sequence = 1 THEN GENESIS
                        ELSE audit[CHOOSE s \in Chain : audit[s].chain_sequence
                                             = audit[r].chain_sequence - 1].chain_hash)
  BY DEF Verified, Links
<1>1. CASE audit[r].chain_sequence = 1
  <2>1. \A s \in Chain : audit[s].chain_sequence # 0
    BY DEF Chain, Chained
  <2> QED
    BY <1>1, <2>1 DEF Links
<1>2. CASE audit[r].chain_sequence # 1
  <2>1. PICK s \in Chain : /\ audit[s].chain_sequence = audit[r].chain_sequence - 1
                           /\ audit[r].chain_hash = <<r>> \o audit[s].chain_hash
    BY <1>2 DEF Links
  <2>2. \A x \in Chain : audit[x].chain_sequence = audit[r].chain_sequence - 1 => x = s
    BY <2>1 DEF Links
  <2>3. (CHOOSE x \in Chain : audit[x].chain_sequence = audit[r].chain_sequence - 1) = s
    BY <2>1, <2>2
  <2> QED
    BY <1>2, <2>1, <2>3
<1> QED
  BY <1>1, <1>2

LEMMA ChainInitially == Init => ChainInv
<1> SUFFICES ASSUME Init PROVE ChainInv
  OBVIOUS
<1> USE DEF Init, BrokerInit, AuditInit
<1>1. Waiting
  BY DEF Waiting, EmptyBag, SetToBag
<1>2. Processes /\ Rows
  BY Holdings DEF Processes, Rows, Chained, Unchained
<1>3. Chain = {}
  BY DEF Chain, Visible
<1>4. Links
  BY <1>3, FS_EmptySet DEF Links
<1>5. \A w \in Worker : Working(w) /\ Ahead(w)
  BY DEF Working, Ahead, Linking, Idle
<1> QED
  BY <1>1, <1>2, <1>4, <1>5 DEF ChainInv

-----------------------------------------------------------------------------
(* A step that leaves the chain as it is.  A process that it moves is not  *)
(* linking afterwards, or links as it should.                              *)
LEMMA ChainStays ==
  ASSUME ChainInv, Chain' = Chain, \A r \in Chain : audit'[r] = audit[r],
         disturbed' = disturbed, \A r \in Request : Visible(r) => Visible(r)',
         Processes', Waiting', Rows',
         \A w \in Worker : \/ running'[w] = running[w]
                           \/ running'[w].step \notin Linking
                           \/ Working(w)' /\ (~ disturbed => Ahead(w)')
  PROVE  ChainInv'
<1>1. (Links => Links') /\ Tails' = Tails
  BY SameChain
<1>2. ASSUME NEW w \in Worker, running'[w] = running[w]
      PROVE  Working(w)' /\ (~ disturbed => Ahead(w)')
  <2>1. Row(w)' = Row(w)
    BY <1>2 DEF Row
  <2>2. running[w].step \in Linking => Row(w) \in Request
    BY HashMessages DEF ChainInv, Processes, Row, Linking, Idle
  <2>3. Working(w)'
    BY <1>2, <2>1, <2>2 DEF ChainInv, Working
  <2>4. ~ disturbed => Ahead(w)'
    BY <1>1, <1>2 DEF ChainInv, Ahead
  <2> QED
    BY <2>3, <2>4
<1>3. ASSUME NEW w \in Worker, running'[w].step \notin Linking
      PROVE  Working(w)' /\ Ahead(w)'
  BY <1>3 DEF Working, Ahead, Linking
<1>4. \A w \in Worker : Working(w)' /\ (~ disturbed => Ahead(w)')
  BY <1>2, <1>3
<1> QED
  BY <1>1, <1>4 DEF ChainInv

(* A process that goes on with a record, or with nothing.                  *)
LEMMA ProcessesAfter ==
  ASSUME Processes, NEW w \in Worker, NEW job, running' = [running EXCEPT ![w] = job],
         Holding(job), job # Idle => job.message \in Message
  PROVE  /\ Processes' /\ running'[w] = job
         /\ \A v \in Worker \ {w} : running'[v] = running[v]
BY DEF Processes

LEMMA ProcessMoves ==
  ASSUME Processes, NEW w \in Worker, NEW step, running[w] # Idle, Moves(w, step)
  PROVE  /\ Processes' /\ running'[w].step = step /\ running'[w].message = running[w].message
         /\ DOMAIN running'[w] = DOMAIN running[w]
         /\ "tail" \in DOMAIN running[w] => running'[w].tail = running[w].tail
         /\ \A v \in Worker \ {w} : running'[v] = running[v]
<1> DEFINE job == [running[w] EXCEPT !.step = step]
<1>1. Holding(running[w]) /\ running[w].message \in Message
  BY DEF Processes
<1>2. Holding(job) /\ job.step = step /\ job.message = running[w].message
  BY <1>1, Advances
<1>3. /\ "tail" \in DOMAIN running[w] => job.tail = running[w].tail
      /\ DOMAIN job = DOMAIN running[w]
  BY <1>1 DEF Holding
<1>4. running' = [running EXCEPT ![w] = job]
  BY DEF Moves
<1> HIDE DEF job
<1> QED
  BY <1>1, <1>2, <1>3, <1>4, ProcessesAfter

(* A step of one process that touches no row.                              *)
LEMMA ProcessKeepsChain ==
  ASSUME ChainInv, NEW w \in Worker, UNCHANGED <<request, auditVars>>, Processes', Waiting',
         \A v \in Worker \ {w} : running'[v] = running[v],
         \/ running'[w].step \notin Linking
         \/ Working(w)' /\ (~ disturbed => Ahead(w)')
  PROVE  ChainInv'
<1>1. Chain' = Chain /\ Rows' /\ \A r \in Request : Visible(r)' = Visible(r)
  BY DEF auditVars, Chain, Visible, Chained, Rows, ChainInv
<1> QED
  BY <1>1, ChainStays DEF auditVars

(* What the broker does, and tasks that end without a link.                *)
LEMMA BrokerKeepsChain ==
  ASSUME ChainInv, NEW w \in Worker, UNCHANGED auditVars,
         Take(w) \/ Acknowledge(w) \/ LoseNode(w) \/ LoseChild(w) \/ ExceedVisibility(w)
  PROVE  ChainInv'
<1>1. Processes /\ Waiting /\ UNCHANGED request
  BY DEF ChainInv, Take, Acknowledge, LoseNode, LoseChild, ExceedVisibility, Failure
<1>2. CASE Take(w)
  <2>1. PICK m \in BagToSet(queue) :
          /\ queue' = queue (-) SetToBag({m})
          /\ running' = [running EXCEPT ![w] = [step |-> "taken", message |-> m]]
    BY <1>2 DEF Take
  <2>2. m \in Message /\ {m} \in SUBSET Message
    BY <1>1, <2>1 DEF Waiting, BagToSet
  <2>3. Waiting'
    BY <1>1, <2>1, <2>2, QueueChanges
  <2> DEFINE job == [step |-> "taken", message |-> m]
  <2>4. Holding(job) /\ job.message \in Message /\ job.step \notin Linking
    BY <2>2, Holdings DEF Linking
  <2>5. running' = [running EXCEPT ![w] = job]
    BY <2>1
  <2> HIDE DEF job
  <2> QED
    BY <1>1, <2>3, <2>4, <2>5, ProcessesAfter, ProcessKeepsChain
<1>3. CASE Acknowledge(w) \/ LoseNode(w) \/ LoseChild(w)
  <2>1. /\ running' = [running EXCEPT ![w] = Idle] /\ running[w] # Idle
        /\ queue' = queue \/ queue' = queue (+) SetToBag({running[w].message})
    BY <1>3 DEF Acknowledge, LoseNode, LoseChild, Suffers, Redelivered, Idle
  <2>2. Waiting'
    <3>1. {running[w].message} \in SUBSET Message
      BY <1>1, <2>1 DEF Processes
    <3> QED
      BY <1>1, <2>1, <3>1, QueueChanges
  <2>3. Holding(Idle) /\ Idle.step \notin Linking
    BY Holdings DEF Idle, Linking
  <2> QED
    BY <1>1, <2>1, <2>2, <2>3, ProcessesAfter, ProcessKeepsChain
<1>4. CASE ExceedVisibility(w)
  <2>1. /\ running' = running /\ running[w] # Idle
        /\ queue' = queue (+) SetToBag({running[w].message})
    BY <1>4 DEF ExceedVisibility, Suffers, Redelivered
  <2>2. {running[w].message} \in SUBSET Message
    BY <1>1, <2>1 DEF Processes
  <2>3. Waiting' /\ Processes'
    BY <1>1, <2>1, <2>2, QueueChanges DEF Processes
  <2>4. Chain' = Chain /\ Rows' /\ \A r \in Request : Visible(r)' = Visible(r)
    BY <1>1 DEF auditVars, Chain, Visible, Chained, Rows, ChainInv
  <2> QED
    BY <2>1, <2>3, <2>4, ChainStays DEF auditVars
<1> QED
  BY <1>2, <1>3, <1>4

LEMMA RenderKeepsChain ==
  ASSUME ChainInv, NEW w \in Worker, RenderStep(w) \/ RaiseRendition(w), UNCHANGED auditVars
  PROVE  ChainInv'
<1>1. running[w] # Idle /\ UNCHANGED <<request, queue>>
  BY DEF RenderStep, LoadRendition, Upload, MarkReady, MarkFailed, RaiseRendition, At, Idle
<1>2. PICK step \in {"processing", "uploaded", "done"} : Moves(w, step)
  BY DEF RenderStep, LoadRendition, Upload, MarkReady, MarkFailed, RaiseRendition
<1>3. /\ Processes' /\ running'[w].step = step
      /\ \A v \in Worker \ {w} : running'[v] = running[v]
  BY <1>1, <1>2, ProcessMoves DEF ChainInv
<1>4. Waiting'
  BY <1>1 DEF ChainInv, Waiting
<1> QED
  BY <1>1, <1>3, <1>4, ProcessKeepsChain DEF Linking

LEMMA RetryKeepsChain ==
  ASSUME ChainInv, NEW r \in Request, BeginRetry(r) \/ EndRetry(r), UNCHANGED auditVars
  PROVE  ChainInv'
<1>1. /\ running' = running /\ request' = request
      /\ queue' = queue \/ queue' = queue (+) SetToBag({Render(r)})
  BY DEF BeginRetry, EndRetry, Send
<1>2. Waiting' /\ Processes'
  <2>1. {Render(r)} \in SUBSET Message
    BY HashMessages
  <2> QED
    BY <1>1, <2>1, QueueChanges DEF ChainInv, Processes
<1>3. Chain' = Chain /\ Rows' /\ \A s \in Request : Visible(s)' = Visible(s)
  BY <1>1 DEF auditVars, Chain, Visible, Chained, Rows, ChainInv
<1> QED
  BY <1>1, <1>2, <1>3, ChainStays DEF auditVars

-----------------------------------------------------------------------------
(* The requests.                                                           *)
LEMMA OpenKeepsChain ==
  ASSUME ChainInv, NEW r \in Request, UploadVersion(r) \/ ChangeSomething(r)
  PROVE  ChainInv'
<1>1. /\ running' = running /\ request[r] = "new" /\ disturbed' = disturbed
      /\ request' = [request EXCEPT ![r] = "open"]
      /\ audit' = [audit EXCEPT ![r] = Unchained]
      /\ \E S \in {{Hash(r)}, {Hash(r), Render(r)}} : queue' = queue (+) SetToBag(S)
  BY DEF UploadVersion, ChangeSomething, Opens, CreateAuditRecord, Send
<1>2. Waiting' /\ Processes'
  <2>1. {Hash(r)} \in SUBSET Message /\ {Hash(r), Render(r)} \in SUBSET Message
    BY HashMessages
  <2> QED
    BY <1>1, <2>1, QueueChanges DEF ChainInv, Processes
<1>3. Rows
  BY DEF ChainInv
<1>4. /\ ~ Chained(r)' /\ ~ Visible(r) /\ ~ Visible(r)'
      /\ \A s \in Request \ {r} : audit'[s] = audit[s] /\ request'[s] = request[s]
  BY <1>1, <1>3 DEF Rows, Chained, Unchained, Visible
<1>5. Rows' /\ \A s \in Request : Visible(s) => Visible(s)'
  BY <1>1, <1>3, <1>4 DEF Rows, Chained, Visible, Unchained
<1>6. Chain' = Chain /\ \A s \in Chain : audit'[s] = audit[s]
  BY <1>4 DEF Chain, Visible, Chained
<1> QED
  BY <1>1, <1>2, <1>5, <1>6, ChainStays

LEMMA EndKeepsChain ==
  ASSUME ChainInv, NEW r \in Request, EndRequest(r), UNCHANGED auditVars
  PROVE  ChainInv'
<1>1. PICK outcome \in {"committed", "aborted"} : request' = [request EXCEPT ![r] = outcome]
  BY DEF EndRequest
<1>2. running' = running /\ queue' = queue /\ request[r] = "open" /\ Rows
  BY DEF EndRequest, ChainInv
<1>3. \A s \in Request : Visible(s) => Visible(s)'
  BY <1>1, <1>2 DEF Visible, Rows
<1>4. Rows' /\ Chain' = Chain
  BY <1>1, <1>2, <1>3 DEF Rows, Chain, Chained, auditVars
<1>5. Waiting' /\ Processes'
  BY <1>2 DEF ChainInv, Waiting, Processes
<1> QED
  BY <1>2, <1>3, <1>4, <1>5, ChainStays DEF auditVars

-----------------------------------------------------------------------------
(* The task that hashes: it reads.                                         *)
LEMMA LoadKeepsChain ==
  ASSUME ChainInv, NEW w \in Worker, LoadRecord(w)
  PROVE  ChainInv'
<1>1. /\ running[w] # Idle /\ running[w].message.task = "hash" /\ Processes
      /\ UNCHANGED <<request, queue, auditVars>>
  BY DEF LoadRecord, At, Idle, ChainInv
<1>2. Waiting'
  BY <1>1 DEF ChainInv, Waiting
<1>3. CASE Visible(Row(w))
  <2> DEFINE job == [step |-> "loaded", message |-> running[w].message, loaded |-> audit[Row(w)]]
  <2>1. running' = [running EXCEPT ![w] = job]
    BY <1>3 DEF LoadRecord
  <2>2. /\ Holding(job) /\ job.message = running[w].message /\ job.step = "loaded"
        /\ "loaded" \in DOMAIN job
    BY DEF Holding
  <2> HIDE DEF job
  <2>3. /\ Processes' /\ running'[w] = job
        /\ \A v \in Worker \ {w} : running'[v] = running[v]
    BY <1>1, <2>1, <2>2, ProcessesAfter DEF Processes
  <2>4. Working(w)' /\ Ahead(w)'
    BY <1>1, <1>3, <2>2, <2>3 DEF Working, Ahead, Row, Visible
  <2> QED
    BY <1>1, <1>2, <2>3, <2>4, ProcessKeepsChain
<1>4. CASE ~ Visible(Row(w))
  BY <1>1, <1>2, <1>4, ProcessMoves, ProcessKeepsChain DEF LoadRecord, Linking
<1> QED
  BY <1>3, <1>4

(* A chain that is not empty has a last record.                            *)
LEMMA ChainHasTail == ASSUME Links, Chain # {} PROVE Tails # {}
<1>1. Cardinality(Chain) \in Nat /\ Cardinality(Chain) # 0
  BY FS_CardinalityType, FS_EmptySet DEF Links
<1>2. PICK r \in Chain : audit[r].chain_sequence = Cardinality(Chain)
  BY <1>1 DEF Links
<1>3. \A s \in Chain : audit[s].chain_sequence \in 1 .. Cardinality(Chain)
  BY DEF Links
<1> QED
  BY <1>1, <1>2, <1>3 DEF Tails

LEMMA ChooseKeepsChain ==
  ASSUME ChainInv, NEW w \in Worker, ChooseTail(w)
  PROVE  ChainInv'
<1>1. /\ running[w] # Idle /\ running[w].message.task = "hash" /\ Processes
      /\ UNCHANGED <<request, queue, auditVars>> /\ Working(w) /\ running[w].step = "loaded"
  BY DEF ChooseTail, At, Idle, ChainInv
<1>2. PICK tail \in IF Tails = {} THEN {GENESIS} ELSE Tails :
        running' = [running EXCEPT ![w] =
          [step |-> "chosen", message |-> running[w].message, loaded |-> running[w].loaded,
           tail |-> tail]]
  BY DEF ChooseTail
<1> DEFINE job == [step |-> "chosen", message |-> running[w].message,
                   loaded |-> running[w].loaded, tail |-> tail]
<1>3. /\ Holding(job) /\ job.message = running[w].message /\ job.step = "chosen"
      /\ {"loaded", "tail"} \subseteq DOMAIN job /\ job.tail = tail
  BY DEF Holding
<1>4. running' = [running EXCEPT ![w] = job]
  BY <1>2
<1> HIDE DEF job
<1>5. /\ Processes' /\ running'[w] = job
      /\ \A v \in Worker \ {w} : running'[v] = running[v]
  BY <1>1, <1>3, <1>4, ProcessesAfter DEF Processes
<1>6. Working(w)'
  BY <1>1, <1>3, <1>5 DEF Working, Row, Visible, Linking
<1>7. ASSUME ~ disturbed PROVE Ahead(w)'
  <2>1. Tails = {} => Chain = {}
    BY <1>7, ChainHasTail DEF ChainInv
  <2>2. Tails' = Tails /\ Chain' = Chain
    BY <1>1 DEF Tails, Chain, Visible, Chained, auditVars
  <2> QED
    BY <1>2, <1>3, <1>5, <2>1, <2>2 DEF Ahead
<1>8. Waiting'
  BY <1>1 DEF ChainInv, Waiting
<1> QED
  BY <1>1, <1>5, <1>6, <1>7, <1>8, ProcessKeepsChain

LEMMA LockKeepsChain ==
  ASSUME ChainInv, NEW w \in Worker, LockTail(w)
  PROVE  ChainInv'
<1>1. /\ running[w] # Idle /\ Processes /\ running[w].step = "chosen" /\ Moves(w, "locked")
      /\ UNCHANGED <<request, queue, auditVars>> /\ Working(w) /\ (~ disturbed => Ahead(w))
  BY DEF LockTail, At, Idle, ChainInv
<1>2. /\ Processes' /\ running'[w].step = "locked" /\ running'[w].message = running[w].message
      /\ DOMAIN running'[w] = DOMAIN running[w]
      /\ "tail" \in DOMAIN running[w] => running'[w].tail = running[w].tail
      /\ \A v \in Worker \ {w} : running'[v] = running[v]
  BY <1>1, ProcessMoves
<1>3. Working(w)'
  BY <1>1, <1>2 DEF Working, Row, Visible, Linking
<1>4. Tails' = Tails /\ Chain' = Chain /\ Waiting'
  BY <1>1 DEF Tails, Chain, Visible, Chained, auditVars, ChainInv, Waiting
<1>5. ~ disturbed => Ahead(w)'
  BY <1>1, <1>2, <1>4 DEF Ahead
<1> QED
  BY <1>1, <1>2, <1>3, <1>4, <1>5, ProcessKeepsChain

(* A task that is tried again links nothing.                               *)
LEMMA AgainKeepsChain ==
  ASSUME ChainInv, NEW w \in Worker, RetryHash(w) \/ RefuseHash(w)
  PROVE  ChainInv'
<1>1. /\ running[w] # Idle /\ Processes /\ Waiting /\ UNCHANGED <<request, auditVars>>
      /\ queue' = queue (+) SetToBag({running[w].message})
      /\ running' = [running EXCEPT ![w] = Idle]
  BY DEF RetryHash, RefuseHash, TryAgain, At, Idle, Redelivered, ChainInv
<1>2. {running[w].message} \in SUBSET Message
  BY <1>1 DEF Processes
<1>3. Waiting'
  BY <1>1, <1>2, QueueChanges
<1>4. Holding(Idle) /\ Idle.step \notin Linking
  BY Holdings DEF Idle, Linking
<1> QED
  BY <1>1, <1>3, <1>4, ProcessesAfter, ProcessKeepsChain

-----------------------------------------------------------------------------
(* The link that is added by a task that disturbs no other.                *)
LEMMA LinkAdded ==
  ASSUME Rows, Links, NEW r \in Request, ~ Chained(r), Visible(r), NEW tail,
         tail \in Tails \/ (Chain = {} /\ tail = GENESIS), NEW row,
         LET previous == IF tail = GENESIS THEN Unchained ELSE audit[tail]
         IN /\ row.chain_hash = <<r>> \o previous.chain_hash
            /\ row.chain_sequence = previous.chain_sequence + 1,
         audit' = [audit EXCEPT ![r] = row], UNCHANGED request
  PROVE  Links'
<1> DEFINE n == Cardinality(Chain)
<1>1. n \in Nat /\ (n = 0 <=> Chain = {})
  BY FS_CardinalityType, FS_EmptySet DEF Links
<1>2. /\ row.chain_sequence = n + 1
      /\ \/ n = 0 /\ row.chain_hash = <<r>> \o GENESIS
         \/ \E s \in Chain : /\ audit[s].chain_sequence = n
                             /\ row.chain_hash = <<r>> \o audit[s].chain_hash
  <2>1. CASE Chain = {} /\ tail = GENESIS
    BY <1>1, <2>1 DEF Unchained
  <2>2. CASE tail \in Tails
    <3>1. tail \in Chain /\ tail # GENESIS
      BY <2>2, AuditAssumption DEF Tails, Chain
    <3>2. audit[tail].chain_sequence = n
      <4>1. PICK s \in Chain : audit[s].chain_sequence = n
        BY <1>1, <3>1 DEF Links
      <4>2. audit[tail].chain_sequence \in 1 .. n
        BY <3>1 DEF Links
      <4> QED
        BY <1>1, <2>2, <4>1, <4>2 DEF Tails
    <3> QED
      BY <3>1, <3>2
  <2> QED
    BY <2>1, <2>2
<1>3. {audit[s].chain_sequence : s \in Chain} = 1 .. n
  BY DEF Links
<1> HIDE DEF n
<1>4. audit'[r] = row /\ \A s \in Request \ {r} : audit'[s] = audit[s]
  BY DEF Rows
<1>5. /\ Chained(r)'
      /\ \A s \in Request \ {r} : Chained(s)' = Chained(s)
      /\ \A s \in Request : Visible(s)' = Visible(s)
  <2>1. audit'[r].chain_sequence > 0
    BY <1>1, <1>2, <1>4
  <2> QED
    BY <1>4, <2>1 DEF Chained, Visible
<1>6. r \notin Chain /\ Chain' = Chain \cup {r}
  <2>1. \A s \in Request : s \in Chain' <=> s = r \/ s \in Chain
    BY <1>5 DEF Chain
  <2> QED
    BY <2>1 DEF Chain
<1>7. IsFiniteSet(Chain') /\ Cardinality(Chain') = n + 1
  BY <1>6, FS_AddElement DEF Links, n
<1>8. \A s \in Chain : audit'[s] = audit[s] /\ audit[s].chain_sequence \in 1 .. n
  BY <1>3, <1>6, <1>4 DEF Chain
<1>9. {audit'[s].chain_sequence : s \in Chain'} = 1 .. Cardinality(Chain')
  <2>1. ASSUME NEW k \in 1 .. n + 1
        PROVE  \E s \in Chain' : audit'[s].chain_sequence = k
    <3>1. CASE k = n + 1
      BY <1>2, <1>4, <1>6, <3>1
    <3>2. CASE k \in 1 .. n
      <4>1. PICK s \in Chain : audit[s].chain_sequence = k
        BY <1>3, <3>2
      <4> QED
        BY <1>6, <1>8, <4>1
    <3> QED
      BY <1>1, <3>1, <3>2
  <2>2. ASSUME NEW s \in Chain'
        PROVE  audit'[s].chain_sequence \in 1 .. n + 1
    BY <1>1, <1>2, <1>4, <1>6, <1>8
  <2> QED
    BY <1>7, <2>1, <2>2
<1>10. \A s, t \in Chain' : audit'[s].chain_sequence = audit'[t].chain_sequence => s = t
  BY <1>1, <1>2, <1>4, <1>6, <1>8 DEF Links
<1>11. \A x \in Chain' :
         \/ /\ audit'[x].chain_sequence = 1
            /\ audit'[x].chain_hash = <<x>> \o GENESIS
         \/ \E s \in Chain' : /\ audit'[s].chain_sequence = audit'[x].chain_sequence - 1
                              /\ audit'[x].chain_hash = <<x>> \o audit'[s].chain_hash
  <2>1. CASE n = 0 /\ row.chain_hash = <<r>> \o GENESIS
    BY <1>1, <1>2, <1>4, <1>6, <2>1
  <2>2. ASSUME NEW s \in Chain, audit[s].chain_sequence = n,
               row.chain_hash = <<r>> \o audit[s].chain_hash
        PROVE  /\ s \in Chain' /\ audit'[s].chain_sequence = audit'[r].chain_sequence - 1
               /\ audit'[r].chain_hash = <<r>> \o audit'[s].chain_hash
    <3>1. s \in Chain' /\ audit'[s] = audit[s]
      BY <1>6, <1>8
    <3>2. audit'[s].chain_sequence = audit'[r].chain_sequence - 1
      <4>1. audit'[r].chain_sequence = n + 1
        BY <1>2, <1>4
      <4>2. audit'[s].chain_sequence = n
        BY <2>2, <3>1
      <4>3. n = (n + 1) - 1
        BY <1>1
      <4> QED
        BY <4>1, <4>2, <4>3
    <3> QED
      BY <1>4, <2>2, <3>1, <3>2
  <2>3. ASSUME NEW x \in Chain
        PROVE  \/ /\ audit'[x].chain_sequence = 1
                  /\ audit'[x].chain_hash = <<x>> \o GENESIS
               \/ \E s \in Chain' : /\ audit'[s].chain_sequence = audit'[x].chain_sequence - 1
                                    /\ audit'[x].chain_hash = <<x>> \o audit'[s].chain_hash
    <3>1. audit'[x] = audit[x]
      BY <1>8
    <3>2. CASE \E s \in Chain : /\ audit[s].chain_sequence = audit[x].chain_sequence - 1
                                /\ audit[x].chain_hash = <<x>> \o audit[s].chain_hash
      <4>1. PICK s \in Chain : /\ audit[s].chain_sequence = audit[x].chain_sequence - 1
                               /\ audit[x].chain_hash = <<x>> \o audit[s].chain_hash
        BY <3>2
      <4>2. s \in Chain' /\ audit'[s] = audit[s]
        BY <1>6, <1>8, <4>1
      <4> QED
        BY <3>1, <4>1, <4>2
    <3> QED
      BY <3>1, <3>2 DEF Links
  <2> QED
    BY <1>2, <1>6, <2>1, <2>2, <2>3
<1> QED
  BY <1>7, <1>9, <1>10, <1>11 DEF Links

(* The first of two tasks to store disturbs the other, whose tail is no    *)
(* longer the last record; a task that finds its record linked is done for *)
(* the second time.                                                        *)
LEMMA StoreKeepsChain ==
  ASSUME ChainInv, NEW w \in Worker, StoreHashes(w)
  PROVE  ChainInv'
<1> DEFINE row == [chain_hash     |-> <<Row(w)>> \o Previous(w).chain_hash,
                   chain_sequence |-> Previous(w).chain_sequence + 1]
<1>1. /\ running[w] # Idle /\ running[w].step = "locked" /\ Moves(w, "done")
      /\ UNCHANGED <<request, queue>> /\ Processes /\ Rows /\ Working(w)
      /\ audit' = [audit EXCEPT ![Row(w)] = row]
      /\ disturbed' = (disturbed \/ Disturbs(w))
  BY DEF StoreHashes, At, Idle, ChainInv
<1>2. /\ Processes' /\ running'[w].step = "done"
      /\ \A v \in Worker \ {w} : running'[v] = running[v]
  BY <1>1, ProcessMoves
<1>3. PICK r \in Request : r = Row(w) /\ Visible(r)
  BY <1>1, HashMessages DEF Processes, Row, Working, Linking
<1>4. \A v \in Worker : Working(v)'
  BY <1>1, <1>2 DEF ChainInv, Working, Row, Visible, Linking
<1>5. ASSUME ~ disturbed, ~ Disturbs(w)
      PROVE  Links' /\ \A v \in Worker : Ahead(v)'
  <2>1. ~ Chained(r)
    BY <1>3, <1>5 DEF Disturbs
  <2>2. /\ "tail" \in DOMAIN running[w] /\ Links
        /\ running[w].tail \in Tails \/ (Chain = {} /\ running[w].tail = GENESIS)
    BY <1>1, <1>5 DEF ChainInv, Ahead
  <2>3. running[w].tail # r
    BY <2>1, <2>2, AuditAssumption DEF Tails, Chain
  <2>4. Previous(w) = IF running[w].tail = GENESIS THEN Unchained ELSE audit[running[w].tail]
    BY <1>3, <2>3 DEF Previous
  <2>5. Links'
    <3>1. /\ row.chain_hash = <<r>> \o Previous(w).chain_hash
          /\ row.chain_sequence = Previous(w).chain_sequence + 1
      BY <1>3
    <3>2. audit' = [audit EXCEPT ![r] = row] /\ Rows /\ UNCHANGED request
      BY <1>1, <1>3
    <3> HIDE DEF row
    <3> QED
      BY <1>3, <2>1, <2>2, <2>4, <3>1, <3>2, LinkAdded
  <2>6. ASSUME NEW v \in Worker PROVE Ahead(v)'
    <3>1. CASE v = w
      BY <1>2, <3>1 DEF Ahead
    <3>2. CASE v # w
      <4>1. running[v].step \notin {"chosen", "locked"}
        BY <1>5, <3>2 DEF Disturbs, At, ChainInv, Working, Linking
      <4> QED
        BY <1>2, <3>2, <4>1 DEF Ahead
    <3> QED
      BY <3>1, <3>2
  <2> QED
    BY <2>5, <2>6
<1>6. Rows'
  <2> HIDE DEF row
  <2> QED
    BY <1>1, <1>3 DEF Rows, Chained, Visible
<1>7. Waiting'
  BY <1>1 DEF ChainInv, Waiting
<1> QED
  BY <1>1, <1>2, <1>4, <1>5, <1>6, <1>7 DEF ChainInv

LEMMA ChainStep ==
  ASSUME ChainInv, [Next]_vars
  PROVE  ChainInv'
<1>1. CASE UNCHANGED vars
  <2>1. Processes' /\ Waiting' /\ Rows' /\ Chain' = Chain
    BY <1>1 DEF vars, brokerVars, auditVars, ChainInv, Processes, Waiting, Rows, Chain, Chained,
                Visible
  <2> QED
    BY <1>1, <2>1, ChainStays DEF vars, brokerVars, auditVars, Visible
<1>2. ASSUME NEW r \in Request,
             \/ UploadVersion(r) \/ ChangeSomething(r)
             \/ EndRequest(r) /\ UNCHANGED <<auditVars, renditionVars>>
             \/ (BeginRetry(r) \/ EndRetry(r)) /\ UNCHANGED auditVars
      PROVE  ChainInv'
  <2>1. CASE UploadVersion(r) \/ ChangeSomething(r)
    BY <2>1, OpenKeepsChain
  <2>2. CASE EndRequest(r) /\ UNCHANGED <<auditVars, renditionVars>>
    BY <2>2, EndKeepsChain
  <2>3. CASE (BeginRetry(r) \/ EndRetry(r)) /\ UNCHANGED auditVars
    BY <2>3, RetryKeepsChain
  <2> QED
    BY <1>2, <2>1, <2>2, <2>3
<1>3. ASSUME NEW w \in Worker, Work(w)
      PROVE  ChainInv'
  <2>1. CASE (Take(w) \/ Acknowledge(w)) /\ UNCHANGED <<auditVars, renditionVars>>
    BY <2>1, BrokerKeepsChain
  <2>2. CASE HashStep(w)
    BY <2>2, LoadKeepsChain, ChooseKeepsChain, LockKeepsChain, StoreKeepsChain,
       AgainKeepsChain DEF HashStep
  <2>3. CASE RenderStep(w) /\ UNCHANGED auditVars
    BY <2>3, RenderKeepsChain
  <2> QED
    BY <1>3, <2>1, <2>2, <2>3 DEF Work
<1>4. ASSUME NEW w \in Worker, Trouble(w)
      PROVE  ChainInv'
  BY <1>4, BrokerKeepsChain, AgainKeepsChain, RenderKeepsChain DEF Trouble
<1> QED
  BY <1>1, <1>2, <1>3, <1>4 DEF Next

(* The audit log verifies at any time as long as no two tasks that link    *)
(* meet and none is done twice, for any number of records and of worker    *)
(* processes, whatever fails, is tried again, skipped or lost: what breaks *)
(* a chain that nobody tampered with is one of these two                   *)
(* (audit_chain.py 33-95).                                                 *)
THEOREM QuietTasksKeepTheChain == Spec => []QuietChainVerifies
<1>1. ChainInv => QuietChainVerifies
  BY LinksVerify DEF ChainInv, QuietChainVerifies
<1> QED
  BY ChainInitially, ChainStep, <1>1, PTL DEF Spec
================================================================================
