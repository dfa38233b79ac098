------------------------------ MODULE AuditChain ------------------------------
(***************************************************************************)
(* The audit trail.  A request writes its record with the change it is     *)
(* about; a task links the record to the end of a hash chain afterwards.   *)
(***************************************************************************)
EXTENDS TaskBroker

VARIABLES
  audit,      \* chain_hash and chain_sequence of each request's record
  disturbed   \* history: whether two tasks met, or one was done twice

auditVars == <<audit, disturbed>>

(* A hash is what was hashed: the records from this one back to the first; *)
(* a NULL chain_sequence is 0.                                             *)
GENESIS == <<>>
Unchained == [chain_hash |-> GENESIS, chain_sequence |-> 0]

ASSUME AuditAssumption == GENESIS \notin Request

Record == [chain_hash : Seq(Request), chain_sequence : Nat]

Hash(r)    == [task |-> "hash", row |-> r]
Chained(r) == audit[r].chain_sequence > 0
Chain      == {r \in Request : Visible(r) /\ Chained(r)}

(* The record is flushed by the request, its task sent at once.            *)
CreateAuditRecord(r) == audit' = [audit EXCEPT ![r] = Unchained] /\ disturbed' = disturbed

-----------------------------------------------------------------------------
(* The task: a record that is not there (yet) is skipped.                  *)
LoadRecord(w) ==
  /\ At(w, "hash", "taken")
  /\ IF Visible(Row(w))
     THEN running' = [running EXCEPT ![w] =
            [step |-> "loaded", message |-> @.message, loaded |-> audit[Row(w)]]]
     ELSE Moves(w, "done")
  /\ UNCHANGED <<request, queue, dropped, failures, auditVars>>

Tails == {r \in Chain : \A s \in Chain : audit[s].chain_sequence <= audit[r].chain_sequence}

(* SELECT ... ORDER BY chain_sequence DESC LIMIT 1 FOR UPDATE: the last    *)
(* record is chosen first ...                                              *)
ChooseTail(w) ==
  /\ At(w, "hash", "loaded")
  /\ \E tail \in IF Tails = {} THEN {GENESIS} ELSE Tails :
       running' = [running EXCEPT ![w] =
         [step |-> "chosen", message |-> @.message, loaded |-> @.loaded, tail |-> tail]]
  /\ UNCHANGED <<request, queue, dropped, failures, auditVars>>

Locks(v, r) == At(v, "hash", "locked") /\ running[v].tail = r

Locked(r, but) == \E v \in Worker \ {but} : Locks(v, r)

(* ... then waited for: whoever has it locked may commit in between, and   *)
(* the row is still the one that was chosen.                               *)
LockTail(w) ==
  /\ At(w, "hash", "chosen")
  /\ LET tail == running[w].tail IN
       /\ tail # GENESIS => ~ Locked(tail, w)
       /\ Moves(w, "locked")
  /\ UNCHANGED <<request, queue, dropped, failures, auditVars>>

(* Mutant: the link is made to the record itself.                          *)
OwnRecord(w) == running[w].loaded

(* The last record as the session has it: the record to be linked may be   *)
(* found last itself, and is then what the session loaded before.          *)
Previous(w) ==
  CASE running[w].tail = GENESIS -> Unchained
    [] running[w].tail = Row(w)  -> running[w].loaded
    [] OTHER                     -> audit[running[w].tail]

(* Its number is NULL when another delivery of the task has linked it      *)
(* since.                                                                  *)
NoNumber(w) == running[w].tail = Row(w) /\ running[w].loaded.chain_sequence = 0

(* Another task has chosen its tail and not yet stored, or the record is   *)
(* in the chain already.                                                   *)
Disturbs(w) ==
  \/ Chained(Row(w))
  \/ \E v \in Worker \ {w}, step \in {"chosen", "locked"} : At(v, "hash", step)

StoreHashes(w) ==
  /\ At(w, "hash", "locked")
  /\ ~ NoNumber(w) /\ ~ Locked(Row(w), w)
  /\ audit' = [audit EXCEPT ![Row(w)] =
       [chain_hash     |-> <<Row(w)>> \o Previous(w).chain_hash,
        chain_sequence |-> Previous(w).chain_sequence + 1]]
  /\ disturbed' = (disturbed \/ Disturbs(w))
  /\ Moves(w, "done")
  /\ UNCHANGED <<request, queue, dropped, failures>>

(* Anything that goes wrong is rolled back and tried again.                *)
TryAgain(w) ==
  /\ queue' = Redelivered(running[w].message)
  /\ running' = [running EXCEPT ![w] = Idle]
  /\ UNCHANGED <<request, dropped, auditVars>>

RetryHash(w) ==
  /\ \E step \in {"loaded", "chosen", "locked"} : At(w, "hash", step)
  /\ failures < MaxFailures /\ failures' = failures + 1
  /\ TryAgain(w)

(* What the program or the database refuses: a number that is NULL, and an *)
(* UPDATE by which tasks would wait for each other's records in a circle.  *)
RefuseHash(w) ==
  /\ At(w, "hash", "locked")
  /\ \/ NoNumber(w)
     \/ \E S \in SUBSET Worker :
          /\ w \in S
          /\ \A v \in S : At(v, "hash", "locked") /\ \E u \in S \ {v} : Locks(u, Row(v))
  /\ TryAgain(w) /\ failures' = failures

AuditInit == audit = [r \in Request |-> Unchained] /\ disturbed = FALSE

HashStep(w) ==
  LoadRecord(w) \/ ChooseTail(w) \/ LockTail(w) \/ StoreHashes(w) \/ RefuseHash(w)

-----------------------------------------------------------------------------
AuditTypeOK == audit \in [Request -> Record] /\ disturbed \in BOOLEAN

(* What the verification endpoint recomputes: in the order of their        *)
(* sequence the chained records have the numbers 1, 2, 3 ... and each hash *)
(* is made of its record and of the hash stored before it.                 *)
Verified ==
  /\ {audit[r].chain_sequence : r \in Chain} = 1 .. Cardinality(Chain)
  /\ \A r \in Chain :
       audit[r].chain_hash =
         <<r>> \o (IF audit[r].chain_sequence = 1 THEN GENESIS
                   ELSE audit[CHOOSE s \in Chain : audit[s].chain_sequence
                                                   = audit[r].chain_sequence - 1].chain_hash)

(* A log that nobody tampered with passes its verification at any time,    *)
(* whatever is still pending (what is said of it, audit_chain.py 6, 68,    *)
(* routers/audit.py 99-157).                                               *)
ChainVerifies == Verified

(* It does as long as no task stores its link while another one is between *)
(* its choice and its own storing, and no task is executed again after it  *)
(* has stored, whatever else fails, is tried again, skipped or lost: these *)
(* two are the only ways in which the code breaks it (audit_chain.py       *)
(* 68-95).                                                                 *)
QuietChainVerifies == ~ disturbed => Verified

(* A record whose task still waits when the request has committed is in    *)
(* the chain in the end, though attempts fail, unless the process that had *)
(* its task was killed (audit_chain.py 17-30, celery_app.py 23).           *)
EveryRecordIsChained ==
  \A r \in Request :
    (Visible(r) /\ BagIn(Hash(r), queue)) ~> (Chained(r) \/ Hash(r) \in dropped)
================================================================================
