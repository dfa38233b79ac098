--------------------------- MODULE DocumentProofs ---------------------------
(***************************************************************************)
(* Proofs about DocumentStore, for every number of requests, users,        *)
(* contents and protections and for every bound.                           *)
(***************************************************************************)
EXTENDS DocumentStore, TLAPS

Plans(r)    == session[r] \in Writing
OwnsKey(r)  == Plans(r) /\ session[r].op \in {"upload", "checkin"}
Plan(r)     == session[r].version
Drafts      == \A v \in versions : v.major = 0

(* A number is given once.                                                 *)
Unique == \A v, w \in versions : NumberOf(v) = NumberOf(w) => v = w

(* The first version is inserted with nothing else going on.               *)
UploadAlone ==
  /\ \A r \in Request : session[r].op = "upload" =>
       /\ versions = {}
       /\ \A q \in Request \ {r} : session[q] = None
  /\ versions = {} => \A r \in Request : session[r] # None => session[r].op = "upload"

(* What a plan follows is there, and stays there: versions only grow.      *)
PlansFollow ==
  \A r \in Request : Plans(r) =>
    /\ session[r].op = "upload" => Plan(r).major = 0 /\ Plan(r).minor = 1
    /\ session[r].op = "checkin" =>
         \E w \in versions : /\ Plan(r).major = w.major /\ Plan(r).minor = w.minor + 1
                             /\ Plan(r).content # w.content
    /\ session[r].op = "promote" =>
         \E w \in versions : /\ Plan(r).major = w.major + 1 /\ Plan(r).minor = 0
                             /\ Plan(r).object = w.object

(* Keys are never made twice, and what a request may delete is its own.    *)
Keys ==
  /\ \A v \in versions : v.object \in objects /\ v.object < uploads
  /\ \A r \in Request : Plans(r) => Plan(r).object \in objects /\ Plan(r).object < uploads
  /\ \A r \in Request : OwnsKey(r) =>
       /\ \A v \in versions : v.object # Plan(r).object
       /\ \A q \in Request \ {r} : Plans(q) => Plan(q).object # Plan(r).object

(* Before the first promotion the row follows the versions, and what a     *)
(* request has seen of it is not ahead of what it plans.                   *)
DraftsFollow ==
  Drafts =>
    /\ versions # {} =>
         /\ document.major = 0
         /\ \E v \in versions : v.minor = document.minor
         /\ \A v \in versions : v.minor <= document.minor
    /\ \A r \in Request :
         /\ session[r] \in Open => session[r].seen.major = 0 /\ session[r].seen.minor <= document.minor
         /\ Plans(r) /\ session[r].op = "checkin" =>
              session[r].seen.major = 0 /\ session[r].seen.minor < Plan(r).minor

Inv ==
  /\ TypeOK
  /\ Unique
  /\ NoGaps
  /\ NoRepeatedContent
  /\ UploadAlone
  /\ PlansFollow
  /\ Keys
  /\ DraftsFollow

-----------------------------------------------------------------------------
(* Types.                                                                  *)

(* What a status and an operation say of a session's fields.               *)
LEMMA SessionKinds ==
  ASSUME NEW s \in Session
  PROVE  /\ s # None /\ s.status = "open" => s \in Open
         /\ s # None /\ s.status = "ready" => s \in Writing \cup Changing
         /\ s.op \in {"upload"} => s \in Writing
         /\ s # None /\ s.status = "ready" /\ s.op \in {"upload", "checkin", "promote"} => s \in Writing
         /\ s \in Open => s # None /\ s.status = "open" /\ s.op \in {"checkin", "promote"}
         /\ s \in Writing => s # None /\ s.status = "ready" /\ s.op \in {"upload", "checkin", "promote"}
BY StoreAssumption DEF StoreAssumption, Session, Open, Writing, Changing, None

LEMMA InitType == Init => TypeOK
BY DEF Init, TypeOK, Document, Session, None

LEMMA BeginUploadType ==
  ASSUME TypeOK, NEW r \in Request, NEW u \in User, NEW c \in Content, BeginUpload(r, u, c)
  PROVE  TypeOK'
<1> DEFINE s == [op |-> "upload", status |-> "ready", by |-> u, seen |-> NumberOf(document),
                 version |-> [major |-> 0, minor |-> 1, content |-> c, object |-> uploads]]
<1>1. s \in Writing
  BY DEF TypeOK, Document, Writing, NumberOf, Number, Version
<1>2. session' = [session EXCEPT ![r] = s]
  BY DEF BeginUpload, Becomes
<1>3. session' \in [Request -> Session]
  BY <1>1, <1>2 DEF TypeOK, Session
<1> QED
  BY <1>3 DEF BeginUpload, TypeOK

LEMMA BeginType ==
  ASSUME TypeOK, NEW r \in Request, NEW u \in User, Begin(r, u)
  PROVE  TypeOK'
<1>1. \A op \in {"checkout", "unlock", "delete"} \cup Protection : Ready(op, u) \in Session
  BY DEF Ready, Session, Changing
<1>2. \A op \in {"checkin", "promote"} : OpenFor(op, u) \in Session
  BY DEF OpenFor, Session, Open, TypeOK, Document, NumberOf, Number
<1>3. \E s \in Session : session' = [session EXCEPT ![r] = s]
  BY <1>1, <1>2 DEF Begin, BeginCheckout, BeginCheckin, BeginForceUnlock, BeginPromote,
                    BeginDelete, BeginBulkDelete, BeginProtect, Becomes
<1> QED
  BY <1>3 DEF Begin, TypeOK

LEMMA DecideCheckinType ==
  ASSUME TypeOK, NEW r \in Request, NEW c \in Content, session[r] \in Open,
         Doing(r, "checkin"), DecideCheckin(r, c)
  PROVE  TypeOK'
<1>1. session[r].op = "checkin" /\ session[r].by \in User /\ session[r].seen \in Number
  BY DEF Open, Doing
<1>2. PICK v \in versions :
        /\ IsLatest(v)
        /\ \/ /\ Unchanged(v, c)
              /\ Becomes(r, Ready("unchanged", session[r].by))
              /\ UNCHANGED <<objects, uploads>>
           \/ /\ ~ Unchanged(v, c)
              /\ uploads < MaxUploads
              /\ objects' = objects \cup {uploads}
              /\ uploads' = uploads + 1
              /\ Becomes(r, Decided(r, NextMinor(r, v, c, uploads)))
  BY DEF DecideCheckin
<1>3. v \in Version
  BY DEF TypeOK
<1>4. NextMinor(r, v, c, uploads) \in Version
  BY <1>3 DEF NextMinor, Version, TypeOK
<1>5. Decided(r, NextMinor(r, v, c, uploads)) \in Session
  BY <1>1, <1>4 DEF Decided, Session, Writing
<1>6. Ready("unchanged", session[r].by) \in Session
  BY <1>1 DEF Ready, Session, Changing
<1>7. session' \in [Request -> Session]
  BY <1>2, <1>5, <1>6 DEF Becomes, TypeOK
<1>8. \/ objects' = objects /\ uploads' = uploads
      \/ objects' = objects \cup {uploads} /\ uploads' = uploads + 1
  BY <1>2
<1>9. objects' \in SUBSET Nat /\ uploads' \in Nat
  <2>1. objects \in SUBSET Nat /\ uploads \in Nat
    BY DEF TypeOK
  <2>2. uploads + 1 \in Nat
    BY <2>1
  <2> QED
    BY <1>8, <2>1, <2>2
<1> QED
  BY <1>7, <1>9 DEF DecideCheckin, TypeOK

LEMMA DecidePromoteType ==
  ASSUME TypeOK, NEW r \in Request, session[r] \in Open,
         Doing(r, "promote"), DecidePromote(r)
  PROVE  TypeOK'
<1>1. session[r].op = "promote" /\ session[r].by \in User /\ session[r].seen \in Number
  BY DEF Open, Doing
<1>2. PICK v \in versions : Becomes(r, Decided(r, NextMajor(v)))
  BY DEF DecidePromote
<1>3. NextMajor(v) \in Version
  BY DEF NextMajor, Version, TypeOK
<1>4. Decided(r, NextMajor(v)) \in Session
  BY <1>1, <1>3 DEF Decided, Session, Writing
<1> QED
  BY <1>2, <1>4 DEF DecidePromote, Becomes, TypeOK

LEMMA CommitType ==
  ASSUME TypeOK, NEW r \in Request, Commit(r)
  PROVE  TypeOK'
<1>1. session' \in [Request -> Session]
  BY DEF Commit, Done, Becomes, TypeOK, Session
<1>2. session[r] \in Writing \cup Changing
  BY SessionKinds DEF Commit, Idle, TypeOK
<1>3. session[r].by \in User
  BY <1>2 DEF Writing, Changing
<1>4. session[r].op \in {"upload", "checkin", "promote"} =>
        Plan(r) \in Version /\ session[r].seen \in Number
  BY <1>2, StoreAssumption DEF Writing, Changing, Plan, StoreAssumption
<1>5. versions' \in SUBSET Version
  BY <1>4 DEF Commit, CommitUpload, CommitCheckout, CommitCheckin, CommitUnlock, CommitPromote,
              CommitDelete, CommitProtect, Doing, Insert, Plan, TypeOK
<1>6. document' \in Document
  <2> USE DEF TypeOK, Document
  <2>1. CASE CommitUpload(r)
    BY <1>4, <2>1 DEF CommitUpload, Doing, Plan, Version
  <2>2. CASE CommitCheckout(r)
    BY <1>3, <2>2 DEF CommitCheckout
  <2>3. CASE CommitCheckin(r)
    BY <1>4, <2>3 DEF CommitCheckin, Doing, Plan, Version, Number, Unlocked, WithCurrent, Flushed
  <2>4. CASE CommitUnlock(r)
    BY <2>4 DEF CommitUnlock, Unlocked
  <2>5. CASE CommitPromote(r)
    BY <1>4, <2>5 DEF CommitPromote, Doing, Plan, Version, Number, WithCurrent, Flushed
  <2>6. CASE CommitDelete(r)
    BY <2>6 DEF CommitDelete
  <2>7. CASE CommitProtect(r)
    BY <2>7 DEF CommitProtect
  <2> QED
    BY <2>1, <2>2, <2>3, <2>4, <2>5, <2>6, <2>7 DEF Commit
<1>7. protected' \in SUBSET Protection
  BY DEF Commit, CommitUpload, CommitCheckout, CommitCheckin, CommitUnlock, CommitPromote,
         CommitDelete, CommitProtect, TypeOK
<1> QED
  BY <1>1, <1>5, <1>6, <1>7 DEF Commit, TypeOK

LEMMA NextType == TypeOK /\ [Next]_vars => TypeOK'
<1> SUFFICES ASSUME TypeOK, [Next]_vars PROVE TypeOK'
  OBVIOUS
<1>1. CASE \E r \in Request : \E u \in User, c \in Content : BeginUpload(r, u, c)
  BY <1>1, BeginUploadType
<1>2. CASE \E r \in Request : \E u \in User : Begin(r, u)
  BY <1>2, BeginType
<1>3. ASSUME NEW r \in Request, Decide(r) PROVE TypeOK'
  <2>1. session[r] \in Open
    BY <1>3, SessionKinds DEF Decide, Idle, TypeOK
  <2> QED
    BY <1>3, <2>1, DecideCheckinType, DecidePromoteType DEF Decide
<1>4. CASE \E r \in Request : Commit(r)
  BY <1>4, CommitType
<1>5. CASE \E r \in Request : Fail(r) \/ Die(r)
  BY <1>5 DEF Fail, Die, Done, Becomes, TypeOK, Session
<1>6. ASSUME NEW v \in versions, Sign(v) PROVE TypeOK'
  <2>1. NumberOf(v) \in Number
    BY DEF TypeOK, Version, NumberOf, Number
  <2> QED
    BY <1>6, <2>1 DEF Sign, TypeOK
<1>7. CASE \E p \in protected : Lift(p)
  BY <1>7 DEF Lift, TypeOK
<1>8. CASE UNCHANGED vars
  BY <1>8 DEF vars, TypeOK
<1> QED
  BY <1>1, <1>2, <1>3, <1>4, <1>5, <1>6, <1>7, <1>8 DEF Next

-----------------------------------------------------------------------------
(* What a step does, read off the actions once.                            *)

(* Rows are only added to document_versions, one plan at a time.           *)
LEMMA InsertStep ==
  ASSUME TypeOK, [Next]_vars
  PROVE  \/ versions' = versions
         \/ \E r \in Request : /\ Plans(r) /\ Commit(r)
                               /\ \A w \in versions : NumberOf(w) # NumberOf(Plan(r))
                               /\ versions' = versions \cup {Plan(r)}
<1>1. ASSUME NEW r \in Request, Commit(r), versions' # versions
      PROVE  /\ Plans(r)
             /\ \A w \in versions : NumberOf(w) # NumberOf(Plan(r))
             /\ versions' = versions \cup {Plan(r)}
  <2>1. session[r] # None /\ session[r].status = "ready" /\ session[r] \in Session
    BY <1>1 DEF Commit, Idle, TypeOK
  <2>2. CommitUpload(r) \/ CommitCheckin(r) \/ CommitPromote(r)
    BY <1>1 DEF Commit, CommitCheckout, CommitUnlock, CommitDelete, CommitProtect
  <2>3. session[r].op \in {"upload", "checkin", "promote"} /\ Insert(session[r].version)
    BY <2>2 DEF CommitUpload, CommitCheckin, CommitPromote, Doing
  <2>4. Plans(r)
    BY <2>1, <2>3, SessionKinds DEF Plans
  <2> QED
    BY <2>3, <2>4 DEF Insert, Plan
<1>2. \/ versions' = versions
      \/ \E r \in Request : Commit(r)
  BY DEF Next, vars, BeginUpload, Begin, Decide, DecideCheckin, DecidePromote, Fail, Die, Sign, Lift
<1> QED
  BY <1>1, <1>2

NewUpload(r) ==
  /\ versions = {} /\ \A q \in Request : Idle(q)
  /\ session'[r].op = "upload"
  /\ Plan(r)'.major = 0 /\ Plan(r)'.minor = 1 /\ Plan(r)'.object = uploads
  /\ objects' = objects \cup {uploads} /\ uploads' = uploads + 1

NewCheckin(r) ==
  /\ session[r] \in Open
  /\ session'[r].op = "checkin" /\ session'[r].seen = session[r].seen
  /\ \E v \in versions :
       /\ IsLatest(v)
       /\ Plan(r)'.major = v.major /\ Plan(r)'.minor = v.minor + 1
       /\ Plan(r)'.content # v.content /\ Plan(r)'.object = uploads
  /\ objects' = objects \cup {uploads} /\ uploads' = uploads + 1

NewPromote(r) ==
  /\ session[r] \in Open
  /\ session'[r].op = "promote"
  /\ \E v \in versions :
       /\ Plan(r)'.major = v.major + 1 /\ Plan(r)'.minor = 0
       /\ Plan(r)'.object = v.object
  /\ objects' = objects /\ uploads' = uploads

(* Where plans come from.                                                  *)
LEMMA PlanStep ==
  ASSUME TypeOK, [Next]_vars, NEW r \in Request, Plans(r)', session'[r] # session[r]
  PROVE  /\ NewUpload(r) \/ NewCheckin(r) \/ NewPromote(r)
         /\ \A q \in Request \ {r} : session'[q] = session[q]
         /\ versions' = versions /\ document' = document
<1> DEFINE Goal == /\ NewUpload(r) \/ NewCheckin(r) \/ NewPromote(r)
                   /\ \A q \in Request \ {r} : session'[q] = session[q]
                   /\ versions' = versions /\ document' = document
<1>0. session'[r] \in Writing /\ session'[r].op \in {"upload", "checkin", "promote"}
      /\ session'[r].status = "ready" /\ session'[r] # None
  BY DEF Plans, Writing, None
<1>1. ASSUME NEW p \in Request, NEW u \in User, NEW c \in Content, BeginUpload(p, u, c)
      PROVE  Goal
  <2>1. p = r
    BY <1>1 DEF BeginUpload, Becomes, TypeOK
  <2> QED
    BY <1>1, <2>1 DEF BeginUpload, Becomes, TypeOK, NewUpload, Plan
<1>2. ASSUME NEW p \in Request, NEW u \in User, Begin(p, u)
      PROVE  FALSE
  <2>1. p = r
    BY <1>2 DEF Begin, BeginCheckout, BeginCheckin, BeginForceUnlock, BeginPromote,
                BeginDelete, BeginBulkDelete, BeginProtect, Becomes, TypeOK
  <2>2. \/ \E op \in {"checkout", "unlock", "delete"} \cup Protection : session'[r] = Ready(op, u)
        \/ \E op \in {"checkin", "promote"} : session'[r] = OpenFor(op, u)
    BY <1>2, <2>1 DEF Begin, BeginCheckout, BeginCheckin, BeginForceUnlock, BeginPromote,
                      BeginDelete, BeginBulkDelete, BeginProtect, Becomes, TypeOK
  <2>3. session'[r].op \notin {"checkout", "unlock", "delete"} \cup Protection
    BY <1>0, StoreAssumption DEF StoreAssumption
  <2>4. \A op \in {"checkout", "unlock", "delete"} \cup Protection : session'[r] # Ready(op, u)
    BY <2>3 DEF Ready
  <2>5. \A op \in {"checkin", "promote"} : session'[r] # OpenFor(op, u)
    BY <1>0 DEF OpenFor
  <2> QED
    BY <2>2, <2>4, <2>5
<1>3. ASSUME NEW p \in Request, Decide(p)
      PROVE  Goal
  <2>1. p = r
    BY <1>3 DEF Decide, DecideCheckin, DecidePromote, Becomes, TypeOK
  <2>2. session[r] \in Open
    BY <1>3, <2>1, SessionKinds DEF Decide, Idle, TypeOK
  <2>3. \A q \in Request \ {r} : session'[q] = session[q]
    BY <1>3, <2>1 DEF Decide, DecideCheckin, DecidePromote, Becomes, TypeOK
  <2>4. versions' = versions /\ document' = document
    BY <1>3 DEF Decide, DecideCheckin, DecidePromote
  <2>5. ASSUME NEW c \in Content, Doing(r, "checkin"), DecideCheckin(r, c)
        PROVE  NewCheckin(r)
    <3>1. PICK v \in versions :
            /\ IsLatest(v)
            /\ \/ session' = [session EXCEPT ![r] = Ready("unchanged", session[r].by)]
               \/ /\ v.content # c
                  /\ objects' = objects \cup {uploads}
                  /\ uploads' = uploads + 1
                  /\ session' = [session EXCEPT ![r] = Decided(r, NextMinor(r, v, c, uploads))]
      BY <2>5 DEF DecideCheckin, Becomes, Unchanged
    <3>2. session'[r] # Ready("unchanged", session[r].by)
      BY <1>0 DEF Ready
    <3>3. /\ v.content # c
          /\ objects' = objects \cup {uploads}
          /\ uploads' = uploads + 1
          /\ session'[r] = Decided(r, NextMinor(r, v, c, uploads))
      BY <3>1, <3>2 DEF TypeOK
    <3> QED
      BY <2>2, <2>5, <3>1, <3>3 DEF NewCheckin, Decided, NextMinor, Plan, Doing
  <2>6. ASSUME Doing(r, "promote"), DecidePromote(r)
        PROVE  NewPromote(r)
    <3>1. PICK v \in versions : session' = [session EXCEPT ![r] = Decided(r, NextMajor(v))]
      BY <2>6 DEF DecidePromote, Becomes
    <3>2. session'[r] = Decided(r, NextMajor(v))
      BY <3>1 DEF TypeOK
    <3> QED
      BY <2>2, <2>6, <3>2 DEF NewPromote, Decided, NextMajor, Plan, Doing, DecidePromote
  <2> QED
    BY <1>3, <2>1, <2>3, <2>4, <2>5, <2>6 DEF Decide
<1>4. ASSUME NEW p \in Request, Commit(p) \/ Fail(p) \/ Die(p)
      PROVE  FALSE
  <2>1. session' = [session EXCEPT ![p] = None]
    BY <1>4 DEF Commit, Fail, Die, Done, Becomes
  <2> QED
    BY <1>0, <2>1 DEF TypeOK
<1>5. ASSUME \/ \E v \in versions : Sign(v)
             \/ \E p \in protected : Lift(p)
             \/ UNCHANGED vars
      PROVE  FALSE
  BY <1>5 DEF Sign, Lift, vars
<1> QED
  BY <1>1, <1>2, <1>3, <1>4, <1>5 DEF Next

(* A request that has just read the row has seen what the row holds.       *)
LEMMA OpenStep ==
  ASSUME TypeOK, [Next]_vars, NEW r \in Request, session'[r] \in Open, session'[r] # session[r]
  PROVE  /\ session'[r].seen = NumberOf(document)
         /\ versions # {} /\ versions' = versions /\ document' = document
<1>0. session'[r] # None /\ session'[r].status = "open"
  BY DEF Open, None
<1>1. \A p \in Request : Decide(p) => session'[p].status = "ready" /\ \A q \in Request \ {p} : session'[q] = session[q]
  BY DEF Decide, DecideCheckin, DecidePromote, Becomes, Decided, Ready, TypeOK
<1>2. \A p \in Request : Commit(p) \/ Fail(p) \/ Die(p) =>
        session'[p] = None /\ \A q \in Request \ {p} : session'[q] = session[q]
  BY DEF Commit, Fail, Die, Done, Becomes, TypeOK
<1>3. \A p \in Request, u \in User, c \in Content : BeginUpload(p, u, c) =>
        session'[p].status = "ready" /\ \A q \in Request \ {p} : session'[q] = session[q]
  BY DEF BeginUpload, Becomes, TypeOK
<1>4. PICK p \in Request, u \in User : Begin(p, u)
  BY <1>0, <1>1, <1>2, <1>3 DEF Next, Sign, Lift, vars
<1>5. p = r
  BY <1>4 DEF Begin, BeginCheckout, BeginCheckin, BeginForceUnlock, BeginPromote,
              BeginDelete, BeginBulkDelete, BeginProtect, Becomes, TypeOK
<1>6. \/ \E op \in {"checkout", "unlock", "delete"} \cup Protection : session'[r] = Ready(op, u)
      \/ \E op \in {"checkin", "promote"} : session'[r] = OpenFor(op, u)
  BY <1>4, <1>5 DEF Begin, BeginCheckout, BeginCheckin, BeginForceUnlock, BeginPromote,
                    BeginDelete, BeginBulkDelete, BeginProtect, Becomes, TypeOK
<1>7. \A op \in {"checkout", "unlock", "delete"} \cup Protection : session'[r] # Ready(op, u)
  BY <1>0 DEF Ready
<1>8. session'[r].seen = NumberOf(document)
  BY <1>6, <1>7 DEF OpenFor
<1>9. Exists
  BY <1>4 DEF Begin, BeginCheckout, BeginCheckin, BeginForceUnlock, BeginPromote,
              BeginDelete, BeginBulkDelete, BeginProtect
<1> QED
  BY <1>4, <1>8, <1>9 DEF Begin, Exists

(* Objects go only with the failure of the request that put them.          *)
LEMMA ObjectStep ==
  ASSUME TypeOK, [Next]_vars
  PROVE  \/ objects \subseteq objects' /\ uploads' \in {uploads, uploads + 1}
         \/ \E r \in Request : /\ OwnsKey(r) /\ session'[r] = None
                               /\ objects' = objects \ {Plan(r).object}
                               /\ uploads' = uploads /\ versions' = versions
<1>1. ASSUME NEW r \in Request, Fail(r), objects' # objects
      PROVE  /\ OwnsKey(r) /\ session'[r] = None
             /\ objects' = objects \ {Plan(r).object}
             /\ uploads' = uploads /\ versions' = versions
  <2>1. Uploaded(r) /\ session[r] # None /\ session[r] \in Session
    BY <1>1 DEF Fail, Idle, TypeOK
  <2>2. OwnsKey(r)
    BY <2>1, SessionKinds DEF Uploaded, OwnsKey, Plans
  <2> QED
    BY <1>1, <2>1, <2>2 DEF Fail, Done, Becomes, Plan, TypeOK
<1>2. ASSUME NEW r \in Request, Fail(r), objects' = objects
      PROVE  objects \subseteq objects' /\ uploads' = uploads
  BY <1>2 DEF Fail
<1>3. ASSUME NEW r \in Request, Decide(r)
      PROVE  objects \subseteq objects' /\ uploads' \in {uploads, uploads + 1}
  <2>1. CASE DecidePromote(r)
    BY <2>1 DEF DecidePromote
  <2>2. ASSUME NEW c \in Content, DecideCheckin(r, c)
        PROVE  \/ objects' = objects /\ uploads' = uploads
               \/ objects' = objects \cup {uploads} /\ uploads' = uploads + 1
    BY <2>2 DEF DecideCheckin
  <2> QED
    BY <1>3, <2>1, <2>2 DEF Decide
<1>4. ASSUME \/ \E r \in Request, u \in User, c \in Content : BeginUpload(r, u, c)
             \/ \E r \in Request, u \in User : Begin(r, u)
             \/ \E r \in Request : Commit(r) \/ Die(r)
             \/ \E v \in versions : Sign(v)
             \/ \E p \in protected : Lift(p)
             \/ UNCHANGED vars
      PROVE  objects \subseteq objects' /\ uploads' \in {uploads, uploads + 1}
  BY <1>4 DEF BeginUpload, Begin, Commit, Die, Sign, Lift, vars
<1> QED
  BY <1>1, <1>2, <1>3, <1>4 DEF Next

-----------------------------------------------------------------------------
(* The parts of the invariant.                                             *)

LEMMA InitInv == Init => Inv
<1> SUFFICES ASSUME Init PROVE Inv
  OBVIOUS
<1>1. versions = {} /\ \A r \in Request : session[r] = None
  BY DEF Init
<1>2. None \notin Writing /\ None \notin Open /\ None.op = "idle"
  BY DEF None, Writing, Open
<1> QED
  BY <1>1, <1>2, InitType DEF Inv, Unique, NoGaps, NoRepeatedContent, UploadAlone, PlansFollow,
                             Keys, DraftsFollow, Plans, OwnsKey

LEMMA UniqueStep ==
  ASSUME TypeOK, Unique, [Next]_vars
  PROVE  Unique'
BY InsertStep DEF Unique, NumberOf

LEMMA NoGapsStep ==
  ASSUME TypeOK, NoGaps, PlansFollow, [Next]_vars
  PROVE  NoGaps'
<1>1. CASE versions' = versions
  BY <1>1 DEF NoGaps, Has, First
<1>2. ASSUME NEW r \in Request, Plans(r), versions' = versions \cup {Plan(r)}
      PROVE  NoGaps'
  <2>0. PICK p \in Version : p = Plan(r)
    BY <1>2 DEF Plans, Writing, Plan
  <2> DEFINE Closed(v) == /\ \A m \in First(v.major) .. v.minor : Has(v.major, m)'
                          /\ \A n \in 0 .. v.major : Has(n, First(n))'
  <2>1. \A v \in versions : Closed(v)
    BY <1>2 DEF NoGaps, Has, First
  <2>2. Has(p.major, p.minor)'
    BY <1>2, <2>0 DEF Has
  <2>3. versions \subseteq Version /\ session[r].op \in {"upload", "checkin", "promote"}
    BY <1>2 DEF Plans, Writing, TypeOK
  <2>4. ASSUME session[r].op = "upload" PROVE Closed(p)
    <3>1. p.major = 0 /\ p.minor = 1
      BY <1>2, <2>0, <2>4 DEF PlansFollow
    <3> QED
      BY <2>2, <3>1 DEF First
  <2>5. ASSUME session[r].op = "checkin" PROVE Closed(p)
    <3>1. PICK w \in versions : p.major = w.major /\ p.minor = w.minor + 1
      BY <1>2, <2>0, <2>5 DEF PlansFollow
    <3>2. w.minor \in Nat /\ First(w.major) \in Nat
      BY <2>3 DEF Version, First
    <3>3. \A m \in First(p.major) .. p.minor : m = p.minor \/ m \in First(w.major) .. w.minor
      BY <3>1, <3>2
    <3> QED
      BY <2>1, <2>2, <3>1, <3>3
  <2>6. ASSUME session[r].op = "promote" PROVE Closed(p)
    <3>1. PICK w \in versions : p.major = w.major + 1 /\ p.minor = 0
      BY <1>2, <2>0, <2>6 DEF PlansFollow
    <3>2. w.major \in Nat /\ First(p.major) = 0
      BY <2>3, <3>1 DEF Version, First
    <3>3. \A n \in 0 .. p.major : n = p.major \/ n \in 0 .. w.major
      BY <3>1, <3>2
    <3>4. \A m \in First(p.major) .. p.minor : m = p.minor
      BY <3>1, <3>2
    <3> QED
      BY <2>1, <2>2, <3>1, <3>2, <3>3, <3>4
  <2>7. Closed(p)
    BY <2>3, <2>4, <2>5, <2>6
  <2>8. \A v \in versions' : Closed(v)
    BY <1>2, <2>0, <2>1, <2>7
  <2> QED
    BY <2>8 DEF NoGaps, First
<1> QED
  BY <1>1, <1>2, InsertStep

LEMMA NoRepeatedContentStep ==
  ASSUME TypeOK, Unique, NoGaps, NoRepeatedContent, UploadAlone, PlansFollow, [Next]_vars
  PROVE  NoRepeatedContent'
<1>1. CASE versions' = versions
  BY <1>1 DEF NoRepeatedContent
<1>2. ASSUME NEW r \in Request, Plans(r), versions' = versions \cup {Plan(r)},
             \A w \in versions : NumberOf(w) # NumberOf(Plan(r))
      PROVE  NoRepeatedContent'
  <2> DEFINE p == Plan(r)
  <2>1. p \in Version /\ versions \subseteq Version /\ session[r].op \in {"upload", "checkin", "promote"}
    BY <1>2 DEF Plans, Writing, Plan, TypeOK
  <2>2. First(p.major) <= p.minor
    BY <1>2, <2>1 DEF PlansFollow, First, Version
  <2>3. ASSUME NEW v \in versions, v.major = p.major, v.minor = p.minor + 1
        PROVE  FALSE
    <3>1. p.minor \in First(v.major) .. v.minor
      BY <2>1, <2>2, <2>3 DEF Version, First
    <3>2. Has(p.major, p.minor)
      BY <2>3, <3>1 DEF NoGaps
    <3> QED
      BY <1>2, <3>2 DEF Has, NumberOf
  <2>4. ASSUME NEW w \in versions, p.major = w.major, p.minor = w.minor + 1
        PROVE  p.content # w.content
    <3>1. session[r].op # "promote"
      BY <1>2, <2>1, <2>4 DEF PlansFollow, Version
    <3>2. session[r].op # "upload"
      BY <2>4 DEF UploadAlone
    <3>3. PICK x \in versions : /\ p.major = x.major /\ p.minor = x.minor + 1
                                /\ p.content # x.content
      BY <1>2, <2>1, <3>1, <3>2 DEF PlansFollow
    <3>4. x.minor = w.minor
      BY <2>1, <2>4, <3>3 DEF Version
    <3>5. x = w
      BY <2>4, <3>3, <3>4 DEF Unique, NumberOf
    <3> QED
      BY <3>3, <3>5
  <2>5. p.minor # p.minor + 1
    BY <2>1 DEF Version
  <2> QED
    BY <1>2, <2>3, <2>4, <2>5 DEF NoRepeatedContent
<1> QED
  BY <1>1, <1>2, InsertStep

LEMMA PlansFollowStep ==
  ASSUME TypeOK, PlansFollow, [Next]_vars
  PROVE  PlansFollow'
<1>1. versions \subseteq versions'
  BY InsertStep
<1> SUFFICES ASSUME NEW r \in Request, Plans(r)'
             PROVE  (/\ session[r].op = "upload" => Plan(r).major = 0 /\ Plan(r).minor = 1
                     /\ session[r].op = "checkin" =>
                          \E w \in versions : /\ Plan(r).major = w.major /\ Plan(r).minor = w.minor + 1
                                              /\ Plan(r).content # w.content
                     /\ session[r].op = "promote" =>
                          \E w \in versions : /\ Plan(r).major = w.major + 1 /\ Plan(r).minor = 0
                                              /\ Plan(r).object = w.object)'
  BY DEF PlansFollow
<1>2. CASE session'[r] = session[r]
  BY <1>1, <1>2 DEF PlansFollow, Plans, Plan
<1>3. CASE session'[r] # session[r]
  <2>1. (NewUpload(r) \/ NewCheckin(r) \/ NewPromote(r)) /\ versions' = versions
    BY <1>3, PlanStep
  <2>2. CASE NewUpload(r)
    BY <2>2 DEF NewUpload
  <2>3. CASE NewCheckin(r)
    BY <2>1, <2>3 DEF NewCheckin
  <2>4. CASE NewPromote(r)
    BY <2>1, <2>4 DEF NewPromote
  <2> QED
    BY <2>1, <2>2, <2>3, <2>4
<1> QED
  BY <1>2, <1>3

LEMMA UploadAloneStep ==
  ASSUME TypeOK, TypeOK', UploadAlone, [Next]_vars
  PROVE  UploadAlone'
<1>1. versions \subseteq versions'
  BY InsertStep
<1>2. \A p \in Request : Commit(p) \/ Fail(p) \/ Die(p) =>
        session[p] # None /\ session'[p] = None
  BY DEF Commit, Fail, Die, Idle, Done, Becomes, TypeOK
<1>3. ASSUME NEW r \in Request, session'[r].op = "upload"
      PROVE  versions' = {} /\ \A q \in Request \ {r} : session'[q] = None
  <2>1. Plans(r)' /\ session'[r] # None
    BY <1>3, SessionKinds DEF Plans, TypeOK, None
  <2>2. CASE session'[r] # session[r]
    <3>1. NewUpload(r) \/ NewCheckin(r) \/ NewPromote(r)
      BY <2>1, <2>2, PlanStep
    <3>2. NewUpload(r)
      BY <1>3, <3>1 DEF NewCheckin, NewPromote
    <3> QED
      BY <2>1, <2>2, <3>2, PlanStep DEF NewUpload, Idle
  <2>3. CASE session'[r] = session[r]
    <3>1. versions = {} /\ \A q \in Request \ {r} : session[q] = None
      BY <1>3, <2>3 DEF UploadAlone
    <3>2. \A p \in Request : ~ Commit(p) /\ ~ Fail(p) /\ ~ Die(p)
      BY <1>2, <2>1, <2>3, <3>1
    <3>3. \A p \in Request : ~ Decide(p)
      BY <3>1 DEF Decide, DecideCheckin, DecidePromote
    <3>4. \A p \in Request, u \in User : ~ Begin(p, u)
      BY <3>1 DEF Begin, BeginCheckout, BeginCheckin, BeginForceUnlock, BeginPromote,
                  BeginDelete, BeginBulkDelete, BeginProtect, Exists
    <3>5. \A p \in Request, u \in User, c \in Content : ~ BeginUpload(p, u, c)
      BY <2>1, <2>3 DEF BeginUpload, Idle
    <3>6. UNCHANGED <<versions, session>>
      BY <3>2, <3>3, <3>4, <3>5 DEF Next, Sign, Lift, vars
    <3> QED
      BY <3>1, <3>6
  <2> QED
    BY <2>2, <2>3
<1>4. ASSUME versions' = {}, NEW r \in Request, session'[r] # None
      PROVE  session'[r].op = "upload"
  <2>1. versions = {}
    BY <1>1, <1>4
  <2>2. CASE session'[r] = session[r]
    BY <1>4, <2>1, <2>2 DEF UploadAlone
  <2>3. CASE session'[r] # session[r]
    <3>1. \A p \in Request : ~ Decide(p)
      BY <2>1 DEF Decide, DecideCheckin, DecidePromote
    <3>2. \A p \in Request, u \in User : ~ Begin(p, u)
      BY <2>1 DEF Begin, BeginCheckout, BeginCheckin, BeginForceUnlock, BeginPromote,
                  BeginDelete, BeginBulkDelete, BeginProtect, Exists
    <3>3. \A p \in Request : Commit(p) \/ Fail(p) \/ Die(p) => session'[r] \in {session[r], None}
      BY DEF Commit, Fail, Die, Done, Becomes, TypeOK
    <3>4. PICK p \in Request, u \in User, c \in Content : BeginUpload(p, u, c)
      BY <1>4, <2>3, <3>1, <3>2, <3>3 DEF Next, Sign, Lift, vars
    <3> QED
      BY <2>3, <3>4 DEF BeginUpload, Becomes, TypeOK
  <2> QED
    BY <2>2, <2>3
<1> QED
  BY <1>3, <1>4 DEF UploadAlone

LEMMA KeysStep ==
  ASSUME TypeOK, TypeOK', Keys, [Next]_vars
  PROVE  Keys'
<1>1. /\ uploads \in Nat /\ uploads' \in Nat
      /\ \A v \in versions : v.object \in Nat
      /\ \A r \in Request : Plans(r) => Plan(r).object \in Nat
  BY DEF TypeOK, Version, Plans, Writing, Plan
<1>2. uploads <= uploads'
  BY <1>1, ObjectStep
<1>3. \A r \in Request : Commit(r) => session'[r] = None /\ objects' = objects
  BY DEF Commit, Done, Becomes, TypeOK
<1>4. \A r \in Request : Plans(r) => session[r] # None /\ session[r].op \in {"upload", "checkin", "promote"}
  BY DEF Plans, Writing, None
<1>5. \A r \in Request : Plans(r)' => session'[r] # None
  BY DEF Plans, Writing, None
<1>6. ASSUME NEW v \in versions'
      PROVE  v.object \in objects' /\ v.object < uploads'
  <2>1. CASE v \in versions
    <3>1. v.object \in objects /\ v.object < uploads
      BY <2>1 DEF Keys
    <3>2. v.object \in objects'
      BY <2>1, <3>1, ObjectStep DEF Keys
    <3> QED
      BY <1>1, <1>2, <2>1, <3>1, <3>2
  <2>2. CASE v \notin versions
    <3>1. PICK r \in Request : Plans(r) /\ Commit(r) /\ v = Plan(r)
      BY <1>6, <2>2, InsertStep
    <3>2. v.object \in objects /\ v.object < uploads /\ v.object \in Nat
      BY <1>1, <3>1 DEF Keys
    <3> QED
      BY <1>1, <1>2, <1>3, <3>1, <3>2
  <2> QED
    BY <2>1, <2>2
<1>7. ASSUME NEW r \in Request, Plans(r)'
      PROVE  (Plan(r).object \in objects /\ Plan(r).object < uploads)'
  <2>1. CASE session'[r] = session[r]
    <3>1. Plans(r) /\ Plan(r)' = Plan(r)
      BY <1>7, <2>1 DEF Plans, Plan
    <3>2. Plan(r).object \in objects /\ Plan(r).object < uploads /\ Plan(r).object \in Nat
      BY <1>1, <3>1 DEF Keys
    <3>3. Plan(r).object \in objects'
      BY <1>5, <1>7, <2>1, <3>1, <3>2, ObjectStep DEF Keys
    <3> QED
      BY <1>1, <1>2, <3>1, <3>2, <3>3
  <2>2. CASE session'[r] # session[r]
    <3>1. NewUpload(r) \/ NewCheckin(r) \/ NewPromote(r)
      BY <1>7, <2>2, PlanStep
    <3>2. CASE NewUpload(r) \/ NewCheckin(r)
      BY <1>1, <3>2 DEF NewUpload, NewCheckin
    <3>3. CASE NewPromote(r)
      BY <3>3 DEF NewPromote, Keys
    <3> QED
      BY <3>1, <3>2, <3>3
  <2> QED
    BY <2>1, <2>2
<1>8. ASSUME NEW r \in Request, OwnsKey(r)', NEW v \in versions'
      PROVE  v.object # Plan(r)'.object
  <2>1. CASE session'[r] = session[r]
    <3>1. OwnsKey(r) /\ Plan(r)' = Plan(r)
      BY <1>8, <2>1 DEF OwnsKey, Plans, Plan
    <3>2. CASE v \in versions
      BY <3>1, <3>2 DEF Keys
    <3>3. CASE v \notin versions
      <4>1. PICK q \in Request : Plans(q) /\ Commit(q) /\ v = Plan(q)
        BY <1>8, <3>3, InsertStep
      <4>2. q # r
        BY <1>3, <1>4, <2>1, <4>1
      <4> QED
        BY <3>1, <4>1, <4>2 DEF Keys
    <3> QED
      BY <3>2, <3>3
  <2>2. CASE session'[r] # session[r]
    <3>1. (NewUpload(r) \/ NewCheckin(r) \/ NewPromote(r)) /\ versions' = versions
      BY <1>8, <2>2, PlanStep DEF OwnsKey
    <3>2. Plan(r)'.object = uploads
      BY <1>8, <3>1 DEF NewUpload, NewCheckin, NewPromote, OwnsKey
    <3>3. v.object < uploads /\ v.object \in Nat
      BY <1>1, <1>8, <3>1 DEF Keys
    <3> QED
      BY <1>1, <3>2, <3>3
  <2> QED
    BY <2>1, <2>2
<1>9. ASSUME NEW r \in Request, OwnsKey(r)', NEW q \in Request \ {r}, Plans(q)'
      PROVE  Plan(q)'.object # Plan(r)'.object
  <2>1. CASE session'[r] = session[r] /\ session'[q] = session[q]
    <3>1. OwnsKey(r) /\ Plans(q) /\ Plan(r)' = Plan(r) /\ Plan(q)' = Plan(q)
      BY <1>9, <2>1 DEF OwnsKey, Plans, Plan
    <3> QED
      BY <3>1 DEF Keys
  <2>2. CASE session'[r] # session[r]
    <3>1. /\ NewUpload(r) \/ NewCheckin(r) \/ NewPromote(r)
          /\ session'[q] = session[q]
      BY <1>9, <2>2, PlanStep DEF OwnsKey
    <3>2. Plan(r)'.object = uploads
      BY <1>9, <3>1 DEF NewUpload, NewCheckin, NewPromote, OwnsKey
    <3>3. Plans(q) /\ Plan(q)' = Plan(q)
      BY <1>9, <3>1 DEF Plans, Plan
    <3>4. Plan(q).object < uploads /\ Plan(q).object \in Nat
      BY <1>1, <3>3 DEF Keys
    <3> QED
      BY <1>1, <3>2, <3>3, <3>4
  <2>3. CASE session'[q] # session[q]
    <3>1. /\ NewUpload(q) \/ NewCheckin(q) \/ NewPromote(q)
          /\ session'[r] = session[r]
      BY <1>9, <2>3, PlanStep
    <3>2. OwnsKey(r) /\ Plan(r)' = Plan(r)
      BY <1>9, <3>1 DEF OwnsKey, Plans, Plan
    <3>3. Plan(r).object < uploads /\ Plan(r).object \in Nat
      BY <1>1, <3>2 DEF Keys, OwnsKey
    <3>4. CASE NewUpload(q) \/ NewCheckin(q)
      BY <1>1, <3>2, <3>3, <3>4 DEF NewUpload, NewCheckin
    <3>5. CASE NewPromote(q)
      BY <3>2, <3>5 DEF NewPromote, Keys
    <3> QED
      BY <3>1, <3>4, <3>5
  <2> QED
    BY <2>1, <2>2, <2>3
<1> QED
  BY <1>6, <1>7, <1>8, <1>9 DEF Keys

(* How a step changes the row's version, when no version is added and when *)
(* one is.                                                                 *)
LEMMA RowStep ==
  ASSUME TypeOK, [Next]_vars, versions' = versions
  PROVE  document'.major = document.major /\ document'.minor = document.minor
<1>1. ASSUME NEW r \in Request, Commit(r)
      PROVE  document'.major = document.major /\ document'.minor = document.minor
  <2>1. \A v : Insert(v) => versions' # versions
    BY DEF Insert
  <2>2. \/ CommitCheckout(r) \/ CommitUnlock(r) \/ CommitDelete(r) \/ CommitProtect(r)
    BY <1>1, <2>1 DEF Commit, CommitUpload, CommitCheckin, CommitPromote
  <2> QED
    BY <2>2 DEF CommitCheckout, CommitUnlock, CommitDelete, CommitProtect, Unlocked, TypeOK, Document
<1>2. document' = document \/ \E r \in Request : Commit(r)
  BY DEF Next, vars, BeginUpload, Begin, Decide, DecideCheckin, DecidePromote, Fail, Die, Sign, Lift
<1> QED
  BY <1>1, <1>2

LEMMA RowFollows ==
  ASSUME TypeOK, NEW r \in Request, Commit(r), Plans(r)
  PROVE  /\ session[r].op = "upload" =>
              document'.major = Plan(r).major /\ document'.minor = Plan(r).minor
         /\ session[r].op = "checkin" =>
              /\ document'.major = Flushed(document.major, Plan(r).major, session[r].seen.major)
              /\ document'.minor = Flushed(document.minor, Plan(r).minor, session[r].seen.minor)
<1>1. session[r].op \in {"upload", "checkin", "promote"}
  BY DEF Plans, Writing
<1>2. \/ CommitUpload(r) /\ session[r].op = "upload"
      \/ CommitCheckin(r) /\ session[r].op = "checkin"
      \/ session[r].op = "promote"
  BY <1>1, StoreAssumption DEF Commit, CommitUpload, CommitCheckout, CommitCheckin, CommitUnlock,
     CommitPromote, CommitDelete, CommitProtect, Doing, StoreAssumption
<1> QED
  BY <1>2 DEF CommitUpload, CommitCheckin, Unlocked, WithCurrent, Plan, TypeOK, Document

LEMMA DraftsFollowStep ==
  ASSUME TypeOK, TypeOK', NoGaps, UploadAlone, PlansFollow, DraftsFollow, [Next]_vars
  PROVE  DraftsFollow'
<1> SUFFICES ASSUME Drafts' PROVE
      (/\ versions # {} =>
            /\ document.major = 0
            /\ \E v \in versions : v.minor = document.minor
            /\ \A v \in versions : v.minor <= document.minor
       /\ \A r \in Request :
            /\ session[r] \in Open => session[r].seen.major = 0 /\ session[r].seen.minor <= document.minor
            /\ Plans(r) /\ session[r].op = "checkin" =>
                 session[r].seen.major = 0 /\ session[r].seen.minor < Plan(r).minor)'
  BY DEF DraftsFollow
<1>1. Drafts
  BY InsertStep DEF Drafts
<1>2. /\ document.major \in Nat /\ document.minor \in Nat
      /\ document'.major \in Nat /\ document'.minor \in Nat
      /\ \A v \in versions : v.major \in Nat /\ v.minor \in Nat
      /\ \A r \in Request : session[r] \in Open => session[r].seen.major \in Nat /\ session[r].seen.minor \in Nat
      /\ \A r \in Request : Plans(r) => /\ session[r].seen.major \in Nat /\ session[r].seen.minor \in Nat
                                        /\ Plan(r).major \in Nat /\ Plan(r).minor \in Nat
                                        /\ session[r].op \in {"upload", "checkin", "promote"}
  BY DEF TypeOK, Document, Version, Plans, Writing, Plan, Number, Open
<1>3. /\ versions' # {} =>
            /\ document'.major = 0
            /\ \E v \in versions' : v.minor = document'.minor
            /\ \A v \in versions' : v.minor <= document'.minor
      /\ versions # {} => document.minor <= document'.minor
  <2>1. CASE versions' = versions
    BY <1>1, <1>2, <2>1, RowStep DEF DraftsFollow
  <2>2. ASSUME NEW r \in Request, Plans(r), Commit(r), versions' = versions \cup {Plan(r)},
               \A w \in versions : NumberOf(w) # NumberOf(Plan(r))
        PROVE  /\ document'.major = 0
               /\ \E v \in versions' : v.minor = document'.minor
               /\ \A v \in versions' : v.minor <= document'.minor
               /\ versions # {} => document.minor <= document'.minor
    <3>1. CASE session[r].op = "upload"
      <4>1. versions = {} /\ Plan(r).major = 0 /\ Plan(r).minor = 1
        BY <2>2, <3>1 DEF UploadAlone, PlansFollow
      <4>2. document'.major = 0 /\ document'.minor = 1
        BY <2>2, <3>1, <4>1, RowFollows
      <4> QED
        BY <2>2, <4>1, <4>2
    <3>2. CASE session[r].op = "checkin"
      <4>1. PICK w \in versions : Plan(r).major = w.major /\ Plan(r).minor = w.minor + 1
        BY <2>2, <3>2 DEF PlansFollow
      <4>2. Plan(r).major = 0 /\ session[r].seen.major = 0 /\ session[r].seen.minor < Plan(r).minor
        BY <1>1, <2>2, <3>2, <4>1 DEF DraftsFollow, Drafts
      <4>3. document'.major = document.major /\ document'.minor = Plan(r).minor
        BY <1>2, <2>2, <3>2, <4>2, RowFollows DEF Flushed
      <4>4. PICK v \in versions : v.minor = document.minor
        BY <1>1, <4>1 DEF DraftsFollow
      <4>5. /\ document.major = 0 /\ w.minor <= document.minor
            /\ \A x \in versions : x.minor <= document.minor
        BY <1>1, <4>1 DEF DraftsFollow
      <4>6. ASSUME Plan(r).minor <= document.minor PROVE FALSE
        <5>1. v.major = 0 /\ First(v.major) = 1
          BY <1>1 DEF Drafts, First
        <5>2. Plan(r).minor \in First(v.major) .. v.minor
          BY <1>2, <2>2, <4>1, <4>4, <4>6, <5>1
        <5>3. Has(0, Plan(r).minor)
          BY <5>1, <5>2 DEF NoGaps
        <5> QED
          BY <2>2, <4>2, <5>3 DEF Has, NumberOf
      <4>7. document.minor < Plan(r).minor
        BY <1>2, <2>2, <4>6
      <4>8. \A x \in versions' : x.minor <= Plan(r).minor
        BY <1>2, <2>2, <4>5, <4>7
      <4> QED
        BY <1>2, <2>2, <4>3, <4>5, <4>7, <4>8
    <3>3. CASE session[r].op = "promote"
      <4>1. PICK w \in versions : Plan(r).major = w.major + 1
        BY <2>2, <3>3 DEF PlansFollow
      <4>2. Plan(r).major = 0
        BY <2>2 DEF Drafts
      <4> QED
        BY <1>2, <4>1, <4>2
    <3> QED
      BY <1>2, <2>2, <3>1, <3>2, <3>3
  <2> QED
    BY <2>1, <2>2, InsertStep
<1>4. ASSUME NEW r \in Request, session'[r] \in Open
      PROVE  session'[r].seen.major = 0 /\ session'[r].seen.minor <= document'.minor
  <2>1. CASE session'[r] = session[r]
    <3>1. session[r] \in Open /\ session[r] # None /\ session[r].op # "upload"
      BY <1>4, <2>1 DEF Open, None
    <3>2. versions # {}
      BY <3>1 DEF UploadAlone
    <3>3. session[r].seen.major = 0 /\ session[r].seen.minor <= document.minor
      BY <1>1, <3>1 DEF DraftsFollow
    <3> QED
      BY <1>2, <1>3, <2>1, <3>1, <3>2, <3>3
  <2>2. CASE session'[r] # session[r]
    <3>1. session'[r].seen = NumberOf(document) /\ versions # {} /\ document' = document
      BY <1>4, <2>2, OpenStep
    <3>2. document.major = 0
      BY <1>1, <3>1 DEF DraftsFollow
    <3> QED
      BY <1>2, <3>1, <3>2 DEF NumberOf
  <2> QED
    BY <2>1, <2>2
<1>5. ASSUME NEW r \in Request, Plans(r)', session'[r].op = "checkin"
      PROVE  session'[r].seen.major = 0 /\ session'[r].seen.minor < Plan(r)'.minor
  <2>1. CASE session'[r] = session[r]
    <3>1. Plans(r) /\ session[r].op = "checkin" /\ Plan(r)' = Plan(r)
      BY <1>5, <2>1 DEF Plans, Plan
    <3> QED
      BY <1>1, <2>1, <3>1 DEF DraftsFollow
  <2>2. CASE session'[r] # session[r]
    <3>1. NewCheckin(r)
      BY <1>5, <2>2, PlanStep DEF NewUpload, NewPromote
    <3>2. PICK v \in versions : IsLatest(v) /\ Plan(r)'.minor = v.minor + 1
      BY <3>1 DEF NewCheckin
    <3>3. PICK x \in versions : x.minor = document.minor
      BY <1>1, <3>2 DEF DraftsFollow
    <3>4. x.minor <= v.minor
      <4>1. x.major = 0 /\ v.major = 0 /\ ~ Below(v, x)
        BY <1>1, <3>2, <3>3 DEF Drafts, IsLatest
      <4> QED
        BY <1>2, <4>1 DEF Below
    <3>5. session[r].seen.major = 0 /\ session[r].seen.minor <= document.minor
      BY <1>1, <3>1 DEF NewCheckin, DraftsFollow
    <3>6. session[r].seen.minor < v.minor + 1
      BY <1>2, <3>1, <3>3, <3>4, <3>5 DEF NewCheckin
    <3> QED
      BY <3>1, <3>2, <3>5, <3>6 DEF NewCheckin
  <2> QED
    BY <2>1, <2>2
<1> QED
  BY <1>3, <1>4, <1>5

-----------------------------------------------------------------------------
(* The theorems.                                                           *)

LEMMA InvStep == Inv /\ [Next]_vars => Inv'
<1> SUFFICES ASSUME Inv, [Next]_vars PROVE Inv'
  OBVIOUS
<1>1. TypeOK'
  BY NextType DEF Inv
<1> QED
  BY <1>1, UniqueStep, NoGapsStep, NoRepeatedContentStep, UploadAloneStep, PlansFollowStep,
     KeysStep, DraftsFollowStep DEF Inv

(* The inductive invariant holds of every state of the store.              *)
THEOREM InvAlways == Spec => []Inv
<1>1. Init => Inv
  BY InitInv
<1>2. Inv /\ [Next]_vars => Inv'
  BY InvStep
<1> QED
  BY <1>1, <1>2, PTL DEF Spec

(* Whatever requests run beside each other, fail or die, the numbers given *)
(* to versions (document_service.py 481-482 and 681-682) have no holes.    *)
THEOREM VersionsHaveNoGaps == Spec => []NoGaps
<1>1. Inv => NoGaps
  BY DEF Inv
<1> QED
  BY <1>1, InvAlways, PTL

(* No failure or death of a request (document_service.py 139-141, 561-563) *)
(* takes the object of a committed version out of the bucket.              *)
THEOREM VersionsKeepTheirContent == Spec => []EveryVersionHasContent
<1>1. Inv => EveryVersionHasContent
  BY DEF Inv, Keys, EveryVersionHasContent
<1> QED
  BY <1>1, InvAlways, PTL

(* The comparison of hashes (document_service.py 473-474) is as good under *)
(* concurrent check-ins as it is alone.                                    *)
THEOREM ContentIsNotRepeated == Spec => []NoRepeatedContent
<1>1. Inv => NoRepeatedContent
  BY DEF Inv
<1> QED
  BY <1>1, InvAlways, PTL

(* Before the first promotion the row names the latest version, although   *)
(* it is written from stale reads (document_service.py 512-513).           *)
THEOREM DraftsAreCurrent == Spec => []CurrentIsLatestDraft
<1>1. ASSUME Inv, versions # {}, Drafts
      PROVE  \E v \in versions : IsLatest(v) /\ NumberOf(v) = NumberOf(document)
  <2>1. PICK v \in versions : v.minor = document.minor
    BY <1>1 DEF Inv, DraftsFollow
  <2>2. /\ document.major = 0 /\ v.major = 0
        /\ \A w \in versions : w.major = 0 /\ w.minor <= v.minor
    BY <1>1, <2>1 DEF Inv, DraftsFollow, Drafts
  <2>3. \A w \in versions : w.minor \in Nat
    BY <1>1 DEF Inv, TypeOK, Version
  <2>4. IsLatest(v)
    BY <2>2, <2>3 DEF IsLatest, Below
  <2> QED
    BY <2>1, <2>2, <2>4 DEF NumberOf
<1>2. Inv => CurrentIsLatestDraft
  BY <1>1 DEF CurrentIsLatestDraft, Drafts
<1> QED
  BY <1>2, InvAlways, PTL
=============================================================================
