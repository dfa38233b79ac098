---------------------------- MODULE DocumentStore ----------------------------
(***************************************************************************)
(* One document of the store: its row, its version rows, and the objects   *)
(* that hold their content in MinIO.  Requests run at the same time, each  *)
(* in a session of its own that reads committed rows, waits for I/O, and   *)
(* commits what it decided on rows that others may have changed since.     *)
(***************************************************************************)
EXTENDS Integers, FiniteSets

CONSTANTS
  User,
  Content,      \* what a file may contain, as told apart by its SHA-256
  Request,      \* the requests that may be in progress at once
  Protection,   \* the kinds of legal hold and retention
  Nobody,       \* NULL in documents.locked_by
  MaxUploads,   \* bound: objects ever put into the bucket
  MaxMajor,     \* bound: major versions
  MaxSigned     \* bound: signed versions

ASSUME StoreAssumption ==
  /\ Nobody \notin User
  /\ MaxUploads \in Nat /\ MaxMajor \in Nat /\ MaxSigned \in Nat
  /\ Protection \cap {"idle", "upload", "checkout", "checkin", "unchanged",
                      "unlock", "promote", "delete"} = {}

VARIABLES
  document,    \* the documents row; it exists once a version does
  versions,    \* the document_versions rows
  signed,      \* the numbers of the versions with a signature
  protected,   \* the protections in force
  objects,     \* the keys in the bucket
  uploads,     \* the number of keys made: version ids are never used again
  session      \* what each request has read and decided

vars == <<document, versions, signed, protected, objects, uploads, session>>

Number   == [major : Nat, minor : Nat]
Document == [locked_by : User \cup {Nobody}, major : Nat, minor : Nat, is_deleted : BOOLEAN]
Version  == [major : Nat, minor : Nat, content : Content, object : Nat]

(* A request that has only read the document row is "open"; one that has   *)
(* decided what to write is "ready".  version is the row it will insert.   *)
None     == [op |-> "idle"]
Open     == [op : {"checkin", "promote"}, status : {"open"}, by : User, seen : Number]
Writing  == [op : {"upload", "checkin", "promote"}, status : {"ready"}, by : User,
             seen : Number, version : Version]
Changing == [op : {"checkout", "unchanged", "unlock", "delete"} \cup Protection,
             status : {"ready"}, by : User]
Session  == {None} \cup Open \cup Writing \cup Changing

NumberOf(row) == [major |-> row.major, minor |-> row.minor]
Below(m, n)   == \/ m.major < n.major
                 \/ m.major = n.major /\ m.minor < n.minor

(* order_by(major.desc(), minor.desc()).limit(1)                           *)
IsLatest(v) == /\ v \in versions
               /\ \A w \in versions : ~ Below(v, w)

IsSigned(v)     == NumberOf(v) \in signed
Exists          == versions # {} /\ ~ document.is_deleted
LatestUnsigned  == \A v \in versions : IsLatest(v) => ~ IsSigned(v)

Idle(r)        == session[r] = None
Doing(r, op)   == session[r].op = op
Becomes(r, s)  == session' = [session EXCEPT ![r] = s]
Done(r)        == Becomes(r, None)
Ready(op, u)   == [op |-> op, status |-> "ready", by |-> u]
OpenFor(op, u) == [op |-> op, status |-> "open", by |-> u, seen |-> NumberOf(document)]

-----------------------------------------------------------------------------
(* A request begins: it reads the document and passes the guards.          *)

(* The object is uploaded before any row is written.                       *)
BeginUpload(r, u, c) ==
  /\ versions = {} /\ \A q \in Request : Idle(q)
  /\ uploads < MaxUploads
  /\ objects' = objects \cup {uploads}
  /\ uploads' = uploads + 1
  /\ Becomes(r, [op |-> "upload", status |-> "ready", by |-> u,
                 seen |-> NumberOf(document),
                 version |-> [major |-> 0, minor |-> 1, content |-> c, object |-> uploads]])
  /\ UNCHANGED <<document, versions, signed, protected>>

BeginCheckout(r, u) ==
  /\ Exists /\ LatestUnsigned
  /\ document.locked_by = Nobody
  /\ Becomes(r, Ready("checkout", u))

BeginCheckin(r, u) ==
  /\ Exists /\ LatestUnsigned
  /\ document.locked_by = u
  /\ Becomes(r, OpenFor("checkin", u))

BeginForceUnlock(r, u) ==
  /\ Exists
  /\ document.locked_by # Nobody
  /\ Becomes(r, Ready("unlock", u))

BeginPromote(r, u) ==
  /\ Exists
  /\ Becomes(r, OpenFor("promote", u))

BeginDelete(r, u) ==
  /\ protected = {}
  /\ Exists
  /\ Becomes(r, Ready("delete", u))

(* The bulk task calls check_document_deletable for its answer and drops   *)
(* the answer.                                                             *)
BeginBulkDelete(r, u) ==
  /\ Exists
  /\ Becomes(r, Ready("delete", u))

BeginProtect(r, u, p) ==
  /\ Exists
  /\ Becomes(r, Ready(p, u))

Begin(r, u) ==
  /\ Idle(r)
  /\ \/ BeginCheckout(r, u)
     \/ BeginCheckin(r, u)
     \/ BeginForceUnlock(r, u)
     \/ BeginPromote(r, u)
     \/ BeginDelete(r, u)
     \/ BeginBulkDelete(r, u)
     \/ \E p \in Protection : BeginProtect(r, u, p)
  /\ UNCHANGED <<document, versions, signed, protected, objects, uploads>>

-----------------------------------------------------------------------------
(* A request that writes a version reads the latest one, after the row.    *)

(* Mutant: counts on from the document row instead of the latest version.  *)
NextMinorOfRow(r, v, c, k) ==
  [major |-> session[r].seen.major, minor |-> session[r].seen.minor + 1,
   content |-> c, object |-> k]

NextMinor(r, v, c, k) ==
  [major |-> v.major, minor |-> v.minor + 1, content |-> c, object |-> k]

NextMajor(v) ==
  [major |-> v.major + 1, minor |-> 0, content |-> v.content, object |-> v.object]

(* Mutant: compares with the first draft only.                             *)
UnchangedSinceUpload(v, c) == v.minor = 1 /\ v.content = c

Unchanged(v, c) == v.content = c

Decided(r, v) == [op |-> session[r].op, status |-> "ready", by |-> session[r].by,
                  seen |-> session[r].seen, version |-> v]

(* Unchanged content only gives the lock back; changed content is uploaded *)
(* under a new key.                                                        *)
DecideCheckin(r, c) ==
  /\ \E v \in versions :
       /\ IsLatest(v)
       /\ \/ /\ Unchanged(v, c)
             /\ Becomes(r, Ready("unchanged", session[r].by))
             /\ UNCHANGED <<objects, uploads>>
          \/ /\ ~ Unchanged(v, c)
             /\ uploads < MaxUploads
             /\ objects' = objects \cup {uploads}
             /\ uploads' = uploads + 1
             /\ Becomes(r, Decided(r, NextMinor(r, v, c, uploads)))
  /\ UNCHANGED <<document, versions, signed, protected>>

(* A promoted version shares the object of the version it promotes.        *)
DecidePromote(r) ==
  /\ \E v \in versions :
       /\ IsLatest(v)
       /\ v.major < MaxMajor
       /\ Becomes(r, Decided(r, NextMajor(v)))
  /\ UNCHANGED <<document, versions, signed, protected, objects, uploads>>

Decide(r) ==
  /\ ~ Idle(r) /\ session[r].status = "open"
  /\ \/ Doing(r, "checkin") /\ \E c \in Content : DecideCheckin(r, c)
     \/ Doing(r, "promote") /\ DecidePromote(r)

-----------------------------------------------------------------------------
(* A request commits.  The row written back holds only the columns whose   *)
(* value differs from the one the session loaded.                          *)

Flushed(column, new, seen) == IF new = seen THEN column ELSE new

(* Mutant: a check-in counts the row's own minor version up.               *)
WithCurrentCounted(d, n, seen) ==
  [d EXCEPT !.major = Flushed(@, n.major, seen.major),
            !.minor = IF n.minor = 0 THEN 0 ELSE seen.minor + 1]

WithCurrent(d, n, seen) ==
  [d EXCEPT !.major = Flushed(@, n.major, seen.major),
            !.minor = Flushed(@, n.minor, seen.minor)]

Unlocked(d) == [d EXCEPT !.locked_by = Nobody]

(* The unique constraint uq_document_version.                              *)
Insert(v) ==
  /\ \A w \in versions : NumberOf(w) # NumberOf(v)
  /\ versions' = versions \cup {v}

CommitUpload(r) ==
  /\ Doing(r, "upload")
  /\ Insert(session[r].version)
  /\ document' = [document EXCEPT !.major = session[r].version.major,
                                  !.minor = session[r].version.minor]
  /\ UNCHANGED protected

CommitCheckout(r) ==
  /\ Doing(r, "checkout")
  /\ document' = [document EXCEPT !.locked_by = session[r].by]
  /\ UNCHANGED <<versions, protected>>

CommitCheckin(r) ==
  /\ Doing(r, "checkin")
  /\ Insert(session[r].version)
  /\ document' = Unlocked(WithCurrent(document, session[r].version, session[r].seen))
  /\ UNCHANGED protected

CommitUnlock(r) ==
  /\ Doing(r, "unchanged") \/ Doing(r, "unlock")
  /\ document' = Unlocked(document)
  /\ UNCHANGED <<versions, protected>>

CommitPromote(r) ==
  /\ Doing(r, "promote")
  /\ Insert(session[r].version)
  /\ document' = WithCurrent(document, session[r].version, session[r].seen)
  /\ UNCHANGED protected

CommitDelete(r) ==
  /\ Doing(r, "delete")
  /\ document' = [document EXCEPT !.is_deleted = TRUE]
  /\ UNCHANGED <<versions, protected>>

CommitProtect(r) ==
  /\ session[r].op \in Protection
  /\ protected' = protected \cup {session[r].op}
  /\ UNCHANGED <<document, versions>>

Commit(r) ==
  /\ ~ Idle(r) /\ session[r].status = "ready"
  /\ \/ CommitUpload(r)  \/ CommitCheckout(r) \/ CommitCheckin(r) \/ CommitUnlock(r)
     \/ CommitPromote(r) \/ CommitDelete(r)   \/ CommitProtect(r)
  /\ Done(r)
  /\ UNCHANGED <<signed, objects, uploads>>

-----------------------------------------------------------------------------
(* Mutant: a failed promotion deletes "its" object too.                    *)
UploadedOrPromoted(r) ==
  session[r].status = "ready" /\ session[r].op \in {"upload", "checkin", "promote"}

Uploaded(r) == session[r].status = "ready" /\ session[r].op \in {"upload", "checkin"}

(* An exception, the unique constraint's among them, rolls the rows back;  *)
(* upload and check-in delete the object they put.                         *)
Fail(r) ==
  /\ ~ Idle(r)
  /\ objects' = IF Uploaded(r) THEN objects \ {session[r].version.object} ELSE objects
  /\ Done(r)
  /\ UNCHANGED <<document, versions, signed, protected, uploads>>

(* The process dies, or the commit itself fails: nobody deletes the object.*)
Die(r) ==
  /\ ~ Idle(r)
  /\ Done(r)
  /\ UNCHANGED <<document, versions, signed, protected, objects, uploads>>

(* A signature reads its version's content; nothing asks for the document. *)
Sign(v) ==
  /\ Cardinality(signed) < MaxSigned
  /\ v.object \in objects
  /\ signed' = signed \cup {NumberOf(v)}
  /\ UNCHANGED <<document, versions, protected, objects, uploads, session>>

(* The last hold is released, or the last retention is removed or expires. *)
Lift(p) ==
  /\ protected' = protected \ {p}
  /\ UNCHANGED <<document, versions, signed, objects, uploads, session>>

Init ==
  /\ document = [locked_by |-> Nobody, major |-> 0, minor |-> 0, is_deleted |-> FALSE]
  /\ versions = {} /\ signed = {} /\ protected = {}
  /\ objects = {} /\ uploads = 0
  /\ session = [r \in Request |-> None]

Next ==
  \/ \E r \in Request :
       \/ \E u \in User, c \in Content : BeginUpload(r, u, c)
       \/ \E u \in User : Begin(r, u)
       \/ Decide(r) \/ Commit(r) \/ Fail(r) \/ Die(r)
  \/ \E v \in versions : Sign(v)
  \/ \E p \in protected : Lift(p)

Spec == Init /\ [][Next]_vars

-----------------------------------------------------------------------------
TypeOK ==
  /\ document \in Document
  /\ versions \in SUBSET Version
  /\ signed \in SUBSET Number
  /\ protected \in SUBSET Protection
  /\ objects \in SUBSET Nat
  /\ uploads \in Nat
  /\ session \in [Request -> Session]

Has(major, minor) == \E v \in versions : v.major = major /\ v.minor = minor
First(major)      == IF major = 0 THEN 1 ELSE 0

(* Version numbers have no holes: every minor number down to the first of  *)
(* its major, and every major down to 0, was given to a version, although  *)
(* check-ins and promotions compute numbers from a row that another        *)
(* request may have outdated (document_service.py 462-482, 665-682).       *)
NoGaps ==
  \A v \in versions :
    /\ \A m \in First(v.major) .. v.minor : Has(v.major, m)
    /\ \A n \in 0 .. v.major : Has(n, First(n))

(* A committed version's object stays in the bucket whatever requests fail *)
(* or die beside it: the clean-up of a failed check-in never deletes what  *)
(* a row names, be it a promoted copy (document_service.py 561-563, 692).  *)
EveryVersionHasContent == \A v \in versions : v.object \in objects

(* A check-in never repeats the content of the version it follows, whoever *)
(* else checks in meanwhile (document_service.py 473-474).                 *)
NoRepeatedContent ==
  \A v, w \in versions :
    v.major = w.major /\ v.minor = w.minor + 1 => v.content # w.content

(* As long as nothing was promoted, the row's current version is the       *)
(* latest version, in spite of requests that write back only the columns   *)
(* they believe changed (document_service.py 512-513).                     *)
CurrentIsLatestDraft ==
  (versions # {} /\ \A v \in versions : v.major = 0) =>
    \E v \in versions : IsLatest(v) /\ NumberOf(v) = NumberOf(document)
==============================================================================
