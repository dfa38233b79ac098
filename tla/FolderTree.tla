------------------------------ MODULE FolderTree ------------------------------
(***************************************************************************)
(* Cabinets, folders and the documents filed in them.  A request reads the *)
(* tree and passes its guards when it begins, and writes when it commits:  *)
(* other requests may have committed in between.                           *)
(***************************************************************************)
EXTENDS Integers, Sequences, FiniteSets

CONSTANTS
  Document,
  Request,     \* the folder requests that may be in progress at once
  MaxFolders   \* bound: folders ever created

ASSUME FolderAssumption == MaxFolders \in Nat

VARIABLES
  folders,     \* the folders rows; parent is 0 for NULL
  filed,       \* the document_folders rows
  documents,   \* the documents that are not deleted
  request,     \* what each request has decided to write
  overtaken,   \* history: how others have crossed it since it read
  crossed      \* history: how those that committed had been crossed

treeVars == <<folders, filed, documents, request, overtaken, crossed>>

Folder  == [parent : Nat, is_cabinet : BOOLEAN, is_deleted : BOOLEAN]
Ids     == 1 .. Len(folders)
Present == {f \in Ids : ~ folders[f].is_deleted}

Idle    == [op |-> "idle"]
Begin(r, decision) ==
  /\ request' = [request EXCEPT ![r] = decision]
  /\ UNCHANGED <<folders, filed, documents, overtaken, crossed>>

(* Two moves cross, and a deletion and whatever is not a deletion, when    *)
(* one commits between the reading and the commit of the other.            *)
Crossing(mine, other) ==
  {c \in {"moves", "deletion"} :
     IF c = "moves" THEN mine = "move" /\ other = "move"
     ELSE (mine = "delete") # (other = "delete")}

(* The recursive query: the least set that holds its anchor and the folders *)
(* that are not deleted under those it holds.                               *)
Children(f) == {g \in Present : folders[g].parent = f}
Closed(S)   == \A g \in Present : folders[g].parent \in S => g \in S
Below(anchor) ==
  LET closed == {S \in SUBSET Ids : anchor \subseteq S /\ Closed(S)}
  IN {g \in Ids : \A S \in closed : g \in S}

(* Mutant: asks for the children only.                                     *)
ChildrenOnly(f) == Children(f)

Descendants(f) == Below(Children(f))

(* Mutant: the folder without what is in it.                               *)
ItselfOnly(f) == {f}

Subtree(f) == Below({f})

-----------------------------------------------------------------------------
(* A request begins.                                                       *)

(* A cabinet needs no parent, a folder one that exists.                    *)
BeginCreateCabinet(r) == Begin(r, [op |-> "create", parent |-> 0, is_cabinet |-> TRUE])

BeginCreateFolder(r, p) ==
  /\ p \in Present
  /\ Begin(r, [op |-> "create", parent |-> p, is_cabinet |-> FALSE])

(* In a circle the queries, UNION ALL all of them, do not end.  A move to   *)
(* where the folder is writes nothing.                                     *)
BeginMove(r, f) ==
  LET inside == Descendants(f) IN
  /\ f \in Present /\ f \notin inside
  /\ \E p \in Present \ {folders[f].parent} :
       /\ p # f /\ p \notin inside
       /\ Begin(r, [op |-> "move", folder |-> f, parent |-> p])

(* Without a destination the copy goes beside the source.                  *)
BeginCopy(r, f) ==
  LET subtree == Subtree(f) IN
  /\ f \in Present /\ folders[f].parent \notin subtree
  /\ \E destination \in Present \cup {folders[f].parent} :
       /\ destination # 0 => destination \in Present
       /\ Begin(r, [op |-> "copy", folder |-> f, parent |-> destination,
                    subtree |-> subtree,
                    parents |-> [g \in subtree |-> folders[g].parent]])

BeginDelete(r, f) ==
  LET subtree == Subtree(f) IN
  /\ f \in Present /\ folders[f].parent \notin subtree
  /\ Begin(r, [op |-> "delete", subtree |-> subtree])

BeginFile(r, f, d) ==
  /\ f \in Present
  /\ d \in documents
  /\ <<d, f>> \notin filed
  /\ Begin(r, [op |-> "file", folder |-> f, document |-> d])

-----------------------------------------------------------------------------
(* A request commits.                                                      *)

CommitCreate(q) ==
  /\ q.op = "create"
  /\ Len(folders) < MaxFolders
  /\ folders' = Append(folders, [parent |-> q.parent, is_cabinet |-> q.is_cabinet,
                                 is_deleted |-> FALSE])
  /\ filed' = filed

CommitMove(q) ==
  /\ q.op = "move"
  /\ folders' = [folders EXCEPT ![q.folder].parent = q.parent,
                                ![q.folder].is_cabinet = FALSE]
  /\ filed' = filed

(* Each folder of the subtree gets a copy; which id is of no consequence.  *)
CopyOf(S, f) == Len(folders) + Cardinality({g \in S : g <= f})

CopiedParent(q, f) == IF f = q.folder THEN q.parent ELSE CopyOf(q.subtree, q.parents[f])

CommitCopy(q) ==
  LET S == q.subtree IN
  /\ q.op = "copy"
  /\ Len(folders) + Cardinality(S) <= MaxFolders
  /\ folders' = folders \o [i \in 1 .. Cardinality(S) |->
       LET f == CHOOSE g \in S : CopyOf(S, g) = Len(folders) + i
       IN [parent |-> CopiedParent(q, f), is_cabinet |-> FALSE, is_deleted |-> FALSE]]
  /\ filed' = filed \cup UNION {{<<e[1], CopyOf(S, f)>> : e \in {x \in filed : x[2] = f}} : f \in S}

(* Mutant: only the folder itself is emptied.                              *)
FiledOutsideRoot(S) == {e \in filed : e[2] # CHOOSE f \in S : folders[f].parent \notin S}

FiledOutside(S) == {e \in filed : e[2] \notin S}

CommitDelete(q) ==
  /\ q.op = "delete"
  /\ folders' = [f \in Ids |->
       IF f \in q.subtree THEN [folders[f] EXCEPT !.is_deleted = TRUE] ELSE folders[f]]
  /\ filed' = FiledOutside(q.subtree)

(* The primary key of document_folders.                                    *)
CommitFile(q) ==
  /\ q.op = "file"
  /\ <<q.document, q.folder>> \notin filed
  /\ filed' = filed \cup {<<q.document, q.folder>>}
  /\ folders' = folders

Commit(r) ==
  /\ \/ CommitCreate(request[r]) \/ CommitMove(request[r]) \/ CommitCopy(request[r])
     \/ CommitDelete(request[r]) \/ CommitFile(request[r])
  /\ request' = [request EXCEPT ![r] = Idle]
  /\ crossed' = crossed \cup overtaken[r]
  /\ overtaken' = [s \in Request |->
       IF s = r \/ request[s] = Idle THEN {}
       ELSE overtaken[s] \cup Crossing(request[s].op, request[r].op)]
  /\ UNCHANGED documents

(* An error rolls the request back.                                        *)
Fail(r) ==
  /\ request[r] # Idle
  /\ request' = [request EXCEPT ![r] = Idle]
  /\ overtaken' = [overtaken EXCEPT ![r] = {}]
  /\ UNCHANGED <<folders, filed, documents, crossed>>

(* One statement, without a look at the folder.                            *)
Unfile(f, d) ==
  /\ <<d, f>> \in filed
  /\ filed' = filed \ {<<d, f>>}
  /\ UNCHANGED <<folders, documents, request, overtaken, crossed>>

(* A document is deleted; its filings stay.                                *)
DeleteDocument(d) ==
  /\ d \in documents
  /\ documents' = documents \ {d}
  /\ UNCHANGED <<folders, filed, request, overtaken, crossed>>

TreeInit ==
  /\ folders = <<>> /\ filed = {}
  /\ documents = Document
  /\ request = [r \in Request |-> Idle]
  /\ overtaken = [r \in Request |-> {}] /\ crossed = {}

(* The endpoints; a rename changes nothing that is modelled.               *)
FolderRequest(r) ==
  /\ request[r] = Idle
  /\ \/ BeginCreateCabinet(r)
     \/ \E f \in Ids :
          \/ BeginCreateFolder(r, f) \/ BeginDelete(r, f)
          \/ BeginMove(r, f) \/ BeginCopy(r, f)
          \/ \E d \in Document : BeginFile(r, f, d)

TreeNext ==
  \/ \E r \in Request : FolderRequest(r) \/ Commit(r) \/ Fail(r)
  \/ \E d \in Document : DeleteDocument(d) \/ \E f \in Ids : Unfile(f, d)

TreeSpec == TreeInit /\ [][TreeNext]_treeVars

-----------------------------------------------------------------------------
Decision ==
  {Idle}
  \cup [op : {"create"}, parent : Nat, is_cabinet : BOOLEAN]
  \cup [op : {"move"}, folder : Nat, parent : Nat]
  \cup [op : {"delete"}, subtree : SUBSET Nat]
  \cup [op : {"file"}, folder : Nat, document : Document]

CopyDecision(S) ==
  [op : {"copy"}, folder : Nat, parent : Nat, subtree : {S}, parents : [S -> Nat]]

TreeTypeOK ==
  /\ folders \in Seq(Folder)
  /\ filed \subseteq Document \X Nat
  /\ documents \subseteq Document
  /\ DOMAIN request = Request
  /\ \A r \in Request :
       request[r] \in Decision \/ \E S \in SUBSET Ids : request[r] \in CopyDecision(S)
  /\ overtaken \in [Request -> SUBSET {"moves", "deletion"}]
  /\ crossed \subseteq {"moves", "deletion"}

NoCircle ==
  \A S \in SUBSET Present : S # {} => \E f \in S : folders[f].parent \notin S

(* Folders never contain themselves, no set of folders has all its parents *)
(* inside it, unless a move was committed over another that it did not see *)
(* (the guard is a query, the write comes later): creations, copies,       *)
(* filings and deletions that cross a move never make a circle, in which   *)
(* the recursive queries would not end (folder_service.py 315-329).        *)
Acyclic == "moves" \notin crossed => NoCircle

(* A folder that is not deleted has a parent that is not: deletion takes   *)
(* whole subtrees, and nothing is created, moved or copied into what was   *)
(* deleted, unless it crosses the deletion (folder_service.py 136, 326,    *)
(* 350, 441-469).  Moves and copies may cross each other.                  *)
NoOrphans ==
  "deletion" \notin crossed =>
    \A f \in Present : folders[f].parent # 0 => folders[f].parent \in Present

(* Documents are filed only in folders that are not deleted, if no filing  *)
(* or copy crossed a deletion; and a cabinet is never inside a folder, in  *)
(* whatever order requests commit (folder_service.py 329, 399, 472).       *)
FiledInFolders ==
  /\ "deletion" \notin crossed => \A e \in filed : e[2] \in Present
  /\ \A f \in Ids : folders[f].is_cabinet => folders[f].parent = 0
================================================================================
