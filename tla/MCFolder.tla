------------------------------- MODULE MCFolder -------------------------------
(* A small instance of the folders and of the access to a document.        *)
EXTENDS DocumentAccess, TLC
CONSTANTS u1, u2, staff, r1, r2

MCMemberOf == u1 :> {staff} @@ u2 :> {}
MCRules ==
  {[from |-> "DRAFT", to |-> "REVIEW", action |-> "remove", level |-> "ADMIN"],
   [from |-> "REVIEW", to |-> "APPROVED", action |-> "remove", level |-> "READ"],
   [from |-> "REVIEW", to |-> "DRAFT", action |-> "add", level |-> "READ"]}

MCSymmetry == Permutations(Request)

(* Folder requests do not read the access lists, and the properties are    *)
(* about one state of the tree and the lists, or one lifecycle step: the   *)
(* tree is built first, access is given to a document that is filed in one *)
(* of up to three folders, and the lifecycle moves and items are given in  *)
(* trees of two.                                                           *)
TreeFirst ==
  /\ accessVars' # accessVars =>
       /\ documents = Document /\ filed # {} /\ crossed = {}
       /\ Len(folders) = MaxFolders - 1 => Present = Ids
       /\ \A r \in Request : request[r] = Idle
  /\ <<lifecycle, performers>>' # <<lifecycle, performers>> => Len(folders) < MaxFolders - 1
  /\ treeVars' # treeVars =>
       /\ acl = {} /\ folder_acl = {} /\ performers = {}
       /\ \A d \in Document : lifecycle[d] = "DRAFT"

(* A tree of four folders, a copy's work, is looked at and left alone, and *)
(* so is one after both crossings, of which little is claimed.             *)
Small == Len(folders) < MaxFolders /\ Cardinality(crossed) < 2

(* Requests overlap in trees of two folders, moves and deletions also in   *)
(* those of three in which nothing is deleted or filed; not after the      *)
(* document is deleted, nor after one request has crossed another.         *)
Overlap ==
  /\ documents' # documents => \A r \in Request : request[r] = Idle
  /\ (\A r \in Request : request'[r] # Idle) =>
       /\ crossed = {} /\ documents = Document
       /\ \/ Len(folders') < MaxFolders - 1
          \/ /\ filed' = {} /\ Present' = Ids'
             /\ \A r \in Request : request'[r].op \in {"move", "delete"}
=============================================================================
