---------------------------- MODULE DocumentAccess ----------------------------
(***************************************************************************)
(* Who may do what with a document: the entries of its own access list,    *)
(* those of the folders above it, its place in a workflow, and the         *)
(* lifecycle whose transitions remove entries.                             *)
(***************************************************************************)
EXTENDS FolderTree

CONSTANTS
  User, Group,
  MemberOf,    \* the groups of each user
  Rules,       \* the lifecycle_acl_rules rows
  Performer,   \* bound: the users who get work items
  Level,       \* bound: the permission levels given on documents
  FolderLevel, \* bound: the permission levels given on folders
  MaxEntries   \* bound: access entries at once

VARIABLES
  acl,         \* document_acl: <<document, principal, level>>
  folder_acl,  \* folder_acl: <<folder, principal, level>>
  lifecycle,   \* documents.lifecycle_state
  performers   \* <<document, user>>: an open item of a workflow that has it

accessVars == <<acl, folder_acl, lifecycle, performers>>
vars == <<treeVars, accessVars>>

PermissionLevel == {"READ", "WRITE", "DELETE", "ADMIN"}
Rank == [READ |-> 1, WRITE |-> 2, DELETE |-> 3, ADMIN |-> 4]
Principal       == User \cup Group
LifecycleState  == {"DRAFT", "REVIEW", "APPROVED", "ARCHIVED"}
LIFECYCLE_TRANSITIONS ==
  {<<"DRAFT", "REVIEW">>, <<"REVIEW", "APPROVED">>, <<"REVIEW", "DRAFT">>,
   <<"APPROVED", "ARCHIVED">>}

Rule == [from : LifecycleState, to : LifecycleState, action : {"add", "remove"},
         level : PermissionLevel]

ASSUME AccessAssumption ==
  /\ MemberOf \in [User -> SUBSET Group]
  /\ User \cap Group = {}
  /\ Rules \subseteq Rule
  /\ Performer \subseteq User /\ (Level \cup FolderLevel) \subseteq PermissionLevel
  /\ MaxEntries \in Nat

-----------------------------------------------------------------------------
(* check_permission                                                        *)

(* Mutant: off by one.                                                     *)
MoreThanRequired(granted, required) == Rank[granted] > Rank[required]

HasSufficientPermission(granted, required) == Rank[granted] >= Rank[required]

As(u) == {u} \cup MemberOf[u]

Grants(entries, u, level) ==
  \E e \in entries : e[2] \in As(u) /\ HasSufficientPermission(e[3], level)

EntriesOf(d) == {e \in acl : e[1] = d}
FoldersOf(d) == {e[2] : e \in {x \in filed : x[1] = d}}

(* A walk up from the folders that are not deleted, through others.        *)
Above(F, through) ==
  LET up[n \in 0 .. Len(folders)] ==
        IF n = 0 THEN F \cap Present
        ELSE LET found == up[n - 1]
             IN found \cup ({folders[f].parent : f \in found} \cap through)
  IN up[Len(folders)]

(* The recursive query: only its anchor is tested for deletion.            *)
Ancestors(F) == Above(F, Ids)

(* Mutant: entries are not inherited from the folders above.               *)
EntriesOnFolders(d) == {e \in folder_acl : e[1] \in FoldersOf(d)}

InheritedEntries(d) ==
  LET above == Ancestors(FoldersOf(d)) IN {e \in folder_acl : e[1] \in above}

CheckPermission(d, u, level) ==
  LET own       == EntriesOf(d)
      inherited == InheritedEntries(d)
  IN \/ own = {} /\ inherited = {}
     \/ Grants(own, u, level) \/ Grants(inherited, u, level)
     \/ level = "READ" /\ <<d, u>> \in performers

(* The users whose request for the level passes.                           *)
Allowed(d, level) == {u \in User : CheckPermission(d, u, level)}

(* Where a user's access is said to come from.                             *)
AccessSource(d, u) ==
  IF \E e \in EntriesOf(d) : e[2] \in As(u) THEN "direct"
  ELSE IF \E e \in InheritedEntries(d) : e[2] \in As(u) THEN "folder_inherited"
  ELSE "open"

(* Entries of folders above do not count for the folder's own list.        *)
CheckFolderPermission(f, u, level) ==
  Grants({e \in folder_acl : e[1] = f}, u, level)

(* The tree as a user sees it: a chain is walked over the folders that are *)
(* not deleted, and ends at one that is.                                   *)
Chain(f) == Above({f}, Present)

(* Mutant: a folder with a list of its own is judged by that list alone.   *)
VisibleByOwnList(u) ==
  {f \in Present : {e \in folder_acl : e[1] = f} = {}
                   \/ CheckFolderPermission(f, u, "READ")}

VisibleFolders(u) ==
  LET listed     == {e[1] : e \in folder_acl}
      accessible == {e[1] : e \in {x \in folder_acl : x[2] \in As(u)}}
      chain      == [f \in Present |-> Chain(f)]
  IN {f \in Present : chain[f] \cap listed = {}}
     \cup UNION {chain[f] : f \in {g \in Present : chain[g] \cap accessible # {}}}

-----------------------------------------------------------------------------
(* The endpoints for documents ask for the level they need; those for      *)
(* folders let superusers pass.                                            *)

Insert(entries, e) ==
  /\ Cardinality(acl) + Cardinality(folder_acl) < MaxEntries
  /\ e \notin entries

(* An upload gives its user an ADMIN entry.                                *)
CreateOwnerAcl(d, u) ==
  /\ d \in documents
  /\ EntriesOf(d) = {} /\ lifecycle[d] = "DRAFT"
  /\ Insert(acl, <<d, u, "ADMIN">>)
  /\ acl' = acl \cup {<<d, u, "ADMIN">>}
  /\ UNCHANGED <<treeVars, folder_acl, lifecycle, performers>>

AddAclEntry(d, p, level) ==
  /\ Insert(acl, <<d, p, level>>)
  /\ Allowed(d, "ADMIN") # {}
  /\ acl' = acl \cup {<<d, p, level>>}
  /\ UNCHANGED <<treeVars, folder_acl, lifecycle, performers>>

RemoveAclEntry(d, e) ==
  /\ e \in EntriesOf(d)
  /\ Allowed(d, "ADMIN") # {}
  /\ acl' = acl \ {e}
  /\ UNCHANGED <<treeVars, folder_acl, lifecycle, performers>>

AddFolderAcl(f, p, level) ==
  /\ Insert(folder_acl, <<f, p, level>>)
  /\ folder_acl' = folder_acl \cup {<<f, p, level>>}
  /\ UNCHANGED <<treeVars, acl, lifecycle, performers>>

RemoveFolderAcl(e) ==
  /\ folder_acl' = folder_acl \ {e}
  /\ UNCHANGED <<treeVars, acl, lifecycle, performers>>

(* A superuser, or a user with ADMIN on the folder; folder_id is not       *)
(* looked up.                                                              *)
FolderAclRequest(f) ==
  \/ \E p \in Principal, level \in FolderLevel : AddFolderAcl(f, p, level)
  \/ \E e \in {x \in folder_acl : x[1] = f} : RemoveFolderAcl(e)

(* Mutant: a rule removes the entries of its level, whichever that is.     *)
RemovedWithAdmin(d, to) ==
  {e \in EntriesOf(d) : \E rule \in Rules :
     /\ rule.from = lifecycle[d] /\ rule.to = to
     /\ rule.action = "remove" /\ rule.level = e[3]}

(* "add" rules write an audit record and nothing else.                     *)
RemovedByRules(d, to) ==
  {e \in EntriesOf(d) : \E rule \in Rules :
     /\ rule.from = lifecycle[d] /\ rule.to = to
     /\ rule.action = "remove" /\ rule.level = e[3]
     /\ e[3] # "ADMIN"}

TransitionLifecycleState(d, to) ==
  /\ d \in documents
  /\ <<lifecycle[d], to>> \in LIFECYCLE_TRANSITIONS
  /\ lifecycle' = [lifecycle EXCEPT ![d] = to]
  /\ acl' = acl \ RemovedByRules(d, to)
  /\ UNCHANGED <<treeVars, folder_acl, performers>>

(* By a user with WRITE, by a workflow's activity, its auto method or a    *)
(* bulk job: an invalid transition is reported and changes nothing.        *)
LifecycleRequest(d) ==
  \E to \in LifecycleState :
    /\ Allowed(d, "WRITE") # {} \/ d \in {e[1] : e \in performers}
    /\ TransitionLifecycleState(d, to)

(* A work item of a workflow with the document is given, or is closed.     *)
OpenItem(d, u) ==
  /\ performers' = performers \cup {<<d, u>>}
  /\ UNCHANGED <<treeVars, acl, folder_acl, lifecycle>>

CloseItem(e) ==
  /\ performers' = performers \ {e}
  /\ UNCHANGED <<treeVars, acl, folder_acl, lifecycle>>

Init ==
  /\ TreeInit
  /\ acl = {} /\ folder_acl = {} /\ performers = {}
  /\ lifecycle = [d \in Document |-> "DRAFT"]

AclRequest(d) ==
  \/ \E u \in User : CreateOwnerAcl(d, u)
  \/ \E p \in Principal, level \in Level : AddAclEntry(d, p, level)
  \/ \E e \in EntriesOf(d) : RemoveAclEntry(d, e)

AccessNext ==
  \/ \E d \in Document :
       AclRequest(d) \/ LifecycleRequest(d) \/ \E u \in Performer : OpenItem(d, u)
  \/ \E f \in Ids : FolderAclRequest(f)
  \/ \E e \in performers : CloseItem(e)

Next == (TreeNext /\ UNCHANGED accessVars) \/ AccessNext

Spec == Init /\ [][Next]_vars

-----------------------------------------------------------------------------
AccessTypeOK ==
  /\ acl \subseteq Document \X Principal \X PermissionLevel
  /\ folder_acl \subseteq Nat \X Principal \X PermissionLevel
  /\ lifecycle \in [Document -> LifecycleState]
  /\ performers \subseteq Document \X User

MayRead(d) == Allowed(d, "READ")

(* A document that still has an owner, an ADMIN entry, never becomes       *)
(* readable to anybody by a lifecycle transition: the rules take entries   *)
(* away, but never the last one, which would open the document to everyone *)
(* (lifecycle_service.py 121-141, acl_service.py 289-309).                 *)
TransitionsNarrow ==
  [][\A d \in Document :
       /\ lifecycle'[d] # lifecycle[d]
       /\ \E e \in EntriesOf(d) : e[3] = "ADMIN"
       => MayRead(d)' \subseteq MayRead(d)]_vars

(* The two walks over the tree agree: whoever may read a filed document    *)
(* without being named on it or working on it sees a folder that holds it, *)
(* so what a user may read is reachable by browsing, as long as no crossed *)
(* requests left a circle, where neither walk ends, or an orphan           *)
(* (acl_service.py 229-265, folder_service.py 248-269).                    *)
ReadableIsReachable ==
  \A d \in {e[1] : e \in filed}, u \in User :
    /\ crossed = {} /\ <<d, u>> \notin performers
    /\ CheckPermission(d, u, "READ") /\ AccessSource(d, u) # "direct"
    => FoldersOf(d) \cap VisibleFolders(u) # {}

(* The source named for a user's access is the reason check_permission has *)
(* for granting it: an "open" document is one without any entry, unless    *)
(* the user works on it (acl_service.py 175-311, 434-529).                 *)
SourceExplains ==
  \A d \in Document, u \in User :
    CheckPermission(d, u, "READ") <=>
      \/ AccessSource(d, u) # "open" \/ <<d, u>> \in performers
      \/ EntriesOf(d) = {} /\ InheritedEntries(d) = {}
================================================================================
