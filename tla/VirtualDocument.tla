--------------------------- MODULE VirtualDocument ----------------------------
(***************************************************************************)
(* A virtual document: child documents in an order.                        *)
(* A request reads the rows when it begins and writes them when it         *)
(* commits, row by row in the order of their keys; the database refuses a  *)
(* row whose sort_order another row has at that moment.                    *)
(***************************************************************************)
EXTENDS Integers, Sequences, FiniteSets

CONSTANTS
  Document,
  Request,   \* the requests that may be in progress at once
  Key,       \* bound: the primary keys of rows; random, so a new one is any
  Position   \* bound: the sort_orders a request names

VARIABLES
  present,   \* the virtual document is there and not deleted
  rows,      \* virtual_document_children: key to document and sort_order
  documents, \* the documents that are not deleted
  request

vars == <<present, rows, documents, request>>

RowOf(d) == {k \in DOMAIN rows : rows[k].document = d}
Children == {rows[k].document : k \in DOMAIN rows}

-----------------------------------------------------------------------------
(* The flush: orders is written to the rows it has, key after key.         *)

Written(orders, upTo) ==
  [k \in DOMAIN rows |->
     IF k \in DOMAIN orders /\ k <= upTo THEN [rows[k] EXCEPT !.sort_order = orders[k]]
     ELSE rows[k]]

NoDuplicates(table) ==
  \A j, k \in DOMAIN table : table[j].sort_order = table[k].sort_order => j = k

(* Deletions among the rows come first, an insertion last.                 *)
Flushes(orders) ==
  /\ DOMAIN orders \subseteq DOMAIN rows
  /\ \A k \in DOMAIN orders : NoDuplicates(Written(orders, k))

Idle == [op |-> "idle"]
Begin(r, decision) ==
  /\ present
  /\ request[r] = Idle
  /\ request' = [request EXCEPT ![r] = decision]
  /\ UNCHANGED <<present, rows, documents>>

-----------------------------------------------------------------------------
(* The handlers.                                                           *)

(* One row with a NULL description and no children.                        *)
CreateVirtualDocument ==
  /\ ~ present /\ rows = << >>
  /\ present' = TRUE
  /\ UNCHANGED <<rows, documents, request>>

(* The rows of the children stay.                                          *)
DeleteVirtualDocument ==
  /\ present
  /\ present' = FALSE
  /\ UNCHANGED <<rows, documents, request>>

NextSortOrder ==
  IF rows = << >> THEN 0
  ELSE 1 + CHOOSE n \in {rows[k].sort_order : k \in DOMAIN rows} :
             \A k \in DOMAIN rows : rows[k].sort_order <= n

(* _detect_cycle always answers no: a child is never a virtual document.   *)
DetectCycle(d) == FALSE

AppendChild(r, d) ==
  /\ d \in documents /\ ~ DetectCycle(d) /\ d \notin Children
  /\ Begin(r, [op |-> "add", document |-> d, sort_order |-> NextSortOrder,
               orders |-> << >>])

(* The children at the position and after it move up.                      *)
Shifted(p) ==
  LET after == {k \in DOMAIN rows : rows[k].sort_order >= p}
  IN [k \in after |-> rows[k].sort_order + 1]

InsertChild(r, d, p) ==
  /\ d \in documents /\ ~ DetectCycle(d) /\ d \notin Children
  /\ Begin(r, [op |-> "add", document |-> d, sort_order |-> p, orders |-> Shifted(p)])

(* The children after the removed one move down.                           *)
Compacted(k) ==
  LET after == {j \in DOMAIN rows : rows[j].sort_order > rows[k].sort_order}
  IN [j \in after |-> rows[j].sort_order - 1]

RemoveChild(r, d) ==
  \E k \in RowOf(d) : Begin(r, [op |-> "remove", key |-> k, orders |-> Compacted(k)])

(* The documents named must be the children; one named twice gets the last *)
(* of its places.                                                          *)
Reordered(ids) ==
  [k \in DOMAIN rows |->
     -1 + CHOOSE i \in DOMAIN ids :
            ids[i] = rows[k].document /\ \A j \in DOMAIN ids : ids[j] = ids[i] => j <= i]

ReorderChildren(r, ids) ==
  /\ {ids[i] : i \in DOMAIN ids} = Children
  /\ Begin(r, [op |-> "reorder", orders |-> Reordered(ids)])

-----------------------------------------------------------------------------
(* The end of a request: what it wrote is committed, or an error undoes it. *)

CommitAdd(r) ==
  LET q == request[r] IN
  /\ q.op = "add"
  /\ Flushes(q.orders) /\ q.document \notin Children
  /\ \E k \in Key \ DOMAIN rows :
       /\ rows' = [j \in DOMAIN rows \cup {k} |->
                     IF j = k THEN [document |-> q.document, sort_order |-> q.sort_order]
                     ELSE Written(q.orders, j)[j]]
       /\ NoDuplicates(rows')

(* A row that somebody else removed in the meantime is no error.           *)
CommitRemove(r) ==
  LET q    == request[r]
      kept == [k \in DOMAIN rows \ {q.key} |-> rows[k]]
      put  == [k \in DOMAIN kept |-> Written(q.orders, k)[k]]
  IN
  /\ q.op = "remove"
  /\ DOMAIN q.orders \subseteq DOMAIN rows
  /\ \A k \in DOMAIN q.orders :
       NoDuplicates([j \in DOMAIN kept |-> Written(q.orders, k)[j]])
  /\ rows' = put

CommitReorder(r) ==
  LET q == request[r] IN
  /\ q.op = "reorder"
  /\ Flushes(q.orders)
  /\ rows' = [k \in DOMAIN rows |-> Written(q.orders, k)[k]]

Commit(r) ==
  /\ CommitAdd(r) \/ CommitRemove(r) \/ CommitReorder(r)
  /\ request' = [request EXCEPT ![r] = Idle]
  /\ UNCHANGED <<present, documents>>

Fail(r) ==
  /\ request[r] # Idle
  /\ request' = [request EXCEPT ![r] = Idle]
  /\ UNCHANGED <<present, rows, documents>>

(* Elsewhere a document is deleted: it stays a child.                      *)
DeleteDocument(d) ==
  /\ documents' = documents \ {d}
  /\ UNCHANGED <<present, rows, request>>

-----------------------------------------------------------------------------
Init ==
  /\ present = FALSE
  /\ rows = << >>
  /\ documents = Document
  /\ request = [r \in Request |-> Idle]

(* The endpoints; a new title or description changes nothing modelled.     *)
ChildRequest(r) ==
  \/ \E d \in Document :
       AppendChild(r, d) \/ RemoveChild(r, d) \/ \E p \in Position : InsertChild(r, d, p)
  \/ \E n \in {Cardinality(Children), Cardinality(Children) + 1} :
       \E ids \in [1 .. n -> Children] : ReorderChildren(r, ids)
  \/ Commit(r) \/ Fail(r)

Next ==
  \/ CreateVirtualDocument \/ DeleteVirtualDocument
  \/ \E r \in Request : ChildRequest(r)
  \/ \E d \in documents : DeleteDocument(d)

Spec == Init /\ [][Next]_vars

-----------------------------------------------------------------------------
(* A user may put the children in any order                                *)
(* (virtual_document_service.py 314-323).                                  *)
AnyOrderCanBeGiven ==
  \A ids \in [1 .. Cardinality(Children) -> Children] :
    {ids[i] : i \in DOMAIN ids} = Children => Flushes(Reordered(ids))
================================================================================
