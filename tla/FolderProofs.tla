----------------------------- MODULE FolderProofs -----------------------------
(***************************************************************************)
(* What becomes of the folder tree, for any number of folders and any      *)
(* requests at once: which overlaps can spoil it, and that no other can;   *)
(* and a document's transitions take access away, for any rules.           *)
(***************************************************************************)
EXTENDS DocumentAccess, IterationProofs, SequenceTheorems

Rows ==
  /\ folders \in Seq(Folder)
  /\ \A f \in Ids : folders[f].parent \in 0 .. Len(folders)
  /\ DOMAIN request = Request /\ DOMAIN overtaken = Request

Cabinets == \A f \in Ids : folders[f].is_cabinet => folders[f].parent = 0
Hanging  == \A f \in Present : folders[f].parent # 0 => folders[f].parent \in Present
Filed    == \A e \in filed : e[2] \in Present

(* The folders that are copied are no circle either.                       *)
Rooted(parents, S) == \A T \in SUBSET S : T # {} => \E f \in T : parents[f] \notin T

(* What a request found, and what of it is still so, unless it was crossed *)
(* as o says.                                                              *)
Found(q) ==
  /\ q.op = "create" =>
       /\ q.parent \in Ids \cup {0} /\ q.is_cabinet \in BOOLEAN
       /\ q.is_cabinet => q.parent = 0
  /\ q.op = "move" => q.folder \in Ids /\ q.parent \in Ids /\ q.parent # q.folder
  /\ q.op = "copy" =>
       /\ q.folder \in q.subtree /\ q.subtree \in SUBSET Ids
       /\ q.parent \in Ids \cup {0}
       /\ \A f \in q.subtree \ {q.folder} : q.parents[f] \in q.subtree
       /\ "moves" \notin crossed => Rooted(q.parents, q.subtree)
  /\ q.op = "delete" => q.subtree \in SUBSET Ids

StillTrue(q, o) ==
  /\ q.op = "move" /\ "moves" \notin o => q.parent \notin Descendants(q.folder)
  /\ "deletion" \notin o =>
       /\ q.op \in {"create", "copy"} => q.parent \in Present \cup {0}
       /\ q.op = "move" => q.parent \in Present
       /\ q.op = "file" => q.folder \in Present
       /\ q.op = "delete" => Closed(q.subtree)

Pending == \A r \in Request : Found(request[r]) /\ StillTrue(request[r], overtaken[r])

TreeInv == Rows /\ Acyclic /\ NoOrphans /\ FiledInFolders /\ Pending

LEMMA CrossingIs ==
  ASSUME NEW mine, NEW other
  PROVE  /\ "moves" \in Crossing(mine, other) <=> mine = "move" /\ other = "move"
         /\ "deletion" \in Crossing(mine, other) <=>
              ~ (mine = "delete" <=> other = "delete")
BY DEF Crossing

-----------------------------------------------------------------------------
(* The recursive query.                                                    *)
LEMMA BelowIsClosed ==
  ASSUME NEW A
  PROVE  Below(A) \subseteq Ids /\ (A \subseteq Ids => A \subseteq Below(A)) /\ Closed(Below(A))
BY DEF Below, Closed, Present

LEMMA BelowIsPresent ==
  ASSUME NEW A \in SUBSET Present
  PROVE  Below(A) \subseteq Present
<1>1. Closed(Present) /\ Present \in SUBSET Ids
  BY DEF Closed, Present
<1> QED
  BY <1>1 DEF Below

(* A folder is found because it is asked for or because its parent is.     *)
LEMMA BelowHasReason ==
  ASSUME NEW A \in SUBSET Present, NEW g \in Below(A), g \notin A
  PROVE  folders[g].parent \in Below(A)
<1> SUFFICES ASSUME folders[g].parent \notin Below(A) PROVE FALSE
  OBVIOUS
<1>1. A \subseteq Below(A) /\ Below(A) \subseteq Ids /\ Closed(Below(A))
  BY BelowIsClosed DEF Present
<1> DEFINE S == Below(A) \ {g}
<1>2. S \in SUBSET Ids /\ A \subseteq S /\ Closed(S)
  BY <1>1 DEF Closed
<1> QED
  BY <1>2 DEF Below

LEMMA UnderDescendants ==
  ASSUME NEW f \in Present, NEW g \in Present, g # f,
         folders[g].parent \in Descendants(f) \cup {f}
  PROVE  g \in Descendants(f)
<1>1. Children(f) \subseteq Descendants(f) /\ Closed(Descendants(f))
  BY BelowIsClosed DEF Descendants, Children, Present
<1> QED
  BY <1>1 DEF Children, Closed

-----------------------------------------------------------------------------
(* The ids of copies.                                                      *)
LEMMA IdsAreFinite ==
  ASSUME Rows, NEW S \in SUBSET Ids
  PROVE  IsFiniteSet(S) /\ Cardinality(S) \in Nat
<1>1. IsFiniteSet(Ids)
  BY FS_Interval DEF Rows, Ids
<1> QED
  BY <1>1, FS_Subset, FS_CardinalityType

LEMMA CopiesAreNew ==
  ASSUME Rows, NEW S \in SUBSET Ids
  PROVE  /\ \A f \in S : CopyOf(S, f) \in Len(folders) + 1 .. Len(folders) + Cardinality(S)
         /\ \A f, g \in S : f < g => CopyOf(S, f) < CopyOf(S, g)
<1> DEFINE upto(f) == {g \in S : g <= f}
<1>1. \A f \in S : /\ upto(f) \in SUBSET S /\ IsFiniteSet(upto(f))
                   /\ Cardinality(upto(f)) \in Nat
                   /\ Cardinality(upto(f)) <= Cardinality(S)
                   /\ Cardinality(upto(f)) # 0
  <2> TAKE f \in S
  <2>1. f \in upto(f) /\ upto(f) \in SUBSET S /\ f \in Nat
    BY DEF Ids, Rows
  <2>2. IsFiniteSet(S) /\ IsFiniteSet(upto(f)) /\ Cardinality(upto(f)) <= Cardinality(S)
    BY <2>1, IdsAreFinite, FS_Subset
  <2> HIDE DEF upto
  <2> QED
    BY <2>1, <2>2, FS_CardinalityType, FS_EmptySet
<1>2. \A f \in S : CopyOf(S, f) = Len(folders) + Cardinality(upto(f))
  BY DEF CopyOf
<1>3. Len(folders) \in Nat /\ Cardinality(S) \in Nat
  BY IdsAreFinite DEF Rows
<1>4. ASSUME NEW f \in S, NEW g \in S, f < g
      PROVE  Cardinality(upto(f)) < Cardinality(upto(g))
  <2>1. upto(f) \in SUBSET upto(g) /\ g \in upto(g) /\ g \notin upto(f)
    <3>1. S \subseteq Nat
      BY DEF Ids, Rows
    <3>2. \A h \in S : h <= f => h <= g
      BY <1>4, <3>1
    <3>3. g <= g /\ ~ (g <= f)
      BY <1>4, <3>1
    <3> QED
      BY <3>2, <3>3
  <2> HIDE DEF upto
  <2>2. /\ Cardinality(upto(f)) <= Cardinality(upto(g))
        /\ Cardinality(upto(f)) # Cardinality(upto(g))
    BY <1>1, <2>1, FS_Subset
  <2> QED
    BY <1>1, <2>2
<1> HIDE DEF upto
<1> QED
  BY <1>1, <1>2, <1>3, <1>4

(* Every new id is the id of the copy of one folder.                       *)
LEMMA CopiesAreDense ==
  ASSUME Rows, NEW S \in SUBSET Ids,
         NEW n \in Len(folders) + 1 .. Len(folders) + Cardinality(S)
  PROVE  \E f \in S : CopyOf(S, f) = n
<1> DEFINE T == Len(folders) + 1 .. Len(folders) + Cardinality(S)
           copy == [f \in S |-> CopyOf(S, f)]
<1>1. Len(folders) \in Nat /\ Cardinality(S) \in Nat /\ IsFiniteSet(S)
  BY IdsAreFinite DEF Rows
<1>2. IsFiniteSet(T) /\ Cardinality(T) = Cardinality(S)
  BY <1>1, FS_Interval
<1>3. \A f, g \in S : CopyOf(S, f) = CopyOf(S, g) => f = g
  <2>1. \A f \in S : CopyOf(S, f) \in T
    BY CopiesAreNew
  <2>2. \A f \in S : f \in Nat
    BY DEF Ids, Rows
  <2>3. \A f, g \in S : f < g => CopyOf(S, f) < CopyOf(S, g)
    BY CopiesAreNew
  <2>4. \A f \in S : CopyOf(S, f) \in Int
    BY <1>1, <2>1
  <2> QED
    BY <2>2, <2>3, <2>4
<1>4. copy \in Injection(S, T)
  BY <1>3, CopiesAreNew DEF Injection, IsInjective
<1> HIDE DEF T, copy
<1>5. copy \in Surjection(S, T)
  BY <1>2, <1>4, FS_Injection
<1> QED
  BY <1>5 DEF Surjection, T, copy

-----------------------------------------------------------------------------
(* Folders that are added do not disturb those that are there.             *)
Grown ==
  /\ folders' \in Seq(Folder)
  /\ Len(folders') \in Nat /\ Len(folders') >= Len(folders)
  /\ \A f \in Ids : folders'[f] = folders[f]

LEMMA GrownPresent ==
  ASSUME Rows, Grown
  PROVE  /\ Ids \subseteq Ids' /\ Present \subseteq Present'
         /\ \A f \in Ids : f \in Present' <=> f \in Present
BY DEF Grown, Rows, Ids, Present

LEMMA GrownHasNoCircle ==
  ASSUME Rows, NoCircle, Grown,
         \A N \in SUBSET (Ids' \ Ids) : N # {} => \E f \in N : folders'[f].parent \notin N
  PROVE  NoCircle'
<1> SUFFICES ASSUME NEW S \in SUBSET Present', S # {},
                    \A f \in S : folders'[f].parent \in S
             PROVE  FALSE
  BY DEF NoCircle
<1>1. S \cap Ids \in SUBSET Present
  BY GrownPresent
<1>2. S \cap Ids = {}
  <2>1. \A f \in S \cap Ids : folders[f].parent \in S \cap Ids
    <3> TAKE f \in S \cap Ids
    <3>1. folders'[f] = folders[f] /\ folders[f].parent \in S
      BY DEF Grown
    <3>2. S \subseteq Nat \ {0}
      BY DEF Present, Ids, Grown
    <3>3. folders[f].parent \in 0 .. Len(folders)
      BY DEF Rows
    <3> QED
      BY <3>1, <3>2, <3>3 DEF Ids, Rows
  <2> QED
    BY <1>1, <2>1 DEF NoCircle
<1> QED
  BY <1>2 DEF Present

-----------------------------------------------------------------------------
(* What each request writes, when it was crossed as o says.                *)
Leaves(o) ==
  /\ Rows' /\ Cabinets'
  /\ NoCircle /\ "moves" \notin crossed \cup o => NoCircle'
  /\ "deletion" \notin o => (Hanging => Hanging') /\ (Filed => Filed')

LEMMA CreateKeeps ==
  ASSUME Rows, Cabinets, NEW q, NEW o, Found(q), StillTrue(q, o), CommitCreate(q),
         DOMAIN request' = Request, DOMAIN overtaken' = Request
  PROVE  Leaves(o) /\ Grown
<1> DEFINE n == Len(folders) + 1
           row == [parent |-> q.parent, is_cabinet |-> q.is_cabinet, is_deleted |-> FALSE]
<1>1. /\ q.parent \in Ids \cup {0} /\ q.is_cabinet \in BOOLEAN
      /\ q.is_cabinet => q.parent = 0
      /\ "deletion" \notin o => q.parent \in Present \cup {0}
      /\ folders' = Append(folders, row) /\ filed' = filed
  BY DEF CommitCreate, Found, StillTrue
<1>2. q.parent \in 0 .. Len(folders) /\ row \in Folder
  BY <1>1 DEF Ids, Rows, Folder
<1> HIDE DEF row
<1>3. /\ Len(folders') = n /\ folders'[n] = row /\ folders' \in Seq(Folder)
      /\ \A f \in Ids : folders'[f] = folders[f]
  BY <1>1, <1>2 DEF Rows, Ids
<1>4. Grown /\ Ids' = Ids \cup {n} /\ n \notin Ids
  BY <1>3 DEF Grown, Rows, Ids
<1>5. row.parent = q.parent /\ row.is_cabinet = q.is_cabinet /\ ~ row.is_deleted
  BY DEF row
<1>6. Rows'
  BY <1>2, <1>3, <1>4, <1>5 DEF Rows, Ids
<1>7. NoCircle => NoCircle'
  <2>1. \A N \in SUBSET (Ids' \ Ids) : N # {} => N = {n}
    BY <1>4
  <2>2. folders'[n].parent # n
    BY <1>2, <1>3, <1>5 DEF Rows
  <2>3. \A N \in SUBSET (Ids' \ Ids) : N # {} => \E f \in N : folders'[f].parent \notin N
    BY <2>1, <2>2
  <2> QED
    BY <1>4, <2>3, GrownHasNoCircle
<1>8. /\ Present \subseteq Present'
      /\ \A f \in Present' : f \in Present \/ f = n
  BY <1>4, GrownPresent DEF Present
<1>9. "deletion" \notin o /\ Hanging => Hanging'
  BY <1>1, <1>3, <1>5, <1>8 DEF Hanging, Present
<1>10. Filed => Filed'
  BY <1>1, <1>8 DEF Filed
<1>11. Cabinets'
  BY <1>1, <1>3, <1>4, <1>5 DEF Cabinets
<1> QED
  BY <1>4, <1>6, <1>7, <1>9, <1>10, <1>11 DEF Leaves

LEMMA MoveKeeps ==
  ASSUME Rows, Cabinets, NEW q, NEW o, Found(q), StillTrue(q, o), CommitMove(q),
         DOMAIN request' = Request, DOMAIN overtaken' = Request
  PROVE  Leaves(o) /\ Ids' = Ids /\ Present' = Present
<1>1. /\ q.folder \in Ids /\ q.parent \in Ids /\ q.parent # q.folder
      /\ "moves" \notin o => q.parent \notin Descendants(q.folder)
      /\ "deletion" \notin o => q.parent \in Present
      /\ filed' = filed
  BY DEF CommitMove, Found, StillTrue
<1>2. PICK f \in Ids, p \in Ids : f = q.folder /\ p = q.parent
  BY <1>1
<1> DEFINE row == [folders[f] EXCEPT !.parent = p, !.is_cabinet = FALSE]
<1>3. folders[f] \in Folder /\ p \in Nat
  BY <1>2 DEF Rows, Ids
<1>4. /\ row \in Folder /\ row.parent = p /\ ~ row.is_cabinet
      /\ row.is_deleted = folders[f].is_deleted
  BY <1>3 DEF Folder
<1>5. folders' = [folders EXCEPT ![f] = row]
  BY <1>2 DEF CommitMove
<1> HIDE DEF row
<1>6. /\ folders' \in Seq(Folder) /\ Len(folders') = Len(folders) /\ Ids' = Ids
      /\ folders'[f] = row /\ \A g \in Ids \ {f} : folders'[g] = folders[g]
  BY <1>3, <1>4, <1>5 DEF Rows, Ids
<1>7. Present' = Present
  BY <1>4, <1>6 DEF Present
<1>8. Rows'
  BY <1>3, <1>4, <1>6 DEF Rows, Ids
<1>9. ASSUME NoCircle, "moves" \notin crossed \cup o
      PROVE  NoCircle'
  <2> SUFFICES ASSUME NEW S \in SUBSET Present, S # {},
                      \A g \in S : folders'[g].parent \in S
               PROVE  FALSE
    BY <1>7 DEF NoCircle
  <2>1. f \in S
    BY <1>6, <1>9 DEF NoCircle, Present
  <2>2. p \in S /\ p # f /\ p \notin Descendants(f)
    BY <1>1, <1>2, <1>4, <1>6, <1>9, <2>1
  <2> DEFINE T == S \ (Descendants(f) \cup {f})
  <2>3. p \in T
    BY <2>2
  <2>4. ASSUME NEW g \in T
        PROVE  folders[g].parent \in T
    <3>1. g \in Present /\ g # f /\ folders[g].parent \in S
      BY <1>6, <2>4 DEF Present
    <3>2. folders[g].parent \notin Descendants(f) \cup {f}
      BY <2>1, <2>4, <3>1, UnderDescendants
    <3> QED
      BY <3>1, <3>2
  <2>5. T \in SUBSET Present
    OBVIOUS
  <2> HIDE DEF T
  <2> QED
    BY <1>9, <2>3, <2>4, <2>5 DEF NoCircle
<1>10. "deletion" \notin o /\ Hanging => Hanging'
  BY <1>1, <1>2, <1>4, <1>6, <1>7 DEF Hanging, Present
<1>11. Filed => Filed'
  BY <1>1, <1>7 DEF Filed
<1>12. Cabinets'
  BY <1>4, <1>6 DEF Cabinets
<1> QED
  BY <1>6, <1>7, <1>8, <1>9, <1>10, <1>11, <1>12 DEF Leaves

LEMMA DeleteKeeps ==
  ASSUME Rows, Cabinets, NEW q, NEW o, Found(q), StillTrue(q, o), CommitDelete(q),
         DOMAIN request' = Request, DOMAIN overtaken' = Request
  PROVE  /\ Leaves(o) /\ Ids' = Ids /\ Present' \subseteq Present
         /\ \A g \in Ids : folders'[g].parent = folders[g].parent
<1> DEFINE S == q.subtree
           after(g) == IF g \in S THEN [folders[g] EXCEPT !.is_deleted = TRUE] ELSE folders[g]
<1>2. folders' = [g \in 1 .. Len(folders) |-> after(g)] /\ filed' = {e \in filed : e[2] \notin S}
  BY DEF CommitDelete, FiledOutside, Ids
<1>3. "deletion" \notin o => Closed(S)
  BY DEF CommitDelete, StillTrue
<1> HIDE DEF S
<1>4. \A g \in Ids : /\ after(g) \in Folder
                     /\ after(g).parent = folders[g].parent
                     /\ after(g).is_cabinet = folders[g].is_cabinet
                     /\ after(g).is_deleted <=> g \in S \/ folders[g].is_deleted
  <2> TAKE g \in Ids
  <2>1. folders[g] \in Folder
    BY DEF Rows, Ids
  <2>2. CASE g \in S
    BY <2>1, <2>2 DEF Folder
  <2>3. CASE g \notin S
    BY <2>1, <2>3 DEF Folder
  <2> QED
    BY <2>2, <2>3
<1> HIDE DEF after
<1>5. Len(folders) \in Nat /\ folders' \in [1 .. Len(folders) -> Folder]
  BY <1>2, <1>4 DEF Ids, Rows
<1>6. folders' \in Seq(Folder) /\ Len(folders') = Len(folders) /\ Ids' = Ids
  BY <1>5 DEF Ids
<1>7. \A g \in Ids : folders'[g] = after(g)
  BY <1>2 DEF Ids
<1>8. Present' = Present \ S
  BY <1>4, <1>6, <1>7 DEF Present
<1>9. \A g \in Ids : /\ folders'[g].parent = folders[g].parent
                     /\ folders'[g].is_cabinet = folders[g].is_cabinet
  BY <1>4, <1>7
<1>10. Rows' /\ Cabinets'
  BY <1>6, <1>9 DEF Rows, Cabinets
<1>11. NoCircle => NoCircle'
  BY <1>8, <1>9 DEF NoCircle, Present
<1>12. "deletion" \notin o /\ Hanging => Hanging'
  BY <1>3, <1>8, <1>9 DEF Hanging, Closed, Present
<1>13. Filed => Filed'
  BY <1>2, <1>8 DEF Filed
<1> QED
  BY <1>6, <1>8, <1>9, <1>10, <1>11, <1>12, <1>13 DEF Leaves

LEMMA CopyKeeps ==
  ASSUME Rows, Cabinets, NEW q, NEW o, Found(q), StillTrue(q, o), CommitCopy(q),
         DOMAIN request' = Request, DOMAIN overtaken' = Request
  PROVE  Leaves(o) /\ Grown
<1> DEFINE S == q.subtree
           k == Cardinality(S)
           L == Len(folders)
           row(f) == [parent |-> CopiedParent(q, f), is_cabinet |-> FALSE, is_deleted |-> FALSE]
           source(i) == CHOOSE g \in S : CopyOf(S, g) = L + i
           t == [i \in 1 .. k |-> row(source(i))]
<1>1. /\ q.folder \in S /\ S \in SUBSET Ids /\ q.parent \in Ids \cup {0}
      /\ \A f \in S \ {q.folder} : q.parents[f] \in S
      /\ "moves" \notin crossed => Rooted(q.parents, S)
      /\ "deletion" \notin o => q.parent \in Present \cup {0}
      /\ folders' = folders \o t
      /\ filed' = filed \cup UNION {{<<e[1], CopyOf(S, f)>> : e \in {x \in filed : x[2] = f}} : f \in S}
  BY DEF CommitCopy, Found, StillTrue
<1>2. S \in SUBSET Ids
  BY <1>1
<1>3. L \in Nat /\ k \in Nat
  BY <1>2, IdsAreFinite DEF Rows
<1>4. \A f \in S \ {q.folder} : q.parents[f] \in S
  BY <1>1
<1>5. /\ \A f \in S : CopyOf(S, f) \in L + 1 .. L + k
      /\ \A n \in L + 1 .. L + k : \E f \in S : CopyOf(S, f) = n
  BY <1>2, CopiesAreNew, CopiesAreDense
<1>6. \A f, g \in S : CopyOf(S, f) = CopyOf(S, g) => f = g
  <2>1. \A f, g \in S : f < g => CopyOf(S, f) < CopyOf(S, g)
    BY <1>2, CopiesAreNew
  <2>2. \A f \in S : f \in Nat /\ CopyOf(S, f) \in Int
    BY <1>2, <1>3, <1>5 DEF Ids, Rows
  <2> HIDE DEF S
  <2> QED
    BY <2>1, <2>2
<1>7. q.parent \in 0 .. L
  BY <1>1, <1>3 DEF Ids
<1>8. /\ CopiedParent(q, q.folder) = q.parent
      /\ \A f \in S \ {q.folder} : CopiedParent(q, f) = CopyOf(S, q.parents[f])
  BY DEF CopiedParent
<1>9. \A f \in S : row(f) \in Folder /\ row(f).parent \in 0 .. L + k
  <2>1. \A f \in S : CopiedParent(q, f) \in 0 .. L + k
    BY <1>3, <1>4, <1>5, <1>7, <1>8
  <2> QED
    BY <1>3, <2>1 DEF Folder
<1>10. \A f \in S : /\ row(f).parent = CopiedParent(q, f)
                    /\ ~ row(f).is_cabinet /\ ~ row(f).is_deleted
  OBVIOUS
<1>11. \A i \in 1 .. k : source(i) \in S /\ CopyOf(S, source(i)) = L + i
  <2> TAKE i \in 1 .. k
  <2>1. L + i \in L + 1 .. L + k
    BY <1>3
  <2>2. \E g \in S : CopyOf(S, g) = L + i
    BY <1>5, <2>1
  <2> QED
    BY <2>2
<1> HIDE DEF row, source
<1>12. t \in [1 .. k -> Folder]
  BY <1>9, <1>11
<1>13. t \in Seq(Folder) /\ Len(t) = k /\ \A i \in 1 .. k : t[i] = row(source(i))
  BY <1>3, <1>12
<1> HIDE DEF t, k, L, S
<1>14. /\ folders' \in Seq(Folder) /\ Len(folders') = L + k
       /\ \A f \in Ids : folders'[f] = folders[f]
       /\ \A i \in 1 .. k : folders'[L + i] = t[i]
  <2>1. folders \in Seq(Folder) /\ t \in Seq(Folder) /\ Len(t) = k /\ Len(folders) = L
    BY <1>13 DEF Rows, L
  <2>2. /\ folders \o t \in Seq(Folder) /\ Len(folders \o t) = L + k
        /\ \A i \in 1 .. L + k :
             (folders \o t)[i] = IF i <= L THEN folders[i] ELSE t[i - L]
    BY <2>1, ConcatProperties
  <2>3. \A i \in 1 .. k : L + i \in 1 .. L + k /\ ~ (L + i <= L) /\ (L + i) - L = i
    BY <1>3
  <2>4. \A f \in Ids : f \in 1 .. L + k /\ f <= L
    BY <1>3 DEF Ids, L
  <2> QED
    BY <1>1, <2>2, <2>3, <2>4
<1>15. Grown /\ Ids' = 1 .. L + k /\ Ids = 1 .. L
  BY <1>3, <1>14 DEF Grown, Ids, L
<1>16. \A f \in S : folders'[CopyOf(S, f)] = row(f)
  <2> TAKE f \in S
  <2>1. PICK i \in 1 .. k : CopyOf(S, f) = L + i
    <3>1. CopyOf(S, f) - L \in 1 .. k /\ CopyOf(S, f) = L + (CopyOf(S, f) - L)
      BY <1>3, <1>5
    <3> QED
      BY <3>1
  <2>2. source(i) = f
    BY <1>6, <1>11, <2>1
  <2> QED
    BY <1>13, <1>14, <2>1, <2>2
<1>17. \A n \in Ids' \ Ids : \E f \in S : n = CopyOf(S, f) /\ folders'[n] = row(f)
  <2> TAKE n \in Ids' \ Ids
  <2>1. n \in L + 1 .. L + k
    BY <1>3, <1>15
  <2>2. PICK f \in S : CopyOf(S, f) = n
    BY <1>5, <2>1
  <2> QED
    BY <1>16, <2>2
<1>18. Rows'
  <2> SUFFICES ASSUME NEW n \in Ids' PROVE folders'[n].parent \in 0 .. L + k
    BY <1>14 DEF Rows
  <2>1. CASE n \in Ids
    BY <1>3, <1>14, <2>1 DEF Rows, L
  <2>2. CASE n \notin Ids
    BY <1>9, <1>17, <2>2
  <2> QED
    BY <2>1, <2>2
<1>19. ASSUME NoCircle, "moves" \notin crossed \cup o
       PROVE  NoCircle'
  <2> SUFFICES ASSUME NEW N \in SUBSET (Ids' \ Ids), N # {},
                      \A n \in N : folders'[n].parent \in N
               PROVE  FALSE
    BY <1>15, <1>19, GrownHasNoCircle
  <2> DEFINE T == {f \in S : CopyOf(S, f) \in N}
  <2>1. T # {} /\ T \in SUBSET S
    BY <1>17
  <2>2. ASSUME NEW f \in T
        PROVE  q.parents[f] \in T
    <3>1. f \in S /\ CopiedParent(q, f) \in N
      BY <1>10, <1>16, <2>2
    <3>2. f # q.folder
      BY <1>3, <1>7, <1>8, <1>15, <3>1
    <3> QED
      BY <1>4, <1>8, <3>1, <3>2
  <2>3. Rooted(q.parents, S)
    BY <1>1, <1>19
  <2> HIDE DEF T
  <2> QED
    BY <2>1, <2>2, <2>3 DEF Rooted
<1>20. /\ Present \subseteq Present' /\ \A n \in Ids' \ Ids : n \in Present'
       /\ \A n \in Present' : n \in Present \/ n \in Ids' \ Ids
       /\ \A f \in S : CopyOf(S, f) \in Present'
  <2>1. \A n \in Ids' \ Ids : n \in Present'
    BY <1>10, <1>17 DEF Present
  <2>2. \A f \in S : CopyOf(S, f) \in Ids' \ Ids
    BY <1>3, <1>5, <1>15
  <2> QED
    BY <1>15, <2>1, <2>2, GrownPresent DEF Present
<1>21. ASSUME "deletion" \notin o, Hanging
       PROVE  Hanging'
  <2> SUFFICES ASSUME NEW n \in Present', folders'[n].parent # 0
               PROVE  folders'[n].parent \in Present'
    BY DEF Hanging
  <2>1. CASE n \in Present
    BY <1>14, <1>20, <1>21, <2>1 DEF Hanging, Present
  <2>2. CASE n \in Ids' \ Ids
    <3>1. PICK f \in S : folders'[n] = row(f)
      BY <1>17, <2>2
    <3>2. CASE f = q.folder
      BY <1>1, <1>8, <1>10, <1>20, <1>21, <3>1, <3>2
    <3>3. CASE f # q.folder
      BY <1>4, <1>8, <1>10, <1>20, <3>1, <3>3
    <3> QED
      BY <3>2, <3>3
  <2> QED
    BY <1>20, <2>1, <2>2
<1>22. Cabinets'
  BY <1>10, <1>14, <1>17 DEF Cabinets
<1>23. ASSUME Filed
       PROVE  Filed'
  <2> SUFFICES ASSUME NEW e \in filed'
               PROVE  e[2] \in Present'
    BY DEF Filed
  <2>1. CASE e \in filed
    BY <1>20, <1>23, <2>1 DEF Filed
  <2>2. CASE e \notin filed
    <3>1. PICK f \in S : \E x \in filed : e = <<x[1], CopyOf(S, f)>>
      BY <1>1, <2>2 DEF S
    <3> QED
      BY <1>20, <3>1
  <2> QED
    BY <2>1, <2>2
<1> QED
  BY <1>15, <1>18, <1>19, <1>21, <1>22, <1>23 DEF Leaves

LEMMA FileKeeps ==
  ASSUME Rows, Cabinets, NEW q, NEW o, Found(q), StillTrue(q, o), CommitFile(q),
         DOMAIN request' = Request, DOMAIN overtaken' = Request
  PROVE  Leaves(o)
<1>1. /\ folders' = folders /\ filed' = filed \cup {<<q.document, q.folder>>}
      /\ "deletion" \notin o => q.folder \in Present
  BY DEF CommitFile, StillTrue
<1>2. Ids' = Ids /\ Present' = Present
  BY <1>1 DEF Ids, Present
<1>3. "deletion" \notin o /\ Filed => Filed'
  BY <1>1, <1>2 DEF Filed
<1> QED
  BY <1>1, <1>2, <1>3 DEF Leaves, Rows, Cabinets, NoCircle, Hanging

-----------------------------------------------------------------------------
(* What a request found, after the commit of another.                      *)

(* Folders are added: only what is new can be below what is new.           *)
LEMMA GrownPending ==
  ASSUME Rows, Grown, crossed \subseteq crossed',
         NEW q, NEW o, NEW p, Found(q), StillTrue(q, o), o \subseteq p,
         q.op = "delete" => "deletion" \in p
  PROVE  Found(q)' /\ StillTrue(q, p)'
<1>1. /\ Ids \subseteq Ids' /\ Present \subseteq Present'
      /\ \A f \in Ids : folders'[f] = folders[f] /\ (f \in Present' <=> f \in Present)
  BY GrownPresent DEF Grown
<1>2. Found(q)'
  BY <1>1 DEF Found
<1>3. ASSUME q.op = "move", "moves" \notin p
      PROVE  q.parent \notin Descendants(q.folder)'
  <2>1. PICK f \in Ids, g \in Ids : f = q.folder /\ g = q.parent
    BY <1>3 DEF Found
  <2>2. g \notin Descendants(f)
    BY <1>3, <2>1 DEF StillTrue
  <2>3. PICK D, N : D = Descendants(f) /\ N = D \cup (Ids' \ Ids)
    OBVIOUS
  <2>4. Children(f) \subseteq D /\ Closed(D) /\ D \subseteq Ids
    BY <2>3, BelowIsClosed DEF Descendants, Children, Present
  <2>5. ASSUME NEW h \in Present', folders'[h].parent \in N \cup {f}
        PROVE  h \in N
    <3>1. CASE h \notin Ids
      BY <2>3, <3>1 DEF Present
    <3>2. CASE h \in Ids
      <4>1. h \in Present /\ folders[h].parent \in N \cup {f} /\ folders[h].parent \in Ids \cup {0}
        BY <1>1, <2>5, <3>2 DEF Rows, Ids
      <4>2. 0 \notin Ids'
        BY DEF Ids
      <4>3. folders[h].parent \in D \cup {f}
        BY <1>1, <2>4, <2>3, <4>1, <4>2
      <4> QED
        BY <2>4, <2>3, <4>1, <4>3 DEF Children, Closed
    <3> QED
      BY <3>1, <3>2
  <2>6. N \in SUBSET Ids' /\ Children(f)' \subseteq N /\ Closed(N)'
    BY <1>1, <2>4, <2>5, <2>3 DEF Children, Closed
  <2>7. Descendants(f)' \subseteq N
    BY <2>6 DEF Descendants, Below
  <2> QED
    BY <2>1, <2>2, <2>7, <2>3
<1>4. "deletion" \notin p => "deletion" \notin o
  OBVIOUS
<1> QED
  BY <1>1, <1>2, <1>3, <1>4 DEF StillTrue

(* A folder is moved: only moves and deletions looked at where folders are.*)
LEMMA MovePending ==
  ASSUME Ids' = Ids, Present' = Present, crossed \subseteq crossed',
         NEW q, NEW o, NEW p, Found(q), StillTrue(q, o), o \subseteq p,
         q.op = "move" => "moves" \in p, q.op = "delete" => "deletion" \in p
  PROVE  Found(q)' /\ StillTrue(q, p)'
<1>1. Found(q)'
  BY DEF Found
<1> QED
  BY <1>1 DEF StillTrue

(* Folders are deleted: nothing comes to be below another.                 *)
LEMMA DeletePending ==
  ASSUME Ids' = Ids, Present' \subseteq Present, crossed \subseteq crossed',
         \A g \in Ids : folders'[g].parent = folders[g].parent,
         NEW q, NEW o, NEW p, Found(q), StillTrue(q, o), o \subseteq p,
         q.op # "delete" => "deletion" \in p
  PROVE  Found(q)' /\ StillTrue(q, p)'
<1>1. Found(q)'
  BY DEF Found
<1>2. \A g \in Present' : g \in Present /\ folders'[g].parent = folders[g].parent
  BY DEF Present
<1>3. \A S : Closed(S) => Closed(S)'
  BY <1>2 DEF Closed
<1>4. \A f : Descendants(f)' \subseteq Descendants(f)
  <2> TAKE f
  <2>1. \A S : Children(f) \subseteq S => Children(f)' \subseteq S
    BY <1>2 DEF Children
  <2> QED
    BY <1>3, <2>1 DEF Descendants, Below
<1> QED
  BY <1>1, <1>3, <1>4 DEF StillTrue

(* What is read from the folders alone.                                    *)
LEMMA SameTree ==
  ASSUME folders' = folders
  PROVE  /\ Ids' = Ids /\ Present' = Present
         /\ \A f : Descendants(f)' = Descendants(f) /\ Subtree(f)' = Subtree(f)
BY DEF Ids, Present, Descendants, Subtree, Below, Closed, Children

LEMMA SamePending ==
  ASSUME folders' = folders, crossed \subseteq crossed',
         NEW q, NEW o, NEW p, Found(q), StillTrue(q, o), o \subseteq p
  PROVE  Found(q)' /\ StillTrue(q, p)'
<1>1. Found(q)'
  BY SameTree DEF Found
<1>2. \A S : Closed(S) => Closed(S)'
  BY SameTree DEF Closed
<1> QED
  BY <1>1, <1>2, SameTree DEF StillTrue

LEMMA IdlePending ==
  ASSUME NEW o
  PROVE  Found(Idle)' /\ StillTrue(Idle, o)'
BY DEF Found, StillTrue, Idle

-----------------------------------------------------------------------------
LEMMA TreeInitially == Init => TreeInv
<1> SUFFICES ASSUME Init PROVE TreeInv
  OBVIOUS
<1> USE DEF Init, TreeInit
<1>1. Ids = {} /\ Present = {} /\ folders \in Seq(Folder)
  BY DEF Ids, Present
<1> QED
  BY <1>1 DEF TreeInv, Rows, Acyclic, NoCircle, NoOrphans, FiledInFolders, Pending, Found,
     StillTrue, Idle

(* A step that does not write folders.                                     *)
LEMMA ReadKeeps ==
  ASSUME TreeInv, folders' = folders, crossed' = crossed,
         DOMAIN request' = Request, DOMAIN overtaken' = Request,
         \A e \in filed' : e \in filed,
         \A r \in Request :
           \/ Found(request'[r]) /\ StillTrue(request'[r], overtaken'[r])
           \/ request'[r] = Idle
  PROVE  TreeInv'
<1>1. Rows' /\ Acyclic' /\ NoOrphans' /\ FiledInFolders'
  BY SameTree DEF TreeInv, Rows, Acyclic, NoCircle, NoOrphans, FiledInFolders
<1>2. Pending'
  <2> SUFFICES ASSUME NEW r \in Request
               PROVE  Found(request[r])' /\ StillTrue(request[r], overtaken[r])'
    BY DEF Pending
  <2>1. PICK q, o : q = request'[r] /\ o = overtaken'[r]
    OBVIOUS
  <2>2. CASE q = Idle
    BY <2>1, <2>2, IdlePending
  <2>3. CASE q # Idle
    <3>1. Found(q) /\ StillTrue(q, o)
      BY <2>1, <2>3
    <3>2. Found(q)' /\ StillTrue(q, o)'
      BY <3>1, SamePending
    <3> QED
      BY <2>1, <3>2
  <2> QED
    BY <2>2, <2>3
<1> QED
  BY <1>1, <1>2 DEF TreeInv

LEMMA NothingRead ==
  ASSUME TreeInv, UNCHANGED <<folders, request, overtaken, crossed>>,
         \A e \in filed' : e \in filed
  PROVE  TreeInv'
BY ReadKeeps DEF TreeInv, Rows, Pending

(* What a request reads when it begins.                                    *)
LEMMA BeginKeeps ==
  ASSUME TreeInv, NEW r \in Request, NEW q, Begin(r, q), Found(q), StillTrue(q, {})
  PROVE  TreeInv'
<1>1. \A o : StillTrue(q, o)
  BY DEF StillTrue
<1> QED
  BY <1>1, ReadKeeps DEF Begin, TreeInv, Rows, Pending

LEMMA BeginsKeep ==
  ASSUME TreeInv, NEW r \in Request, FolderRequest(r)
  PROVE  TreeInv'
<1>1. Present \subseteq Ids
  BY DEF Present
<1>2. CASE BeginCreateCabinet(r)
  <2>1. PICK q : q = [op |-> "create", parent |-> 0, is_cabinet |-> TRUE] /\ Begin(r, q)
    BY <1>2 DEF BeginCreateCabinet
  <2> QED
    BY <2>1, BeginKeeps DEF Found, StillTrue
<1>3. ASSUME NEW f \in Ids, BeginCreateFolder(r, f)
      PROVE  TreeInv'
  <2>1. PICK q : q = [op |-> "create", parent |-> f, is_cabinet |-> FALSE] /\ Begin(r, q)
    BY <1>3 DEF BeginCreateFolder
  <2>2. f \in Present
    BY <1>3 DEF BeginCreateFolder
  <2> QED
    BY <2>1, <2>2, BeginKeeps DEF Found, StillTrue
<1>4. ASSUME NEW f \in Ids, BeginDelete(r, f)
      PROVE  TreeInv'
  <2>1. PICK q : q = [op |-> "delete", subtree |-> Subtree(f)] /\ Begin(r, q)
    BY <1>4 DEF BeginDelete
  <2>2. Subtree(f) \in SUBSET Ids /\ Closed(Subtree(f))
    BY BelowIsClosed DEF Subtree
  <2> QED
    BY <2>1, <2>2, BeginKeeps DEF Found, StillTrue
<1>5. ASSUME NEW f \in Ids, BeginMove(r, f)
      PROVE  TreeInv'
  <2>1. PICK p \in Present :
          /\ p # f /\ p \notin Descendants(f)
          /\ Begin(r, [op |-> "move", folder |-> f, parent |-> p])
    BY <1>5 DEF BeginMove
  <2>2. PICK q : q = [op |-> "move", folder |-> f, parent |-> p] /\ Begin(r, q)
    BY <2>1
  <2> QED
    BY <1>1, <2>1, <2>2, BeginKeeps DEF Found, StillTrue
<1>6. ASSUME NEW f \in Ids, BeginCopy(r, f)
      PROVE  TreeInv'
  <2> DEFINE S == Subtree(f)
             parents == [g \in S |-> folders[g].parent]
  <2>1. PICK p \in Present \cup {folders[f].parent} :
          /\ f \in Present /\ (p # 0 => p \in Present)
          /\ Begin(r, [op |-> "copy", folder |-> f, parent |-> p, subtree |-> S,
                       parents |-> parents])
    BY <1>6 DEF BeginCopy
  <2>2. /\ f \in S /\ S \in SUBSET Present
        /\ \A g \in S \ {f} : folders[g].parent \in S
    <3>1. {f} \in SUBSET Present
      BY <2>1
    <3> QED
      BY <1>1, <3>1, BelowIsClosed, BelowIsPresent, BelowHasReason DEF Subtree
  <2> HIDE DEF S
  <2>3. \A g \in S : parents[g] = folders[g].parent
    OBVIOUS
  <2> HIDE DEF parents
  <2>4. "moves" \notin crossed => Rooted(parents, S)
    BY <2>2, <2>3 DEF Rooted, TreeInv, Acyclic, NoCircle
  <2>5. PICK q : /\ q = [op |-> "copy", folder |-> f, parent |-> p, subtree |-> S,
                          parents |-> parents]
                 /\ Begin(r, q)
    BY <2>1
  <2>6. /\ q.op = "copy" /\ q.folder = f /\ q.parent = p /\ q.subtree = S
        /\ q.parents = parents
    BY <2>5
  <2> QED
    BY <1>1, <2>1, <2>2, <2>3, <2>4, <2>5, <2>6, BeginKeeps DEF Found, StillTrue
<1>7. ASSUME NEW f \in Ids, NEW d \in Document, BeginFile(r, f, d)
      PROVE  TreeInv'
  <2>1. PICK q : q = [op |-> "file", folder |-> f, document |-> d] /\ Begin(r, q)
    BY <1>7 DEF BeginFile
  <2>2. f \in Present
    BY <1>7 DEF BeginFile
  <2> QED
    BY <2>1, <2>2, BeginKeeps DEF Found, StillTrue
<1> QED
  BY <1>2, <1>3, <1>4, <1>5, <1>6, <1>7 DEF FolderRequest

(* A request commits: the others have been crossed by it.                  *)
LEMMA CommitKeeps ==
  ASSUME TreeInv, NEW r \in Request, Commit(r)
  PROVE  TreeInv'
<1>1. PICK w, o : w = request[r] /\ o = overtaken[r]
  OBVIOUS
<1>2. /\ Rows /\ Cabinets /\ Found(w) /\ StillTrue(w, o)
      /\ CommitCreate(w) \/ CommitMove(w) \/ CommitCopy(w) \/ CommitDelete(w) \/ CommitFile(w)
      /\ request' = [request EXCEPT ![r] = Idle] /\ crossed' = crossed \cup o
      /\ overtaken' = [s \in Request |->
           IF s = r \/ request[s] = Idle THEN {}
           ELSE overtaken[s] \cup Crossing(request[s].op, w.op)]
  BY <1>1 DEF TreeInv, FiledInFolders, Cabinets, Pending, Commit
<1>3. DOMAIN request' = Request /\ DOMAIN overtaken' = Request
  BY <1>2 DEF Rows
<1>4. Leaves(o)
  BY <1>2, <1>3, CreateKeeps, MoveKeeps, CopyKeeps, DeleteKeeps, FileKeeps
<1>5. Rows' /\ Acyclic' /\ NoOrphans' /\ FiledInFolders'
  BY <1>2, <1>4 DEF Leaves, TreeInv, Acyclic, NoOrphans, FiledInFolders, Hanging, Filed, Cabinets
<1>6. Pending'
  <2> SUFFICES ASSUME NEW s \in Request
               PROVE  Found(request[s])' /\ StillTrue(request[s], overtaken[s])'
    BY DEF Pending
  <2>1. PICK q, c, p : q = request'[s] /\ c = overtaken[s] /\ p = overtaken'[s]
    OBVIOUS
  <2>2. CASE q = Idle
    BY <2>1, <2>2, IdlePending
  <2>3. CASE q # Idle
    <3>1. /\ request[s] = q /\ Found(q) /\ StillTrue(q, c)
          /\ p = c \cup Crossing(q.op, w.op)
      BY <1>2, <1>3, <2>1, <2>3 DEF TreeInv, Pending, Rows
    <3>2. /\ c \subseteq p /\ crossed \subseteq crossed'
          /\ q.op = "move" /\ w.op = "move" => "moves" \in p
          /\ (q.op = "delete" /\ w.op # "delete") => "deletion" \in p
          /\ (q.op # "delete" /\ w.op = "delete") => "deletion" \in p
      BY <1>2, <3>1, CrossingIs
    <3>3. CASE CommitCreate(w) \/ CommitCopy(w)
      <4>1. Grown
        BY <1>2, <1>3, <3>3, CreateKeeps, CopyKeeps
      <4>2. w.op # "delete"
        BY <3>3 DEF CommitCreate, CommitCopy
      <4>3. Found(q)' /\ StillTrue(q, p)'
        BY <1>2, <3>1, <3>2, <4>1, <4>2, GrownPending
      <4> QED
        BY <2>1, <4>3
    <3>4. CASE CommitMove(w)
      <4>1. Ids' = Ids /\ Present' = Present
        BY <1>2, <1>3, <3>4, MoveKeeps
      <4>2. w.op = "move"
        BY <3>4 DEF CommitMove
      <4>3. Found(q)' /\ StillTrue(q, p)'
        BY <3>1, <3>2, <4>1, <4>2, MovePending
      <4> QED
        BY <2>1, <4>3
    <3>5. CASE CommitDelete(w)
      <4>1. /\ Ids' = Ids /\ Present' \subseteq Present
            /\ \A g \in Ids : folders'[g].parent = folders[g].parent
        BY <1>2, <1>3, <3>5, DeleteKeeps
      <4>2. w.op = "delete"
        BY <3>5 DEF CommitDelete
      <4>3. Found(q)' /\ StillTrue(q, p)'
        BY <3>1, <3>2, <4>1, <4>2, DeletePending
      <4> QED
        BY <2>1, <4>3
    <3>6. CASE CommitFile(w)
      <4>1. folders' = folders
        BY <3>6 DEF CommitFile
      <4>2. Found(q)' /\ StillTrue(q, p)'
        BY <3>1, <3>2, <4>1, SamePending
      <4> QED
        BY <2>1, <4>2
    <3> QED
      BY <1>2, <3>3, <3>4, <3>5, <3>6
  <2> QED
    BY <2>2, <2>3
<1> QED
  BY <1>5, <1>6 DEF TreeInv

LEMMA TreeStep ==
  ASSUME TreeInv, [Next]_vars
  PROVE  TreeInv'
<1>1. CASE UNCHANGED treeVars
  BY <1>1, NothingRead DEF treeVars
<1>2. ASSUME NEW r \in Request, FolderRequest(r) \/ Commit(r) \/ Fail(r)
      PROVE  TreeInv'
  <2>1. CASE Fail(r)
    <3>1. \A s \in Request :
            \/ request'[s] = Idle
            \/ request'[s] = request[s] /\ overtaken'[s] = overtaken[s]
      BY <2>1 DEF Fail, TreeInv, Rows
    <3> QED
      BY <2>1, <3>1, ReadKeeps DEF Fail, TreeInv, Rows, Pending
  <2> QED
    BY <1>2, <2>1, BeginsKeep, CommitKeeps
<1>3. ASSUME NEW d \in Document, DeleteDocument(d) \/ \E f \in Ids : Unfile(f, d)
      PROVE  TreeInv'
  BY <1>3, NothingRead DEF DeleteDocument, Unfile
<1>4. CASE TreeNext
  BY <1>2, <1>3, <1>4 DEF TreeNext
<1>5. CASE AccessNext
  BY <1>1, <1>5 DEF AccessNext, AclRequest, LifecycleRequest, FolderAclRequest,
     CreateOwnerAcl, AddAclEntry, RemoveAclEntry, AddFolderAcl, RemoveFolderAcl,
     TransitionLifecycleState, OpenItem, CloseItem
<1> QED
  BY <1>1, <1>4, <1>5 DEF Next, vars

(* A folder comes to be inside itself only by two moves of which one       *)
(* commits between the other's guard and its commit: whatever else         *)
(* overlaps, any number of creations, copies, deletions and filings with   *)
(* each other and with a move, the recursive queries end                   *)
(* (folder_service.py 315-329, 343-430).                                   *)
THEOREM OnlyMovesMakeCircles == Spec => []Acyclic
<1>1. TreeInv => Acyclic
  BY DEF TreeInv
<1> QED
  BY TreeInitially, TreeStep, <1>1, PTL DEF Spec

(* Every folder hangs from one that exists until a deletion overlaps a     *)
(* creation, a copy, a move or a filing: a deletion takes all that was     *)
(* below when it looked, moves that cross each other included              *)
(* (folder_service.py 441-469).                                            *)
THEOREM OnlyDeletionsLeaveOrphans == Spec => []NoOrphans
<1>1. TreeInv => NoOrphans
  BY DEF TreeInv
<1> QED
  BY TreeInitially, TreeStep, <1>1, PTL DEF Spec

(* And until then documents are filed in folders that exist, because a     *)
(* deletion takes the filings of the whole subtree with it; no cabinet is  *)
(* inside a folder, in whatever order requests commit (folder_service.py   *)
(* 329, 399, 472).                                                         *)
THEOREM FilingsFollowFolders == Spec => []FiledInFolders
<1>1. TreeInv => FiledInFolders
  BY DEF TreeInv
<1> QED
  BY TreeInitially, TreeStep, <1>1, PTL DEF Spec

-----------------------------------------------------------------------------
(* Access.                                                                 *)
LEMMA SameInherited ==
  ASSUME UNCHANGED <<folders, filed, folder_acl>>
  PROVE  \A d : InheritedEntries(d)' = InheritedEntries(d)
<1>1. \A F : Ancestors(F)' = Ancestors(F)
  BY DEF Ancestors, Above, Present, Ids
<1> QED
  BY <1>1 DEF InheritedEntries, FoldersOf

LEMMA LifecycleStep ==
  ASSUME [Next]_vars, NEW d \in Document, lifecycle'[d] # lifecycle[d]
  PROVE  /\ UNCHANGED <<folders, filed, folder_acl, performers>>
         /\ acl' \subseteq acl
         /\ \A e \in EntriesOf(d) : e[3] = "ADMIN" => e \in acl'
<1>1. PICK c \in Document, to \in LifecycleState : TransitionLifecycleState(c, to)
  BY DEF Next, AccessNext, AclRequest, LifecycleRequest, FolderAclRequest, accessVars, vars,
     CreateOwnerAcl, AddAclEntry, RemoveAclEntry, AddFolderAcl, RemoveFolderAcl,
     OpenItem, CloseItem
<1> QED
  BY <1>1 DEF TransitionLifecycleState, treeVars, RemovedByRules, EntriesOf

(* While a document has an owner, its transitions take access away and     *)
(* never give it, whatever the rules are (lifecycle_service.py 121-141).   *)
THEOREM TransitionsTakeAccessAway == Spec => TransitionsNarrow
<1>1. ASSUME [Next]_vars, NEW d \in Document, lifecycle'[d] # lifecycle[d],
             \E e \in EntriesOf(d) : e[3] = "ADMIN"
      PROVE  MayRead(d)' \subseteq MayRead(d)
  <2>1. /\ UNCHANGED <<folders, filed, folder_acl, performers>> /\ acl' \subseteq acl
        /\ \A e \in EntriesOf(d) : e[3] = "ADMIN" => e \in acl'
    BY <1>1, LifecycleStep
  <2>2. InheritedEntries(d)' = InheritedEntries(d)
    BY <2>1, SameInherited
  <2>3. EntriesOf(d)' \subseteq EntriesOf(d) /\ EntriesOf(d)' # {}
    BY <1>1, <2>1 DEF EntriesOf
  <2>4. \A u \in User : Grants(EntriesOf(d)', u, "READ") => Grants(EntriesOf(d), u, "READ")
    BY <2>3 DEF Grants
  <2> QED
    BY <2>1, <2>2, <2>3, <2>4 DEF MayRead, Allowed, CheckPermission, Grants
<1>2. ASSUME [Next]_vars
      PROVE  [\A d \in Document :
                /\ lifecycle'[d] # lifecycle[d]
                /\ \E e \in EntriesOf(d) : e[3] = "ADMIN"
                => MayRead(d)' \subseteq MayRead(d)]_vars
  BY <1>1, <1>2
<1> QED
  BY <1>2, PTL DEF Spec, TransitionsNarrow

-----------------------------------------------------------------------------
(* The walk up.  The equation of the recursive query.                      *)
Walk(up, F, through) ==
  up = [n \in 0 .. Len(folders) |->
          IF n = 0 THEN F \cap Present
          ELSE up[n - 1] \cup ({folders[f].parent : f \in up[n - 1]} \cap through)]

Upwards(F, through) == CHOOSE up : Walk(up, F, through)

(* The query has a result, and it stays among the folders that exist.      *)
LEMMA WalkIsDefined ==
  ASSUME Rows, NEW F, NEW through \in SUBSET Ids
  PROVE  Walk(Upwards(F, through), F, through)
<1> DEFINE N == Len(folders)
           round == [i \in 1 .. N |-> [A \in SUBSET (0 .. N) |->
                       A \cup ({folders[f].parent : f \in A} \cap through)]]
<1>1. N \in Nat /\ F \cap Present \in SUBSET (0 .. N)
  BY DEF Rows, Present, Ids
<1>2. PICK r : IsRun(r, round, F \cap Present, N)
  BY <1>1, IterateDefined
<1> DEFINE P == {k \in Nat : k \in 0 .. N => r[k] \in SUBSET (1 .. N)}
<1>3. 0 \in P
  <2>1. r[0] = F \cap Present
    BY <1>1, <1>2 DEF IsRun
  <2> QED
    BY <2>1 DEF Present, Ids
<1>4. ASSUME NEW k \in Nat, k \in P PROVE k + 1 \in P
  <2> SUFFICES ASSUME k + 1 \in 0 .. N PROVE r[k + 1] \in SUBSET (1 .. N)
    OBVIOUS
  <2>1. k \in 0 .. N /\ k + 1 \in 1 .. N /\ (k + 1) - 1 = k /\ k + 1 # 0
    BY <1>1
  <2>2. r[k + 1] = round[k + 1][r[k]]
    BY <1>2, <2>1 DEF IsRun
  <2>3. r[k] \in SUBSET (1 .. N) /\ r[k] \in SUBSET (0 .. N)
    BY <1>4, <2>1
  <2>4. r[k + 1] = r[k] \cup ({folders[f].parent : f \in r[k]} \cap through)
    BY <2>1, <2>2, <2>3
  <2>5. \A f \in 1 .. N : folders[f].parent \in 0 .. N
    BY DEF Rows, Ids
  <2> QED
    BY <2>3, <2>4, <2>5 DEF Ids
<1> HIDE DEF P
<1>5. \A k \in 0 .. N : r[k] \in SUBSET (0 .. N)
  <2>1. Nat \subseteq P
    BY <1>3, <1>4, SetInduction
  <2> QED
    BY <1>1, <2>1 DEF P
<1>6. Walk(r, F, through)
  <2> DEFINE body(i) == IF i = 0 THEN F \cap Present
                        ELSE r[i - 1] \cup ({folders[f].parent : f \in r[i - 1]} \cap through)
  <2>1. ASSUME NEW i \in 0 .. N
        PROVE  r[i] = body(i)
    <3>1. CASE i = 0
      BY <1>2, <3>1 DEF IsRun
    <3>2. CASE i # 0
      <4>1. i \in 1 .. N /\ i - 1 \in 0 .. N
        BY <1>1, <3>2
      <4>2. r[i] = round[i][r[i - 1]]
        BY <1>2, <3>2 DEF IsRun
      <4> QED
        BY <1>5, <3>2, <4>1, <4>2
    <3> QED
      BY <3>1, <3>2
  <2>2. r = [i \in 0 .. N |-> r[i]]
    BY <1>2 DEF IsRun
  <2> HIDE DEF body
  <2>3. r = [i \in 0 .. N |-> body(i)]
    BY <2>1, <2>2
  <2> QED
    BY <2>3 DEF body, Walk
<1> QED
  BY <1>6 DEF Upwards

LEMMA WalkResult ==
  ASSUME Rows, NEW F, NEW through \in SUBSET Ids
  PROVE  /\ Above(F, through) = Upwards(F, through)[Len(folders)]
         /\ Upwards(F, through)[0] = F \cap Present
         /\ \A n \in 1 .. Len(folders) :
              Upwards(F, through)[n] = Upwards(F, through)[n - 1]
                              \cup ({folders[f].parent : f \in Upwards(F, through)[n - 1]} \cap through)
<1>1. Walk(Upwards(F, through), F, through)
  BY WalkIsDefined
<1>2. Len(folders) \in Nat
  BY DEF Rows
<1>3. Above(F, through) = Upwards(F, through)[Len(folders)]
  BY DEF Above, Upwards, Walk
<1> HIDE DEF Upwards
<1> QED
  BY <1>1, <1>2, <1>3 DEF Walk

(* What is found above a set of folders is above one of them, and nothing  *)
(* above a folder is deleted.                                              *)
LEMMA AboveOneOfThem ==
  ASSUME Rows, Hanging, NEW F
  PROVE  /\ Ancestors(F) \subseteq Present
         /\ \A g \in Ancestors(F) : \E f \in F \cap Present : g \in Ancestors({f})
         /\ \A f \in F \cap Present : f \in Ancestors({f}) /\ Ancestors({f}) \subseteq Ancestors(F)
<1> DEFINE N == Len(folders)
           one(f) == Upwards({f}, Ids)
           Good(n) ==
             /\ Upwards(F, Ids)[n] \subseteq Present
             /\ \A g \in Upwards(F, Ids)[n] : \E f \in F \cap Present : g \in one(f)[n]
             /\ \A f \in F \cap Present :
                  f \in one(f)[n] /\ one(f)[n] \subseteq Upwards(F, Ids)[n]
           P == {k \in Nat : k \in 0 .. N => Good(k)}
<1>1. N \in Nat
  BY DEF Rows
<1>2. Good(0)
  <2>1. Upwards(F, Ids)[0] = F \cap Present /\ \A f : one(f)[0] = {f} \cap Present
    BY WalkResult
  <2> QED
    BY <2>1
<1> HIDE DEF one
<1>3. ASSUME NEW k \in 0 .. N, k + 1 \in 0 .. N, Good(k) PROVE Good(k + 1)
  <2>1. k + 1 \in 1 .. N /\ (k + 1) - 1 = k
    BY <1>1, <1>3
  <2>2. ASSUME NEW G
        PROVE  \A g : g \in Upwards(G, Ids)[k + 1] <=>
                        \/ g \in Upwards(G, Ids)[k]
                        \/ g \in Ids /\ \E h \in Upwards(G, Ids)[k] : g = folders[h].parent
    <3>1. Upwards(G, Ids)[k + 1] = Upwards(G, Ids)[k] \cup ({folders[f].parent : f \in Upwards(G, Ids)[k]} \cap Ids)
      BY <2>1, WalkResult
    <3> QED
      BY <3>1
  <2>3. \A f : \A g : g \in one(f)[k + 1] <=>
                   \/ g \in one(f)[k]
                   \/ g \in Ids /\ \E h \in one(f)[k] : g = folders[h].parent
    BY <2>2 DEF one
  <2>4. \A g : g \in Upwards(F, Ids)[k + 1] <=>
                \/ g \in Upwards(F, Ids)[k]
                \/ g \in Ids /\ \E h \in Upwards(F, Ids)[k] : g = folders[h].parent
    BY <2>2
  <2>5. Upwards(F, Ids)[k + 1] \subseteq Present
    BY <1>3, <2>4 DEF Hanging, Ids
  <2>6. ASSUME NEW g \in Upwards(F, Ids)[k + 1]
        PROVE  \E f \in F \cap Present : g \in one(f)[k + 1]
    <3>1. PICK h \in Upwards(F, Ids)[k] : h = g \/ (g \in Ids /\ g = folders[h].parent)
      BY <2>4, <2>6
    <3>2. PICK f \in F \cap Present : h \in one(f)[k]
      BY <1>3
    <3> QED
      BY <2>3, <3>1, <3>2
  <2>7. ASSUME NEW f \in F \cap Present
        PROVE  f \in one(f)[k + 1] /\ one(f)[k + 1] \subseteq Upwards(F, Ids)[k + 1]
    <3>1. f \in one(f)[k] /\ one(f)[k] \subseteq Upwards(F, Ids)[k]
      BY <1>3
    <3> QED
      BY <2>3, <2>4, <3>1
  <2> QED
    BY <2>5, <2>6, <2>7
<1> HIDE DEF Good
<1>4. 0 \in P /\ \A k \in Nat : k \in P => k + 1 \in P
  BY <1>1, <1>2, <1>3
<1> HIDE DEF P
<1>5. Nat \subseteq P
  BY <1>4, SetInduction
<1>6. Good(N)
  BY <1>1, <1>5 DEF P
<1> DEFINE above(f) == Ancestors({f})
<1>7. Ancestors(F) = Upwards(F, Ids)[N] /\ \A f : above(f) = one(f)[N]
  BY WalkResult DEF one, Ancestors
<1>8. /\ Upwards(F, Ids)[N] \subseteq Present
      /\ \A g \in Upwards(F, Ids)[N] : \E f \in F \cap Present : g \in one(f)[N]
      /\ \A f \in F \cap Present :
           f \in one(f)[N] /\ one(f)[N] \subseteq Upwards(F, Ids)[N]
  BY <1>6 DEF Good
<1> HIDE DEF above
<1>9. /\ Ancestors(F) \subseteq Present
      /\ \A g \in Ancestors(F) : \E f \in F \cap Present : g \in above(f)
      /\ \A f \in F \cap Present : f \in above(f) /\ above(f) \subseteq Ancestors(F)
  BY <1>7, <1>8
<1> QED
  BY <1>9 DEF above

(* The walk of the tree that is shown finds the same.                      *)
LEMMA ChainIsAbove ==
  ASSUME Rows, Hanging, NEW F
  PROVE  Above(F, Present) = Ancestors(F)
<1> DEFINE N == Len(folders)
           shown == Upwards(F, Present)
           asked == Upwards(F, Ids)
           Good(n) == shown[n] = asked[n] /\ asked[n] \subseteq Present
           P == {k \in Nat : k \in 0 .. N => Good(k)}
<1>1. N \in Nat /\ Present \in SUBSET Ids
  BY DEF Rows, Present
<1>2. /\ Ancestors(F) = asked[N] /\ asked[0] = F \cap Present
      /\ \A n \in 1 .. N : asked[n] = asked[n - 1] \cup ({folders[g].parent : g \in asked[n - 1]} \cap Ids)
  BY WalkResult DEF Ancestors
<1>3. /\ Above(F, Present) = shown[N] /\ shown[0] = F \cap Present
      /\ \A n \in 1 .. N : shown[n] = shown[n - 1] \cup ({folders[g].parent : g \in shown[n - 1]} \cap Present)
  BY <1>1, WalkResult
<1> HIDE DEF shown, asked
<1>4. ASSUME NEW k \in 0 .. N, k + 1 \in 0 .. N, Good(k)
      PROVE  Good(k + 1)
  <2>1. k + 1 \in 1 .. N /\ (k + 1) - 1 = k
    BY <1>1, <1>4
  <2>2. /\ asked[k + 1] = asked[k] \cup ({folders[g].parent : g \in asked[k]} \cap Ids)
        /\ shown[k + 1] = asked[k] \cup ({folders[g].parent : g \in asked[k]} \cap Present)
    BY <1>2, <1>3, <1>4, <2>1
  <2>3. {folders[g].parent : g \in asked[k]} \cap Ids \subseteq Present
    <3>1. 0 \notin Ids
      BY DEF Ids
    <3> QED
      BY <1>4, <3>1 DEF Hanging
  <2> QED
    BY <1>1, <1>4, <2>2, <2>3
<1>5. Good(0)
  BY <1>2, <1>3
<1> HIDE DEF Good
<1>6. 0 \in P /\ \A k \in Nat : k \in P => k + 1 \in P
  BY <1>1, <1>4, <1>5
<1> HIDE DEF P
<1>7. Nat \subseteq P
  BY <1>6, SetInduction
<1>8. Good(N)
  BY <1>1, <1>7 DEF P
<1> QED
  BY <1>2, <1>3, <1>8 DEF Good

(* Levels are levels, so that READ is what any of them includes.           *)
Levels == \A e \in acl \cup folder_acl : e[3] \in PermissionLevel

LEMMA LevelsAreKept ==
  ASSUME Levels, [Next]_vars
  PROVE  Levels'
<1>1. \A l \in Level \cup FolderLevel \cup {"ADMIN"} : l \in PermissionLevel
  BY AccessAssumption DEF PermissionLevel
<1>2. CASE UNCHANGED accessVars
  BY <1>2 DEF accessVars, Levels
<1>3. ASSUME NEW d \in Document, AclRequest(d) \/ LifecycleRequest(d)
      PROVE  Levels'
  <2>1. /\ folder_acl' = folder_acl
        /\ \/ acl' \subseteq acl
           \/ \E p, l : l \in PermissionLevel /\ acl' = acl \cup {<<d, p, l>>}
    BY <1>1, <1>3 DEF AclRequest, LifecycleRequest, CreateOwnerAcl, AddAclEntry,
       RemoveAclEntry, TransitionLifecycleState
  <2> QED
    BY <2>1 DEF Levels
<1>4. ASSUME NEW f \in Ids, FolderAclRequest(f)
      PROVE  Levels'
  <2>1. /\ acl' = acl
        /\ \/ folder_acl' \subseteq folder_acl
           \/ \E p, l : l \in PermissionLevel /\ folder_acl' = folder_acl \cup {<<f, p, l>>}
    BY <1>1, <1>4 DEF FolderAclRequest, AddFolderAcl, RemoveFolderAcl
  <2> QED
    BY <2>1 DEF Levels
<1>5. CASE \E d \in Document, u \in Performer : OpenItem(d, u)
  BY <1>5 DEF OpenItem, Levels
<1>6. CASE \E e \in performers : CloseItem(e)
  BY <1>6 DEF CloseItem, Levels
<1> QED
  BY <1>2, <1>3, <1>4, <1>5, <1>6 DEF Next, AccessNext, vars

LEMMA ReadIsLeast ==
  ASSUME Levels, NEW u, NEW entries \in SUBSET (acl \cup folder_acl)
  PROVE  Grants(entries, u, "READ") <=> \E e \in entries : e[2] \in As(u)
<1>1. \A l \in PermissionLevel : Rank[l] >= Rank["READ"]
  BY DEF PermissionLevel, Rank
<1> QED
  BY <1>1 DEF Grants, HasSufficientPermission, Levels

LEMMA LevelsExplain ==
  ASSUME Levels
  PROVE  SourceExplains
<1> SUFFICES ASSUME NEW d \in Document, NEW u \in User
             PROVE  CheckPermission(d, u, "READ") <=>
                      \/ AccessSource(d, u) # "open" \/ <<d, u>> \in performers
                      \/ EntriesOf(d) = {} /\ InheritedEntries(d) = {}
  BY DEF SourceExplains
<1>1. /\ EntriesOf(d) \in SUBSET (acl \cup folder_acl)
      /\ InheritedEntries(d) \in SUBSET (acl \cup folder_acl)
  BY DEF EntriesOf, InheritedEntries
<1>2. AccessSource(d, u) # "open" <=>
        Grants(EntriesOf(d), u, "READ") \/ Grants(InheritedEntries(d), u, "READ")
  BY <1>1, ReadIsLeast DEF AccessSource
<1> QED
  BY <1>2 DEF CheckPermission

(* The source that is named for a user's access is the reason for it, for  *)
(* any tree, any lists and any requests, however they are interleaved      *)
(* (acl_service.py 175-311, 434-529).                                      *)
THEOREM SourcesAreReasons == Spec => []SourceExplains
<1>1. Init => Levels
  BY DEF Init, Levels
<1> QED
  BY <1>1, LevelsAreKept, LevelsExplain, PTL DEF Spec

LEMMA ReachableInTree ==
  ASSUME TreeInv, Levels
  PROVE  ReadableIsReachable
<1> SUFFICES ASSUME NEW d \in {e[1] : e \in filed}, NEW u \in User,
                    CheckPermission(d, u, "READ"), crossed = {},
                    <<d, u>> \notin performers, AccessSource(d, u) # "direct"
             PROVE  FoldersOf(d) \cap VisibleFolders(u) # {}
  BY DEF ReadableIsReachable
<1> DEFINE F == FoldersOf(d)
           listed     == {e[1] : e \in folder_acl}
           accessible == {e[1] : e \in {x \in folder_acl : x[2] \in As(u)}}
<1>1. F \subseteq Present /\ F # {} /\ Rows /\ Hanging
  BY DEF TreeInv, FiledInFolders, FoldersOf, NoOrphans, Hanging
<1>2. /\ Ancestors(F) \subseteq Present
      /\ \A g \in Ancestors(F) : \E f \in F : g \in Ancestors({f})
      /\ \A f \in F : f \in Ancestors({f}) /\ Ancestors({f}) \subseteq Ancestors(F)
  BY <1>1, AboveOneOfThem
<1>3. \A f \in F : f \in Chain(f) /\ Chain(f) = Ancestors({f})
  BY <1>1, <1>2, ChainIsAbove DEF Chain
<1>4. /\ \A f \in Present : Chain(f) \cap listed = {} => f \in VisibleFolders(u)
      /\ \A f \in Present : Chain(f) \cap accessible # {} => Chain(f) \subseteq VisibleFolders(u)
  BY DEF VisibleFolders
<1>5. CASE EntriesOf(d) = {} /\ InheritedEntries(d) = {}
  <2>1. Ancestors(F) \cap listed = {}
    BY <1>5 DEF InheritedEntries
  <2>2. PICK f \in FoldersOf(d) : f \in Present
    BY <1>1
  <2>3. Chain(f) \cap listed = {}
    BY <1>2, <1>3, <2>1, <2>2
  <2> QED
    BY <1>3, <1>4, <2>2, <2>3
<1>6. CASE Grants(InheritedEntries(d), u, "READ")
  <2>1. PICK e \in folder_acl : e[1] \in Ancestors(F) /\ e[2] \in As(u)
    BY <1>6 DEF Grants, InheritedEntries
  <2>2. PICK f \in FoldersOf(d) : e[1] \in Ancestors({f})
    BY <1>2, <2>1
  <2>5. e[1] \in Chain(f) /\ f \in Chain(f) /\ f \in Present
    BY <1>1, <1>2, <1>3, <2>2
  <2>3. Chain(f) \cap accessible # {}
    BY <2>1, <2>5
  <2>4. Chain(f) \subseteq VisibleFolders(u)
    BY <1>4, <2>3, <2>5
  <2> QED
    BY <2>2, <2>4, <2>5
<1>7. ~ Grants(EntriesOf(d), u, "READ")
  BY DEF Grants, AccessSource
<1> QED
  BY <1>5, <1>6, <1>7 DEF CheckPermission

(* Whoever may read a filed document without being named on it or working  *)
(* on it sees a folder that holds it, for any number of folders and of     *)
(* requests, as long as none that overlapped spoiled the tree: the walk    *)
(* that permits and the one that shows find the same folders, although     *)
(* only one of them stops at a deleted one (acl_service.py 229-265,        *)
(* folder_service.py 248-269).                                             *)
THEOREM WhatIsReadableIsShown == Spec => []ReadableIsReachable
<1>1. Init => Levels
  BY DEF Init, Levels
<1> QED
  BY TreeInitially, TreeStep, <1>1, LevelsAreKept, ReachableInTree, PTL DEF Spec
================================================================================
