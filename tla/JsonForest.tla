----------------------------- MODULE JsonForest -----------------------------
(***************************************************************************)
(* What the functions of cJSON.c promise: documents are ordered trees, the *)
(* caller holds the roots, and a call makes one edit or none.  Whatever    *)
(* happens inside, a node is under one parent at one place, and what an    *)
(* edit does not name stays as it was.                                     *)
(***************************************************************************)
EXTENDS Integers, Sequences, FiniteSets, SequencesExt

CONSTANT Node

VARIABLES kids,    \* node -> the sequence of its children
          roots    \* the nodes the caller holds

forestVars == <<kids, roots>>

\* The nodes in use when k are the children and r are held: under a parent, or held.
InUse(k, r) == r \cup UNION {ToSet(k[p]) : p \in Node}
Nodes == InUse(kids, roots)

\* The nodes at most as many steps below i as there are nodes, when the children
\* are k: all of what is below i, and nothing else.
Tree(i, k) ==
  LET Level[n \in Nat] == IF n = 0 THEN {i}
                          ELSE {i} \cup UNION {ToSet(k[p]) : p \in Level[n - 1]}
  IN Level[Cardinality(Node)]
Below(T, i, k) == T \subseteq Node /\ T = {i} \cup UNION {ToSet(k[p]) : p \in T}

\* One place for each node, and no node below itself, among the nodes of T.
Places(T, k) == \A p, q \in T : \A m \in DOMAIN k[p], n \in DOMAIN k[q] :
                  k[p][m] = k[q][n] => p = q /\ m = n
Descends(T, k) == \A S \in (SUBSET T) \ {{}} : \E p \in S : ToSet(k[p]) \cap S = {}

\* The tree under `top', p aside, is thrown away, and p gets the children `list'.
Prune(top, p, list) ==
  LET T == Tree(top, kids)
  IN /\ kids' = [q \in Node |-> IF q = p THEN list ELSE IF q \in T THEN <<>> ELSE kids[q]]
     /\ Below(T, top, kids) /\ p \notin T \ {top}

\* A root that may become a child of p: p is not below it.
MayAdopt(p, i) == LET T == Tree(i, kids) IN p \notin T /\ Below(T, i, kids)

Init == kids = [p \in Node |-> <<>>] /\ roots = {}

\* A new document: a tree of new nodes only.
Build == \E top \in Node \ Nodes :
  /\ roots' = roots \cup {top}
  /\ LET T == Tree(top, kids')
     IN /\ T \cap Nodes = {}
        /\ kids' = [p \in Node |-> IF p \in T THEN kids'[p] ELSE kids[p]]
        /\ \A p \in T : kids'[p] \in Seq(T \ {top})
        /\ Below(T, top, kids') /\ Places(T, kids') /\ Descends(T, kids')

\* A root, or a new node, becomes a child of p at place n.
Adopt(p, n) == \E i \in roots :
  /\ roots' = roots \ {i}
  /\ kids' = [kids EXCEPT ![p] = InsertAt(@, n, i)]
  /\ MayAdopt(p, i)

AddNew(p) == /\ UNCHANGED roots
             /\ \E i \in Node \ Nodes : kids' = [kids EXCEPT ![p] = Append(@, i)]

Detach(p, n) == /\ roots' = roots \cup {kids[p][n]}
                /\ kids' = [kids EXCEPT ![p] = RemoveAt(@, n)]

\* The child at place n goes, with its tree; a root may take its place.
Discard(p, n) == /\ UNCHANGED roots
                 /\ Prune(kids[p][n], p, RemoveAt(kids[p], n))

Replace(p, n) == \E i \in roots :
  /\ roots' = roots \ {i}
  /\ Prune(kids[p][n], p, [kids[p] EXCEPT ![n] = i])
  /\ MayAdopt(p, i)

Delete(top) == roots' = roots \ {top} /\ Prune(top, top, <<>>)

Next == \/ Build
        \/ \E top \in roots : Delete(top)
        \/ \E p \in Nodes :
             \/ AddNew(p)
             \/ \E n \in 1..(Len(kids[p]) + 1) : Adopt(p, n)
             \/ \E n \in DOMAIN kids[p] : Detach(p, n) \/ Discard(p, n) \/ Replace(p, n)

Spec == Init /\ [][Next]_forestVars
-----------------------------------------------------------------------------
\* Documents are trees: a node is at one place under one parent, a root is under
\* none, no node is below itself, and what is thrown away leaves nothing behind:
\* what is not in use has no children.
IsForest(k, r) == /\ Places(Node, k) /\ Descends(Node, k)
                  /\ \A p \in Node : r \cap ToSet(k[p]) = {}
                  /\ \A p \in Node \ InUse(k, r) : k[p] = <<>>
DocumentsAreTrees == IsForest(kids, roots)
=============================================================================
