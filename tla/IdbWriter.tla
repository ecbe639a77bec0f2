------------------------------- MODULE IdbWriter -------------------------------
(***************************************************************************)
(* The Merkle search tree that src/store/idb/writer.js keeps in IndexedDB. *)
(* Entries are the leaves, level 0; a node of a level above stands for the *)
(* nodes below it from its own key up to the next boundary, a node whose   *)
(* hash is small.  Every level begins with an anchor, which has no key.    *)
(* set and delete change a leaf and repair the levels above step by step,  *)
(* splitting and merging nodes, so that replicas with the same entries     *)
(* have the same root, whatever order they came in.                        *)
(*                                                                         *)
(* The node store is a function from <<level, key>> to hash; the anchor's  *)
(* key is 0.  A hash is modelled by what was hashed, which makes collisions *)
(* impossible; whether it is small is any function of the hash.            *)
(***************************************************************************)
EXTENDS Integers, FiniteSetsExt

CONSTANTS
  Keys,        \* the keys of entries, positive numbers in their order
  Values,      \* the values of entries, numbers
  Small(_),    \* whether a hash is small
  MaxLevel     \* bound: no hash of this level or above is small

ASSUME WriterAssumption ==
  /\ Keys \subseteq Nat \ {0} /\ Values \subseteq Nat /\ MaxLevel \in Nat

VARIABLES
  nodes,       \* the node store
  content      \* history: what was set and not deleted, a function of keys

writerVars == <<nodes, content>>

NoValue == -1      \* the value of a change that deletes

-----------------------------------------------------------------------------
(* A hash is <<level, what>>: the entry of a leaf, <<>> for the leaf anchor,
   and the hashes of its children for a node above.  Leaves are hashed with
   their keys, so that hashes tell keys, and children can be named by them. *)
LeafHash(key, value) == <<0, <<key, value>>>>
AnchorHash == <<0, <<>>>>

IsBoundary(hash) == hash[1] < MaxLevel /\ Small(hash)

At(T, level) == {k \in Keys \cup {0} : <<level, k>> \in DOMAIN T}

SetNode(T, level, key, hash) ==
  [n \in DOMAIN T \cup {<<level, key>>} |-> IF n = <<level, key>> THEN hash ELSE T[n]]

DeleteNode(T, level, key) == [n \in DOMAIN T \ {<<level, key>>} |-> T[n]]

(* getHash: the nodes below, from the key up to the next boundary. *)
GetHash(T, level, key) ==
  LET below == {k \in At(T, level - 1) : k >= key}
      own == {k \in below : \A b \in below : key < b /\ b <= k => ~IsBoundary(T[<<level - 1, b>>])}
  IN  <<level, [k \in own |-> T[<<level - 1, k>>]]>>

(* getFirstSibling: the last boundary up to the key, or the anchor. *)
FirstSibling(T, level, key) ==
  Max({k \in At(T, level) : k <= key /\ (k = 0 \/ IsBoundary(T[<<level, k>>]))})

(* deleteParents: the nodes above with the same key, as far as they go up. *)
DeleteParents(T, level, key) ==
  [n \in {m \in DOMAIN T : m[2] = key /\ m[1] > level =>
            \E l \in level + 1 .. m[1] : <<l, key>> \notin DOMAIN T} |-> T[n]]

(* Deviation: the parent is not looked at again. *)
CreateParent(T, level, key) == SetNode(T, level + 1, key, GetHash(T, level + 1, key))

(* createParents: a boundary is a node of the level above as well, and so on
   while the new node is a boundary itself. *)
Raised(at, key) ==
  IF IsBoundary(at.tree[<<at.level, key>>])
  THEN [tree  |-> SetNode(at.tree, at.level + 1, key, GetHash(at.tree, at.level + 1, key)),
        level |-> at.level + 1]
  ELSE at

CreateParents(T, level, key) ==
  LET raised[n \in 0 .. MaxLevel] ==
        IF n = 0 THEN [tree |-> T, level |-> level] ELSE Raised(raised[n - 1], key)
  IN  raised[MaxLevel].tree

(* updateAnchor: anchors up to the first level that has nothing else. *)
Anchor(T, level) == [tree |-> SetNode(T, level, 0, GetHash(T, level, 0)), level |-> level]

Anchored(at) == IF At(at.tree, at.level) = {0} THEN at ELSE Anchor(at.tree, at.level + 1)

UpdateAnchor(T, level) ==
  LET anchored[n \in 0 .. MaxLevel] ==
        IF n = 0 THEN Anchor(T, level) ELSE Anchored(anchored[n - 1])
  IN  DeleteParents(anchored[MaxLevel].tree, anchored[MaxLevel].level, 0)

(* replace, replaceBoundary and update hand the tree on to an update of the
   node of the next level that has the first sibling's key. *)
Parent(T, level, sibling) == [tree |-> T, level |-> level + 1, key |-> sibling]

(* replaceBoundary: what is a boundary no more falls to its first sibling. *)
ReplaceBoundary(T, level, key, hash) ==
  LET placed == SetNode(T, level, key, hash)
      merged == DeleteParents(placed, level, key)
  IN  IF IsBoundary(hash) THEN Parent(placed, level, key)
      ELSE Parent(merged, level, FirstSibling(merged, level, key))

(* replace puts a node into its level; what was a boundary is handled by
   replaceBoundary. *)
Replace(T, level, key, hash) ==
  LET placed == SetNode(T, level, key, hash)
      split == IF IsBoundary(hash) THEN CreateParents(placed, level, key) ELSE placed
  IN  IF key \in At(T, level) /\ IsBoundary(T[<<level, key>>])
      THEN ReplaceBoundary(T, level, key, hash)
      ELSE Parent(split, level, FirstSibling(T, level, key))

(* update computes the hash of a node again and replaces it; the anchor is the
   last. *)
Update(at) ==
  IF at.key = 0 THEN at ELSE Replace(at.tree, at.level, at.key, GetHash(at.tree, at.level, at.key))

UpdateParents(at) ==
  LET updated[n \in 0 .. MaxLevel] == IF n = 0 THEN at ELSE Update(updated[n - 1])
  IN  UpdateAnchor(updated[MaxLevel].tree, updated[MaxLevel].level)

(* set: a leaf that is there already changes nothing. *)
Set(T, key, value) ==
  LET hash == LeafHash(key, value)
  IN  IF key \in At(T, 0) /\ T[<<0, key>>] = hash THEN T
      ELSE UpdateParents(Replace(T, 0, key, hash))

(* delete: what a boundary headed falls to its first sibling. *)
Delete(T, key) ==
  LET merged == IF IsBoundary(T[<<0, key>>]) THEN DeleteParents(T, 0, key) ELSE T
      without == DeleteNode(merged, 0, key)
  IN  IF key \notin At(T, 0) THEN T
      ELSE UpdateParents(Parent(without, 0, FirstSibling(without, 0, key)))

(* integrate: changes one after the other; one without a value deletes. *)
Change == [key : Keys, value : Values \cup {NoValue}]

Apply(T, change) ==
  IF change.value = NoValue THEN Delete(T, change.key) ELSE Set(T, change.key, change.value)

(* Deviation: a node that is a boundary itself has no children. *)
GetChildrenStrict(T, level, key) ==
  LET below == {k \in At(T, level - 1) : k >= key}
  IN  {k \in below : \A b \in below : b <= k => b = 0 \/ ~IsBoundary(T[<<level - 1, b>>])}

(* getChildren: the nodes from the key on, before the next boundary. *)
GetChildren(T, level, key) ==
  LET below == {k \in At(T, level - 1) : k >= key}
  IN  {k \in below : \A b \in below : b <= k /\ IsBoundary(T[<<level - 1, b>>]) => b = key}

(* getRoot: the last node of the store, which the code asserts is an anchor. *)
Root(T) ==
  LET top == Max({n[1] : n \in DOMAIN T}) IN <<top, Max(At(T, top))>>

-----------------------------------------------------------------------------
WriterInit ==
  /\ nodes = [n \in {<<0, 0>>} |-> AnchorHash]
  /\ content = <<>>

Changed(f, change) ==
  IF change.value = NoValue THEN [k \in DOMAIN f \ {change.key} |-> f[k]]
  ELSE [k \in DOMAIN f \cup {change.key} |-> IF k = change.key THEN change.value ELSE f[k]]

SetEntry(key, value) ==
  /\ nodes' = Set(nodes, key, value)
  /\ content' = Changed(content, [key |-> key, value |-> value])

DeleteEntry(key) ==
  /\ nodes' = Delete(nodes, key)
  /\ content' = Changed(content, [key |-> key, value |-> NoValue])

(* The loop of integrate, for two changes; a longer one is several of them. *)
IntegrateChanges(c, d) ==
  /\ nodes' = Apply(Apply(nodes, c), d)
  /\ content' = Changed(Changed(content, c), d)

WriterNext ==
  \/ \E k \in Keys : DeleteEntry(k) \/ \E v \in Values : SetEntry(k, v)
  \/ \E c, d \in Change : IntegrateChanges(c, d)

WriterSpec == WriterInit /\ [][WriterNext]_writerVars

-----------------------------------------------------------------------------
(* The tree that entries determine, row by row: each row has the boundaries of
   the one below, and a node is hashed from what lies up to the next boundary;
   the last row has nothing but its anchor. *)
Leaves(f) ==
  [k \in {0} \cup DOMAIN f |-> IF k = 0 THEN AnchorHash ELSE LeafHash(k, f[k])]

Group(row, k) ==
  {j \in DOMAIN row : j >= k /\ \A b \in DOMAIN row : IsBoundary(row[b]) => ~(k < b /\ b <= j)}

RowAbove(row, level) ==
  [k \in {k \in DOMAIN row : DOMAIN row # {0} /\ (k = 0 \/ IsBoundary(row[k]))} |->
     <<level, [j \in Group(row, k) |-> row[j]]>>]

TreeOf(f) ==
  LET row[l \in 0 .. MaxLevel + 1] == IF l = 0 THEN Leaves(f) ELSE RowAbove(row[l - 1], l)
  IN  [n \in UNION {{l} \X DOMAIN row[l] : l \in 0 .. MaxLevel + 1} |-> row[n[1]][n[2]]]

(* Whatever was set and deleted in whatever order, the store holds the tree of
   the entries that are left; a tree that was emptied keeps one anchor above
   the leaf anchor, which a new tree has not. *)
HistoryIndependent ==
  \/ nodes = TreeOf(content)
  \/ DOMAIN content = {} /\ nodes = Anchor(TreeOf(content), 1).tree

(* A reader that descends from the root by getChildren, as a remote replica
   does, finds the hash of each node to be that of its children, and comes to
   every entry, and to each node once. *)
Descent(T) ==
  LET top == Root(T)[1]
      reached[d \in 0 .. top] ==
        IF d = 0 THEN {Root(T)[2]}
        ELSE UNION {GetChildren(T, top - d + 1, k) : k \in reached[d - 1]}
  IN  reached[top]

DescentReachesAll ==
  /\ Root(nodes)[2] = 0
  /\ Descent(nodes) = {0} \cup DOMAIN content
  /\ \A n \in DOMAIN nodes : n[1] > 0 =>
       /\ nodes[n][2] = [k \in GetChildren(nodes, n[1], n[2]) |-> nodes[<<n[1] - 1, k>>]]
       /\ \A m \in DOMAIN nodes : m[1] = n[1] /\ m # n =>
            GetChildren(nodes, n[1], n[2]) \cap GetChildren(nodes, m[1], m[2]) = {}
=============================================================================
