------------------------------ MODULE RankedTree ------------------------------
(***************************************************************************)
(* The ranked prolly tree of rust/ranked-prolly-tree: a map whose nodes    *)
(* are cut where a key has a high rank, so that the tree is determined by  *)
(* the entries it holds.  A block is named by its hash and never removed,  *)
(* so that it is modelled by what it contains, and a reference to it by    *)
(* the block.  The lists of a block are in the order of the keys they go   *)
(* by, and are modelled as functions of these keys: entries by their keys, *)
(* nodes by their boundaries.                                              *)
(*                                                                         *)
(* A tree is changed by one call at a time and not while a stream over it  *)
(* is alive, which Rust's borrows see to; the steps of a range read are    *)
(* those of the loops in get_range.                                        *)
(***************************************************************************)
EXTENDS Integers, Sequences, FiniteSets, FiniteSetsExt

CONSTANTS
  Keys,      \* the keys, which are numbers
  Values,
  Rank(_),   \* compute_rank, a hash of the key
  MaxRank,   \* the batches of bits of that hash, and one
  Ranges,    \* the ranges that are read, each with two bounds
  None       \* no entry

Unbounded == [kind |-> "Unbounded", key |-> 0]
Bounds == [kind : {"Included", "Excluded"}, key : Keys] \cup {Unbounded}

ASSUME RankedAssumption ==
  /\ Keys \subseteq Nat /\ MaxRank \in Nat /\ \A k \in Keys : Rank(k) \in 1 .. MaxRank
  /\ Ranges \subseteq [from : Bounds, to : Bounds]

VARIABLES
  root,      \* Tree.root
  entries,   \* history: the value last set under each key
  read       \* the state of a stream over a range

rankedVars == <<root, entries, read>>

-----------------------------------------------------------------------------
(* What join_with_rank is given entries for, on the first level, becomes a
   segment, and what it is given nodes for a branch. *)
Adopt(items, level) == [branch |-> level > 1, items |-> items]

(* A tree without a root; a block is never empty. *)
NoRoot == Adopt(<<>>, 1)

RankedItems(items) == [items |-> items, rank |-> [k \in DOMAIN items |-> Rank(k)]]

(* join_with_rank: siblings become the nodes above them, each of which ends
   behind a sibling of a rank greater than the level, and the last one with
   the last sibling. *)
JoinWithRank(ranked, level) ==
  LET keys == DOMAIN ranked.items
      cuts == {k \in keys : ranked.rank[k] > level \/ k = Max(keys)}
      pending(c) == {k \in keys : k <= c /\ \A b \in cuts : b < c => b < k}
  IN  [items |-> [c \in cuts |-> Adopt([k \in pending(c) |-> ranked.items[k]], level)],
       rank  |-> [c \in cuts |-> IF ranked.rank[c] > level THEN ranked.rank[c] ELSE level]]

(* The nodes that were made anew, among the siblings their parent had. *)
Rejoin(nodes, siblings) ==
  LET keys == DOMAIN nodes.items \cup DOMAIN siblings
      new(k) == k \in DOMAIN nodes.items
  IN  [items |-> [k \in keys |-> IF new(k) THEN nodes.items[k] ELSE siblings[k]],
       rank  |-> [k \in keys |-> IF new(k) THEN nodes.rank[k] ELSE Rank(k)]]

(* Deviation: a child is taken to end before its boundary. *)
CoversBelow(boundary, key) == key < boundary

(* The children that may hold a key. *)
Covers(boundary, key) == key <= boundary

ChildrenFor(node, key) == {b \in DOMAIN node.items : Covers(b, key)}

(* The child insert goes on to: the greatest, if none may hold the key. *)
Child(node, key) == Min(ChildrenFor(node, key) \cup {Max(DOMAIN node.items)})

(* The way down from the root to a segment. *)
Path(node, key) ==
  LET at[d \in 0 .. MaxRank] ==
        IF d = 0 THEN node
        ELSE IF at[d - 1].branch THEN at[d - 1].items[Child(at[d - 1], key)] ELSE at[d - 1]
  IN  at

Depth(path) == Min({d \in DOMAIN path : ~path[d].branch})

(* An entry of branch_stack. *)
BranchStack(node, key) == [b \in DOMAIN node.items \ {Child(node, key)} |-> node.items[b]]

(* The loop of insert and from_set: up to a level that has one node, and at
   least as far as the path that was taken down. *)
IsOne(nodes) == \A j, k \in DOMAIN nodes.items : j = k

Stacked(at, path, key) == IF at.depth = 0 THEN <<>> ELSE BranchStack(path[at.depth - 1], key)

(* Deviation: one node is enough, also where its path has siblings above. *)
JoinedToOne(at, path, key) ==
  LET joined == JoinWithRank(Rejoin(at.nodes, Stacked(at, path, key)), at.level)
  IN  IF at.done THEN at
      ELSE [nodes |-> joined, level |-> at.level + 1, depth |-> Max({0, at.depth - 1}),
            done |-> IsOne(joined)]

JoinedAbove(at, path, key) ==
  LET joined == JoinWithRank(Rejoin(at.nodes, Stacked(at, path, key)), at.level)
  IN  IF at.done THEN at
      ELSE [nodes |-> joined, level |-> at.level + 1, depth |-> Max({0, at.depth - 1}),
            done |-> at.depth <= 1 /\ IsOne(joined)]

Raise(items, path, depth, key) ==
  LET raised[n \in 0 .. MaxRank] ==
        IF n = 0
        THEN [nodes |-> JoinWithRank(RankedItems(items), 1), level |-> 2, depth |-> depth, done |-> FALSE]
        ELSE JoinedAbove(raised[n - 1], path, key)
      top == raised[MaxRank].nodes.items
  IN  top[Min(DOMAIN top)]

FromSet(map) == Raise(map, <<>>, 0, 0)

(* insert: the segment gets the entry, or the entry its value; then the path
   is made anew from below. *)
With(map, key, value) ==
  [k \in DOMAIN map \cup {key} |-> IF k = key THEN value ELSE map[k]]

Insert(node, key, value) ==
  LET path == Path(node, key)
      depth == Depth(path)
  IN  Raise(With(path[depth].items, key, value), path, depth, key)

(* get_entry: there is none when a branch has no child for the key. *)
Get(node, key) ==
  LET path == Path(node, key)
      segment == path[Depth(path)].items
  IN  IF key \in DOMAIN segment /\ \A d \in 0 .. Depth(path) - 1 : ChildrenFor(path[d], key) # {}
      THEN segment[key] ELSE None

-----------------------------------------------------------------------------
NoRead ==
  [state |-> "none", from |-> Unbounded, to |-> Unbounded, stack |-> <<>>, segment |-> <<>>,
   matching |-> FALSE, yielded |-> <<>>, vain |-> 0]

(* Tree::new and from_set. *)
Maps == UNION {[S -> Values] : S \in {S \in SUBSET Keys : IsFiniteSet(S) /\ S # {}}}

RankedInit ==
  /\ \/ root = NoRoot /\ entries = <<>>
     \/ \E map \in Maps : root = FromSet(map) /\ entries = map
  /\ read = NoRead

(* Tree.set *)
SetKey(key, value) ==
  /\ read.state = "none"
  /\ root' = IF root = NoRoot THEN Adopt(With(<<>>, key, value), 1) ELSE Insert(root, key, value)
  /\ entries' = With(entries, key, value)
  /\ UNCHANGED read

AtLeast(bound, key) ==
  \/ bound.kind = "Unbounded" \/ bound.key < key
  \/ bound.kind = "Included" /\ bound.key = key
AtMost(bound, key) ==
  \/ bound.kind = "Unbounded" \/ key < bound.key
  \/ bound.kind = "Included" /\ bound.key = key
InRange(key) == AtLeast(read.from, key) /\ AtMost(read.to, key)

(* Tree.stream_range: the root is what the stream visits first. *)
StreamRange(range) ==
  /\ read.state = "none" /\ root # NoRoot
  /\ read' = [NoRead EXCEPT !.state = "reading", !.from = range.from, !.to = range.to,
                            !.stack = <<[node |-> root, visited |-> -1]>>]
  /\ UNCHANGED <<root, entries>>

(* The stack has the branches above, each with its child visited last, or -1;
   segment are the entries of a segment that the inner loop has yet to see. *)
Reads(changed) == read' = changed /\ UNCHANGED <<root, entries>>
Top == read.stack[Len(read.stack)]
Popped == SubSeq(read.stack, 1, Len(read.stack) - 1)
AtNode == read.state = "reading" /\ DOMAIN read.segment = {} /\ read.stack # <<>>
Visit(child) ==
  Reads([read EXCEPT !.stack = Popped \o
    <<[Top EXCEPT !.visited = child], [node |-> Top.node.items[child], visited |-> -1]>>])

(* Deviation: the greatest child is taken for a start behind it, as in insert. *)
VisitGreatest ==
  /\ AtNode /\ Top.node.branch /\ ~read.matching
  /\ Visit(Child(Top.node, read.from.key))

(* Until an entry has matched: down to the child that may hold the start, which
   is the first one if there is no start. *)
VisitStart ==
  /\ AtNode /\ Top.node.branch /\ ~read.matching
  /\ LET candidates == ChildrenFor(Top.node, read.from.key)
     IN  IF candidates = {} THEN Reads([read EXCEPT !.state = "ended"])
         ELSE Visit(Min(candidates))

(* From then on: the next sibling, or that of the parent. *)
VisitNext ==
  /\ AtNode /\ Top.node.branch /\ read.matching
  /\ LET rest == {b \in DOMAIN Top.node.items : b > Top.visited}
     IN  IF rest = {} THEN Reads([read EXCEPT !.stack = Popped]) ELSE Visit(Min(rest))

ReadSegment ==
  /\ AtNode /\ ~Top.node.branch
  /\ LET hits == {k \in DOMAIN Top.node.items : InRange(k)}
     IN  Reads([read EXCEPT !.stack = Popped, !.segment = Top.node.items,
                  !.vain = IF hits = {} /\ ~read.matching THEN Min({@ + 1, 2}) ELSE @])

(* Entries are yielded while they are in the range, and the first one behind
   those that matched ends the read. *)
ReadEntry ==
  /\ read.state = "reading" /\ DOMAIN read.segment # {}
  /\ LET key == Min(DOMAIN read.segment)
         rest == [k \in DOMAIN read.segment \ {key} |-> read.segment[k]]
         entry == [key |-> key, value |-> read.segment[key]]
     IN  Reads(IF InRange(key)
               THEN [read EXCEPT !.segment = rest, !.matching = TRUE, !.yielded = Append(@, entry)]
               ELSE IF read.matching THEN [read EXCEPT !.state = "ended"]
               ELSE [read EXCEPT !.segment = rest])

EndOfTree ==
  /\ read.state = "reading" /\ DOMAIN read.segment = {} /\ read.stack = <<>>
  /\ Reads([read EXCEPT !.state = "ended"])

(* The stream is dropped, at its end or before. *)
Drop ==
  /\ read.state # "none"
  /\ Reads(NoRead)

-----------------------------------------------------------------------------
ReadStep == VisitStart \/ VisitNext \/ ReadSegment \/ ReadEntry \/ EndOfTree

RankedNext ==
  \/ \E k \in Keys, v \in Values : SetKey(k, v)
  \/ \E range \in Ranges : StreamRange(range)
  \/ ReadStep \/ Drop

(* Whoever reads a stream reads on; nobody needs to drop it. *)
RankedSpec == RankedInit /\ [][RankedNext]_rankedVars
RankedFairSpec == RankedSpec /\ WF_rankedVars(ReadStep)

-----------------------------------------------------------------------------
(* The tree that comes of any calls of set, in whatever order and however often
   they overwrite each other, is the tree that from_set builds of the same
   entries.  Not so that of a single call, whose root is a bare segment where
   from_set has a branch above it. *)
SameRoot ==
  root # NoRoot =>
    \/ root = FromSet(entries)
    \/ ~root.branch /\ root.items = entries /\ IsOne(root)

(* A key has the value it was last set to.  What a read has yielded are the
   first of the entries in the range, in order, and all of them when it has
   ended. *)
Yields(key) == \E i \in DOMAIN read.yielded : read.yielded[i] = [key |-> key, value |-> entries[key]]

ReadsWhatWasSet ==
  /\ root # NoRoot => \A k \in Keys :
       Get(root, k) = IF k \in DOMAIN entries THEN entries[k] ELSE None
  /\ read.state # "none" =>
       /\ \A i \in DOMAIN read.yielded :
            LET key == read.yielded[i].key
            IN  key \in DOMAIN entries /\ InRange(key) /\ read.yielded[i].value = entries[key]
       /\ \A i, j \in DOMAIN read.yielded : i < j => read.yielded[i].key < read.yielded[j].key
       /\ \A k \in DOMAIN entries : InRange(k) /\ ~Yields(k) =>
            /\ read.state # "ended"
            /\ \A i \in DOMAIN read.yielded : read.yielded[i].key < k

(* A read ends, unless the segment at its start has no entry in the range: it
   is read over and over then. *)
StartsInVain ==
  /\ read.state = "reading" /\ root.branch /\ ChildrenFor(root, read.from.key) # {}
  /\ LET path == Path(root, read.from.key)
     IN  \A k \in DOMAIN path[Depth(path)].items : ~InRange(k)

ReadsEnd == read.state = "reading" /\ ~StartsInVain ~> read.state # "reading"

(* What get_range says of its first step: "this will at most read one
   unnecessary segment". *)
OneSegmentInVain == read.vain <= 1
=============================================================================
