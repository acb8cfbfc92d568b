---------------------------- MODULE EditsProofs ----------------------------
(***************************************************************************)
(* What is proved about the edits for all Makefiles: no edit changes a     *)
(* node that is printed from the lines it was read from, and portfmt and   *)
(* the commands that sanitize lose no comment.                             *)
(***************************************************************************)
EXTENDS Edits, SequenceInduction, TLAPS

(* Nodes that are printed as they were read must be among these.           *)
Silent(node) == node.type \in {"variable", "comment"} /\ ~node.edited

Fine(node, asread) == IsNode(node) /\ (Silent(node) => node \in asread)

(* A tree all of whose silent nodes are as they were read.                 *)
Kept(nodes, asread) ==
  nodes \in Seq(ToSet(nodes)) /\ \A node \in ToSet(nodes) : Fine(node, asread)

-----------------------------------------------------------------------------
(* Kept trees are put together from fine nodes and from kept trees.        *)
LEMMA KeptIs ==
  ASSUME NEW asread, NEW T, NEW nodes \in Seq(T), \A n \in T : Fine(n, asread)
  PROVE  Kept(nodes, asread)
<1>1. \A n \in ToSet(nodes) : n \in T
  BY DEF ToSet
<1>2. nodes \in Seq(ToSet(nodes))
  BY DEF ToSet
<1> QED
  BY <1>1, <1>2 DEF Kept

LEMMA KeptHas ==
  ASSUME NEW asread, NEW nodes, Kept(nodes, asread)
  PROVE  /\ nodes \in Seq(ToSet(nodes))
         /\ \A i \in DOMAIN nodes : nodes[i] \in ToSet(nodes) /\ Fine(nodes[i], asread)
  BY DEF Kept, ToSet

LEMMA KeptEmpty ==
  ASSUME NEW asread
  PROVE  Kept(<<>>, asread)
<1> DEFINE T == {n \in asread : FALSE}
<1>1. \A n \in T : Fine(n, asread)
  OBVIOUS
<1> HIDE DEF T
<1>2. <<>> \in Seq(T)
  OBVIOUS
<1> QED
  BY <1>1, <1>2, KeptIs

LEMMA KeptAppend ==
  ASSUME NEW asread, NEW nodes, Kept(nodes, asread), NEW node, Fine(node, asread)
  PROVE  Kept(Append(nodes, node), asread)
<1> DEFINE T == ToSet(nodes) \cup {node}
<1>1. nodes \in Seq(ToSet(nodes)) /\ \A n \in T : Fine(n, asread)
  BY DEF Kept
<1>2. ToSet(nodes) \subseteq T /\ node \in T
  OBVIOUS
<1> HIDE DEF T
<1>3. nodes \in Seq(T)
  BY <1>1, <1>2
<1>4. Append(nodes, node) \in Seq(T)
  BY <1>2, <1>3
<1> QED
  BY <1>1, <1>4, KeptIs

LEMMA KeptConcat ==
  ASSUME NEW asread, NEW before, NEW after, Kept(before, asread), Kept(after, asread)
  PROVE  Kept(before \o after, asread)
<1> DEFINE T == ToSet(before) \cup ToSet(after)
<1>1. /\ before \in Seq(ToSet(before)) /\ after \in Seq(ToSet(after))
      /\ \A n \in T : Fine(n, asread)
  BY DEF Kept
<1>2. ToSet(before) \subseteq T /\ ToSet(after) \subseteq T
  OBVIOUS
<1> HIDE DEF T
<1>3. before \in Seq(T) /\ after \in Seq(T)
  BY <1>1, <1>2
<1>4. before \o after \in Seq(T)
  BY <1>3
<1> QED
  BY <1>1, <1>4, KeptIs

LEMMA KeptSub ==
  ASSUME NEW asread, NEW nodes, Kept(nodes, asread),
         NEW i \in Nat \ {0}, NEW j \in Nat, j <= Len(nodes)
  PROVE  Kept(SubSeq(nodes, i, j), asread)
<1> DEFINE T == ToSet(nodes)
<1>1. nodes \in Seq(T) /\ \A n \in T : Fine(n, asread)
  BY DEF Kept
<1> HIDE DEF T
<1>2. SubSeq(nodes, i, j) \in Seq(T)
  BY <1>1
<1> QED
  BY <1>1, <1>2, KeptIs

(* Each node is put in place of another.                                   *)
LEMMA KeptMap ==
  ASSUME NEW asread, NEW nodes, Kept(nodes, asread), NEW mapped,
         mapped = [i \in DOMAIN nodes |-> mapped[i]],
         \A i \in DOMAIN nodes : Fine(mapped[i], asread)
  PROVE  Kept(mapped, asread)
<1> DEFINE T == ToSet(mapped)
<1>1. nodes \in Seq(ToSet(nodes))
  BY DEF Kept
<1>2. DOMAIN nodes = 1 .. Len(nodes) /\ Len(nodes) \in Nat
  BY <1>1
<1>3. \A n \in T : Fine(n, asread)
  BY DEF ToSet
<1>4. \A i \in 1 .. Len(nodes) : mapped[i] \in T
  BY <1>2 DEF ToSet
<1> HIDE DEF T
<1>5. mapped = [i \in 1 .. Len(nodes) |-> mapped[i]]
  BY <1>2
<1>6. mapped \in [1 .. Len(nodes) -> T]
  BY <1>4, <1>5
<1>7. mapped \in Seq(T)
  BY <1>2, <1>6
<1> QED
  BY <1>3, <1>7, KeptIs

(* Each node is put in place of a few others.                              *)
LEMMA KeptFlatten ==
  ASSUME NEW asread, NEW nodes, Kept(nodes, asread), NEW lists,
         lists = [i \in DOMAIN nodes |-> lists[i]],
         \A i \in DOMAIN nodes : Kept(lists[i], asread)
  PROVE  Kept(FlattenSeq(lists), asread)
<1> DEFINE T == UNION {ToSet(lists[i]) : i \in DOMAIN nodes}
<1>1. nodes \in Seq(ToSet(nodes))
  BY DEF Kept
<1>2. DOMAIN nodes = 1 .. Len(nodes) /\ Len(nodes) \in Nat
  BY <1>1
<1>3. \A n \in T : Fine(n, asread)
  BY DEF Kept
<1>4. \A i \in DOMAIN nodes : ToSet(lists[i]) \subseteq T /\ lists[i] \in Seq(ToSet(lists[i]))
  BY DEF Kept
<1> HIDE DEF T
<1>5. \A i \in 1 .. Len(nodes) : lists[i] \in Seq(T)
  BY <1>2, <1>4
<1>6. lists = [i \in 1 .. Len(nodes) |-> lists[i]]
  BY <1>2
<1>7. lists \in [1 .. Len(nodes) -> Seq(T)]
  BY <1>5, <1>6
<1>8. lists \in Seq(Seq(T))
  BY <1>2, <1>7
<1>9. FlattenSeq(lists) \in Seq(T)
  BY <1>8, FlattenType
<1> QED
  BY <1>3, <1>9, KeptIs

-----------------------------------------------------------------------------
(* One node changed: what is changed must be marked.                       *)
LEMMA FineNode ==
  ASSUME NEW asread, NEW node, Fine(node, asread)
  PROVE  /\ IsNode(node) /\ node.edited \in BOOLEAN
         /\ Silent(node) => node \in asread
         /\ node.type = "comment" => node.words \in Seq(CommentLines)
  BY DEF Fine, IsNode

(* ast_balance(): only joined comments are changed, and they are marked    *)
(* unless nothing is joined to them.                                       *)
KeptBy(nodes, n, asread) == Kept(nodes, asread)

Joining == INSTANCE FoldInduction WITH op <- JoinComments, Holds <- KeptBy

LEMMA JoinedFine ==
  ASSUME NEW asread, NEW node, Fine(node, asread), NEW lines \in Seq(CommentLines),
         node.type = "comment",
         NEW joined, joined = [node EXCEPT !.words = @ \o lines,
                                           !.edited = @ \/ lines # <<>>]
  PROVE  Fine(joined, asread)
<1>1. /\ node = [id |-> node.id, type |-> node.type, in |-> node.in,
                 edited |-> node.edited, name |-> node.name, modifier |-> node.modifier,
                 words |-> node.words, comment |-> node.comment]
      /\ node.edited \in BOOLEAN /\ node.words \in Seq(CommentLines)
  BY DEF Fine, IsNode
<1>2. joined = [id |-> node.id, type |-> node.type, in |-> node.in,
                edited |-> node.edited \/ lines # <<>>, name |-> node.name,
                modifier |-> node.modifier,
                words |-> node.words \o lines, comment |-> node.comment]
  BY <1>1
<1>3. node.words \o lines \in Seq(CommentLines)
  BY <1>1
<1>4. IsNode(joined)
  BY <1>1, <1>2, <1>3 DEF IsNode
<1>5. ASSUME Silent(joined)
      PROVE  joined \in asread
  <2>1. ~node.edited /\ lines = <<>>
    BY <1>2, <1>5 DEF Silent
  <2>2. node.words \o lines = node.words /\ (node.edited \/ lines # <<>>) = node.edited
    BY <1>1, <2>1
  <2>3. joined = node
    BY <1>1, <1>2, <2>2
  <2> QED
    BY <1>5, <2>3 DEF Fine
<1> QED
  BY <1>4, <1>5 DEF Fine

LEMMA DeletedFine ==
  ASSUME NEW asread, NEW node, Fine(node, asread)
  PROVE  Fine([node EXCEPT !.type = "deleted"], asread)
<1> DEFINE deleted == [node EXCEPT !.type = "deleted"]
<1>1. /\ node = [id |-> node.id, type |-> node.type, in |-> node.in,
                 edited |-> node.edited, name |-> node.name, modifier |-> node.modifier,
                 words |-> node.words, comment |-> node.comment]
      /\ node.edited \in BOOLEAN
  BY DEF Fine, IsNode
<1>2. deleted = [id |-> node.id, type |-> "deleted", in |-> node.in,
                 edited |-> node.edited, name |-> node.name, modifier |-> node.modifier,
                 words |-> node.words, comment |-> node.comment]
  BY <1>1
<1> HIDE DEF deleted
<1>3. IsNode(deleted)
  BY <1>1, <1>2 DEF IsNode
<1>4. ~Silent(deleted)
  BY <1>2 DEF Silent
<1>5. Fine(deleted, asread)
  BY <1>3, <1>4 DEF Fine
<1> QED
  BY <1>5 DEF deleted

LEMMA JoinCommentsKeeps ==
  ASSUME NEW asread, NEW done, Kept(done, asread), NEW node, Fine(node, asread)
  PROVE  Kept(JoinComments(done, node), asread)
<1> DEFINE last == SelectLastInSeq(done, LAMBDA n : n.type # "deleted")
           joins == /\ node.type = "comment" /\ last # 0
                    /\ done[last].type = "comment" /\ done[last].in = node.in
           joined == [done EXCEPT ![last].words = @ \o node.words,
                                  ![last].edited = @ \/ node.words # <<>>]
           deleted == [node EXCEPT !.type = "deleted"]
<1>1. JoinComments(done, node) = IF joins THEN Append(joined, deleted) ELSE Append(done, node)
  BY Zenon DEF JoinComments
<1> HIDE DEF last
<1>2. CASE joins
  <2>1. \A i \in DOMAIN done : Fine(done[i], asread)
    BY KeptHas
  <2>2. node.words \in Seq(CommentLines)
    BY <1>2, FineNode
  <2>3. ASSUME NEW i \in DOMAIN done
        PROVE  Fine(joined[i], asread)
    <3>1. CASE i # last
      <4>1. joined[i] = done[i]
        BY <3>1
      <4> QED
        BY <2>1, <4>1
    <3>2. CASE i = last
      <4>1. joined[i] = [done[i] EXCEPT !.words = @ \o node.words,
                                        !.edited = @ \/ node.words # <<>>]
        BY <3>2
      <4>2. done[i].type = "comment" /\ Fine(done[i], asread)
        BY <1>2, <2>1, <3>2
      <4> HIDE DEF joined
      <4> QED
        BY <2>2, <4>1, <4>2, JoinedFine
    <3> QED
      BY <3>1, <3>2
  <2>4. joined = [i \in DOMAIN done |-> joined[i]]
    OBVIOUS
  <2> HIDE DEF joined
  <2>5. Kept(joined, asread)
    BY <2>3, <2>4, KeptMap
  <2>6. Fine(deleted, asread)
    BY DeletedFine
  <2> HIDE DEF deleted
  <2> QED
    BY <1>1, <1>2, <2>5, <2>6, KeptAppend
<1>3. CASE ~joins
  BY <1>1, <1>3, KeptAppend
<1> QED
  BY <1>2, <1>3

LEMMA BalanceKeeps ==
  ASSUME NEW asread, NEW nodes, Kept(nodes, asread)
  PROVE  Kept(Balance(nodes), asread)
<1>1. nodes \in Seq(ToSet(nodes)) /\ \A i \in DOMAIN nodes : Fine(nodes[i], asread)
  BY KeptHas
<1>2. KeptBy(<<>>, 0, asread)
  BY KeptEmpty DEF KeptBy
<1>3. \A i \in DOMAIN nodes : \A done :
        KeptBy(done, i - 1, asread) => KeptBy(JoinComments(done, nodes[i]), i, asread)
  BY <1>1, JoinCommentsKeeps DEF KeptBy
<1>4. KeptBy(Joining!Fold(<<>>, nodes), Len(nodes), asread)
  BY <1>1, <1>2, <1>3, Joining!FoldHolds
<1>5. Balance(nodes) = Joining!Fold(<<>>, nodes)
  BY Zenon DEF Balance, Joining!Fold, Joining!Greatest,
     FoldLeft, MapThenFoldSet, Max
<1> QED
  BY <1>4, <1>5 DEF KeptBy

-----------------------------------------------------------------------------
(* refactor.remove-consecutive-empty-lines                                 *)

(* What is left of the lines of a comment are lines.                       *)
LinesBy(done, n, type) == done.lines \in Seq(CommentLines)

Taking == INSTANCE FoldInduction WITH op <- TakeLine, Holds <- LinesBy

LEMMA TakeLinesType ==
  ASSUME NEW counter, NEW lines \in Seq(CommentLines)
  PROVE  TakeLines(counter, lines).lines \in Seq(CommentLines)
<1> DEFINE base == [counter |-> counter, empty |-> 0, lines |-> <<>>]
<1>1. LinesBy(base, 0, 0)
  BY DEF LinesBy
<1>2. ASSUME NEW i \in DOMAIN lines, NEW done, LinesBy(done, i - 1, 0)
      PROVE  LinesBy(TakeLine(done, lines[i]), i, 0)
  <2>1. lines[i] \in CommentLines /\ done.lines \in Seq(CommentLines)
    BY <1>2 DEF LinesBy
  <2>2. Append(done.lines, lines[i]) \in Seq(CommentLines)
    BY <2>1
  <2>3. TakeLine(done, lines[i]).lines \in {done.lines, Append(done.lines, lines[i])}
    BY DEF TakeLine
  <2> QED
    BY <2>1, <2>2, <2>3 DEF LinesBy
<1> HIDE DEF base
<1>3. LinesBy(Taking!Fold(base, lines), Len(lines), 0)
  BY <1>1, <1>2, Taking!FoldHolds
<1>4. TakeLines(counter, lines) = Taking!Fold(base, lines)
  BY Zenon DEF TakeLines, base, Taking!Fold, Taking!Greatest,
     FoldLeft, MapThenFoldSet, Max
<1> QED
  BY <1>3, <1>4 DEF LinesBy

(* A comment that lost lines is marked.                                    *)
LEMMA ThinnedFine ==
  ASSUME NEW asread, NEW node, Fine(node, asread), NEW lines \in Seq(CommentLines),
         node.type = "comment",
         NEW thinned, thinned = [node EXCEPT !.words = lines,
                                             !.edited = @ \/ lines # node.words]
  PROVE  Fine(thinned, asread)
<1>1. /\ node = [id |-> node.id, type |-> node.type, in |-> node.in,
                 edited |-> node.edited, name |-> node.name, modifier |-> node.modifier,
                 words |-> node.words, comment |-> node.comment]
      /\ node.edited \in BOOLEAN
  BY DEF Fine, IsNode
<1>2. thinned = [id |-> node.id, type |-> node.type, in |-> node.in,
                 edited |-> node.edited \/ lines # node.words, name |-> node.name,
                 modifier |-> node.modifier, words |-> lines, comment |-> node.comment]
  BY <1>1
<1>3. IsNode(thinned)
  BY <1>1, <1>2 DEF IsNode
<1>4. ASSUME Silent(thinned)
      PROVE  thinned \in asread
  <2>1. ~node.edited /\ lines = node.words
    BY <1>2, <1>4 DEF Silent
  <2>2. (node.edited \/ lines # node.words) = node.edited
    BY <1>1, <2>1
  <2>3. thinned = node
    BY <1>1, <1>2, <2>1, <2>2
  <2> QED
    BY <1>4, <2>3 DEF Fine
<1> QED
  BY <1>3, <1>4 DEF Fine

KeptInTree(done, n, asread) == Kept(done.tree, asread)

Thinning == INSTANCE FoldInduction WITH op <- TakeNode, Holds <- KeptInTree

LEMMA TakeNodeKeeps ==
  ASSUME NEW asread, NEW done, Kept(done.tree, asread), NEW node, Fine(node, asread)
  PROVE  Kept(TakeNode(done, node).tree, asread)
<1>1. CASE node.type = "comment"
  <2> DEFINE lines == TakeLines(done.counter + 1, node.words).lines
             thinned == [node EXCEPT !.words = lines, !.edited = @ \/ lines # node.words]
  <2>1. TakeNode(done, node).tree = Append(done.tree, thinned)
    BY <1>1 DEF TakeNode
  <2>2. node.words \in Seq(CommentLines)
    BY <1>1, FineNode
  <2>3. lines \in Seq(CommentLines)
    BY <2>2, TakeLinesType
  <2> HIDE DEF lines
  <2>4. Fine(thinned, asread)
    BY <1>1, <2>3, ThinnedFine
  <2> HIDE DEF thinned
  <2> QED
    BY <2>1, <2>4, KeptAppend
<1>2. CASE node.type # "comment"
  <2>1. TakeNode(done, node).tree = Append(done.tree, node)
    BY <1>2 DEF TakeNode
  <2> QED
    BY <2>1, KeptAppend
<1> QED
  BY <1>1, <1>2

LEMMA RemoveConsecutiveEmptyLinesKeeps ==
  ASSUME NEW asread, NEW nodes, Kept(nodes, asread)
  PROVE  Kept(RemoveConsecutiveEmptyLines(nodes), asread)
<1> DEFINE base == [counter |-> 1, tree |-> <<>>]
<1>1. nodes \in Seq(ToSet(nodes)) /\ \A i \in DOMAIN nodes : Fine(nodes[i], asread)
  BY KeptHas
<1>2. KeptInTree(base, 0, asread)
  BY KeptEmpty DEF KeptInTree
<1>3. \A i \in DOMAIN nodes : \A done :
        KeptInTree(done, i - 1, asread) => KeptInTree(TakeNode(done, nodes[i]), i, asread)
  BY <1>1, TakeNodeKeeps DEF KeptInTree
<1> HIDE DEF base
<1>4. KeptInTree(Thinning!Fold(base, nodes), Len(nodes), asread)
  BY <1>1, <1>2, <1>3, Thinning!FoldHolds
<1>5. RemoveConsecutiveEmptyLines(nodes) = Thinning!Fold(base, nodes).tree
  BY Zenon DEF RemoveConsecutiveEmptyLines, base, Thinning!Fold, Thinning!Greatest,
     FoldLeft, MapThenFoldSet, Max
<1> QED
  BY <1>4, <1>5 DEF KeptInTree

-----------------------------------------------------------------------------
(* A walk that stops has visited the nodes up to some place in the tree.   *)
LEMMA SelectedInSeq ==
  ASSUME NEW nodes, Len(nodes) \in Nat, NEW found
  PROVE  found \in SUBSET (1 .. Len(nodes)) =>
           (IF found # {} THEN Min(found) ELSE 0) \in {0} \cup found
<1>1. ASSUME found \in SUBSET (1 .. Len(nodes)), found # {}
      PROVE  Min(found) \in found
  <2>1. found \in SUBSET Nat
    BY <1>1
  <2> QED
    BY <1>1, <2>1, MinIs
<1> QED
  BY <1>1

LEMMA StopsAtBsdPortMk ==
  ASSUME NEW nodes, Len(nodes) \in Nat
  PROVE  StopsAt(nodes, IsBsdPortMk) \in 0 .. Len(nodes)
<1> DEFINE found == {i \in 1 .. Len(nodes) : IsBsdPortMk(nodes[i])}
           at == IF found # {} THEN Min(found) ELSE 0
<1>1. at \in {0} \cup found
  BY SelectedInSeq
<1>2. at \in 0 .. Len(nodes)
  BY <1>1
<1>3. StopsAt(nodes, IsBsdPortMk) = IF at = 0 THEN Len(nodes) ELSE at - 1
  BY Zenon DEF StopsAt, SelectInSeq
<1> HIDE DEF at
<1> QED
  BY <1>2, <1>3

LEMMA StopsAtBlock ==
  ASSUME NEW nodes, Len(nodes) \in Nat
  PROVE  StopsAt(nodes, IsInBlock) \in 0 .. Len(nodes)
<1> DEFINE found == {i \in 1 .. Len(nodes) : IsInBlock(nodes[i])}
           at == IF found # {} THEN Min(found) ELSE 0
<1>1. at \in {0} \cup found
  BY SelectedInSeq
<1>2. at \in 0 .. Len(nodes)
  BY <1>1
<1>3. StopsAt(nodes, IsInBlock) = IF at = 0 THEN Len(nodes) ELSE at - 1
  BY Zenon DEF StopsAt, SelectInSeq
<1> HIDE DEF at
<1> QED
  BY <1>2, <1>3

LEMMA KeptParts ==
  ASSUME NEW asread, NEW nodes, Kept(nodes, asread), NEW i \in 0 .. Len(nodes)
  PROVE  /\ Len(nodes) \in Nat
         /\ Kept(SubSeq(nodes, 1, i), asread)
         /\ Kept(SubSeq(nodes, i + 1, Len(nodes)), asread)
<1>1. Len(nodes) \in Nat
  BY KeptHas
<1>2. i \in Nat /\ i <= Len(nodes) /\ i + 1 \in Nat \ {0} /\ 1 \in Nat \ {0}
  BY <1>1
<1>3. Kept(SubSeq(nodes, 1, i), asread)
  BY <1>2, KeptSub
<1>4. Kept(SubSeq(nodes, i + 1, Len(nodes)), asread)
  BY <1>1, <1>2, KeptSub
<1> QED
  BY <1>1, <1>3, <1>4

-----------------------------------------------------------------------------
(* A node that may have another modifier, other words and another comment. *)
LEMMA EditedFine ==
  ASSUME NEW asread, NEW node, IsNode(node), NEW edited,
         edited = [node EXCEPT !.edited = TRUE, !.modifier = edited.modifier,
                               !.words = edited.words, !.comment = edited.comment,
                               !.id = edited.id],
         node.type = "comment" => edited.words \in Seq(CommentLines)
  PROVE  Fine(edited, asread) /\ IsNode(edited) /\ edited.type = node.type
<1>1. /\ node = [id |-> node.id, type |-> node.type, in |-> node.in,
                 edited |-> node.edited, name |-> node.name, modifier |-> node.modifier,
                 words |-> node.words, comment |-> node.comment]
      /\ node.edited \in BOOLEAN
  BY DEF IsNode
<1>2. edited = [id |-> edited.id, type |-> node.type, in |-> node.in,
                edited |-> TRUE, name |-> node.name, modifier |-> edited.modifier,
                words |-> edited.words, comment |-> edited.comment]
  BY <1>1
<1>3. IsNode(edited) /\ ~Silent(edited) /\ edited.type = node.type
  BY <1>1, <1>2 DEF IsNode, Silent
<1> QED
  BY <1>3 DEF Fine

-----------------------------------------------------------------------------
(* refactor.sanitize-append-modifier: a modifier that is changed is one of *)
(* those that are marked.                                                  *)
LEMMA AppendSanitizedFine ==
  ASSUME NEW asread, NEW node, Fine(node, asread), node.type = "variable", NEW seen
  PROVE  Fine(AppendSanitizedIn(node, seen), asread)
<1> DEFINE new == AppendSanitizedIn(node, seen)
           marked == node.modifier = "+=" /\ node.name \notin FlagNames \ seen
<1>1. /\ node = [id |-> node.id, type |-> node.type, in |-> node.in,
                 edited |-> node.edited, name |-> node.name, modifier |-> node.modifier,
                 words |-> node.words, comment |-> node.comment]
      /\ node.edited \in BOOLEAN
  BY DEF Fine, IsNode
<1>2. new = [node EXCEPT !.modifier = IF AppendIsFirst(node, seen) THEN "=" ELSE @,
                         !.edited = @ \/ marked]
  BY DEF AppendSanitizedIn
<1>3. AppendIsFirst(node, seen) => marked
  BY DEF AppendIsFirst
<1> HIDE DEF new, marked
<1>4. new = [id |-> node.id, type |-> node.type, in |-> node.in,
             edited |-> node.edited \/ marked, name |-> node.name,
             modifier |-> IF AppendIsFirst(node, seen) THEN "=" ELSE node.modifier,
             words |-> node.words, comment |-> node.comment]
  BY <1>1, <1>2
<1>5. IsNode(new)
  BY <1>1, <1>4 DEF IsNode
<1>6. ASSUME Silent(new)
      PROVE  new \in asread
  <2>1. ~node.edited /\ ~marked /\ ~AppendIsFirst(node, seen)
    BY <1>3, <1>4, <1>6 DEF Silent
  <2>2. (node.edited \/ marked) = node.edited
    BY <1>1, <2>1
  <2>3. new = node
    BY <1>1, <1>4, <2>1, <2>2
  <2> QED
    BY <1>6, <2>3 DEF Fine
<1>7. Fine(new, asread)
  BY <1>5, <1>6 DEF Fine
<1> QED
  BY <1>7 DEF new

Appending == INSTANCE FoldInduction WITH op <- TakeAppend, Holds <- KeptInTree

LEMMA TakeAppendKeeps ==
  ASSUME NEW asread, NEW done, Kept(done.tree, asread), NEW node, Fine(node, asread)
  PROVE  Kept(TakeAppend(done, node).tree, asread)
<1>1. CASE node.type = "variable"
  <2>1. TakeAppend(done, node).tree = Append(done.tree, AppendSanitizedIn(node, done.seen))
    BY <1>1 DEF TakeAppend
  <2>2. Fine(AppendSanitizedIn(node, done.seen), asread)
    BY <1>1, AppendSanitizedFine
  <2> QED
    BY <2>1, <2>2, KeptAppend
<1>2. CASE node.type # "variable"
  <2>1. TakeAppend(done, node).tree = Append(done.tree, node)
    BY <1>2 DEF TakeAppend
  <2> QED
    BY <2>1, KeptAppend
<1> QED
  BY <1>1, <1>2

LEMMA SanitizeAppendModifierKeeps ==
  ASSUME NEW asread, NEW nodes, Kept(nodes, asread)
  PROVE  Kept(SanitizeAppendModifier(nodes), asread)
<1> DEFINE base == [tree |-> <<>>, seen |-> {}]
           stop == StopsAt(nodes, IsBsdPortMk)
           first == SubSeq(nodes, 1, stop)
           rest == SubSeq(nodes, stop + 1, Len(nodes))
           all == FoldLeft(TakeAppend, base, first)
<1>1. SanitizeAppendModifier(nodes) = all.tree \o rest
  BY DEF SanitizeAppendModifier
<1>2. stop \in 0 .. Len(nodes)
  <2>1. Len(nodes) \in Nat
    BY KeptHas
  <2> QED
    BY <2>1, StopsAtBsdPortMk
<1> HIDE DEF stop
<1>3. Kept(first, asread) /\ Kept(rest, asread)
  BY <1>2, KeptParts
<1> HIDE DEF first, rest
<1>4. first \in Seq(ToSet(first)) /\ \A i \in DOMAIN first : Fine(first[i], asread)
  BY <1>3, KeptHas
<1>5. KeptInTree(base, 0, asread)
  BY KeptEmpty DEF KeptInTree
<1>6. \A i \in DOMAIN first : \A done :
        KeptInTree(done, i - 1, asread) => KeptInTree(TakeAppend(done, first[i]), i, asread)
  BY <1>4, TakeAppendKeeps DEF KeptInTree
<1> HIDE DEF base
<1>7. KeptInTree(Appending!Fold(base, first), Len(first), asread)
  BY <1>4, <1>5, <1>6, Appending!FoldHolds
<1>8. all = Appending!Fold(base, first)
  BY Zenon DEF all, Appending!Fold, Appending!Greatest,
     FoldLeft, MapThenFoldSet, Max
<1> HIDE DEF all
<1>9. Kept(all.tree, asread)
  BY <1>7, <1>8 DEF KeptInTree
<1> QED
  BY <1>1, <1>3, <1>9, KeptConcat

-----------------------------------------------------------------------------
(* refactor.dedup-tokens leaves unmarked nodes alone where they are        *)
(* printed as they were read.                                              *)
LEMMA DedupTokensKeeps ==
  ASSUME NEW asread, NEW nodes, Kept(nodes, asread)
  PROVE  Kept(DedupTokens(nodes, TRUE), asread)
<1> DEFINE dedups(node) == /\ node.type = "variable" /\ node.name \in DedupNames
                           /\ node.modifier # "!=" /\ (TRUE => node.edited)
           deduped(node) == [node EXCEPT !.words = Deduped(node),
                                         !.edited = @ \/ Deduped(node) # node.words]
           mapped == [i \in DOMAIN nodes |->
                        IF dedups(nodes[i]) THEN deduped(nodes[i]) ELSE nodes[i]]
<1>1. DedupTokens(nodes, TRUE) = mapped
  BY DEF DedupTokens, MapNodes
<1>2. ASSUME NEW i \in DOMAIN nodes
      PROVE  Fine(mapped[i], asread)
  <2>1. Fine(nodes[i], asread)
    BY KeptHas
  <2>2. CASE ~dedups(nodes[i])
    BY <2>1, <2>2
  <2>3. CASE dedups(nodes[i])
    <3> DEFINE new == deduped(nodes[i])
    <3>1. mapped[i] = new
      BY <2>3
    <3>2. /\ IsNode(nodes[i]) /\ nodes[i].edited = TRUE
          /\ nodes[i].type # "comment"
      BY <2>1, <2>3 DEF Fine, IsNode
    <3>3. new = [nodes[i] EXCEPT !.edited = TRUE, !.modifier = new.modifier,
                                 !.words = new.words, !.comment = new.comment,
                                 !.id = new.id]
      BY <3>2 DEF IsNode
    <3> HIDE DEF new
    <3>4. Fine(new, asread)
      BY <3>2, <3>3, EditedFine
    <3> QED
      BY <3>1, <3>4
  <2> QED
    BY <2>2, <2>3
<1>3. mapped = [i \in DOMAIN nodes |-> mapped[i]]
  OBVIOUS
<1> HIDE DEF mapped
<1> QED
  BY <1>1, <1>2, <1>3, KeptMap

-----------------------------------------------------------------------------
(* refactor.collapse-adjacent-variables                                    *)

(* As they are read nodes have their number for an id.                     *)
Numbered(nodes) == \A i \in DOMAIN nodes : nodes[i].id = i

Candidates(nodes) == {node \in ToSet(nodes) : IsCandidate(node)}

GroupsOf(done, n, candidates) ==
  done.group \in Seq(candidates) /\ done.groups \in Seq(Seq(candidates))

Grouping == INSTANCE FoldInduction WITH op <- TakeSibling, Holds <- GroupsOf

LEMMA SiblingsType ==
  ASSUME NEW nodes, nodes \in Seq(ToSet(nodes)), NEW path
  PROVE  Siblings(nodes, path) \in Seq(ToSet(nodes))
<1> DEFINE T == ToSet(nodes)
           sibling(i) == nodes[i].in = path
                           /\ nodes[i].type \notin Blocks \cup Includes \cup {"deleted"}
           lists == [i \in DOMAIN nodes |-> IF sibling(i) THEN <<nodes[i]>> ELSE <<>>]
<1>1. Siblings(nodes, path) = FlattenSeq(lists)
  BY DEF Siblings
<1>2. nodes \in Seq(T) /\ DOMAIN nodes = 1 .. Len(nodes) /\ Len(nodes) \in Nat
  OBVIOUS
<1> HIDE DEF T, sibling
<1>3. \A i \in 1 .. Len(nodes) : lists[i] \in Seq(T)
  BY <1>2
<1>4. lists \in [1 .. Len(nodes) -> Seq(T)]
  BY <1>2, <1>3
<1>5. lists \in Seq(Seq(T))
  BY <1>2, <1>4
<1>6. FlattenSeq(lists) \in Seq(T)
  BY <1>5, FlattenType
<1> QED
  BY <1>1, <1>6 DEF T

LEMMA TakeSiblingType ==
  ASSUME NEW S, NEW done, GroupsOf(done, 0, S), NEW node, IsCandidate(node) => node \in S
  PROVE  GroupsOf(TakeSibling(done, node), 0, S)
<1>1. done.group \in Seq(S) /\ done.groups \in Seq(Seq(S))
  BY DEF GroupsOf
<1>2. CASE IsCandidate(node) /\ (done.group = <<>> \/ done.group[1].name = node.name)
  <2>1. TakeSibling(done, node) = [groups |-> done.groups, group |-> Append(done.group, node)]
    BY <1>2 DEF TakeSibling
  <2>2. Append(done.group, node) \in Seq(S)
    BY <1>1, <1>2
  <2> QED
    BY <1>1, <2>1, <2>2 DEF GroupsOf
<1>3. CASE ~(IsCandidate(node) /\ (done.group = <<>> \/ done.group[1].name = node.name))
  <2>1. TakeSibling(done, node) = [groups |-> Append(done.groups, done.group), group |-> <<>>]
    BY <1>3 DEF TakeSibling
  <2>2. Append(done.groups, done.group) \in Seq(Seq(S)) /\ <<>> \in Seq(S)
    BY <1>1
  <2> QED
    BY <2>1, <2>2 DEF GroupsOf
<1> QED
  BY <1>2, <1>3

(* A group is of candidates, and more than one.                            *)
LEMMA GroupsType ==
  ASSUME NEW nodes, nodes \in Seq(ToSet(nodes)), NEW path,
         NEW group \in Groups(Siblings(nodes, path))
  PROVE  group \in Seq(Candidates(nodes)) /\ Len(group) > 1
<1> DEFINE S == Candidates(nodes)
           s == Siblings(nodes, path)
           base == [groups |-> <<>>, group |-> <<>>]
           all == FoldLeft(TakeSibling, base, s)
<1>1. s \in Seq(ToSet(nodes))
  BY SiblingsType
<1>2. \A n \in ToSet(nodes) : IsCandidate(n) => n \in S
  BY DEF Candidates
<1>3. Groups(s) = {g \in ToSet(Append(all.groups, all.group)) : Len(g) > 1}
  BY DEF Groups
<1> HIDE DEF s, S
<1>4. GroupsOf(base, 0, S)
  BY DEF GroupsOf
<1>5. ASSUME NEW i \in DOMAIN s, NEW done, GroupsOf(done, i - 1, S)
      PROVE  GroupsOf(TakeSibling(done, s[i]), i, S)
  <2>1. IsCandidate(s[i]) => s[i] \in S
    BY <1>1, <1>2
  <2>2. GroupsOf(done, 0, S)
    BY <1>5 DEF GroupsOf
  <2>3. GroupsOf(TakeSibling(done, s[i]), 0, S)
    BY <2>1, <2>2, TakeSiblingType
  <2> QED
    BY <2>3 DEF GroupsOf
<1> HIDE DEF base
<1>6. GroupsOf(Grouping!Fold(base, s), Len(s), S)
  BY <1>1, <1>4, <1>5, Grouping!FoldHolds
<1>7. all = Grouping!Fold(base, s)
  BY Zenon DEF all, Grouping!Fold, Grouping!Greatest,
     FoldLeft, MapThenFoldSet, Max
<1> HIDE DEF all
<1>8. all.group \in Seq(S) /\ all.groups \in Seq(Seq(S))
  BY <1>6, <1>7 DEF GroupsOf
<1>9. Append(all.groups, all.group) \in Seq(Seq(S))
  BY <1>8
<1>10. group \in ToSet(Append(all.groups, all.group)) /\ Len(group) > 1
  BY <1>3 DEF s
<1>11. group \in Seq(S)
  <2> DEFINE gs == Append(all.groups, all.group)
  <2>1. gs \in Seq(Seq(S)) /\ group \in ToSet(gs)
    BY <1>9, <1>10
  <2> HIDE DEF gs
  <2> QED
    BY <2>1 DEF ToSet
<1> QED
  BY <1>10, <1>11 DEF S

LEMMA CollapseKeeps ==
  ASSUME NEW asread, NEW nodes, Kept(nodes, asread), Numbered(nodes)
  PROVE  Kept(CollapseAdjacentVariables(nodes), asread)
<1> DEFINE groups == UNION {Groups(Siblings(nodes, nodes[i].in)) : i \in DOMAIN nodes}
           gone == UNION {{group[k].id : k \in 2 .. Len(group)} : group \in groups}
           first(node) == \E group \in groups : group[1].id = node.id
           groupOf(node) == CHOOSE group \in groups : group[1].id = node.id
           merged(node) ==
             IF first(node)
             THEN [node EXCEPT !.edited = TRUE,
                               !.words = FlattenSeq([k \in DOMAIN groupOf(node) |->
                                                       groupOf(node)[k].words])]
             ELSE node
           lists == [i \in DOMAIN nodes |->
                       IF nodes[i].id \in gone THEN <<>> ELSE <<merged(nodes[i])>>]
<1>1. CollapseAdjacentVariables(nodes) = FlattenSeq(lists)
  BY DEF CollapseAdjacentVariables
<1>2. nodes \in Seq(ToSet(nodes)) /\ \A i \in DOMAIN nodes : Fine(nodes[i], asread)
  BY KeptHas
<1>3. ASSUME NEW group \in groups
      PROVE  group[1] \in Candidates(nodes)
  <2>1. PICK i \in DOMAIN nodes : group \in Groups(Siblings(nodes, nodes[i].in))
    OBVIOUS
  <2>2. group \in Seq(Candidates(nodes)) /\ Len(group) > 1
    BY <1>2, <2>1, GroupsType
  <2> QED
    BY <2>2
<1> HIDE DEF groups, gone
<1>4. ASSUME NEW i \in DOMAIN nodes, first(nodes[i])
      PROVE  nodes[i].type = "variable"
  <2>1. PICK group \in groups : group[1].id = nodes[i].id
    BY <1>4
  <2>2. PICK j \in DOMAIN nodes : group[1] = nodes[j] /\ IsCandidate(nodes[j])
    BY <1>3 DEF Candidates, ToSet
  <2>3. i = j
    BY <2>1, <2>2 DEF Numbered
  <2> QED
    BY <2>2, <2>3 DEF IsCandidate
<1> HIDE DEF first, groupOf
<1>5. ASSUME NEW i \in DOMAIN nodes
      PROVE  Fine(merged(nodes[i]), asread)
  <2>1. CASE ~first(nodes[i])
    BY <1>2, <2>1
  <2>2. CASE first(nodes[i])
    <3> DEFINE new == merged(nodes[i])
               words == FlattenSeq([k \in DOMAIN groupOf(nodes[i]) |->
                                      groupOf(nodes[i])[k].words])
    <3>1. new = [nodes[i] EXCEPT !.edited = TRUE, !.words = words]
      BY <2>2
    <3>2. IsNode(nodes[i]) /\ nodes[i].type = "variable"
      BY <1>2, <1>4, <2>2 DEF Fine
    <3> HIDE DEF words, new
    <3>3. new = [nodes[i] EXCEPT !.edited = TRUE, !.modifier = new.modifier,
                                 !.words = new.words, !.comment = new.comment,
                                 !.id = new.id]
      BY <3>1, <3>2 DEF IsNode
    <3>4. Fine(new, asread)
      BY <3>2, <3>3, EditedFine
    <3> QED
      BY <3>4 DEF new
  <2> QED
    BY <2>1, <2>2
<1> HIDE DEF merged
<1>6. ASSUME NEW i \in DOMAIN nodes
      PROVE  Kept(lists[i], asread)
  <2>1. CASE nodes[i].id \in gone
    <3>1. lists[i] = <<>>
      BY <2>1
    <3> HIDE DEF lists
    <3> QED
      BY <3>1, KeptEmpty
  <2>2. CASE nodes[i].id \notin gone
    <3>1. lists[i] = Append(<<>>, merged(nodes[i]))
      BY <2>2
    <3> HIDE DEF lists
    <3> QED
      BY <1>5, <3>1, KeptEmpty, KeptAppend
  <2> QED
    BY <2>1, <2>2
<1>7. lists = [i \in DOMAIN nodes |-> lists[i]]
  OBVIOUS
<1> HIDE DEF lists
<1> QED
  BY <1>1, <1>6, <1>7, KeptFlatten

-----------------------------------------------------------------------------
(* refactor.sanitize-eol-comments                                          *)
LEMMA CommentNodeIs ==
  ASSUME NEW id, NEW path, NEW lines \in Seq(CommentLines)
  PROVE  /\ IsNode(CommentNode(id, path, lines))
         /\ CommentNode(id, path, lines).words = lines
         /\ CommentNode(id, path, lines).id = id
<1> DEFINE node == CommentNode(id, path, lines)
           leaf == Leaf(id, "comment", path)
<1>1. node = [id |-> id, type |-> "comment", in |-> path, edited |-> FALSE,
              name |-> "", modifier |-> "=", words |-> lines, comment |-> "none"]
  <2>1. leaf = [id |-> id, type |-> "comment", in |-> path, edited |-> FALSE,
                name |-> "", modifier |-> "=", words |-> <<>>, comment |-> "none"]
    BY DEF Leaf
  <2>2. node = [leaf EXCEPT !.words = lines]
    BY DEF CommentNode
  <2> HIDE DEF leaf, node
  <2> QED
    BY <2>1, <2>2
<1> HIDE DEF node
<1>2. IsNode(node) /\ node.words = lines /\ node.id = id
  BY <1>1 DEF IsNode
<1> QED
  BY <1>2 DEF node

LEMMA TwoAppended ==
  ASSUME NEW a, NEW b
  PROVE  <<a, b>> = Append(Append(<<>>, a), b)
  OBVIOUS

LEMMA SanitizeEolCommentsKeeps ==
  ASSUME NEW asread, NEW nodes, Kept(nodes, asread)
  PROVE  Kept(SanitizeEolComments(nodes), asread)
<1> DEFINE above(node) ==
             [CommentNode(FreshId(nodes) + node.id, node.in, <<"text">>) EXCEPT !.edited = TRUE]
           below(node) == [node EXCEPT !.comment = "none", !.edited = TRUE]
           lists == [i \in DOMAIN nodes |->
                       IF nodes[i].type = "variable" /\ nodes[i].comment = "text"
                       THEN <<above(nodes[i]), below(nodes[i])>> ELSE <<nodes[i]>>]
<1>1. SanitizeEolComments(nodes) = FlattenSeq(lists)
  BY DEF SanitizeEolComments
<1>2. ASSUME NEW i \in DOMAIN nodes
      PROVE  Kept(lists[i], asread)
  <2> DEFINE node == nodes[i]
  <2>1. Fine(node, asread)
    BY KeptHas
  <2>2. CASE ~(node.type = "variable" /\ node.comment = "text")
    <3>1. lists[i] = Append(<<>>, node)
      BY <2>2
    <3> HIDE DEF lists, node
    <3> QED
      BY <2>1, <3>1, KeptEmpty, KeptAppend
  <2>3. CASE node.type = "variable" /\ node.comment = "text"
    <3> DEFINE a == above(node)
               b == below(node)
               text == <<"text">>
               blank == CommentNode(FreshId(nodes) + node.id, node.in, text)
    <3>1. lists[i] = Append(Append(<<>>, a), b)
      <4>1. lists[i] = <<a, b>>
        BY <2>3
      <4> HIDE DEF a, b, lists
      <4> QED
        BY <4>1, TwoAppended
    <3>2. text \in Seq(CommentLines)
      BY DEF CommentLines
    <3> HIDE DEF text, node, lists
    <3>3. IsNode(blank) /\ blank.words = text
      <4> DEFINE id == FreshId(nodes) + node.id
                 path == node.in
      <4>1. blank = CommentNode(id, path, text)
        OBVIOUS
      <4> HIDE DEF id, path
      <4>2. /\ IsNode(CommentNode(id, path, text)) /\ CommentNode(id, path, text).words = text
            /\ CommentNode(id, path, text).id = id
        BY <3>2, CommentNodeIs
      <4> HIDE DEF blank
      <4> QED
        BY <4>1, <4>2
    <3> USE DEF text
    <3>4. a = [blank EXCEPT !.edited = TRUE]
      OBVIOUS
    <3> HIDE DEF blank, a
    <3>5. a = [blank EXCEPT !.edited = TRUE, !.modifier = a.modifier, !.words = a.words,
                            !.comment = a.comment, !.id = a.id] /\ a.words = <<"text">>
      BY <3>3, <3>4 DEF IsNode
    <3>6. Fine(a, asread)
      BY <3>2, <3>3, <3>5, EditedFine
    <3>7. IsNode(node) /\ node.type = "variable" /\ b = [node EXCEPT !.comment = "none", !.edited = TRUE]
      BY <2>1, <2>3 DEF Fine
    <3> HIDE DEF b, node, lists
    <3>8. b = [node EXCEPT !.edited = TRUE, !.modifier = b.modifier, !.words = b.words,
                           !.comment = b.comment, !.id = b.id]
      BY <3>7 DEF IsNode
    <3>9. Fine(b, asread)
      BY <3>7, <3>8, EditedFine
    <3> QED
      BY <3>1, <3>6, <3>9, KeptEmpty, KeptAppend
  <2> QED
    BY <2>2, <2>3
<1>3. lists = [i \in DOMAIN nodes |-> lists[i]]
  OBVIOUS
<1> HIDE DEF lists
<1> QED
  BY <1>1, <1>2, <1>3, KeptFlatten

-----------------------------------------------------------------------------
(* edit_merge()                                                            *)
LEMMA DeleteVariableKeeps ==
  ASSUME NEW asread, NEW nodes, Kept(nodes, asread), NEW name
  PROVE  Kept(DeleteVariable(nodes, name), asread)
<1> DEFINE stop == StopsAt(nodes, IsBsdPortMk)
           first == SubSeq(nodes, 1, stop)
           rest == SubSeq(nodes, stop + 1, Len(nodes))
           mapped == [i \in DOMAIN first |->
                        IF IsVariable(first[i], name) THEN [first[i] EXCEPT !.type = "deleted"]
                        ELSE first[i]]
<1>1. DeleteVariable(nodes, name) = mapped \o rest
  BY DEF DeleteVariable, MapNodes
<1>2. stop \in 0 .. Len(nodes)
  <2>1. Len(nodes) \in Nat
    BY KeptHas
  <2> QED
    BY <2>1, StopsAtBsdPortMk
<1> HIDE DEF stop
<1>3. Kept(first, asread) /\ Kept(rest, asread)
  BY <1>2, KeptParts
<1> HIDE DEF first, rest
<1>4. ASSUME NEW i \in DOMAIN first
      PROVE  Fine(mapped[i], asread)
  <2>1. Fine(first[i], asread)
    BY <1>3, KeptHas
  <2>2. Fine([first[i] EXCEPT !.type = "deleted"], asread)
    BY <2>1, DeletedFine
  <2> QED
    BY <2>1, <2>2
<1>5. mapped = [i \in DOMAIN first |-> mapped[i]]
  OBVIOUS
<1> HIDE DEF mapped
<1>6. Kept(mapped, asread)
  BY <1>3, <1>4, <1>5, KeptMap
<1> QED
  BY <1>1, <1>3, <1>6, KeptConcat

LEMMA InsertBeforeKeeps ==
  ASSUME NEW asread, NEW nodes, Kept(nodes, asread), NEW new, Kept(new, asread),
         NEW i \in 1 .. Len(nodes) + 1
  PROVE  /\ Kept(InsertBefore(nodes, i, new), asread)
         /\ Len(InsertBefore(nodes, i, new)) = Len(nodes) + Len(new)
<1> DEFINE first == SubSeq(nodes, 1, i - 1)
           rest == SubSeq(nodes, i, Len(nodes))
<1>1. Len(nodes) \in Nat /\ nodes \in Seq(ToSet(nodes)) /\ new \in Seq(ToSet(new))
  BY KeptHas
<1>2. i - 1 \in 0 .. Len(nodes) /\ (i - 1) + 1 = i
  BY <1>1
<1>3. Kept(first, asread) /\ Kept(rest, asread)
  BY <1>2, KeptParts
<1>4. InsertBefore(nodes, i, new) = first \o new \o rest
  BY DEF InsertBefore
<1>5. Len(first) = i - 1 /\ Len(rest) = Len(nodes) - i + 1 /\ Len(new) \in Nat
  BY <1>1
<1>6. first \in Seq(ToSet(first)) /\ rest \in Seq(ToSet(rest))
  BY <1>3, KeptHas
<1> HIDE DEF first, rest
<1>7. Kept(first \o new, asread)
  BY <1>3, KeptConcat
<1>8. Kept((first \o new) \o rest, asread)
  BY <1>3, <1>7, KeptConcat
<1>9. Len((first \o new) \o rest) = Len(nodes) + Len(new)
  <2> DEFINE T == ToSet(first) \cup ToSet(new) \cup ToSet(rest)
  <2>1. first \in Seq(T) /\ new \in Seq(T) /\ rest \in Seq(T)
    BY <1>1, <1>6
  <2> HIDE DEF T
  <2>2. Len((first \o new) \o rest) = Len(first) + Len(new) + Len(rest)
    BY <2>1
  <2> QED
    BY <1>1, <1>5, <2>2
<1> QED
  BY <1>4, <1>8, <1>9

(* The places where something is inserted are in the tree.                 *)
LEMMA LastOfSome ==
  ASSUME NEW n \in Nat, NEW S \in SUBSET (1 .. n)
  PROVE  Last1(S) \in 0 .. n
<1>1. {0} \cup S \in SUBSET (0 .. n) /\ {0} \cup S # {}
  OBVIOUS
<1>2. Max({0} \cup S) \in {0} \cup S
  BY <1>1, MaxIs
<1> QED
  BY <1>1, <1>2 DEF Last1

LEMMA InsertPoints ==
  ASSUME NEW nodes, NEW T, nodes \in Seq(T), NEW name
  PROVE  /\ InsertPointSameBlock(nodes, name) \in 0 .. Len(nodes)
         /\ InsertPointGeneric(nodes, name) \in 0 .. Len(nodes)
<1>1. Len(nodes) \in Nat /\ TopVariables(nodes) \in SUBSET (1 .. Len(nodes))
  BY DEF TopVariables
<1>2. InsertPointSameBlock(nodes, name) \in 0 .. Len(nodes)
  <2> DEFINE stop == StopsAt(nodes, LAMBDA n : IsBsdPortMk(n) /\ n.in = <<>>)
             S == {i \in TopVariables(nodes) :
                     /\ i <= stop
                     /\ Block[nodes[i].name] = Block[name]
                     /\ Rank[nodes[i].name] <= Rank[name]}
  <2>1. InsertPointSameBlock(nodes, name) = Last1(S)
    BY Zenon DEF InsertPointSameBlock
  <2>2. S \in SUBSET (1 .. Len(nodes))
    BY <1>1
  <2> HIDE DEF S
  <2> QED
    BY <1>1, <2>1, <2>2, LastOfSome
<1>3. InsertPointGeneric(nodes, name) \in 0 .. Len(nodes)
  <2> DEFINE before == {i \in TopVariables(nodes) : Rank[nodes[i].name] < Rank[name]}
             ends == {e \in DOMAIN nodes : /\ IsBsdPortMk(nodes[e]) /\ nodes[e].in = <<>>
                                           /\ \E i \in before : i < e}
             S == {i \in before : \A e \in ends : i < e}
  <2>1. InsertPointGeneric(nodes, name) = Last1(S)
    BY Zenon DEF InsertPointGeneric
  <2>2. S \in SUBSET (1 .. Len(nodes))
    BY <1>1
  <2> HIDE DEF S
  <2> QED
    BY <1>1, <2>1, <2>2, LastOfSome
<1> QED
  BY <1>2, <1>3

LEMMA EmptyLineFine ==
  ASSUME NEW asread, NEW id
  PROVE  Fine(EmptyLine(id), asread)
<1> DEFINE lines == <<"blank">>
           path == <<>>
           blank == CommentNode(id, path, lines)
           line == EmptyLine(id)
<1>1. lines \in Seq(CommentLines)
  BY DEF CommentLines
<1> HIDE DEF lines, path
<1>2. IsNode(blank) /\ blank.words = lines /\ blank.id = id
  BY <1>1, CommentNodeIs
<1> USE DEF lines, path
<1>3. line = [blank EXCEPT !.edited = TRUE]
  BY DEF EmptyLine
<1> HIDE DEF blank, line
<1>4. /\ line = [blank EXCEPT !.edited = TRUE, !.modifier = line.modifier,
                              !.words = line.words, !.comment = line.comment, !.id = line.id]
      /\ line.words = <<"blank">>
  BY <1>2, <1>3 DEF IsNode
<1>5. Fine(line, asread)
  BY <1>1, <1>2, <1>4, EditedFine
<1> QED
  BY <1>5 DEF line

LEMMA KeptOne ==
  ASSUME NEW asread, NEW node, Fine(node, asread)
  PROVE  Kept(<<node>>, asread) /\ Len(<<node>>) = 1
<1>1. <<node>> = Append(<<>>, node)
  OBVIOUS
<1>2. Kept(<<node>>, asread)
  BY <1>1, KeptEmpty, KeptAppend
<1> QED
  BY <1>2

LEMMA KeptTwo ==
  ASSUME NEW asread, NEW a, NEW b, Fine(a, asread), Fine(b, asread)
  PROVE  Kept(<<a, b>>, asread)
<1>1. Kept(Append(<<>>, a), asread)
  BY KeptEmpty, KeptAppend
<1>2. Kept(Append(Append(<<>>, a), b), asread)
  BY <1>1, KeptAppend
<1> QED
  BY <1>2, TwoAppended

LEMMA PrependVariableKeeps ==
  ASSUME NEW asread, NEW nodes, Kept(nodes, asread), NEW node, Fine(node, asread)
  PROVE  Kept(PrependVariable(nodes, node), asread)
<1> DEFINE rest == {i \in DOMAIN nodes :
                      nodes[i].in = <<>> /\ \E k \in 1 .. i : nodes[k].type # "comment"}
           ends == {i \in rest :
                      \/ nodes[i].type \notin {"variable", "deleted"}
                      \/ /\ nodes[i].type = "variable"
                         /\ EmptyLineBeforeBlock(Block[nodes[i].name], Block[node.name])}
           line == EmptyLine(node.id + 1)
           spaced == IF ends = {} THEN nodes ELSE InsertBefore(nodes, Min(ends), <<line>>)
<1>1. PrependVariable(nodes, node) = IF rest = {} THEN Append(nodes, node)
                                     ELSE InsertBefore(spaced, Min(rest), <<node>>)
  BY Zenon DEF PrependVariable
<1>2. nodes \in Seq(ToSet(nodes)) /\ Len(nodes) \in Nat /\ DOMAIN nodes = 1 .. Len(nodes)
  BY KeptHas
<1>3. rest \in SUBSET (1 .. Len(nodes)) /\ ends \in SUBSET (1 .. Len(nodes))
  BY <1>2
<1>4. Fine(line, asread)
  BY EmptyLineFine
<1> HIDE DEF rest, ends, line
<1>5. CASE rest = {}
  BY <1>1, <1>5, KeptAppend
<1>6. CASE rest # {}
  <2>1. Min(rest) \in 1 .. Len(nodes)
    <3>1. rest \in SUBSET Nat
      BY <1>3
    <3>2. Min(rest) \in rest
      BY <1>6, <3>1, MinIs
    <3> QED
      BY <1>3, <3>2
  <2>2. Kept(spaced, asread) /\ Len(spaced) \in {Len(nodes), Len(nodes) + 1}
    <3>1. CASE ends = {}
      BY <3>1
    <3>2. CASE ends # {}
      <4>1. ends \in SUBSET Nat
        BY <1>3
      <4>2. Min(ends) \in ends
        BY <3>2, <4>1, MinIs
      <4>3. Min(ends) \in 1 .. Len(nodes) + 1
        <5>1. Min(ends) \in 1 .. Len(nodes)
          BY <1>3, <4>2
        <5> QED
          BY <1>2, <5>1
      <4>4. Kept(<<line>>, asread) /\ Len(<<line>>) = 1
        BY <1>4, KeptOne
      <4> DEFINE lines == <<line>>
      <4>5. spaced = InsertBefore(nodes, Min(ends), lines)
        BY <3>2
      <4> HIDE DEF lines, spaced
      <4>6. /\ Kept(InsertBefore(nodes, Min(ends), lines), asread)
            /\ Len(InsertBefore(nodes, Min(ends), lines)) = Len(nodes) + Len(lines)
        BY <4>3, <4>4, InsertBeforeKeeps DEF lines
      <4> QED
        BY <4>4, <4>5, <4>6 DEF lines
    <3> QED
      BY <3>1, <3>2
  <2>3. Min(rest) \in 1 .. Len(spaced) + 1
    BY <1>2, <2>1, <2>2
  <2>4. Kept(<<node>>, asread)
    BY KeptOne
  <2> DEFINE new == <<node>>
  <2>5. PrependVariable(nodes, node) = InsertBefore(spaced, Min(rest), new)
    BY <1>1, <1>6
  <2> HIDE DEF spaced, new
  <2> QED
    BY <2>2, <2>3, <2>4, <2>5, InsertBeforeKeeps DEF new
<1> QED
  BY <1>5, <1>6

(* What is inserted is marked.                                             *)
LEMMA InsertVariableKeeps ==
  ASSUME NEW asread, NEW nodes, Kept(nodes, asread), NEW template, IsNode(template),
         template.type = "variable"
  PROVE  Kept(InsertVariable(nodes, template), asread)
<1> DEFINE node == [template EXCEPT !.id = FreshId(nodes), !.edited = TRUE]
           same == InsertPointSameBlock(nodes, node.name)
           generic == InsertPointGeneric(nodes, node.name)
           line == EmptyLine(node.id + 1)
           new == IF EmptyLineBeforeBlock(Block[nodes[generic].name], Block[node.name])
                  THEN <<line, node>> ELSE <<node>>
<1>1. InsertVariable(nodes, template) =
        CASE same # 0 -> InsertBefore(nodes, same + 1, <<node>>)
          [] same = 0 /\ generic # 0 -> InsertBefore(nodes, generic + 1, new)
          [] same = 0 /\ generic = 0 -> PrependVariable(nodes, node)
  BY Zenon DEF InsertVariable
<1>2. Fine(node, asread)
  <2>1. node = [template EXCEPT !.edited = TRUE, !.modifier = node.modifier,
                                !.words = node.words, !.comment = node.comment,
                                !.id = node.id]
    BY DEF IsNode
  <2> HIDE DEF node
  <2> QED
    BY <2>1, EditedFine
<1>3. Fine(line, asread)
  BY EmptyLineFine
<1> HIDE DEF node, line
<1>4. nodes \in Seq(ToSet(nodes)) /\ Len(nodes) \in Nat
  BY KeptHas
<1>5. same \in 0 .. Len(nodes) /\ generic \in 0 .. Len(nodes)
  BY <1>4, InsertPoints
<1>6. Kept(<<node>>, asread) /\ Kept(<<line, node>>, asread)
  BY <1>2, <1>3, KeptOne, KeptTwo
<1>7. Kept(new, asread)
  BY <1>6
<1> HIDE DEF new, same, generic
<1>8. CASE same # 0
  <2> DEFINE one == <<node>>
  <2>1. InsertVariable(nodes, template) = InsertBefore(nodes, same + 1, one)
    BY <1>1, <1>8
  <2>2. same + 1 \in 1 .. Len(nodes) + 1 /\ Kept(one, asread)
    BY <1>4, <1>5, <1>6
  <2> HIDE DEF one
  <2> QED
    BY <2>1, <2>2, InsertBeforeKeeps
<1>9. CASE same = 0 /\ generic # 0
  <2>1. InsertVariable(nodes, template) = InsertBefore(nodes, generic + 1, new)
    BY <1>1, <1>9
  <2>2. generic + 1 \in 1 .. Len(nodes) + 1
    BY <1>4, <1>5
  <2> QED
    BY <1>7, <2>1, <2>2, InsertBeforeKeeps
<1>10. CASE same = 0 /\ generic = 0
  <2>1. InsertVariable(nodes, template) = PrependVariable(nodes, node)
    BY <1>1, <1>10
  <2> QED
    BY <1>2, <2>1, PrependVariableKeeps
<1> QED
  BY <1>8, <1>9, <1>10

LEMMA FoundVariable ==
  ASSUME NEW T, NEW nodes \in Seq(T), NEW name, FindVariable(nodes, name) # 0
  PROVE  /\ FindVariable(nodes, name) \in 1 .. Len(nodes)
         /\ IsVariable(nodes[FindVariable(nodes, name)], name)
<1> DEFINE stop == StopsAt(nodes, IsInBlock)
           first == SubSeq(nodes, 1, stop)
           found == {i \in 1 .. Len(first) : IsVariable(first[i], name)}
           at == IF found # {} THEN Min(found) ELSE 0
<1>1. Len(nodes) \in Nat
  OBVIOUS
<1>2. stop \in 0 .. Len(nodes)
  BY <1>1, StopsAtBlock
<1> HIDE DEF stop
<1>3. Len(first) = stop /\ \A i \in 1 .. stop : first[i] = nodes[i]
  BY <1>1, <1>2
<1> HIDE DEF first
<1>4. FindVariable(nodes, name) = at
  BY Zenon DEF FindVariable, SelectInSeq, first, stop
<1>5. at \in {0} \cup found
  <2>1. found \in SUBSET (1 .. Len(first)) /\ Len(first) \in Nat
    BY <1>2, <1>3
  <2> HIDE DEF found
  <2> QED
    BY <2>1, SelectedInSeq
<1> HIDE DEF at
<1>6. FindVariable(nodes, name) \in found
  BY <1>4, <1>5
<1> QED
  BY <1>2, <1>3, <1>6

LEMMA MergeVariableKeeps ==
  ASSUME NEW asread, NEW nodes, Kept(nodes, asread), NEW node, IsNode(node),
         node.type = "variable"
  PROVE  Kept(MergeVariable(nodes, node), asread)
<1> DEFINE found == FindVariable(nodes, node.name)
           merged == MergedInto(node, nodes[found])
<1>1. MergeVariable(nodes, node) =
        CASE node.modifier = "!=" -> DeleteVariable(nodes, node.name)
          [] node.modifier # "!=" /\ found # 0 /\ MayAppendTo(node, nodes[found]) ->
               [nodes EXCEPT ![found] = merged]
          [] OTHER -> InsertVariable(nodes, node)
  BY Zenon DEF MergeVariable
<1>2. nodes \in Seq(ToSet(nodes)) /\ \A i \in DOMAIN nodes : Fine(nodes[i], asread)
  BY KeptHas
<1>3. ASSUME found # 0
      PROVE  Kept([nodes EXCEPT ![found] = merged], asread)
  <2> DEFINE new == [nodes EXCEPT ![found] = merged]
  <2>1. found \in DOMAIN nodes /\ nodes[found].type = "variable"
    <3>1. found \in 1 .. Len(nodes) /\ IsVariable(nodes[found], node.name)
      BY <1>2, <1>3, FoundVariable
    <3> HIDE DEF found
    <3> QED
      BY <1>2, <3>1 DEF IsVariable
  <2> HIDE DEF found
  <2>2. IsNode(nodes[found])
    BY <1>2, <2>1 DEF Fine
  <2>3. merged = [nodes[found] EXCEPT !.edited = TRUE, !.modifier = merged.modifier,
                                      !.words = merged.words, !.comment = merged.comment,
                                      !.id = merged.id]
    BY <2>2 DEF MergedInto, IsNode
  <2> HIDE DEF merged
  <2>4. Fine(merged, asread)
    BY <2>1, <2>2, <2>3, EditedFine
  <2>5. \A i \in DOMAIN nodes : Fine(new[i], asread)
    BY <1>2, <2>4
  <2>6. new = [i \in DOMAIN nodes |-> new[i]]
    OBVIOUS
  <2> HIDE DEF new
  <2>7. Kept(new, asread)
    BY <2>5, <2>6, KeptMap
  <2> QED
    BY <2>7 DEF new
<1>4. Kept(DeleteVariable(nodes, node.name), asread)
  BY DeleteVariableKeeps
<1>5. Kept(InsertVariable(nodes, node), asread)
  BY InsertVariableKeeps
<1> HIDE DEF found, merged
<1> QED
  BY <1>1, <1>3, <1>4, <1>5

MergingInto == INSTANCE FoldInduction WITH op <- MergeNode, Holds <- KeptBy

LEMMA MergeKeeps ==
  ASSUME NEW asread, NEW nodes, Kept(nodes, asread), NEW script, IsTree(script)
  PROVE  Kept(Merge(nodes, script), asread)
<1> DEFINE stop == StopsAt(script, IsInBlock)
           first == SubSeq(script, 1, stop)
           T == ToSet(script)
<1>1. script \in Seq(T) /\ \A node \in T : IsNode(node)
  BY DEF IsTree
<1> HIDE DEF T
<1>2. stop \in 0 .. Len(script)
  <2>1. Len(script) \in Nat
    BY <1>1
  <2> QED
    BY <2>1, StopsAtBlock
<1> HIDE DEF stop
<1>3. first \in Seq(T)
  BY <1>1, <1>2
<1>4. Merge(nodes, script) = MergingInto!Fold(nodes, first)
  BY Zenon DEF Merge, first, stop, MergingInto!Fold, MergingInto!Greatest,
     FoldLeft, MapThenFoldSet, Max
<1> HIDE DEF first
<1>5. KeptBy(nodes, 0, asread)
  BY DEF KeptBy
<1>6. ASSUME NEW i \in DOMAIN first, NEW done, KeptBy(done, i - 1, asread)
      PROVE  KeptBy(MergeNode(done, first[i]), i, asread)
  <2>1. IsNode(first[i]) /\ Kept(done, asread)
    BY <1>1, <1>3, <1>6 DEF KeptBy
  <2>2. CASE first[i].type = "variable"
    <3>1. MergeNode(done, first[i]) = MergeVariable(done, first[i])
      BY <2>2 DEF MergeNode
    <3>2. Kept(MergeVariable(done, first[i]), asread)
      BY <2>1, <2>2, MergeVariableKeeps
    <3> QED
      BY <3>1, <3>2 DEF KeptBy
  <2>3. CASE first[i].type # "variable"
    <3>1. MergeNode(done, first[i]) = done
      BY <2>3 DEF MergeNode
    <3> QED
      BY <2>1, <3>1 DEF KeptBy
  <2> QED
    BY <2>2, <2>3
<1>7. KeptBy(MergingInto!Fold(nodes, first), Len(first), asread)
  BY <1>3, <1>5, <1>6, MergingInto!FoldHolds
<1> QED
  BY <1>4, <1>7 DEF KeptBy

LEMMA ParserMergeKeeps ==
  ASSUME NEW asread, NEW nodes, Kept(nodes, asread), NEW script, IsTree(script),
         EditedOnly
  PROVE  Kept(ParserMerge(nodes, script), asread)
<1>1. EditedOnly = TRUE
  BY DEF EditedOnly
<1>2. Kept(Balance(Merge(nodes, script)), asread)
  BY MergeKeeps, BalanceKeeps
<1>3. Kept(Balance(DedupTokens(Balance(Merge(nodes, script)), TRUE)), asread)
  BY <1>2, DedupTokensKeeps, BalanceKeeps
<1>4. ParserMerge(nodes, script) =
        RemoveConsecutiveEmptyLines(Balance(DedupTokens(Balance(Merge(nodes, script)), TRUE)))
  BY <1>1 DEF ParserMerge
<1> QED
  BY <1>3, <1>4, RemoveConsecutiveEmptyLinesKeeps

-----------------------------------------------------------------------------
(* The scripts of bump-revision, bump-epoch and set-version are trees.     *)
LEMMA TreeIs ==
  ASSUME NEW T, NEW nodes \in Seq(T), \A node \in T : IsNode(node)
  PROVE  IsTree(nodes)
<1>1. \A node \in ToSet(nodes) : node \in T
  BY DEF ToSet
<1>2. nodes \in Seq(ToSet(nodes))
  BY DEF ToSet
<1> QED
  BY <1>1, <1>2 DEF IsTree

LEMMA KeptIsTree ==
  ASSUME NEW asread, NEW nodes, Kept(nodes, asread)
  PROVE  IsTree(nodes)
  BY DEF Kept, IsTree, Fine

LEMMA TreeIsKept ==
  ASSUME NEW nodes, IsTree(nodes)
  PROVE  Kept(nodes, ToSet(nodes))
  BY DEF Kept, IsTree, Fine

LEMMA TreeConcat ==
  ASSUME NEW before, NEW after, IsTree(before), IsTree(after)
  PROVE  IsTree(before \o after)
<1> DEFINE T == ToSet(before) \cup ToSet(after)
<1>1. /\ before \in Seq(ToSet(before)) /\ after \in Seq(ToSet(after))
      /\ \A node \in T : IsNode(node)
  BY DEF IsTree
<1>2. ToSet(before) \subseteq T /\ ToSet(after) \subseteq T
  OBVIOUS
<1> HIDE DEF T
<1>3. before \in Seq(T) /\ after \in Seq(T)
  BY <1>1, <1>2
<1>4. before \o after \in Seq(T)
  BY <1>3
<1> QED
  BY <1>1, <1>4, TreeIs

LEMMA TreeAppend ==
  ASSUME NEW nodes, IsTree(nodes), NEW node, IsNode(node)
  PROVE  IsTree(Append(nodes, node))
<1> DEFINE T == ToSet(nodes) \cup {node}
<1>1. nodes \in Seq(ToSet(nodes)) /\ \A n \in T : IsNode(n)
  BY DEF IsTree
<1>2. ToSet(nodes) \subseteq T /\ node \in T
  OBVIOUS
<1> HIDE DEF T
<1>3. nodes \in Seq(T)
  BY <1>1, <1>2
<1>4. Append(nodes, node) \in Seq(T)
  BY <1>2, <1>3
<1> QED
  BY <1>1, <1>4, TreeIs

LEMMA TreeEmpty == IsTree(<<>>)
<1>1. Kept(<<>>, {})
  BY KeptEmpty
<1> QED
  BY <1>1, KeptIsTree

LEMMA TreeOne ==
  ASSUME NEW node, IsNode(node)
  PROVE  IsTree(<<node>>)
<1>1. <<node>> = Append(<<>>, node)
  OBVIOUS
<1> QED
  BY <1>1, TreeEmpty, TreeAppend

LEMMA TreeTwo ==
  ASSUME NEW a, NEW b, IsNode(a), IsNode(b)
  PROVE  IsTree(<<a, b>>)
<1>1. IsTree(Append(<<>>, a))
  BY TreeEmpty, TreeAppend
<1>2. IsTree(Append(Append(<<>>, a), b))
  BY <1>1, TreeAppend
<1> QED
  BY <1>2, TwoAppended

LEMMA LineIsNode ==
  ASSUME NEW name, NEW modifier, NEW text, NEW comment
  PROVE  IsNode(Line(name, modifier, text, comment))
<1> DEFINE node == Line(name, modifier, text, comment)
<1>1. node = [id |-> 1, type |-> "variable", in |-> <<>>, edited |-> FALSE, name |-> name,
              modifier |-> modifier, words |-> <<text>>, comment |-> comment]
  BY DEF Line, VariableNode
<1> HIDE DEF node
<1>2. IsNode(node)
  BY <1>1 DEF IsNode
<1> QED
  BY <1>2 DEF node

LEMMA DeleteIsNode ==
  ASSUME NEW name
  PROVE  IsNode(Delete(name))
<1> DEFINE node == Delete(name)
<1>1. node = [id |-> 1, type |-> "variable", in |-> <<>>, edited |-> FALSE, name |-> name,
              modifier |-> "!=", words |-> <<>>, comment |-> "none"]
  BY DEF Delete, VariableNode
<1> HIDE DEF node
<1>2. IsNode(node)
  BY <1>1 DEF IsNode
<1> QED
  BY <1>2 DEF node

LEMMA BumpScriptIsTree ==
  ASSUME NEW nodes, NEW name
  PROVE  IsTree(BumpScript(nodes, name))
<1> DEFINE reset == IF name = "PORTEPOCH" THEN ResetOfEpoch(nodes) ELSE <<>>
           bumped == IF IsAssigned(nodes, name) THEN Bumped(nodes, name)
                     ELSE <<Line(name, "=", Numeral[1], "none")>>
<1>1. BumpScript(nodes, name) = reset \o bumped
  BY DEF BumpScript
<1>2. IsTree(reset)
  <2>1. IsTree(ResetOfEpoch(nodes))
    <3>1. /\ IsTree(<<Line("PORTREVISION", "=", Numeral[0], "none")>>)
          /\ IsTree(<<Delete("PORTREVISION")>>)
      BY LineIsNode, DeleteIsNode, TreeOne
    <3> QED
      BY <3>1 DEF ResetOfEpoch
  <2> QED
    BY <2>1, TreeEmpty
<1>3. IsTree(bumped)
  <2>1. IsTree(Bumped(nodes, name))
    <3> DEFINE var == nodes[FirstOf(nodes, name)]
               next == Line(name, var.modifier, Numeral[Number(Text(nodes, name)) + 1],
                            var.comment)
    <3>1. Bumped(nodes, name) \in {<<Delete(name), next>>, <<next>>}
      BY DEF Bumped
    <3>2. IsNode(next) /\ IsNode(Delete(name))
      BY LineIsNode, DeleteIsNode
    <3> HIDE DEF next
    <3>3. IsTree(<<Delete(name), next>>) /\ IsTree(<<next>>)
      BY <3>2, TreeOne, TreeTwo
    <3> QED
      BY <3>1, <3>3
  <2>2. IsTree(<<Line(name, "=", Numeral[1], "none")>>)
    BY LineIsNode, TreeOne
  <2> QED
    BY <2>1, <2>2
<1> HIDE DEF reset, bumped
<1> QED
  BY <1>1, <1>2, <1>3, TreeConcat

LEMMA SetVersionScriptIsTree ==
  ASSUME NEW nodes, NEW given
  PROVE  IsTree(SetVersionScript(nodes, given))
<1>1. IsTree(GitScript(nodes, given))
  <2> DEFINE a == Line("DISTVERSIONSUFFIX", "=", <<Last(given)>>, "none")
             b == IF GitPrefix(given) # <<>>
                  THEN Line("DISTVERSIONPREFIX", "=", GitPrefix(given), "none")
                  ELSE Delete("DISTVERSIONPREFIX")
             c == Delete("PORTVERSION")
             d == Line("DISTVERSION", "=", GitVersion(given), "none")
  <2>1. GitScript(nodes, given) = <<a, b, c, d>>
    BY DEF GitScript
  <2>2. IsNode(a) /\ IsNode(b) /\ IsNode(c) /\ IsNode(d)
    BY LineIsNode, DeleteIsNode
  <2> HIDE DEF a, b, c, d
  <2>3. <<a, b, c, d>> = Append(Append(<<a, b>>, c), d)
    OBVIOUS
  <2>4. IsTree(Append(<<a, b>>, c))
    BY <2>2, TreeTwo, TreeAppend
  <2>5. IsTree(Append(Append(<<a, b>>, c), d))
    BY <2>2, <2>4, TreeAppend
  <2> QED
    BY <2>1, <2>3, <2>5
<1>2. IsTree(PlainScript(nodes, given))
  <2> DEFINE suffix == IF IsAssigned(nodes, "DISTVERSIONSUFFIX") /\ ~HasSuffix(nodes, given)
                       THEN <<Delete("DISTVERSIONSUFFIX")>> ELSE <<>>
             portversion == IF VersionName(nodes) = "DISTVERSION" THEN <<Delete("PORTVERSION")>>
                            ELSE <<>>
             new == <<Line(VersionName(nodes), "=", Trimmed(nodes, given), "none")>>
  <2>1. PlainScript(nodes, given) = suffix \o portversion \o new
    BY DEF PlainScript
  <2>2. IsTree(suffix) /\ IsTree(portversion) /\ IsTree(new)
    BY LineIsNode, DeleteIsNode, TreeOne, TreeEmpty
  <2> HIDE DEF suffix, portversion, new
  <2>3. IsTree(suffix \o portversion)
    BY <2>2, TreeConcat
  <2> QED
    BY <2>1, <2>2, <2>3, TreeConcat
<1>3. IsTree(ResetRevision(nodes, given))
  <2>1. /\ IsTree(<<Line("PORTREVISION", "=", Numeral[0], "none")>>)
        /\ IsTree(<<Delete("PORTREVISION")>>)
    BY LineIsNode, DeleteIsNode, TreeOne
  <2>2. ResetRevision(nodes, given) \in
          {<<>>, <<Line("PORTREVISION", "=", Numeral[0], "none")>>, <<Delete("PORTREVISION")>>}
    BY DEF ResetRevision
  <2> QED
    BY <2>1, <2>2, TreeEmpty
<1> QED
  BY <1>1, <1>2, <1>3, TreeConcat DEF SetVersionScript

-----------------------------------------------------------------------------
(* The edits before refactor.collapse-adjacent-variables leave every node  *)
(* where it is.                                                            *)
NumberedBy(done, n, nodes) == IsTree(done) /\ Len(done) = n /\ Numbered(done)

Numbering == INSTANCE FoldInduction WITH op <- JoinComments, Holds <- NumberedBy

LEMMA JoinCommentsIds ==
  ASSUME NEW done, IsTree(done), Numbered(done), NEW node, IsNode(node),
         node.id = Len(done) + 1
  PROVE  /\ Len(JoinComments(done, node)) = Len(done) + 1
         /\ Numbered(JoinComments(done, node))
<1> DEFINE last == SelectLastInSeq(done, LAMBDA n : n.type # "deleted")
           joins == /\ node.type = "comment" /\ last # 0
                    /\ done[last].type = "comment" /\ done[last].in = node.in
           joined == [done EXCEPT ![last].words = @ \o node.words,
                                  ![last].edited = @ \/ node.words # <<>>]
           deleted == [node EXCEPT !.type = "deleted"]
           T == ToSet(done)
<1>1. JoinComments(done, node) = IF joins THEN Append(joined, deleted) ELSE Append(done, node)
  BY Zenon DEF JoinComments
<1>2. /\ done \in Seq(T) /\ Len(done) \in Nat /\ DOMAIN done = 1 .. Len(done)
      /\ \A i \in DOMAIN done : IsNode(done[i])
  BY DEF IsTree, ToSet
<1> HIDE DEF last, T
<1>3. /\ DOMAIN joined = DOMAIN done
      /\ \A i \in DOMAIN done : joined[i].id = i
  <2>1. ASSUME NEW i \in DOMAIN done
        PROVE  joined[i].id = i
    <3>1. done[i].id = i
      BY DEF Numbered
    <3>2. CASE i # last
      BY <3>1, <3>2
    <3>3. CASE i = last
      <4>1. joined[i] = [done[i] EXCEPT !.words = @ \o node.words,
                                        !.edited = @ \/ node.words # <<>>]
        BY <3>3
      <4>2. IsNode(done[i])
        BY <1>2
      <4> HIDE DEF joined
      <4>3. joined[i].id = done[i].id
        BY <4>1, <4>2 DEF IsNode
      <4> QED
        BY <3>1, <4>3
    <3> QED
      BY <3>2, <3>3
  <2> QED
    BY <2>1
<1>4. deleted.id = node.id
  BY DEF IsNode
<1>5. joined \in Seq(ToSet(joined)) /\ Len(joined) = Len(done)
  <2>1. joined = [i \in 1 .. Len(done) |-> joined[i]]
    BY <1>2
  <2>2. \A i \in 1 .. Len(done) : joined[i] \in ToSet(joined)
    BY <1>2, <1>3 DEF ToSet
  <2> HIDE DEF joined
  <2> QED
    BY <1>2, <2>1, <2>2
<1> HIDE DEF joined, deleted
<1>6. CASE joins
  <2> DEFINE U == ToSet(joined) \cup {deleted}
             all == Append(joined, deleted)
  <2>1. joined \in Seq(U) /\ deleted \in U
    BY <1>5
  <2> HIDE DEF U
  <2>2. /\ Len(all) = Len(done) + 1 /\ DOMAIN all = 1 .. Len(done) + 1
        /\ all[Len(done) + 1] = deleted
        /\ \A i \in 1 .. Len(done) : all[i] = joined[i]
    BY <1>2, <1>5, <2>1
  <2> HIDE DEF all
  <2>3. Numbered(all)
    BY <1>2, <1>3, <1>4, <2>2 DEF Numbered
  <2> QED
    BY <1>1, <1>6, <2>2, <2>3 DEF all
<1>7. CASE ~joins
  <2> DEFINE U == T \cup {node}
             all == Append(done, node)
  <2>1. done \in Seq(U) /\ node \in U
    BY <1>2
  <2> HIDE DEF U
  <2>2. /\ Len(all) = Len(done) + 1 /\ DOMAIN all = 1 .. Len(done) + 1
        /\ all[Len(done) + 1] = node
        /\ \A i \in 1 .. Len(done) : all[i] = done[i]
    BY <1>2, <2>1
  <2> HIDE DEF all
  <2>3. Numbered(all)
    BY <1>2, <2>2 DEF Numbered
  <2> QED
    BY <1>1, <1>7, <2>2, <2>3 DEF all
<1> QED
  BY <1>6, <1>7

LEMMA BalanceIds ==
  ASSUME NEW nodes, IsTree(nodes), Numbered(nodes)
  PROVE  Numbered(Balance(nodes))
<1>1. nodes \in Seq(ToSet(nodes)) /\ \A i \in DOMAIN nodes : IsNode(nodes[i])
  BY DEF IsTree, ToSet
<1>2. NumberedBy(<<>>, 0, nodes)
  BY TreeEmpty DEF NumberedBy, Numbered
<1>3. ASSUME NEW i \in DOMAIN nodes, NEW done, NumberedBy(done, i - 1, nodes)
      PROVE  NumberedBy(JoinComments(done, nodes[i]), i, nodes)
  <2>1. IsTree(done) /\ Len(done) = i - 1 /\ Numbered(done) /\ IsNode(nodes[i])
    BY <1>1, <1>3 DEF NumberedBy
  <2>2. (i - 1) + 1 = i /\ nodes[i].id = i
    BY <1>1 DEF Numbered
  <2>3. IsTree(JoinComments(done, nodes[i]))
    <3> DEFINE asread == ToSet(done) \cup {nodes[i]}
    <3>1. Kept(done, asread)
      BY <2>1 DEF Kept, IsTree, Fine
    <3>2. Fine(nodes[i], asread)
      BY <2>1 DEF Fine
    <3> HIDE DEF asread
    <3>3. Kept(JoinComments(done, nodes[i]), asread)
      BY <3>1, <3>2, JoinCommentsKeeps
    <3> QED
      BY <3>3, KeptIsTree
  <2> QED
    BY <2>1, <2>2, <2>3, JoinCommentsIds DEF NumberedBy
<1>4. NumberedBy(Numbering!Fold(<<>>, nodes), Len(nodes), nodes)
  BY <1>1, <1>2, <1>3, Numbering!FoldHolds
<1>5. Balance(nodes) = Numbering!Fold(<<>>, nodes)
  BY Zenon DEF Balance, Numbering!Fold, Numbering!Greatest,
     FoldLeft, MapThenFoldSet, Max
<1> QED
  BY <1>4, <1>5 DEF NumberedBy

(* refactor.sanitize-cmake-args changes words only.                        *)
LEMMA CmakeArgsIds ==
  ASSUME NEW nodes, IsTree(nodes)
  PROVE  /\ IsTree(SanitizeCmakeArgs(nodes))
         /\ DOMAIN SanitizeCmakeArgs(nodes) = DOMAIN nodes
         /\ Numbered(nodes) => Numbered(SanitizeCmakeArgs(nodes))
<1> DEFINE joined(node) == [node EXCEPT !.words = JoinDashD(@)]
           mapped == [i \in DOMAIN nodes |->
                        IF nodes[i].type = "variable" /\ nodes[i].name \in CmakeNames
                        THEN joined(nodes[i]) ELSE nodes[i]]
           T == ToSet(mapped)
<1>1. SanitizeCmakeArgs(nodes) = mapped
  BY DEF SanitizeCmakeArgs, MapNodes
<1>2. /\ nodes \in Seq(ToSet(nodes)) /\ Len(nodes) \in Nat /\ DOMAIN nodes = 1 .. Len(nodes)
      /\ \A i \in DOMAIN nodes : IsNode(nodes[i])
  BY DEF IsTree, ToSet
<1>3. ASSUME NEW i \in DOMAIN nodes
      PROVE  IsNode(mapped[i]) /\ mapped[i].id = nodes[i].id
  <2>1. CASE ~(nodes[i].type = "variable" /\ nodes[i].name \in CmakeNames)
    BY <1>2, <2>1
  <2>2. CASE nodes[i].type = "variable" /\ nodes[i].name \in CmakeNames
    <3> DEFINE node == nodes[i]
               new == joined(node)
    <3>1. IsNode(node) /\ node.type = "variable" /\ mapped[i] = new
      BY <1>2, <2>2
    <3>2. new = [node EXCEPT !.words = JoinDashD(node.words)]
      BY <3>1 DEF IsNode
    <3> HIDE DEF node, new
    <3>3. new = [id |-> node.id, type |-> node.type, in |-> node.in,
                 edited |-> node.edited, name |-> node.name, modifier |-> node.modifier,
                 words |-> JoinDashD(node.words), comment |-> node.comment]
      BY <3>1, <3>2 DEF IsNode
    <3>4. IsNode(new) /\ new.id = node.id
      BY <3>1, <3>3 DEF IsNode
    <3> QED
      BY <3>1, <3>4 DEF node
  <2> QED
    BY <2>1, <2>2
<1>4. mapped = [i \in 1 .. Len(nodes) |-> mapped[i]] /\ DOMAIN mapped = DOMAIN nodes
  BY <1>2
<1>5. \A i \in 1 .. Len(nodes) : mapped[i] \in T
  BY <1>2 DEF ToSet
<1>6. \A node \in T : IsNode(node)
  BY <1>3, <1>4 DEF ToSet
<1> HIDE DEF mapped, T
<1>7. mapped \in Seq(T)
  BY <1>2, <1>4, <1>5
<1>8. IsTree(mapped)
  BY <1>6, <1>7, TreeIs
<1>9. Numbered(nodes) => Numbered(mapped)
  BY <1>3, <1>4 DEF Numbered
<1> QED
  BY <1>1, <1>4, <1>8, <1>9

-----------------------------------------------------------------------------
(* What is still to be done once adjacent variables are collapsed.         *)
Later == {"dedup", "empty", "append", "eol", "merge",
          "bump-revision", "bump-epoch", "set-version", "error"}

Collapses(edits) == edits # <<>> /\ Head(edits) = "collapse" /\ Tail(edits) \in Seq(Later)

Joins(edits) ==
  /\ edits # <<>> /\ Head(edits) = "cmake"
  /\ Collapses(Tail(edits)) \/ Tail(edits) \in Seq(Later)

(* portedit merge joins -D to what follows without marking the node.       *)
AsRead == IF mode = "merge" THEN SanitizeCmakeArgs(read) ELSE read

(* Nodes that are not marked are as they were read after every edit, and   *)
(* have their number for an id until variables are collapsed.              *)
AsReadInv ==
  EditedOnly =>
    /\ mode \in Modes /\ IsTree(from)
    /\ \/ Unread /\ IsTree(tree) /\ Numbered(tree)
       \/ Joins(todo) /\ mode = "merge" /\ tree = read /\ IsTree(tree) /\ Numbered(tree)
       \/ Collapses(todo) /\ Kept(tree, ToSet(AsRead)) /\ Numbered(tree)
       \/ todo \in Seq(Later) /\ Kept(tree, ToSet(AsRead))

(* What is read is put behind what was read before, with the next number.  *)
LEMMA ReadNode ==
  ASSUME IsTree(tree), Numbered(tree), NEW node, IsNode(node), node.id = NextId,
         tree' = Append(tree, node)
  PROVE  IsTree(tree') /\ Numbered(tree)'
<1> DEFINE T == ToSet(tree) \cup {node}
<1>1. tree \in Seq(ToSet(tree)) /\ ToSet(tree) \subseteq T /\ node \in T
  BY DEF IsTree
<1> HIDE DEF T
<1>2. tree \in Seq(T)
  BY <1>1
<1>3. /\ Len(tree) \in Nat /\ DOMAIN tree = 1 .. Len(tree)
      /\ DOMAIN tree' = 1 .. Len(tree) + 1 /\ tree'[Len(tree) + 1] = node
      /\ \A i \in 1 .. Len(tree) : tree'[i] = tree[i]
  BY <1>1, <1>2
<1>4. Numbered(tree)'
  BY <1>3 DEF Numbered, NextId
<1>5. IsTree(Append(tree, node))
  BY TreeAppend
<1> QED
  BY <1>4, <1>5

LEMMA LeafIsNode ==
  ASSUME NEW id, NEW type, NEW path
  PROVE  IsNode(Leaf(id, type, path)) /\ Leaf(id, type, path).id = id
<1> DEFINE node == Leaf(id, type, path)
<1>1. node = [id |-> id, type |-> type, in |-> path, edited |-> FALSE,
              name |-> "", modifier |-> "=", words |-> <<>>, comment |-> "none"]
  BY DEF Leaf
<1> HIDE DEF node
<1>2. <<>> \in Seq(CommentLines)
  OBVIOUS
<1>3. IsNode(node) /\ node.id = id
  BY <1>1, <1>2 DEF IsNode
<1> QED
  BY <1>3 DEF node

LEMMA VariableIsNode ==
  ASSUME NEW id, NEW path, NEW var
  PROVE  IsNode(VariableNode(id, path, var)) /\ VariableNode(id, path, var).id = id
<1> DEFINE node == VariableNode(id, path, var)
<1>1. node = [id |-> id, type |-> "variable", in |-> path, edited |-> FALSE,
              name |-> var.name, modifier |-> var.modifier, words |-> var.words,
              comment |-> var.comment]
  BY DEF VariableNode
<1> HIDE DEF node
<1>2. IsNode(node) /\ node.id = id
  BY <1>1 DEF IsNode
<1> QED
  BY <1>2 DEF node

LEMMA ReadingKeepsTree ==
  ASSUME mode \in Modes, IsTree(tree), Numbered(tree),
         ReadVariable \/ ReadComment \/ ReadLeaf \/ ReadIf \/ ReadElse \/ ReadTarget
  PROVE  IsTree(tree') /\ Numbered(tree)'
<1>1. CASE ReadVariable
  <2>1. PICK var : tree' = Append(tree, VariableNode(NextId, open, var))
    BY <1>1 DEF ReadVariable, Add
  <2> QED
    BY <2>1, VariableIsNode, ReadNode
<1>2. CASE ReadComment
  <2>1. PICK lines \in Inputs[mode].comments :
          tree' = Append(tree, CommentNode(NextId, open, lines))
    BY <1>2 DEF ReadComment, Add
  <2>2. lines \in Seq(CommentLines)
    BY <2>1, InputsAssumption
  <2>3. /\ IsNode(CommentNode(NextId, open, lines))
        /\ CommentNode(NextId, open, lines).id = NextId
    BY <2>2, CommentNodeIs
  <2> QED
    BY <2>1, <2>3, ReadNode
<1>3. CASE ReadLeaf
  <2>1. PICK type : tree' = Append(tree, Leaf(NextId, type, open))
    BY <1>3 DEF ReadLeaf, Add
  <2> QED
    BY <2>1, LeafIsNode, ReadNode
<1>4. CASE ReadIf
  <2>1. PICK type : tree' = Append(tree, Leaf(NextId, type, open))
    BY <1>4 DEF ReadIf, Add
  <2> QED
    BY <2>1, LeafIsNode, ReadNode
<1>5. CASE ReadElse
  <2>1. PICK path : tree' = Append(tree, Leaf(NextId, "else", path))
    BY <1>5 DEF ReadElse, Add
  <2> QED
    BY <2>1, LeafIsNode, ReadNode
<1>6. CASE ReadTarget
  <2>1. tree' = Append(tree, Leaf(NextId, "target", OpenBelowTarget))
    BY <1>6 DEF ReadTarget, Add
  <2> QED
    BY <2>1, LeafIsNode, ReadNode
<1> QED
  BY <1>1, <1>2, <1>3, <1>4, <1>5, <1>6

(* What parser_read_finish() and the command do, in this order.            *)
LEMMA EditsInOrder ==
  ASSUME mode \in Modes, EditedOnly
  PROVE  /\ mode = "merge" => Joins(EditsOf(mode))
         /\ mode # "merge" => Collapses(EditsOf(mode)) \/ EditsOf(mode) \in Seq(Later)
<1> DEFINE collapse == IF IsCategory THEN <<"collapse">> ELSE <<>>
<1>1. ASSUME NEW rest \in Seq(Later)
      PROVE  Collapses(collapse \o rest) \/ collapse \o rest \in Seq(Later)
  <2>1. CASE IsCategory
    <3>1. collapse \o rest = <<"collapse">> \o rest
      BY <2>1
    <3>2. /\ <<"collapse">> \o rest # <<>> /\ Head(<<"collapse">> \o rest) = "collapse"
          /\ Tail(<<"collapse">> \o rest) = rest
      OBVIOUS
    <3> HIDE DEF collapse
    <3> QED
      BY <3>1, <3>2 DEF Collapses
  <2>2. CASE ~IsCategory
    <3>1. collapse \o rest = rest
      BY <2>2
    <3> QED
      BY <3>1
  <2> QED
    BY <2>1, <2>2
<1>2. mode \in {"sanitize-append", "sanitize-eol-comments", "merge", "bump-revision",
                "bump-epoch", "set-version"}
  BY ModesAssumption DEF EditedOnly
<1>3. CASE mode = "merge"
  <2> DEFINE rest == <<"dedup", "empty", "merge", "dedup", "empty">>
             edits == collapse \o rest
  <2>1. EditsOf(mode) = <<"cmake">> \o collapse \o rest
    BY <1>3 DEF EditsOf
  <2>2. rest \in Seq(Later)
    BY DEF Later
  <2>3. Collapses(edits) \/ edits \in Seq(Later)
    BY <1>1, <2>2
  <2> DEFINE S == Later \cup {"cmake", "collapse"}
  <2>4. collapse \in Seq(S) /\ rest \in Seq(S) /\ <<"cmake">> \in Seq(S)
    <3>1. <<"cmake">> \in Seq(S) /\ <<"collapse">> \in Seq(S) /\ <<>> \in Seq(S)
      OBVIOUS
    <3>2. rest \in Seq(S)
      BY DEF Later
    <3> QED
      BY <3>1, <3>2
  <2> HIDE DEF collapse, rest, S
  <2>5. <<"cmake">> \o collapse \o rest = <<"cmake">> \o edits /\ edits \in Seq(S)
    BY <2>4, ConcatInOrder
  <2> HIDE DEF edits
  <2>6. /\ <<"cmake">> \o edits # <<>> /\ Head(<<"cmake">> \o edits) = "cmake"
        /\ Tail(<<"cmake">> \o edits) = edits
    BY <2>5
  <2> QED
    BY <1>3, <2>1, <2>3, <2>5, <2>6 DEF Joins
<1>4. CASE mode # "merge"
  <2>1. PICK rest \in Seq(Later) : EditsOf(mode) = collapse \o rest
    <3>1. CASE mode = "sanitize-append"
      <4>1. <<"append", "dedup", "empty", "append">> \in Seq(Later)
        BY DEF Later
      <4> QED
        BY <3>1, <4>1 DEF EditsOf
    <3>2. CASE mode = "sanitize-eol-comments"
      <4>1. <<"dedup", "empty", "eol">> \in Seq(Later)
        BY DEF Later
      <4> QED
        BY <3>2, <4>1 DEF EditsOf
    <3>3. CASE mode \in {"bump-revision", "bump-epoch", "set-version"}
      <4>1. <<"dedup", "empty", mode>> \in Seq(Later)
        BY <3>3 DEF Later
      <4> QED
        BY <3>3, <4>1 DEF EditsOf
    <3> QED
      BY <1>2, <1>4, <3>1, <3>2, <3>3
  <2> HIDE DEF collapse
  <2> QED
    BY <1>1, <1>4, <2>1 DEF collapse
<1> QED
  BY <1>3, <1>4

(* The steps that neither read nor edit.                                   *)
LEMMA TailOfLater ==
  ASSUME NEW edits \in Seq(Later), edits # <<>>
  PROVE  Tail(edits) \in Seq(Later) /\ Head(edits) \in Later
  OBVIOUS

(* One edit once the tree is read.                                         *)
LEMMA EditKeeps ==
  ASSUME EditedOnly, IsTree(from), NEW asread, Kept(tree, asread),
         NEW edit \in {"dedup", "empty", "append", "eol", "merge", "collapse"},
         edit = "collapse" => Numbered(tree)
  PROVE  Kept(Balance(Apply(edit, tree)), asread)
<1>1. EditedOnly = TRUE
  BY DEF EditedOnly
<1>2. Kept(Apply(edit, tree), asread)
  <2>1. CASE edit = "dedup"
    <3>1. Apply(edit, tree) = DedupTokens(tree, TRUE)
      BY <1>1, <2>1 DEF Apply
    <3> QED
      BY <3>1, DedupTokensKeeps
  <2>2. CASE edit = "empty"
    <3>1. Apply(edit, tree) = RemoveConsecutiveEmptyLines(tree)
      BY <2>2 DEF Apply
    <3> QED
      BY <3>1, RemoveConsecutiveEmptyLinesKeeps
  <2>3. CASE edit = "append"
    <3>1. Apply(edit, tree) = SanitizeAppendModifier(tree)
      BY <2>3 DEF Apply
    <3> QED
      BY <3>1, SanitizeAppendModifierKeeps
  <2>4. CASE edit = "eol"
    <3>1. Apply(edit, tree) = SanitizeEolComments(tree)
      BY <2>4 DEF Apply
    <3> QED
      BY <3>1, SanitizeEolCommentsKeeps
  <2>5. CASE edit = "merge"
    <3>1. Apply(edit, tree) = Merge(tree, from)
      BY <2>5 DEF Apply
    <3> QED
      BY <3>1, MergeKeeps
  <2>6. CASE edit = "collapse"
    <3>1. Apply(edit, tree) = CollapseAdjacentVariables(tree) /\ Numbered(tree)
      BY <2>6 DEF Apply
    <3> QED
      BY <3>1, CollapseKeeps
  <2> QED
    BY <2>1, <2>2, <2>3, <2>4, <2>5, <2>6
<1> QED
  BY <1>2, BalanceKeeps

LEMMA AsReadStep ==
  ASSUME AsReadInv, [EditsNext]_vars
  PROVE  AsReadInv'
<1> SUFFICES ASSUME EditedOnly'
             PROVE  /\ mode' \in Modes /\ IsTree(from')
                    /\ \/ Unread' /\ IsTree(tree') /\ Numbered(tree)'
                       \/ /\ Joins(todo') /\ mode' = "merge" /\ tree' = read'
                          /\ IsTree(tree') /\ Numbered(tree)'
                       \/ Collapses(todo') /\ Kept(tree', ToSet(AsRead)') /\ Numbered(tree)'
                       \/ todo' \in Seq(Later) /\ Kept(tree', ToSet(AsRead)')
  BY DEF AsReadInv
<1>1. mode' = mode
  BY DEF EditsNext, vars, ReadVariable, ReadComment, ReadLeaf, ReadIf, ReadElse, ReadTarget,
         ReadEnd, ReadFinish, EditComments, EditCmakeArgs, EditCollapse, EditAppend, EditDedup,
         EditEmptyLines, EditEolComments, EditMerge, Edit, EditBumpRevision, EditBumpEpoch,
         EditSetVersion, EditByScript, Printed, Add
<1>2. EditedOnly
  BY <1>1 DEF EditedOnly
<1>3. /\ mode \in Modes /\ mode' \in Modes /\ IsTree(from)
      /\ \/ Unread /\ IsTree(tree) /\ Numbered(tree)
         \/ Joins(todo) /\ mode = "merge" /\ tree = read /\ IsTree(tree) /\ Numbered(tree)
         \/ Collapses(todo) /\ Kept(tree, ToSet(AsRead)) /\ Numbered(tree)
         \/ todo \in Seq(Later) /\ Kept(tree, ToSet(AsRead))
  BY <1>1, <1>2 DEF AsReadInv
<1>4. Unread => todo # <<>> /\ Head(todo) = "read"
  BY DEF Unread
<1>5. Unread => ~Joins(todo) /\ ~Collapses(todo) /\ todo \notin Seq(Later)
  BY <1>4, TailOfLater DEF Joins, Collapses, Later
<1>6. ASSUME ReadVariable \/ ReadComment \/ ReadLeaf \/ ReadIf \/ ReadElse \/ ReadTarget
      PROVE  Unread' /\ IsTree(tree') /\ Numbered(tree)' /\ IsTree(from')
  <2>1. Unread /\ todo' = todo /\ from' = from
    BY <1>6 DEF ReadVariable, ReadComment, ReadLeaf, ReadIf, ReadElse, ReadTarget,
                Reading, Add
  <2>2. IsTree(tree) /\ Numbered(tree)
    BY <1>3, <1>5, <2>1
  <2>3. Unread'
    BY <2>1 DEF Unread
  <2> QED
    BY <1>3, <1>6, <2>1, <2>2, <2>3, ReadingKeepsTree
<1>7. CASE ReadEnd
  <2>1. Unread /\ todo' = todo /\ from' = from /\ tree' = tree
    BY <1>7 DEF ReadEnd
  <2>2. Unread' /\ Numbered(tree)'
    BY <1>3, <1>5, <2>1 DEF Unread, Numbered
  <2> QED
    BY <1>3, <1>5, <2>1, <2>2
<1>8. CASE ReadFinish
  <2>1. /\ Unread /\ todo' = EditsOf(mode) /\ read' = tree /\ tree' = tree
        /\ from' \in IF mode = "merge" THEN MergeTrees ELSE {<<>>}
    BY <1>8 DEF ReadFinish
  <2>2. IsTree(tree') /\ Numbered(tree)'
    BY <1>3, <1>5, <2>1 DEF Numbered
  <2>3. IsTree(from')
    BY <2>1, MergeTreesAssumption, TreeEmpty
  <2>4. CASE mode = "merge"
    BY <1>1, <1>2, <1>3, <2>1, <2>2, <2>3, <2>4, EditsInOrder
  <2>5. CASE mode # "merge"
    <3>1. AsRead' = tree'
      BY <1>1, <2>1, <2>5 DEF AsRead
    <3>2. Kept(tree', ToSet(tree'))
      BY <2>2, TreeIsKept
    <3>3. Kept(tree', ToSet(AsRead)')
      BY <3>1, <3>2
    <3> QED
      BY <1>2, <1>3, <2>1, <2>2, <2>3, <2>5, <3>3, EditsInOrder
  <2> QED
    BY <2>4, <2>5
<1>9. ASSUME NEW edit, Edit(edit)
      PROVE  /\ todo # <<>> /\ Head(todo) = edit /\ todo' = Tail(todo) /\ from' = from
             /\ read' = read /\ tree' = Balance(Apply(edit, tree)) /\ AsRead' = AsRead
  BY <1>1, <1>9 DEF Edit, AsRead
<1>10. CASE EditCmakeArgs
  <2>1. Edit("cmake")
    BY <1>10 DEF EditCmakeArgs
  <2>2. /\ Head(todo) = "cmake" /\ todo # <<>> /\ todo' = Tail(todo) /\ from' = from
        /\ read' = read /\ tree' = Balance(SanitizeCmakeArgs(tree))
    BY <1>9, <2>1 DEF Apply
  <2>3. /\ Joins(todo) /\ mode = "merge" /\ tree = read /\ IsTree(tree) /\ Numbered(tree)
    BY <1>3, <1>4, <2>2, TailOfLater DEF Collapses, Later
  <2> DEFINE joined == SanitizeCmakeArgs(tree)
  <2>4. IsTree(joined) /\ Numbered(joined)
    BY <2>3, CmakeArgsIds
  <2>5. AsRead' = joined
    BY <1>1, <2>2, <2>3 DEF AsRead
  <2> HIDE DEF joined
  <2>6. Kept(joined, ToSet(joined))
    BY <2>4, TreeIsKept
  <2>7. Kept(Balance(joined), ToSet(joined)) /\ Numbered(Balance(joined))
    BY <2>4, <2>6, BalanceKeeps, BalanceIds
  <2>8. tree' = Balance(joined)
    BY <2>2 DEF joined
  <2>9. Kept(tree', ToSet(AsRead)') /\ Numbered(tree)'
    BY <2>5, <2>7, <2>8 DEF Numbered
  <2>10. Collapses(todo') \/ todo' \in Seq(Later)
    BY <2>2, <2>3 DEF Joins
  <2> QED
    BY <1>3, <2>2, <2>9, <2>10
<1>11. CASE EditComments
  <2>1. todo # <<>> /\ Head(todo) = "comments"
    BY <1>9, <1>11 DEF EditComments
  <2> QED
    BY <1>3, <1>4, <2>1, TailOfLater DEF Joins, Collapses, Later
<1>12. ASSUME EditCollapse \/ EditAppend \/ EditDedup \/ EditEmptyLines \/ EditEolComments
                \/ EditMerge
       PROVE  todo' \in Seq(Later) /\ Kept(tree', ToSet(AsRead)') /\ IsTree(from')
  <2>1. PICK edit \in {"dedup", "empty", "append", "eol", "merge", "collapse"} : Edit(edit)
    BY <1>12 DEF EditCollapse, EditAppend, EditDedup, EditEmptyLines, EditEolComments,
                 EditMerge
  <2>2. /\ todo # <<>> /\ Head(todo) = edit /\ todo' = Tail(todo) /\ from' = from
        /\ tree' = Balance(Apply(edit, tree)) /\ AsRead' = AsRead
    BY <1>9, <2>1
  <2>3. /\ Kept(tree, ToSet(AsRead)) /\ Tail(todo) \in Seq(Later)
        /\ edit = "collapse" => Numbered(tree)
    <3>1. ~Unread /\ ~Joins(todo)
      BY <1>4, <2>1, <2>2 DEF Joins
    <3>2. CASE Collapses(todo) /\ Kept(tree, ToSet(AsRead)) /\ Numbered(tree)
      BY <3>2 DEF Collapses
    <3>3. CASE todo \in Seq(Later) /\ Kept(tree, ToSet(AsRead))
      <4>1. Tail(todo) \in Seq(Later) /\ Head(todo) \in Later
        BY <2>2, <3>3, TailOfLater
      <4>2. edit # "collapse"
        BY <2>2, <4>1 DEF Later
      <4> QED
        BY <3>3, <4>1, <4>2
    <3> QED
      BY <1>3, <3>1, <3>2, <3>3
  <2>4. Kept(Balance(Apply(edit, tree)), ToSet(AsRead))
    BY <1>2, <1>3, <2>1, <2>3, EditKeeps
  <2> QED
    BY <1>3, <2>2, <2>3, <2>4
<1>13. ASSUME EditBumpRevision \/ EditBumpEpoch \/ EditSetVersion
       PROVE  todo' \in Seq(Later) /\ Kept(tree', ToSet(AsRead)') /\ IsTree(from')
  <2>1. PICK edit \in {"bump-revision", "bump-epoch", "set-version"} : EditByScript(edit)
    BY <1>13 DEF EditBumpRevision, EditBumpEpoch, EditSetVersion
  <2>2. todo = <<edit>> /\ read' = read
    BY <2>1 DEF EditByScript
  <2>3. Kept(tree, ToSet(AsRead))
    <3>1. Head(todo) = edit
      BY <2>2
    <3>2. ~Unread /\ ~Joins(todo) /\ ~Collapses(todo)
      BY <1>4, <2>1, <3>1 DEF Joins, Collapses
    <3> QED
      BY <1>3, <3>2
  <2>4. AsRead' = AsRead
    BY <1>1, <2>2 DEF AsRead
  <2>5. CASE FailsOn(edit, tree)
    <3>1. todo' = <<"error">> /\ tree' = Balance(tree) /\ from' = from
      BY <2>1, <2>5 DEF EditByScript
    <3>2. <<"error">> \in Seq(Later)
      BY DEF Later
    <3>3. Kept(Balance(tree), ToSet(AsRead))
      BY <2>3, BalanceKeeps
    <3> QED
      BY <1>3, <2>4, <3>1, <3>2, <3>3
  <2>6. CASE ~FailsOn(edit, tree)
    <3>1. /\ todo' = <<>> /\ from' = ScriptOf(edit, tree)
          /\ tree' = Balance(ParserMerge(tree, from'))
      BY <2>1, <2>6 DEF EditByScript
    <3>2. IsTree(ScriptOf(edit, tree))
      BY <2>1, BumpScriptIsTree, SetVersionScriptIsTree DEF ScriptOf
    <3>3. Kept(Balance(ParserMerge(tree, ScriptOf(edit, tree))), ToSet(AsRead))
      BY <1>2, <2>3, <3>2, ParserMergeKeeps, BalanceKeeps
    <3>4. <<>> \in Seq(Later)
      OBVIOUS
    <3> QED
      BY <2>4, <3>1, <3>2, <3>3, <3>4
  <2> QED
    BY <2>5, <2>6
<1>14. CASE Printed \/ UNCHANGED vars
  <2>1. UNCHANGED <<tree, mode, todo, read, from>>
    BY <1>14 DEF Printed, vars
  <2>2. AsRead' = AsRead /\ (Unread' <=> Unread) /\ (Numbered(tree)' <=> Numbered(tree))
    BY <2>1 DEF AsRead, Unread, Numbered
  <2> QED
    BY <1>3, <2>1, <2>2
<1> QED
  BY <1>3, <1>6, <1>7, <1>8, <1>10, <1>11, <1>12, <1>13, <1>14 DEF EditsNext

(* refactor.c, merge.c, parser_output_edited(): a node that is printed     *)
(* from the lines it was read from is as it was read, whatever the edits   *)
(* of the command and whatever the Makefile.                               *)
THEOREM UneditedStaysAsRead == EditsSpec => []UneditedAsRead
<1>1. EditsInit => AsReadInv
  <2> SUFFICES ASSUME EditsInit
               PROVE  AsReadInv
    OBVIOUS
  <2>1. mode \in Modes /\ tree = <<>> /\ from = <<>> /\ Unread
    BY DEF EditsInit, Unread
  <2>2. IsTree(tree) /\ IsTree(from)
    BY <2>1, TreeEmpty
  <2>3. Numbered(tree)
    BY <2>1 DEF Numbered
  <2> QED
    BY <2>1, <2>2, <2>3 DEF AsReadInv
<1>2. AsReadInv /\ [EditsNext]_vars => AsReadInv'
  BY AsReadStep
<1>3. AsReadInv => UneditedAsRead
  <2> SUFFICES ASSUME AsReadInv, Done, EditedOnly, NEW i \in DOMAIN tree,
                      tree[i].type \in {"variable", "comment"}, ~tree[i].edited
               PROVE  \E k \in DOMAIN read :
                        \/ tree[i] = read[k]
                        \/ mode = "merge" /\ tree[i] = SanitizeCmakeArgs(read)[k]
    BY DEF UneditedAsRead
  <2>1. Kept(tree, ToSet(AsRead))
    <3>1. ~Unread /\ ~Joins(todo)
      BY DEF Done, Unread, Joins
    <3> QED
      BY <3>1 DEF AsReadInv
  <2>2. tree[i] \in ToSet(AsRead)
    <3>1. Fine(tree[i], ToSet(AsRead))
      BY <2>1, KeptHas
    <3> QED
      BY <3>1 DEF Fine, Silent
  <2>3. CASE mode # "merge"
    BY <2>2, <2>3 DEF AsRead, ToSet
  <2>4. CASE mode = "merge"
    <3>1. PICK k \in DOMAIN SanitizeCmakeArgs(read) : tree[i] = SanitizeCmakeArgs(read)[k]
      BY <2>2, <2>4 DEF AsRead, ToSet
    <3>2. DOMAIN SanitizeCmakeArgs(read) = DOMAIN read
      BY DEF SanitizeCmakeArgs, MapNodes
    <3> QED
      BY <2>4, <3>1, <3>2
  <2> QED
    BY <2>3, <2>4
<1> QED
  BY <1>1, <1>2, <1>3, PTL DEF EditsSpec

-----------------------------------------------------------------------------
(* The comments of a tree are those of its nodes in a row.                 *)
Comments == CommentLines \cup EolComments

ProseOf == [line \in CommentLines |-> IF line = "blank" THEN <<>> ELSE <<Trim(line)>>]

LEMMA ProseIs ==
  ASSUME NEW lines \in Seq(CommentLines)
  PROVE  /\ Prose(lines) = Mapped(ProseOf, lines) /\ Prose(lines) \in Seq(Comments)
         /\ Maps(ProseOf, CommentLines, Comments)
<1>1. \A line \in CommentLines : Trim(line) \in Comments
  BY DEF Comments, CommentLines, Trim
<1>2. ASSUME NEW line \in CommentLines
      PROVE  ProseOf[line] \in Seq(Comments)
  <2>1. Trim(line) \in Comments
    BY <1>1
  <2>2. <<>> \in Seq(Comments) /\ <<Trim(line)>> \in Seq(Comments)
    BY <2>1
  <2> QED
    BY <2>2 DEF ProseOf
<1>3. Maps(ProseOf, CommentLines, Comments)
  BY <1>2 DEF Maps, ProseOf
<1>4. \A k \in DOMAIN lines : lines[k] \in CommentLines
  OBVIOUS
<1>5. [k \in DOMAIN lines |-> IF lines[k] = "blank" THEN <<>> ELSE <<Trim(lines[k])>>]
        = Each(ProseOf, lines)
  BY <1>4, Zenon DEF Each, ProseOf
<1>6. Prose(lines) = Mapped(ProseOf, lines)
  BY <1>5, Zenon DEF Prose, Mapped
<1>7. Mapped(ProseOf, lines) \in Seq(Comments)
  BY <1>3, MappedType
<1> QED
  BY <1>3, <1>6, <1>7

LEMMA ProseConcat ==
  ASSUME NEW s \in Seq(CommentLines), NEW t \in Seq(CommentLines)
  PROVE  /\ s \o t \in Seq(CommentLines) /\ Prose(s \o t) = Prose(s) \o Prose(t)
<1>1. s \o t \in Seq(CommentLines)
  OBVIOUS
<1>2. Mapped(ProseOf, s \o t) = Mapped(ProseOf, s) \o Mapped(ProseOf, t)
  BY ProseIs, MappedConcat
<1> QED
  BY <1>1, <1>2, ProseIs

LEMMA ProseAppend ==
  ASSUME NEW s \in Seq(CommentLines), NEW line \in CommentLines
  PROVE  /\ Append(s, line) \in Seq(CommentLines)
         /\ Prose(Append(s, line)) = Prose(s) \o ProseOf[line]
<1>1. Append(s, line) \in Seq(CommentLines)
  OBVIOUS
<1>2. Mapped(ProseOf, Append(s, line)) = Mapped(ProseOf, s) \o ProseOf[line]
  BY ProseIs, MappedAppend
<1> QED
  BY <1>1, <1>2, ProseIs

LEMMA TextsOfType ==
  ASSUME NEW node, IsNode(node)
  PROVE  TextsOf(node) \in Seq(Comments)
<1>1. CASE node.type = "comment"
  <2>1. node.words \in Seq(CommentLines)
    BY <1>1 DEF IsNode
  <2>2. Prose(node.words) \in Seq(Comments)
    BY <2>1, ProseIs
  <2> QED
    BY <1>1, <2>2 DEF TextsOf
<1>2. CASE node.type = "variable" /\ node.comment \in {"marker", "text"}
  <2>1. node.comment \in Comments
    BY <1>2 DEF Comments, EolComments
  <2>2. TextsOf(node) = <<node.comment>>
    BY <1>2 DEF TextsOf
  <2> QED
    BY <2>1, <2>2
<1>3. CASE node.type # "comment" /\ ~(node.type = "variable" /\ node.comment \in {"marker", "text"})
  BY <1>3 DEF TextsOf
<1> QED
  BY <1>1, <1>2, <1>3

TextsIn(N) == [node \in N |-> TextsOf(node)]

LEMMA TextsAre ==
  ASSUME NEW N, \A node \in N : IsNode(node), NEW nodes \in Seq(N)
  PROVE  /\ Maps(TextsIn(N), N, Comments)
         /\ Texts(nodes) = Mapped(TextsIn(N), nodes)
         /\ Texts(nodes) \in Seq(Comments)
<1>1. Maps(TextsIn(N), N, Comments)
  BY TextsOfType DEF Maps, TextsIn
<1>2. \A i \in DOMAIN nodes : nodes[i] \in N
  OBVIOUS
<1>3. [i \in DOMAIN nodes |-> TextsOf(nodes[i])] = Each(TextsIn(N), nodes)
  BY <1>2, Zenon DEF Each, TextsIn
<1>4. Texts(nodes) = Mapped(TextsIn(N), nodes)
  BY <1>3, Zenon DEF Texts, Mapped
<1>5. Mapped(TextsIn(N), nodes) \in Seq(Comments)
  BY <1>1, MappedType
<1> QED
  BY <1>1, <1>4, <1>5

LEMMA TextsType ==
  ASSUME NEW nodes, IsTree(nodes)
  PROVE  Texts(nodes) \in Seq(Comments)
  BY TextsAre DEF IsTree

LEMMA TextsNone == Texts(<<>>) = <<>>
<1>1. [i \in DOMAIN <<>> |-> TextsOf(<<>>[i])] = <<>>
  OBVIOUS
<1> QED
  BY <1>1 DEF Texts, FlattenSeq

LEMMA TextsConcat ==
  ASSUME NEW before, NEW after, IsTree(before), IsTree(after)
  PROVE  Texts(before \o after) = Texts(before) \o Texts(after)
<1> DEFINE T == ToSet(before) \cup ToSet(after)
<1>1. /\ before \in Seq(ToSet(before)) /\ after \in Seq(ToSet(after))
      /\ \A node \in T : IsNode(node)
  BY DEF IsTree
<1>2. ToSet(before) \subseteq T /\ ToSet(after) \subseteq T
  OBVIOUS
<1> HIDE DEF T
<1>3. before \in Seq(T) /\ after \in Seq(T)
  BY <1>1, <1>2
<1>4. before \o after \in Seq(T)
  BY <1>3
<1>5. Mapped(TextsIn(T), before \o after) = Mapped(TextsIn(T), before) \o Mapped(TextsIn(T), after)
  BY <1>1, <1>3, TextsAre, MappedConcat
<1> QED
  BY <1>1, <1>3, <1>4, <1>5, TextsAre

LEMMA TextsAppend ==
  ASSUME NEW nodes, IsTree(nodes), NEW node, IsNode(node)
  PROVE  Texts(Append(nodes, node)) = Texts(nodes) \o TextsOf(node)
<1> DEFINE T == ToSet(nodes) \cup {node}
<1>1. nodes \in Seq(ToSet(nodes)) /\ \A n \in T : IsNode(n)
  BY DEF IsTree
<1>2. ToSet(nodes) \subseteq T /\ node \in T
  OBVIOUS
<1> HIDE DEF T
<1>3. nodes \in Seq(T)
  BY <1>1, <1>2
<1>4. Append(nodes, node) \in Seq(T)
  BY <1>2, <1>3
<1>5. Mapped(TextsIn(T), Append(nodes, node)) = Mapped(TextsIn(T), nodes) \o TextsIn(T)[node]
  BY <1>1, <1>2, <1>3, TextsAre, MappedAppend
<1>6. TextsIn(T)[node] = TextsOf(node)
  BY <1>2 DEF TextsIn
<1> QED
  BY <1>1, <1>3, <1>4, <1>5, <1>6, TextsAre

(* Nodes whose comments stay.                                              *)
LEMMA TextsSame ==
  ASSUME NEW before, NEW after, DOMAIN after = DOMAIN before,
         \A i \in DOMAIN before : TextsOf(after[i]) = TextsOf(before[i])
  PROVE  Texts(after) = Texts(before)
<1>1. [i \in DOMAIN after |-> TextsOf(after[i])] = [i \in DOMAIN before |-> TextsOf(before[i])]
  BY Zenon
<1> QED
  BY <1>1, Zenon DEF Texts

(* The comments of trees in a row are those of each.                       *)
LEMMA TextsFlattened ==
  ASSUME NEW N, \A node \in N : IsNode(node), NEW F \in Seq(Seq(N))
  PROVE  Texts(FlattenSeq(F)) = FlattenSeq([k \in DOMAIN F |-> Texts(F[k])])
<1> DEFINE g == TextsIn(N)
<1>1. <<>> \in Seq(N)
  OBVIOUS
<1>2. Maps(g, N, Comments)
  BY <1>1, TextsAre
<1>3. FlattenSeq(F) \in Seq(N)
  BY FlattenType
<1>4. \A k \in DOMAIN F : F[k] \in Seq(N)
  OBVIOUS
<1>5. Texts(FlattenSeq(F)) = Mapped(g, FlattenSeq(F))
  BY <1>3, TextsAre
<1>6. [k \in DOMAIN F |-> Mapped(g, F[k])] = [k \in DOMAIN F |-> Texts(F[k])]
  BY <1>4, TextsAre
<1> HIDE DEF g
<1>7. Mapped(g, FlattenSeq(F)) = FlattenSeq([k \in DOMAIN F |-> Mapped(g, F[k])])
  BY <1>2, MappedFlatten
<1> QED
  BY <1>5, <1>6, <1>7

(* Nodes in whose place others with the same comments are put.             *)
LEMMA TextsReplaced ==
  ASSUME NEW nodes, IsTree(nodes), NEW lists, lists = [i \in DOMAIN nodes |-> lists[i]],
         \A i \in DOMAIN nodes : IsTree(lists[i]) /\ Texts(lists[i]) = TextsOf(nodes[i])
  PROVE  Texts(FlattenSeq(lists)) = Texts(nodes)
<1> DEFINE N == UNION {ToSet(lists[i]) : i \in DOMAIN nodes}
           n == Len(nodes)
<1>1. n \in Nat /\ DOMAIN nodes = 1 .. n
  BY DEF IsTree
<1>2. \A node \in N : IsNode(node)
  BY DEF IsTree
<1>3. \A i \in 1 .. n : ToSet(lists[i]) \subseteq N /\ lists[i] \in Seq(ToSet(lists[i]))
  BY <1>1 DEF IsTree
<1> HIDE DEF N
<1>4. \A i \in 1 .. n : lists[i] \in Seq(N)
  BY <1>3
<1> HIDE DEF n
<1>5. lists \in Seq(Seq(N)) /\ DOMAIN lists = 1 .. n
  BY <1>1, <1>4, FunctionSeq
<1>6. Texts(FlattenSeq(lists)) = FlattenSeq([k \in DOMAIN lists |-> Texts(lists[k])])
  BY <1>2, <1>5, TextsFlattened
<1>7. [k \in DOMAIN lists |-> Texts(lists[k])] = [i \in DOMAIN nodes |-> TextsOf(nodes[i])]
  BY <1>1, <1>5, Zenon
<1> QED
  BY <1>6, <1>7, Zenon DEF Texts

-----------------------------------------------------------------------------
(* ast_balance(): what is joined to a comment is behind it, as only deleted*)
(* nodes are skipped.                                                      *)
LastKept(nodes) == SelectLastInSeq(nodes, LAMBDA n : n.type # "deleted")

LEMMA LastKeptIs ==
  ASSUME NEW nodes, IsTree(nodes), LastKept(nodes) # 0
  PROVE  /\ LastKept(nodes) \in DOMAIN nodes
         /\ \A i \in DOMAIN nodes : i > LastKept(nodes) => nodes[i].type = "deleted"
<1> DEFINE n == Len(nodes)
           I == {i \in 1 .. n : nodes[i].type # "deleted"}
<1>1. n \in Nat /\ DOMAIN nodes = 1 .. n
  BY DEF IsTree
<1>2. LastKept(nodes) = IF I # {} THEN Max(I) ELSE 0
  BY Zenon DEF LastKept, SelectLastInSeq
<1>3. I \in SUBSET (1 .. n) /\ I \in SUBSET (0 .. n)
  BY <1>1
<1>4. \A i \in 1 .. n : i \notin I => nodes[i].type = "deleted"
  OBVIOUS
<1> HIDE DEF I, n
<1>5. I # {} /\ LastKept(nodes) = Max(I)
  BY <1>2
<1>6. Max(I) \in I /\ \A x \in I : x <= Max(I)
  BY <1>1, <1>3, <1>5, MaxIs
<1> DEFINE m == Max(I)
<1>7. m \in 1 .. n /\ \A x \in I : x <= m
  BY <1>3, <1>6
<1> HIDE DEF m
<1>8. \A i \in 1 .. n : i > m => i \notin I
  BY <1>1, <1>7
<1>9. LastKept(nodes) = m
  BY <1>5 DEF m
<1> QED
  BY <1>1, <1>4, <1>7, <1>8, <1>9

LEMMA JoinedTexts ==
  ASSUME NEW node, IsNode(node), node.type = "comment", NEW lines \in Seq(CommentLines),
         NEW joined, joined = [node EXCEPT !.words = @ \o lines,
                                           !.edited = @ \/ lines # <<>>]
  PROVE  IsNode(joined) /\ TextsOf(joined) = Glue(TextsOf(node), Prose(lines))
<1>1. node.words \in Seq(CommentLines) /\ node.edited \in BOOLEAN
  BY DEF IsNode
<1>2. /\ node.words \o lines \in Seq(CommentLines)
      /\ Prose(node.words \o lines) = Prose(node.words) \o Prose(lines)
  BY <1>1, ProseConcat
<1> DEFINE words == node.words \o lines
           edited == node.edited \/ lines # <<>>
<1>3. edited \in BOOLEAN
  BY <1>1
<1>4. joined = [node EXCEPT !.words = words, !.edited = edited]
  OBVIOUS
<1> HIDE DEF words, edited
<1> DEFINE new == [id |-> node.id, type |-> node.type, in |-> node.in, edited |-> edited,
                   name |-> node.name, modifier |-> node.modifier, words |-> words,
                   comment |-> node.comment]
<1>5. joined = new
  BY <1>4 DEF IsNode
<1>6. new.type = "comment" /\ new.words = words /\ new.edited = edited
  OBVIOUS
<1>7. IsNode(new)
  BY <1>2, <1>3 DEF IsNode, words
<1> HIDE DEF new
<1>8. TextsOf(new) = Prose(words)
  BY <1>6 DEF TextsOf
<1>9. TextsOf(node) = Prose(node.words)
  BY DEF TextsOf
<1>10. Prose(words) = Glue(Prose(node.words), Prose(lines))
  BY <1>2 DEF Glue, words
<1> QED
  BY <1>5, <1>7, <1>8, <1>9, <1>10

LEMMA DeletedTexts ==
  ASSUME NEW node, IsNode(node)
  PROVE  /\ IsNode([node EXCEPT !.type = "deleted"])
         /\ TextsOf([node EXCEPT !.type = "deleted"]) = <<>>
<1> DEFINE deleted == [node EXCEPT !.type = "deleted"]
<1>1. deleted = [id |-> node.id, type |-> "deleted", in |-> node.in, edited |-> node.edited,
                 name |-> node.name, modifier |-> node.modifier, words |-> node.words,
                 comment |-> node.comment] /\ node.edited \in BOOLEAN
  BY DEF IsNode
<1> HIDE DEF deleted
<1>2. deleted.type = "deleted" /\ deleted.edited = node.edited
  BY <1>1
<1>3. TextsOf(deleted) = <<>>
  BY <1>2 DEF TextsOf
<1>4. IsNode(deleted)
  BY <1>1, <1>2 DEF IsNode
<1> QED
  BY <1>3, <1>4 DEF deleted

LEMMA TreeMapped ==
  ASSUME NEW nodes, IsTree(nodes), NEW mapped, mapped = [i \in DOMAIN nodes |-> mapped[i]],
         \A i \in DOMAIN nodes : IsNode(mapped[i])
  PROVE  IsTree(mapped)
<1> DEFINE T == {mapped[i] : i \in DOMAIN nodes}
           n == Len(nodes)
<1>1. n \in Nat /\ DOMAIN nodes = 1 .. n
  BY DEF IsTree
<1>2. \A node \in T : IsNode(node)
  OBVIOUS
<1>3. \A i \in 1 .. n : mapped[i] \in T
  BY <1>1
<1> HIDE DEF T, n
<1>4. mapped \in Seq(T)
  BY <1>1, <1>3, FunctionSeq
<1> QED
  BY <1>2, <1>4, TreeIs

LEMMA JoinCommentsTexts ==
  ASSUME NEW done, IsTree(done), NEW node, IsNode(node)
  PROVE  /\ IsTree(JoinComments(done, node))
         /\ Texts(JoinComments(done, node)) = Texts(done) \o TextsOf(node)
<1> DEFINE last == LastKept(done)
           joins == /\ node.type = "comment" /\ last # 0
                    /\ done[last].type = "comment" /\ done[last].in = node.in
           joined == [done EXCEPT ![last].words = @ \o node.words,
                                  ![last].edited = @ \/ node.words # <<>>]
           deleted == [node EXCEPT !.type = "deleted"]
<1>1. JoinComments(done, node) = IF joins THEN Append(joined, deleted) ELSE Append(done, node)
  BY Zenon DEF JoinComments, LastKept
<1> HIDE DEF last
<1>2. CASE joins
  <2>1. last \in DOMAIN done /\ \A i \in DOMAIN done : i > last => done[i].type = "deleted"
    BY <1>2, LastKeptIs DEF last
  <2>2. node.words \in Seq(CommentLines)
    BY <1>2 DEF IsNode
  <2>3. done \in Seq(ToSet(done)) /\ \A i \in DOMAIN done : IsNode(done[i])
    BY DEF IsTree, ToSet
  <2>4. /\ joined = [i \in DOMAIN done |-> joined[i]] /\ DOMAIN joined = DOMAIN done
        /\ \A i \in DOMAIN done : i # last => joined[i] = done[i]
        /\ joined[last] = [done[last] EXCEPT !.words = @ \o node.words,
                                             !.edited = @ \/ node.words # <<>>]
    BY <2>1
  <2> HIDE DEF joined
  <2>5. IsNode(joined[last]) /\ TextsOf(joined[last]) = Glue(TextsOf(done[last]), Prose(node.words))
    <3>1. IsNode(done[last]) /\ done[last].type = "comment"
      BY <1>2, <2>1, <2>3
    <3> QED
      BY <2>2, <2>4, <3>1, JoinedTexts
  <2>6. \A i \in DOMAIN done : IsNode(joined[i])
    BY <2>3, <2>4, <2>5
  <2>7. IsTree(joined)
    BY <2>4, <2>6, TreeMapped
  <2>8. IsNode(deleted) /\ TextsOf(deleted) = <<>>
    BY DeletedTexts
  <2> HIDE DEF deleted
  <2> DEFINE u == [i \in DOMAIN done |-> TextsOf(done[i])]
             v == [i \in DOMAIN joined |-> TextsOf(joined[i])]
             n == Len(done)
  <2>9. n \in Nat /\ DOMAIN done = 1 .. n
    BY <2>3
  <2>10. \A i \in DOMAIN done : u[i] \in Seq(Comments) /\ v[i] \in Seq(Comments)
    BY <2>3, <2>4, <2>6, TextsOfType
  <2>11. /\ u = [i \in 1 .. n |-> u[i]] /\ v = [i \in 1 .. n |-> v[i]]
         /\ \A i \in 1 .. n : u[i] = TextsOf(done[i]) /\ v[i] = TextsOf(joined[i])
    BY <2>4, <2>9
  <2>12. Texts(done) = FlattenSeq(u) /\ Texts(joined) = FlattenSeq(v)
    BY DEF Texts
  <2> HIDE DEF u, v, n
  <2>13. /\ u \in Seq(Seq(Comments)) /\ v \in Seq(Seq(Comments)) /\ Len(u) = n /\ Len(v) = n
         /\ DOMAIN u = 1 .. n
    BY <2>9, <2>10, <2>11, FunctionSeq
  <2>14. SameBut(u, v, last)
    BY <2>4, <2>9, <2>11, <2>13 DEF SameBut
  <2>15. NothingBehind(u, last)
    <3>1. \A i \in DOMAIN done : i > last => TextsOf(done[i]) = <<>>
      BY <2>1 DEF TextsOf
    <3> QED
      BY <2>9, <2>11, <2>13, <3>1 DEF NothingBehind
  <2>16. v[last] = Glue(u[last], Prose(node.words)) /\ last \in DOMAIN u
    BY <2>1, <2>5, <2>9, <2>11, <2>13
  <2>17. Prose(node.words) \in Seq(Comments)
    BY <2>2, ProseIs
  <2>18. Texts(joined) = Glue(Texts(done), Prose(node.words))
    <3> DEFINE e == Prose(node.words)
    <3>1. e \in Seq(Comments) /\ v[last] = Glue(u[last], e)
      BY <2>16, <2>17
    <3> HIDE DEF e
    <3>2. FlattenSeq(v) = Glue(FlattenSeq(u), e)
      BY <2>13, <2>14, <2>15, <2>16, <3>1, AddedAtLast
    <3> QED
      BY <2>12, <3>2 DEF e
  <2>19. TextsOf(node) = Prose(node.words)
    BY <1>2 DEF TextsOf
  <2>20. Texts(Append(joined, deleted)) = Texts(joined) \o <<>>
    BY <2>7, <2>8, TextsAppend
  <2>21. Texts(joined) \in Seq(Comments)
    BY <2>7, TextsType
  <2>22. Texts(joined) \o <<>> = Texts(joined)
    BY <2>21
  <2>23. IsTree(Append(joined, deleted))
    BY <2>7, <2>8, TreeAppend
  <2>24. JoinComments(done, node) = Append(joined, deleted)
    BY <1>1, <1>2
  <2> QED
    BY <2>18, <2>19, <2>20, <2>22, <2>23, <2>24 DEF Glue
<1>3. CASE ~joins
  BY <1>1, <1>3, TreeAppend, TextsAppend
<1> QED
  BY <1>2, <1>3

(* A walk has been past the first nodes.                                   *)
TextsOfFirst(done, n, nodes) ==
  IsTree(done) /\ Texts(done) = Texts(SubSeq(nodes, 1, n))

JoiningTexts == INSTANCE FoldInduction WITH op <- JoinComments, Holds <- TextsOfFirst

LEMMA TextsOneMore ==
  ASSUME NEW nodes, IsTree(nodes), NEW i \in DOMAIN nodes
  PROVE  IsNode(nodes[i]) /\ Texts(SubSeq(nodes, 1, i)) = Texts(SubSeq(nodes, 1, i - 1)) \o TextsOf(nodes[i])
<1>1. nodes \in Seq(ToSet(nodes)) /\ \A node \in ToSet(nodes) : IsNode(node)
  BY DEF IsTree
<1>2. /\ SubSeq(nodes, 1, i - 1) \in Seq(ToSet(nodes)) /\ nodes[i] \in ToSet(nodes)
      /\ SubSeq(nodes, 1, i) = Append(SubSeq(nodes, 1, i - 1), nodes[i])
  BY <1>1, OneMore
<1>3. IsTree(SubSeq(nodes, 1, i - 1))
  BY <1>1, <1>2, TreeIs
<1> QED
  BY <1>1, <1>2, <1>3, TextsAppend

LEMMA BalanceTexts ==
  ASSUME NEW nodes, IsTree(nodes)
  PROVE  IsTree(Balance(nodes)) /\ Texts(Balance(nodes)) = Texts(nodes)
<1>1. nodes \in Seq(ToSet(nodes))
  BY DEF IsTree
<1>2. TextsOfFirst(<<>>, 0, nodes)
  BY <1>1, NoneAndAll, TreeEmpty DEF TextsOfFirst
<1>3. \A i \in DOMAIN nodes : \A done :
        TextsOfFirst(done, i - 1, nodes) => TextsOfFirst(JoinComments(done, nodes[i]), i, nodes)
  BY TextsOneMore, JoinCommentsTexts DEF TextsOfFirst
<1>4. TextsOfFirst(JoiningTexts!Fold(<<>>, nodes), Len(nodes), nodes)
  BY <1>1, <1>2, <1>3, JoiningTexts!FoldHolds
<1>5. Balance(nodes) = JoiningTexts!Fold(<<>>, nodes)
  BY Zenon DEF Balance, JoiningTexts!Fold, JoiningTexts!Greatest,
     FoldLeft, MapThenFoldSet, Max
<1> QED
  BY <1>1, <1>4, <1>5, NoneAndAll DEF TextsOfFirst

-----------------------------------------------------------------------------
(* A node that may have another modifier, other words and another comment. *)
Rewritten(node, changed) ==
  /\ changed = [node EXCEPT !.edited = changed.edited, !.modifier = changed.modifier,
                            !.words = changed.words, !.comment = changed.comment]
  /\ changed.edited \in BOOLEAN

LEMMA ChangedNode ==
  ASSUME NEW node, IsNode(node), NEW changed, Rewritten(node, changed),
         node.type = "comment" => changed.words \in Seq(CommentLines)
  PROVE  IsNode(changed) /\ changed.type = node.type
<1> DEFINE new == [id |-> node.id, type |-> node.type, in |-> node.in,
                   edited |-> changed.edited, name |-> node.name,
                   modifier |-> changed.modifier, words |-> changed.words,
                   comment |-> changed.comment]
<1>1. changed = new /\ changed.edited \in BOOLEAN
  BY DEF IsNode, Rewritten
<1>2. /\ new.type = node.type /\ new.words = changed.words /\ new.edited = changed.edited
      /\ new.comment = changed.comment
  OBVIOUS
<1>3. IsNode(new)
  BY <1>1 DEF IsNode
<1> HIDE DEF new
<1> QED
  BY <1>1, <1>2, <1>3

(* refactor.remove-consecutive-empty-lines leaves all that are not blank.  *)
LinesOfFirst(done, n, lines) ==
  done.lines \in Seq(CommentLines) /\ Prose(done.lines) = Prose(SubSeq(lines, 1, n))

TakingProse == INSTANCE FoldInduction WITH op <- TakeLine, Holds <- LinesOfFirst

LEMMA TakeLineProse ==
  ASSUME NEW lines \in Seq(CommentLines), NEW i \in DOMAIN lines, NEW done,
         LinesOfFirst(done, i - 1, lines)
  PROVE  LinesOfFirst(TakeLine(done, lines[i]), i, lines)
<1> DEFINE line == lines[i]
           before == SubSeq(lines, 1, i - 1)
           after == TakeLine(done, line).lines
<1>1. /\ before \in Seq(CommentLines) /\ line \in CommentLines
      /\ SubSeq(lines, 1, i) = Append(before, line)
  BY OneMore
<1>2. done.lines \in Seq(CommentLines) /\ Prose(done.lines) = Prose(before)
  BY DEF LinesOfFirst
<1> HIDE DEF before, line
<1>3. Prose(Append(before, line)) = Prose(before) \o ProseOf[line]
  BY <1>1, ProseAppend
<1>4. Prose(before) \in Seq(Comments)
  BY <1>1, ProseIs
<1>5. after \in Seq(CommentLines) /\ Prose(after) = Prose(Append(before, line))
  <2>1. CASE line = "blank" /\ (done.empty > 0 \/ done.counter <= 2)
    <3>1. after = done.lines
      BY <2>1 DEF TakeLine
    <3>2. ProseOf[line] = <<>>
      BY <1>1, <2>1 DEF ProseOf
    <3>3. Prose(before) \o <<>> = Prose(before)
      BY <1>4
    <3> HIDE DEF after
    <3> QED
      BY <1>2, <1>3, <3>1, <3>2, <3>3
  <2>2. CASE ~(line = "blank" /\ (done.empty > 0 \/ done.counter <= 2))
    <3>1. after = Append(done.lines, line)
      BY <2>2 DEF TakeLine
    <3> HIDE DEF after
    <3>2. /\ Append(done.lines, line) \in Seq(CommentLines)
          /\ Prose(Append(done.lines, line)) = Prose(done.lines) \o ProseOf[line]
      BY <1>1, <1>2, ProseAppend
    <3> QED
      BY <1>2, <1>3, <3>1, <3>2
  <2> QED
    BY <2>1, <2>2
<1> QED
  BY <1>1, <1>5 DEF LinesOfFirst, line

LEMMA TakeLinesProse ==
  ASSUME NEW counter, NEW lines \in Seq(CommentLines)
  PROVE  /\ TakeLines(counter, lines).lines \in Seq(CommentLines)
         /\ Prose(TakeLines(counter, lines).lines) = Prose(lines)
<1> DEFINE base == [counter |-> counter, empty |-> 0, lines |-> <<>>]
<1>1. SubSeq(lines, 1, 0) = <<>> /\ SubSeq(lines, 1, Len(lines)) = lines
  BY NoneAndAll
<1>2. LinesOfFirst(base, 0, lines)
  <2>1. base.lines = <<>> /\ <<>> \in Seq(CommentLines)
    OBVIOUS
  <2> HIDE DEF base
  <2> QED
    BY <1>1, <2>1 DEF LinesOfFirst
<1>3. \A i \in DOMAIN lines : \A done :
        LinesOfFirst(done, i - 1, lines) => LinesOfFirst(TakeLine(done, lines[i]), i, lines)
  BY TakeLineProse
<1> HIDE DEF base
<1>4. LinesOfFirst(TakingProse!Fold(base, lines), Len(lines), lines)
  BY <1>2, <1>3, TakingProse!FoldHolds
<1>5. TakeLines(counter, lines) = TakingProse!Fold(base, lines)
  BY Zenon DEF TakeLines, base, TakingProse!Fold, TakingProse!Greatest,
     FoldLeft, MapThenFoldSet, Max
<1> QED
  BY <1>1, <1>4, <1>5 DEF LinesOfFirst

TextsInTree(done, n, nodes) == TextsOfFirst(done.tree, n, nodes)

ThinningTexts == INSTANCE FoldInduction WITH op <- TakeNode, Holds <- TextsInTree

LEMMA TextsTaken ==
  ASSUME NEW nodes, IsTree(nodes), NEW i \in DOMAIN nodes, NEW done,
         TextsOfFirst(done, i - 1, nodes),
         NEW node, IsNode(node), TextsOf(node) = TextsOf(nodes[i])
  PROVE  TextsOfFirst(Append(done, node), i, nodes)
<1>1. IsTree(done) /\ Texts(done) = Texts(SubSeq(nodes, 1, i - 1))
  BY DEF TextsOfFirst
<1>2. Texts(Append(done, node)) = Texts(done) \o TextsOf(node)
  BY <1>1, TextsAppend
<1>3. IsTree(Append(done, node))
  BY <1>1, TreeAppend
<1>4. Texts(SubSeq(nodes, 1, i)) = Texts(SubSeq(nodes, 1, i - 1)) \o TextsOf(nodes[i])
  BY TextsOneMore
<1> QED
  BY <1>1, <1>2, <1>3, <1>4 DEF TextsOfFirst

LEMMA TakeNodeTexts ==
  ASSUME NEW nodes, IsTree(nodes), NEW i \in DOMAIN nodes, NEW done,
         TextsInTree(done, i - 1, nodes)
  PROVE  TextsInTree(TakeNode(done, nodes[i]), i, nodes)
<1> DEFINE node == nodes[i]
<1>1. IsNode(node) /\ TextsOfFirst(done.tree, i - 1, nodes)
  BY TextsOneMore DEF TextsInTree
<1>2. CASE node.type = "comment"
  <2> DEFINE lines == TakeLines(done.counter + 1, node.words).lines
             edited == node.edited \/ lines # node.words
             thinned == [node EXCEPT !.words = lines, !.edited = @ \/ lines # node.words]
  <2>1. TakeNode(done, node).tree = Append(done.tree, thinned)
    BY <1>2 DEF TakeNode
  <2>2. node.words \in Seq(CommentLines)
    BY <1>1, <1>2 DEF IsNode
  <2>3. lines \in Seq(CommentLines) /\ Prose(lines) = Prose(node.words)
    BY <2>2, TakeLinesProse
  <2> HIDE DEF lines
  <2>4. edited \in BOOLEAN
    BY <1>1 DEF IsNode
  <2>5. thinned = [node EXCEPT !.edited = edited, !.modifier = thinned.modifier,
                               !.words = lines, !.comment = thinned.comment]
        /\ thinned.edited = edited /\ thinned.words = lines
    BY <1>1 DEF IsNode
  <2> HIDE DEF edited, thinned
  <2>6. IsNode(thinned) /\ thinned.type = "comment"
    <3>1. Rewritten(node, thinned)
      BY <2>4, <2>5 DEF Rewritten
    <3>2. IsNode(node) /\ thinned.words \in Seq(CommentLines)
      BY <1>1, <2>3, <2>5
    <3> HIDE DEF node
    <3> QED
      BY <1>2, <3>1, <3>2, ChangedNode
  <2>7. TextsOf(thinned) = TextsOf(node)
    BY <1>2, <2>3, <2>5, <2>6 DEF TextsOf
  <2>8. TextsOfFirst(Append(done.tree, thinned), i, nodes)
    BY <1>1, <2>6, <2>7, TextsTaken
  <2> QED
    BY <2>1, <2>8 DEF TextsInTree
<1>3. CASE node.type # "comment"
  <2>1. TakeNode(done, node).tree = Append(done.tree, node)
    BY <1>3 DEF TakeNode
  <2>2. TextsOfFirst(Append(done.tree, node), i, nodes)
    BY <1>1, TextsTaken
  <2> QED
    BY <2>1, <2>2 DEF TextsInTree
<1> QED
  BY <1>2, <1>3

LEMMA RemoveConsecutiveEmptyLinesTexts ==
  ASSUME NEW nodes, IsTree(nodes)
  PROVE  /\ IsTree(RemoveConsecutiveEmptyLines(nodes))
         /\ Texts(RemoveConsecutiveEmptyLines(nodes)) = Texts(nodes)
<1> DEFINE base == [counter |-> 1, tree |-> <<>>]
<1>1. nodes \in Seq(ToSet(nodes))
  BY DEF IsTree
<1>2. SubSeq(nodes, 1, 0) = <<>> /\ SubSeq(nodes, 1, Len(nodes)) = nodes
  BY <1>1, NoneAndAll
<1>3. TextsInTree(base, 0, nodes)
  BY <1>2, TreeEmpty DEF TextsInTree, TextsOfFirst
<1>4. \A i \in DOMAIN nodes : \A done :
        TextsInTree(done, i - 1, nodes) => TextsInTree(TakeNode(done, nodes[i]), i, nodes)
  BY TakeNodeTexts
<1> HIDE DEF base
<1>5. TextsInTree(ThinningTexts!Fold(base, nodes), Len(nodes), nodes)
  BY <1>1, <1>3, <1>4, ThinningTexts!FoldHolds
<1>6. RemoveConsecutiveEmptyLines(nodes) = ThinningTexts!Fold(base, nodes).tree
  BY Zenon DEF RemoveConsecutiveEmptyLines, base, ThinningTexts!Fold, ThinningTexts!Greatest,
     FoldLeft, MapThenFoldSet, Max
<1> QED
  BY <1>2, <1>5, <1>6 DEF TextsInTree, TextsOfFirst

-----------------------------------------------------------------------------
(* Edits that put one node in the place of each, or none for one without a *)
(* comment.                                                                *)
Reassigned(node, changed) ==
  /\ changed = [node EXCEPT !.edited = changed.edited, !.modifier = changed.modifier,
                            !.words = changed.words]
  /\ changed.edited \in BOOLEAN

LEMMA VariableChanged ==
  ASSUME NEW node, IsNode(node), node.type = "variable", NEW changed, Reassigned(node, changed)
  PROVE  /\ IsNode(changed) /\ changed.type = "variable" /\ changed.id = node.id
         /\ TextsOf(changed) = TextsOf(node)
<1> DEFINE new == [id |-> node.id, type |-> node.type, in |-> node.in,
                   edited |-> changed.edited, name |-> node.name,
                   modifier |-> changed.modifier, words |-> changed.words,
                   comment |-> node.comment]
<1>1. changed = new /\ changed.edited \in BOOLEAN
  BY DEF IsNode, Reassigned
<1>2. /\ new.type = "variable" /\ new.words = changed.words /\ new.edited = changed.edited
      /\ new.comment = node.comment /\ new.id = node.id
  OBVIOUS
<1>3. IsNode(new)
  BY <1>1 DEF IsNode
<1> HIDE DEF new
<1>4. TextsOf(new) = TextsOf(node)
  BY <1>2 DEF TextsOf
<1> QED
  BY <1>1, <1>2, <1>3, <1>4

LEMMA TextsRemade ==
  ASSUME NEW nodes, IsTree(nodes), NEW mapped, mapped = [i \in DOMAIN nodes |-> mapped[i]],
         \A i \in DOMAIN nodes : IsNode(mapped[i]) /\ TextsOf(mapped[i]) = TextsOf(nodes[i])
  PROVE  IsTree(mapped) /\ Texts(mapped) = Texts(nodes)
<1>1. IsTree(mapped)
  BY TreeMapped
<1>2. DOMAIN mapped = DOMAIN nodes
  OBVIOUS
<1>3. Texts(mapped) = Texts(nodes)
  BY <1>2, TextsSame
<1> QED
  BY <1>1, <1>3

LEMMA TreeNodes ==
  ASSUME NEW nodes, IsTree(nodes)
  PROVE  nodes \in Seq(ToSet(nodes)) /\ \A i \in DOMAIN nodes : IsNode(nodes[i])
  BY DEF IsTree, ToSet

LEMMA TrimmedProse ==
  ASSUME NEW lines \in Seq(CommentLines)
  PROVE  /\ [k \in DOMAIN lines |-> Trim(lines[k])] \in Seq(CommentLines)
         /\ Prose([k \in DOMAIN lines |-> Trim(lines[k])]) = Prose(lines)
<1> DEFINE trimmed == [k \in DOMAIN lines |-> Trim(lines[k])]
           n == Len(lines)
<1>1. n \in Nat /\ DOMAIN lines = 1 .. n /\ \A k \in 1 .. n : lines[k] \in CommentLines
  OBVIOUS
<1>2. \A line \in CommentLines :
        /\ Trim(line) \in CommentLines /\ Trim(Trim(line)) = Trim(line)
        /\ Trim(line) = "blank" <=> line = "blank"
  BY DEF CommentLines, Trim
<1>3. \A k \in 1 .. n : trimmed[k] = Trim(lines[k]) /\ trimmed[k] \in CommentLines
  BY <1>1, <1>2
<1>4. trimmed = [k \in 1 .. n |-> trimmed[k]]
  BY <1>1
<1> HIDE DEF trimmed, n
<1>5. trimmed \in Seq(CommentLines) /\ DOMAIN trimmed = DOMAIN lines
  BY <1>1, <1>3, <1>4, FunctionSeq
<1>6. \A k \in DOMAIN lines : ProseOf[trimmed[k]] = ProseOf[lines[k]]
  BY <1>1, <1>2, <1>3 DEF ProseOf
<1>7. Mapped(ProseOf, trimmed) = Mapped(ProseOf, lines)
  BY <1>5, <1>6, MappedSame
<1>8. Prose(trimmed) = Prose(lines)
  BY <1>5, <1>7, ProseIs
<1> QED
  BY <1>5, <1>8 DEF trimmed

LEMMA SanitizeCommentsTexts ==
  ASSUME NEW nodes, IsTree(nodes)
  PROVE  /\ IsTree(SanitizeComments(nodes)) /\ Texts(SanitizeComments(nodes)) = Texts(nodes)
         /\ Numbered(nodes) => Numbered(SanitizeComments(nodes))
<1> DEFINE trims(node) == node.type = "comment" /\ InTarget(node)
           trimmed(node) == [node EXCEPT !.words = [k \in DOMAIN @ |-> Trim(@[k])],
                                         !.edited = TRUE]
           mapped == [i \in DOMAIN nodes |->
                        IF trims(nodes[i]) THEN trimmed(nodes[i]) ELSE nodes[i]]
<1>1. SanitizeComments(nodes) = mapped
  BY DEF SanitizeComments, MapNodes
<1>2. nodes \in Seq(ToSet(nodes)) /\ \A i \in DOMAIN nodes : IsNode(nodes[i])
  BY TreeNodes
<1>3. ASSUME NEW i \in DOMAIN nodes
      PROVE  /\ IsNode(mapped[i]) /\ TextsOf(mapped[i]) = TextsOf(nodes[i])
             /\ mapped[i].id = nodes[i].id
  <2>1. CASE ~trims(nodes[i])
    BY <1>2, <2>1
  <2>2. CASE trims(nodes[i])
    <3> DEFINE node == nodes[i]
               new == trimmed(node)
               words == [k \in DOMAIN node.words |-> Trim(node.words[k])]
    <3>1. IsNode(node) /\ node.type = "comment" /\ mapped[i] = new
      BY <1>2, <2>2
    <3>2. node.words \in Seq(CommentLines)
      BY <3>1 DEF IsNode
    <3>3. words \in Seq(CommentLines) /\ Prose(words) = Prose(node.words)
      BY <3>2, TrimmedProse
    <3>4. new = [node EXCEPT !.words = words, !.edited = TRUE]
      OBVIOUS
    <3> HIDE DEF words, new, node
    <3>5. Rewritten(node, new) /\ new.words = words /\ new.id = node.id
      BY <3>1, <3>4 DEF IsNode, Rewritten
    <3>6. IsNode(new) /\ new.type = "comment"
      BY <3>1, <3>3, <3>5, ChangedNode
    <3>7. TextsOf(new) = TextsOf(node)
      BY <3>1, <3>3, <3>5, <3>6 DEF TextsOf
    <3> QED
      BY <3>1, <3>5, <3>6, <3>7 DEF node
  <2> QED
    BY <2>1, <2>2
<1>4. mapped = [i \in DOMAIN nodes |-> mapped[i]] /\ DOMAIN mapped = DOMAIN nodes
  OBVIOUS
<1> HIDE DEF mapped
<1>5. IsTree(mapped) /\ Texts(mapped) = Texts(nodes)
  BY <1>3, <1>4, TextsRemade
<1>6. Numbered(nodes) => Numbered(mapped)
  BY <1>3, <1>4 DEF Numbered
<1> QED
  BY <1>1, <1>5, <1>6

LEMMA SanitizeCmakeArgsTexts ==
  ASSUME NEW nodes, IsTree(nodes)
  PROVE  /\ IsTree(SanitizeCmakeArgs(nodes)) /\ Texts(SanitizeCmakeArgs(nodes)) = Texts(nodes)
         /\ Numbered(nodes) => Numbered(SanitizeCmakeArgs(nodes))
<1> DEFINE joins(node) == node.type = "variable" /\ node.name \in CmakeNames
           joined(node) == [node EXCEPT !.words = JoinDashD(@)]
           mapped == [i \in DOMAIN nodes |->
                        IF joins(nodes[i]) THEN joined(nodes[i]) ELSE nodes[i]]
<1>1. SanitizeCmakeArgs(nodes) = mapped
  BY DEF SanitizeCmakeArgs, MapNodes
<1>2. nodes \in Seq(ToSet(nodes)) /\ \A i \in DOMAIN nodes : IsNode(nodes[i])
  BY TreeNodes
<1>3. ASSUME NEW i \in DOMAIN nodes
      PROVE  IsNode(mapped[i]) /\ TextsOf(mapped[i]) = TextsOf(nodes[i])
  <2>1. CASE ~joins(nodes[i])
    BY <1>2, <2>1
  <2>2. CASE joins(nodes[i])
    <3> DEFINE node == nodes[i]
               new == joined(node)
    <3>1. IsNode(node) /\ node.type = "variable" /\ mapped[i] = new
      BY <1>2, <2>2
    <3>2. new = [node EXCEPT !.words = JoinDashD(node.words)]
      BY <3>1 DEF IsNode
    <3> HIDE DEF new, node
    <3>3. Reassigned(node, new)
      BY <3>1, <3>2 DEF IsNode, Reassigned
    <3>4. IsNode(new) /\ TextsOf(new) = TextsOf(node)
      BY <3>1, <3>3, VariableChanged
    <3> QED
      BY <3>1, <3>4 DEF node
  <2> QED
    BY <2>1, <2>2
<1>4. mapped = [i \in DOMAIN nodes |-> mapped[i]]
  OBVIOUS
<1> HIDE DEF mapped
<1>5. IsTree(mapped) /\ Texts(mapped) = Texts(nodes)
  BY <1>3, <1>4, TextsRemade
<1> QED
  BY <1>1, <1>5, CmakeArgsIds

LEMMA DedupTokensTexts ==
  ASSUME NEW nodes, IsTree(nodes), NEW editedonly
  PROVE  /\ IsTree(DedupTokens(nodes, editedonly))
         /\ Texts(DedupTokens(nodes, editedonly)) = Texts(nodes)
<1> DEFINE dedups(node) == /\ node.type = "variable" /\ node.name \in DedupNames
                           /\ node.modifier # "!=" /\ (editedonly => node.edited)
           deduped(node) == [node EXCEPT !.words = Deduped(node),
                                         !.edited = @ \/ Deduped(node) # node.words]
           mapped == [i \in DOMAIN nodes |->
                        IF dedups(nodes[i]) THEN deduped(nodes[i]) ELSE nodes[i]]
<1>1. DedupTokens(nodes, editedonly) = mapped
  BY DEF DedupTokens, MapNodes
<1>2. nodes \in Seq(ToSet(nodes)) /\ \A i \in DOMAIN nodes : IsNode(nodes[i])
  BY TreeNodes
<1>3. ASSUME NEW i \in DOMAIN nodes
      PROVE  IsNode(mapped[i]) /\ TextsOf(mapped[i]) = TextsOf(nodes[i])
  <2>1. CASE ~dedups(nodes[i])
    BY <1>2, <2>1
  <2>2. CASE dedups(nodes[i])
    <3> DEFINE node == nodes[i]
               new == deduped(node)
               edited == node.edited \/ Deduped(node) # node.words
               words == Deduped(node)
    <3>1. IsNode(node) /\ node.type = "variable" /\ mapped[i] = new
      BY <1>2, <2>2
    <3>2. new = [node EXCEPT !.words = words, !.edited = edited] /\ edited \in BOOLEAN
      BY <3>1 DEF IsNode
    <3> HIDE DEF new, node, words, edited
    <3>3. Reassigned(node, new)
      BY <3>1, <3>2 DEF IsNode, Reassigned
    <3>4. IsNode(new) /\ TextsOf(new) = TextsOf(node)
      BY <3>1, <3>3, VariableChanged
    <3> QED
      BY <3>1, <3>4 DEF node
  <2> QED
    BY <2>1, <2>2
<1>4. mapped = [i \in DOMAIN nodes |-> mapped[i]]
  OBVIOUS
<1> HIDE DEF mapped
<1>5. IsTree(mapped) /\ Texts(mapped) = Texts(nodes)
  BY <1>3, <1>4, TextsRemade
<1> QED
  BY <1>1, <1>5

-----------------------------------------------------------------------------
(* Edits that change more than nodes on their own.                         *)
LEMMA AppendSanitizedTexts ==
  ASSUME NEW node, IsNode(node), node.type = "variable", NEW seen
  PROVE  /\ IsNode(AppendSanitizedIn(node, seen))
         /\ TextsOf(AppendSanitizedIn(node, seen)) = TextsOf(node)
<1> DEFINE new == AppendSanitizedIn(node, seen)
           marked == node.modifier = "+=" /\ node.name \notin FlagNames \ seen
           modifier == IF AppendIsFirst(node, seen) THEN "=" ELSE node.modifier
<1>1. new = [node EXCEPT !.modifier = modifier, !.edited = node.edited \/ marked]
  BY DEF AppendSanitizedIn, IsNode
<1>2. (node.edited \/ marked) \in BOOLEAN
  BY DEF IsNode
<1> HIDE DEF new, marked, modifier
<1>3. Reassigned(node, new)
  BY <1>1, <1>2 DEF IsNode, Reassigned
<1>4. IsNode(new) /\ TextsOf(new) = TextsOf(node)
  BY <1>3, VariableChanged
<1> QED
  BY <1>4 DEF new

AppendingTexts == INSTANCE FoldInduction WITH op <- TakeAppend, Holds <- TextsInTree

LEMMA TakeAppendTexts ==
  ASSUME NEW nodes, IsTree(nodes), NEW i \in DOMAIN nodes, NEW done,
         TextsInTree(done, i - 1, nodes)
  PROVE  TextsInTree(TakeAppend(done, nodes[i]), i, nodes)
<1> DEFINE node == nodes[i]
<1>1. IsNode(node) /\ TextsOfFirst(done.tree, i - 1, nodes)
  BY TextsOneMore DEF TextsInTree
<1>2. CASE node.type = "variable"
  <2> DEFINE new == AppendSanitizedIn(node, done.seen)
  <2>1. TakeAppend(done, node).tree = Append(done.tree, new)
    BY <1>2 DEF TakeAppend
  <2>2. IsNode(new) /\ TextsOf(new) = TextsOf(node)
    BY <1>1, <1>2, AppendSanitizedTexts
  <2> HIDE DEF new
  <2>3. TextsOfFirst(Append(done.tree, new), i, nodes)
    BY <1>1, <2>2, TextsTaken
  <2> QED
    BY <2>1, <2>3 DEF TextsInTree
<1>3. CASE node.type # "variable"
  <2>1. TakeAppend(done, node).tree = Append(done.tree, node)
    BY <1>3 DEF TakeAppend
  <2>2. TextsOfFirst(Append(done.tree, node), i, nodes)
    BY <1>1, TextsTaken
  <2> QED
    BY <2>1, <2>2 DEF TextsInTree
<1> QED
  BY <1>2, <1>3

(* A tree is cut in two.                                                   *)
LEMMA TreeCut ==
  ASSUME NEW nodes, IsTree(nodes), NEW n \in 0 .. Len(nodes)
  PROVE  /\ IsTree(SubSeq(nodes, 1, n)) /\ IsTree(SubSeq(nodes, n + 1, Len(nodes)))
         /\ nodes = SubSeq(nodes, 1, n) \o SubSeq(nodes, n + 1, Len(nodes))
<1> DEFINE T == ToSet(nodes)
           first == SubSeq(nodes, 1, n)
           rest == SubSeq(nodes, n + 1, Len(nodes))
<1>1. nodes \in Seq(T) /\ \A node \in T : IsNode(node)
  BY DEF IsTree
<1> HIDE DEF T
<1>2. first \in Seq(T) /\ rest \in Seq(T) /\ nodes = first \o rest
  BY <1>1, CutAnywhere
<1> HIDE DEF first, rest
<1>3. IsTree(first) /\ IsTree(rest)
  BY <1>1, <1>2, TreeIs
<1> QED
  BY <1>2, <1>3 DEF first, rest

LEMMA SanitizeAppendModifierTexts ==
  ASSUME NEW nodes, IsTree(nodes)
  PROVE  /\ IsTree(SanitizeAppendModifier(nodes))
         /\ Texts(SanitizeAppendModifier(nodes)) = Texts(nodes)
<1> DEFINE base == [tree |-> <<>>, seen |-> {}]
           stop == StopsAt(nodes, IsBsdPortMk)
           first == SubSeq(nodes, 1, stop)
           rest == SubSeq(nodes, stop + 1, Len(nodes))
           all == FoldLeft(TakeAppend, base, first)
<1>1. SanitizeAppendModifier(nodes) = all.tree \o rest
  BY DEF SanitizeAppendModifier
<1>2. stop \in 0 .. Len(nodes)
  <2>1. Len(nodes) \in Nat
    BY DEF IsTree
  <2> QED
    BY <2>1, StopsAtBsdPortMk
<1> HIDE DEF stop
<1>3. IsTree(first) /\ IsTree(rest) /\ nodes = first \o rest
  BY <1>2, TreeCut
<1> HIDE DEF first, rest
<1>4. first \in Seq(ToSet(first))
  BY <1>3 DEF IsTree
<1>5. SubSeq(first, 1, 0) = <<>> /\ SubSeq(first, 1, Len(first)) = first
  BY <1>4, NoneAndAll
<1>6. TextsInTree(base, 0, first)
  BY <1>5, TreeEmpty DEF TextsInTree, TextsOfFirst
<1>7. \A i \in DOMAIN first : \A done :
        TextsInTree(done, i - 1, first) => TextsInTree(TakeAppend(done, first[i]), i, first)
  BY <1>3, TakeAppendTexts
<1> HIDE DEF base
<1>8. TextsInTree(AppendingTexts!Fold(base, first), Len(first), first)
  BY <1>4, <1>6, <1>7, AppendingTexts!FoldHolds
<1>9. all = AppendingTexts!Fold(base, first)
  BY Zenon DEF all, AppendingTexts!Fold, AppendingTexts!Greatest,
     FoldLeft, MapThenFoldSet, Max
<1> HIDE DEF all
<1>10. IsTree(all.tree) /\ Texts(all.tree) = Texts(first)
  BY <1>5, <1>8, <1>9 DEF TextsInTree, TextsOfFirst
<1>11. IsTree(all.tree \o rest) /\ Texts(all.tree \o rest) = Texts(all.tree) \o Texts(rest)
  BY <1>3, <1>10, TreeConcat, TextsConcat
<1>12. Texts(first \o rest) = Texts(first) \o Texts(rest)
  BY <1>3, TextsConcat
<1> QED
  BY <1>1, <1>3, <1>10, <1>11, <1>12

(* The comments of a single node.                                          *)
LEMMA TextsOne ==
  ASSUME NEW node, IsNode(node)
  PROVE  /\ IsTree(Append(<<>>, node))
         /\ Texts(Append(<<>>, node)) = TextsOf(node)
<1>1. Texts(Append(<<>>, node)) = Texts(<<>>) \o TextsOf(node)
  BY TreeEmpty, TextsAppend
<1>2. TextsOf(node) \in Seq(Comments)
  BY TextsOfType
<1>3. <<>> \o TextsOf(node) = TextsOf(node)
  BY <1>2
<1>4. IsTree(Append(<<>>, node))
  BY TreeEmpty, TreeAppend
<1> QED
  BY <1>1, <1>3, <1>4, TextsNone

(* Trees in a row are a tree.                                              *)
LEMMA TreeFlattened ==
  ASSUME NEW nodes, IsTree(nodes), NEW lists, lists = [i \in DOMAIN nodes |-> lists[i]],
         \A i \in DOMAIN nodes : IsTree(lists[i])
  PROVE  IsTree(FlattenSeq(lists))
<1> DEFINE asread == UNION {ToSet(lists[i]) : i \in DOMAIN nodes}
           all == asread \cup ToSet(nodes)
<1>1. nodes \in Seq(ToSet(nodes)) /\ \A node \in ToSet(nodes) : IsNode(node)
  BY DEF IsTree
<1>2. Kept(nodes, all)
  BY <1>1 DEF Kept, Fine
<1>3. ASSUME NEW i \in DOMAIN nodes
      PROVE  Kept(lists[i], all)
  <2>1. /\ lists[i] \in Seq(ToSet(lists[i])) /\ \A node \in ToSet(lists[i]) : IsNode(node)
        /\ \A node \in ToSet(lists[i]) : node \in all
    BY DEF IsTree
  <2> HIDE DEF all
  <2> QED
    BY <2>1 DEF Kept, Fine
<1> HIDE DEF all
<1>4. Kept(FlattenSeq(lists), all)
  BY <1>2, <1>3, KeptFlatten
<1> QED
  BY <1>4, KeptIsTree

LEMMA CollapseTexts ==
  ASSUME NEW nodes, IsTree(nodes), Numbered(nodes)
  PROVE  /\ IsTree(CollapseAdjacentVariables(nodes))
         /\ Texts(CollapseAdjacentVariables(nodes)) = Texts(nodes)
<1> DEFINE groups == UNION {Groups(Siblings(nodes, nodes[i].in)) : i \in DOMAIN nodes}
           gone == UNION {{group[k].id : k \in 2 .. Len(group)} : group \in groups}
           first(node) == \E group \in groups : group[1].id = node.id
           groupOf(node) == CHOOSE group \in groups : group[1].id = node.id
           merged(node) ==
             IF first(node)
             THEN [node EXCEPT !.edited = TRUE,
                               !.words = FlattenSeq([k \in DOMAIN groupOf(node) |->
                                                       groupOf(node)[k].words])]
             ELSE node
           lists == [i \in DOMAIN nodes |->
                       IF nodes[i].id \in gone THEN <<>> ELSE <<merged(nodes[i])>>]
<1>1. CollapseAdjacentVariables(nodes) = FlattenSeq(lists)
  BY DEF CollapseAdjacentVariables
<1>2. nodes \in Seq(ToSet(nodes)) /\ \A i \in DOMAIN nodes : IsNode(nodes[i])
  BY TreeNodes
<1>3. ASSUME NEW group \in groups, NEW k \in 1 .. Len(group)
      PROVE  group[k] \in Candidates(nodes) /\ 1 \in 1 .. Len(group)
  <2>1. PICK i \in DOMAIN nodes : group \in Groups(Siblings(nodes, nodes[i].in))
    OBVIOUS
  <2>2. group \in Seq(Candidates(nodes)) /\ Len(group) > 1
    BY <1>2, <2>1, GroupsType
  <2> QED
    BY <2>2
<1>4. ASSUME NEW group \in groups
      PROVE  1 \in 1 .. Len(group)
  <2>1. PICK i \in DOMAIN nodes : group \in Groups(Siblings(nodes, nodes[i].in))
    OBVIOUS
  <2>2. group \in Seq(Candidates(nodes)) /\ Len(group) > 1
    BY <1>2, <2>1, GroupsType
  <2> QED
    BY <2>2
<1> HIDE DEF groups
<1>5. ASSUME NEW i \in DOMAIN nodes, NEW group \in groups, NEW k \in 1 .. Len(group),
             group[k].id = nodes[i].id
      PROVE  IsCandidate(nodes[i])
  <2>1. PICK j \in DOMAIN nodes : group[k] = nodes[j] /\ IsCandidate(nodes[j])
    BY <1>3 DEF Candidates, ToSet
  <2>2. i = j
    BY <1>5, <2>1 DEF Numbered
  <2> QED
    BY <2>1, <2>2
<1>6. ASSUME NEW i \in DOMAIN nodes, nodes[i].id \in gone
      PROVE  TextsOf(nodes[i]) = <<>>
  <2>1. PICK group \in groups : \E k \in 2 .. Len(group) : group[k].id = nodes[i].id
    BY <1>6
  <2>2. PICK k \in 2 .. Len(group) : group[k].id = nodes[i].id
    BY <2>1
  <2>3. k \in 1 .. Len(group)
    BY <1>4
  <2>4. IsCandidate(nodes[i])
    BY <1>5, <2>2, <2>3
  <2> QED
    BY <2>4 DEF IsCandidate, TextsOf
<1>7. ASSUME NEW i \in DOMAIN nodes, first(nodes[i])
      PROVE  nodes[i].type = "variable"
  <2>1. PICK group \in groups : group[1].id = nodes[i].id
    BY <1>7
  <2>2. IsCandidate(nodes[i])
    BY <1>4, <1>5, <2>1
  <2> QED
    BY <2>2 DEF IsCandidate
<1> HIDE DEF first, groupOf, gone
<1>8. ASSUME NEW i \in DOMAIN nodes
      PROVE  IsNode(merged(nodes[i])) /\ TextsOf(merged(nodes[i])) = TextsOf(nodes[i])
  <2>1. CASE ~first(nodes[i])
    BY <1>2, <2>1
  <2>2. CASE first(nodes[i])
    <3> DEFINE node == nodes[i]
               new == merged(node)
               words == FlattenSeq([k \in DOMAIN groupOf(node) |-> groupOf(node)[k].words])
    <3>1. new = [node EXCEPT !.edited = TRUE, !.words = words]
      BY <2>2
    <3>2. IsNode(node) /\ node.type = "variable"
      BY <1>2, <1>7, <2>2
    <3> HIDE DEF words, new, node
    <3>3. Reassigned(node, new)
      BY <3>1, <3>2 DEF IsNode, Reassigned
    <3>4. IsNode(new) /\ TextsOf(new) = TextsOf(node)
      BY <3>2, <3>3, VariableChanged
    <3> QED
      BY <3>4 DEF new, node
  <2> QED
    BY <2>1, <2>2
<1> HIDE DEF merged
<1>9. ASSUME NEW i \in DOMAIN nodes
      PROVE  IsTree(lists[i]) /\ Texts(lists[i]) = TextsOf(nodes[i])
  <2>1. CASE nodes[i].id \in gone
    <3>1. lists[i] = <<>>
      BY <2>1
    <3> HIDE DEF lists
    <3> QED
      BY <1>6, <2>1, <3>1, TreeEmpty, TextsNone
  <2>2. CASE nodes[i].id \notin gone
    <3>1. lists[i] = Append(<<>>, merged(nodes[i]))
      BY <2>2
    <3> HIDE DEF lists
    <3> QED
      BY <1>8, <3>1, TextsOne
  <2> QED
    BY <2>1, <2>2
<1>10. lists = [i \in DOMAIN nodes |-> lists[i]] /\ DOMAIN lists = DOMAIN nodes
  OBVIOUS
<1>11. ASSUME NEW i \in DOMAIN nodes
       PROVE  IsTree(lists[i])
  BY <1>9
<1> HIDE DEF lists
<1>12. Texts(FlattenSeq(lists)) = Texts(nodes)
  BY <1>9, <1>10, TextsReplaced
<1>13. IsTree(FlattenSeq(lists))
  BY <1>10, <1>11, TreeFlattened
<1> QED
  BY <1>1, <1>12, <1>13

(* A comment that is moved above its assignment.                           *)
LEMMA ProseOne ==
  ASSUME NEW line \in CommentLines, line # "blank", Trim(line) = line
  PROVE  <<line>> \in Seq(CommentLines) /\ Prose(<<line>>) = <<line>>
<1> DEFINE lines == <<line>>
<1>1. lines \in Seq(CommentLines)
  OBVIOUS
<1>2. Mapped(ProseOf, lines) = ProseOf[line]
  <2>1. Maps(ProseOf, CommentLines, Comments)
    BY <1>1, ProseIs
  <2> QED
    BY <2>1, MappedOne
<1>3. ProseOf[line] = lines
  BY DEF ProseOf
<1> HIDE DEF lines
<1>4. Prose(lines) = Mapped(ProseOf, lines)
  BY <1>1, ProseIs
<1> QED
  BY <1>1, <1>2, <1>3, <1>4 DEF lines

LEMMA TextAbove ==
  ASSUME NEW id, NEW path, NEW above,
         above = [CommentNode(id, path, <<"text">>) EXCEPT !.edited = TRUE]
  PROVE  IsNode(above) /\ TextsOf(above) = <<"text">>
<1> DEFINE text == <<"text">>
           blank == CommentNode(id, path, text)
<1>1. text \in Seq(CommentLines) /\ Prose(text) = text
  <2>1. "text" \in CommentLines /\ "text" # "blank" /\ Trim("text") = "text"
    BY DEF CommentLines, Trim
  <2> QED
    BY <2>1, ProseOne
<1>2. above = [blank EXCEPT !.edited = TRUE]
  OBVIOUS
<1> HIDE DEF text
<1>3. IsNode(blank) /\ blank.words = text /\ blank.type = "comment"
  <2>1. IsNode(blank) /\ blank.words = text
    BY <1>1, CommentNodeIs
  <2>2. blank.type = "comment"
    BY DEF CommentNode, Leaf
  <2> QED
    BY <2>1, <2>2
<1> HIDE DEF blank
<1>4. Rewritten(blank, above) /\ above.words = text
  BY <1>2, <1>3 DEF IsNode, Rewritten
<1>5. IsNode(above) /\ above.type = "comment"
  BY <1>1, <1>3, <1>4, ChangedNode
<1>6. TextsOf(above) = text
  BY <1>1, <1>4, <1>5 DEF TextsOf
<1> QED
  BY <1>5, <1>6 DEF text

LEMMA TextBelow ==
  ASSUME NEW node, IsNode(node), node.type = "variable", NEW below,
         below = [node EXCEPT !.comment = "none", !.edited = TRUE]
  PROVE  IsNode(below) /\ TextsOf(below) = <<>>
<1>1. Rewritten(node, below) /\ below.comment = "none"
  BY DEF IsNode, Rewritten
<1>2. IsNode(below) /\ below.type = "variable"
  BY <1>1, ChangedNode
<1>3. TextsOf(below) = <<>>
  BY <1>1, <1>2 DEF TextsOf
<1> QED
  BY <1>2, <1>3

LEMMA TextsTwo ==
  ASSUME NEW above, IsNode(above), NEW below, IsNode(below), TextsOf(below) = <<>>
  PROVE  /\ IsTree(Append(Append(<<>>, above), below))
         /\ Texts(Append(Append(<<>>, above), below)) = TextsOf(above)
<1> DEFINE one == Append(<<>>, above)
<1>1. IsTree(one) /\ Texts(one) = TextsOf(above)
  BY TextsOne
<1> HIDE DEF one
<1>2. IsTree(Append(one, below)) /\ Texts(Append(one, below)) = Texts(one) \o TextsOf(below)
  BY <1>1, TreeAppend, TextsAppend
<1>3. TextsOf(above) \in Seq(Comments)
  BY TextsOfType
<1>4. TextsOf(above) \o <<>> = TextsOf(above)
  BY <1>3
<1> QED
  BY <1>1, <1>2, <1>4 DEF one

LEMMA SanitizeEolCommentsTexts ==
  ASSUME NEW nodes, IsTree(nodes)
  PROVE  /\ IsTree(SanitizeEolComments(nodes))
         /\ Texts(SanitizeEolComments(nodes)) = Texts(nodes)
<1> DEFINE above(node) ==
             [CommentNode(FreshId(nodes) + node.id, node.in, <<"text">>) EXCEPT !.edited = TRUE]
           below(node) == [node EXCEPT !.comment = "none", !.edited = TRUE]
           lists == [i \in DOMAIN nodes |->
                       IF nodes[i].type = "variable" /\ nodes[i].comment = "text"
                       THEN <<above(nodes[i]), below(nodes[i])>> ELSE <<nodes[i]>>]
<1>1. SanitizeEolComments(nodes) = FlattenSeq(lists)
  BY DEF SanitizeEolComments
<1>2. ASSUME NEW i \in DOMAIN nodes
      PROVE  IsTree(lists[i]) /\ Texts(lists[i]) = TextsOf(nodes[i])
  <2> DEFINE node == nodes[i]
  <2>1. IsNode(node)
    BY TreeNodes
  <2>2. CASE ~(node.type = "variable" /\ node.comment = "text")
    <3>1. lists[i] = Append(<<>>, node)
      BY <2>2
    <3> HIDE DEF lists, node
    <3>2. IsTree(Append(<<>>, node)) /\ Texts(Append(<<>>, node)) = TextsOf(node)
      BY <2>1, TextsOne
    <3> QED
      BY <3>1, <3>2 DEF node
  <2>3. CASE node.type = "variable" /\ node.comment = "text"
    <3> DEFINE a == above(node)
               b == below(node)
    <3>1. lists[i] = Append(Append(<<>>, a), b)
      <4>1. lists[i] = <<a, b>>
        BY <2>3
      <4> HIDE DEF a, b, lists
      <4> QED
        BY <4>1, TwoAppended
    <3>2. IsNode(a) /\ TextsOf(a) = <<"text">>
      BY TextAbove
    <3>3. IsNode(b) /\ TextsOf(b) = <<>>
      <4> HIDE DEF lists, node
      <4> QED
        BY <2>1, <2>3, TextBelow
    <3>4. TextsOf(node) = <<"text">>
      BY <2>3 DEF TextsOf
    <3> HIDE DEF a, b, lists, node
    <3>5. /\ IsTree(Append(Append(<<>>, a), b))
          /\ Texts(Append(Append(<<>>, a), b)) = TextsOf(a)
      BY <3>2, <3>3, TextsTwo
    <3> QED
      BY <3>1, <3>2, <3>4, <3>5 DEF node
  <2> QED
    BY <2>2, <2>3
<1>3. lists = [i \in DOMAIN nodes |-> lists[i]] /\ DOMAIN lists = DOMAIN nodes
  OBVIOUS
<1>4. ASSUME NEW i \in DOMAIN nodes
      PROVE  IsTree(lists[i])
  BY <1>2
<1> HIDE DEF lists
<1>5. Texts(FlattenSeq(lists)) = Texts(nodes)
  BY <1>2, <1>3, TextsReplaced
<1>6. IsTree(FlattenSeq(lists))
  BY <1>3, <1>4, TreeFlattened
<1> QED
  BY <1>1, <1>5, <1>6

-----------------------------------------------------------------------------
(* The commands that keep all comments, and what they do at last.          *)
CommentModes == {"portfmt", "sanitize-append", "sanitize-eol-comments"}

LastEdits == {"dedup", "empty", "append", "eol"}

CollapsesFirst(edits) ==
  edits # <<>> /\ Head(edits) = "collapse" /\ Tail(edits) \in Seq(LastEdits)

(* What precedes the collapsing of variables leaves nodes their numbers.   *)
CommentsInv ==
  mode \in CommentModes =>
    /\ mode \in Modes /\ IsTree(tree)
    /\ \/ Unread /\ Numbered(tree)
       \/ /\ Texts(tree) = Texts(read)
          /\ \/ /\ Numbered(tree)
                /\ \/ todo = <<"comments", "cmake", "collapse", "dedup", "empty">>
                   \/ todo = <<"cmake", "collapse", "dedup", "empty">>
                   \/ CollapsesFirst(todo)
             \/ todo \in Seq(LastEdits)

(* One edit once the tree is read.                                         *)
LEMMA EditTexts ==
  ASSUME IsTree(tree), NEW edit \in LastEdits \cup {"comments", "cmake", "collapse"},
         edit = "collapse" => Numbered(tree)
  PROVE  /\ IsTree(Balance(Apply(edit, tree)))
         /\ Texts(Balance(Apply(edit, tree))) = Texts(tree)
         /\ edit \in {"comments", "cmake"} /\ Numbered(tree)
              => Numbered(Balance(Apply(edit, tree)))
<1> DEFINE after == Apply(edit, tree)
<1>1. /\ IsTree(after) /\ Texts(after) = Texts(tree)
      /\ edit \in {"comments", "cmake"} /\ Numbered(tree) => Numbered(after)
  <2>1. CASE edit = "dedup"
    <3>1. after = DedupTokens(tree, EditedOnly)
      BY <2>1 DEF Apply
    <3> QED
      BY <2>1, <3>1, DedupTokensTexts
  <2>2. CASE edit = "empty"
    <3>1. after = RemoveConsecutiveEmptyLines(tree)
      BY <2>2 DEF Apply
    <3> QED
      BY <2>2, <3>1, RemoveConsecutiveEmptyLinesTexts
  <2>3. CASE edit = "append"
    <3>1. after = SanitizeAppendModifier(tree)
      BY <2>3 DEF Apply
    <3> QED
      BY <2>3, <3>1, SanitizeAppendModifierTexts
  <2>4. CASE edit = "eol"
    <3>1. after = SanitizeEolComments(tree)
      BY <2>4 DEF Apply
    <3> QED
      BY <2>4, <3>1, SanitizeEolCommentsTexts
  <2>5. CASE edit = "comments"
    <3>1. after = SanitizeComments(tree)
      BY <2>5 DEF Apply
    <3> QED
      BY <2>5, <3>1, SanitizeCommentsTexts
  <2>6. CASE edit = "cmake"
    <3>1. after = SanitizeCmakeArgs(tree)
      BY <2>6 DEF Apply
    <3> QED
      BY <2>6, <3>1, SanitizeCmakeArgsTexts
  <2>7. CASE edit = "collapse"
    <3>1. after = CollapseAdjacentVariables(tree) /\ Numbered(tree)
      BY <2>7 DEF Apply
    <3> QED
      BY <2>7, <3>1, CollapseTexts
  <2> QED
    BY <2>1, <2>2, <2>3, <2>4, <2>5, <2>6, <2>7 DEF LastEdits
<1> HIDE DEF after
<1>2. IsTree(Balance(after)) /\ Texts(Balance(after)) = Texts(after)
  BY <1>1, BalanceTexts
<1>3. Numbered(after) => Numbered(Balance(after))
  BY <1>1, BalanceIds
<1> QED
  BY <1>1, <1>2, <1>3 DEF after

LEMMA CommentEditsInOrder ==
  ASSUME mode \in CommentModes
  PROVE  \/ EditsOf(mode) = <<"comments", "cmake", "collapse", "dedup", "empty">>
         \/ CollapsesFirst(EditsOf(mode))
         \/ EditsOf(mode) \in Seq(LastEdits)
<1> DEFINE collapse == IF IsCategory THEN <<"collapse">> ELSE <<>>
<1>1. ASSUME NEW rest \in Seq(LastEdits)
      PROVE  CollapsesFirst(collapse \o rest) \/ collapse \o rest \in Seq(LastEdits)
  <2>1. CASE IsCategory
    <3>1. collapse \o rest = <<"collapse">> \o rest
      BY <2>1
    <3>2. /\ <<"collapse">> \o rest # <<>> /\ Head(<<"collapse">> \o rest) = "collapse"
          /\ Tail(<<"collapse">> \o rest) = rest
      OBVIOUS
    <3> HIDE DEF collapse
    <3> QED
      BY <3>1, <3>2 DEF CollapsesFirst
  <2>2. CASE ~IsCategory
    <3>1. collapse \o rest = rest
      BY <2>2
    <3> QED
      BY <3>1
  <2> QED
    BY <2>1, <2>2
<1>2. CASE mode = "portfmt"
  BY <1>2 DEF EditsOf
<1>3. CASE mode = "sanitize-append"
  <2> DEFINE rest == <<"append", "dedup", "empty", "append">>
  <2>1. rest \in Seq(LastEdits)
    BY DEF LastEdits
  <2>2. EditsOf(mode) = collapse \o rest
    BY <1>3 DEF EditsOf
  <2> HIDE DEF collapse, rest
  <2> QED
    BY <1>1, <2>1, <2>2
<1>4. CASE mode = "sanitize-eol-comments"
  <2> DEFINE rest == <<"dedup", "empty", "eol">>
  <2>1. rest \in Seq(LastEdits)
    BY DEF LastEdits
  <2>2. EditsOf(mode) = collapse \o rest
    BY <1>4 DEF EditsOf
  <2> HIDE DEF collapse, rest
  <2> QED
    BY <1>1, <2>1, <2>2
<1> QED
  BY <1>2, <1>3, <1>4 DEF CommentModes

LEMMA TailOfLast ==
  ASSUME NEW edits \in Seq(LastEdits), edits # <<>>
  PROVE  Tail(edits) \in Seq(LastEdits) /\ Head(edits) \in LastEdits
  OBVIOUS

LEMMA CommentsStep == CommentsInv /\ [EditsNext]_vars => CommentsInv'
<1> SUFFICES ASSUME CommentsInv, [EditsNext]_vars, mode' \in CommentModes
             PROVE  /\ mode' \in Modes /\ IsTree(tree')
                    /\ \/ Unread' /\ Numbered(tree)'
                       \/ /\ Texts(tree') = Texts(read')
                          /\ \/ /\ Numbered(tree)'
                                /\ \/ todo' = <<"comments", "cmake", "collapse", "dedup", "empty">>
                                   \/ todo' = <<"cmake", "collapse", "dedup", "empty">>
                                   \/ CollapsesFirst(todo')
                             \/ todo' \in Seq(LastEdits)
  BY DEF CommentsInv
<1>1. mode' = mode
  BY DEF EditsNext, vars, ReadVariable, ReadComment, ReadLeaf, ReadIf, ReadElse, ReadTarget,
         ReadEnd, ReadFinish, EditComments, EditCmakeArgs, EditCollapse, EditAppend, EditDedup,
         EditEmptyLines, EditEolComments, EditMerge, Edit, EditBumpRevision, EditBumpEpoch,
         EditSetVersion, EditByScript, Printed, Add
<1>2. /\ mode \in CommentModes /\ mode \in Modes /\ mode' \in Modes /\ IsTree(tree)
      /\ \/ Unread /\ Numbered(tree)
         \/ /\ Texts(tree) = Texts(read)
            /\ \/ /\ Numbered(tree)
                  /\ \/ todo = <<"comments", "cmake", "collapse", "dedup", "empty">>
                     \/ todo = <<"cmake", "collapse", "dedup", "empty">>
                     \/ CollapsesFirst(todo)
               \/ todo \in Seq(LastEdits)
  BY <1>1 DEF CommentsInv
<1>3. Unread => todo # <<>> /\ Head(todo) = "read"
  BY DEF Unread
<1>4. Unread => Numbered(tree)
  <2>1. ASSUME Unread, todo \in Seq(LastEdits)
        PROVE  FALSE
    <3>1. Head(todo) \in LastEdits
      BY <1>3, <2>1, TailOfLast
    <3> QED
      BY <1>3, <2>1, <3>1 DEF LastEdits
  <2> QED
    BY <1>2, <1>3, <2>1
<1>5. ASSUME ReadVariable \/ ReadComment \/ ReadLeaf \/ ReadIf \/ ReadElse \/ ReadTarget
      PROVE  Unread' /\ IsTree(tree') /\ Numbered(tree)'
  <2>1. Unread /\ todo' = todo
    BY <1>5 DEF ReadVariable, ReadComment, ReadLeaf, ReadIf, ReadElse, ReadTarget,
                Reading, Add
  <2>2. Unread'
    BY <2>1 DEF Unread
  <2> QED
    BY <1>2, <1>4, <1>5, <2>1, <2>2, ReadingKeepsTree
<1>6. CASE ReadEnd
  <2>1. Unread /\ todo' = todo /\ tree' = tree
    BY <1>6 DEF ReadEnd
  <2>2. Unread' /\ Numbered(tree)'
    BY <1>4, <2>1 DEF Unread, Numbered
  <2> QED
    BY <1>2, <2>1, <2>2
<1>7. CASE ReadFinish
  <2>1. Unread /\ todo' = EditsOf(mode) /\ read' = tree /\ tree' = tree
    BY <1>7 DEF ReadFinish
  <2>2. Numbered(tree)'
    BY <1>4, <2>1 DEF Numbered
  <2>3. Texts(tree') = Texts(read')
    BY <2>1
  <2> QED
    BY <1>2, <2>1, <2>2, <2>3, CommentEditsInOrder
<1>8. ASSUME EditComments \/ EditCmakeArgs \/ EditCollapse \/ EditAppend \/ EditDedup
               \/ EditEmptyLines \/ EditEolComments \/ EditMerge
      PROVE  /\ IsTree(tree') /\ Texts(tree') = Texts(read')
             /\ \/ /\ Numbered(tree)'
                   /\ \/ todo' = <<"cmake", "collapse", "dedup", "empty">>
                      \/ CollapsesFirst(todo')
                \/ todo' \in Seq(LastEdits)
  <2>1. PICK edit \in LastEdits \cup {"comments", "cmake", "collapse", "merge"} : Edit(edit)
    BY <1>8 DEF EditComments, EditCmakeArgs, EditCollapse, EditAppend, EditDedup,
                EditEmptyLines, EditEolComments, EditMerge, LastEdits
  <2>2. /\ todo # <<>> /\ Head(todo) = edit /\ todo' = Tail(todo) /\ read' = read
        /\ tree' = Balance(Apply(edit, tree))
    BY <2>1 DEF Edit
  <2>3. edit # "read"
    BY <2>1 DEF LastEdits
  <2>4. /\ Texts(tree) = Texts(read)
        /\ \/ /\ Numbered(tree)
              /\ \/ todo = <<"comments", "cmake", "collapse", "dedup", "empty">>
                 \/ todo = <<"cmake", "collapse", "dedup", "empty">>
                 \/ CollapsesFirst(todo)
           \/ todo \in Seq(LastEdits)
    BY <1>2, <1>3, <2>2, <2>3
  <2>5. /\ edit \in LastEdits \cup {"comments", "cmake", "collapse"}
        /\ edit = "collapse" => Numbered(tree)
        /\ \/ /\ edit \in {"comments", "cmake"} /\ Numbered(tree)
              /\ \/ todo' = <<"cmake", "collapse", "dedup", "empty">>
                 \/ CollapsesFirst(todo')
           \/ todo' \in Seq(LastEdits)
    <3>1. CASE todo = <<"comments", "cmake", "collapse", "dedup", "empty">> /\ Numbered(tree)
      <4>1. edit = "comments" /\ todo' = <<"cmake", "collapse", "dedup", "empty">>
        BY <2>2, <3>1
      <4> QED
        BY <3>1, <4>1
    <3>2. CASE todo = <<"cmake", "collapse", "dedup", "empty">> /\ Numbered(tree)
      <4>1. edit = "cmake" /\ todo' = <<"collapse", "dedup", "empty">>
        BY <2>2, <3>2
      <4>2. CollapsesFirst(<<"collapse", "dedup", "empty">>)
        <5>1. <<"dedup", "empty">> \in Seq(LastEdits)
          BY DEF LastEdits
        <5>2. /\ <<"collapse", "dedup", "empty">> # <<>>
              /\ Head(<<"collapse", "dedup", "empty">>) = "collapse"
              /\ Tail(<<"collapse", "dedup", "empty">>) = <<"dedup", "empty">>
          OBVIOUS
        <5> QED
          BY <5>1, <5>2 DEF CollapsesFirst
      <4> QED
        BY <3>2, <4>1, <4>2
    <3>3. CASE CollapsesFirst(todo) /\ Numbered(tree)
      BY <2>2, <3>3 DEF CollapsesFirst
    <3>4. CASE todo \in Seq(LastEdits)
      <4>1. Tail(todo) \in Seq(LastEdits) /\ Head(todo) \in LastEdits
        BY <2>2, <3>4, TailOfLast
      <4> QED
        BY <2>2, <4>1 DEF LastEdits
    <3> QED
      BY <2>4, <3>1, <3>2, <3>3, <3>4
  <2> DEFINE after == Balance(Apply(edit, tree))
  <2>6. /\ IsTree(after) /\ Texts(after) = Texts(tree)
        /\ edit \in {"comments", "cmake"} /\ Numbered(tree) => Numbered(after)
    BY <1>2, <2>5, EditTexts
  <2>7. tree' = after
    BY <2>2
  <2> HIDE DEF after
  <2>8. IsTree(tree') /\ Texts(tree') = Texts(read')
    BY <2>2, <2>4, <2>6, <2>7
  <2>9. edit \in {"comments", "cmake"} /\ Numbered(tree) => Numbered(tree)'
    BY <2>6, <2>7 DEF Numbered
  <2> QED
    BY <2>5, <2>8, <2>9
<1>9. CASE EditBumpRevision \/ EditBumpEpoch \/ EditSetVersion
  <2>1. PICK edit \in {"bump-revision", "bump-epoch", "set-version"} : EditByScript(edit)
    BY <1>9 DEF EditBumpRevision, EditBumpEpoch, EditSetVersion
  <2>2. todo = <<edit>>
    BY <2>1 DEF EditByScript
  <2>3. Head(todo) = edit /\ todo # <<>> /\ Tail(todo) = <<>>
    BY <2>2
  <2>4. todo \notin Seq(LastEdits) /\ ~CollapsesFirst(todo) /\ ~Unread
    <3>1. todo \in Seq(LastEdits) => Head(todo) \in LastEdits
      BY <2>3, TailOfLast
    <3> QED
      BY <1>3, <2>1, <2>3, <3>1 DEF CollapsesFirst, LastEdits
  <2> QED
    BY <1>2, <2>1, <2>3, <2>4
<1>10. CASE Printed \/ UNCHANGED vars
  <2>1. UNCHANGED <<tree, mode, todo, read>>
    BY <1>10 DEF Printed, vars
  <2>2. (Unread' <=> Unread) /\ (Numbered(tree)' <=> Numbered(tree))
    BY <2>1 DEF Unread, Numbered
  <2> QED
    BY <1>2, <2>1, <2>2
<1> QED
  BY <1>2, <1>5, <1>6, <1>7, <1>8, <1>9, <1>10 DEF EditsNext

(* refactor.c, ast_balance(): whatever the Makefile, portfmt and the two   *)
(* commands that sanitize it leave it all comments in their order.         *)
THEOREM CommentsStayKept == EditsSpec => []CommentsKept
<1>1. EditsInit => CommentsInv
  <2> SUFFICES ASSUME EditsInit
               PROVE  CommentsInv
    OBVIOUS
  <2>1. mode \in Modes /\ tree = <<>> /\ Unread
    BY DEF EditsInit, Unread
  <2>2. IsTree(tree)
    BY <2>1, TreeEmpty
  <2>3. Numbered(tree)
    BY <2>1 DEF Numbered
  <2> QED
    BY <2>1, <2>2, <2>3 DEF CommentsInv
<1>2. CommentsInv /\ [EditsNext]_vars => CommentsInv'
  BY CommentsStep
<1>3. CommentsInv => CommentsKept
  <2> SUFFICES ASSUME CommentsInv, Done, mode \in CommentModes
               PROVE  Texts(tree) = Texts(read)
    BY DEF CommentsKept, CommentModes
  <2>1. ~Unread
    BY DEF Done, Unread
  <2> QED
    BY <2>1 DEF CommentsInv
<1> QED
  BY <1>1, <1>2, <1>3, PTL DEF EditsSpec
=============================================================================
