------------------------------- MODULE Merging -------------------------------
(***************************************************************************)
(* The edit of parser/edits/edit/merge.c: the variables of one tree are    *)
(* assigned, appended or deleted in another.                               *)
(***************************************************************************)
EXTENDS MakefileTree

CONSTANTS
  Names,       (* of variables                                           *)
  Rank,        (* compare_order(): the place of a name among all         *)
  Block,       (* variable_order_block(): the block of a name            *)
  UsesBlock,   (* BLOCK_USES and BLOCK_PLIST, between which there are    *)
  PlistBlock   (* no empty lines between blocks                          *)

ASSUME NamesAssumption == Rank \in [Names -> Nat] /\ Block \in [Names -> Nat]

ASSUME BlocksAssumption ==
  /\ UsesBlock <= PlistBlock
  /\ \A a, b \in Names :
       (Rank[a] = Rank[b] => a = b) /\ (Block[a] < Block[b] => Rank[a] < Rank[b])

-----------------------------------------------------------------------------
(* The walks over variables at the top stop at the first node in a block:  *)
(* level > 1 is AST_WALK_STOP and not only the end of the block.           *)

IsInBlock(node) == node.in # <<>>

(* Faulty: any variable of the block will do.                              *)
FindVariableOfBlock(tree, name) ==
  SelectInSeq(SubSeq(tree, 1, StopsAt(tree, IsInBlock)),
              LAMBDA n : n.type = "variable" /\ Block[n.name] = Block[name])

(* find_variable(), 0 if it finds none.                                    *)
FindVariable(tree, name) ==
  SelectInSeq(SubSeq(tree, 1, StopsAt(tree, IsInBlock)),
              LAMBDA n : IsVariable(n, name))

(* delete_variable(): up to the first include of bsd.port.mk and the like, *)
(* in conditionals too.                                                    *)
DeleteVariable(tree, name) ==
  LET stop == StopsAt(tree, IsBsdPortMk)
      Deleted(node) == IF IsVariable(node, name) THEN [node EXCEPT !.type = "deleted"] ELSE node
  IN MapNodes(SubSeq(tree, 1, stop), Deleted) \o SubSeq(tree, stop + 1, Len(tree))

-----------------------------------------------------------------------------
(* Where a new variable goes.  ast_siblings() of the root are the nodes    *)
(* that are in no block.                                                   *)
TopVariables(tree) ==
  {i \in DOMAIN tree : tree[i].type = "variable" /\ tree[i].in = <<>>}

Last1(S) == Max({0} \cup S)

(* Faulty: a variable is not behind itself.                                *)
InsertPointBefore(tree, name) ==
  Last1({i \in TopVariables(tree) :
           Block[tree[i].name] = Block[name] /\ Rank[tree[i].name] < Rank[name]})

(* Faulty: behind the last variable of the block.                          *)
InsertPointBlockEnd(tree, name) ==
  Last1({i \in TopVariables(tree) : Block[tree[i].name] = Block[name]})

(* find_insert_point_same_block(): behind the last variable of the block   *)
(* that is not behind it in the order, 0 for none.                         *)
InsertPointSameBlock(tree, name) ==
  LET stop == StopsAt(tree, LAMBDA n : IsBsdPortMk(n) /\ n.in = <<>>)
  IN Last1({i \in TopVariables(tree) :
              /\ i <= stop
              /\ Block[tree[i].name] = Block[name]
              /\ Rank[tree[i].name] <= Rank[name]})

(* find_insert_point_generic(): an include only ends the search once there *)
(* is a place before it.                                                   *)
InsertPointGeneric(tree, name) ==
  LET before == {i \in TopVariables(tree) : Rank[tree[i].name] < Rank[name]}
      ends == {e \in DOMAIN tree : /\ IsBsdPortMk(tree[e]) /\ tree[e].in = <<>>
                                   /\ \E i \in before : i < e}
  IN Last1({i \in before : \A e \in ends : i < e})

EmptyLineBeforeBlock(before, block) ==
  before < block /\ (before < UsesBlock \/ block > PlistBlock)

EmptyLine(id) == [CommentNode(id, <<>>, <<"blank">>) EXCEPT !.edited = TRUE]

(* prepend_variable(): behind the comments at the top, and an empty line   *)
(* before the first thing after it that is not a variable.                 *)
PrependVariable(tree, node) ==
  LET rest == {i \in DOMAIN tree :
                 tree[i].in = <<>> /\ \E k \in 1 .. i : tree[k].type # "comment"}
      ends == {i \in rest :
                 \/ tree[i].type \notin {"variable", "deleted"}
                 \/ /\ tree[i].type = "variable"
                    /\ EmptyLineBeforeBlock(Block[tree[i].name], Block[node.name])}
      spaced == IF ends = {} THEN tree
                ELSE InsertBefore(tree, Min(ends), <<EmptyLine(node.id + 1)>>)
  IN IF rest = {} THEN Append(tree, node)
     ELSE InsertBefore(spaced, Min(rest), <<node>>)

(* insert_variable().  What is inserted is a copy of the node with its own *)
(* modifier.  A place is always found, so that nothing is ever inserted    *)
(* before the first include or target for want of one.                     *)
InsertVariable(tree, template) ==
  LET node == [template EXCEPT !.id = FreshId(tree), !.edited = TRUE]
      same == InsertPointSameBlock(tree, node.name)
      generic == InsertPointGeneric(tree, node.name)
  IN CASE same # 0 -> InsertBefore(tree, same + 1, <<node>>)
       [] same = 0 /\ generic # 0 ->
            InsertBefore(tree, generic + 1,
              IF EmptyLineBeforeBlock(Block[tree[generic].name], Block[node.name])
              THEN <<EmptyLine(node.id + 1), node>> ELSE <<node>>)
       [] same = 0 /\ generic = 0 -> PrependVariable(tree, node)

-----------------------------------------------------------------------------
(* Words are not appended in front of a comment.                           *)
MayAppendTo(node, found) == node.modifier = "+=" => found.comment = "none"

(* Faulty: the node is not marked as edited.                               *)
MergedIntoUnmarked(node, found) ==
  [found EXCEPT
     !.words = IF node.modifier = "+=" THEN @ \o node.words ELSE node.words]

(* = leaves the modifier of what it finds as it is.                        *)
MergedInto(node, found) ==
  [found EXCEPT
     !.edited = TRUE,
     !.words = IF node.modifier = "+=" THEN @ \o node.words ELSE node.words,
     !.modifier = IF node.modifier \in {"=", "+="} THEN @ ELSE node.modifier]

(* One assignment of edit_merge_walker(), with                             *)
(* PARSER_MERGE_SHELL_IS_DELETE.                                           *)
MergeVariable(tree, node) ==
  LET found == FindVariable(tree, node.name)
  IN CASE node.modifier = "!=" -> DeleteVariable(tree, node.name)
       [] node.modifier # "!=" /\ found # 0 /\ MayAppendTo(node, tree[found]) ->
            [tree EXCEPT ![found] = MergedInto(node, tree[found])]
       [] OTHER -> InsertVariable(tree, node)

(* edit_merge_walker() goes past all nodes but the assignments.            *)
MergeNode(tree, node) == IF node.type = "variable" THEN MergeVariable(tree, node) ELSE tree

Merge(tree, mergetree) ==
  FoldLeft(MergeNode, tree, SubSeq(mergetree, 1, StopsAt(mergetree, IsInBlock)))
=============================================================================
