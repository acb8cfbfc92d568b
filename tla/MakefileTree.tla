---------------------------- MODULE MakefileTree ----------------------------
(***************************************************************************)
(* The tree of ast.h as the edits see it, and what make(1) makes of it.    *)
(*                                                                         *)
(* The walks of the edits visit a node before its children and the         *)
(* children in order, so a tree is the sequence of its nodes in the order  *)
(* of the walk.  A node knows the path of blocks it is in.                 *)
(***************************************************************************)
EXTENDS Naturals, FiniteSets, SequencesExt

(* The nodes with children.  An .else is a node of its own in the orelse   *)
(* of its .if, whose body is in the body of that node.                     *)
Blocks == {"if", "else", "for", "target"}

(* bsd_include is one of the four is_include_bsd_port_mk() knows,          *)
(* subdir_include that of a category; expr stands for what has no children *)
(* and no words an edit looks at (.info, ..., a target command).           *)
Types == Blocks \cup
  {"variable", "comment", "expr", "bsd_include", "subdir_include", "deleted"}

(* An include has children too, those of the file if it was loaded.        *)
Includes == {"bsd_include", "subdir_include"}

Modifiers == {"=", "+=", "?=", ":=", "!="}

(* One step of a path: the block, and which of its two lists of children.  *)
Step == [id : Nat, type : Blocks, orelse : BOOLEAN]

(* What a word is is left open.  An end of line comment may be a marker    *)
(* (#none, #empty or nothing but #); a line of a comment may be blank or   *)
(* have blanks around its text.                                            *)
EolComments == {"none", "marker", "text"}
CommentLines == {"blank", "text", "indented"}

-----------------------------------------------------------------------------
Leaf(id, type, path) ==
  [id |-> id, type |-> type, in |-> path, edited |-> FALSE,
   name |-> "", modifier |-> "=", words |-> <<>>, comment |-> "none"]

CommentNode(id, path, lines) ==
  [Leaf(id, "comment", path) EXCEPT !.words = lines]

(* var is a record of name, modifier, words and comment.                   *)
VariableNode(id, path, var) ==
  [id |-> id, type |-> "variable", in |-> path, edited |-> FALSE,
   name |-> var.name, modifier |-> var.modifier, words |-> var.words,
   comment |-> var.comment]

(* What every node of a tree has.                                          *)
IsNode(node) ==
  /\ node = [id |-> node.id, type |-> node.type, in |-> node.in, edited |-> node.edited,
             name |-> node.name, modifier |-> node.modifier, words |-> node.words,
             comment |-> node.comment]
  /\ node.edited \in BOOLEAN
  /\ node.type = "comment" => node.words \in Seq(CommentLines)

IsTree(tree) == tree \in Seq(ToSet(tree)) /\ \A node \in ToSet(tree) : IsNode(node)

FreshId(tree) == 1 + Max({0} \cup {tree[i].id : i \in DOMAIN tree})

StepInto(node, orelse) == [id |-> node.id, type |-> node.type, orelse |-> orelse]

(* AST_ROOT for a node at the top.                                         *)
ParentType(node) == IF node.in = <<>> THEN "root" ELSE Last(node.in).type

IsVariable(node, name) == node.type = "variable" /\ node.name = name

MapNodes(tree, f(_)) == [i \in DOMAIN tree |-> f(tree[i])]

InsertBefore(tree, i, new) == SubSeq(tree, 1, i - 1) \o new \o SubSeq(tree, i, Len(tree))

(* A walk that stops (AST_WALK_STOP) at the first node Stop holds for has  *)
(* visited the nodes up to this index.                                     *)
StopsAt(tree, Stop(_)) ==
  LET i == SelectInSeq(tree, Stop) IN IF i = 0 THEN Len(tree) ELSE i - 1

IsBsdPortMk(node) == node.type = "bsd_include"

-----------------------------------------------------------------------------
(* ast_balance(): a comment right behind a comment in the same list is     *)
(* joined to it.  Deleted nodes do not separate comments.                  *)
JoinComments(done, node) ==
  LET last == SelectLastInSeq(done, LAMBDA n : n.type # "deleted")
  IN IF /\ node.type = "comment" /\ last # 0
        /\ done[last].type = "comment" /\ done[last].in = node.in
     THEN Append([done EXCEPT ![last].words = @ \o node.words,
                              ![last].edited = @ \/ node.words # <<>>],
                 [node EXCEPT !.type = "deleted"])
     ELSE Append(done, node)

Balance(tree) == FoldLeft(JoinComments, <<>>, tree)

-----------------------------------------------------------------------------
(* make(1): the value of a variable behind the last line, given its value  *)
(* in the environment and which conditions hold.  The body of an .for is   *)
(* run twice, or not at all.                                               *)
Unset == [set |-> FALSE, words |-> <<>>]
Set(words) == [set |-> TRUE, words |-> words]

Conditions(tree) == {tree[i].id : i \in {j \in DOMAIN tree : tree[j].type \in {"if", "for"}}}

Runs(node, holds) ==
  \A k \in DOMAIN node.in :
    node.in[k].type \in {"if", "for"} => (node.in[k].id \in holds) # node.in[k].orelse

Assign(value, node) ==
  CASE node.modifier = "+="                -> Set(value.words \o node.words)
    [] node.modifier = "?=" /\ value.set   -> value
    [] node.modifier = "?=" /\ ~value.set  -> Set(node.words)
    [] node.modifier \in {"=", ":=", "!="} -> Set(node.words)

Unrolled(tree) ==
  LET Take(node, rest) ==
        IF node.type = "for"
        THEN <<node>> \o SelectSeq(rest, LAMBDA n : StepInto(node, FALSE) \in ToSet(n.in)) \o rest
        ELSE <<node>> \o rest
  IN FoldRight(Take, tree, <<>>)

Value(tree, name, environment, holds) ==
  FoldLeft(LAMBDA value, node :
             IF IsVariable(node, name) /\ Runs(node, holds) THEN Assign(value, node)
             ELSE value,
           environment, Unrolled(tree))
=============================================================================
