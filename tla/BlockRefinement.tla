-------------------------- MODULE BlockRefinement --------------------------
(***************************************************************************)
(* The AST builder implements BlockNesting: what it accepts, and the tree  *)
(* it builds, nest as the block lines of the file do.                      *)
(***************************************************************************)
EXTENDS ASTBuilder, SequencesExt

(* The block line a token stands for, if it does.                          *)
BlockLineOf(type) ==
  CASE type = "if" -> <<"if">>
    [] type \in {"elif", "else"} -> <<"branch">>
    [] type \in {"endif", "for", "endfor"} -> <<type>>
    [] type \in {"bad_if", "bad_else", "bad_include"} -> <<"bad">>
    [] OTHER -> <<>>

BlockLinesOf(stream) == FlattenSeq([i \in DOMAIN stream |-> BlockLineOf(stream[i].type)])

(* The block a node opens, if it does.                                     *)
BlockOf(node) ==
  CASE node.type = "FOR" -> <<"for">>
    [] node.type \in IfTypes /\ node.ifparent = NoNode -> <<"if">>
    [] node.type \in IfTypes /\ node.ifparent # NoNode -> <<"branch">>
    [] OTHER -> <<>>

BlocksOn(stack, tree) == FlattenSeq([j \in DOMAIN stack |-> BlockOf(tree[stack[j]])])

(* The block lines the builder has not processed.                          *)
PendingBlocks ==
  IF error = "ok" THEN BlockLinesOf(SubSeq(tokens, pos, Len(tokens))) ELSE <<>>

(* What is open on nodestack, the root and the targets aside.              *)
OpenBlocks == IF error = "ok" THEN BlocksOn(nodestack, nodes) ELSE <<>>

Verdict ==
  CASE error # "ok" -> "rejected"
    [] built -> "accepted"
    [] finished /\ ~built /\ error = "ok" -> "nesting"
    [] OTHER -> "reading"

Blocks == INSTANCE BlockNesting WITH
  pending <- PendingBlocks,
  blocks <- OpenBlocks,
  verdict <- Verdict

(* Every step of the tokenizer and the builder is a step of BlockNesting   *)
(* or none: a target, a command, a comment or a variable between two block *)
(* lines, on whichever of the two stacks it may be, never changes what an  *)
(* .endif or an .endfor closes nor whether the file is accepted.           *)
BlockNestingImplemented == Blocks!BlockSpec
=============================================================================
