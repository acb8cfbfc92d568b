---------------------------- MODULE Refactorings ----------------------------
(***************************************************************************)
(* The edits of parser/edits/refactor, each as an operator from the tree   *)
(* it is given to the tree it leaves, ast_balance() of parser_edit() not   *)
(* included.                                                               *)
(***************************************************************************)
EXTENDS MakefileTree

CONSTANTS
  FlagNames,   (* CFLAGS, CXXFLAGS, LDFLAGS, RUSTFLAGS                   *)
  DedupNames,  (* the sorted ones, which skip_dedup() does not skip      *)
  UsesNames,   (* USES and the options helpers OPT_USES, OPT_USES_OFF    *)
  CmakeNames   (* CMAKE_ARGS, MESON_ARGS and their options helpers       *)

(* A word is a sequence of its parts: what is before the colon in USES and *)
(* what is behind, or -D and what it is joined to.                         *)
DashD == <<"-D">>

-----------------------------------------------------------------------------
(* refactor_sanitize_comments: comments in a target lose their indent.     *)
Trim(line) == IF line = "indented" THEN "text" ELSE line

InTarget(node) == \E k \in DOMAIN node.in : node.in[k].type = "target"

SanitizeComments(tree) ==
  LET Sanitized(node) ==
        IF node.type = "comment" /\ InTarget(node)
        THEN [node EXCEPT !.words = [k \in DOMAIN @ |-> Trim(@[k])], !.edited = TRUE]
        ELSE node
  IN MapNodes(tree, Sanitized)

(* refactor_sanitize_cmake_args: a -D is joined to the next word, without  *)
(* marking the node as edited.                                             *)
JoinDashD(words) ==
  LET Take(done, word) ==
        CASE done.dash                    -> [words |-> Append(done.words, DashD \o word), dash |-> FALSE]
          [] ~done.dash /\ word = DashD   -> [done EXCEPT !.dash = TRUE]
          [] ~done.dash /\ word # DashD   -> [done EXCEPT !.words = Append(@, word)]
      all == FoldLeft(Take, [words |-> <<>>, dash |-> FALSE], words)
  IN IF all.dash THEN Append(all.words, DashD) ELSE all.words

SanitizeCmakeArgs(tree) ==
  LET Sanitized(node) ==
        IF node.type = "variable" /\ node.name \in CmakeNames
        THEN [node EXCEPT !.words = JoinDashD(@)] ELSE node
  IN MapNodes(tree, Sanitized)

-----------------------------------------------------------------------------
(* refactor_collapse_adjacent_variables                                    *)

(* Faulty: any modifier will do.                                           *)
IsCandidateAny(node) == node.type = "variable" /\ node.comment = "none"

(* Faulty: an end of line comment is not looked at.                        *)
IsCandidateCommented(node) == node.type = "variable" /\ node.modifier \in {"=", "+="}

IsCandidate(node) ==
  node.type = "variable" /\ node.modifier \in {"=", "+="} /\ node.comment = "none"

(* What the walker gathers of one list of children: not the blocks and not *)
(* the includes.                                                           *)
Siblings(tree, path) ==
  FlattenSeq([i \in DOMAIN tree |->
                IF tree[i].in = path /\ tree[i].type \notin Blocks \cup Includes \cup {"deleted"}
                THEN <<tree[i]>> ELSE <<>>])

(* Faulty: only pairs are found.                                           *)
Pairs(siblings) ==
  {SubSeq(siblings, k, k + 1) : k \in
     {i \in 1 .. (Len(siblings) - 1) :
        /\ i % 2 = 1
        /\ IsCandidate(siblings[i]) /\ IsCandidate(siblings[i + 1])
        /\ siblings[i].name = siblings[i + 1].name}}

(* process_siblings(): a node that does not fit ends the group and is not  *)
(* the start of the next.                                                  *)
TakeSibling(done, node) ==
  IF IsCandidate(node) /\ (done.group = <<>> \/ done.group[1].name = node.name)
  THEN [groups |-> done.groups, group |-> Append(done.group, node)]
  ELSE [groups |-> Append(done.groups, done.group), group |-> <<>>]

Groups(siblings) ==
  LET all == FoldLeft(TakeSibling, [groups |-> <<>>, group |-> <<>>], siblings)
  IN {group \in ToSet(Append(all.groups, all.group)) : Len(group) > 1}

(* merge_variables(): the first gets the words of the others, which are    *)
(* taken out of the list.                                                  *)
CollapseAdjacentVariables(tree) ==
  LET groups == UNION {Groups(Siblings(tree, tree[i].in)) : i \in DOMAIN tree}
      gone == UNION {{group[k].id : k \in 2 .. Len(group)} : group \in groups}
      Merged(node) ==
        IF \E group \in groups : group[1].id = node.id
        THEN LET group == CHOOSE g \in groups : g[1].id = node.id
             IN [node EXCEPT !.edited = TRUE,
                             !.words = FlattenSeq([k \in DOMAIN group |-> group[k].words])]
        ELSE node
  IN FlattenSeq([i \in DOMAIN tree |->
                   IF tree[i].id \in gone THEN <<>> ELSE <<Merged(tree[i])>>])

-----------------------------------------------------------------------------
(* refactor_sanitize_append_modifier: += is made = where the variable has  *)
(* not been seen, up to the first include of bsd.port.mk and the like.  An *)
(* assignment to a variable that has been seen makes it unseen.            *)

(* Faulty: also inside of a conditional.                                   *)
AppendIsFirstAnywhere(node, seen) ==
  node.modifier = "+=" /\ node.name \notin seen \cup FlagNames

AppendIsFirst(node, seen) ==
  node.modifier = "+=" /\ node.name \notin seen \cup FlagNames
    /\ ParentType(node) \notin {"if", "else", "for"}

SeenAfter(node, seen) ==
  CASE node.name \notin seen                          -> seen \cup {node.name}
    [] node.name \in seen /\ node.modifier # "+="     -> seen \ {node.name}
    [] node.name \in seen /\ node.modifier = "+="     -> seen

AppendSanitizedIn(node, seen) ==
  [node EXCEPT
     !.modifier = IF AppendIsFirst(node, seen) THEN "=" ELSE @,
     !.edited = @ \/ (node.modifier = "+=" /\ node.name \notin FlagNames \ seen)]

TakeAppend(done, node) ==
  IF node.type = "variable"
  THEN [tree |-> Append(done.tree, AppendSanitizedIn(node, done.seen)),
        seen |-> SeenAfter(node, done.seen)]
  ELSE [tree |-> Append(done.tree, node), seen |-> done.seen]

SanitizeAppendModifier(tree) ==
  LET stop == StopsAt(tree, IsBsdPortMk)
      all == FoldLeft(TakeAppend, [tree |-> <<>>, seen |-> {}], SubSeq(tree, 1, stop))
  IN all.tree \o SubSeq(tree, stop + 1, Len(tree))

-----------------------------------------------------------------------------
(* refactor_dedup_tokens: the first of equal words stays.  In USES words   *)
(* are equal if they are up to the colon.  Nodes that are printed as they  *)
(* were read are left alone.                                               *)
DedupWords(words, Key(_)) ==
  LET Take(done, word) ==
        IF \E k \in DOMAIN done : Key(done[k]) = Key(word) THEN done ELSE Append(done, word)
  IN FoldLeft(Take, <<>>, words)

Deduped(node) ==
  IF node.name \in UsesNames THEN DedupWords(node.words, LAMBDA w : w[1])
  ELSE DedupWords(node.words, LAMBDA w : w)

DedupTokens(tree, editedonly) ==
  LET Sanitized(node) ==
        IF /\ node.type = "variable" /\ node.name \in DedupNames
           /\ node.modifier # "!=" /\ (editedonly => node.edited)
        THEN [node EXCEPT !.words = Deduped(node),
                          !.edited = @ \/ Deduped(node) # node.words]
        ELSE node
  IN MapNodes(tree, Sanitized)

-----------------------------------------------------------------------------
(* refactor_remove_consecutive_empty_lines: of blank lines in a row the    *)
(* first stays, and none at the top of the file.  counter counts nodes and *)
(* lines of comments, the root included.                                   *)
TakeLine(done, line) ==
  [counter |-> done.counter + 1,
   empty   |-> IF line = "blank" THEN done.empty + 1 ELSE 0,
   lines   |-> IF line = "blank" /\ (done.empty > 0 \/ done.counter <= 2)
               THEN done.lines ELSE Append(done.lines, line)]

TakeLines(counter, lines) ==
  FoldLeft(TakeLine, [counter |-> counter, empty |-> 0, lines |-> <<>>], lines)

TakeNode(done, node) ==
  IF node.type = "comment"
  THEN LET all == TakeLines(done.counter + 1, node.words)
       IN [counter |-> all.counter,
           tree |-> Append(done.tree, [node EXCEPT !.words = all.lines,
                                                   !.edited = @ \/ all.lines # node.words])]
  ELSE [counter |-> done.counter + 1, tree |-> Append(done.tree, node)]

RemoveConsecutiveEmptyLines(tree) ==
  FoldLeft(TakeNode, [counter |-> 1, tree |-> <<>>], tree).tree

-----------------------------------------------------------------------------
(* refactor_sanitize_eol_comments: the comment at the end of an assignment *)
(* becomes a comment above it, unless it is a marker.  The comment is put  *)
(* into the list the walker is in the middle of, which then meets the      *)
(* assignment once more: ARRAY_FOREACH of libias is taken to go on to the  *)
(* end of the longer list.                                                 *)
SanitizeEolComments(tree) ==
  LET Lifted(node) ==
        IF node.type = "variable" /\ node.comment = "text"
        THEN << [CommentNode(FreshId(tree) + node.id, node.in, <<"text">>)
                   EXCEPT !.edited = TRUE],
                [node EXCEPT !.comment = "none", !.edited = TRUE] >>
        ELSE <<node>>
  IN FlattenSeq([i \in DOMAIN tree |-> Lifted(tree[i])])
=============================================================================
