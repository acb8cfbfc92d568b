-------------------------------- MODULE Edits --------------------------------
(***************************************************************************)
(* What parser_read_finish() and the commands of portfmt and portedit do   *)
(* to the tree of a Makefile: the edits they run, in their order, each     *)
(* followed by ast_balance().                                              *)
(***************************************************************************)
EXTENDS Refactorings, Versions

CONSTANTS
  Modes,        (* the commands                                          *)
  Inputs,       (* what the Makefiles they are given are made of         *)
  MergeTrees,   (* what portedit merge may be given                      *)
  NewVersions   (* what portedit set-version may be given                *)

(* Inputs[mode] has the assignments (variables), comments (as sequences of *)
(* lines), blocks and other nodes (leaves) of a Makefile, and bounds their *)
(* number (nodes).                                                         *)
ASSUME ModesAssumption ==
  Modes \subseteq {"portfmt", "sanitize-append", "sanitize-eol-comments",
                   "merge", "bump-revision", "bump-epoch", "set-version"}

ASSUME InputsAssumption ==
  \A command \in Modes : Inputs[command].comments \subseteq Seq(CommentLines)

ASSUME MergeTreesAssumption == \A script \in MergeTrees : IsTree(script)

VARIABLES
  tree,    (* parser->ast                                                *)
  open,    (* while it is built: the path of the next node               *)
  mode,    (* the command                                                *)
  todo,    (* what is still to be done: read, and then the edits         *)
  read,    (* the tree as it was read, which raw lines are printed from  *)
  from,    (* the tree of the other parser that is merged                *)
  version  (* the argument of portedit set-version                       *)

vars == <<tree, open, mode, todo, read, from, version>>

EditsInit ==
  /\ tree = <<>>
  /\ open = <<>>
  /\ mode \in Modes
  /\ todo = <<"read">>
  /\ read = <<>>
  /\ from = <<>>
  /\ version = <<>>

-----------------------------------------------------------------------------
(* The trees parser_astbuilder_finish() returns for a file in which every  *)
(* block is closed by its own directive: nodes are appended in order.      *)
NextId == Len(tree) + 1

Unread == todo = <<"read">>
Reading == Unread /\ Len(tree) < Inputs[mode].nodes

Add(node) ==
  /\ tree' = Append(tree, node)
  /\ UNCHANGED <<mode, todo, read, from, version>>

ReadVariable ==
  /\ Reading
  /\ \E var \in Inputs[mode].variables : Add(VariableNode(NextId, open, var))
  /\ UNCHANGED open

(* Comments are flushed together.                                          *)
ReadComment ==
  /\ Reading
  /\ ~\E i \in DOMAIN tree :
        i = Len(tree) /\ tree[i].type = "comment" /\ tree[i].in = open
  /\ \E lines \in Inputs[mode].comments : Add(CommentNode(NextId, open, lines))
  /\ UNCHANGED open

ReadLeaf ==
  /\ Reading
  /\ \E type \in Inputs[mode].leaves : Add(Leaf(NextId, type, open))
  /\ UNCHANGED open

Enter(node) == open' = Append(node.in, StepInto(node, FALSE))

ReadIf ==
  /\ Reading
  /\ \E type \in {"if", "for"} \cap Inputs[mode].blocks :
       LET node == Leaf(NextId, type, open) IN Add(node) /\ Enter(node)

(* Where a target is open it is on top.                                    *)
OpenBelowTarget ==
  IF open # <<>> /\ Last(open).type = "target" THEN Front(open) ELSE open

ReadElse ==
  /\ Reading
  /\ OpenBelowTarget # <<>> /\ Last(OpenBelowTarget).type = "if"
  /\ LET branch == [Last(OpenBelowTarget) EXCEPT !.orelse = TRUE]
         node == Leaf(NextId, "else", Append(Front(OpenBelowTarget), branch))
     IN Add(node) /\ Enter(node)

ReadTarget ==
  /\ Reading
  /\ "target" \in Inputs[mode].blocks
  /\ LET node == Leaf(NextId, "target", OpenBelowTarget)
     IN Add(node) /\ Enter(node)

(* .endif closes an .else with its .if.                                    *)
ReadEnd ==
  /\ Unread
  /\ OpenBelowTarget # <<>>
  /\ open' = IF Last(OpenBelowTarget).type = "else" THEN Front(Front(OpenBelowTarget))
             ELSE Front(OpenBelowTarget)
  /\ UNCHANGED <<tree, mode, todo, read, from, version>>

-----------------------------------------------------------------------------
(* PARSER_OUTPUT_EDITED: nodes that are not edited are printed as read.    *)
EditedOnly == mode # "portfmt"

(* parser_is_category_makefile()                                           *)
IsCategory == \E i \in DOMAIN tree : tree[i].type = "subdir_include"

(* The edits of a command: those of parser_read_finish() and its own.      *)
EditsOf(command) ==
  LET collapse == IF IsCategory THEN <<"collapse">> ELSE <<>>
  IN CASE command = "portfmt" ->
            <<"comments", "cmake", "collapse", "dedup", "empty">>
       [] command = "merge" ->
            <<"cmake">> \o collapse \o <<"dedup", "empty", "merge", "dedup", "empty">>
       [] command = "sanitize-append" ->
            collapse \o <<"append", "dedup", "empty", "append">>
       [] command = "sanitize-eol-comments" ->
            collapse \o <<"dedup", "empty", "eol">>
       [] command \in {"bump-revision", "bump-epoch", "set-version"} ->
            collapse \o <<"dedup", "empty", command>>

ReadFinish ==
  /\ Unread
  /\ OpenBelowTarget = <<>>
  /\ todo' = EditsOf(mode)
  /\ read' = tree
  /\ from' \in IF mode = "merge" THEN MergeTrees ELSE {<<>>}
  /\ version' \in IF mode = "set-version" THEN NewVersions ELSE {<<>>}
  /\ open' = <<>>
  /\ UNCHANGED <<tree, mode>>

(* parser_merge()                                                          *)
ParserMerge(before, script) ==
  RemoveConsecutiveEmptyLines(Balance(DedupTokens(Balance(Merge(before, script)), EditedOnly)))

Apply(edit, before) ==
  CASE edit = "comments" -> SanitizeComments(before)
    [] edit = "cmake"    -> SanitizeCmakeArgs(before)
    [] edit = "collapse" -> CollapseAdjacentVariables(before)
    [] edit = "append"   -> SanitizeAppendModifier(before)
    [] edit = "dedup"    -> DedupTokens(before, EditedOnly)
    [] edit = "empty"    -> RemoveConsecutiveEmptyLines(before)
    [] edit = "eol"      -> SanitizeEolComments(before)
    [] edit = "merge"    -> Merge(before, from)

(* The edits that write a script and merge it, and when they fail.         *)
ScriptOf(edit, before) ==
  CASE edit = "bump-revision" -> BumpScript(before, "PORTREVISION")
    [] edit = "bump-epoch"    -> BumpScript(before, "PORTEPOCH")
    [] edit = "set-version"   -> SetVersionScript(before, version)

FailsOn(edit, before) ==
  CASE edit = "bump-revision" -> BumpFails(before, "PORTREVISION")
    [] edit = "bump-epoch"    -> BumpFails(before, "PORTEPOCH")
    [] edit = "set-version"   -> SetVersionFails(before, version)

(* parser_edit()                                                           *)
Edit(edit) ==
  /\ todo # <<>> /\ Head(todo) = edit
  /\ tree' = Balance(Apply(edit, tree))
  /\ todo' = Tail(todo)
  /\ UNCHANGED <<open, mode, read, from, version>>

EditComments == Edit("comments")
EditCmakeArgs == Edit("cmake")
EditCollapse == Edit("collapse")
EditAppend == Edit("append")
EditDedup == Edit("dedup")
EditEmptyLines == Edit("empty")
EditEolComments == Edit("eol")
EditMerge == Edit("merge")

EditByScript(edit) ==
  /\ todo = <<edit>>
  /\ IF FailsOn(edit, tree)
     THEN /\ todo' = <<"error">>
          /\ tree' = Balance(tree)
          /\ UNCHANGED from
     ELSE /\ todo' = <<>>
          /\ from' = ScriptOf(edit, tree)
          /\ tree' = Balance(ParserMerge(tree, from'))
  /\ UNCHANGED <<open, mode, read, version>>

EditBumpRevision == EditByScript("bump-revision")
EditBumpEpoch == EditByScript("bump-epoch")
EditSetVersion == EditByScript("set-version")

Done == todo = <<>>

(* errx() prints nothing of the Makefile.                                  *)
Printed == (Done \/ todo = <<"error">>) /\ UNCHANGED vars

EditsNext ==
  \/ ReadVariable \/ ReadComment \/ ReadLeaf \/ ReadIf \/ ReadElse \/ ReadTarget
  \/ ReadEnd \/ ReadFinish
  \/ EditComments \/ EditCmakeArgs \/ EditCollapse \/ EditAppend
  \/ EditDedup \/ EditEmptyLines \/ EditEolComments \/ EditMerge
  \/ EditBumpRevision \/ EditBumpEpoch \/ EditSetVersion
  \/ Printed

EditsSpec == EditsInit /\ [][EditsNext]_vars

-----------------------------------------------------------------------------
Running(edit) == todo # <<>> /\ Head(todo) = edit /\ todo' = Tail(todo)

(* The environment has either no value for a variable or this one.         *)
FromEnvironment == Set(<< <<"environment">> >>)

NamesIn(nodes) == {node.name : node \in {n \in ToSet(nodes) : n.type = "variable"}}

SameValues(before, after, names, environments) ==
  \A name \in names, environment \in environments, holds \in SUBSET Conditions(before) :
    Value(after, name, environment, holds) = Value(before, name, environment, holds)

(* tree[i] and tree[j] assign one variable, and nothing but blocks,        *)
(* includes and assignments to it are between them in their list.          *)
SameRun(i, j) ==
  /\ i < j /\ tree[i].in = tree[j].in
  /\ \A k \in i .. j : tree[k].in = tree[i].in =>
       tree[k].type \in Blocks \cup Includes \/ IsVariable(tree[k], tree[i].name)
  /\ tree[i].type = "variable" /\ IsVariable(tree[j], tree[i].name)

(* Collapsing changes the value of a variable where one that was assigned  *)
(* is assigned again, as its tests want it (collapse_duplicate_vars_2.t),  *)
(* and where a block between two assignments assigns it too.               *)
CollapseChanges(name) ==
  \E i, j \in DOMAIN tree :
    /\ SameRun(i, j) /\ tree[i].name = name
    /\ \/ tree[j].modifier = "="
       \/ \E k \in i .. j : IsVariable(tree[k], name) /\ tree[k].in # tree[i].in

(* In all other Makefiles no variable has another value than before,       *)
(* whatever the environment has and which conditions hold.                 *)
CollapseKeepsValues ==
  [][Running("collapse") =>
       SameValues(tree, tree', {name \in NamesIn(tree) : ~CollapseChanges(name)},
                  {Unset, FromEnvironment})]_vars

(* refactor.sanitize-append-modifier is about the lines up to this one.    *)
Sanitized(nodes) == SubSeq(nodes, 1, StopsAt(nodes, IsBsdPortMk))

(* A variable that is set, and set again, loses what it has to the next += *)
(* of a Makefile: it counts as one that was not seen.                      *)
SetAgain(nodes, name) ==
  \E j \in DOMAIN nodes :
    /\ IsVariable(nodes[j], name) /\ nodes[j].modifier # "+="
    /\ j # FirstOf(nodes, name)

(* Only the block right around an assignment is looked at.  A target in an *)
(* .for has the lines behind it, and a variable that starts there loses    *)
(* what earlier rounds of the loop have appended.                          *)
StartsInRound(nodes, name) ==
  LET first == FirstOf(nodes, name)
  IN /\ first # 0
     /\ ParentType(nodes[first]) = "target"
     /\ \E k \in DOMAIN nodes[first].in : nodes[first].in[k].type = "for"

(* A variable whose first assignment depends on a condition may start with *)
(* += still, and ?= takes what the environment has.                        *)
FirstAssigns(nodes, name) ==
  LET first == FirstOf(nodes, name)
  IN /\ first # 0
     /\ nodes[first].modifier # "?="
     /\ \A k \in DOMAIN nodes[first].in : nodes[first].in[k].type = "target"

(* Without a value in the environment all variables keep theirs, and with  *)
(* one they have the same as without.                                      *)
AppendSanitized ==
  [][Running("append") =>
       /\ SameValues(tree, tree',
            {name \in NamesIn(tree) : /\ ~SetAgain(Sanitized(tree), name)
                               /\ ~StartsInRound(Sanitized(tree), name)}, {Unset})
       /\ \A name \in NamesIn(tree) \ FlagNames, holds \in SUBSET Conditions(tree) :
            FirstAssigns(Sanitized(tree), name) =>
              Value(Sanitized(tree'), name, FromEnvironment, holds)
                = Value(Sanitized(tree'), name, Unset, holds)]_vars

(* A node that is not marked as edited is printed from the lines it was    *)
(* read from: whatever an edit has done to it would be lost.  Joining -D   *)
(* to what follows is the one change that is meant to be.                  *)
UneditedAsRead ==
  Done /\ EditedOnly =>
    \A i \in DOMAIN tree :
      tree[i].type \in {"variable", "comment"} /\ ~tree[i].edited =>
        \E k \in DOMAIN read :
          \/ tree[i] = read[k]
          \/ mode = "merge" /\ tree[i] = SanitizeCmakeArgs(read)[k]

(* What a second run reads.                                                *)
Reread(nodes) ==
  LET kept == SelectSeq(nodes, LAMBDA n :
                n.type # "deleted" /\ ~(n.type = "comment" /\ n.words = <<>>))
  IN MapNodes(kept, LAMBDA n : [n EXCEPT !.edited = FALSE])

Assignments(nodes, name) == {i \in DOMAIN nodes : IsVariable(nodes[i], name)}

(* The variable is assigned nowhere, or once and where merge may find it.  *)
AtMostOnce(nodes, name) ==
  /\ Cardinality(Assignments(nodes, name)) <= 1
  /\ Assignments(nodes, name) \subseteq TopVariables(Sanitized(nodes))

(* An assignment behind a block is not found and a second one is added.    *)
BehindBlock(nodes, name) == IsAssigned(nodes, name) /\ FindVariable(nodes, name) = 0

VersionNames ==
  {"DISTVERSIONPREFIX", "PORTVERSION", "DISTVERSION", "DISTVERSIONSUFFIX", "PORTREVISION"}

(* The variables of a version are where they are found again.              *)
HasPlainVersion(nodes) ==
  \A name \in VersionNames : AtMostOnce(nodes, name) /\ ~BehindBlock(nodes, name)

Again(edit, nodes) ==
  IF edit = "set-version" THEN ParserMerge(nodes, ScriptOf(edit, nodes)) ELSE Apply(edit, nodes)

(* A Makefile that was edited is not changed by the same command: neither  *)
(* its values nor the form of its lines (what tests/run.sh asserts of      *)
(* every test of portfmt).  A version is set once and for all, but where   *)
(* a port had none its revision is looked at in the second run only, and   *)
(* what is behind a block is not found and added once more in every run.   *)
SecondRunChangesNothing ==
  /\ Done
  /\ mode \notin {"merge", "bump-revision", "bump-epoch"}
  /\ mode = "set-version" =>
       /\ IsAssigned(read, VersionName(read))
       /\ HasPlainVersion(read)
  =>
    LET again == FoldLeft(LAMBDA nodes, edit : Balance(Again(edit, nodes)),
                          Balance(Reread(tree)), EditsOf(mode))
    IN Reread(again) = Reread(tree)

(* The lines of a comment that are not blank, whatever their indent.       *)
Prose(lines) ==
  FlattenSeq([k \in DOMAIN lines |->
                IF lines[k] = "blank" THEN <<>> ELSE <<Trim(lines[k])>>])

TextsOf(node) ==
  CASE node.type = "comment" -> Prose(node.words)
    [] node.type = "variable" /\ node.comment \in {"marker", "text"} -> <<node.comment>>
    [] OTHER -> <<>>

(* The comments of a Makefile, line by line.                               *)
Texts(nodes) == FlattenSeq([i \in DOMAIN nodes |-> TextsOf(nodes[i])])

(* No comment is lost or moved past another, wherever it is: not when      *)
(* comments are joined, variables are collapsed, or a comment is moved     *)
(* from the end of a line to above it.                                     *)
CommentsKept ==
  Done /\ mode \in {"portfmt", "sanitize-append", "sanitize-eol-comments"} =>
    Texts(tree) = Texts(read)

-----------------------------------------------------------------------------
(* What a merge is asked for: the assignments before the first block.  The *)
(* others are not looked at.                                               *)
Asked(script) ==
  {node \in ToSet(SubSeq(script, 1, StopsAt(script, IsInBlock))) : node.type = "variable"}

WithEolComment(name) ==
  \E i \in Assignments(tree, name) : tree[i].comment # "none"

MergedValue(node, old) ==
  CASE node.modifier = "!="                         -> Unset
    [] node.modifier = "+="                         -> Set(old.words \o node.words)
    [] node.modifier = "?=" /\ BehindBlock(tree, node.name) -> old
    [] OTHER                                        -> Set(node.words)

(* A variable that is assigned at most once, at the top and before the     *)
(* includes of bsd.port.mk, has the value it was merged with, and is still *)
(* assigned at most once, unless it is behind a block or words would have  *)
(* to be appended in front of a comment.                                   *)
MergeTakesEffect ==
  [][Running("merge") =>
       \A node \in Asked(from) : AtMostOnce(tree, node.name) =>
         /\ \A holds \in SUBSET Conditions(tree) :
              Value(tree', node.name, Unset, holds)
                = MergedValue(node, Value(tree, node.name, Unset, holds))
         /\ \/ Cardinality(Assignments(tree', node.name)) <= 1
            \/ BehindBlock(tree, node.name)
            \/ node.modifier = "+=" /\ WithEolComment(node.name)]_vars

Others(nodes, names) ==
  SelectSeq(nodes, LAMBDA n :
    n.type \notin {"comment", "deleted"} /\ ~(n.type = "variable" /\ n.name \in names))

Bumps == todo \in {<<"bump-revision">>, <<"bump-epoch">>} /\ todo' = <<>>

SetsVersion == todo = <<"set-version">> /\ todo' = <<>>

(* portedit merge, or one of the commands that merge a script.             *)
Merges == Running("merge") \/ Bumps \/ SetsVersion

(* Nothing else of the Makefile is touched or moved.                       *)
MergeKeepsOthers ==
  [][Merges =>
       /\ Others(tree', NamesIn(from')) = Others(tree, NamesIn(from'))
       /\ (\A node \in Asked(from') : node.modifier # "!=") => Len(Texts(tree')) >= Len(Texts(tree))]_vars

(* The variables at the top, up to the first include of bsd.port.mk, are   *)
(* in the order of portclippy.                                             *)
InOrder(nodes) ==
  LET top == TopVariables(SubSeq(nodes, 1,
               StopsAt(nodes, LAMBDA n : IsBsdPortMk(n) /\ n.in = <<>>)))
  IN \A i, j \in top : i < j => Rank[nodes[i].name] <= Rank[nodes[j].name]

(* A Makefile in the order of portclippy stays in it.                      *)
MergeKeepsOrder == [][Merges /\ InOrder(tree) => InOrder(tree')]_vars

-----------------------------------------------------------------------------
(* Neither deleted, because there is a comment above it or the port is a   *)
(* slave, nor found, because it is behind a block: the new assignment is   *)
(* then overridden by the old.                                             *)
StaysBehind(name) ==
  BehindBlock(tree, name) /\ (IsAssigned(tree, "MASTERDIR") \/ ~ShouldDelete(tree, name))

NewNumber(name) == Numeral[IF IsAssigned(tree, name) THEN Number(Text(tree, name)) + 1 ELSE 1]

HasRevision(nodes, holds) ==
  Value(nodes, "PORTREVISION", Unset, holds) \notin {Unset, Set(<<Numeral[0]>>)}

CommentOf(nodes, name) ==
  IF IsAssigned(nodes, name) THEN nodes[FirstOf(nodes, name)].comment ELSE "none"

(* A revision or epoch that is assigned at most once goes up by one, keeps *)
(* the comment behind it and is still assigned once, up to and including   *)
(* the largest number that can be read.  A new epoch leaves no revision.   *)
BumpIncrements ==
  [][Bumps =>
       LET name == IF mode = "bump-epoch" THEN "PORTEPOCH" ELSE "PORTREVISION" IN
       \A holds \in SUBSET Conditions(tree) :
         /\ AtMostOnce(tree, name) /\ ~StaysBehind(name) =>
              /\ Value(tree', name, Unset, holds) = Set(<<NewNumber(name)>>)
              /\ Cardinality(Assignments(tree', name)) = 1
              /\ CommentOf(tree', name) = CommentOf(tree, name)
         /\ mode = "bump-epoch" /\ AtMostOnce(tree, "PORTREVISION") =>
              /\ ~HasRevision(tree', holds)
              /\ IsOptional(tree, "PORTREVISION") => IsOptional(tree', "PORTREVISION")]_vars

(* Prefix, version and suffix as bsd.port.mk puts them together.           *)
FullVersion(nodes, holds) ==
  LET TextOf(name) == FlattenSeq(Value(nodes, name, Unset, holds).words)
  IN TextOf("DISTVERSIONPREFIX") \o TextOf("PORTVERSION") \o TextOf("DISTVERSION")
       \o TextOf("DISTVERSIONSUFFIX")

(* The prefix need not be given.                                           *)
PrefixLeftOut ==
  /\ ~IsGitDescribe(version)
  /\ IsAssigned(tree, "DISTVERSIONPREFIX") /\ ~IsPrefix(Text(tree, "DISTVERSIONPREFIX"), version)

(* The version of a port whose version variables are assigned at most once *)
(* and not behind a block is the one that was asked for, in one variable.  *)
(* The revision is gone if the version was another one, and otherwise      *)
(* stays; one that slave ports may have their own of is 0.                 *)
SetVersionTakesEffect ==
  [][/\ SetsVersion
     /\ HasPlainVersion(tree)
     /\ ~(IsAssigned(tree, "PORTVERSION") /\ IsAssigned(tree, "DISTVERSION"))
     =>
     \A holds \in SUBSET Conditions(tree) :
       /\ FullVersion(tree', holds) =
            (IF PrefixLeftOut THEN Text(tree, "DISTVERSIONPREFIX") ELSE <<>>) \o version
       /\ ~(IsAssigned(tree', "PORTVERSION") /\ IsAssigned(tree', "DISTVERSION"))
       /\ IsOtherVersion(tree, version) =>
            /\ ~HasRevision(tree', holds)
            /\ IsOptional(tree, "PORTREVISION") => IsOptional(tree', "PORTREVISION")
       /\ ~IsOtherVersion(tree, version) =>
            HasRevision(tree', holds) = HasRevision(tree, holds)]_vars

(* All assignments at the top are merged, wherever conditionals are.       *)
EveryVariableMerged ==
  [][Running("merge") =>
       \A k \in TopVariables(from) : from[k].modifier = "=" =>
         \E i \in Assignments(tree', from[k].name) : tree'[i].words = from[k].words]_vars
=============================================================================
