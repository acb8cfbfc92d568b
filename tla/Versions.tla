------------------------------ MODULE Versions ------------------------------
(***************************************************************************)
(* portedit bump-revision, bump-epoch and set-version: parser/edits/edit/  *)
(* bump_revision.c and set_version.c.  Both look at the first assignment   *)
(* of a variable, wherever it is, write a script and merge it.             *)
(*                                                                         *)
(* A version is a sequence of parts, and the words of a variable that      *)
(* holds one are versions.  What a script says is given as the nodes of    *)
(* the tree it is parsed to: no edit of parser_read_finish() changes them. *)
(***************************************************************************)
EXTENDS Merging

CONSTANTS
  Numeral,       (* the text of a number                                 *)
  MaxRevision,   (* INT_MAX, the largest number strtonum() takes         *)
  Letters,       (* the parts without a digit at the start of a version  *)
  GitHashes      (* the parts of a version like -gc07c115                *)

ASSUME RevisionAssumption ==
  /\ MaxRevision \in Nat \ {0}
  /\ \A a, b \in 0 .. (MaxRevision + 1) : Numeral[a] = Numeral[b] => a = b

-----------------------------------------------------------------------------
(* parser_lookup_variable() with PARSER_LOOKUP_FIRST, 0 if it finds none.  *)
FirstOf(nodes, name) == SelectInSeq(nodes, LAMBDA n : IsVariable(n, name))

IsAssigned(tree, name) == FirstOf(tree, name) # 0

(* parser_lookup_variable_str(); the blanks between words are left out.    *)
Text(tree, name) == FlattenSeq(tree[FirstOf(tree, name)].words)

IsOptional(tree, name) ==
  IsAssigned(tree, name) /\ tree[FirstOf(tree, name)].modifier = "?="

(* strtonum(text, 0, INT_MAX)                                              *)
IsNumber(text) == \E n \in 0 .. MaxRevision : text = Numeral[n]
Number(text) == CHOOSE n \in 0 .. MaxRevision : text = Numeral[n]

(* The lines of a script.                                                  *)
Line(name, modifier, text, comment) ==
  VariableNode(1, <<>>, [name |-> name, modifier |-> modifier,
                         words |-> <<text>>, comment |-> comment])

Delete(name) ==
  VariableNode(1, <<>>, [name |-> name, modifier |-> "!=", words |-> <<>>, comment |-> "none"])

-----------------------------------------------------------------------------
(* edit_bump_revision()                                                    *)

(* should_delete_variable_walker(): not if there is a comment with text    *)
(* right before the first assignment of the variable.                      *)
ShouldDelete(tree, name) ==
  LET i == FirstOf(tree, name)
  IN ~(/\ i > 1 /\ tree[i - 1].type = "comment"
       /\ \E k \in DOMAIN tree[i - 1].words : tree[i - 1].words[k] # "blank")

(* A new epoch takes the revision with it.                                 *)
ResetOfEpoch(tree) ==
  IF IsOptional(tree, "PORTREVISION") THEN <<Line("PORTREVISION", "=", Numeral[0], "none")>>
  ELSE <<Delete("PORTREVISION")>>

BumpFails(tree, name) == IsAssigned(tree, name) /\ ~IsNumber(Text(tree, name))

(* Faulty: a revision that is there is taken for a new one.                *)
BumpedFromOne(tree, name) ==
  LET var == tree[FirstOf(tree, name)]
  IN <<Line(name, var.modifier, Numeral[1], var.comment)>>

(* The first assignment one up.  PORTREVISION of a slave port is left at   *)
(* its place.                                                              *)
Bumped(tree, name) ==
  LET var == tree[FirstOf(tree, name)]
      next == Line(name, var.modifier, Numeral[Number(Text(tree, name)) + 1], var.comment)
  IN IF ~IsAssigned(tree, "MASTERDIR") /\ ShouldDelete(tree, name)
     THEN <<Delete(name), next>> ELSE <<next>>

(* get_merge_script()                                                      *)
BumpScript(tree, name) ==
  (IF name = "PORTEPOCH" THEN ResetOfEpoch(tree) ELSE <<>>)
    \o (IF IsAssigned(tree, name) THEN Bumped(tree, name)
        ELSE <<Line(name, "=", Numeral[1], "none")>>)

-----------------------------------------------------------------------------
(* edit_set_version()                                                      *)

(* is_git_describe_version(): v1.2-3-gc07c115 is v, 1.2-3 and -gc07c115.   *)
IsGitDescribe(version) == Len(version) > 1 /\ Last(version) \in GitHashes

(* extract_git_describe_prefix()                                           *)
GitPrefix(version) == IF Head(version) \in Letters THEN <<Head(version)>> ELSE <<>>

GitVersion(version) == SubSeq(version, Len(GitPrefix(version)) + 1, Len(version) - 1)

(* The variable that holds the version now.                                *)
VersionName(tree) == IF IsAssigned(tree, "PORTVERSION") THEN "PORTVERSION" ELSE "DISTVERSION"

(* Whether the revision is looked at: the version is another one.  The     *)
(* new version is compared as it was given, with its prefix and suffix.    *)
IsOtherVersion(tree, version) ==
  /\ IsAssigned(tree, VersionName(tree)) /\ Text(tree, VersionName(tree)) # version
  /\ IsAssigned(tree, "PORTREVISION")

SetVersionFails(tree, version) ==
  IsOtherVersion(tree, version) /\ ~IsNumber(Text(tree, "PORTREVISION"))

(* A revision of 0 is left as it is.                                       *)
ResetRevision(tree, version) ==
  IF IsOtherVersion(tree, version) /\ Text(tree, "PORTREVISION") # Numeral[0]
  THEN IF IsOptional(tree, "PORTREVISION")
       THEN <<Line("PORTREVISION", "=", Numeral[0], "none")>>
       ELSE <<Delete("PORTREVISION")>>
  ELSE <<>>

(* The current suffix and prefix are taken off, in this order.             *)
HasSuffix(tree, version) ==
  IsAssigned(tree, "DISTVERSIONSUFFIX") /\ IsSuffix(Text(tree, "DISTVERSIONSUFFIX"), version)

WithoutSuffix(tree, version) ==
  IF HasSuffix(tree, version)
  THEN SubSeq(version, 1, Len(version) - Len(Text(tree, "DISTVERSIONSUFFIX"))) ELSE version

(* Faulty: the prefix stays.                                               *)
WithPrefix(tree, version) == WithoutSuffix(tree, version)

Trimmed(tree, version) ==
  LET rest == WithoutSuffix(tree, version)
  IN IF IsAssigned(tree, "DISTVERSIONPREFIX") /\ IsPrefix(Text(tree, "DISTVERSIONPREFIX"), rest)
     THEN SubSeq(rest, Len(Text(tree, "DISTVERSIONPREFIX")) + 1, Len(rest))
     ELSE rest

GitScript(tree, version) ==
  << Line("DISTVERSIONSUFFIX", "=", <<Last(version)>>, "none"),
     IF GitPrefix(version) # <<>> THEN Line("DISTVERSIONPREFIX", "=", GitPrefix(version), "none")
     ELSE Delete("DISTVERSIONPREFIX"),
     Delete("PORTVERSION"),
     Line("DISTVERSION", "=", GitVersion(version), "none") >>

PlainScript(tree, version) ==
  (IF IsAssigned(tree, "DISTVERSIONSUFFIX") /\ ~HasSuffix(tree, version)
   THEN <<Delete("DISTVERSIONSUFFIX")>> ELSE <<>>)
    \o (IF VersionName(tree) = "DISTVERSION" THEN <<Delete("PORTVERSION")>> ELSE <<>>)
    \o <<Line(VersionName(tree), "=", Trimmed(tree, version), "none")>>

SetVersionScript(tree, version) ==
  (IF IsGitDescribe(version) THEN GitScript(tree, version) ELSE PlainScript(tree, version))
    \o ResetRevision(tree, version)
=============================================================================
