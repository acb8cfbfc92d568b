------------------------------ MODULE MCEdits ------------------------------
(* A stands for USES, B for one of the flags and C for CMAKE_ARGS: A and B *)
(* in the same block, and C in the last but one.  The variables of a       *)
(* version are in the first block, MASTERDIR is in the last.               *)
EXTENDS Edits

Variable(name, modifier, words, comment) ==
  [name |-> name, modifier |-> modifier, words |-> words, comment |-> comment]

Version == <<"PORTNAME", "PORTVERSION", "DISTVERSIONPREFIX", "DISTVERSION",
             "DISTVERSIONSUFFIX", "PORTREVISION", "PORTEPOCH">>

Ordered == Version \o <<"A", "B", "C", "MASTERDIR">>

MCNames == ToSet(Ordered)
MCRank == [name \in MCNames |-> CHOOSE i \in DOMAIN Ordered : Ordered[i] = name]
MCBlock == [name \in MCNames |->
  CASE name \in ToSet(Version) -> 0
    [] name \in {"A", "B"}     -> 1
    [] name = "C"              -> 4
    [] name = "MASTERDIR"      -> 5]

(* A number is a 0 and as many strokes.                                    *)
MCNumeral == [n \in 0 .. 3 |-> <<"0">> \o [k \in 1 .. n |-> "|"]]

One(name, modifier, text) == Variable(name, modifier, <<text>>, "none")

MCRevisions ==
  { One("PORTREVISION", "=", MCNumeral[0]), One("PORTREVISION", "?=", MCNumeral[1]),
    Variable("PORTREVISION", "=", <<MCNumeral[2]>>, "text"),
    One("PORTREVISION", "=", <<"x">>) }

MCSlave == One("MASTERDIR", "=", <<"m">>)

MCVersions ==
  { One("PORTVERSION", "=", <<"1">>), One("DISTVERSION", "=", <<"1">>),
    One("DISTVERSIONPREFIX", "=", <<"v">>), One("DISTVERSIONSUFFIX", "=", <<"rc">>) }

MCVariables ==
  { Variable("A", "=", << <<"u">> >>, "none"),
    Variable("A", "+=", << <<"u", "1">> >>, "none"),
    Variable("A", "?=", << <<"v">> >>, "none"),
    Variable("B", "+=", << <<"x">> >>, "text"),
    Variable("C", "=", << <<"-D">>, <<"x">> >>, "marker") }

MCComments == { <<"blank", "indented", "blank", "blank">> }

Input(variables, comments, blocks, leaves, nodes) ==
  [variables |-> variables, comments |-> comments, blocks |-> blocks,
   leaves |-> leaves, nodes |-> nodes]

MCInputs ==
  [command \in Modes |->
     CASE command \in {"portfmt", "sanitize-append", "sanitize-eol-comments"} ->
            Input(MCVariables, MCComments, Blocks, Includes, 4)
       [] command = "merge" -> Input(MCVariables, MCComments, Blocks, Includes, 3)
       [] command = "bump-revision" ->
            Input(MCRevisions \cup {MCSlave, One("PORTNAME", "=", <<"p">>)},
                  {<<"blank">>, <<"text">>}, {"if", "else", "target"}, {"bsd_include"}, 4)
       [] command = "bump-epoch" ->
            Input(MCRevisions \cup {One("PORTEPOCH", "=", MCNumeral[1]), One("PORTNAME", "=", <<"p">>)},
                  {<<"text">>}, {"if", "else"}, {"bsd_include"}, 3)
       [] command = "set-version" ->
            Input(MCVersions \cup (MCRevisions \ {One("PORTREVISION", "=", MCNumeral[0])}), {}, {"if"}, {}, 4)]

MCNewVersions ==
  { <<"1">>, <<"2">>, <<"v", "2", "rc">>, <<"1", "rc">>, <<"v", "2", "g0">>, <<"2", "g0">> }

(* For the run that ends with a violation.                                 *)
MCFewInputs ==
  [command \in Modes |-> Input(MCVariables, {}, {}, {}, 3)]

Merged(name, modifier) ==
  VariableNode(1, <<>>, Variable(name, modifier, << <<"w">> >>, "none"))

(* One variable of a conditional and one behind it.                        *)
Conditional ==
  LET if == Leaf(2, "if", <<>>)
      inside == VariableNode(3, <<StepInto(if, FALSE)>>,
                             Variable("A", "=", << <<"w">> >>, "none"))
  IN <<Merged("C", "="), if, inside, Merged("B", "=")>>

MCMergeTrees ==
  { <<Merged("A", "=")>>, <<Merged("A", "+=")>>, <<Merged("A", "?=")>>, <<Merged("A", "!=")>>,
    <<Merged("B", "+=")>>, <<Merged("C", "="), Merged("B", "=")>>, Conditional }
============================================================================
