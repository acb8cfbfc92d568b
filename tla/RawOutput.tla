----------------------------- MODULE RawOutput -----------------------------
(***************************************************************************)
(* parser_output_reformatted_walker() of parser.c on a tree that no edit   *)
(* has touched, in the modes where such nodes are copied from the input    *)
(* (PARSER_OUTPUT_EDITED without PARSER_FORMAT_TARGET_COMMANDS, what every *)
(* portedit command uses): for every node it prints the physical lines of  *)
(* its range.  The output is a sequence of line numbers.                   *)
(***************************************************************************)
EXTENDS ASTBuilder, FiniteSets, SequencesExt

(* parser_output_print_rawlines()                                          *)
RawLines(range) == [i \in 1 .. (range.b - range.a) |-> range.a + i - 1]

(* The numbers of a set, the least first.                                  *)
Ascending(S) ==
  [i \in 1 .. Cardinality(S) |-> CHOOSE n \in S : Cardinality({m \in S : m < n}) = i - 1]

(* The two lists of children of a node, in order.                          *)
Body(parent) ==
  Ascending({n \in DOMAIN nodes \ {Root} :
               nodes[n].parent = parent /\ nodes[n].ifparent = NoNode})
Orelse(parent) == Ascending({n \in DOMAIN nodes : nodes[n].ifparent = parent})

(* The walk.  A command without words prints nothing; of an .else found in *)
(* orelse only the line and the body are printed; the line_end of a .for   *)
(* is printed whether or not an .endfor was seen; and an unassociated      *)
(* target prints its line, which is that of its first command.             *)
Output ==
  LET out[n \in DOMAIN nodes] ==
        LET node == nodes[n]
            Walk(children) ==
              FlattenSeq([i \in DOMAIN children |-> out[children[i]]])
            start == RawLines(node.line_start)
            end == RawLines(node.line_end)
            body == Walk(Body(n))
            orelse == Orelse(n)
            otherwise ==
              IF orelse # <<>> /\ nodes[orelse[1]].type = "ELSE"
              THEN RawLines(nodes[orelse[1]].line_start)
                     \o Walk(Body(orelse[1]))
              ELSE Walk(orelse)
        IN CASE node.type = "ROOT" -> body
             [] node.type = "NO_OP_COMMAND" -> <<>>
             [] node.type = "FOR" -> start \o body \o end
             [] node.type = "TARGET" -> start \o body
             [] node.type \in IfTypes /\ node.ifparent = NoNode ->
                  start \o body \o otherwise \o end
             [] node.type \in IfTypes /\ node.ifparent # NoNode ->
                  start \o body \o otherwise
             [] OTHER -> start
  IN out[Root]

-----------------------------------------------------------------------------
Input == [i \in 1 .. rawlines |-> i]

(* The shapes of input that the builder accepts and the printer does not   *)
(* give back.                                                              *)
LoneLastBackslash == continued /\ inbuf = "none"
UnclosedFor == \E n \in DOMAIN nodes : nodes[n].type = "FOR" /\ ~Closed(n)
BranchAfterElse ==
  \E n \in DOMAIN nodes :
    /\ nodes[n].ifparent # NoNode
    /\ nodes[nodes[n].ifparent].type = "ELSE"
    /\ nodes[nodes[n].ifparent].ifparent # NoNode
(* An unassociated target has the line of its first command for its own.   *)
Unassociated(n) ==
  nodes[n].type = "TARGET" /\ \A i \in DOMAIN tokens :
    tokens[i].type = "target_start" => tokens[i].lines # nodes[n].line_start
NoOpCommandLine ==
  \E n \in DOMAIN nodes :
    /\ nodes[n].type = "NO_OP_COMMAND"
    /\ ~(Unassociated(n - 1) /\ nodes[n].line_start = nodes[n - 1].line_start)
UnassociatedCommand ==
  \E n \in DOMAIN nodes : Unassociated(n) /\ nodes[n + 1].type = "COMMAND"

(* A file that is accepted and not edited is printed as it was read, line  *)
(* by line and in order, unless it has one of five shapes; with any of     *)
(* them a line is lost or printed twice.                                   *)
RoundTrip ==
  built =>
    (Output = Input <=> ~( \/ LoneLastBackslash \/ UnclosedFor \/ BranchAfterElse
                           \/ NoOpCommandLine \/ UnassociatedCommand ))

(* The tree keeps the order of the file whatever was opened and closed in  *)
(* between: walking it, body before alternatives, meets the nodes in the   *)
(* order they were read.                                                   *)
WalkInSourceOrder ==
  LET walk[n \in DOMAIN nodes] ==
        LET Visit(children) ==
              FlattenSeq([i \in DOMAIN children |-> walk[children[i]]])
        IN <<n>> \o Visit(Body(n)) \o Visit(Orelse(n))
  IN walk[Root] = [i \in DOMAIN nodes |-> i]
=============================================================================
