----------------------------- MODULE ASTBuilder -----------------------------
(***************************************************************************)
(* ast_from_token_stream() of parser/astbuilder.c: the tokens of a whole   *)
(* file are turned into a tree by a machine with two stacks, nodestack of  *)
(* the nodes new ones are appended to, and ifstack of the conditionals     *)
(* that .elif, .else and .endif refer to.  It starts when the tokenizer    *)
(* has finished without an error (parser_read_finish()).                   *)
(*                                                                         *)
(* Nodes are only ever appended as the last child of their parent, so the  *)
(* tree is a sequence of nodes that name their parent: the children of a   *)
(* node are the later nodes naming it, in order.                           *)
(***************************************************************************)
EXTENDS Tokenizer

VARIABLES
  nodes,      (* the nodes created so far; nodes[1] is the root          *)
  nodestack,  (* Seq of node numbers, the top last                       *)
  ifstack,    (* Seq of node numbers, the top last                       *)
  comments,   (* current_comments: the ranges of pending comment tokens  *)
  pos,        (* the token to be processed                               *)
  built       (* the tree was returned to the parser                     *)

builderVars == <<nodes, nodestack, ifstack, comments, pos, built>>
vars == <<tokenizerVars, builderVars>>

Root == 1
NoNode == 0

(* AST_IF of type AST_IF_ELSE is told apart, the printer treats it apart.  *)
IfTypes == {"IF", "ELSE"}
Containers == IfTypes \cup {"ROOT", "FOR", "TARGET"}
NodeTypes == Containers \cup {"COMMENT", "INCLUDE", "EXPR", "VARIABLE",
                              "COMMAND", "NO_OP_COMMAND"}

(* ifparent is the conditional a branch belongs to; a branch hangs in its  *)
(* orelse list, every other node in its parent's body.                     *)
Node == [type : NodeTypes, parent : Nat, ifparent : Nat,
         line_start : LineRange, line_end : LineRange]

(* Faulty: the end of the range is not set.                                *)
NewNodeWithoutEnd(type, parent, ifparent, range) ==
  [type |-> type, parent |-> parent, ifparent |-> ifparent, line_start |-> range]

NewNode(type, parent, ifparent, range) ==
  [type |-> type, parent |-> parent, ifparent |-> ifparent,
   line_start |-> range, line_end |-> range]

RootNode == NewNode("ROOT", Root, NoNode, [a |-> 0, b |-> 0])

Peek(stack) == stack[Len(stack)]

(* Faulty: what was looked for stays on the stack.                         *)
BelowAndAt(stack, i) == SubSeq(stack, 1, i)

(* The stack once everything down to and including its i-th was popped.    *)
Below(stack, i) == SubSeq(stack, 1, i - 1)

-----------------------------------------------------------------------------
(* The node that stands for the pending comments.                          *)
CommentNode(parent) ==
  [NewNode("COMMENT", parent, NoNode, comments[1])
     EXCEPT !.line_start.b = Peek(comments).b]

(* Faulty: comments go to the root.                                        *)
FlushedToRoot ==
  IF comments = <<>> THEN nodes ELSE Append(nodes, CommentNode(Root))

(* Faulty: the range of the first comment stands for all.                  *)
FlushedFirst ==
  IF comments = <<>> THEN nodes
  ELSE Append(nodes, NewNode("COMMENT", Peek(nodestack), NoNode, comments[1]))

(* ast_from_token_stream_flush_comments(): the pending comments become one *)
(* comment node under the top of nodestack.                                *)
Flushed ==
  IF comments = <<>> THEN nodes ELSE Append(nodes, CommentNode(Peek(nodestack)))

Next1(ns) == Len(ns) + 1

Building == finished /\ error = "ok" /\ ~built

(* Every token but a comment flushes the comments before it, whatever its  *)
(* type; nodestack is tested for exhaustion first and never is             *)
(* (NodeStackRooted), so no step reports it.                               *)
Token1(type) ==
  /\ Building
  /\ pos \in DOMAIN tokens
  /\ tokens[pos].type = type
  /\ nodestack # <<>>
  /\ pos' = pos + 1
  /\ comments' = IF type = "comment" THEN Append(comments, tokens[pos].lines) ELSE <<>>
  /\ UNCHANGED <<inbuf, continued, in_target, finished, lines, tokens,
                 rawlines, built>>

Here == tokens[pos].lines

(* The builder gives up: the root, with all it has, is never returned.     *)
Fail ==
  /\ error' = "ast_build_failed"
  /\ UNCHANGED <<nodes, nodestack, ifstack>>

-----------------------------------------------------------------------------
Comment ==
  /\ Token1("comment")
  /\ UNCHANGED <<error, nodes, nodestack, ifstack>>

(* A token that becomes a childless node.                                  *)
Leaf(tokentype, nodetype) ==
  /\ Token1(tokentype)
  /\ nodes' = Append(Flushed, NewNode(nodetype, Peek(nodestack), NoNode, Here))
  /\ UNCHANGED <<error, nodestack, ifstack>>

Include  == Leaf("include", "INCLUDE")
Expr     == Leaf("expr", "EXPR")
Variable == Leaf("var", "VARIABLE")

(* .include without a path, .if without and .else with words.              *)
Malformed == \E type \in {"bad_include", "bad_if", "bad_else"} : Token1(type) /\ Fail

For ==
  /\ Token1("for")
  /\ nodes' = Append(Flushed, NewNode("FOR", Peek(nodestack), NoNode, Here))
  /\ nodestack' = Append(nodestack, Next1(Flushed))
  /\ UNCHANGED <<error, ifstack>>

(* .endfor closes a target on top of the stack, and then the .for below.   *)
Endfor ==
  /\ Token1("endfor")
  /\ LET depth == IF nodes[Peek(nodestack)].type = "TARGET"
                  THEN Len(nodestack) - 1 ELSE Len(nodestack)
         node == nodestack[depth]
     IN IF nodes[node].type = "FOR"
        THEN /\ nodes' = [Flushed EXCEPT ![node].line_end = Here]
             /\ nodestack' = Below(nodestack, depth)
             /\ UNCHANGED <<error, ifstack>>
        ELSE Fail

(* Faulty: ifstack is forgotten.                                           *)
PushIfOnNodes(type, parent, ifparent) ==
  /\ nodes' = Append(Flushed, NewNode(type, parent, ifparent, Here))
  /\ nodestack' = Append(nodestack, Next1(Flushed))
  /\ UNCHANGED <<error, ifstack>>

(* A conditional is appended to parent and pushed on both stacks.          *)
PushIf(type, parent, ifparent) ==
  /\ nodes' = Append(Flushed, NewNode(type, parent, ifparent, Here))
  /\ nodestack' = Append(nodestack, Next1(Flushed))
  /\ ifstack' = Append(ifstack, Next1(Flushed))
  /\ UNCHANGED error

If ==
  /\ Token1("if")
  /\ PushIf("IF", Peek(nodestack), NoNode)

(* Faulty: branches hang off the outermost conditional.                    *)
BranchOfOutermost(tokentype, nodetype) ==
  /\ Token1(tokentype)
  /\ IF ifstack = <<>>
     THEN PushIf(nodetype, Peek(nodestack), NoNode)
     ELSE PushIf(nodetype, ifstack[1], ifstack[1])

(* .elif and .else hang off the conditional on top of ifstack, whatever    *)
(* was opened since; without one they are taken for the start of a new     *)
(* conditional.                                                            *)
Branch(tokentype, nodetype) ==
  /\ Token1(tokentype)
  /\ IF ifstack = <<>>
     THEN PushIf(nodetype, Peek(nodestack), NoNode)
     ELSE PushIf(nodetype, Peek(ifstack), Peek(ifstack))

Elif == Branch("elif", "IF")
Else == Branch("else", "ELSE")

(* Faulty: one pop is enough.                                              *)
TopOfIfstack(i) == i = Len(ifstack)

(* The innermost conditional on ifstack that is not a branch.              *)
InnermostIf(i) ==
  /\ nodes[ifstack[i]].ifparent = NoNode
  /\ \A k \in (i + 1) .. Len(ifstack) : nodes[ifstack[k]].ifparent # NoNode

(* .endif pops ifstack down to and including the conditional that is not   *)
(* a branch, and nodestack down to and including the same node: whatever   *)
(* is open inside is closed with it.                                       *)
Endif ==
  /\ Token1("endif")
  /\ \/ ifstack = <<>> /\ Fail
     \/ \E i \in DOMAIN ifstack, j \in DOMAIN nodestack :
          /\ InnermostIf(i)
          /\ nodestack[j] = ifstack[i]
          /\ \A k \in (j + 1) .. Len(nodestack) : nodestack[k] # ifstack[i]
          /\ nodes' = [Flushed EXCEPT ![ifstack[i]].line_end = Here]
          /\ ifstack' = Below(ifstack, i)
          /\ nodestack' = Below(nodestack, j)
          /\ UNCHANGED error

-----------------------------------------------------------------------------
(* nodestack without a target on top.                                      *)
WithoutTarget ==
  IF nodes[Peek(nodestack)].type = "TARGET" THEN Below(nodestack, Len(nodestack))
  ELSE nodestack

(* A new target ends the old one if it is on top of the stack.  Comments   *)
(* before it were flushed into the old one by then.                        *)
TargetStart ==
  /\ Token1("target_start")
  /\ nodes' = Append(Flushed, NewNode("TARGET", Peek(WithoutTarget), NoNode, Here))
  /\ nodestack' = Append(WithoutTarget, Next1(Flushed))
  /\ UNCHANGED <<error, ifstack>>

(* Faulty: whatever is on top is taken for the target.                     *)
TargetEndUnchecked ==
  /\ Token1("target_end")
  /\ nodes' = Flushed
  /\ nodestack' = Below(nodestack, Len(nodestack))
  /\ UNCHANGED <<error, ifstack>>

TargetEnd ==
  /\ Token1("target_end")
  /\ nodes' = Flushed
  /\ nodestack' = WithoutTarget
  /\ UNCHANGED <<error, ifstack>>

(* Which nodes are a target or have one among their ancestors.             *)
HasTarget ==
  LET has[n \in DOMAIN nodes] ==
        n # Root /\ (nodes[n].type = "TARGET" \/ has[nodes[n].parent])
  IN has

(* A command belongs to the target found up the parents of the top of the  *)
(* stack.  Without one an unassociated target is put in between, and stays *)
(* on the stack.                                                           *)
Command(tokentype, nodetype) ==
  /\ Token1(tokentype)
  /\ IF HasTarget[Peek(nodestack)]
     THEN /\ nodes' = Append(Flushed, NewNode(nodetype, Peek(nodestack), NoNode, Here))
          /\ UNCHANGED nodestack
     ELSE LET target == Next1(Flushed) IN
          /\ nodes' = Flushed \o
               << NewNode("TARGET", Peek(nodestack), NoNode, Here),
                  NewNode(nodetype, target, NoNode, Here) >>
          /\ nodestack' = Append(nodestack, target)
  /\ UNCHANGED <<error, ifstack>>

TargetCommand == Command("command", "COMMAND")
NoOpCommand == Command("no_op_command", "NO_OP_COMMAND")

-----------------------------------------------------------------------------
(* Faulty: the tree is returned in any case.                               *)
NeverOpen == TRUE

(* Nothing but the root is left.                                           *)
NothingOpen == Peek(nodestack) = Root

(* After the last token the root is returned, if it is all that is left.   *)
BuilderFinish ==
  /\ Building
  /\ pos = Len(tokens) + 1
  /\ nodestack # <<>>
  /\ nodes' = Flushed
  /\ comments' = <<>>
  /\ nodestack' = Below(nodestack, Len(nodestack))
  /\ IF NothingOpen
     THEN built' = TRUE /\ UNCHANGED error
     ELSE error' = "ast_build_failed" /\ UNCHANGED built
  /\ UNCHANGED <<inbuf, continued, in_target, finished, lines, tokens,
                 rawlines, ifstack, pos>>

BuilderStep ==
  \/ Comment \/ Include \/ Expr \/ Variable \/ Malformed
  \/ For \/ Endfor
  \/ If \/ Elif \/ Else \/ Endif
  \/ TargetStart \/ TargetEnd \/ TargetCommand \/ NoOpCommand
  \/ BuilderFinish

Stopped == (built \/ error # "ok") /\ UNCHANGED vars

Init ==
  /\ TokenizerInit
  /\ nodes = <<RootNode>>
  /\ nodestack = <<Root>>
  /\ ifstack = <<>>
  /\ comments = <<>>
  /\ pos = 1
  /\ built = FALSE

Next ==
  \/ TokenizerNext /\ UNCHANGED builderVars
  \/ BuilderStep
  \/ Stopped

Spec == Init /\ [][Next]_vars

-----------------------------------------------------------------------------
TypeOK ==
  /\ TokenizerTypeOK
  /\ nodes \in Seq(Node)
  /\ nodestack \in Seq(DOMAIN nodes)
  /\ ifstack \in Seq(DOMAIN nodes)
  /\ comments \in Seq(LineRange)
  /\ pos \in 1 .. (Len(tokens) + 1)
  /\ built \in BOOLEAN

(* The builder peeks into nodestack after every pop and dereferences what  *)
(* it finds: as long as there is no error the root is at the bottom of the *)
(* stack and nowhere else, so that "node exhausted" is never reported and  *)
(* no step reads through an empty stack.                                   *)
NodeStackRooted ==
  ~built /\ error = "ok" =>
    /\ nodestack # <<>>
    /\ nodestack[1] = Root
    /\ \A i \in DOMAIN nodestack : nodestack[i] = Root => i = 1

Increasing(stack) ==
  \A i, j \in DOMAIN stack : i < j => stack[i] < stack[j]

(* The two stacks are pushed and popped in different places.  They stay in *)
(* step: both are in the order the nodes were created in, and ifstack has  *)
(* the conditionals of nodestack and nothing else.  An .endif that pops    *)
(* ifstack therefore finds its node on nodestack.                          *)
StacksAgree ==
  error = "ok" /\ ~built =>
    /\ Increasing(nodestack)
    /\ Increasing(ifstack)
    /\ \A i \in DOMAIN ifstack : \E j \in DOMAIN nodestack : nodestack[j] = ifstack[i]
    /\ \A j \in DOMAIN nodestack :
         nodes[nodestack[j]].type \in IfTypes =>
           \E i \in DOMAIN ifstack : ifstack[i] = nodestack[j]

(* Every branch on the stack belongs to the conditional right below it and *)
(* the bottom one is not a branch: the pops of .endif, which go on until   *)
(* they meet a conditional that is not a branch, always meet one.          *)
BranchesLinked ==
  \A i \in DOMAIN ifstack :
    LET ifparent == nodes[ifstack[i]].ifparent IN
    ifparent # NoNode => i > 1 /\ ifparent = ifstack[i - 1]

(* A conditional has at most one alternative: the printer looks at the     *)
(* first entry of orelse only.                                             *)
OneAlternative ==
  \A m, n \in DOMAIN nodes :
    nodes[m].ifparent = nodes[n].ifparent /\ nodes[m].ifparent # NoNode => m = n

(* The line that ended a .if or .for is known.                             *)
Closed(n) == nodes[n].line_end # nodes[n].line_start

(* A tree is returned only when every .if has its own .endif.              *)
ConditionalsClosed ==
  built => \A n \in DOMAIN nodes :
             nodes[n].type \in IfTypes /\ nodes[n].ifparent = NoNode => Closed(n)

Ancestors ==
  LET up[n \in DOMAIN nodes] ==
        IF n = Root THEN {} ELSE {nodes[n].parent} \cup up[nodes[n].parent]
  IN up

(* What is inside a closed .if or .for in the tree is inside it in the     *)
(* file, and what is behind it in the file is not inside it in the tree.   *)
SpansNest ==
  LET up == Ancestors IN
  \A n \in DOMAIN nodes : \A p \in DOMAIN nodes \ {Root, n} :
    nodes[p].type \in IfTypes \cup {"FOR"} /\ Closed(p) =>
      IF p \in up[n]
      THEN /\ nodes[p].line_start.b <= nodes[n].line_start.a
           /\ nodes[n].line_end.b <= nodes[p].line_end.a
      ELSE \/ nodes[n].line_start.b <= nodes[p].line_start.a
           \/ nodes[p].line_end.b <= nodes[n].line_start.a

(* The error the builder reports for a file that ends with something open  *)
(* is "node stack not exhausted: missing .endif/.endfor?": a tree with a   *)
(* .for that was never closed is not returned.                             *)
MissingEndforRejected ==
  built => \A n \in DOMAIN nodes : nodes[n].type = "FOR" => Closed(n)

=============================================================================
