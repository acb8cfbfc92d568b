---------------------------- MODULE BlockNesting ----------------------------
(***************************************************************************)
(* What the parser promises of the block structure of a Makefile: which    *)
(* files it accepts depends on the .if, .elif, .else, .endif, .for and     *)
(* .endfor lines alone, in their order.  Targets, commands, variables,     *)
(* comments and includes are of no consequence, wherever they stand, and   *)
(* nothing is decided before all of the input was read.                    *)
(***************************************************************************)
EXTENDS Naturals, Sequences

VARIABLES
  pending,  (* the block lines read and not yet looked at                *)
  blocks,   (* what is open, innermost last: "if", "branch" or "for"     *)
  verdict   (* "reading", "nesting", "accepted" or "rejected"            *)

blockVars == <<pending, blocks, verdict>>

(* "bad" is a conditional that cannot stand for itself.                    *)
BlockLines == {"if", "branch", "endif", "for", "endfor", "bad"}

BlockInit ==
  /\ pending = <<>>
  /\ blocks = <<>>
  /\ verdict = "reading"

Read ==
  /\ verdict = "reading"
  /\ \/ pending' = pending
     \/ \E line \in BlockLines : pending' = Append(pending, line)
  /\ verdict' \in {"reading", "nesting"}
  /\ UNCHANGED blocks

Reject ==
  /\ verdict' = "rejected"
  /\ pending' = <<>>
  /\ blocks' = <<>>

(* A line that is no Makefile line at all.                                 *)
Unreadable == verdict = "reading" /\ Reject

Nest(line) ==
  /\ verdict = "nesting"
  /\ pending # <<>>
  /\ Head(pending) = line

Move(open) ==
  /\ blocks' = open
  /\ pending' = Tail(pending)
  /\ UNCHANGED verdict

InnermostIs(block, i) ==
  blocks[i] = block /\ \A j \in (i + 1) .. Len(blocks) : blocks[j] # block

OpenIf == Nest("if") /\ Move(Append(blocks, "if"))
OpenFor == Nest("for") /\ Move(Append(blocks, "for"))

(* A branch without an open .if starts a block of its own.                 *)
TakeBranch ==
  /\ Nest("branch")
  /\ IF \E i \in DOMAIN blocks : blocks[i] = "if"
     THEN Move(Append(blocks, "branch"))
     ELSE Move(Append(blocks, "if"))

(* .endif closes the innermost .if with all its branches and everything    *)
(* opened inside, a .for too.                                              *)
CloseIf ==
  /\ Nest("endif")
  /\ IF \E i \in DOMAIN blocks : blocks[i] = "if"
     THEN \E i \in DOMAIN blocks : InnermostIs("if", i) /\ Move(SubSeq(blocks, 1, i - 1))
     ELSE Reject

(* .endfor closes a .for that is innermost and nothing else.               *)
CloseFor ==
  /\ Nest("endfor")
  /\ IF blocks # <<>> /\ blocks[Len(blocks)] = "for"
     THEN Move(SubSeq(blocks, 1, Len(blocks) - 1))
     ELSE Reject

Bad == Nest("bad") /\ Reject

Decide ==
  /\ verdict = "nesting"
  /\ pending = <<>>
  /\ IF blocks = <<>> THEN verdict' = "accepted" /\ UNCHANGED <<pending, blocks>>
     ELSE Reject

BlockNext ==
  \/ Read \/ Unreadable
  \/ OpenIf \/ OpenFor \/ TakeBranch \/ CloseIf \/ CloseFor \/ Bad
  \/ Decide

BlockSpec == BlockInit /\ [][BlockNext]_blockVars
=============================================================================
