---------------------------- MODULE MCASTBuilder ----------------------------
(* The tokenizer, the builder and the unedited output over short files.    *)
EXTENDS RawOutput, BlockRefinement

(* Every kind of physical line, continued or not.                          *)
MCTexts == TextKinds
MCContinues == BOOLEAN

(* One kind of token for every step of the builder and every node of the   *)
(* printer that differs.                                                   *)
StructureTypes == {"comment", "var", "if", "elif", "else", "for", "endif",
                   "endfor", "target_start", "target_end", "command",
                   "no_op_command"}

(* Files of three lines are explored whole, longer ones while no line of   *)
(* theirs is continued and only their structure varies.                    *)
ThreeLinesOrStructure ==
  \/ rawlines <= 3
  \/ /\ ~continued
     /\ \A i \in DOMAIN tokens : /\ tokens[i].type \in StructureTypes
                                 /\ tokens[i].lines.b = tokens[i].lines.a + 1
=============================================================================
