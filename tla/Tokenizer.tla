------------------------------ MODULE Tokenizer ------------------------------
(***************************************************************************)
(* The line reader of parser.c and the tokenizer of parser/tokenizer.c:    *)
(* physical lines are joined into logical lines at trailing backslashes,   *)
(* every logical line is classified, and one or more tokens are appended   *)
(* to the array of the AST builder, each with the range of physical lines  *)
(* it came from.                                                           *)
(*                                                                         *)
(* A physical line is abstracted to what the consume_*() functions see in  *)
(* it (TextKinds) and whether it continues on the next line.  The START,   *)
(* TOKEN... and END tokens of a conditional, a command or a variable are   *)
(* always appended together by one call, so they are one token here.       *)
(***************************************************************************)
EXTENDS Naturals, Sequences

CONSTANTS
  Texts,      (* the kinds of physical lines the input may have          *)
  Continues,  (* the subset of BOOLEAN of "ends in an odd backslash"     *)
  MaxLines    (* bound on the number of physical lines of the input      *)

(* The conditionals parse_conditional() tells apart, as the builder groups *)
(* them: every .include form, every .error/.export/.info/... form, the     *)
(* five .if forms, the five .elif forms.  bad_include is one with no or a  *)
(* malformed path, bad_if an .if, .ifdef, .elif... without words, bad_else *)
(* an .else with words.                                                    *)
Conditionals == {"include", "expr", "if", "elif", "else", "for", "endif",
                 "endfor", "bad_include", "bad_if", "bad_else"}

(* lone is a line of nothing but the backslash; blank one of white space   *)
(* only; no_op_command a command of nothing but the flags @, - and + and a *)
(* comment; junk matches none of the consume_*() functions; malformed is a *)
(* line whose tokens cannot be split or built (an unbalanced "${", a       *)
(* target or an assignment without a name); nul one with a 0 byte.         *)
TextKinds == Conditionals \cup
  {"lone", "blank", "comment", "target", "var", "command", "no_op_command",
   "junk", "malformed", "nul"}

ASSUME TextsAssumption == Texts \subseteq TextKinds
ASSUME ContinuesAssumption == Continues \subseteq BOOLEAN
ASSUME MaxLinesAssumption == MaxLines \in Nat

VARIABLES
  error,      (* parser->error, sticky                                   *)
  inbuf,      (* what the pending logical line is; "none" if it is empty *)
  continued,  (* the last physical line ended in a backslash             *)
  in_target,  (* a target was opened and nothing has closed it           *)
  finished,   (* parser_tokenizer_finish() has succeeded                 *)
  lines,      (* builder->lines: the range of the pending logical line   *)
  tokens,     (* builder->tokens                                         *)
  rawlines    (* the number of physical lines kept for the output        *)

tokenizerVars == <<error, inbuf, continued, in_target, finished, lines,
                   tokens, rawlines>>

Errors == {"ok", "io", "expected", "unspecified", "ast_build_failed"}
TokenTypes == Conditionals \cup
  {"comment", "target_start", "target_end", "command", "no_op_command", "var"}
LineRange == [a : Nat, b : Nat]
Token == [type : TokenTypes, lines : LineRange]

-----------------------------------------------------------------------------
(* Joining a physical line to the pending logical line.                    *)

(* What a line of kind text becomes when only blanks precede it in inbuf:  *)
(* comments, targets and assignments are found behind blanks, conditionals *)
(* and commands are not and may then read as anything else.                *)
BehindBlanks(text) ==
  CASE text \in Conditionals -> {"junk", "target"}
    [] text \in {"command", "no_op_command"} ->
         {"junk", "target", "var", "comment"}
    [] OTHER -> {text}

(* What a command line becomes when it loses its leading tab.              *)
WithoutTab == (Texts \ {"lone", "blank", "command", "no_op_command", "nul"})
                \cup {"junk"}

(* The kinds inbuf may have once text is appended to it.  A continued line *)
(* loses its leading blanks and leaves a single one if nothing remains.    *)
(* The first words decide the kind; later ones do not change it.           *)
Join(text) ==
  CASE ~continued /\ text = "lone" -> {"none"}
    [] ~continued /\ text # "lone" -> {text}
    [] continued /\ inbuf \notin {"none", "blank"} -> {inbuf}
    [] continued /\ inbuf \in {"none", "blank"} /\ text \in {"lone", "blank"} ->
         {"blank"}
    [] continued /\ inbuf = "none" /\ text \in {"command", "no_op_command"} ->
         WithoutTab
    [] continued /\ inbuf = "none" /\ text \notin {"lone", "blank", "command",
                                                    "no_op_command"} -> {text}
    [] continued /\ inbuf = "blank" /\ text \notin {"lone", "blank"} ->
         BehindBlanks(text)

-----------------------------------------------------------------------------
(* parser_tokenizer_read_internal(): the tokens of a logical line.         *)

(* Which token types the logical line appends.                             *)
Emitted(kind) ==
  CASE kind \in {"comment", "blank", "none"} -> <<"comment">>
    [] kind \in Conditionals -> <<kind>>
    [] kind \in {"command", "no_op_command"} /\ in_target -> <<kind>>
    [] kind = "target" /\ in_target -> <<"target_end", "target_start">>
    [] kind = "target" /\ ~in_target -> <<"target_start">>
    [] kind = "var" -> <<"var">>
    [] kind = "junk" /\ in_target -> <<"target_end">>
    [] OTHER -> <<>>

(* The error it leaves behind.                                             *)
ReadError(kind) ==
  CASE kind = "malformed" -> "expected"
    [] kind = "junk" -> "unspecified"
    [] kind \in {"command", "no_op_command"} /\ ~in_target -> "unspecified"
    [] OTHER -> "ok"

(* Faulty: a target does not open.                                         *)
InTargetUnset(kind) == in_target /\ kind # "junk"

InTargetAfter(kind) ==
  \/ kind = "target"
  \/ in_target /\ kind # "junk"

(* The tokens of the given types, all with the same range.                 *)
TokensOf(types, range) ==
  [i \in 1 .. Len(types) |-> [type |-> types[i], lines |-> range]]

(* Faulty: the next logical line starts with the last one.                 *)
SameRange(range) == range

(* The range of the next logical line starts where this one ended.         *)
NextRange(range) == [a |-> range.b, b |-> range.b]

(* Faulty: the end of the input always counts as a line.                   *)
AdvancedRange == [lines EXCEPT !.b = @ + 1]

(* The range of what is left in inbuf at the end of the input.             *)
FinalRange == IF continued THEN lines ELSE [lines EXCEPT !.b = @ + 1]

-----------------------------------------------------------------------------
TokenizerInit ==
  /\ error = "ok"
  /\ inbuf = "none"
  /\ continued = FALSE
  /\ in_target = FALSE
  /\ finished = FALSE
  /\ lines = [a |-> 1, b |-> 1]
  /\ tokens = <<>>
  /\ rawlines = 0

Reading == ~finished /\ error = "ok"

(* A line with a 0 byte ends the reading.                                  *)
FeedNul ==
  /\ Reading /\ rawlines < MaxLines /\ "nul" \in Texts
  /\ lines' = [lines EXCEPT !.b = @ + 1]
  /\ error' = "io"
  /\ UNCHANGED <<inbuf, continued, in_target, finished, tokens, rawlines>>

(* A line that continues on the next one only grows inbuf.                 *)
FeedContinued(text) ==
  /\ Reading /\ rawlines < MaxLines
  /\ inbuf' \in Join(text)
  /\ continued' = TRUE
  /\ lines' = [lines EXCEPT !.b = @ + 1]
  /\ rawlines' = rawlines + 1
  /\ UNCHANGED <<error, in_target, finished, tokens>>

(* A line that completes a logical line has it tokenized.                  *)
FeedLine(text) ==
  /\ Reading /\ rawlines < MaxLines
  /\ \E kind \in Join(text) :
       LET range == [lines EXCEPT !.b = @ + 1] IN
       /\ tokens' = tokens \o TokensOf(Emitted(kind), range)
       /\ in_target' = InTargetAfter(kind)
       /\ error' = ReadError(kind)
       /\ IF ReadError(kind) = "ok"
          THEN /\ lines' = NextRange(range)
               /\ inbuf' = "none"
               /\ continued' = FALSE
               /\ rawlines' = rawlines + 1
          ELSE /\ lines' = range
               /\ inbuf' = kind
               /\ UNCHANGED <<continued, rawlines>>
  /\ UNCHANGED finished

(* The end of the input: parser_tokenizer_finish() tokenizes what is left  *)
(* in inbuf and closes an open target.                                     *)
TokenizerFinish ==
  /\ Reading
  /\ LET range == FinalRange
         pending == inbuf # "none"
         rest == IF pending THEN TokensOf(Emitted(inbuf), range) ELSE <<>>
         open == IF pending THEN InTargetAfter(inbuf) ELSE in_target
         failure == IF pending THEN ReadError(inbuf) ELSE "ok"
         end == IF failure = "ok" /\ open
                THEN TokensOf(<<"target_end">>, range) ELSE <<>>
     IN /\ lines' = range
        /\ tokens' = tokens \o rest \o end
        /\ in_target' = open
        /\ error' = failure
        /\ finished' = (failure = "ok")
  /\ UNCHANGED <<inbuf, continued, rawlines>>

TokenizerNext ==
  \/ FeedNul
  \/ \E text \in Texts \ {"nul"} :
       \/ TRUE \in Continues /\ FeedContinued(text)
       \/ FALSE \in Continues /\ text # "lone" /\ FeedLine(text)
  \/ TokenizerFinish

TokenizerStopped == (finished \/ error # "ok") /\ UNCHANGED tokenizerVars

TokenizerSpec == TokenizerInit /\ [][TokenizerNext \/ TokenizerStopped]_tokenizerVars

-----------------------------------------------------------------------------
(* Every variable has its type, and the reader stays within its bound.  A  *)
(* finished tokenizer has met no error of its own; a later error can only  *)
(* be that of the AST builder, which runs on a finished tokenizer.         *)
TokenizerTypeOK ==
  /\ error \in Errors
  /\ inbuf \in TextKinds \cup {"none"}
  /\ continued \in BOOLEAN
  /\ in_target \in BOOLEAN
  /\ finished \in BOOLEAN
  /\ lines \in LineRange
  /\ tokens \in Seq(Token)
  /\ rawlines \in 0 .. MaxLines

(* A token that opens no gap in the input: every token but target_end,     *)
(* which carries the range of the line that closed the target.             *)
Stands(i) == tokens[i].type # "target_end"

(* The printer fetches the lines of a range from parser->rawlines without  *)
(* a bounds check and panics on a missing one: the range of every token    *)
(* that becomes a node lies within the lines kept so far.                  *)
RangesWithinInput ==
  \A i \in DOMAIN tokens :
    Stands(i) => /\ 1 <= tokens[i].lines.a
                 /\ tokens[i].lines.a < tokens[i].lines.b
                 /\ tokens[i].lines.b <= rawlines + 1

Covers(i, l) == Stands(i) /\ tokens[i].lines.a <= l /\ l < tokens[i].lines.b

(* The physical lines that must have a token by now.  When the input ends  *)
(* in a line of nothing but a backslash, that line has no text and is the  *)
(* only one to get none.                                                   *)
TokenizedLines ==
  IF ~finished THEN 1 .. (lines.a - 1)
  ELSE IF continued /\ inbuf = "none" THEN 1 .. (rawlines - 1)
  ELSE 1 .. rawlines

(* However lines are continued and wherever the input ends, every physical *)
(* line belongs to exactly one logical line, and the tokens are in the     *)
(* order of the lines: what the printer copies from the ranges is the      *)
(* input.                                                                  *)
LinesTokenizedOnce ==
  /\ \A l \in TokenizedLines :
       \E i \in DOMAIN tokens : Covers(i, l) /\ \A j \in DOMAIN tokens : Covers(j, l) => j = i
  /\ \A i, j \in DOMAIN tokens :
       i < j => /\ tokens[i].lines.a <= tokens[j].lines.a
                /\ tokens[i].lines.b <= tokens[j].lines.b

(* A target is open after token k: the last target token up to k is a      *)
(* target_start.                                                           *)
OpenTarget(k) ==
  \E i \in 1 .. k :
    /\ tokens[i].type = "target_start"
    /\ \A j \in (i + 1) .. k : tokens[j].type \notin {"target_start", "target_end"}

(* in_target tells the builder's story: targets are opened and closed in   *)
(* turn, commands appear only inside one, and a finished stream leaves     *)
(* none open.                                                              *)
TargetsBracketed ==
  /\ ~finished /\ error = "ok" => (in_target <=> OpenTarget(Len(tokens)))
  /\ finished => ~OpenTarget(Len(tokens))
  /\ \A i \in DOMAIN tokens :
       /\ tokens[i].type \in {"target_end", "command", "no_op_command"} => OpenTarget(i - 1)
       /\ tokens[i].type = "target_start" => ~OpenTarget(i - 1)

=============================================================================
