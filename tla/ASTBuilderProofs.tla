--------------------------- MODULE ASTBuilderProofs ---------------------------
(***************************************************************************)
(* The tokenizer, and the two stacks of the AST builder, the links between *)
(* conditionals, and the lines of what is inside of a block, for every     *)
(* input.                                                                  *)
(***************************************************************************)
EXTENDS ASTBuilder, SequenceTheorems, SequenceInduction

(* The tokenizer: types, the ranges of the tokens, and the bracketing of   *)
(* targets.                                                                *)
LEMMA TokensOfType ==
  ASSUME NEW types \in Seq(TokenTypes), NEW range \in LineRange
  PROVE  /\ TokensOf(types, range) \in Seq(Token)
         /\ Len(TokensOf(types, range)) = Len(types)
         /\ \A i \in 1 .. Len(types) :
              TokensOf(types, range)[i] = [type |-> types[i], lines |-> range]
  BY DEF TokensOf, Token

LEMMA JoinType ==
  ASSUME TokenizerTypeOK, NEW text \in Texts \ {"nul"}, NEW kind \in Join(text)
  PROVE  kind \in TextKinds \cup {"none"}
  BY TextsAssumption DEF Join, BehindBlanks, WithoutTab, TextKinds, TokenizerTypeOK

LEMMA SomeTokenTypes ==
  /\ Conditionals \subseteq TokenTypes
  /\ {"comment", "target_start", "target_end", "command", "no_op_command", "var"}
       \subseteq TokenTypes
  BY DEF TokenTypes

(* A logical line appends no token, one, or a target_end and a             *)
(* target_start.                                                           *)
LEMMA EmittedShape ==
  ASSUME NEW kind
  PROVE  \/ Emitted(kind) = <<>>
         \/ Emitted(kind) = <<"target_end", "target_start">>
         \/ \E type \in TokenTypes \ {"target_end"} : Emitted(kind) = <<type>>
         \/ Emitted(kind) = <<"target_end">>
<1>1. CASE kind \in Conditionals
  <2>1. kind \notin {"comment", "blank", "none", "command", "no_op_command",
                      "target", "var", "junk", "target_end"}
    BY <1>1 DEF Conditionals
  <2>2. Emitted(kind) = <<kind>>
    BY <1>1, <2>1 DEF Emitted
  <2>3. kind \in TokenTypes \ {"target_end"}
    BY <1>1, <2>1, SomeTokenTypes
  <2> QED
    BY <2>2, <2>3
<1>2. CASE kind \notin Conditionals
  <2>1. Emitted(kind) \in { <<>>, <<"target_end", "target_start">>, <<"target_end">>,
                            <<"comment">>, <<"command">>, <<"no_op_command">>,
                            <<"target_start">>, <<"var">> }
    BY <1>2 DEF Emitted
  <2> QED
    BY <2>1, SomeTokenTypes
<1> QED
  BY <1>1, <1>2

LEMMA EmittedType ==
  ASSUME NEW kind
  PROVE  Emitted(kind) \in Seq(TokenTypes)
<1>1. "target_start" \in TokenTypes /\ "target_end" \in TokenTypes
  BY SomeTokenTypes
<1>2. /\ <<>> \in Seq(TokenTypes)
      /\ <<"target_end">> \in Seq(TokenTypes)
      /\ <<"target_end", "target_start">> \in Seq(TokenTypes)
      /\ \A type \in TokenTypes : <<type>> \in Seq(TokenTypes)
  BY <1>1
<1> QED
  BY <1>2, EmittedShape

LEMMA TokenizerTypeStep ==
  ASSUME TokenizerTypeOK, TokenizerNext
  PROVE  TokenizerTypeOK'
<1>1. CASE FeedNul
  BY <1>1 DEF FeedNul, TokenizerTypeOK, LineRange, Errors
<1>2. ASSUME NEW text \in Texts \ {"nul"}, FeedContinued(text)
      PROVE  TokenizerTypeOK'
  <2>1. inbuf' \in TextKinds \cup {"none"}
    BY <1>2, JoinType DEF FeedContinued
  <2> QED
    BY <1>2, <2>1, MaxLinesAssumption DEF FeedContinued, TokenizerTypeOK, LineRange
<1>3. ASSUME NEW text \in Texts \ {"nul"}, FeedLine(text)
      PROVE  TokenizerTypeOK'
  <2> DEFINE range == [lines EXCEPT !.b = @ + 1]
  <2>1. PICK kind \in Join(text) :
          /\ tokens' = tokens \o TokensOf(Emitted(kind), range)
          /\ in_target' = InTargetAfter(kind)
          /\ error' = ReadError(kind)
          /\ IF ReadError(kind) = "ok"
             THEN /\ lines' = [a |-> range.b, b |-> range.b]
                  /\ inbuf' = "none"
                  /\ continued' = FALSE
                  /\ rawlines' = rawlines + 1
             ELSE /\ lines' = range
                  /\ inbuf' = kind
                  /\ UNCHANGED <<continued, rawlines>>
    BY <1>3 DEF FeedLine, NextRange
  <2>2. kind \in TextKinds \cup {"none"}
    BY JoinType
  <2>3. range \in LineRange /\ range.b \in Nat
    BY DEF LineRange, TokenizerTypeOK
  <2>4. tokens' \in Seq(Token)
    BY <2>1, <2>2, <2>3, TokensOfType, EmittedType DEF TokenizerTypeOK
  <2>5. error' \in Errors
    BY <2>1 DEF ReadError, Errors
  <2>6. in_target' \in BOOLEAN
    BY <2>1 DEF InTargetAfter, TokenizerTypeOK
  <2>7. lines' \in LineRange
    BY <2>1, <2>3 DEF LineRange
  <2>8. rawlines' \in 0 .. MaxLines
    BY <1>3, <2>1, MaxLinesAssumption DEF FeedLine, TokenizerTypeOK
  <2>9. continued' \in BOOLEAN /\ finished' \in BOOLEAN /\ inbuf' \in TextKinds \cup {"none"}
    BY <1>3, <2>1, <2>2 DEF FeedLine, TokenizerTypeOK
  <2> QED
    BY <2>4, <2>5, <2>6, <2>7, <2>8, <2>9 DEF TokenizerTypeOK
<1>4. CASE TokenizerFinish
  <2> DEFINE range == IF continued THEN lines ELSE [lines EXCEPT !.b = @ + 1]
             pending == inbuf # "none"
             rest == IF pending THEN TokensOf(Emitted(inbuf), range) ELSE <<>>
             open == IF pending THEN InTargetAfter(inbuf) ELSE in_target
             failure == IF pending THEN ReadError(inbuf) ELSE "ok"
             end == IF failure = "ok" /\ open
                    THEN TokensOf(<<"target_end">>, range) ELSE <<>>
  <2>1. /\ lines' = range
        /\ tokens' = tokens \o rest \o end
        /\ in_target' = open
        /\ error' = failure
        /\ finished' = (failure = "ok")
        /\ UNCHANGED <<inbuf, continued, rawlines>>
    BY <1>4 DEF TokenizerFinish, FinalRange
  <2>2. range \in LineRange
    BY DEF LineRange, TokenizerTypeOK
  <2>3. rest \in Seq(Token)
    BY <2>2, TokensOfType, EmittedType DEF TokenizerTypeOK
  <2>4. end \in Seq(Token)
    <3>1. <<"target_end">> \in Seq(TokenTypes)
      <4>1. "target_end" \in TokenTypes
        BY SomeTokenTypes
      <4> QED BY <4>1
    <3>2. TokensOf(<<"target_end">>, range) \in Seq(Token)
      BY <3>1, <2>2, TokensOfType
    <3>3. <<>> \in Seq(Token)
      OBVIOUS
    <3> QED BY <3>2, <3>3
  <2>5. tokens' \in Seq(Token)
    BY <2>1, <2>3, <2>4 DEF TokenizerTypeOK
  <2>6. error' \in Errors
    BY <2>1 DEF ReadError, Errors
  <2>7. in_target' \in BOOLEAN
    BY <2>1 DEF InTargetAfter, TokenizerTypeOK
  <2> QED
    BY <2>1, <2>2, <2>5, <2>6, <2>7 DEF TokenizerTypeOK
<1> QED
  BY <1>1, <1>2, <1>3, <1>4 DEF TokenizerNext

LEMMA TokenizerInitType == TokenizerInit => TokenizerTypeOK
<1> SUFFICES ASSUME TokenizerInit PROVE TokenizerTypeOK
  OBVIOUS
<1>1. tokens \in Seq(Token)
  BY DEF TokenizerInit
<1>2. rawlines \in 0 .. MaxLines /\ lines \in LineRange
  BY MaxLinesAssumption DEF TokenizerInit, LineRange
<1>3. /\ error \in Errors /\ inbuf \in TextKinds \cup {"none"}
      /\ continued \in BOOLEAN /\ in_target \in BOOLEAN /\ finished \in BOOLEAN
  BY DEF TokenizerInit, Errors
<1> QED
  BY <1>1, <1>2, <1>3 DEF TokenizerTypeOK

(* Every variable of the tokenizer keeps its type, whatever the input.     *)
THEOREM TokenizerTyped == TokenizerSpec => []TokenizerTypeOK
<1>1. TokenizerInit => TokenizerTypeOK
  BY TokenizerInitType
<1>2. TokenizerTypeOK /\ [TokenizerNext \/ TokenizerStopped]_tokenizerVars => TokenizerTypeOK'
  BY TokenizerTypeStep DEF TokenizerStopped, tokenizerVars, TokenizerTypeOK
<1> QED
  BY <1>1, <1>2, PTL DEF TokenizerSpec

-----------------------------------------------------------------------------
(* The pending range ends at the next line to be read.  It is empty until  *)
(* a line continues, and only then is there anything in inbuf.             *)
PendingRange ==
  ~finished /\ error = "ok" =>
    /\ lines.b = rawlines + 1
    /\ 1 <= lines.a /\ lines.a <= lines.b
    /\ continued => lines.a < lines.b
    /\ ~continued => inbuf = "none"

(* A logical line that is an error appends at most the end of the target.  *)
LEMMA ErrorsEmitNoNode ==
  ASSUME NEW kind, ReadError(kind) # "ok"
  PROVE  Emitted(kind) \in {<<>>, <<"target_end">>}
<1>1. kind \in {"malformed", "junk", "command", "no_op_command"}
  BY DEF ReadError
<1>2. kind \in {"command", "no_op_command"} => ~in_target
  BY DEF ReadError
<1>3. kind \notin Conditionals
  BY <1>1 DEF Conditionals
<1> QED
  BY <1>1, <1>2, <1>3 DEF Emitted

(* Appending tokens of one range keeps the ranges within the input if that *)
(* range is within it, or if no token of them stands.                      *)
LEMMA RangesAppend ==
  ASSUME TokenizerTypeOK, RangesWithinInput,
         NEW types \in Seq(TokenTypes), NEW range \in LineRange,
         tokens' = tokens \o TokensOf(types, range),
         rawlines' \in Nat, rawlines <= rawlines',
         \/ 1 <= range.a /\ range.a < range.b /\ range.b <= rawlines' + 1
         \/ types \in {<<>>, <<"target_end">>}
  PROVE  RangesWithinInput'
<1> DEFINE new == TokensOf(types, range)
<1> SUFFICES ASSUME NEW i \in DOMAIN tokens', Stands(i)'
             PROVE  /\ 1 <= tokens'[i].lines.a
                    /\ tokens'[i].lines.a < tokens'[i].lines.b
                    /\ tokens'[i].lines.b <= rawlines' + 1
  BY DEF RangesWithinInput
<1>1. /\ new \in Seq(Token) /\ Len(new) = Len(types)
      /\ \A k \in 1 .. Len(types) : new[k] = [type |-> types[k], lines |-> range]
  BY TokensOfType
<1>2. tokens \in Seq(Token) /\ rawlines \in Nat
  BY MaxLinesAssumption DEF TokenizerTypeOK
<1>3. CASE i \in DOMAIN tokens
  <2>1. tokens'[i] = tokens[i] /\ tokens[i] \in Token
    BY <1>1, <1>2, <1>3
  <2>2. Stands(i)
    BY <2>1 DEF Stands
  <2>3. tokens[i].lines \in LineRange
    BY <2>1 DEF Token
  <2> QED
    BY <1>2, <1>3, <2>1, <2>2, <2>3 DEF RangesWithinInput, LineRange
<1>4. CASE i \notin DOMAIN tokens
  <2>1. PICK k \in 1 .. Len(types) : tokens'[i] = [type |-> types[k], lines |-> range]
    <3>1. i \in (Len(tokens) + 1) .. (Len(tokens) + Len(new))
      BY <1>1, <1>2, <1>4
    <3>2. tokens'[i] = new[i - Len(tokens)] /\ i - Len(tokens) \in 1 .. Len(types)
      BY <1>1, <1>2, <3>1
    <3> QED
      BY <1>1, <3>2
  <2>2. types[k] # "target_end"
    BY <2>1 DEF Stands
  <2>3. types \notin {<<>>, <<"target_end">>}
    BY <2>2
  <2> QED
    BY <2>1, <2>3
<1> QED
  BY <1>3, <1>4

LEMMA RangesStep ==
  ASSUME TokenizerTypeOK, PendingRange, RangesWithinInput, TokenizerNext
  PROVE  PendingRange' /\ RangesWithinInput'
<1> USE DEF Reading
<1>0. rawlines \in Nat /\ lines.a \in Nat /\ lines.b \in Nat /\ continued \in BOOLEAN
  BY MaxLinesAssumption DEF TokenizerTypeOK, LineRange
<1>1. CASE FeedNul
  BY <1>1 DEF FeedNul, PendingRange, RangesWithinInput, Stands
<1>2. ASSUME NEW text \in Texts \ {"nul"}, FeedContinued(text)
      PROVE  PendingRange' /\ RangesWithinInput'
  <2>1. /\ lines' = [lines EXCEPT !.b = @ + 1] /\ rawlines' = rawlines + 1
        /\ continued' = TRUE /\ tokens' = tokens
        /\ UNCHANGED <<error, finished>> /\ ~finished /\ error = "ok"
    BY <1>2 DEF FeedContinued
  <2>2. lines'.a = lines.a /\ lines'.b = lines.b + 1
    BY <2>1 DEF TokenizerTypeOK, LineRange
  <2>3. PendingRange'
    BY <1>0, <2>1, <2>2 DEF PendingRange
  <2>4. tokens' = tokens \o TokensOf(<<>>, lines)
    BY <2>1 DEF TokensOf, TokenizerTypeOK
  <2>5. RangesWithinInput'
    <3>1. <<>> \in Seq(TokenTypes) /\ lines \in LineRange
      BY DEF TokenizerTypeOK
    <3>2. rawlines' \in Nat /\ rawlines <= rawlines'
      BY <1>0, <2>1
    <3> QED
      BY <2>4, <3>1, <3>2, RangesAppend
  <2> QED
    BY <2>3, <2>5
<1>3. ASSUME NEW text \in Texts \ {"nul"}, FeedLine(text)
      PROVE  PendingRange' /\ RangesWithinInput'
  <2> DEFINE range == [lines EXCEPT !.b = @ + 1]
  <2>1. PICK kind \in Join(text) :
          /\ tokens' = tokens \o TokensOf(Emitted(kind), range)
          /\ error' = ReadError(kind)
          /\ IF ReadError(kind) = "ok"
             THEN /\ lines' = [a |-> range.b, b |-> range.b]
                  /\ inbuf' = "none"
                  /\ continued' = FALSE
                  /\ rawlines' = rawlines + 1
             ELSE rawlines' = rawlines
    BY <1>3 DEF FeedLine, NextRange
  <2>2. ~finished /\ error = "ok"
    BY <1>3 DEF FeedLine
  <2>3. range \in LineRange /\ range.a = lines.a /\ range.b = lines.b + 1
    BY DEF LineRange, TokenizerTypeOK
  <2>4. PendingRange'
    BY <1>0, <2>1, <2>2, <2>3 DEF PendingRange
  <2>5. Emitted(kind) \in Seq(TokenTypes)
    BY EmittedType
  <2>6. RangesWithinInput'
    <3>1. \/ 1 <= range.a /\ range.a < range.b /\ range.b <= rawlines' + 1
          \/ Emitted(kind) \in {<<>>, <<"target_end">>}
      <4>1. CASE ReadError(kind) = "ok"
        BY <1>0, <2>1, <2>2, <2>3, <4>1 DEF PendingRange
      <4>2. CASE ReadError(kind) # "ok"
        BY <4>2, ErrorsEmitNoNode
      <4> QED
        BY <4>1, <4>2
    <3>2. rawlines' \in Nat /\ rawlines <= rawlines'
      BY <1>0, <2>1
    <3>3. tokens' = tokens \o TokensOf(Emitted(kind), range) /\ range \in LineRange
      BY <2>1, <2>3
    <3> HIDE DEF range
    <3> QED
      BY <2>5, <3>1, <3>2, <3>3, RangesAppend
  <2> QED
    BY <2>4, <2>6
<1>4. CASE TokenizerFinish
  <2> DEFINE range == IF continued THEN lines ELSE [lines EXCEPT !.b = @ + 1]
             pending == inbuf # "none"
             types == IF pending THEN Emitted(inbuf) ELSE <<>>
             rest == IF pending THEN TokensOf(Emitted(inbuf), range) ELSE <<>>
             open == IF pending THEN InTargetAfter(inbuf) ELSE in_target
             failure == IF pending THEN ReadError(inbuf) ELSE "ok"
             end == IF failure = "ok" /\ open
                    THEN TokensOf(<<"target_end">>, range) ELSE <<>>
  <2>1. /\ tokens' = tokens \o rest \o end
        /\ error' = failure
        /\ finished' = (failure = "ok")
        /\ rawlines' = rawlines /\ ~finished /\ error = "ok"
    BY <1>4 DEF TokenizerFinish, FinalRange
  <2>2. PendingRange'
    BY <2>1 DEF PendingRange
  <2>3. range \in LineRange
    BY DEF LineRange, TokenizerTypeOK
  <2>4. SUFFICES ASSUME NEW i \in DOMAIN tokens', Stands(i)'
                 PROVE  /\ 1 <= tokens'[i].lines.a
                        /\ tokens'[i].lines.a < tokens'[i].lines.b
                        /\ tokens'[i].lines.b <= rawlines' + 1
    BY <2>2 DEF RangesWithinInput
  <2>5. /\ rest \in Seq(Token)
        /\ \A k \in DOMAIN rest : rest[k].lines = range
    <3>1. Emitted(inbuf) \in Seq(TokenTypes)
      BY EmittedType
    <3> DEFINE all == TokensOf(Emitted(inbuf), range)
    <3>2. all \in Seq(Token) /\ \A k \in DOMAIN all : all[k].lines = range
      <4> HIDE DEF range
      <4>1. /\ all \in Seq(Token) /\ Len(all) = Len(Emitted(inbuf))
            /\ \A k \in 1 .. Len(Emitted(inbuf)) :
                 all[k] = [type |-> Emitted(inbuf)[k], lines |-> range]
        BY <2>3, <3>1, TokensOfType
      <4> HIDE DEF all
      <4>2. DOMAIN all = 1 .. Len(Emitted(inbuf))
        BY <4>1
      <4>3. \A k \in DOMAIN all : all[k].lines = range
        BY <4>1, <4>2
      <4> QED
        BY <4>1, <4>3
    <3>3. <<>> \in Seq(Token) /\ DOMAIN <<>> = {}
      OBVIOUS
    <3>4. rest = all \/ rest = <<>>
      OBVIOUS
    <3> HIDE DEF all, range, rest
    <3>5. CASE rest = all
      BY <3>2, <3>5
    <3>6. CASE rest = <<>>
      BY <3>3, <3>6
    <3> QED
      BY <3>4, <3>5, <3>6
  <2>6. /\ end \in Seq(Token)
        /\ \A k \in DOMAIN end : end[k].type = "target_end"
    <3>1. "target_end" \in TokenTypes
      BY SomeTokenTypes
    <3>2. <<"target_end">> \in Seq(TokenTypes)
      BY <3>1
    <3>3. TokensOf(<<"target_end">>, range) \in Seq(Token)
      BY <2>3, <3>2, TokensOfType
    <3>4. \A k \in DOMAIN TokensOf(<<"target_end">>, range) :
            TokensOf(<<"target_end">>, range)[k].type = "target_end"
      BY DEF TokensOf
    <3> QED
      BY <3>3, <3>4
  <2>7. tokens \in Seq(Token)
    BY DEF TokenizerTypeOK
  <2> HIDE DEF rest, end
  <2>8. CASE i \in DOMAIN tokens
    <3>1. tokens'[i] = tokens[i] /\ tokens[i] \in Token
      BY <2>1, <2>5, <2>6, <2>7, <2>8
    <3>2. Stands(i) /\ tokens[i].lines \in LineRange
      BY <2>4, <3>1 DEF Stands, Token
    <3> QED
      BY <1>0, <2>1, <2>8, <3>1, <3>2 DEF RangesWithinInput, LineRange
  <2>9. CASE i \in (Len(tokens) + 1) .. (Len(tokens) + Len(rest))
    <3>1. tokens'[i] = rest[i - Len(tokens)] /\ i - Len(tokens) \in DOMAIN rest
      BY <2>1, <2>5, <2>6, <2>7, <2>9
    <3>2. tokens'[i].lines = range
      BY <2>5, <3>1
    <3>3. pending
      BY <2>9, <2>7 DEF rest
    <3>4. continued
      BY <1>0, <2>1, <3>3 DEF PendingRange
    <3> QED
      BY <1>0, <2>1, <3>2, <3>4 DEF PendingRange
  <2>10. CASE i > Len(tokens) + Len(rest)
    <3>1. tokens'[i] = end[i - (Len(tokens) + Len(rest))]
          /\ i - (Len(tokens) + Len(rest)) \in DOMAIN end
      BY <2>1, <2>5, <2>6, <2>7, <2>10
    <3> QED
      BY <2>4, <2>6, <3>1 DEF Stands
  <2> QED
    BY <2>7, <2>1, <2>5, <2>6, <2>8, <2>9, <2>10
<1> QED
  BY <1>1, <1>2, <1>3, <1>4 DEF TokenizerNext

(* The range of every token that becomes a node lies within the lines kept *)
(* for the output, however the lines of the input continue.                *)
THEOREM TokenRangesWithinInput == TokenizerSpec => []RangesWithinInput
<1> DEFINE IInv == TokenizerTypeOK /\ PendingRange /\ RangesWithinInput
<1>1. TokenizerInit => IInv
  BY TokenizerInitType DEF TokenizerInit, PendingRange, RangesWithinInput
<1>2. IInv /\ [TokenizerNext \/ TokenizerStopped]_tokenizerVars => IInv'
  <2>1. ASSUME IInv, TokenizerNext PROVE IInv'
    BY <2>1, TokenizerTypeStep, RangesStep
  <2>2. ASSUME IInv, UNCHANGED tokenizerVars PROVE IInv'
    BY <2>2 DEF tokenizerVars, TokenizerTypeOK, PendingRange, RangesWithinInput, Stands
  <2> QED
    BY <2>1, <2>2 DEF TokenizerStopped
<1>3. IInv => RangesWithinInput
  OBVIOUS
<1> QED
  BY <1>1, <1>2, <1>3, PTL DEF TokenizerSpec

-----------------------------------------------------------------------------
(* OpenTarget and the bracketing, of any sequence of tokens.               *)
OpenIn(s, k) ==
  \E i \in 1 .. k :
    /\ s[i].type = "target_start"
    /\ \A j \in (i + 1) .. k : s[j].type \notin {"target_start", "target_end"}

Bracketed(s) ==
  \A i \in DOMAIN s :
    /\ s[i].type \in {"target_end", "command", "no_op_command"} => OpenIn(s, i - 1)
    /\ s[i].type = "target_start" => ~OpenIn(s, i - 1)

(* Whether a target is open after the first k tokens depends on them only. *)
LEMMA OpenPrefix ==
  ASSUME NEW s, NEW t, NEW k \in Nat, \A i \in 1 .. k : t[i] = s[i]
  PROVE  OpenIn(t, k) <=> OpenIn(s, k)
  BY DEF OpenIn

LEMMA OpenNext ==
  ASSUME NEW s, NEW k \in Nat
  PROVE  /\ s[k + 1].type = "target_start" => OpenIn(s, k + 1)
         /\ s[k + 1].type = "target_end" => ~OpenIn(s, k + 1)
         /\ s[k + 1].type \notin {"target_start", "target_end"} =>
              (OpenIn(s, k + 1) <=> OpenIn(s, k))
<1>1. ASSUME s[k + 1].type = "target_start" PROVE OpenIn(s, k + 1)
  BY <1>1 DEF OpenIn
<1>2. ASSUME s[k + 1].type = "target_end" PROVE ~OpenIn(s, k + 1)
  <2> SUFFICES ASSUME NEW i \in 1 .. (k + 1), s[i].type = "target_start",
                      \A j \in (i + 1) .. (k + 1) :
                        s[j].type \notin {"target_start", "target_end"}
               PROVE  FALSE
    BY DEF OpenIn
  <2>1. i # k + 1
    BY <1>2
  <2>2. k + 1 \in (i + 1) .. (k + 1)
    BY <2>1
  <2> QED
    BY <1>2, <2>2
<1>3. ASSUME s[k + 1].type \notin {"target_start", "target_end"}
      PROVE  OpenIn(s, k + 1) <=> OpenIn(s, k)
  <2>1. ASSUME OpenIn(s, k) PROVE OpenIn(s, k + 1)
    <3>1. PICK i \in 1 .. k :
            /\ s[i].type = "target_start"
            /\ \A j \in (i + 1) .. k : s[j].type \notin {"target_start", "target_end"}
      BY <2>1 DEF OpenIn
    <3>2. \A j \in (i + 1) .. (k + 1) : s[j].type \notin {"target_start", "target_end"}
      <4>1. \A j \in (i + 1) .. (k + 1) : j \in (i + 1) .. k \/ j = k + 1
        OBVIOUS
      <4> QED
        BY <1>3, <3>1, <4>1
    <3> QED
      BY <3>1, <3>2 DEF OpenIn
  <2>2. ASSUME OpenIn(s, k + 1) PROVE OpenIn(s, k)
    <3>1. PICK i \in 1 .. (k + 1) :
            /\ s[i].type = "target_start"
            /\ \A j \in (i + 1) .. (k + 1) : s[j].type \notin {"target_start", "target_end"}
      BY <2>2 DEF OpenIn
    <3>2. i \in 1 .. k
      BY <1>3, <3>1
    <3> QED
      BY <3>1, <3>2 DEF OpenIn
  <2> QED
    BY <2>1, <2>2
<1> QED
  BY <1>1, <1>2, <1>3

(* A token may follow a bracketed sequence if it opens what is closed or   *)
(* needs what is open.                                                     *)
LEMMA BracketedAppend ==
  ASSUME NEW s \in Seq(Token), NEW token \in Token, Bracketed(s),
         token.type \in {"target_end", "command", "no_op_command"} => OpenIn(s, Len(s)),
         token.type = "target_start" => ~OpenIn(s, Len(s))
  PROVE  LET t == Append(s, token) IN
         /\ t \in Seq(Token) /\ Len(t) = Len(s) + 1
         /\ Bracketed(t)
         /\ token.type = "target_start" => OpenIn(t, Len(t))
         /\ token.type = "target_end" => ~OpenIn(t, Len(t))
         /\ token.type \notin {"target_start", "target_end"} =>
              (OpenIn(t, Len(t)) <=> OpenIn(s, Len(s)))
<1> DEFINE t == Append(s, token)
<1>1. /\ t \in Seq(Token) /\ Len(t) = Len(s) + 1 /\ DOMAIN t = 1 .. (Len(s) + 1)
      /\ \A i \in 1 .. Len(s) : t[i] = s[i]
      /\ t[Len(s) + 1] = token
  OBVIOUS
<1>2. Len(s) \in Nat /\ DOMAIN s = 1 .. Len(s)
  OBVIOUS
<1> HIDE DEF t
<1>3. \A k \in 0 .. Len(s) : OpenIn(t, k) <=> OpenIn(s, k)
  <2> TAKE k \in 0 .. Len(s)
  <2>1. k \in Nat /\ \A i \in 1 .. k : t[i] = s[i]
    BY <1>1, <1>2
  <2> QED
    BY <2>1, OpenPrefix
<1>4. Bracketed(t)
  <2> SUFFICES ASSUME NEW i \in DOMAIN t
               PROVE  /\ t[i].type \in {"target_end", "command", "no_op_command"}
                           => OpenIn(t, i - 1)
                      /\ t[i].type = "target_start" => ~OpenIn(t, i - 1)
    BY DEF Bracketed
  <2>1. i - 1 \in 0 .. Len(s)
    BY <1>1, <1>2
  <2>2. OpenIn(t, i - 1) <=> OpenIn(s, i - 1)
    BY <1>3, <2>1
  <2>3. CASE i \in DOMAIN s
    BY <1>1, <1>2, <2>2, <2>3 DEF Bracketed
  <2>4. CASE i = Len(s) + 1
    <3>1. i - 1 = Len(s)
      BY <1>2, <2>4
    <3> QED
      BY <1>1, <2>2, <2>4, <3>1
  <2> QED
    BY <1>1, <1>2, <2>3, <2>4
<1>5. OpenIn(t, Len(s)) <=> OpenIn(s, Len(s))
  BY <1>2, <1>3
<1>6. /\ token.type = "target_start" => OpenIn(t, Len(t))
      /\ token.type = "target_end" => ~OpenIn(t, Len(t))
      /\ token.type \notin {"target_start", "target_end"} =>
           (OpenIn(t, Len(t)) <=> OpenIn(s, Len(s)))
  BY <1>1, <1>2, <1>5, OpenNext
<1> QED
  BY <1>1, <1>4, <1>6 DEF t

(* The logical lines follow the state of in_target.                        *)
LEMMA EmittedBracketed ==
  ASSUME NEW kind, in_target \in BOOLEAN
  PROVE  \/ /\ Emitted(kind) = <<>>
            /\ InTargetAfter(kind) <=> in_target
         \/ /\ Emitted(kind) = <<"target_end", "target_start">>
            /\ in_target /\ InTargetAfter(kind)
         \/ /\ Emitted(kind) = <<"target_end">>
            /\ in_target /\ ~InTargetAfter(kind)
         \/ /\ Emitted(kind) = <<"target_start">>
            /\ ~in_target /\ InTargetAfter(kind)
         \/ /\ Emitted(kind) \in {<<"command">>, <<"no_op_command">>}
            /\ in_target /\ InTargetAfter(kind)
         \/ /\ \E type \in TokenTypes :
                 /\ type \notin {"target_start", "target_end", "command", "no_op_command"}
                 /\ Emitted(kind) = <<type>>
            /\ InTargetAfter(kind) <=> in_target
<1>1. CASE kind \in Conditionals
  <2>1. kind \notin {"comment", "blank", "none", "command", "no_op_command",
                      "target", "var", "junk", "target_start", "target_end"}
    BY <1>1 DEF Conditionals
  <2>2. Emitted(kind) = <<kind>>
    BY <1>1, <2>1 DEF Emitted
  <2>3. kind \in TokenTypes
    BY <1>1, SomeTokenTypes
  <2>4. InTargetAfter(kind) <=> in_target
    BY <2>1 DEF InTargetAfter
  <2> QED
    BY <2>1, <2>2, <2>3, <2>4
<1>2. CASE kind \in {"comment", "blank", "none"}
  <2>1. kind \notin Conditionals
    BY <1>2 DEF Conditionals
  <2>2. Emitted(kind) = <<"comment">> /\ (InTargetAfter(kind) <=> in_target)
    BY <1>2, <2>1 DEF Emitted, InTargetAfter
  <2> QED
    BY <2>2, SomeTokenTypes
<1>3. CASE kind = "var"
  <2>1. kind \notin Conditionals
    BY <1>3 DEF Conditionals
  <2>2. Emitted(kind) = <<"var">> /\ (InTargetAfter(kind) <=> in_target)
    BY <1>3, <2>1 DEF Emitted, InTargetAfter
  <2> QED
    BY <2>2, SomeTokenTypes
<1>4. CASE kind \notin Conditionals \cup {"comment", "blank", "none", "var"}
  BY <1>4 DEF Emitted, InTargetAfter
<1> QED
  BY <1>1, <1>2, <1>3, <1>4

(* What a bracketed sequence becomes when the tokens of one logical line   *)
(* are appended to it.                                                     *)
LEMMA BracketedLine ==
  ASSUME NEW s \in Seq(Token), Bracketed(s), in_target \in BOOLEAN,
         in_target <=> OpenIn(s, Len(s)), NEW kind, NEW range \in LineRange
  PROVE  LET t == s \o TokensOf(Emitted(kind), range) IN
         /\ t \in Seq(Token)
         /\ Bracketed(t)
         /\ InTargetAfter(kind) <=> OpenIn(t, Len(t))
<1> DEFINE t == s \o TokensOf(Emitted(kind), range)
           tok(type) == [type |-> type, lines |-> range]
<1>1. \A type \in TokenTypes : tok(type) \in Token /\ tok(type).type = type
  BY DEF Token
<1>2. {"target_start", "target_end", "command", "no_op_command"} \subseteq TokenTypes
  BY SomeTokenTypes
<1>3. ASSUME NEW type \in TokenTypes, Emitted(kind) = <<type>>
      PROVE  t = Append(s, tok(type))
  BY <1>3 DEF TokensOf
<1>4. CASE Emitted(kind) = <<>> /\ (InTargetAfter(kind) <=> in_target)
  <2>1. t = s
    BY <1>4 DEF TokensOf
  <2> QED
    BY <1>4, <2>1
<1>5. CASE Emitted(kind) = <<"target_end", "target_start">> /\ in_target /\ InTargetAfter(kind)
  <2> DEFINE u == Append(s, tok("target_end"))
  <2>1. t = Append(u, tok("target_start"))
    <3>1. TokensOf(Emitted(kind), range) = <<tok("target_end"), tok("target_start")>>
      BY <1>5 DEF TokensOf
    <3>2. tok("target_end") \in Token /\ tok("target_start") \in Token
      BY <1>1, <1>2
    <3> HIDE DEF tok
    <3> QED
      BY <3>1, <3>2
  <2>2. u \in Seq(Token) /\ Bracketed(u) /\ ~OpenIn(u, Len(u))
    <3>1. tok("target_end") \in Token /\ tok("target_end").type = "target_end"
      BY <1>1, <1>2
    <3> HIDE DEF tok
    <3> QED
      BY <1>5, <3>1, BracketedAppend
  <2>3. tok("target_start") \in Token /\ tok("target_start").type = "target_start"
    BY <1>1, <1>2
  <2> HIDE DEF u, tok, t
  <2> QED
    BY <1>5, <2>1, <2>2, <2>3, BracketedAppend DEF t
<1>6. ASSUME NEW type \in TokenTypes, Emitted(kind) = <<type>>,
             type \in {"target_end", "command", "no_op_command"} => in_target,
             type = "target_start" => ~in_target,
             type = "target_start" => InTargetAfter(kind),
             type = "target_end" => ~InTargetAfter(kind),
             type \notin {"target_start", "target_end"} => (InTargetAfter(kind) <=> in_target)
      PROVE  t \in Seq(Token) /\ Bracketed(t) /\ (InTargetAfter(kind) <=> OpenIn(t, Len(t)))
  <2>1. t = Append(s, tok(type)) /\ tok(type) \in Token /\ tok(type).type = type
    BY <1>1, <1>3, <1>6
  <2> HIDE DEF tok, t
  <2>2. /\ t \in Seq(Token) /\ Bracketed(t)
        /\ type = "target_start" => OpenIn(t, Len(t))
        /\ type = "target_end" => ~OpenIn(t, Len(t))
        /\ type \notin {"target_start", "target_end"} =>
             (OpenIn(t, Len(t)) <=> OpenIn(s, Len(s)))
    BY <1>6, <2>1, BracketedAppend
  <2> QED
    BY <1>6, <2>2
<1> HIDE DEF t, tok
<1>7. CASE Emitted(kind) = <<"target_end">> /\ in_target /\ ~InTargetAfter(kind)
  BY <1>2, <1>6, <1>7 DEF t
<1>8. CASE Emitted(kind) = <<"target_start">> /\ ~in_target /\ InTargetAfter(kind)
  BY <1>2, <1>6, <1>8 DEF t
<1>9. CASE Emitted(kind) \in {<<"command">>, <<"no_op_command">>} /\ in_target /\ InTargetAfter(kind)
  BY <1>2, <1>6, <1>9 DEF t
<1>10. CASE /\ \E type \in TokenTypes :
                 /\ type \notin {"target_start", "target_end", "command", "no_op_command"}
                 /\ Emitted(kind) = <<type>>
            /\ InTargetAfter(kind) <=> in_target
  BY <1>6, <1>10 DEF t
<1> QED
  BY <1>4, <1>5, <1>7, <1>8, <1>9, <1>10, EmittedBracketed DEF t

LEMMA BracketedIsInvariant ==
  TargetsBracketed <=>
    /\ ~finished /\ error = "ok" => (in_target <=> OpenIn(tokens, Len(tokens)))
    /\ finished => ~OpenIn(tokens, Len(tokens))
    /\ Bracketed(tokens)
  BY DEF TargetsBracketed, Bracketed, OpenIn, OpenTarget

LEMMA BracketedStep ==
  ASSUME TokenizerTypeOK, TargetsBracketed, TokenizerNext
  PROVE  TargetsBracketed'
<1> USE DEF Reading
<1>1. /\ tokens \in Seq(Token) /\ in_target \in BOOLEAN
      /\ lines \in LineRange /\ [lines EXCEPT !.b = @ + 1] \in LineRange
  BY DEF TokenizerTypeOK, LineRange
<1>2. ~finished /\ error = "ok"
  BY DEF TokenizerNext, FeedNul, FeedContinued, FeedLine, TokenizerFinish
<1>3. Bracketed(tokens) /\ (in_target <=> OpenIn(tokens, Len(tokens)))
  BY <1>2, BracketedIsInvariant
<1>4. SUFFICES /\ ~finished' /\ error' = "ok" => (in_target' <=> OpenIn(tokens', Len(tokens')))
               /\ finished' => ~OpenIn(tokens', Len(tokens'))
               /\ Bracketed(tokens')
  BY DEF TargetsBracketed, Bracketed, OpenIn, OpenTarget
<1>5. CASE FeedNul
  BY <1>2, <1>3, <1>5 DEF FeedNul
<1>6. ASSUME NEW text \in Texts \ {"nul"}, FeedContinued(text)
      PROVE  /\ ~finished' /\ error' = "ok" => (in_target' <=> OpenIn(tokens', Len(tokens')))
             /\ finished' => ~OpenIn(tokens', Len(tokens'))
             /\ Bracketed(tokens')
  BY <1>2, <1>3, <1>6 DEF FeedContinued
<1>7. ASSUME NEW text \in Texts \ {"nul"}, FeedLine(text)
      PROVE  /\ ~finished' /\ error' = "ok" => (in_target' <=> OpenIn(tokens', Len(tokens')))
             /\ finished' => ~OpenIn(tokens', Len(tokens'))
             /\ Bracketed(tokens')
  <2>1. PICK kind \in Join(text) :
          /\ tokens' = tokens \o TokensOf(Emitted(kind), [lines EXCEPT !.b = @ + 1])
          /\ in_target' = InTargetAfter(kind)
    BY <1>7 DEF FeedLine
  <2>2. finished' = finished
    BY <1>7 DEF FeedLine
  <2>3. Bracketed(tokens') /\ (InTargetAfter(kind) <=> OpenIn(tokens', Len(tokens')))
    BY <1>1, <1>3, <2>1, BracketedLine
  <2> QED
    BY <1>2, <2>1, <2>2, <2>3
<1>8. CASE TokenizerFinish
  <2> DEFINE range == IF continued THEN lines ELSE [lines EXCEPT !.b = @ + 1]
             pending == inbuf # "none"
             rest == IF pending THEN TokensOf(Emitted(inbuf), range) ELSE <<>>
             open == IF pending THEN InTargetAfter(inbuf) ELSE in_target
             failure == IF pending THEN ReadError(inbuf) ELSE "ok"
             end == IF failure = "ok" /\ open
                    THEN TokensOf(<<"target_end">>, range) ELSE <<>>
             mid == tokens \o rest
  <2>1. /\ tokens' = tokens \o rest \o end
        /\ error' = failure
        /\ finished' = (failure = "ok")
    BY <1>8 DEF TokenizerFinish, FinalRange
  <2>2. range \in LineRange
    BY <1>1
  <2>3. mid \in Seq(Token) /\ Bracketed(mid) /\ (open <=> OpenIn(mid, Len(mid)))
    <3>1. CASE pending
      <4>1. mid = tokens \o TokensOf(Emitted(inbuf), range) /\ open = InTargetAfter(inbuf)
        BY <3>1
      <4> HIDE DEF mid, open, range
      <4> QED
        BY <1>1, <1>3, <2>2, <4>1, BracketedLine
    <3>2. CASE ~pending
      <4>1. mid = tokens /\ open = in_target
        BY <1>1, <3>2
      <4> HIDE DEF mid, open
      <4> QED
        BY <1>1, <1>3, <4>1
    <3> QED
      BY <3>1, <3>2
  <2>4. tokens' = mid \o end
    BY <2>1
  <2>5. CASE failure = "ok" /\ open
    <3> DEFINE token == [type |-> "target_end", lines |-> range]
    <3>1. token \in Token /\ token.type = "target_end"
      BY <2>2, SomeTokenTypes DEF Token
    <3>2. end = <<token>>
      BY <2>5 DEF TokensOf
    <3> HIDE DEF mid, open, failure, end, token
    <3>3. tokens' = Append(mid, token)
      BY <2>3, <2>4, <3>1, <3>2
    <3>4. Bracketed(tokens') /\ ~OpenIn(tokens', Len(tokens'))
      BY <2>3, <2>5, <3>1, <3>3, BracketedAppend
    <3> QED
      BY <2>1, <2>5, <3>4
  <2>6. CASE ~(failure = "ok" /\ open)
    <3>1. end = <<>>
      BY <2>6
    <3> HIDE DEF mid, open, failure, end
    <3>2. tokens' = mid
      BY <2>3, <2>4, <3>1
    <3> QED
      BY <2>1, <2>3, <2>6, <3>2
  <2> QED
    BY <2>5, <2>6
<1> QED
  BY <1>5, <1>6, <1>7, <1>8 DEF TokenizerNext

(* Targets are opened and closed in turn, commands stand inside of one,    *)
(* and in_target knows, for every input.                                   *)
THEOREM TargetsAreBracketed == TokenizerSpec => []TargetsBracketed
<1> DEFINE IInv == TokenizerTypeOK /\ TargetsBracketed
<1>1. TokenizerInit => IInv
  BY TokenizerInitType DEF TokenizerInit, TargetsBracketed, OpenTarget
<1>2. IInv /\ [TokenizerNext \/ TokenizerStopped]_tokenizerVars => IInv'
  <2>1. ASSUME IInv, TokenizerNext PROVE IInv'
    BY <2>1, TokenizerTypeStep, BracketedStep
  <2>2. ASSUME IInv, UNCHANGED tokenizerVars PROVE IInv'
    BY <2>2 DEF tokenizerVars, TokenizerTypeOK, TargetsBracketed, OpenTarget
  <2> QED
    BY <2>1, <2>2 DEF TokenizerStopped
<1>3. IInv => TargetsBracketed
  OBVIOUS
<1> QED
  BY <1>1, <1>2, <1>3, PTL DEF TokenizerSpec

-----------------------------------------------------------------------------
(* The lines of any sequence of tokens: the first n each have one token    *)
(* that stands, and the ranges are in order, those that stand apart.       *)
Takes(s, i, l) == s[i].type # "target_end" /\ s[i].lines.a <= l /\ l < s[i].lines.b

TakenOnce(s, n) ==
  \A l \in 1 .. n :
    \E i \in DOMAIN s : Takes(s, i, l) /\ \A j \in DOMAIN s : Takes(s, j, l) => j = i

Follows(t, u) ==
  /\ t.lines.a <= u.lines.a /\ t.lines.b <= u.lines.b
  /\ t.type # "target_end" /\ u.type # "target_end" => t.lines.b <= u.lines.a

InOrder(s) == \A i, j \in DOMAIN s : i < j => Follows(s[i], s[j])

(* No range goes beyond line b.                                            *)
Within(s, b) == \A i \in DOMAIN s : s[i].lines.a <= b /\ s[i].lines.b <= b

(* Every token has this range.                                             *)
OfRange(s, range) == \A i \in DOMAIN s : s[i].lines = range

(* Where the elements of two sequences are in the one behind the other.    *)
LEMMA AppendedAt ==
  ASSUME NEW s \in Seq(Token), NEW new \in Seq(Token), NEW i \in DOMAIN (s \o new)
  PROVE  \/ i \in DOMAIN s /\ (s \o new)[i] = s[i]
         \/ i > Len(s) /\ i - Len(s) \in DOMAIN new /\ (s \o new)[i] = new[i - Len(s)]
  OBVIOUS

(* The old elements are still there, and so are the new ones.              *)
LEMMA AppendedFrom ==
  ASSUME NEW s \in Seq(Token), NEW new \in Seq(Token)
  PROVE  /\ s \o new \in Seq(Token)
         /\ \A i \in DOMAIN s : i \in DOMAIN (s \o new) /\ (s \o new)[i] = s[i]
         /\ \A k \in DOMAIN new :
              k + Len(s) \in DOMAIN (s \o new) /\ (s \o new)[k + Len(s)] = new[k]
  OBVIOUS

(* Tokens of a later range keep the order.                                 *)
LEMMA OrderAppend ==
  ASSUME NEW s \in Seq(Token), NEW new \in Seq(Token), NEW range \in LineRange,
         InOrder(s), OfRange(new, range),
         \A i \in DOMAIN s : s[i].lines.a <= range.a /\ s[i].lines.b <= range.b,
         \/ \A k \in DOMAIN new : new[k].type = "target_end"
         \/ /\ \A i \in DOMAIN s : s[i].lines.b <= range.a
            /\ \A k, m \in DOMAIN new :
                 new[k].type # "target_end" /\ new[m].type # "target_end" => k = m
  PROVE  InOrder(s \o new)
<1> DEFINE all == s \o new
<1> SUFFICES ASSUME NEW i \in DOMAIN all, NEW j \in DOMAIN all, i < j
             PROVE  Follows(all[i], all[j])
  BY DEF InOrder
<1>1. /\ \/ i \in DOMAIN s /\ all[i] = s[i]
         \/ i > Len(s) /\ i - Len(s) \in DOMAIN new /\ all[i] = new[i - Len(s)]
      /\ \/ j \in DOMAIN s /\ all[j] = s[j]
         \/ j > Len(s) /\ j - Len(s) \in DOMAIN new /\ all[j] = new[j - Len(s)]
  BY AppendedAt
<1>2. i \in Nat /\ j \in Nat /\ Len(s) \in Nat /\ DOMAIN s = 1 .. Len(s)
  OBVIOUS
<1>3. range.a \in Nat /\ range.b \in Nat
  BY DEF LineRange
<1> HIDE DEF all
<1>4. CASE i \in DOMAIN s /\ j \in DOMAIN s
  BY <1>1, <1>2, <1>4 DEF InOrder
<1>5. CASE j \notin DOMAIN s
  <2>1. j - Len(s) \in DOMAIN new /\ all[j] = new[j - Len(s)] /\ all[j].lines = range
    BY <1>1, <1>5 DEF OfRange
  <2>2. CASE i \in DOMAIN s
    BY <1>1, <1>2, <2>1, <2>2 DEF Follows
  <2>3. CASE i \notin DOMAIN s
    <3>1. i - Len(s) \in DOMAIN new /\ all[i] = new[i - Len(s)] /\ all[i].lines = range
      BY <1>1, <2>3 DEF OfRange
    <3>2. i - Len(s) # j - Len(s)
      BY <1>2
    <3> QED
      BY <1>3, <2>1, <3>1, <3>2 DEF Follows
  <2> QED
    BY <2>2, <2>3
<1>6. CASE i \notin DOMAIN s /\ j \in DOMAIN s
  BY <1>1, <1>2, <1>6
<1> QED
  BY <1>4, <1>5, <1>6

(* Ends of targets take no line.                                           *)
LEMMA EndsTakeNothing ==
  ASSUME NEW s \in Seq(Token), NEW new \in Seq(Token), NEW n \in Nat, TakenOnce(s, n),
         \A k \in DOMAIN new : new[k].type = "target_end"
  PROVE  TakenOnce(s \o new, n)
<1> DEFINE all == s \o new
<1> SUFFICES ASSUME NEW l \in 1 .. n
             PROVE  \E i \in DOMAIN all :
                      Takes(all, i, l) /\ \A j \in DOMAIN all : Takes(all, j, l) => j = i
  BY DEF TakenOnce
<1>1. PICK i \in DOMAIN s : Takes(s, i, l) /\ \A j \in DOMAIN s : Takes(s, j, l) => j = i
  BY DEF TakenOnce
<1>2. i \in DOMAIN all /\ all[i] = s[i]
  BY AppendedFrom
<1>3. ASSUME NEW j \in DOMAIN all, Takes(all, j, l)
      PROVE  j \in DOMAIN s /\ all[j] = s[j]
  BY <1>3, AppendedAt DEF Takes
<1> HIDE DEF all
<1>4. Takes(all, i, l)
  BY <1>1, <1>2 DEF Takes
<1>5. \A j \in DOMAIN all : Takes(all, j, l) => j = i
  BY <1>1, <1>3 DEF Takes
<1> QED
  BY <1>2, <1>4, <1>5

(* Of the tokens of the next range, one takes its lines.                   *)
LEMMA NextRangeTaken ==
  ASSUME NEW s \in Seq(Token), NEW new \in Seq(Token), NEW range \in LineRange,
         1 <= range.a, range.a < range.b,
         TakenOnce(s, range.a - 1), Within(s, range.a), OfRange(new, range),
         NEW p \in DOMAIN new, new[p].type # "target_end",
         \A k \in DOMAIN new : new[k].type # "target_end" => k = p
  PROVE  TakenOnce(s \o new, range.b - 1)
<1> DEFINE all == s \o new
<1> SUFFICES ASSUME NEW l \in 1 .. (range.b - 1)
             PROVE  \E i \in DOMAIN all :
                      Takes(all, i, l) /\ \A j \in DOMAIN all : Takes(all, j, l) => j = i
  BY DEF TakenOnce
<1>1. range.a \in Nat /\ range.b \in Nat /\ l \in Nat
  BY DEF LineRange
<1>2. \A i \in DOMAIN s : i \in DOMAIN all /\ all[i] = s[i] /\ s[i].lines.b <= range.a
  BY AppendedFrom DEF Within
<1>3. ASSUME NEW j \in DOMAIN all, j \notin DOMAIN s
      PROVE  /\ j - Len(s) \in DOMAIN new /\ all[j] = new[j - Len(s)] /\ all[j].lines = range
  BY <1>3, AppendedAt DEF OfRange
<1>4. \A i \in DOMAIN s : s[i].lines.a \in Nat /\ s[i].lines.b \in Nat
  <2> TAKE i \in DOMAIN s
  <2>1. s[i] \in Token
    OBVIOUS
  <2> QED
    BY <2>1 DEF Token, LineRange
<1>5. p + Len(s) \in DOMAIN all /\ all[p + Len(s)] = new[p] /\ new[p].lines = range
  BY AppendedFrom DEF OfRange
<1>6. DOMAIN all \subseteq Nat /\ Len(s) \in Nat /\ p \in Nat
  OBVIOUS
<1> HIDE DEF all
<1>7. CASE l < range.a
  <2>1. PICK i \in DOMAIN s : Takes(s, i, l) /\ \A j \in DOMAIN s : Takes(s, j, l) => j = i
    <3>1. l \in 1 .. (range.a - 1)
      BY <1>1, <1>7
    <3> QED
      BY <3>1 DEF TakenOnce
  <2>2. i \in DOMAIN all /\ Takes(all, i, l)
    BY <1>2, <2>1 DEF Takes
  <2>3. ASSUME NEW j \in DOMAIN all, Takes(all, j, l)
        PROVE  j = i
    <3>1. CASE j \in DOMAIN s
      BY <1>2, <2>1, <2>3, <3>1 DEF Takes
    <3>2. CASE j \notin DOMAIN s
      <4>1. all[j].lines = range
        BY <1>3, <3>2
      <4> QED
        BY <1>1, <1>7, <2>3, <4>1 DEF Takes
    <3> QED
      BY <3>1, <3>2
  <2> QED
    BY <2>2, <2>3
<1>8. CASE ~(l < range.a)
  <2>1. Takes(all, p + Len(s), l)
    BY <1>1, <1>5, <1>8 DEF Takes
  <2>2. ASSUME NEW j \in DOMAIN all, Takes(all, j, l)
        PROVE  j = p + Len(s)
    <3>1. CASE j \in DOMAIN s
      <4>1. all[j] = s[j] /\ s[j].lines.b <= range.a /\ s[j].lines.b \in Nat
        BY <1>2, <1>4, <3>1
      <4> QED
        BY <1>1, <1>8, <2>2, <4>1 DEF Takes
    <3>2. CASE j \notin DOMAIN s
      <4>1. j - Len(s) \in DOMAIN new /\ new[j - Len(s)].type # "target_end"
        BY <1>3, <2>2, <3>2 DEF Takes
      <4>2. j - Len(s) = p
        BY <4>1
      <4> QED
        BY <1>6, <4>2
    <3> QED
      BY <3>1, <3>2
  <2> QED
    BY <1>5, <2>1, <2>2
<1> QED
  BY <1>7, <1>8

-----------------------------------------------------------------------------
(* What is pending is empty unless a line was continued, and without text  *)
(* it is one line.                                                         *)
PendingLines ==
  ~finished /\ error = "ok" =>
    /\ Within(tokens, lines.a)
    /\ inbuf \notin {"lone", "nul"}
    /\ ~continued => lines.a = lines.b
    /\ continued /\ inbuf = "none" => lines.b = lines.a + 1

LinesTaken ==
  /\ InOrder(tokens)
  /\ ~finished => TakenOnce(tokens, lines.a - 1)
  /\ finished => TakenOnce(tokens, IF continued /\ inbuf = "none" THEN rawlines - 1 ELSE rawlines)

LinesIInv == TokenizerTypeOK /\ PendingRange /\ PendingLines /\ LinesTaken

(* What a line is joined to is neither a lone backslash nor a line with a  *)
(* 0 byte, and has no text only if nothing was pending.                    *)
LEMMA JoinKinds ==
  ASSUME TokenizerTypeOK, inbuf \notin {"lone", "nul"},
         NEW text \in Texts \ {"nul"}, NEW kind \in Join(text)
  PROVE  kind \notin {"lone", "nul"} /\ (kind = "none" => ~continued)
<1>1. "none" \notin TextKinds /\ "none" \notin Texts
  BY TextsAssumption DEF TextKinds, Conditionals
<1>2. CASE ~continued
  BY <1>2 DEF Join
<1>3. CASE continued /\ inbuf \notin {"none", "blank"}
  BY <1>3 DEF Join
<1>4. CASE continued /\ inbuf \in {"none", "blank"}
  BY <1>1, <1>4 DEF Join, BehindBlanks, WithoutTab, Conditionals
<1> QED
  BY <1>2, <1>3, <1>4

(* Of the tokens of a logical line, one stands.                            *)
LEMMA OneStands ==
  ASSUME NEW kind \in TextKinds \cup {"none"}, kind \notin {"lone", "nul"},
         ReadError(kind) = "ok"
  PROVE  \E p \in DOMAIN Emitted(kind) :
           /\ Emitted(kind)[p] # "target_end"
           /\ \A k \in DOMAIN Emitted(kind) : Emitted(kind)[k] # "target_end" => k = p
<1>1. /\ kind \notin {"malformed", "junk"}
      /\ kind \in {"command", "no_op_command"} => in_target
  BY DEF ReadError, Conditionals
<1>2. Emitted(kind) # <<>> /\ Emitted(kind) # <<"target_end">>
  <2>1. CASE kind \in Conditionals
    <3>1. kind \notin {"comment", "blank", "none", "command", "no_op_command", "target",
                       "var", "junk", "target_end"}
      BY <2>1 DEF Conditionals
    <3>2. Emitted(kind) = <<kind>>
      BY <2>1, <3>1 DEF Emitted
    <3> QED
      BY <3>1, <3>2
  <2>2. CASE kind \notin Conditionals
    <3>1. kind \in {"comment", "blank", "none", "target", "var", "command", "no_op_command"}
      BY <1>1, <2>2 DEF TextKinds
    <3> QED
      BY <1>1, <2>2, <3>1 DEF Emitted
  <2> QED
    BY <2>1, <2>2
<1>3. CASE Emitted(kind) = <<"target_end", "target_start">>
  BY <1>3
<1>4. CASE \E type \in TokenTypes \ {"target_end"} : Emitted(kind) = <<type>>
  BY <1>4
<1> QED
  BY <1>2, <1>3, <1>4, EmittedShape

(* The tokens of a logical line have its range and its types.              *)
LEMMA TokensOfLine ==
  ASSUME NEW types \in Seq(TokenTypes), NEW range \in LineRange
  PROVE  /\ TokensOf(types, range) \in Seq(Token)
         /\ OfRange(TokensOf(types, range), range)
         /\ DOMAIN TokensOf(types, range) = DOMAIN types
         /\ \A k \in DOMAIN types : TokensOf(types, range)[k].type = types[k]
<1> DEFINE new == TokensOf(types, range)
<1>1. /\ new \in Seq(Token) /\ Len(new) = Len(types)
      /\ \A k \in 1 .. Len(types) : new[k] = [type |-> types[k], lines |-> range]
  BY TokensOfType
<1> HIDE DEF new
<1>2. DOMAIN new = 1 .. Len(types) /\ DOMAIN types = 1 .. Len(types)
  BY <1>1
<1>3. OfRange(new, range)
  BY <1>1, <1>2 DEF OfRange
<1>4. \A k \in DOMAIN types : new[k].type = types[k]
  BY <1>1, <1>2
<1> QED
  BY <1>1, <1>2, <1>3, <1>4 DEF new

(* A logical line takes its lines.                                         *)
LEMMA LineTaken ==
  ASSUME NEW s \in Seq(Token), NEW range \in LineRange, 1 <= range.a, range.a < range.b,
         InOrder(s), TakenOnce(s, range.a - 1), Within(s, range.a),
         NEW kind \in TextKinds \cup {"none"}, kind \notin {"lone", "nul"},
         ReadError(kind) = "ok"
  PROVE  LET all == s \o TokensOf(Emitted(kind), range)
         IN InOrder(all) /\ TakenOnce(all, range.b - 1) /\ Within(all, range.b)
<1> DEFINE new == TokensOf(Emitted(kind), range)
<1>1. Emitted(kind) \in Seq(TokenTypes)
  BY EmittedType
<1>2. /\ new \in Seq(Token) /\ OfRange(new, range)
      /\ DOMAIN new = DOMAIN Emitted(kind)
      /\ \A k \in DOMAIN Emitted(kind) : new[k].type = Emitted(kind)[k]
  BY <1>1, TokensOfLine
<1>3. PICK p \in DOMAIN Emitted(kind) :
        /\ Emitted(kind)[p] # "target_end"
        /\ \A k \in DOMAIN Emitted(kind) : Emitted(kind)[k] # "target_end" => k = p
  BY OneStands
<1> HIDE DEF new
<1>4. /\ p \in DOMAIN new /\ new[p].type # "target_end"
      /\ \A k \in DOMAIN new : new[k].type # "target_end" => k = p
  BY <1>2, <1>3
<1>5. range.a \in Nat /\ range.b \in Nat
  BY DEF LineRange
<1>6. \A i \in DOMAIN s : s[i].lines.a \in Nat /\ s[i].lines.b \in Nat
  <2> TAKE i \in DOMAIN s
  <2>1. s[i] \in Token
    OBVIOUS
  <2> QED
    BY <2>1 DEF Token, LineRange
<1>7. \A i \in DOMAIN s : s[i].lines.a <= range.a /\ s[i].lines.b <= range.a
  BY DEF Within
<1>8. \A i \in DOMAIN s : s[i].lines.a <= range.a /\ s[i].lines.b <= range.b
  BY <1>5, <1>6, <1>7
<1>9. InOrder(s \o new)
  BY <1>2, <1>4, <1>7, <1>8, OrderAppend
<1>10. TakenOnce(s \o new, range.b - 1)
  BY <1>2, <1>4, NextRangeTaken
<1>11. Within(s \o new, range.b)
  <2> SUFFICES ASSUME NEW i \in DOMAIN (s \o new)
               PROVE  (s \o new)[i].lines.a <= range.b /\ (s \o new)[i].lines.b <= range.b
    BY DEF Within
  <2>1. \/ i \in DOMAIN s /\ (s \o new)[i] = s[i]
        \/ i - Len(s) \in DOMAIN new /\ (s \o new)[i] = new[i - Len(s)]
    BY <1>2, AppendedAt
  <2>2. CASE i \in DOMAIN s /\ (s \o new)[i] = s[i]
    <3>1. s[i].lines.a <= range.a /\ s[i].lines.a \in Nat
      BY <1>6, <1>7, <2>2
    <3>2. s[i].lines.a <= range.b
      BY <1>5, <3>1
    <3> QED
      BY <1>8, <2>2, <3>2
  <2>3. CASE i - Len(s) \in DOMAIN new /\ (s \o new)[i] = new[i - Len(s)]
    <3>1. new[i - Len(s)].lines = range
      BY <1>2, <2>3 DEF OfRange
    <3> QED
      BY <1>5, <2>3, <3>1
  <2> QED
    BY <2>1, <2>2, <2>3
<1> QED
  BY <1>9, <1>10, <1>11 DEF new

(* The end of a target takes no line.                                      *)
LEMMA EndTaken ==
  ASSUME NEW s \in Seq(Token), NEW range \in LineRange, NEW n \in Nat,
         InOrder(s), TakenOnce(s, n),
         \A i \in DOMAIN s : s[i].lines.a <= range.a /\ s[i].lines.b <= range.b,
         NEW types \in {<<>>, <<"target_end">>}
  PROVE  InOrder(s \o TokensOf(types, range)) /\ TakenOnce(s \o TokensOf(types, range), n)
<1> DEFINE new == TokensOf(types, range)
<1>1. types \in Seq(TokenTypes) /\ \A k \in DOMAIN types : types[k] = "target_end"
  <2>1. "target_end" \in TokenTypes
    BY SomeTokenTypes
  <2>2. CASE types = <<>>
    BY <2>2
  <2>3. CASE types = <<"target_end">>
    BY <2>1, <2>3
  <2> QED
    BY <2>2, <2>3
<1>2. new \in Seq(Token) /\ OfRange(new, range) /\ \A k \in DOMAIN new : new[k].type = "target_end"
  BY <1>1, TokensOfLine
<1> HIDE DEF new
<1>3. InOrder(s \o new)
  BY <1>2, OrderAppend
<1>4. TakenOnce(s \o new, n)
  BY <1>2, EndsTakeNothing
<1> QED
  BY <1>3, <1>4 DEF new

(* Each step of the tokenizer keeps every line with one token.             *)
LEMMA LinesStep ==
  ASSUME LinesIInv, RangesWithinInput, TokenizerNext
  PROVE  PendingLines' /\ LinesTaken'
<1> USE DEF Reading
<1>1. /\ tokens \in Seq(Token) /\ lines \in LineRange /\ rawlines \in Nat
      /\ lines.a \in Nat /\ lines.b \in Nat
      /\ continued \in BOOLEAN /\ in_target \in BOOLEAN
      /\ inbuf \in TextKinds \cup {"none"}
  BY MaxLinesAssumption DEF LinesIInv, TokenizerTypeOK, LineRange
<1>2. ~finished /\ error = "ok"
  BY DEF TokenizerNext, FeedNul, FeedContinued, FeedLine, TokenizerFinish
<1>3. /\ lines.b = rawlines + 1 /\ 1 <= lines.a /\ lines.a <= lines.b
      /\ continued => lines.a < lines.b
      /\ ~continued => inbuf = "none" /\ lines.a = lines.b
      /\ continued /\ inbuf = "none" => lines.b = lines.a + 1
      /\ inbuf \notin {"lone", "nul"}
      /\ Within(tokens, lines.a) /\ InOrder(tokens) /\ TakenOnce(tokens, lines.a - 1)
  BY <1>2 DEF LinesIInv, PendingRange, PendingLines, LinesTaken
<1>4. \A i \in DOMAIN tokens :
        /\ tokens[i].lines.a \in Nat /\ tokens[i].lines.b \in Nat
        /\ tokens[i].lines.a <= lines.a /\ tokens[i].lines.b <= lines.a
  <2> TAKE i \in DOMAIN tokens
  <2>1. tokens[i] \in Token
    BY <1>1
  <2> QED
    BY <1>3, <2>1 DEF Token, LineRange, Within
<1>5. lines.a - 1 \in Nat
  BY <1>1, <1>3
<1>6. CASE FeedNul
  <2>1. /\ error' = "io" /\ lines'.a = lines.a
        /\ UNCHANGED <<finished, tokens>>
    BY <1>1, <1>6 DEF FeedNul, LineRange
  <2> QED
    BY <1>2, <1>3, <2>1 DEF PendingLines, LinesTaken
<1>7. ASSUME NEW text \in Texts \ {"nul"}, FeedContinued(text)
      PROVE  PendingLines' /\ LinesTaken'
  <2>1. /\ inbuf' \in Join(text) /\ continued' = TRUE
        /\ lines'.a = lines.a /\ lines'.b = lines.b + 1
        /\ UNCHANGED <<error, finished, tokens>>
    BY <1>1, <1>7 DEF FeedContinued, LineRange
  <2>2. inbuf' \notin {"lone", "nul"} /\ (inbuf' = "none" => ~continued)
    BY <1>3, <2>1, JoinKinds DEF LinesIInv
  <2>3. inbuf' = "none" => lines'.b = lines'.a + 1
    BY <1>3, <2>1, <2>2
  <2> QED
    BY <1>2, <1>3, <2>1, <2>2, <2>3 DEF PendingLines, LinesTaken
<1>8. ASSUME NEW text \in Texts \ {"nul"}, FeedLine(text)
      PROVE  PendingLines' /\ LinesTaken'
  <2> DEFINE range == [lines EXCEPT !.b = @ + 1]
  <2>1. PICK kind \in Join(text) :
          /\ tokens' = tokens \o TokensOf(Emitted(kind), range)
          /\ error' = ReadError(kind)
          /\ IF ReadError(kind) = "ok"
             THEN lines' = [a |-> range.b, b |-> range.b] /\ inbuf' = "none" /\ continued' = FALSE
             ELSE lines' = range
          /\ finished' = finished
    BY <1>8 DEF FeedLine, NextRange
  <2>2. kind \in TextKinds \cup {"none"} /\ kind \notin {"lone", "nul"}
    BY <1>3, JoinKinds, JoinType DEF LinesIInv
  <2>3. range \in LineRange /\ range.a = lines.a /\ range.b = lines.b + 1
    BY <1>1 DEF LineRange
  <2> HIDE DEF range
  <2>4. CASE ReadError(kind) = "ok"
    <3>1. 1 <= range.a /\ range.a < range.b
      BY <1>1, <1>3, <2>3
    <3>2. InOrder(tokens') /\ TakenOnce(tokens', range.b - 1) /\ Within(tokens', range.b)
      BY <1>1, <1>3, <2>1, <2>2, <2>3, <2>4, <3>1, LineTaken
    <3>3. lines'.a = range.b /\ lines'.b = range.b
      BY <2>1, <2>4
    <3> QED
      BY <1>2, <2>1, <2>4, <3>2, <3>3 DEF PendingLines, LinesTaken
  <2>5. CASE ReadError(kind) # "ok"
    <3>1. Emitted(kind) \in {<<>>, <<"target_end">>}
      BY <2>5, ErrorsEmitNoNode
    <3>2. \A i \in DOMAIN tokens :
            tokens[i].lines.a <= range.a /\ tokens[i].lines.b <= range.b
      BY <1>1, <1>3, <1>4, <2>3
    <3>3. InOrder(tokens') /\ TakenOnce(tokens', lines.a - 1)
      BY <1>1, <1>3, <1>5, <2>1, <2>3, <3>1, <3>2, EndTaken
    <3>4. lines'.a = lines.a
      BY <2>1, <2>3, <2>5
    <3> QED
      BY <1>2, <2>1, <2>5, <3>3, <3>4 DEF PendingLines, LinesTaken
  <2> QED
    BY <2>4, <2>5
<1>9. CASE TokenizerFinish
  <2> DEFINE range == IF continued THEN lines ELSE [lines EXCEPT !.b = @ + 1]
             pending == inbuf # "none"
             rest == IF pending THEN TokensOf(Emitted(inbuf), range) ELSE <<>>
             open == IF pending THEN InTargetAfter(inbuf) ELSE in_target
             failure == IF pending THEN ReadError(inbuf) ELSE "ok"
             end == IF failure = "ok" /\ open
                    THEN TokensOf(<<"target_end">>, range) ELSE <<>>
             last == IF failure = "ok" /\ open THEN <<"target_end">> ELSE <<>>
  <2>1. /\ tokens' = tokens \o rest \o end
        /\ lines' = range
        /\ error' = failure
        /\ finished' = (failure = "ok")
        /\ UNCHANGED <<inbuf, continued, rawlines>>
    BY <1>9 DEF TokenizerFinish, FinalRange
  <2>2. /\ range \in LineRange /\ range.a = lines.a /\ lines.b <= range.b
        /\ range.a \in Nat /\ range.b \in Nat
        /\ continued => range.b = lines.b
    BY <1>1 DEF LineRange
  <2>3. last \in {<<>>, <<"target_end">>} /\ end = TokensOf(last, range)
    BY DEF TokensOf
  <2>4. \A i \in DOMAIN tokens : tokens[i].lines.a <= range.a /\ tokens[i].lines.b <= range.b
    BY <1>1, <1>3, <1>4, <2>2
  <2>5. PendingLines'
    BY <2>1 DEF PendingLines
  <2>6. CASE ~pending
    <3>1. failure = "ok" /\ finished'
      BY <2>1, <2>6
    <3>2. tokens' = tokens \o end
      <4>1. rest = <<>>
        BY <2>6
      <4> HIDE DEF rest, end
      <4>2. tokens \o rest = tokens
        BY <1>1, <4>1
      <4> QED
        BY <2>1, <4>2
    <3> HIDE DEF range, end, last
    <3>3. InOrder(tokens') /\ TakenOnce(tokens', lines.a - 1)
      BY <1>1, <1>3, <1>5, <2>2, <2>3, <2>4, <3>2, EndTaken
    <3>4. lines.a - 1 = IF continued /\ inbuf = "none" THEN rawlines - 1 ELSE rawlines
      BY <1>1, <1>3, <2>6
    <3> QED
      BY <2>1, <2>5, <3>1, <3>3, <3>4 DEF LinesTaken
  <2>7. CASE pending /\ ReadError(inbuf) = "ok"
    <3>1. failure = "ok" /\ finished' /\ continued /\ range.b = rawlines + 1
      BY <1>3, <2>1, <2>2, <2>7
    <3>2. rest = TokensOf(Emitted(inbuf), range)
      BY <2>7
    <3> DEFINE all == tokens \o rest
    <3>3. 1 <= range.a /\ range.a < range.b
      BY <1>1, <1>3, <2>2, <3>1
    <3>4. tokens' = all \o TokensOf(last, range)
      BY <2>1, <2>3
    <3> HIDE DEF range, end, last
    <3>5. InOrder(all) /\ TakenOnce(all, range.b - 1) /\ Within(all, range.b)
      BY <1>1, <1>3, <2>2, <2>7, <3>2, <3>3, LineTaken
    <3>6. all \in Seq(Token)
      <4>1. Emitted(inbuf) \in Seq(TokenTypes)
        BY EmittedType
      <4>2. TokensOf(Emitted(inbuf), range) \in Seq(Token)
        BY <2>2, <4>1, TokensOfLine
      <4> HIDE DEF rest
      <4> QED
        BY <1>1, <3>2, <4>2
    <3>7. \A i \in DOMAIN all : all[i].lines.a <= range.a /\ all[i].lines.b <= range.b
      <4>1. Emitted(inbuf) \in Seq(TokenTypes)
        BY EmittedType
      <4>2. rest \in Seq(Token) /\ OfRange(rest, range)
        BY <2>2, <3>2, <4>1, TokensOfLine
      <4> HIDE DEF rest
      <4> TAKE i \in DOMAIN all
      <4>3. \/ i \in DOMAIN tokens /\ all[i] = tokens[i]
            \/ i - Len(tokens) \in DOMAIN rest /\ all[i] = rest[i - Len(tokens)]
        BY <1>1, <4>2, AppendedAt
      <4> QED
        BY <2>2, <2>4, <4>2, <4>3 DEF OfRange
    <3> HIDE DEF rest, all
    <3>8. range.b - 1 = rawlines /\ range.b - 1 \in Nat
      BY <1>1, <3>1
    <3>9. InOrder(tokens') /\ TakenOnce(tokens', rawlines)
      BY <2>2, <2>3, <3>4, <3>5, <3>6, <3>7, <3>8, EndTaken
    <3>10. ~(continued' /\ inbuf' = "none") /\ rawlines' = rawlines
      BY <2>1, <2>7
    <3> QED
      BY <2>5, <3>1, <3>9, <3>10 DEF LinesTaken
  <2>8. CASE pending /\ ReadError(inbuf) # "ok"
    <3>1. failure # "ok" /\ ~finished' /\ lines'.a = lines.a
      BY <2>1, <2>2, <2>8
    <3>2. Emitted(inbuf) \in {<<>>, <<"target_end">>}
      BY <2>8, ErrorsEmitNoNode
    <3>3. tokens' = tokens \o TokensOf(Emitted(inbuf), range)
      <4>1. rest = TokensOf(Emitted(inbuf), range) /\ end = <<>>
        BY <2>8
      <4>2. rest \in Seq(Token)
        <5>1. Emitted(inbuf) \in Seq(TokenTypes)
          BY EmittedType
        <5> QED
          BY <2>2, <4>1, <5>1, TokensOfLine
      <4> HIDE DEF rest, end, range
      <4>3. tokens \o rest \in Seq(Token)
        BY <1>1, <4>2
      <4>4. tokens \o rest \o end = tokens \o rest
        BY <4>1, <4>3
      <4> QED
        BY <2>1, <4>1, <4>4
    <3> HIDE DEF range
    <3>4. InOrder(tokens') /\ TakenOnce(tokens', lines.a - 1)
      BY <1>1, <1>3, <1>5, <2>2, <2>4, <3>2, <3>3, EndTaken
    <3> QED
      BY <2>5, <3>1, <3>4 DEF LinesTaken
  <2> QED
    BY <2>6, <2>7, <2>8
<1> QED
  BY <1>6, <1>7, <1>8, <1>9 DEF TokenizerNext

(* What the invariant means for the lines that were read.                  *)
LEMMA LinesOnce ==
  ASSUME LinesIInv, RangesWithinInput
  PROVE  LinesTokenizedOnce
<1>1. \A l \in TokenizedLines :
        \E i \in DOMAIN tokens :
          Takes(tokens, i, l) /\ \A j \in DOMAIN tokens : Takes(tokens, j, l) => j = i
  BY DEF LinesIInv, LinesTaken, TakenOnce, TokenizedLines
<1>2. InOrder(tokens)
  BY DEF LinesIInv, LinesTaken
<1> QED
  BY <1>1, <1>2 DEF LinesTokenizedOnce, Covers, Stands, Takes, InOrder, Follows

(* Every physical line belongs to exactly one logical line, and the tokens *)
(* are in the order of the lines, whatever is continued and wherever the   *)
(* input ends.                                                             *)
THEOREM LinesAreTokenizedOnce == TokenizerSpec => []LinesTokenizedOnce
<1> DEFINE IInv == LinesIInv /\ RangesWithinInput
<1>1. TokenizerInit => IInv
  <2> SUFFICES ASSUME TokenizerInit
               PROVE  IInv
    OBVIOUS
  <2>1. TokenizerTypeOK
    BY TokenizerInitType
  <2> QED
    BY <2>1 DEF TokenizerInit, LinesIInv, PendingRange, PendingLines, LinesTaken, InOrder,
                TakenOnce, Within, RangesWithinInput
<1>2. IInv /\ [TokenizerNext \/ TokenizerStopped]_tokenizerVars => IInv'
  <2>1. ASSUME IInv, TokenizerNext PROVE IInv'
    BY <2>1, TokenizerTypeStep, RangesStep, LinesStep DEF LinesIInv
  <2>2. ASSUME IInv, UNCHANGED tokenizerVars PROVE IInv'
    BY <2>2 DEF tokenizerVars, LinesIInv, TokenizerTypeOK, PendingRange, PendingLines,
                LinesTaken, RangesWithinInput, Stands
  <2> QED
    BY <2>1, <2>2 DEF TokenizerStopped
<1>3. IInv => LinesTokenizedOnce
  BY LinesOnce
<1> QED
  BY <1>1, <1>2, <1>3, PTL DEF TokenizerSpec

-----------------------------------------------------------------------------
(* The AST builder.                                                        *)

(* The stacks is and st over the nodes ns: what NodeStackRooted and        *)
(* StacksAgree say, and that only conditionals are on ifstack.             *)
Stacks(ns, st, is) ==
  /\ ns \in Seq(Node) /\ st \in Seq(DOMAIN ns) /\ is \in Seq(DOMAIN ns)
  /\ Root \in DOMAIN ns /\ ns[Root].type = "ROOT"
  /\ st # <<>> /\ st[1] = Root
  /\ Increasing(st)
  /\ Increasing(is)
  /\ \A i \in DOMAIN is : ns[is[i]].type \in IfTypes
  /\ \A i \in DOMAIN is : \E j \in DOMAIN st : st[j] = is[i]
  /\ \A j \in DOMAIN st : ns[st[j]].type \in IfTypes => \E i \in DOMAIN is : is[i] = st[j]

(* The links between conditionals: what BranchesLinked and OneAlternative  *)
(* say, and that the branch of a conditional on the stack is the one right *)
(* above it.                                                               *)
Links(ns, is) ==
  /\ ns \in Seq(Node) /\ is \in Seq(DOMAIN ns)
  /\ Increasing(is)
  /\ \A i \in DOMAIN is : ns[is[i]].ifparent # NoNode => i > 1 /\ ns[is[i]].ifparent = is[i - 1]
  /\ \A n \in DOMAIN ns : ns[n].ifparent \in 0 .. Len(ns)
  /\ \A n \in DOMAIN ns, i \in DOMAIN is :
       ns[n].ifparent = is[i] => i < Len(is) /\ is[i + 1] = n
  /\ \A m, n \in DOMAIN ns :
       ns[m].ifparent = ns[n].ifparent /\ ns[m].ifparent # NoNode => m = n

(* ms has the nodes of ns, and maybe others that are no branch.            *)
Grown(ms, ns) ==
  /\ ms \in Seq(Node) /\ Len(ns) <= Len(ms)
  /\ \A n \in DOMAIN ns : ms[n].type = ns[n].type /\ ms[n].ifparent = ns[n].ifparent
  /\ \A n \in DOMAIN ms \ DOMAIN ns : ms[n].ifparent = NoNode

-----------------------------------------------------------------------------
LEMMA NewNodeType ==
  ASSUME NEW type \in NodeTypes, NEW parent \in Nat, NEW ifparent \in Nat,
         NEW range \in LineRange
  PROVE  /\ NewNode(type, parent, ifparent, range) \in Node
         /\ NewNode(type, parent, ifparent, range).type = type
         /\ NewNode(type, parent, ifparent, range).ifparent = ifparent
  BY DEF NewNode, Node

LEMMA SomeNodeTypes ==
  /\ IfTypes \subseteq NodeTypes
  /\ {"ROOT", "FOR", "TARGET", "COMMENT", "INCLUDE", "EXPR", "VARIABLE",
      "COMMAND", "NO_OP_COMMAND"} \subseteq NodeTypes \ IfTypes
  /\ IfTypes = {"IF", "ELSE"}
  BY DEF NodeTypes, Containers, IfTypes

LEMMA GrownByAppend ==
  ASSUME NEW ns \in Seq(Node), NEW node \in Node, node.ifparent = NoNode
  PROVE  Grown(Append(ns, node), ns)
  BY DEF Grown

LEMMA GrownByLineEnd ==
  ASSUME NEW ns \in Seq(Node), NEW n \in DOMAIN ns, NEW range \in LineRange
  PROVE  Grown([ns EXCEPT ![n].line_end = range], ns)
<1> DEFINE ms == [ns EXCEPT ![n].line_end = range]
<1>1. \A k \in DOMAIN ns : ns[k] \in Node
  OBVIOUS
<1>2. [ns[n] EXCEPT !.line_end = range] \in Node
  BY <1>1 DEF Node
<1>3. /\ ms \in Seq(Node) /\ Len(ms) = Len(ns) /\ DOMAIN ms = DOMAIN ns
  BY <1>1, <1>2
<1>4. \A k \in DOMAIN ns : ms[k].type = ns[k].type /\ ms[k].ifparent = ns[k].ifparent
  BY <1>1 DEF Node
<1> QED
  BY <1>3, <1>4 DEF Grown

LEMMA GrownTwice ==
  ASSUME NEW ns \in Seq(Node), NEW ms, NEW ks, Grown(ms, ns), Grown(ks, ms)
  PROVE  Grown(ks, ns)
<1>1. /\ DOMAIN ns = 1 .. Len(ns) /\ DOMAIN ms = 1 .. Len(ms) /\ DOMAIN ks = 1 .. Len(ks)
      /\ Len(ns) \in Nat /\ Len(ms) \in Nat /\ Len(ks) \in Nat
  BY DEF Grown
<1> QED
  BY <1>1 DEF Grown

(* The stacks and the links do not notice that the tree has grown.         *)
LEMMA StacksGrown ==
  ASSUME NEW ns, NEW st, NEW is, NEW ms, Stacks(ns, st, is), Grown(ms, ns)
  PROVE  Stacks(ms, st, is)
<1>1. DOMAIN ns \subseteq DOMAIN ms
  BY DEF Grown, Stacks
<1>2. /\ \A i \in DOMAIN st : st[i] \in DOMAIN ns
      /\ \A i \in DOMAIN is : is[i] \in DOMAIN ns
  BY DEF Stacks
<1>3. st \in Seq(DOMAIN ms) /\ is \in Seq(DOMAIN ms)
  BY <1>1 DEF Stacks
<1> QED
  BY <1>1, <1>2, <1>3 DEF Grown, Stacks

LEMMA LinksGrown ==
  ASSUME NEW ns, NEW is, NEW ms, Links(ns, is), Grown(ms, ns)
  PROVE  Links(ms, is)
<1>1. /\ DOMAIN ns = 1 .. Len(ns) /\ DOMAIN ms = 1 .. Len(ms)
      /\ Len(ns) \in Nat /\ Len(ms) \in Nat
      /\ DOMAIN ns \subseteq DOMAIN ms
  BY DEF Grown, Links
<1>2. \A i \in DOMAIN is : is[i] \in DOMAIN ns /\ is[i] # NoNode
  BY <1>1 DEF Links, NoNode
<1>3. is \in Seq(DOMAIN ms)
  <2>1. is \in Seq(DOMAIN ns)
    BY DEF Links
  <2> QED
    BY <1>1, <2>1, SeqMonotonic
<1>4. \A n \in DOMAIN ms : ms[n].ifparent \in 0 .. Len(ms)
  BY <1>1 DEF Grown, Links, NoNode
<1>5. \A n \in DOMAIN ms : ms[n].ifparent # NoNode =>
        n \in DOMAIN ns /\ ms[n].ifparent = ns[n].ifparent
  BY DEF Grown
<1>6. \A n \in DOMAIN ms, i \in DOMAIN is :
        ms[n].ifparent = is[i] => i < Len(is) /\ is[i + 1] = n
  BY <1>2, <1>5 DEF Links
<1>7. \A m, n \in DOMAIN ms :
        ms[m].ifparent = ms[n].ifparent /\ ms[m].ifparent # NoNode => m = n
  BY <1>5 DEF Links
<1>8. \A i \in DOMAIN is :
        ms[is[i]].ifparent # NoNode => i > 1 /\ ms[is[i]].ifparent = is[i - 1]
  BY <1>2 DEF Grown, Links
<1> QED
  BY <1>3, <1>4, <1>6, <1>7, <1>8 DEF Grown, Links

-----------------------------------------------------------------------------
(* The stacks under the pushes and pops of the builder.                    *)

LEMMA PushedIncreasing ==
  ASSUME NEW st \in Seq(Nat), NEW n \in Nat, Increasing(st),
         \A i \in DOMAIN st : st[i] < n
  PROVE  Increasing(Append(st, n))
  BY DEF Increasing

LEMMA CutIncreasing ==
  ASSUME NEW S, NEW st \in Seq(S), NEW j \in DOMAIN st, Increasing(st)
  PROVE  /\ Below(st, j) \in Seq(S)
         /\ Len(Below(st, j)) = j - 1
         /\ \A i \in 1 .. (j - 1) : Below(st, j)[i] = st[i]
         /\ Increasing(Below(st, j))
  BY DEF Increasing, Below

LEMMA CutTwice ==
  ASSUME NEW S, NEW st \in Seq(S), NEW k \in DOMAIN st, NEW j \in 1 .. (k - 1)
  PROVE  Below(Below(st, k), j) = Below(st, j)
<1> DEFINE cut == Below(st, k)
<1>1. /\ cut \in Seq(S) /\ Len(cut) = k - 1 /\ Len(st) \in Nat
      /\ DOMAIN st = 1 .. Len(st)
      /\ \A i \in 1 .. (k - 1) : cut[i] = st[i]
  BY DEF Below
<1> HIDE DEF cut
<1>2. /\ Below(cut, j) \in Seq(S) /\ Len(Below(cut, j)) = j - 1
      /\ \A i \in 1 .. (j - 1) : Below(cut, j)[i] = cut[i]
  BY <1>1 DEF Below
<1>3. /\ Below(st, j) \in Seq(S) /\ Len(Below(st, j)) = j - 1
      /\ \A i \in 1 .. (j - 1) : Below(st, j)[i] = st[i]
  BY <1>1 DEF Below
<1>4. \A i \in 1 .. (j - 1) : Below(cut, j)[i] = Below(st, j)[i]
  BY <1>1, <1>2, <1>3
<1>5. Below(cut, j) = Below(st, j)
  BY <1>2, <1>3, <1>4, SeqEqual
<1> QED
  BY <1>5 DEF cut

LEMMA PushBlock ==
  ASSUME NEW ns, NEW st, NEW is, Stacks(ns, st, is),
         NEW n \in DOMAIN ns, \A i \in DOMAIN st : st[i] < n, ns[n].type \notin IfTypes
  PROVE  Stacks(ns, Append(st, n), is)
<1> DEFINE new == Append(st, n)
<1>1. /\ st \in Seq(DOMAIN ns) /\ st \in Seq(Nat) /\ n \in Nat
  BY DEF Stacks
<1>2. Increasing(new)
  BY <1>1, PushedIncreasing DEF Stacks
<1>3. /\ new \in Seq(DOMAIN ns) /\ DOMAIN new = 1 .. (Len(st) + 1)
      /\ \A i \in DOMAIN st : i \in DOMAIN new /\ new[i] = st[i]
      /\ new[Len(st) + 1] = n
      /\ \A i \in DOMAIN new : i \in DOMAIN st \/ i = Len(st) + 1
  BY <1>1
<1>4. 1 \in DOMAIN st
  BY DEF Stacks
<1> HIDE DEF new
<1>5. new # <<>> /\ new[1] = Root
  BY <1>3, <1>4 DEF Stacks
<1>6. \A i \in DOMAIN is : \E j \in DOMAIN new : new[j] = is[i]
  BY <1>3 DEF Stacks
<1>7. ASSUME NEW j \in DOMAIN new, ns[new[j]].type \in IfTypes
      PROVE  \E i \in DOMAIN is : is[i] = new[j]
  <2>1. j \in DOMAIN st /\ new[j] = st[j]
    BY <1>3, <1>7
  <2>2. \A k \in DOMAIN st :
          ns[st[k]].type \in IfTypes => \E i \in DOMAIN is : is[i] = st[k]
    BY DEF Stacks
  <2> QED
    BY <1>7, <2>1, <2>2
<1> QED
  BY <1>2, <1>3, <1>5, <1>6, <1>7 DEF Stacks, new

LEMMA PushConditional ==
  ASSUME NEW ns, NEW st, NEW is, Stacks(ns, st, is),
         NEW n \in DOMAIN ns, \A i \in DOMAIN st : st[i] < n, ns[n].type \in IfTypes
  PROVE  Stacks(ns, Append(st, n), Append(is, n))
<1> DEFINE new == Append(st, n)
           ifs == Append(is, n)
<1>1. /\ st \in Seq(DOMAIN ns) /\ st \in Seq(Nat) /\ n \in Nat
      /\ is \in Seq(DOMAIN ns) /\ is \in Seq(Nat)
  BY DEF Stacks
<1>2. Increasing(new)
  BY <1>1, PushedIncreasing DEF Stacks
<1>3. /\ new \in Seq(DOMAIN ns) /\ DOMAIN new = 1 .. (Len(st) + 1)
      /\ \A i \in DOMAIN st : i \in DOMAIN new /\ new[i] = st[i]
      /\ Len(st) + 1 \in DOMAIN new /\ new[Len(st) + 1] = n
      /\ \A i \in DOMAIN new : i \in DOMAIN st \/ i = Len(st) + 1
  BY <1>1
<1>4. 1 \in DOMAIN st
  BY DEF Stacks
<1>5. /\ ifs \in Seq(DOMAIN ns) /\ DOMAIN ifs = 1 .. (Len(is) + 1)
      /\ \A i \in DOMAIN is : i \in DOMAIN ifs /\ ifs[i] = is[i]
      /\ Len(is) + 1 \in DOMAIN ifs /\ ifs[Len(is) + 1] = n
      /\ \A i \in DOMAIN ifs : i \in DOMAIN is \/ i = Len(is) + 1
  BY <1>1
<1>6. \A i \in DOMAIN is : is[i] < n
  BY DEF Stacks
<1>7. Increasing(ifs)
  BY <1>1, <1>6, PushedIncreasing DEF Stacks
<1> HIDE DEF new, ifs
<1>8. new # <<>> /\ new[1] = Root
  BY <1>3, <1>4 DEF Stacks
<1>9. \A i \in DOMAIN ifs : \E j \in DOMAIN new : new[j] = ifs[i]
  <2> TAKE i \in DOMAIN ifs
  <2>1. CASE i \in DOMAIN is
    <3>1. PICK j \in DOMAIN st : st[j] = is[i]
      BY <2>1 DEF Stacks
    <3>2. j \in DOMAIN new /\ new[j] = ifs[i]
      BY <1>3, <1>5, <2>1, <3>1
    <3> QED
      BY <3>2
  <2>2. CASE i = Len(is) + 1
    BY <1>3, <1>5, <2>2
  <2> QED
    BY <1>5, <2>1, <2>2
<1>10. \A j \in DOMAIN new : ns[new[j]].type \in IfTypes => \E i \in DOMAIN ifs : ifs[i] = new[j]
  <2> SUFFICES ASSUME NEW j \in DOMAIN new, ns[new[j]].type \in IfTypes
               PROVE  \E i \in DOMAIN ifs : ifs[i] = new[j]
    OBVIOUS
  <2>1. CASE j \in DOMAIN st
    <3>1. ns[st[j]].type \in IfTypes
      BY <1>3, <2>1
    <3>2. PICK i \in DOMAIN is : is[i] = st[j]
      BY <2>1, <3>1 DEF Stacks
    <3>3. i \in DOMAIN ifs /\ ifs[i] = new[j]
      BY <1>3, <1>5, <2>1, <3>2
    <3> QED
      BY <3>3
  <2>2. CASE j = Len(st) + 1
    BY <1>3, <1>5, <2>2
  <2> QED
    BY <1>3, <2>1, <2>2
<1>11. \A i \in DOMAIN ifs : ns[ifs[i]].type \in IfTypes
  BY <1>5 DEF Stacks
<1> QED
  BY <1>2, <1>3, <1>5, <1>7, <1>8, <1>9, <1>10, <1>11 DEF Stacks, new, ifs

(* A target or a .for on top of nodestack may go.                          *)
LEMMA PopBlock ==
  ASSUME NEW ns, NEW st, NEW is, Stacks(ns, st, is),
         ns[st[Len(st)]].type \in {"FOR", "TARGET"}
  PROVE  /\ Stacks(ns, Below(st, Len(st)), is)
         /\ Len(st) > 1
         /\ Len(Below(st, Len(st))) = Len(st) - 1
         /\ \A i \in 1 .. (Len(st) - 1) : Below(st, Len(st))[i] = st[i]
<1> DEFINE cut == Below(st, Len(st))
<1>1. /\ st \in Seq(DOMAIN ns) /\ Len(st) \in DOMAIN st /\ Len(st) \in Nat
      /\ DOMAIN st = 1 .. Len(st)
  BY DEF Stacks
<1>2. /\ cut \in Seq(DOMAIN ns) /\ Len(cut) = Len(st) - 1
      /\ \A i \in 1 .. (Len(st) - 1) : cut[i] = st[i]
      /\ Increasing(cut)
  <2>1. Increasing(st)
    BY DEF Stacks
  <2> QED
    BY <1>1, <2>1, CutIncreasing
<1>3. Len(st) > 1
  BY <1>1 DEF Stacks
<1>4. ns[st[Len(st)]].type \notin IfTypes
  BY DEF IfTypes
<1> HIDE DEF cut
<1>5. DOMAIN cut = 1 .. (Len(st) - 1)
  BY <1>1, <1>2
<1>6. cut # <<>> /\ cut[1] = Root
  BY <1>1, <1>2, <1>3, <1>5 DEF Stacks
<1>7. \A i \in DOMAIN is : \E j \in DOMAIN cut : cut[j] = is[i]
  <2> TAKE i \in DOMAIN is
  <2>1. PICK j \in DOMAIN st : st[j] = is[i]
    BY DEF Stacks
  <2>2. j # Len(st)
    BY <1>4, <2>1 DEF Stacks
  <2>3. j \in DOMAIN cut /\ cut[j] = is[i]
    BY <1>1, <1>2, <1>5, <2>1, <2>2
  <2> QED
    BY <2>3
<1>8. \A j \in DOMAIN cut : ns[cut[j]].type \in IfTypes => \E i \in DOMAIN is : is[i] = cut[j]
  <2> SUFFICES ASSUME NEW j \in DOMAIN cut, ns[cut[j]].type \in IfTypes
               PROVE  \E i \in DOMAIN is : is[i] = cut[j]
    OBVIOUS
  <2>1. cut[j] = st[j] /\ j \in DOMAIN st
    BY <1>1, <1>2, <1>5
  <2> QED
    BY <2>1 DEF Stacks
<1> QED
  BY <1>2, <1>3, <1>6, <1>7, <1>8 DEF Stacks, cut

(* .endif cuts both stacks at the same conditional.                        *)
LEMMA PopConditional ==
  ASSUME NEW ns, NEW st, NEW is, Stacks(ns, st, is),
         NEW i \in DOMAIN is, NEW j \in DOMAIN st, st[j] = is[i]
  PROVE  Stacks(ns, Below(st, j), Below(is, i))
<1> DEFINE cut == Below(st, j)
           ifs == Below(is, i)
<1>1. /\ st \in Seq(DOMAIN ns) /\ is \in Seq(DOMAIN ns)
      /\ DOMAIN st = 1 .. Len(st) /\ DOMAIN is = 1 .. Len(is)
      /\ Len(st) \in Nat /\ Len(is) \in Nat
      /\ \A k \in DOMAIN st : st[k] \in Nat
      /\ \A k \in DOMAIN is : is[k] \in Nat
  <2>1. ns \in Seq(Node) /\ st \in Seq(DOMAIN ns) /\ is \in Seq(DOMAIN ns)
    BY DEF Stacks
  <2>2. DOMAIN ns \subseteq Nat
    BY <2>1
  <2>3. st \in Seq(Nat) /\ is \in Seq(Nat)
    BY <2>1, <2>2, SeqMonotonic
  <2>4. (\A k \in DOMAIN st : st[k] \in Nat) /\ DOMAIN st = 1 .. Len(st) /\ Len(st) \in Nat
    BY <2>3
  <2>5. (\A k \in DOMAIN is : is[k] \in Nat) /\ DOMAIN is = 1 .. Len(is) /\ Len(is) \in Nat
    BY <2>3
  <2> QED
    BY <2>1, <2>4, <2>5
<1>2. /\ cut \in Seq(DOMAIN ns) /\ Len(cut) = j - 1
      /\ \A k \in 1 .. (j - 1) : cut[k] = st[k]
      /\ Increasing(cut)
  <2>1. Increasing(st)
    BY DEF Stacks
  <2> QED
    BY <1>1, <2>1, CutIncreasing
<1>3. /\ ifs \in Seq(DOMAIN ns) /\ Len(ifs) = i - 1
      /\ \A k \in 1 .. (i - 1) : ifs[k] = is[k]
      /\ Increasing(ifs)
  <2>1. Increasing(is)
    BY DEF Stacks
  <2> QED
    BY <1>1, <2>1, CutIncreasing
<1>4. j > 1
  BY <1>1 DEF Stacks, IfTypes
<1> HIDE DEF cut, ifs
<1>5. /\ DOMAIN cut = 1 .. (j - 1) /\ DOMAIN ifs = 1 .. (i - 1)
      /\ \A k \in DOMAIN cut : k \in DOMAIN st
      /\ \A k \in DOMAIN ifs : k \in DOMAIN is
  BY <1>1, <1>2, <1>3
<1>6. cut # <<>> /\ cut[1] = Root
  BY <1>1, <1>2, <1>4, <1>5 DEF Stacks
<1>7. \A k \in DOMAIN ifs : \E l \in DOMAIN cut : cut[l] = ifs[k]
  <2> TAKE k \in DOMAIN ifs
  <2>1. PICK l \in DOMAIN st : st[l] = is[k]
    BY <1>5 DEF Stacks
  <2>2. is[k] < is[i]
    BY <1>1, <1>5 DEF Stacks, Increasing
  <2>3. ~(j < l) /\ l # j
    <3>1. j < l => st[j] < st[l]
      BY DEF Stacks, Increasing
    <3> QED
      BY <1>1, <1>5, <2>1, <2>2, <3>1
  <2>4. l \in DOMAIN cut /\ cut[l] = ifs[k]
    BY <1>1, <1>2, <1>3, <1>5, <2>1, <2>3
  <2> QED
    BY <2>4
<1>8. \A l \in DOMAIN cut : ns[cut[l]].type \in IfTypes => \E k \in DOMAIN ifs : ifs[k] = cut[l]
  <2> SUFFICES ASSUME NEW l \in DOMAIN cut, ns[cut[l]].type \in IfTypes
               PROVE  \E k \in DOMAIN ifs : ifs[k] = cut[l]
    OBVIOUS
  <2>1. cut[l] = st[l] /\ l \in DOMAIN st /\ l < j
    BY <1>1, <1>2, <1>5
  <2>2. PICK k \in DOMAIN is : is[k] = st[l]
    BY <2>1 DEF Stacks
  <2>3. st[l] < st[j]
    BY <2>1 DEF Stacks, Increasing
  <2>4. ~(i < k) /\ k # i
    <3>1. i < k => is[i] < is[k]
      BY DEF Stacks, Increasing
    <3> QED
      BY <1>1, <2>1, <2>2, <2>3, <3>1
  <2>5. k \in DOMAIN ifs /\ ifs[k] = cut[l]
    BY <1>1, <1>3, <1>5, <2>1, <2>2, <2>4
  <2> QED
    BY <2>5
<1>9. \A k \in DOMAIN ifs : ns[ifs[k]].type \in IfTypes
  BY <1>1, <1>3, <1>5 DEF Stacks
<1> QED
  BY <1>2, <1>3, <1>6, <1>7, <1>8, <1>9 DEF Stacks, cut, ifs

-----------------------------------------------------------------------------
(* The links under the pushes and pops of ifstack.                         *)

(* A new conditional is no branch, or the branch of the one on top.        *)
LEMMA LinkBranch ==
  ASSUME NEW ns, NEW is, Links(ns, is), NEW node \in Node,
         \/ node.ifparent = NoNode
         \/ is # <<>> /\ node.ifparent = Peek(is)
  PROVE  Links(Append(ns, node), Append(is, Len(ns) + 1))
<1> DEFINE ms == Append(ns, node)
           new == Len(ns) + 1
           ifs == Append(is, new)
<1>1. /\ ns \in Seq(Node) /\ is \in Seq(DOMAIN ns)
      /\ Len(ns) \in Nat /\ DOMAIN ns = 1 .. Len(ns)
      /\ Len(is) \in Nat /\ DOMAIN is = 1 .. Len(is)
      /\ \A i \in DOMAIN is : is[i] \in DOMAIN ns /\ is[i] # new
  BY DEF Links
<1>2. /\ ms \in Seq(Node) /\ Len(ms) = new /\ DOMAIN ms = 1 .. new
      /\ \A n \in DOMAIN ns : n \in DOMAIN ms /\ ms[n] = ns[n]
      /\ new \in DOMAIN ms /\ ms[new] = node
      /\ \A n \in DOMAIN ms : n \in DOMAIN ns \/ n = new
  <2>1. ms \in Seq(Node) /\ Len(ms) = new /\ DOMAIN ms = 1 .. new
    BY <1>1
  <2>2. ms[new] = node /\ \A n \in DOMAIN ns : ms[n] = ns[n]
    BY <1>1
  <2> HIDE DEF ms
  <2> QED
    BY <1>1, <2>1, <2>2
<1>3. /\ ifs \in Seq(DOMAIN ms) /\ Len(ifs) = Len(is) + 1
      /\ DOMAIN ifs = 1 .. (Len(is) + 1)
      /\ \A i \in DOMAIN is : i \in DOMAIN ifs /\ ifs[i] = is[i]
      /\ ifs[Len(is) + 1] = new
      /\ \A i \in DOMAIN ifs : i \in DOMAIN is \/ i = Len(is) + 1
  BY <1>1, <1>2
<1>4. Increasing(ifs)
  <2>1. is \in Seq(Nat) /\ new \in Nat /\ \A i \in DOMAIN is : is[i] < new
    BY <1>1
  <2> HIDE DEF new
  <2> QED
    BY <2>1, PushedIncreasing DEF Links
<1>5. \/ node.ifparent = NoNode
      \/ Len(is) \in DOMAIN is /\ node.ifparent = is[Len(is)]
  BY <1>1 DEF Peek
<1>6. NoNode \notin DOMAIN ns /\ NoNode # new /\ new \notin DOMAIN ns /\ new \in Nat
  BY <1>1 DEF NoNode
<1> HIDE DEF ms, ifs, new
<1>7. \A i \in DOMAIN ifs :
        ms[ifs[i]].ifparent # NoNode => i > 1 /\ ms[ifs[i]].ifparent = ifs[i - 1]
  <2> SUFFICES ASSUME NEW i \in DOMAIN ifs, ms[ifs[i]].ifparent # NoNode
               PROVE  i > 1 /\ ms[ifs[i]].ifparent = ifs[i - 1]
    OBVIOUS
  <2>1. CASE i \in DOMAIN is
    <3>1. ms[ifs[i]] = ns[is[i]]
      BY <1>1, <1>2, <1>3, <2>1
    <3>2. i > 1 /\ ns[is[i]].ifparent = is[i - 1]
      BY <2>1, <3>1 DEF Links
    <3>3. i - 1 \in DOMAIN is
      BY <1>1, <2>1, <3>2
    <3> QED
      BY <1>3, <3>1, <3>2, <3>3
  <2>2. CASE i = Len(is) + 1
    <3>1. Len(is) \in DOMAIN is /\ node.ifparent = is[Len(is)]
      BY <1>2, <1>3, <1>5, <2>2
    <3>2. ms[ifs[i]] = node
      BY <1>2, <1>3, <2>2
    <3>3. i - 1 = Len(is) /\ i > 1 /\ ifs[i - 1] = is[Len(is)]
      BY <1>1, <1>3, <2>2, <3>1
    <3> QED
      BY <3>1, <3>2, <3>3
  <2> QED
    BY <1>3, <2>1, <2>2
<1>8. \A n \in DOMAIN ms : ms[n].ifparent \in 0 .. Len(ms)
  <2>1. \A n \in DOMAIN ns : ms[n].ifparent \in 0 .. Len(ns)
    BY <1>2 DEF Links
  <2>2. node.ifparent \in 0 .. Len(ns)
    BY <1>1, <1>5 DEF NoNode
  <2>3. Len(ms) = Len(ns) + 1
    BY <1>2 DEF new
  <2> QED
    BY <1>1, <1>2, <2>1, <2>2, <2>3
<1>9. \A n \in DOMAIN ms, i \in DOMAIN ifs :
        ms[n].ifparent = ifs[i] => i < Len(ifs) /\ ifs[i + 1] = n
  <2> SUFFICES ASSUME NEW n \in DOMAIN ms, NEW i \in DOMAIN ifs, ms[n].ifparent = ifs[i]
               PROVE  i < Len(ifs) /\ ifs[i + 1] = n
    OBVIOUS
  <2>1. i \in DOMAIN is
    <3>1. SUFFICES ASSUME ms[n].ifparent = new PROVE FALSE
      BY <1>3
    <3>2. CASE n \in DOMAIN ns
      <4>1. ns[n].ifparent = new /\ ns[n].ifparent \in 0 .. Len(ns)
        BY <1>2, <3>1, <3>2 DEF Links
      <4> QED
        BY <1>1, <4>1 DEF new
    <3>3. CASE n = new
      BY <1>1, <1>2, <1>5, <1>6, <3>1, <3>3
    <3> QED
      BY <1>2, <3>2, <3>3
  <2>2. CASE n \in DOMAIN ns
    <3>1. i < Len(is) /\ is[i + 1] = n
      <4>1. ns[n].ifparent = is[i]
        BY <1>2, <1>3, <2>1, <2>2
      <4> QED
        BY <2>1, <2>2, <4>1 DEF Links
    <3>2. i + 1 \in DOMAIN is
      BY <1>1, <2>1, <3>1
    <3> QED
      BY <1>1, <1>3, <2>1, <3>1, <3>2
  <2>3. CASE n = new
    <3>1. is[Len(is)] = is[i] /\ Len(is) \in DOMAIN is
      BY <1>1, <1>2, <1>3, <1>5, <1>6, <2>1, <2>3
    <3>2. i = Len(is)
      <4>1. is[i] \in Nat /\ ~(is[i] < is[Len(is)])
        BY <1>1, <2>1, <3>1
      <4>2. i < Len(is) => is[i] < is[Len(is)]
        BY <2>1, <3>1 DEF Links, Increasing
      <4> QED
        BY <1>1, <2>1, <4>1, <4>2
    <3> QED
      BY <1>1, <1>3, <2>3, <3>2
  <2> QED
    BY <1>2, <2>2, <2>3
<1>10. \A m, n \in DOMAIN ms :
         ms[m].ifparent = ms[n].ifparent /\ ms[m].ifparent # NoNode => m = n
  <2>1. \A n \in DOMAIN ns : ~(ns[n].ifparent = node.ifparent /\ node.ifparent # NoNode)
    <3> SUFFICES ASSUME NEW n \in DOMAIN ns, ns[n].ifparent = node.ifparent,
                        node.ifparent # NoNode
                 PROVE  FALSE
      OBVIOUS
    <3>1. Len(is) \in DOMAIN is /\ ns[n].ifparent = is[Len(is)]
      BY <1>5
    <3>2. Len(is) < Len(is)
      BY <3>1 DEF Links
    <3> QED
      BY <1>1, <3>2
  <2>2. \A m, n \in DOMAIN ns :
          ns[m].ifparent = ns[n].ifparent /\ ns[m].ifparent # NoNode => m = n
    BY DEF Links
  <2> QED
    BY <1>2, <2>1, <2>2
<1> QED
  BY <1>2, <1>3, <1>4, <1>7, <1>8, <1>9, <1>10 DEF Links, ms, ifs, new

(* The conditional .endif stops at is no branch, so what is below it has   *)
(* no branch on the stack that is popped.                                  *)
LEMMA UnlinkConditional ==
  ASSUME NEW ns, NEW is, Links(ns, is), NEW i \in DOMAIN is,
         ns[is[i]].ifparent = NoNode
  PROVE  Links(ns, Below(is, i))
<1> DEFINE ifs == Below(is, i)
<1>1. /\ is \in Seq(DOMAIN ns) /\ Len(is) \in Nat /\ DOMAIN is = 1 .. Len(is)
      /\ ns \in Seq(Node) /\ DOMAIN ns = 1 .. Len(ns) /\ Len(ns) \in Nat
      /\ \A k \in DOMAIN is : is[k] \in DOMAIN ns /\ is[k] # NoNode
  BY DEF Links, NoNode
<1>2. /\ ifs \in Seq(DOMAIN ns) /\ Len(ifs) = i - 1
      /\ \A k \in 1 .. (i - 1) : ifs[k] = is[k]
      /\ Increasing(ifs)
  <2>1. Increasing(is)
    BY DEF Links
  <2> QED
    BY <1>1, <2>1, CutIncreasing
<1> HIDE DEF ifs
<1>3. /\ DOMAIN ifs = 1 .. (i - 1)
      /\ \A k \in DOMAIN ifs : k \in DOMAIN is /\ ifs[k] = is[k] /\ k < i
  BY <1>1, <1>2
<1>4. \A k \in DOMAIN ifs :
        ns[ifs[k]].ifparent # NoNode => k > 1 /\ ns[ifs[k]].ifparent = ifs[k - 1]
  <2> SUFFICES ASSUME NEW k \in DOMAIN ifs, ns[ifs[k]].ifparent # NoNode
               PROVE  k > 1 /\ ns[ifs[k]].ifparent = ifs[k - 1]
    OBVIOUS
  <2>1. k > 1 /\ ns[ifs[k]].ifparent = is[k - 1]
    BY <1>3 DEF Links
  <2>2. k - 1 \in DOMAIN ifs
    BY <1>1, <1>3, <2>1
  <2> QED
    BY <1>3, <2>1, <2>2
<1>5. \A n \in DOMAIN ns, k \in DOMAIN ifs :
        ns[n].ifparent = ifs[k] => k < Len(ifs) /\ ifs[k + 1] = n
  <2> SUFFICES ASSUME NEW n \in DOMAIN ns, NEW k \in DOMAIN ifs, ns[n].ifparent = ifs[k]
               PROVE  k < Len(ifs) /\ ifs[k + 1] = n
    OBVIOUS
  <2>1. is[k + 1] = n
    BY <1>3 DEF Links
  <2>2. ns[n].ifparent # NoNode
    BY <1>1, <1>3
  <2>3. k + 1 # i
    BY <2>1, <2>2
  <2>4. k + 1 \in DOMAIN ifs
    BY <1>1, <1>3, <2>3
  <2> QED
    BY <1>1, <1>2, <1>3, <2>1, <2>4
<1> QED
  BY <1>1, <1>2, <1>4, <1>5 DEF Links, ifs

-----------------------------------------------------------------------------
(* The inductive invariant.                                                *)
StacksSound == error = "ok" /\ ~built => Stacks(nodes, nodestack, ifstack)

IInv == TypeOK /\ StacksSound /\ Links(nodes, ifstack)

LEMMA FlushedGrown ==
  ASSUME TypeOK, nodestack # <<>>
  PROVE  Flushed \in Seq(Node) /\ Grown(Flushed, nodes)
<1>1. nodes \in Seq(Node) /\ comments \in Seq(LineRange)
  BY DEF TypeOK
<1>2. CASE comments = <<>>
  BY <1>1, <1>2 DEF Flushed, Grown
<1>3. CASE comments # <<>>
  <2> DEFINE range == comments[1]
             first == NewNode("COMMENT", Peek(nodestack), NoNode, range)
             node == CommentNode(Peek(nodestack))
  <2>1. range \in LineRange /\ comments[Len(comments)] \in LineRange
    BY <1>1, <1>3
  <2>2. Peek(nodestack) \in Nat /\ NoNode \in Nat
    BY <1>1 DEF TypeOK, Peek, NoNode
  <2>3. node \in Node /\ node.ifparent = NoNode
    <3> HIDE DEF range
    <3> HIDE DEF node
    <3>1. first \in Node /\ first.ifparent = NoNode
      <4>1. range \in LineRange
        BY <2>1
      <4> QED
        BY <4>1, <2>2, SomeNodeTypes, NewNodeType
    <3> USE DEF range, node
    <3>2. node = [first EXCEPT !.line_start.b = comments[Len(comments)].b]
      BY DEF CommentNode, Peek
    <3> HIDE DEF first, node
    <3> QED
      BY <2>1, <3>1, <3>2 DEF Node, LineRange
  <2>4. Flushed = Append(nodes, node)
    BY <1>3 DEF Flushed
  <2> HIDE DEF node
  <2> QED
    BY <1>1, <2>3, <2>4, GrownByAppend
<1> QED
  BY <1>2, <1>3

(* What every step that takes a token may use.                             *)
LEMMA TokenTaken ==
  ASSUME IInv, NEW type, Token1(type)
  PROVE  /\ Stacks(nodes, nodestack, ifstack)
         /\ Here \in LineRange
         /\ Flushed \in Seq(Node) /\ Grown(Flushed, nodes)
         /\ Stacks(Flushed, nodestack, ifstack) /\ Links(Flushed, ifstack)
         /\ \A i \in DOMAIN nodestack : nodestack[i] \in 1 .. Len(Flushed)
         /\ nodestack # <<>> /\ Peek(nodestack) \in Nat
<1>1. Stacks(nodes, nodestack, ifstack) /\ nodestack # <<>>
  BY DEF IInv, StacksSound, Token1, Building
<1>2. Here \in LineRange
  <2>1. tokens \in Seq(Token) /\ pos \in DOMAIN tokens
    BY DEF IInv, TypeOK, TokenizerTypeOK, Token1
  <2>2. tokens[pos] \in Token
    BY <2>1
  <2> QED
    BY <2>2 DEF Here, Token
<1>3. Flushed \in Seq(Node) /\ Grown(Flushed, nodes)
  BY <1>1, FlushedGrown DEF IInv
<1>4. Stacks(Flushed, nodestack, ifstack)
  BY <1>1, <1>3, StacksGrown
<1>5. Links(Flushed, ifstack)
  BY <1>3, LinksGrown DEF IInv
<1>6. \A i \in DOMAIN nodestack : nodestack[i] \in 1 .. Len(Flushed)
  BY <1>3, <1>4 DEF Stacks
<1>7. Len(nodestack) \in DOMAIN nodestack
  BY <1>1 DEF Stacks
<1>8. Peek(nodestack) \in Nat
  BY <1>3, <1>6, <1>7 DEF Peek
<1> QED
  BY <1>1, <1>2, <1>3, <1>4, <1>5, <1>6, <1>8

(* The token such a step takes, and that the builder goes on from there.   *)
LEMMA TokenHere ==
  ASSUME IInv, NEW type, Token1(type)
  PROVE  /\ finished' /\ ~built' /\ error = "ok" /\ ~built
         /\ pos' = pos + 1 /\ tokens' = tokens /\ pos \in Nat
         /\ tokens \in Seq(Token) /\ DOMAIN tokens \subseteq Nat /\ pos \in DOMAIN tokens
         /\ tokens[pos].type = type /\ tokens[pos].lines = Here
<1>1. tokens \in Seq(Token)
  BY DEF IInv, TypeOK, TokenizerTypeOK
<1>2. DOMAIN tokens \subseteq Nat
  BY <1>1
<1>3. pos \in DOMAIN tokens /\ tokens[pos].type = type /\ pos' = pos + 1 /\ tokens' = tokens
  BY DEF Token1
<1>4. finished' /\ ~built' /\ error = "ok" /\ ~built
  BY DEF Token1, Building
<1> QED
  BY <1>1, <1>2, <1>3, <1>4 DEF Here

(* A step that takes a token and leaves the stacks and the links sound.    *)
LEMMA TokenDone ==
  ASSUME IInv, NEW type, Token1(type), error' \in Errors,
         Stacks(nodes', nodestack', ifstack'), Links(nodes', ifstack')
  PROVE  IInv'
<1>1. TokenizerTypeOK'
  BY DEF IInv, TypeOK, TokenizerTypeOK, Token1
<1>2. nodes' \in Seq(Node) /\ nodestack' \in Seq(DOMAIN nodes') /\ ifstack' \in Seq(DOMAIN nodes')
  BY DEF Stacks
<1>3. comments' \in Seq(LineRange)
  <2>1. comments \in Seq(LineRange) /\ <<>> \in Seq(LineRange)
    BY DEF IInv, TypeOK
  <2>2. tokens[pos].lines \in LineRange
    BY TokenTaken DEF Here
  <2> QED
    BY <2>1, <2>2 DEF Token1
<1>4. pos' \in 1 .. (Len(tokens') + 1) /\ built' \in BOOLEAN
  BY DEF IInv, TypeOK, TokenizerTypeOK, Token1
<1> QED
  BY <1>1, <1>2, <1>3, <1>4 DEF IInv, TypeOK, StacksSound

LEMMA TokenFailed ==
  ASSUME IInv, NEW type, Token1(type), Fail
  PROVE  IInv'
<1>1. Stacks(nodes', nodestack', ifstack') /\ Links(nodes', ifstack') /\ error' \in Errors
  BY TokenTaken DEF Fail, IInv, Errors
<1> QED
  BY <1>1, TokenDone

LEMMA OldNodesOrder ==
  ASSUME NEW ns \in Seq(Node), NEW st, \A i \in DOMAIN st : st[i] \in 1 .. Len(ns),
         NEW node \in Node
  PROVE  /\ Append(ns, node) \in Seq(Node)
         /\ Next1(ns) \in DOMAIN Append(ns, node)
         /\ Append(ns, node)[Next1(ns)] = node
         /\ \A i \in DOMAIN st : st[i] < Next1(ns)
  BY DEF Next1

(* A node that is appended and not pushed.                                 *)
LEMMA LeafStep ==
  ASSUME IInv, NEW tokentype, NEW nodetype \in NodeTypes, Leaf(tokentype, nodetype)
  PROVE  IInv'
<1> DEFINE node == NewNode(nodetype, Peek(nodestack), NoNode, Here)
<1>1. Token1(tokentype) /\ nodes' = Append(Flushed, node) /\ UNCHANGED <<error, nodestack, ifstack>>
  BY DEF Leaf
<1>2. node \in Node /\ node.ifparent = NoNode
  BY <1>1, TokenTaken, NewNodeType DEF NoNode
<1> HIDE DEF node
<1>3. Grown(nodes', Flushed)
  BY <1>1, <1>2, TokenTaken, GrownByAppend
<1>4. Stacks(nodes', nodestack, ifstack) /\ Links(nodes', ifstack)
  BY <1>1, <1>3, TokenTaken, StacksGrown, LinksGrown
<1> QED
  BY <1>1, <1>4, TokenDone DEF IInv, TypeOK, TokenizerTypeOK

(* A conditional that is appended and pushed on both stacks.               *)
LEMMA PushIfStep ==
  ASSUME IInv, NEW tokentype, Token1(tokentype), NEW type \in IfTypes,
         NEW parent \in Nat, NEW ifparent \in Nat, PushIf(type, parent, ifparent),
         \/ ifparent = NoNode
         \/ ifstack # <<>> /\ ifparent = Peek(ifstack)
  PROVE  IInv'
<1> DEFINE node == NewNode(type, parent, ifparent, Here)
           n == Next1(Flushed)
<1>1. /\ nodes' = Append(Flushed, node)
      /\ nodestack' = Append(nodestack, n)
      /\ ifstack' = Append(ifstack, n)
      /\ UNCHANGED error
  BY DEF PushIf
<1>2. node \in Node /\ node.ifparent = ifparent /\ node.type \in IfTypes
  <2>1. Here \in LineRange
    BY TokenTaken
  <2>2. type \in NodeTypes
    BY SomeNodeTypes
  <2> QED
    BY <2>1, <2>2, NewNodeType
<1>3. Links(nodes', ifstack')
  BY <1>1, <1>2, TokenTaken, LinkBranch DEF Next1
<1>4. /\ nodes' \in Seq(Node) /\ n \in DOMAIN nodes' /\ nodes'[n] = node
      /\ \A i \in DOMAIN nodestack : nodestack[i] < n
  <2> HIDE DEF node
  <2> QED
    BY <1>1, <1>2, TokenTaken, OldNodesOrder
<1>5. Stacks(nodes', nodestack, ifstack)
  <2> HIDE DEF node
  <2>1. Flushed \in Seq(Node) /\ Stacks(Flushed, nodestack, ifstack)
    BY TokenTaken
  <2>2. /\ DOMAIN Flushed \subseteq DOMAIN nodes'
        /\ \A k \in DOMAIN Flushed : nodes'[k] = Flushed[k]
    BY <1>1, <1>2, <2>1
  <2>3. /\ \A k \in DOMAIN nodestack : nodestack[k] \in DOMAIN Flushed
        /\ \A k \in DOMAIN ifstack : ifstack[k] \in DOMAIN Flushed
        /\ nodestack \in Seq(DOMAIN nodes') /\ ifstack \in Seq(DOMAIN nodes')
    BY <2>1, <2>2 DEF Stacks
  <2> QED
    BY <1>4, <2>1, <2>2, <2>3 DEF Stacks
<1>6. Stacks(nodes', nodestack', ifstack')
  <2> HIDE DEF n, node
  <2> QED
    BY <1>1, <1>2, <1>4, <1>5, PushConditional
<1> QED
  BY <1>1, <1>3, <1>6, TokenDone DEF IInv, TypeOK, TokenizerTypeOK

(* A block that is appended and pushed on nodestack.                       *)
LEMMA PushBlockStep ==
  ASSUME IInv, NEW tokentype, Token1(tokentype), NEW type \in {"FOR", "TARGET"},
         NEW stack, Stacks(Flushed, stack, ifstack),
         \A i \in DOMAIN stack : stack[i] \in 1 .. Len(Flushed),
         nodes' = Append(Flushed, NewNode(type, Peek(stack), NoNode, Here)),
         nodestack' = Append(stack, Next1(Flushed)),
         UNCHANGED <<error, ifstack>>
  PROVE  IInv'
<1> DEFINE node == NewNode(type, Peek(stack), NoNode, Here)
           n == Next1(Flushed)
<1>1. nodes' = Append(Flushed, node) /\ nodestack' = Append(stack, n)
  OBVIOUS
<1>2. Peek(stack) \in Nat
  <2>1. Len(stack) \in DOMAIN stack
    BY DEF Stacks
  <2> QED
    BY <2>1, TokenTaken DEF Peek
<1>3. node \in Node /\ node.ifparent = NoNode /\ node.type = type
  <2>1. type \in NodeTypes /\ Here \in LineRange /\ NoNode \in Nat
    BY TokenTaken, SomeNodeTypes DEF NoNode
  <2> QED
    BY <1>2, <2>1, NewNodeType
<1> HIDE DEF node
<1>4. /\ nodes' \in Seq(Node) /\ n \in DOMAIN nodes' /\ nodes'[n] = node
      /\ \A i \in DOMAIN stack : stack[i] < n
  BY <1>1, <1>3, TokenTaken, OldNodesOrder
<1>5. Grown(nodes', Flushed)
  BY <1>1, <1>3, TokenTaken, GrownByAppend
<1>6. Stacks(nodes', stack, ifstack) /\ Links(nodes', ifstack)
  BY <1>5, TokenTaken, StacksGrown, LinksGrown
<1>7. nodes'[n].type \notin IfTypes
  BY <1>3, <1>4, SomeNodeTypes
<1> HIDE DEF n
<1>8. Stacks(nodes', nodestack', ifstack')
  BY <1>1, <1>4, <1>6, <1>7, PushBlock
<1> QED
  BY <1>6, <1>8, TokenDone DEF IInv, TypeOK, TokenizerTypeOK

(* nodestack without the target that may be on top.                        *)
LEMMA WithoutTargetSound ==
  ASSUME IInv, NEW type, Token1(type)
  PROVE  /\ Stacks(Flushed, WithoutTarget, ifstack)
         /\ \A i \in DOMAIN WithoutTarget : WithoutTarget[i] \in 1 .. Len(Flushed)
<1>1. Stacks(Flushed, WithoutTarget, ifstack)
  <2>1. CASE nodes[Peek(nodestack)].type = "TARGET"
    <3>1. Len(nodestack) \in DOMAIN nodestack /\ nodestack[Len(nodestack)] \in DOMAIN nodes
      BY TokenTaken DEF Stacks
    <3>2. Flushed[nodestack[Len(nodestack)]].type = "TARGET"
      BY <2>1, <3>1, TokenTaken DEF Peek, Grown
    <3>3. WithoutTarget = Below(nodestack, Len(nodestack))
      BY <2>1 DEF WithoutTarget
    <3> QED
      BY <3>2, <3>3, TokenTaken, PopBlock
  <2>2. CASE nodes[Peek(nodestack)].type # "TARGET"
    BY <2>2, TokenTaken DEF WithoutTarget
  <2> QED
    BY <2>1, <2>2
<1>2. WithoutTarget \in Seq(DOMAIN Flushed) /\ DOMAIN Flushed = 1 .. Len(Flushed)
  BY <1>1, TokenTaken DEF Stacks
<1>3. \A i \in DOMAIN WithoutTarget : WithoutTarget[i] \in 1 .. Len(Flushed)
  BY <1>2
<1> QED
  BY <1>1, <1>3

LEMMA EndforStep ==
  ASSUME IInv, Endfor
  PROVE  IInv'
<1> DEFINE depth == IF nodes[Peek(nodestack)].type = "TARGET"
                    THEN Len(nodestack) - 1 ELSE Len(nodestack)
           node == nodestack[depth]
<1>1. Token1("endfor")
  BY DEF Endfor
<1>2. CASE nodes[node].type # "FOR"
  BY <1>1, <1>2, TokenFailed DEF Endfor
<1>3. CASE nodes[node].type = "FOR"
  <2>1. /\ nodes' = [Flushed EXCEPT ![node].line_end = Here]
        /\ nodestack' = Below(nodestack, depth)
        /\ UNCHANGED <<error, ifstack>>
    BY <1>3 DEF Endfor
  <2>2. Stacks(Flushed, WithoutTarget, ifstack)
    BY <1>1, WithoutTargetSound
  <2>3. /\ nodestack \in Seq(DOMAIN nodes) /\ DOMAIN nodestack = 1 .. Len(nodestack)
        /\ Len(nodestack) \in Nat /\ nodestack # <<>>
    BY <1>1, TokenTaken DEF Stacks
  <2>4. /\ Len(WithoutTarget) = depth
        /\ WithoutTarget[depth] = node
        /\ Below(WithoutTarget, depth) = Below(nodestack, depth)
        /\ depth \in DOMAIN nodestack
    <3>1. CASE nodes[Peek(nodestack)].type = "TARGET"
      <4>1. /\ Len(nodestack) > 1
            /\ Len(Below(nodestack, Len(nodestack))) = Len(nodestack) - 1
            /\ \A i \in 1 .. (Len(nodestack) - 1) :
                 Below(nodestack, Len(nodestack))[i] = nodestack[i]
        BY <1>1, <3>1, TokenTaken, PopBlock DEF Peek
      <4>2. depth = Len(nodestack) - 1 /\ WithoutTarget = Below(nodestack, Len(nodestack))
        BY <3>1 DEF WithoutTarget
      <4> HIDE DEF depth
      <4>3. depth \in 1 .. (Len(nodestack) - 1) /\ Len(nodestack) \in DOMAIN nodestack
        <5>1. Len(nodestack) > 1 /\ Len(nodestack) \in Nat /\ depth = Len(nodestack) - 1
          BY <2>3, <4>1, <4>2
        <5> QED
          BY <2>3, <5>1
      <4>4. Below(WithoutTarget, depth) = Below(nodestack, depth)
        BY <2>3, <4>2, <4>3, CutTwice
      <4>5. Len(WithoutTarget) = depth /\ WithoutTarget[depth] = nodestack[depth]
        BY <4>1, <4>2, <4>3
      <4> QED
        BY <2>3, <4>3, <4>4, <4>5
    <3>2. CASE nodes[Peek(nodestack)].type # "TARGET"
      BY <2>3, <3>2 DEF WithoutTarget
    <3> QED
      BY <3>1, <3>2
  <2>5. node \in DOMAIN Flushed /\ Flushed[node].type = "FOR"
    <3> HIDE DEF depth
    <3>1. node \in DOMAIN nodes
      BY <2>3, <2>4
    <3>2. DOMAIN nodes \subseteq DOMAIN Flushed
      BY <1>1, TokenTaken DEF Grown, Stacks
    <3> HIDE DEF node
    <3> QED
      BY <1>1, <1>3, <3>1, <3>2, TokenTaken DEF Grown
  <2>6. Stacks(Flushed, nodestack', ifstack)
    <3> HIDE DEF depth, node
    <3> QED
      BY <2>1, <2>2, <2>4, <2>5, PopBlock
  <2>7. Grown(nodes', Flushed)
    <3> HIDE DEF node
    <3> QED
      BY <1>1, <2>1, <2>5, TokenTaken, GrownByLineEnd
  <2>8. Stacks(nodes', nodestack', ifstack') /\ Links(nodes', ifstack')
    BY <1>1, <2>1, <2>6, <2>7, TokenTaken, StacksGrown, LinksGrown
  <2> QED
    BY <1>1, <2>1, <2>8, TokenDone DEF IInv, TypeOK, TokenizerTypeOK
<1> QED
  BY <1>2, <1>3

LEMMA EndifStep ==
  ASSUME IInv, Endif
  PROVE  IInv'
<1>1. Token1("endif")
  BY DEF Endif
<1>2. CASE ifstack = <<>> /\ Fail
  BY <1>1, <1>2, TokenFailed
<1>3. ASSUME NEW i \in DOMAIN ifstack, NEW j \in DOMAIN nodestack,
             nodes[ifstack[i]].ifparent = NoNode,
             nodestack[j] = ifstack[i],
             nodes' = [Flushed EXCEPT ![ifstack[i]].line_end = Here],
             ifstack' = Below(ifstack, i),
             nodestack' = Below(nodestack, j),
             UNCHANGED error
      PROVE  IInv'
  <2>1. ifstack[i] \in DOMAIN nodes
    BY <1>1, TokenTaken DEF Stacks
  <2>2. ifstack[i] \in DOMAIN Flushed /\ Flushed[ifstack[i]].ifparent = NoNode
    <3>1. ifstack \in Seq(DOMAIN Flushed)
      BY <1>1, TokenTaken DEF Stacks
    <3> QED
      BY <1>1, <1>3, <2>1, <3>1, TokenTaken DEF Grown
  <2>3. Stacks(Flushed, nodestack', ifstack')
    BY <1>1, <1>3, TokenTaken, PopConditional
  <2>4. Links(Flushed, ifstack')
    BY <1>1, <1>3, <2>2, TokenTaken, UnlinkConditional
  <2>5. Grown(nodes', Flushed)
    BY <1>1, <1>3, <2>2, TokenTaken, GrownByLineEnd
  <2>6. Stacks(nodes', nodestack', ifstack') /\ Links(nodes', ifstack')
    BY <2>3, <2>4, <2>5, StacksGrown, LinksGrown
  <2> QED
    BY <1>1, <1>3, <2>6, TokenDone DEF IInv, TypeOK, TokenizerTypeOK
<1> QED
  BY <1>2, <1>3 DEF Endif, InnermostIf

LEMMA BranchStep ==
  ASSUME IInv, NEW tokentype, NEW nodetype \in IfTypes, Branch(tokentype, nodetype)
  PROVE  IInv'
<1>1. Token1(tokentype)
  BY DEF Branch
<1>2. Peek(nodestack) \in Nat /\ NoNode \in Nat
  BY <1>1, TokenTaken DEF NoNode
<1>3. CASE ifstack = <<>>
  <2>1. PushIf(nodetype, Peek(nodestack), NoNode)
    BY <1>3 DEF Branch
  <2> QED
    BY <1>1, <1>2, <2>1, PushIfStep
<1>4. CASE ifstack # <<>>
  <2>1. PushIf(nodetype, Peek(ifstack), Peek(ifstack))
    BY <1>4 DEF Branch
  <2>2. Peek(ifstack) \in Nat
    <3>1. ifstack \in Seq(DOMAIN nodes) /\ DOMAIN nodes \subseteq Nat
      BY <1>1, TokenTaken DEF Stacks
    <3>2. Len(ifstack) \in DOMAIN ifstack
      BY <1>4, <3>1
    <3> QED
      BY <3>1, <3>2 DEF Peek
  <2> QED
    BY <1>1, <1>4, <2>1, <2>2, PushIfStep
<1> QED
  BY <1>3, <1>4

LEMMA CommandStep ==
  ASSUME IInv, NEW tokentype, NEW nodetype \in NodeTypes, Command(tokentype, nodetype)
  PROVE  IInv'
<1>1. Token1(tokentype) /\ UNCHANGED <<error, ifstack>>
  BY DEF Command
<1>2. Here \in LineRange /\ Peek(nodestack) \in Nat /\ NoNode \in Nat
  BY <1>1, TokenTaken DEF NoNode
<1>3. CASE HasTarget[Peek(nodestack)]
  <2>1. Leaf(tokentype, nodetype)
    BY <1>1, <1>3 DEF Command, Leaf
  <2> QED
    BY <2>1, LeafStep
<1>4. CASE ~HasTarget[Peek(nodestack)]
  <2> DEFINE n == Next1(Flushed)
             target == NewNode("TARGET", Peek(nodestack), NoNode, Here)
             command == NewNode(nodetype, n, NoNode, Here)
             mid == Append(Flushed, target)
  <2>1. nodes' = Flushed \o <<target, command>> /\ nodestack' = Append(nodestack, n)
    BY <1>4 DEF Command
  <2>2. target \in Node /\ target.ifparent = NoNode /\ target.type = "TARGET"
    BY <1>2, NewNodeType, SomeNodeTypes
  <2>3. n \in Nat
    BY <1>1, TokenTaken DEF Next1
  <2>4. command \in Node /\ command.ifparent = NoNode
    <3> HIDE DEF n
    <3> QED
      BY <1>2, <2>3, NewNodeType
  <2> HIDE DEF target, command
  <2>5. nodes' = Append(mid, command)
    BY <1>1, <2>1, <2>2, <2>4, TokenTaken
  <2>6. /\ mid \in Seq(Node) /\ n \in DOMAIN mid /\ mid[n] = target
        /\ \A i \in DOMAIN nodestack : nodestack[i] < n
    BY <1>1, <2>2, TokenTaken, OldNodesOrder
  <2>7. Grown(mid, Flushed) /\ Grown(nodes', mid)
    BY <1>1, <2>2, <2>4, <2>5, <2>6, TokenTaken, GrownByAppend
  <2>8. Stacks(mid, nodestack, ifstack) /\ Links(mid, ifstack)
    BY <1>1, <2>7, TokenTaken, StacksGrown, LinksGrown
  <2>9. mid[n].type \notin IfTypes
    BY <2>2, <2>6, SomeNodeTypes
  <2> HIDE DEF n, mid
  <2>10. Stacks(mid, nodestack', ifstack)
    BY <2>1, <2>6, <2>8, <2>9, PushBlock
  <2>11. Stacks(nodes', nodestack', ifstack') /\ Links(nodes', ifstack')
    BY <1>1, <2>7, <2>8, <2>10, StacksGrown, LinksGrown
  <2> QED
    BY <1>1, <2>11, TokenDone DEF IInv, TypeOK, TokenizerTypeOK
<1> QED
  BY <1>3, <1>4

LEMMA FinishStep ==
  ASSUME IInv, BuilderFinish
  PROVE  IInv'
<1>1. Stacks(nodes, nodestack, ifstack) /\ nodestack # <<>>
  BY DEF IInv, StacksSound, BuilderFinish, Building
<1>2. nodes' = Flushed /\ Flushed \in Seq(Node) /\ Grown(Flushed, nodes)
  BY <1>1, FlushedGrown DEF IInv, BuilderFinish
<1>3. Links(nodes', ifstack')
  BY <1>2, LinksGrown DEF IInv, BuilderFinish
<1>4. nodestack \in Seq(DOMAIN nodes') /\ ifstack' \in Seq(DOMAIN nodes')
  <2>1. Stacks(nodes', nodestack, ifstack)
    BY <1>1, <1>2, StacksGrown
  <2>2. ifstack' = ifstack
    BY DEF BuilderFinish
  <2> QED
    BY <2>1, <2>2 DEF Stacks
<1>5. nodestack' \in Seq(DOMAIN nodes')
  <2>1. nodestack' = Below(nodestack, Len(nodestack)) /\ Len(nodestack) \in DOMAIN nodestack
    BY <1>1, <1>4 DEF BuilderFinish
  <2> QED
    BY <1>1, <1>4, <2>1, CutIncreasing DEF Stacks
<1>6. \/ error' = "ast_build_failed" /\ built' = built
      \/ built' = TRUE /\ error' = error
  BY DEF BuilderFinish
<1>7. TypeOK'
  <2>1. TokenizerTypeOK'
    BY <1>6 DEF IInv, TypeOK, TokenizerTypeOK, BuilderFinish, Errors
  <2>2. comments' \in Seq(LineRange)
    BY DEF BuilderFinish
  <2>3. pos' \in 1 .. (Len(tokens') + 1) /\ built' \in BOOLEAN
    BY <1>6 DEF IInv, TypeOK, BuilderFinish
  <2> QED
    BY <1>2, <1>4, <1>5, <2>1, <2>2, <2>3 DEF TypeOK
<1>8. StacksSound'
  BY <1>6 DEF StacksSound, BuilderFinish, Building
<1> QED
  BY <1>3, <1>7, <1>8 DEF IInv

(* The tokenizer only appends, so the builder's place stays in the array.  *)
LEMMA TokensGrow ==
  ASSUME TokenizerTypeOK, TokenizerNext
  PROVE  Len(tokens) <= Len(tokens')
<1>1. tokens \in Seq(Token) /\ tokens' \in Seq(Token)
  BY TokenizerTypeStep DEF TokenizerTypeOK
<1>2. \A kind : Emitted(kind) \in Seq(TokenTypes)
  BY EmittedType
<1>3. CASE tokens' = tokens
  BY <1>1, <1>3
<1>4. ASSUME NEW new, tokens' = tokens \o new, new \in Seq(Token)
      PROVE  Len(tokens) <= Len(tokens')
  BY <1>1, <1>4
<1>5. [lines EXCEPT !.b = @ + 1] \in LineRange /\ lines \in LineRange
  BY DEF TokenizerTypeOK, LineRange
<1>6. ASSUME NEW text \in Texts \ {"nul"}, FeedLine(text)
      PROVE  Len(tokens) <= Len(tokens')
  <2>1. PICK kind \in Join(text) :
          tokens' = tokens \o TokensOf(Emitted(kind), [lines EXCEPT !.b = @ + 1])
    BY <1>6 DEF FeedLine
  <2>2. TokensOf(Emitted(kind), [lines EXCEPT !.b = @ + 1]) \in Seq(Token)
    BY <1>2, <1>5, TokensOfType
  <2> QED
    BY <1>4, <2>1, <2>2
<1>7. CASE TokenizerFinish
  <2> DEFINE range == IF continued THEN lines ELSE [lines EXCEPT !.b = @ + 1]
  <2>1. range \in LineRange
    BY <1>5
  <2>2. /\ TokensOf(Emitted(inbuf), range) \in Seq(Token)
        /\ TokensOf(<<"target_end">>, range) \in Seq(Token)
        /\ <<>> \in Seq(Token)
    <3>1. <<"target_end">> \in Seq(TokenTypes)
      <4>1. "target_end" \in TokenTypes
        BY SomeTokenTypes
      <4> QED
        BY <4>1
    <3>2. Emitted(inbuf) \in Seq(TokenTypes) /\ <<>> \in Seq(Token)
      BY <1>2
    <3> HIDE DEF range
    <3>3. TokensOf(Emitted(inbuf), range) \in Seq(Token)
      BY <2>1, <3>2, TokensOfType
    <3>4. TokensOf(<<"target_end">>, range) \in Seq(Token)
      BY <2>1, <3>1, TokensOfType
    <3> QED
      BY <3>2, <3>3, <3>4
  <2>3. \E rest, end \in Seq(Token) : tokens' = tokens \o rest \o end
    BY <1>7, <2>2 DEF TokenizerFinish, FinalRange
  <2> QED
    BY <1>1, <2>3
<1> QED
  BY <1>3, <1>6, <1>7 DEF TokenizerNext, FeedNul, FeedContinued

LEMMA BuilderSafe ==
  ASSUME IInv, BuilderStep
  PROVE  IInv'
<1>1. CASE Comment
  <2>1. Token1("comment") /\ UNCHANGED <<error, nodes, nodestack, ifstack>>
    BY <1>1 DEF Comment
  <2> QED
    BY <2>1, TokenTaken, TokenDone DEF IInv, TypeOK, TokenizerTypeOK
<1>2. CASE Include \/ Expr \/ Variable
  BY <1>2, LeafStep, SomeNodeTypes DEF Include, Expr, Variable
<1>3. CASE Malformed
  BY <1>3, TokenFailed DEF Malformed
<1>4. CASE For
  <2>1. /\ Token1("for") /\ UNCHANGED <<error, ifstack>>
        /\ nodes' = Append(Flushed, NewNode("FOR", Peek(nodestack), NoNode, Here))
        /\ nodestack' = Append(nodestack, Next1(Flushed))
    BY <1>4 DEF For
  <2> QED
    BY <2>1, TokenTaken, PushBlockStep
<1>5. CASE Endfor
  BY <1>5, EndforStep
<1>6. CASE If
  <2>1. Token1("if") /\ PushIf("IF", Peek(nodestack), NoNode) /\ "IF" \in IfTypes
    BY <1>6 DEF If, IfTypes
  <2>2. Peek(nodestack) \in Nat /\ NoNode \in Nat
    BY <2>1, TokenTaken DEF NoNode
  <2> QED
    BY <2>1, <2>2, PushIfStep
<1>7. CASE Elif \/ Else
  BY <1>7, BranchStep, SomeNodeTypes DEF Elif, Else
<1>8. CASE Endif
  BY <1>8, EndifStep
<1>9. CASE TargetStart
  <2>1. /\ Token1("target_start") /\ UNCHANGED <<error, ifstack>>
        /\ nodes' = Append(Flushed, NewNode("TARGET", Peek(WithoutTarget), NoNode, Here))
        /\ nodestack' = Append(WithoutTarget, Next1(Flushed))
    BY <1>9 DEF TargetStart
  <2> QED
    BY <2>1, WithoutTargetSound, PushBlockStep
<1>10. CASE TargetEnd
  <2>1. /\ Token1("target_end") /\ UNCHANGED <<error, ifstack>>
        /\ nodes' = Flushed /\ nodestack' = WithoutTarget
    BY <1>10 DEF TargetEnd
  <2>2. Stacks(nodes', nodestack', ifstack') /\ Links(nodes', ifstack')
    BY <2>1, WithoutTargetSound, TokenTaken
  <2> QED
    BY <2>1, <2>2, TokenDone DEF IInv, TypeOK, TokenizerTypeOK
<1>11. CASE TargetCommand \/ NoOpCommand
  BY <1>11, CommandStep, SomeNodeTypes DEF TargetCommand, NoOpCommand
<1>12. CASE BuilderFinish
  BY <1>12, FinishStep
<1> QED
  BY <1>1, <1>2, <1>3, <1>4, <1>5, <1>6, <1>7, <1>8, <1>9, <1>10, <1>11, <1>12
     DEF BuilderStep

LEMMA NextSafe ==
  ASSUME IInv, [Next]_vars
  PROVE  IInv'
<1>1. CASE BuilderStep
  BY <1>1, BuilderSafe
<1>2. CASE TokenizerNext /\ UNCHANGED builderVars
  <2>1. TokenizerTypeOK' /\ Len(tokens) <= Len(tokens')
    BY <1>2, TokenizerTypeStep, TokensGrow DEF IInv, TypeOK
  <2>2. pos' \in 1 .. (Len(tokens') + 1)
    <3>1. Len(tokens) \in Nat /\ Len(tokens') \in Nat
      BY <2>1 DEF IInv, TypeOK, TokenizerTypeOK
    <3> QED
      BY <1>2, <2>1, <3>1 DEF IInv, TypeOK, builderVars
  <2>3. TypeOK'
    BY <1>2, <2>1, <2>2 DEF IInv, TypeOK, builderVars
  <2>4. error = "ok"
    BY <1>2 DEF TokenizerNext, FeedNul, FeedContinued, FeedLine, TokenizerFinish, Reading
  <2> QED
    BY <1>2, <2>3, <2>4 DEF IInv, StacksSound, builderVars
<1>3. CASE UNCHANGED vars
  BY <1>3 DEF vars, tokenizerVars, builderVars, IInv, TypeOK, TokenizerTypeOK, StacksSound
<1> QED
  BY <1>1, <1>2, <1>3 DEF Next, Stopped

LEMMA InitSafe ==
  ASSUME Init
  PROVE  IInv
<1>1. RootNode \in Node /\ RootNode.type = "ROOT" /\ RootNode.ifparent = NoNode
  <2>1. [a |-> 0, b |-> 0] \in LineRange /\ Root \in Nat /\ NoNode \in Nat
    BY DEF LineRange, Root, NoNode
  <2> QED
    BY <2>1, NewNodeType, SomeNodeTypes DEF RootNode
<1>2. /\ nodes = <<RootNode>> /\ nodestack = <<Root>> /\ ifstack = <<>>
      /\ comments = <<>> /\ pos = 1 /\ built = FALSE /\ tokens = <<>> /\ TokenizerTypeOK
  BY TokenizerInitType DEF Init, TokenizerInit
<1> HIDE DEF RootNode
<1>3. nodes \in Seq(Node) /\ DOMAIN nodes = {1} /\ nodes[1] = RootNode /\ Len(nodes) = 1
  BY <1>1, <1>2
<1>4. nodestack \in Seq(DOMAIN nodes) /\ ifstack \in Seq(DOMAIN nodes)
      /\ DOMAIN nodestack = {1} /\ nodestack[1] = 1 /\ DOMAIN ifstack = {}
      /\ nodestack # <<>>
  BY <1>2, <1>3 DEF Root
<1>5. Stacks(nodes, nodestack, ifstack)
  BY <1>1, <1>3, <1>4, SomeNodeTypes DEF Stacks, Increasing, Root
<1>6. Links(nodes, ifstack)
  BY <1>1, <1>3, <1>4 DEF Links, Increasing, NoNode
<1>7. TypeOK
  <2>1. comments \in Seq(LineRange)
    BY <1>2
  <2>2. built \in BOOLEAN
    BY <1>2
  <2>3. Len(tokens) = 0 /\ pos = 1
    BY <1>2
  <2>4. pos \in 1 .. (Len(tokens) + 1)
    BY <2>3
  <2> QED
    BY <1>2, <1>3, <1>4, <2>1, <2>2, <2>4 DEF TypeOK
<1> QED
  BY <1>5, <1>6, <1>7 DEF IInv, StacksSound

(* The types, the agreement of the two stacks and the links between        *)
(* conditionals and their branches are kept by every step of the tokenizer *)
(* and the builder.                                                        *)
THEOREM StacksStaySound == Spec => []IInv
<1>1. Init => IInv
  BY InitSafe
<1>2. IInv /\ [Next]_vars => IInv'
  BY NextSafe
<1> QED
  BY <1>1, <1>2, PTL DEF Spec

-----------------------------------------------------------------------------
(* Every variable of the tokenizer and of the builder keeps its type.      *)
THEOREM BuilderTyped == Spec => []TypeOK
<1>1. IInv => TypeOK
  BY DEF IInv
<1> QED
  BY <1>1, StacksStaySound, PTL

(* The root is at the bottom of nodestack and nowhere else while the tree  *)
(* is built: no step reads through an empty stack.                         *)
THEOREM NodeStackStaysRooted == Spec => []NodeStackRooted
<1>1. IInv => NodeStackRooted
  <2> SUFFICES ASSUME IInv, ~built, error = "ok"
               PROVE  /\ nodestack # <<>>
                      /\ nodestack[1] = Root
                      /\ \A i \in DOMAIN nodestack : nodestack[i] = Root => i = 1
    BY DEF NodeStackRooted
  <2>1. /\ Stacks(nodes, nodestack, ifstack) /\ nodestack \in Seq(Nat)
        /\ nodestack # <<>> /\ nodestack[1] = Root /\ Increasing(nodestack)
    BY DEF IInv, StacksSound, Stacks
  <2>2. ASSUME NEW i \in DOMAIN nodestack, nodestack[i] = Root, i # 1
        PROVE  FALSE
    <3>1. 1 \in DOMAIN nodestack /\ 1 < i
      BY <2>1, <2>2
    <3>2. nodestack[1] < nodestack[i]
      BY <3>1, <2>1 DEF Increasing
    <3> QED
      BY <2>1, <2>2, <3>2 DEF Root
  <2> QED
    BY <2>1, <2>2
<1> QED
  BY <1>1, StacksStaySound, PTL

(* ifstack has the conditionals of nodestack, in the same order, and       *)
(* nothing else.                                                           *)
THEOREM StacksAlwaysAgree == Spec => []StacksAgree
<1>1. IInv => StacksAgree
  BY DEF IInv, StacksSound, Stacks, StacksAgree
<1> QED
  BY <1>1, StacksStaySound, PTL

(* Every branch on ifstack belongs to the conditional right below it.      *)
THEOREM BranchesStayLinked == Spec => []BranchesLinked
<1>1. IInv => BranchesLinked
  BY DEF IInv, Links, BranchesLinked
<1> QED
  BY <1>1, StacksStaySound, PTL

(* No conditional ever gets a second alternative.                          *)
THEOREM AtMostOneAlternative == Spec => []OneAlternative
<1>1. IInv => OneAlternative
  BY DEF IInv, Links, OneAlternative
<1> QED
  BY <1>1, StacksStaySound, PTL

-----------------------------------------------------------------------------
(* The conditionals of ms are those of ns, and nothing happened to them.   *)
Kept(ms, ns) ==
  \A n \in DOMAIN ms : ms[n].type \in IfTypes => n \in DOMAIN ns /\ ms[n] = ns[n]

(* One of the tokens before p has these lines.                             *)
TakenBefore(range, p) ==
  \E k \in DOMAIN tokens :
    k < p /\ tokens[k].type # "target_end" /\ tokens[k].lines = range

(* Each conditional begins with a token before p, and it is a branch,      *)
(* closed, or still on ifstack.                                            *)
Begun(ns, is, p) ==
  \A n \in DOMAIN ns :
    ns[n].type \in IfTypes =>
      /\ TakenBefore(ns[n].line_start, p)
      /\ \/ ns[n].ifparent # NoNode
         \/ ns[n].line_end # ns[n].line_start
         \/ \E i \in DOMAIN is : is[i] = n

EndsSound ==
  /\ ~finished => \A n \in DOMAIN nodes : nodes[n].type \notin IfTypes
  /\ Begun(nodes, ifstack, pos)
  /\ built => ifstack = <<>>

(* What the builder needs of the lines of the tokens.                      *)
LinesSound == LinesIInv /\ RangesWithinInput

LEMMA KeptAppend ==
  ASSUME NEW ns \in Seq(Node), NEW node \in Node, node.type \notin IfTypes
  PROVE  Kept(Append(ns, node), ns)
  BY DEF Kept

LEMMA KeptTwice ==
  ASSUME NEW ns, NEW ms, NEW ks, Kept(ms, ns), Kept(ks, ms)
  PROVE  Kept(ks, ns)
  BY DEF Kept

LEMMA FlushedKept ==
  ASSUME TypeOK, nodestack # <<>>
  PROVE  Kept(Flushed, nodes)
<1>1. nodes \in Seq(Node) /\ comments \in Seq(LineRange)
  BY DEF TypeOK
<1>2. CASE comments = <<>>
  BY <1>2 DEF Flushed, Kept
<1>3. CASE comments # <<>>
  <2> DEFINE node == CommentNode(Peek(nodestack))
  <2>1. Flushed = Append(nodes, node)
    BY <1>3 DEF Flushed
  <2>2. node.type = "COMMENT"
    BY DEF CommentNode, NewNode
  <2>3. node.type \notin IfTypes
    BY <2>2, SomeNodeTypes
  <2> HIDE DEF node
  <2> QED
    BY <1>1, <2>1, <2>3 DEF Kept
<1> QED
  BY <1>2, <1>3

(* A step that leaves the conditionals and ifstack alone.                  *)
LEMMA QuietStep ==
  ASSUME IInv, EndsSound, NEW type, Token1(type), Kept(nodes', nodes), ifstack' = ifstack
  PROVE  EndsSound'
<1>1. /\ finished' /\ ~built' /\ pos' = pos + 1 /\ tokens' = tokens /\ pos \in Nat
      /\ DOMAIN tokens \subseteq Nat
  BY DEF Token1, Building, IInv, TypeOK, TokenizerTypeOK
<1>2. Begun(nodes, ifstack, pos)
  BY DEF EndsSound
<1>3. Begun(nodes', ifstack', pos')
  <2> SUFFICES ASSUME NEW n \in DOMAIN nodes', nodes'[n].type \in IfTypes
               PROVE  /\ TakenBefore(nodes'[n].line_start, pos')
                      /\ \/ nodes'[n].ifparent # NoNode
                         \/ nodes'[n].line_end # nodes'[n].line_start
                         \/ \E i \in DOMAIN ifstack' : ifstack'[i] = n
    BY DEF Begun
  <2>1. n \in DOMAIN nodes /\ nodes'[n] = nodes[n]
    BY DEF Kept
  <2>2. PICK k \in DOMAIN tokens :
          k < pos /\ tokens[k].type # "target_end" /\ tokens[k].lines = nodes[n].line_start
    BY <1>2, <2>1 DEF Begun, TakenBefore
  <2>3. k < pos + 1
    BY <1>1, <2>2
  <2> QED
    BY <1>1, <1>2, <2>1, <2>2, <2>3 DEF Begun, TakenBefore
<1> QED
  BY <1>1, <1>3 DEF EndsSound, Begun, TakenBefore

LEMMA LeafEnds ==
  ASSUME IInv, EndsSound, NEW tokentype, NEW nodetype \in NodeTypes \ IfTypes,
         Token1(tokentype), NEW parent \in Nat,
         nodes' = Append(Flushed, NewNode(nodetype, parent, NoNode, Here)),
         ifstack' = ifstack
  PROVE  EndsSound'
<1> DEFINE node == NewNode(nodetype, parent, NoNode, Here)
<1>1. node \in Node /\ node.type \notin IfTypes
  BY TokenTaken, NewNodeType DEF NoNode
<1>2. Kept(Flushed, nodes) /\ Flushed \in Seq(Node)
  BY TokenTaken, FlushedKept DEF IInv
<1> HIDE DEF node
<1>3. Kept(nodes', nodes)
  BY <1>1, <1>2, KeptAppend, KeptTwice DEF node
<1> QED
  BY <1>3, QuietStep

(* A new conditional begins with the token of the step and is on ifstack.  *)
LEMMA PushIfEnds ==
  ASSUME IInv, EndsSound, NEW tokentype, Token1(tokentype), tokentype # "target_end",
         NEW type \in IfTypes, NEW parent \in Nat, NEW ifparent \in Nat,
         PushIf(type, parent, ifparent)
  PROVE  EndsSound'
<1> DEFINE node == NewNode(type, parent, ifparent, Here)
<1>1. /\ finished' /\ ~built' /\ pos' = pos + 1 /\ tokens' = tokens /\ pos \in Nat
      /\ DOMAIN tokens \subseteq Nat /\ pos \in DOMAIN tokens
      /\ tokens[pos].type # "target_end" /\ tokens[pos].lines = Here
  BY TokenHere
<1>2. node \in Node /\ node.line_start = Here
  <2>1. node \in Node
    BY TokenTaken, NewNodeType, SomeNodeTypes
  <2> QED
    BY <2>1 DEF NewNode
<1>3. Kept(Flushed, nodes) /\ Flushed \in Seq(Node)
  BY TokenTaken, FlushedKept DEF IInv
<1>4. nodes' = Append(Flushed, node) /\ ifstack' = Append(ifstack, Next1(Flushed))
  BY DEF PushIf
<1> HIDE DEF node
<1>5. ifstack \in Seq(DOMAIN nodes)
  BY DEF IInv, TypeOK
<1>6. /\ DOMAIN nodes' = 1 .. Next1(Flushed) /\ nodes'[Next1(Flushed)] = node
      /\ \A n \in DOMAIN nodes' : n # Next1(Flushed) => n \in DOMAIN Flushed /\ nodes'[n] = Flushed[n]
  BY <1>2, <1>3, <1>4 DEF Next1
<1>7. /\ \E i \in DOMAIN ifstack' : ifstack'[i] = Next1(Flushed)
      /\ \A i \in DOMAIN ifstack : i \in DOMAIN ifstack' /\ ifstack'[i] = ifstack[i]
  <2>1. Len(ifstack') = Len(ifstack) + 1 /\ ifstack'[Len(ifstack) + 1] = Next1(Flushed)
    BY <1>4, <1>5
  <2> QED
    BY <1>4, <1>5, <2>1
<1>8. ASSUME NEW n \in DOMAIN nodes', nodes'[n].type \in IfTypes
      PROVE  /\ TakenBefore(nodes'[n].line_start, pos')
             /\ \/ nodes'[n].ifparent # NoNode
                \/ nodes'[n].line_end # nodes'[n].line_start
                \/ \E i \in DOMAIN ifstack' : ifstack'[i] = n
  <2>1. CASE n = Next1(Flushed)
    <3>1. nodes'[n].line_start = Here
      BY <1>2, <1>6, <2>1
    <3>2. pos < pos'
      BY <1>1
    <3> QED
      BY <1>1, <1>7, <2>1, <3>1, <3>2 DEF TakenBefore
  <2>2. CASE n # Next1(Flushed)
    <3>1. n \in DOMAIN nodes /\ nodes'[n] = nodes[n]
      BY <1>3, <1>6, <1>8, <2>2 DEF Kept
    <3>2. /\ TakenBefore(nodes[n].line_start, pos)
          /\ \/ nodes[n].ifparent # NoNode
             \/ nodes[n].line_end # nodes[n].line_start
             \/ \E i \in DOMAIN ifstack : ifstack[i] = n
      BY <1>8, <3>1 DEF EndsSound, Begun
    <3>3. PICK k \in DOMAIN tokens :
            k < pos /\ tokens[k].type # "target_end" /\ tokens[k].lines = nodes[n].line_start
      BY <3>2 DEF TakenBefore
    <3>4. k < pos'
      BY <1>1, <3>3
    <3> QED
      BY <1>7, <3>1, <3>2, <3>3, <3>4 DEF TakenBefore
  <2> QED
    BY <2>1, <2>2
<1> QED
  BY <1>1, <1>8 DEF EndsSound, Begun, TakenBefore

(* The .endif closes its conditional on another line; what is popped with  *)
(* it are branches.                                                        *)
LEMMA EndifEnds ==
  ASSUME IInv, EndsSound, LinesSound, Endif
  PROVE  EndsSound'
<1>1. Token1("endif")
  BY DEF Endif
<1>2. CASE ifstack = <<>> /\ Fail
  BY <1>1, <1>2, QuietStep DEF Fail, Kept
<1>3. ASSUME NEW i \in DOMAIN ifstack, InnermostIf(i),
             nodes' = [Flushed EXCEPT ![ifstack[i]].line_end = Here],
             ifstack' = Below(ifstack, i)
      PROVE  EndsSound'
  <2>1. /\ finished' /\ ~built' /\ pos' = pos + 1 /\ tokens' = tokens /\ pos \in Nat
        /\ DOMAIN tokens \subseteq Nat /\ pos \in DOMAIN tokens
        /\ tokens[pos].type = "endif" /\ tokens[pos].lines = Here
    BY <1>1, TokenHere
  <2>2. Kept(Flushed, nodes) /\ Flushed \in Seq(Node) /\ Here \in LineRange
    BY <1>1, TokenTaken, FlushedKept DEF IInv
  <2>3. /\ ifstack \in Seq(DOMAIN nodes) /\ ifstack[i] \in DOMAIN nodes
        /\ ifstack[i] \in DOMAIN Flushed /\ Increasing(ifstack)
    BY <1>1, TokenTaken DEF Stacks, Grown
  <2>4. /\ DOMAIN nodes' = DOMAIN Flushed
        /\ \A n \in DOMAIN Flushed : n # ifstack[i] => nodes'[n] = Flushed[n]
        /\ nodes'[ifstack[i]] = [Flushed[ifstack[i]] EXCEPT !.line_end = Here]
        /\ nodes'[ifstack[i]].line_end = Here
        /\ nodes'[ifstack[i]].type = Flushed[ifstack[i]].type
        /\ nodes'[ifstack[i]].line_start = Flushed[ifstack[i]].line_start
    <3>1. Flushed[ifstack[i]] \in Node
      BY <2>2, <2>3
    <3> QED
      BY <1>3, <2>2, <2>3, <3>1 DEF Node
  <2>5. ASSUME NEW n \in DOMAIN nodes', nodes'[n].type \in IfTypes
        PROVE  /\ TakenBefore(nodes'[n].line_start, pos')
               /\ \/ nodes'[n].ifparent # NoNode
                  \/ nodes'[n].line_end # nodes'[n].line_start
                  \/ \E k \in DOMAIN ifstack' : ifstack'[k] = n
    <3>1. /\ n \in DOMAIN nodes /\ nodes[n] = Flushed[n] /\ nodes[n].type \in IfTypes
          /\ nodes'[n].line_start = nodes[n].line_start
      BY <2>2, <2>4, <2>5 DEF Kept
    <3>2. /\ TakenBefore(nodes[n].line_start, pos)
          /\ \/ nodes[n].ifparent # NoNode
             \/ nodes[n].line_end # nodes[n].line_start
             \/ \E k \in DOMAIN ifstack : ifstack[k] = n
      BY <3>1 DEF EndsSound, Begun
    <3>3. PICK k \in DOMAIN tokens :
            k < pos /\ tokens[k].type # "target_end" /\ tokens[k].lines = nodes[n].line_start
      BY <3>2 DEF TakenBefore
    <3>4. TakenBefore(nodes'[n].line_start, pos')
      <4>1. k < pos'
        BY <2>1, <3>3
      <4> QED
        BY <3>1, <3>3, <4>1 DEF TakenBefore
    <3>5. CASE n = ifstack[i]
      <4>1. tokens[k].lines.b <= tokens[pos].lines.a
        <5>1. InOrder(tokens)
          BY DEF LinesSound, LinesIInv, LinesTaken
        <5> QED
          BY <2>1, <3>3, <5>1 DEF InOrder, Follows
      <4>2. tokens[pos].lines.a < tokens[pos].lines.b
        BY <2>1 DEF LinesSound, RangesWithinInput, Stands
      <4>3. /\ tokens[k].lines.b \in Nat /\ tokens[pos].lines.a \in Nat
            /\ tokens[pos].lines.b \in Nat
        <5>1. tokens[k] \in Token /\ tokens[pos] \in Token
          BY <2>1 DEF IInv, TypeOK, TokenizerTypeOK
        <5> QED
          BY <5>1 DEF Token, LineRange
      <4>4. tokens[k].lines # tokens[pos].lines
        BY <4>1, <4>2, <4>3
      <4> QED
        BY <2>1, <2>4, <3>1, <3>3, <3>4, <3>5, <4>4
    <3>6. CASE n # ifstack[i]
      <4>1. nodes'[n] = nodes[n]
        BY <2>4, <3>1, <3>6
      <4>2. ASSUME nodes[n].ifparent = NoNode, NEW m \in DOMAIN ifstack, ifstack[m] = n
            PROVE  m \in DOMAIN ifstack' /\ ifstack'[m] = n
        <5>1. m < i
          BY <2>3, <3>6, <4>2, <1>3 DEF InnermostIf
        <5>2. /\ Below(ifstack, i) \in Seq(DOMAIN nodes)
              /\ Len(Below(ifstack, i)) = i - 1
              /\ \A h \in 1 .. (i - 1) : Below(ifstack, i)[h] = ifstack[h]
          BY <1>3, <2>3, CutIncreasing
        <5>3. m \in 1 .. (i - 1) /\ DOMAIN Below(ifstack, i) = 1 .. (i - 1)
          <6> HIDE DEF Below
          <6> QED
            BY <2>3, <4>2, <5>1, <5>2
        <5> QED
          BY <1>3, <4>2, <5>2, <5>3
      <4> QED
        BY <3>2, <3>4, <4>1, <4>2
    <3> QED
      BY <3>5, <3>6
  <2> QED
    BY <2>1, <2>5 DEF EndsSound, Begun, TakenBefore
<1> QED
  BY <1>2, <1>3 DEF Endif

(* When nothing but the root is left, no conditional is.                   *)
LEMMA FinishEnds ==
  ASSUME IInv, EndsSound, BuilderFinish
  PROVE  EndsSound'
<1>1. Stacks(nodes, nodestack, ifstack) /\ nodestack # <<>>
  BY DEF IInv, StacksSound, BuilderFinish, Building
<1>2. /\ finished' /\ nodes' = Flushed /\ ifstack' = ifstack /\ pos' = pos /\ tokens' = tokens
      /\ built' => NothingOpen
  BY DEF BuilderFinish, Building
<1>3. Kept(Flushed, nodes)
  BY <1>1, FlushedKept DEF IInv
<1>4. Begun(nodes, ifstack, pos)
  BY DEF EndsSound
<1>5. Begun(nodes', ifstack, pos)
  BY <1>2, <1>3, <1>4 DEF Begun, Kept
<1>6. ASSUME NothingOpen
      PROVE  ifstack = <<>>
  <2>1. /\ nodestack \in Seq(DOMAIN nodes) /\ nodestack[1] = Root
        /\ Increasing(nodestack) /\ nodestack[Len(nodestack)] = Root
        /\ ifstack \in Seq(DOMAIN nodes) /\ DOMAIN nodes \subseteq Nat
    BY <1>1, <1>6 DEF Stacks, NothingOpen, Peek
  <2>2. Len(nodestack) = 1
    <3> DEFINE top == Len(nodestack)
    <3>1. top \in DOMAIN nodestack /\ 1 \in DOMAIN nodestack /\ top \in Nat /\ 1 <= top
      BY <1>1, <2>1
    <3>2. nodestack[1] = nodestack[top] /\ nodestack[1] \in Nat
      BY <2>1 DEF Root
    <3> HIDE DEF top
    <3>3. ~(1 < top)
      BY <2>1, <3>1, <3>2 DEF Increasing
    <3>4. top = 1
      BY <3>1, <3>3
    <3> QED
      BY <3>4 DEF top
  <2>3. \A j \in DOMAIN nodestack : nodes[nodestack[j]].type = "ROOT"
    BY <1>1, <2>1, <2>2 DEF Stacks
  <2>4. ASSUME NEW i \in DOMAIN ifstack
        PROVE  FALSE
    BY <1>1, <2>3, SomeNodeTypes DEF Stacks
  <2>5. ifstack # <<>> => 1 \in DOMAIN ifstack
    BY <2>1
  <2> QED
    BY <2>4, <2>5
<1> QED
  BY <1>2, <1>5, <1>6 DEF EndsSound, Begun, TakenBefore

LEMMA BuilderEnds ==
  ASSUME IInv, EndsSound, LinesSound, BuilderStep
  PROVE  EndsSound'
<1> USE DEF NoNode
<1>1. CASE Comment \/ Malformed
  <2>1. PICK type : Token1(type) /\ UNCHANGED <<nodes, ifstack>>
    BY <1>1 DEF Comment, Malformed, Fail
  <2> QED
    BY <2>1, QuietStep DEF Kept
<1>2. CASE Include \/ Expr \/ Variable
  <2>1. PICK tokentype \in {"include", "expr", "var"}, nodetype \in NodeTypes \ IfTypes :
          Leaf(tokentype, nodetype)
    BY <1>2, SomeNodeTypes DEF Include, Expr, Variable
  <2> QED
    BY <2>1, TokenTaken, LeafEnds DEF Leaf
<1>3. CASE For
  BY <1>3, TokenTaken, LeafEnds, SomeNodeTypes DEF For
<1>4. CASE TargetStart
  <2>1. /\ Token1("target_start") /\ ifstack' = ifstack
        /\ nodes' = Append(Flushed, NewNode("TARGET", Peek(WithoutTarget), NoNode, Here))
    BY <1>4 DEF TargetStart
  <2>2. Peek(WithoutTarget) \in Nat
    <3>1. Stacks(Flushed, WithoutTarget, ifstack)
      BY <2>1, WithoutTargetSound
    <3>2. /\ WithoutTarget \in Seq(DOMAIN Flushed) /\ WithoutTarget # <<>>
          /\ DOMAIN Flushed \subseteq Nat
      BY <3>1 DEF Stacks
    <3>3. Len(WithoutTarget) \in DOMAIN WithoutTarget
      BY <3>2
    <3> QED
      BY <3>2, <3>3 DEF Peek
  <2> QED
    BY <2>1, <2>2, LeafEnds, SomeNodeTypes
<1>5. CASE TargetEnd
  BY <1>5, TokenTaken, FlushedKept, QuietStep DEF TargetEnd, IInv
<1>6. CASE Endfor
  <2> DEFINE depth == IF nodes[Peek(nodestack)].type = "TARGET"
                      THEN Len(nodestack) - 1 ELSE Len(nodestack)
             node == nodestack[depth]
  <2>1. Token1("endfor")
    BY <1>6 DEF Endfor
  <2>2. CASE nodes[node].type # "FOR"
    BY <1>6, <2>1, <2>2, QuietStep DEF Endfor, Fail, Kept
  <2>3. CASE nodes[node].type = "FOR"
    <3>1. nodes' = [Flushed EXCEPT ![node].line_end = Here] /\ ifstack' = ifstack
      BY <1>6, <2>3 DEF Endfor
    <3>2. Kept(Flushed, nodes) /\ Flushed \in Seq(Node) /\ Grown(Flushed, nodes)
      BY <2>1, TokenTaken, FlushedKept DEF IInv
    <3> HIDE DEF node
    <3>3. \A n \in DOMAIN nodes' : n \in DOMAIN Flushed /\ (n # node => nodes'[n] = Flushed[n])
      BY <3>1, <3>2
    <3>4. node \in DOMAIN nodes' => nodes'[node].type \notin IfTypes
      <4>1. ASSUME node \in DOMAIN nodes'
            PROVE  nodes'[node].type = Flushed[node].type
        <5>1. node \in DOMAIN Flushed /\ Flushed[node] \in Node
          BY <3>2, <3>3, <4>1
        <5> QED
          BY <3>1, <3>2, <5>1 DEF Node
      <4>2. Flushed[node].type \in IfTypes => node \notin DOMAIN Flushed
        BY <2>3, <3>2, SomeNodeTypes DEF Kept
      <4> QED
        BY <3>3, <4>1, <4>2
    <3>5. Kept(nodes', nodes)
      BY <3>2, <3>3, <3>4 DEF Kept
    <3> QED
      BY <2>1, <3>1, <3>5, QuietStep
  <2> QED
    BY <2>2, <2>3
<1>7. CASE If
  BY <1>7, TokenTaken, PushIfEnds DEF If, IfTypes
<1>8. CASE Elif \/ Else
  <2>1. PICK tokentype \in {"elif", "else"}, type \in IfTypes : Branch(tokentype, type)
    BY <1>8 DEF Elif, Else, IfTypes
  <2>2. Token1(tokentype)
    BY <2>1 DEF Branch
  <2>3. CASE ifstack = <<>>
    <3>1. PushIf(type, Peek(nodestack), NoNode)
      BY <2>1, <2>3 DEF Branch
    <3> QED
      BY <2>2, <3>1, TokenTaken, PushIfEnds
  <2>4. CASE ifstack # <<>>
    <3>1. PushIf(type, Peek(ifstack), Peek(ifstack))
      BY <2>1, <2>4 DEF Branch
    <3>2. Peek(ifstack) \in Nat
      <4>1. ifstack \in Seq(DOMAIN nodes) /\ DOMAIN nodes \subseteq Nat
        BY DEF IInv, TypeOK
      <4>2. Len(ifstack) \in DOMAIN ifstack
        BY <2>4, <4>1
      <4> QED
        BY <4>1, <4>2 DEF Peek
    <3> QED
      BY <2>2, <3>1, <3>2, PushIfEnds
  <2> QED
    BY <2>3, <2>4
<1>9. CASE Endif
  BY <1>9, EndifEnds
<1>10. CASE TargetCommand \/ NoOpCommand
  <2>1. PICK tokentype \in {"command", "no_op_command"}, nodetype \in NodeTypes \ IfTypes :
          Command(tokentype, nodetype)
    BY <1>10, SomeNodeTypes DEF TargetCommand, NoOpCommand
  <2>2. Token1(tokentype) /\ ifstack' = ifstack
    BY <2>1 DEF Command
  <2>3. CASE HasTarget[Peek(nodestack)]
    BY <2>1, <2>2, <2>3, TokenTaken, LeafEnds DEF Command
  <2>4. CASE ~HasTarget[Peek(nodestack)]
    <3> DEFINE n == Next1(Flushed)
               target == NewNode("TARGET", Peek(nodestack), NoNode, Here)
               command == NewNode(nodetype, n, NoNode, Here)
    <3>1. nodes' = Flushed \o <<target, command>>
      BY <2>1, <2>4 DEF Command
    <3>2. Kept(Flushed, nodes) /\ Flushed \in Seq(Node)
      BY <2>2, TokenTaken, FlushedKept DEF IInv
    <3>3. target.type \notin IfTypes /\ command.type \notin IfTypes
      BY SomeNodeTypes DEF NewNode
    <3> HIDE DEF target, command
    <3>4. \A k \in DOMAIN nodes' :
            \/ k \in DOMAIN Flushed /\ nodes'[k] = Flushed[k]
            \/ nodes'[k] \in {target, command}
      BY <3>1, <3>2
    <3>5. Kept(nodes', nodes)
      BY <3>2, <3>3, <3>4 DEF Kept
    <3> QED
      BY <2>2, <3>5, QuietStep
  <2> QED
    BY <2>3, <2>4
<1>11. CASE BuilderFinish
  BY <1>11, FinishEnds
<1> QED
  BY <1>1, <1>2, <1>3, <1>4, <1>5, <1>6, <1>7, <1>8, <1>9, <1>10, <1>11 DEF BuilderStep

(* The lines of the tokens stay as they are while the tree is built.       *)
LEMMA BuilderKeepsLines ==
  ASSUME IInv, LinesSound, BuilderStep, IInv'
  PROVE  LinesSound'
<1>1. finished /\ UNCHANGED <<inbuf, continued, in_target, finished, lines, tokens, rawlines>>
  BY DEF BuilderStep, Comment, Include, Expr, Variable, Leaf, Malformed, For, Endfor, If, Elif,
         Else, Branch, Endif, TargetStart, TargetEnd, TargetCommand, NoOpCommand, Command,
         BuilderFinish, Token1, Building
<1>2. TokenizerTypeOK'
  BY DEF IInv, TypeOK
<1> QED
  BY <1>1, <1>2 DEF LinesSound, LinesIInv, PendingRange, PendingLines, LinesTaken,
                    RangesWithinInput, Stands

(* A tree is returned only when every .if has its own .endif, however they *)
(* nest and whatever else is open.                                         *)
THEOREM ConditionalsAreClosed == Spec => []ConditionalsClosed
<1> DEFINE Inv == IInv /\ LinesSound /\ EndsSound
<1>1. Init => Inv
  <2> SUFFICES ASSUME Init
               PROVE  Inv
    OBVIOUS
  <2>1. IInv
    BY InitSafe
  <2>2. LinesSound
    BY <2>1 DEF Init, TokenizerInit, IInv, TypeOK, LinesSound, LinesIInv, PendingRange,
                PendingLines, LinesTaken, InOrder, TakenOnce, Within, RangesWithinInput
  <2>3. EndsSound
    <3>1. nodes = <<RootNode>> /\ RootNode.type = "ROOT" /\ ~built
      BY DEF Init, RootNode, NewNode
    <3>2. \A n \in DOMAIN nodes : nodes[n].type \notin IfTypes
      BY <3>1, SomeNodeTypes
    <3> QED
      BY <3>1, <3>2 DEF EndsSound, Begun
  <2> QED
    BY <2>1, <2>2, <2>3
<1>2. Inv /\ [Next]_vars => Inv'
  <2> SUFFICES ASSUME Inv, [Next]_vars
               PROVE  Inv'
    OBVIOUS
  <2>1. IInv'
    BY NextSafe
  <2>2. CASE BuilderStep
    BY <2>1, <2>2, BuilderEnds, BuilderKeepsLines
  <2>3. CASE TokenizerNext /\ UNCHANGED builderVars
    <3>1. LinesSound'
      BY <2>1, <2>3, LinesStep, RangesStep DEF LinesSound, LinesIInv, IInv, TypeOK
    <3>2. ~finished
      BY <2>3 DEF TokenizerNext, FeedNul, FeedContinued, FeedLine, TokenizerFinish, Reading
    <3>3. EndsSound'
      BY <2>3, <3>2 DEF EndsSound, Begun, builderVars
    <3> QED
      BY <2>1, <3>1, <3>3
  <2>4. CASE UNCHANGED vars
    BY <2>1, <2>4 DEF vars, tokenizerVars, builderVars, LinesSound, LinesIInv, TokenizerTypeOK,
                      PendingRange, PendingLines, LinesTaken, RangesWithinInput, Stands,
                      EndsSound, Begun, TakenBefore
  <2> QED
    BY <2>2, <2>3, <2>4 DEF Next, Stopped
<1>3. Inv => ConditionalsClosed
  BY DEF EndsSound, Begun, ConditionalsClosed, Closed
<1> QED
  BY <1>1, <1>2, <1>3, PTL DEF Spec

-----------------------------------------------------------------------------
(* What an .endif or .endfor closes: the .if or .for and what is in it.    *)
BlockTypes == IfTypes \cup {"FOR"}

(* No node, and no block, goes beyond line l.                              *)
NodesBefore(ns, l) ==
  \A n \in DOMAIN ns : ns[n].line_start.b <= l /\ ns[n].line_end.b <= l
BlocksBefore(ns, l) ==
  \A p \in DOMAIN ns : ns[p].type \in BlockTypes => ns[p].line_start.b <= l /\ ns[p].line_end.b <= l

(* Every node but the root hangs in one that was created before it.        *)
ParentsBelow(ns) ==
  Root \in DOMAIN ns /\ \A n \in DOMAIN ns \ {Root} : ns[n].parent \in 1 .. (n - 1)

(* A block begins between the nodes created before and after it.           *)
BlocksStart(ns) ==
  \A p \in DOMAIN ns : ns[p].type \in BlockTypes =>
    \A n \in DOMAIN ns : /\ n < p => ns[n].line_start.b <= ns[p].line_start.a
                         /\ n > p => ns[p].line_start.b <= ns[n].line_start.a

(* The nodes from p to q are p and what is inside of it.                   *)
Spanned(ns, p, q) ==
  /\ \A n \in (p + 1) .. q : ns[n].parent \in p .. q /\ ns[n].line_end.b <= ns[p].line_end.a
  /\ \A n \in (q + 1) .. Len(ns) :
       /\ ns[n].parent < p \/ ns[n].parent > q
       /\ ns[p].line_end.b <= ns[n].line_start.a

(* Nothing can be added to a block that was closed.                        *)
BlocksSpanned(ns, st) ==
  \A p \in DOMAIN ns : ns[p].type \in BlockTypes /\ ns[p].line_end # ns[p].line_start =>
    \E q \in p .. Len(ns) : Spanned(ns, p, q) /\ \A k \in DOMAIN st : st[k] < p \/ st[k] > q

TreeSpans(ns, st) == ParentsBelow(ns) /\ BlocksStart(ns) /\ BlocksSpanned(ns, st)

(* What is on the stack hangs in what is below it or, as a branch, in its  *)
(* conditional.                                                            *)
StackHangs(ns, st) ==
  \A k \in 2 .. Len(st) :
    \/ ns[st[k]].parent = st[k - 1]
    \/ /\ ns[st[k]].type \in IfTypes /\ ns[st[k]].ifparent # NoNode
       /\ ns[st[k]].parent = ns[st[k]].ifparent

(* Nothing above j on the stack is a branch of something below it.         *)
Unbroken(ns, st, j) == \A k \in (j + 1) .. Len(st) : ns[st[k]].parent >= st[j]

(* What was created after an open block is inside of it, unless a branch   *)
(* has left the block: then only an .endif can close it.                   *)
OpenSpans(ns, st) ==
  \A j \in DOMAIN st : Unbroken(ns, st, j) => \A n \in DOMAIN ns : n > st[j] => ns[n].parent >= st[j]

StackSpans(ns, st) == StackHangs(ns, st) /\ OpenSpans(ns, st)

(* The comments that are pending are behind every block, and the tokens    *)
(* that are left are behind both.                                          *)
CommentsBehind == \A c \in DOMAIN comments : BlocksBefore(nodes, comments[c].a)
TokensBehind ==
  \A i \in DOMAIN tokens : i >= pos /\ Stands(i) =>
    /\ NodesBefore(nodes, tokens[i].lines.a)
    /\ \A c \in DOMAIN comments : comments[c].b <= tokens[i].lines.a

NotBegun == nodes = <<RootNode>> /\ nodestack = <<Root>> /\ comments = <<>>

SpansInv ==
  /\ ~finished => NotBegun
  /\ TreeSpans(nodes, nodestack)
  /\ error = "ok" /\ ~built => StackSpans(nodes, nodestack)
  /\ CommentsBehind
  /\ TokensBehind

-----------------------------------------------------------------------------
(* A node that is appended to something on the stack is in no block that   *)
(* was closed.                                                             *)
LEMMA TreeAppended ==
  ASSUME NEW ns \in Seq(Node), NEW st \in Seq(DOMAIN ns), TreeSpans(ns, st),
         NEW node \in Node, NEW k \in DOMAIN st, node.parent = st[k], Root \in DOMAIN ns,
         BlocksBefore(ns, node.line_start.a),
         node.type \in BlockTypes =>
           NodesBefore(ns, node.line_start.a) /\ node.line_end = node.line_start
  PROVE  TreeSpans(Append(ns, node), Append(st, Len(ns) + 1))
<1> DEFINE ms == Append(ns, node)
           new == Len(ns) + 1
           stack == Append(st, new)
<1>1. /\ ms \in Seq(Node) /\ Len(ms) = new /\ DOMAIN ms = 1 .. new /\ DOMAIN ns = 1 .. Len(ns)
      /\ Len(ns) \in Nat /\ ms[new] = node /\ \A n \in DOMAIN ns : ms[n] = ns[n]
  OBVIOUS
<1>2. \A h \in DOMAIN stack : stack[h] = new \/ \E g \in DOMAIN st : stack[h] = st[g]
  OBVIOUS
<1>3. st[k] \in 1 .. Len(ns)
  OBVIOUS
<1> HIDE DEF ms, stack
<1>4. ParentsBelow(ms)
  <2>1. Root \in DOMAIN ms /\ new # Root
    BY <1>1 DEF Root
  <2>2. ASSUME NEW n \in DOMAIN ms \ {Root}
        PROVE  ms[n].parent \in 1 .. (n - 1)
    <3>1. CASE n = new
      BY <1>1, <1>3, <3>1
    <3>2. CASE n # new
      <4>1. n \in DOMAIN ns \ {Root} /\ ms[n] = ns[n]
        BY <1>1, <3>2
      <4> QED
        BY <4>1 DEF TreeSpans, ParentsBelow
    <3> QED
      BY <3>1, <3>2
  <2> QED
    BY <2>1, <2>2 DEF ParentsBelow
<1>5. BlocksStart(ms)
  <2> SUFFICES ASSUME NEW p \in DOMAIN ms, ms[p].type \in BlockTypes, NEW n \in DOMAIN ms
               PROVE  /\ n < p => ms[n].line_start.b <= ms[p].line_start.a
                      /\ n > p => ms[p].line_start.b <= ms[n].line_start.a
    BY DEF BlocksStart
  <2>1. CASE p \in DOMAIN ns /\ n \in DOMAIN ns
    BY <1>1, <2>1 DEF TreeSpans, BlocksStart
  <2>2. CASE p \in DOMAIN ns /\ n = new
    BY <1>1, <2>2 DEF BlocksBefore
  <2>3. CASE p = new
    <3>1. NodesBefore(ns, ms[p].line_start.a)
      BY <1>1, <2>3
    <3>2. n < p => n \in DOMAIN ns /\ ms[n] = ns[n]
      BY <1>1, <2>3
    <3>3. ~(n > p)
      BY <1>1, <2>3
    <3> QED
      BY <3>1, <3>2, <3>3 DEF NodesBefore
  <2> QED
    BY <1>1, <2>1, <2>2, <2>3
<1>6. BlocksSpanned(ms, stack)
  <2> SUFFICES ASSUME NEW p \in DOMAIN ms, ms[p].type \in BlockTypes,
                      ms[p].line_end # ms[p].line_start
               PROVE  \E q \in p .. Len(ms) :
                        Spanned(ms, p, q) /\ \A h \in DOMAIN stack : stack[h] < p \/ stack[h] > q
    BY DEF BlocksSpanned
  <2>1. p \in DOMAIN ns
    BY <1>1
  <2>2. PICK q \in p .. Len(ns) :
          Spanned(ns, p, q) /\ \A h \in DOMAIN st : st[h] < p \/ st[h] > q
    BY <1>1, <2>1 DEF TreeSpans, BlocksSpanned
  <2>3. q \in p .. Len(ms) /\ new > q
    BY <1>1, <2>1, <2>2
  <2>4. \A n \in (p + 1) .. q : ms[n].parent \in p .. q /\ ms[n].line_end.b <= ms[p].line_end.a
    <3> TAKE n \in (p + 1) .. q
    <3>1. n \in DOMAIN ns
      <4>1. p \in Nat /\ p >= 1 /\ q \in Nat /\ q <= Len(ns)
        BY <1>1, <2>1, <2>2
      <4> QED
        BY <1>1, <4>1
    <3>2. ms[n] = ns[n] /\ ms[p] = ns[p]
      BY <1>1, <2>1, <3>1
    <3> QED
      BY <2>2, <3>2 DEF Spanned
  <2>5. ASSUME NEW n \in (q + 1) .. Len(ms)
        PROVE  /\ ms[n].parent < p \/ ms[n].parent > q
               /\ ms[p].line_end.b <= ms[n].line_start.a
    <3>1. CASE n = new
      BY <1>1, <1>3, <2>1, <2>2, <3>1 DEF BlocksBefore
    <3>2. CASE n # new
      <4>1. n \in (q + 1) .. Len(ns) /\ n \in DOMAIN ns
        <5>1. q \in Nat /\ n \in Nat /\ n >= q + 1 /\ n <= new
          BY <1>1, <2>1, <2>2
        <5> QED
          BY <1>1, <3>2, <5>1
      <4>2. ms[n] = ns[n] /\ ms[p] = ns[p]
        BY <1>1, <2>1, <4>1
      <4> QED
        BY <2>2, <4>1, <4>2 DEF Spanned
    <3> QED
      BY <3>1, <3>2
  <2>6. \A h \in DOMAIN stack : stack[h] < p \/ stack[h] > q
    BY <1>2, <2>2, <2>3
  <2> QED
    BY <2>3, <2>4, <2>5, <2>6 DEF Spanned
<1> QED
  BY <1>4, <1>5, <1>6 DEF TreeSpans, ms, stack

(* Less on the stack leaves the closed blocks as they are.                 *)
LEMMA TreeOfPart ==
  ASSUME NEW ns, NEW st, NEW part, TreeSpans(ns, st),
         \A k \in DOMAIN part : \E h \in DOMAIN st : part[k] = st[h]
  PROVE  TreeSpans(ns, part)
<1>1. BlocksSpanned(ns, part)
  <2> SUFFICES ASSUME NEW p \in DOMAIN ns, ns[p].type \in BlockTypes,
                      ns[p].line_end # ns[p].line_start
               PROVE  \E q \in p .. Len(ns) :
                        Spanned(ns, p, q) /\ \A k \in DOMAIN part : part[k] < p \/ part[k] > q
    BY DEF BlocksSpanned
  <2>1. PICK q \in p .. Len(ns) :
          Spanned(ns, p, q) /\ \A k \in DOMAIN st : st[k] < p \/ st[k] > q
    BY DEF TreeSpans, BlocksSpanned
  <2>2. ASSUME NEW k \in DOMAIN part
        PROVE  part[k] < p \/ part[k] > q
    BY <2>1
  <2> QED
    BY <2>1, <2>2
<1> QED
  BY <1>1 DEF TreeSpans

LEMMA TreeUnpushed ==
  ASSUME NEW ns, NEW st \in Seq(Nat), NEW n \in Nat, TreeSpans(ns, Append(st, n))
  PROVE  TreeSpans(ns, st)
<1>1. \A k \in DOMAIN st : k \in DOMAIN Append(st, n) /\ Append(st, n)[k] = st[k]
  OBVIOUS
<1> QED
  BY <1>1, TreeOfPart

LEMMA TreeCut ==
  ASSUME NEW ns, NEW st \in Seq(Nat), NEW j \in DOMAIN st, TreeSpans(ns, st)
  PROVE  TreeSpans(ns, Below(st, j))
<1>1. \A k \in DOMAIN Below(st, j) : k \in DOMAIN st /\ Below(st, j)[k] = st[k]
  BY DEF Below
<1> QED
  BY <1>1, TreeOfPart

(* A node that is appended to the top of the stack.                        *)
LEMMA StackAppended ==
  ASSUME NEW ns \in Seq(Node), NEW st \in Seq(DOMAIN ns), st # <<>>, Increasing(st),
         StackSpans(ns, st), NEW node \in Node, node.parent = st[Len(st)]
  PROVE  StackSpans(Append(ns, node), st)
<1> DEFINE ms == Append(ns, node)
           new == Len(ns) + 1
<1>1. /\ DOMAIN ms = 1 .. new /\ DOMAIN ns = 1 .. Len(ns) /\ Len(ns) \in Nat
      /\ ms[new] = node /\ \A n \in DOMAIN ns : ms[n] = ns[n]
  OBVIOUS
<1>2. /\ DOMAIN st = 1 .. Len(st) /\ Len(st) \in Nat /\ Len(st) \in DOMAIN st
      /\ \A k \in DOMAIN st : st[k] \in DOMAIN ns
  OBVIOUS
<1> HIDE DEF ms
<1>3. StackHangs(ms, st)
  <2>1. \A k \in 2 .. Len(st) : k \in DOMAIN st /\ ms[st[k]] = ns[st[k]]
    BY <1>1, <1>2
  <2> QED
    BY <2>1 DEF StackSpans, StackHangs
<1>4. OpenSpans(ms, st)
  <2> SUFFICES ASSUME NEW j \in DOMAIN st, Unbroken(ms, st, j), NEW n \in DOMAIN ms, n > st[j]
               PROVE  ms[n].parent >= st[j]
    BY DEF OpenSpans
  <2>1. Unbroken(ns, st, j)
    BY <1>1, <1>2 DEF Unbroken
  <2>2. CASE n \in DOMAIN ns
    BY <1>1, <2>1, <2>2 DEF StackSpans, OpenSpans
  <2>3. CASE n = new
    <3>1. j \in Nat /\ j <= Len(st) /\ st[j] \in Nat /\ st[Len(st)] \in Nat
      BY <1>1, <1>2
    <3>2. j < Len(st) => st[j] < st[Len(st)]
      BY <1>2 DEF Increasing
    <3>3. st[Len(st)] >= st[j]
      BY <1>2, <3>1, <3>2
    <3> QED
      BY <1>1, <2>3, <3>3
  <2> QED
    BY <1>1, <2>2, <2>3
<1> QED
  BY <1>3, <1>4 DEF StackSpans, ms

(* A node that is appended to the top of the stack, or a branch that is    *)
(* appended to its conditional, and pushed.                                *)
LEMMA StackPushed ==
  ASSUME NEW ns \in Seq(Node), NEW st \in Seq(DOMAIN ns), st # <<>>, Increasing(st),
         StackSpans(ns, st), NEW node \in Node, NEW m \in DOMAIN st, node.parent = st[m],
         \/ m = Len(st)
         \/ node.type \in IfTypes /\ node.ifparent # NoNode /\ node.parent = node.ifparent
  PROVE  StackSpans(Append(ns, node), Append(st, Len(ns) + 1))
<1> DEFINE ms == Append(ns, node)
           new == Len(ns) + 1
           stack == Append(st, new)
<1>1. /\ DOMAIN ms = 1 .. new /\ DOMAIN ns = 1 .. Len(ns) /\ Len(ns) \in Nat
      /\ ms[new] = node /\ \A n \in DOMAIN ns : ms[n] = ns[n]
  OBVIOUS
<1>2. /\ DOMAIN st = 1 .. Len(st) /\ Len(st) \in Nat /\ Len(st) \in DOMAIN st
      /\ \A k \in DOMAIN st : st[k] \in DOMAIN ns
      /\ DOMAIN stack = 1 .. (Len(st) + 1) /\ Len(stack) = Len(st) + 1
      /\ stack[Len(st) + 1] = new /\ \A k \in DOMAIN st : stack[k] = st[k]
  OBVIOUS
<1> HIDE DEF ms, stack
<1>3. StackHangs(ms, stack)
  <2> SUFFICES ASSUME NEW k \in 2 .. Len(stack)
               PROVE  \/ ms[stack[k]].parent = stack[k - 1]
                      \/ /\ ms[stack[k]].type \in IfTypes /\ ms[stack[k]].ifparent # NoNode
                         /\ ms[stack[k]].parent = ms[stack[k]].ifparent
    BY DEF StackHangs
  <2>1. CASE k = Len(st) + 1
    BY <1>1, <1>2, <2>1
  <2>2. CASE k \in 2 .. Len(st)
    <3>1. k - 1 \in DOMAIN st /\ k \in DOMAIN st
      BY <1>2, <2>2
    <3>2. stack[k] = st[k] /\ stack[k - 1] = st[k - 1] /\ ms[st[k]] = ns[st[k]]
      BY <1>1, <1>2, <3>1
    <3> QED
      BY <2>2, <3>2 DEF StackSpans, StackHangs
  <2> QED
    BY <1>2, <2>1, <2>2
<1>4. OpenSpans(ms, stack)
  <2> SUFFICES ASSUME NEW j \in DOMAIN stack, Unbroken(ms, stack, j),
                      NEW n \in DOMAIN ms, n > stack[j]
               PROVE  ms[n].parent >= stack[j]
    BY DEF OpenSpans
  <2>1. j \in DOMAIN st
    BY <1>1, <1>2
  <2>2. Unbroken(ns, st, j) /\ node.parent >= st[j]
    <3>1. \A k \in (j + 1) .. Len(stack) : ms[stack[k]].parent >= stack[j]
      BY DEF Unbroken
    <3>2. stack[j] = st[j] /\ j \in Nat /\ j <= Len(st)
      BY <1>2, <2>1
    <3>3. \A k \in (j + 1) .. Len(st) : ns[st[k]].parent >= st[j]
      <4> TAKE k \in (j + 1) .. Len(st)
      <4>1. k \in DOMAIN st /\ k \in (j + 1) .. Len(stack)
        BY <1>2, <3>2
      <4>2. ms[stack[k]] = ns[st[k]]
        BY <1>1, <1>2, <4>1
      <4> QED
        BY <3>1, <3>2, <4>1, <4>2
    <3>4. node.parent >= st[j]
      <4>1. Len(st) + 1 \in (j + 1) .. Len(stack) /\ ms[stack[Len(st) + 1]] = node
        BY <1>1, <1>2, <3>2
      <4> QED
        BY <3>1, <3>2, <4>1
    <3> QED
      BY <3>3, <3>4 DEF Unbroken
  <2>3. CASE n \in DOMAIN ns
    BY <1>1, <1>2, <2>1, <2>2, <2>3 DEF StackSpans, OpenSpans
  <2>4. CASE n = new
    BY <1>1, <1>2, <2>1, <2>2, <2>4
  <2> QED
    BY <1>1, <2>3, <2>4
<1> QED
  BY <1>3, <1>4 DEF StackSpans, ms, stack

(* What is popped has no branch of something that stays.                   *)
LEMMA StackCut ==
  ASSUME NEW ns \in Seq(Node), NEW st \in Seq(DOMAIN ns), Increasing(st), StackSpans(ns, st),
         NEW j \in 2 .. Len(st), \A k \in j .. Len(st) : ns[st[k]].parent >= st[j - 1]
  PROVE  StackSpans(ns, Below(st, j))
<1> DEFINE cut == Below(st, j)
<1>1. /\ Len(cut) = j - 1 /\ DOMAIN cut = 1 .. (j - 1) /\ DOMAIN st = 1 .. Len(st)
      /\ Len(st) \in Nat /\ \A i \in 1 .. (j - 1) : cut[i] = st[i]
  BY DEF Below
<1>2. \A k \in DOMAIN st : st[k] \in Nat
  OBVIOUS
<1>3. \A n \in DOMAIN ns : ns[n].parent \in Nat
  <2> TAKE n \in DOMAIN ns
  <2>1. ns[n] \in Node
    OBVIOUS
  <2> QED
    BY <2>1 DEF Node
<1> HIDE DEF cut
<1>4. StackHangs(ns, cut)
  <2>1. \A k \in 2 .. Len(cut) : k \in 2 .. Len(st) /\ cut[k] = st[k] /\ cut[k - 1] = st[k - 1]
    <3> TAKE k \in 2 .. Len(cut)
    <3>1. k \in 1 .. (j - 1) /\ k - 1 \in 1 .. (j - 1) /\ k \in 2 .. Len(st)
      BY <1>1
    <3> QED
      BY <1>1, <3>1
  <2> QED
    BY <2>1 DEF StackSpans, StackHangs
<1>5. OpenSpans(ns, cut)
  <2> SUFFICES ASSUME NEW h \in DOMAIN cut, Unbroken(ns, cut, h), NEW n \in DOMAIN ns, n > cut[h]
               PROVE  ns[n].parent >= cut[h]
    BY DEF OpenSpans
  <2>1. h \in DOMAIN st /\ cut[h] = st[h] /\ h <= j - 1 /\ j - 1 \in DOMAIN st
    BY <1>1
  <2>2. st[j - 1] >= st[h]
    <3>1. h < j - 1 => st[h] < st[j - 1]
      BY <2>1 DEF Increasing
    <3>2. h \in Nat /\ j - 1 \in Nat /\ st[h] \in Nat /\ st[j - 1] \in Nat
      BY <1>1, <1>2, <2>1
    <3>3. h = j - 1 => st[h] = st[j - 1]
      OBVIOUS
    <3> QED
      BY <2>1, <3>1, <3>2, <3>3
  <2>3. Unbroken(ns, st, h)
    <3> SUFFICES ASSUME NEW k \in (h + 1) .. Len(st)
                 PROVE  ns[st[k]].parent >= st[h]
      BY DEF Unbroken
    <3>1. CASE k < j
      <4>1. k \in (h + 1) .. Len(cut) /\ k \in 1 .. (j - 1) /\ cut[k] = st[k]
        BY <1>1, <2>1, <3>1
      <4> QED
        BY <2>1, <4>1 DEF Unbroken
    <3>2. CASE k >= j
      <4>1. k \in DOMAIN st /\ st[k] \in DOMAIN ns
        BY <1>1, <2>1
      <4>2. ns[st[k]].parent >= st[j - 1] /\ ns[st[k]].parent \in Nat
        <5>1. k \in j .. Len(st)
          BY <1>1, <3>2, <4>1
        <5> QED
          BY <1>3, <4>1, <5>1
      <4>3. st[h] \in Nat /\ st[j - 1] \in Nat
        BY <1>2, <2>1
      <4> DEFINE parent == ns[st[k]].parent
                 low == st[h]
                 middle == st[j - 1]
      <4>4. parent >= middle /\ middle >= low /\ parent \in Nat /\ middle \in Nat /\ low \in Nat
        BY <2>2, <4>2, <4>3
      <4> HIDE DEF parent, low, middle
      <4>5. parent >= low
        BY <4>4
      <4> QED
        BY <4>5 DEF parent, low
    <3> QED
      BY <1>1, <2>1, <3>1, <3>2
  <2> QED
    BY <2>1, <2>3 DEF StackSpans, OpenSpans
<1> QED
  BY <1>4, <1>5 DEF StackSpans, cut

(* A block that is closed keeps its place in the tree.                     *)
LEMMA StackClosed ==
  ASSUME NEW ns \in Seq(Node), NEW st \in Seq(DOMAIN ns), StackSpans(ns, st),
         NEW c \in DOMAIN ns, NEW range \in LineRange
  PROVE  StackSpans([ns EXCEPT ![c].line_end = range], st)
<1> DEFINE ms == [ns EXCEPT ![c].line_end = range]
<1>1. /\ DOMAIN ms = DOMAIN ns
      /\ \A n \in DOMAIN ns : /\ ms[n].type = ns[n].type
                              /\ ms[n].parent = ns[n].parent
                              /\ ms[n].ifparent = ns[n].ifparent
  <2>1. \A n \in DOMAIN ns : ns[n] \in Node
    OBVIOUS
  <2> QED
    BY <2>1 DEF Node
<1>2. DOMAIN st = 1 .. Len(st) /\ Len(st) \in Nat /\ \A k \in DOMAIN st : st[k] \in DOMAIN ns
  OBVIOUS
<1> HIDE DEF ms
<1>3. StackHangs(ms, st)
  <2>1. \A k \in 2 .. Len(st) : k \in DOMAIN st
    BY <1>2
  <2> QED
    BY <1>1, <1>2, <2>1 DEF StackSpans, StackHangs
<1>4. OpenSpans(ms, st)
  <2> SUFFICES ASSUME NEW j \in DOMAIN st, Unbroken(ms, st, j), NEW n \in DOMAIN ms, n > st[j]
               PROVE  ms[n].parent >= st[j]
    BY DEF OpenSpans
  <2>1. Unbroken(ns, st, j)
    <3>1. \A k \in (j + 1) .. Len(st) : k \in DOMAIN st
      BY <1>2
    <3> QED
      BY <1>1, <1>2, <3>1 DEF Unbroken
  <2> QED
    BY <1>1, <2>1 DEF StackSpans, OpenSpans
<1> QED
  BY <1>3, <1>4 DEF StackSpans, ms

(* A block that is closed while nothing has left it has everything created *)
(* since in it, and what is open from then on is outside of it.            *)
LEMMA TreeClosed ==
  ASSUME NEW ns \in Seq(Node), NEW st \in Seq(DOMAIN ns), Increasing(st), st[1] = Root,
         TreeSpans(ns, st), StackSpans(ns, st),
         NEW j \in 2 .. Len(st), ns[st[j]].type \in BlockTypes, Unbroken(ns, st, j),
         NEW range \in LineRange, NodesBefore(ns, range.a)
  PROVE  TreeSpans([ns EXCEPT ![st[j]].line_end = range], Below(st, j))
<1> DEFINE c == st[j]
           ms == [ns EXCEPT ![c].line_end = range]
           cut == Below(st, j)
<1>1. /\ DOMAIN st = 1 .. Len(st) /\ Len(st) \in Nat /\ j \in DOMAIN st /\ 1 \in DOMAIN st
      /\ c \in DOMAIN ns /\ c \in Nat /\ DOMAIN ns = 1 .. Len(ns) /\ Len(ns) \in Nat
  OBVIOUS
<1>2. /\ DOMAIN ms = DOMAIN ns /\ Len(ms) = Len(ns) /\ ms[c].line_end = range
      /\ \A n \in DOMAIN ns : /\ ms[n].type = ns[n].type
                              /\ ms[n].parent = ns[n].parent
                              /\ ms[n].line_start = ns[n].line_start
                              /\ n # c => ms[n].line_end = ns[n].line_end
  <2>1. \A n \in DOMAIN ns : ns[n] \in Node
    OBVIOUS
  <2> HIDE DEF c
  <2>2. /\ DOMAIN ms = DOMAIN ns /\ Len(ms) = Len(ns)
        /\ ms[c] = [ns[c] EXCEPT !.line_end = range]
        /\ \A n \in DOMAIN ns : n # c => ms[n] = ns[n]
    BY <1>1
  <2> HIDE DEF ms
  <2>3. /\ ms[c].line_end = range /\ ms[c].type = ns[c].type
        /\ ms[c].parent = ns[c].parent /\ ms[c].line_start = ns[c].line_start
    BY <1>1, <2>1, <2>2 DEF Node
  <2> QED
    BY <2>2, <2>3
<1>3. /\ Len(cut) = j - 1 /\ DOMAIN cut = 1 .. (j - 1)
      /\ \A i \in 1 .. (j - 1) : cut[i] = st[i] /\ i \in DOMAIN st /\ st[i] \in Nat
  <2>1. cut = SubSeq(st, 1, j - 1)
    BY DEF Below
  <2>2. Len(cut) = j - 1 /\ DOMAIN cut = 1 .. (j - 1) /\ \A i \in 1 .. (j - 1) : cut[i] = st[i]
    BY <1>1, <2>1
  <2>3. \A i \in 1 .. (j - 1) : i \in DOMAIN st /\ st[i] \in Nat
    BY <1>1
  <2> HIDE DEF cut
  <2> QED
    BY <2>2, <2>3
<1>4. \A i \in DOMAIN cut : cut[i] < c
  BY <1>1, <1>3 DEF Increasing
<1>5. c # Root
  BY <1>1 DEF Increasing, Root
<1> HIDE DEF ms, cut, c
<1>6. ParentsBelow(ms)
  BY <1>2 DEF TreeSpans, ParentsBelow
<1>7. BlocksStart(ms)
  BY <1>2 DEF TreeSpans, BlocksStart
<1>8. BlocksSpanned(ms, cut)
  <2> SUFFICES ASSUME NEW p \in DOMAIN ms, ms[p].type \in BlockTypes,
                      ms[p].line_end # ms[p].line_start
               PROVE  \E q \in p .. Len(ms) :
                        Spanned(ms, p, q) /\ \A h \in DOMAIN cut : cut[h] < p \/ cut[h] > q
    BY DEF BlocksSpanned
  <2>1. CASE p = c
    <3> DEFINE q == Len(ns)
    <3>1. q \in p .. Len(ms)
      BY <1>1, <1>2, <2>1
    <3>2. ASSUME NEW n \in (p + 1) .. q
          PROVE  ms[n].parent \in p .. q /\ ms[n].line_end.b <= ms[p].line_end.a
      <4>1. n \in DOMAIN ns \ {Root} /\ n > c /\ n # c /\ n <= Len(ns)
        BY <1>1, <2>1 DEF Root
      <4>2. ns[n].parent >= c
        BY <1>1, <4>1 DEF StackSpans, OpenSpans, c
      <4>3. ns[n].parent \in 1 .. (n - 1)
        BY <4>1 DEF TreeSpans, ParentsBelow
      <4>4. ms[n].parent \in p .. q
        <5>1. ms[n].parent = ns[n].parent /\ n \in Nat
          BY <1>1, <1>2, <4>1
        <5> QED
          BY <1>1, <2>1, <4>1, <4>2, <4>3, <5>1
      <4> QED
        BY <1>2, <2>1, <4>1, <4>4 DEF NodesBefore
    <3>3. \A n \in (q + 1) .. Len(ms) : FALSE
      BY <1>1, <1>2
    <3> QED
      BY <1>4, <2>1, <3>1, <3>2, <3>3 DEF Spanned
  <2>2. CASE p # c
    <3>1. p \in DOMAIN ns /\ ns[p].type \in BlockTypes /\ ns[p].line_end # ns[p].line_start
      BY <1>2, <2>2
    <3>2. PICK q \in p .. Len(ns) :
            Spanned(ns, p, q) /\ \A h \in DOMAIN st : st[h] < p \/ st[h] > q
      BY <3>1 DEF TreeSpans, BlocksSpanned
    <3>3. c < p \/ c > q
      BY <1>1, <3>2 DEF c
    <3>4. p \in Nat /\ p >= 1 /\ q \in Nat /\ p <= q /\ q <= Len(ns) /\ q \in p .. Len(ms)
      BY <1>1, <1>2, <3>1, <3>2
    <3>5. ASSUME NEW n \in (p + 1) .. q
          PROVE  ms[n].parent \in p .. q /\ ms[n].line_end.b <= ms[p].line_end.a
      <4>1. n \in DOMAIN ns /\ n # c
        <5>1. n \in Nat /\ n >= p + 1 /\ n <= q
          BY <3>4
        <5>2. n \in DOMAIN ns
          BY <1>1, <3>4, <5>1
        <5>3. n # c
          BY <3>3, <3>4, <5>1
        <5> QED
          BY <5>2, <5>3
      <4>2. /\ ms[n].parent = ns[n].parent /\ ms[n].line_end = ns[n].line_end
            /\ ms[p].line_end = ns[p].line_end
        BY <1>2, <2>2, <3>1, <4>1
      <4> QED
        BY <3>2, <4>2 DEF Spanned
    <3>6. ASSUME NEW n \in (q + 1) .. Len(ms)
          PROVE  /\ ms[n].parent < p \/ ms[n].parent > q
                 /\ ms[p].line_end.b <= ms[n].line_start.a
      <4>1. n \in DOMAIN ns /\ n \in (q + 1) .. Len(ns)
        BY <1>1, <1>2, <3>4
      <4>2. /\ ms[n].parent = ns[n].parent /\ ms[n].line_start = ns[n].line_start
            /\ ms[p].line_end = ns[p].line_end
        BY <1>2, <2>2, <3>1, <4>1
      <4> QED
        BY <3>2, <4>1, <4>2 DEF Spanned
    <3>7. \A h \in DOMAIN cut : cut[h] < p \/ cut[h] > q
      BY <1>3, <3>2
    <3> QED
      BY <3>4, <3>5, <3>6, <3>7 DEF Spanned
  <2> QED
    BY <2>1, <2>2
<1> QED
  BY <1>6, <1>7, <1>8 DEF TreeSpans, ms, cut, c

-----------------------------------------------------------------------------
LEMMA CommentNodeIs ==
  ASSUME comments \in Seq(LineRange), comments # <<>>, NEW parent \in Nat
  PROVE  LET node == CommentNode(parent) IN
         /\ node \in Node /\ node.type = "COMMENT" /\ node.parent = parent
         /\ node.line_start = [a |-> comments[1].a, b |-> comments[Len(comments)].b]
         /\ node.line_end = comments[1]
<1> DEFINE first == NewNode("COMMENT", parent, NoNode, comments[1])
           node == CommentNode(parent)
<1>1. comments[1] \in LineRange /\ comments[Len(comments)] \in LineRange
  OBVIOUS
<1>2. /\ first \in Node /\ first.type = "COMMENT" /\ first.parent = parent
      /\ first.line_start = comments[1] /\ first.line_end = comments[1]
  <2>1. "COMMENT" \in NodeTypes /\ NoNode \in Nat
    BY SomeNodeTypes DEF NoNode
  <2> QED
    BY <1>1, <2>1 DEF NewNode, Node
<1>3. node = [first EXCEPT !.line_start.b = comments[Len(comments)].b]
  BY DEF CommentNode, Peek
<1> HIDE DEF first, node
<1>4. node = [first EXCEPT !.line_start = [a |-> comments[1].a, b |-> comments[Len(comments)].b]]
  <2> DEFINE last == comments[Len(comments)].b
             range == comments[1]
  <2>1. [range EXCEPT !.b = last] = [a |-> range.a, b |-> last]
    BY <1>1 DEF LineRange
  <2>2. node = [first EXCEPT !.line_start = [range EXCEPT !.b = last]]
    BY <1>2, <1>3
  <2> QED
    BY <2>1, <2>2
<1>5. [a |-> comments[1].a, b |-> comments[Len(comments)].b] \in LineRange
  BY <1>1 DEF LineRange
<1> QED
  BY <1>1, <1>2, <1>4, <1>5 DEF Node, node

(* The pending comments become a node inside of what is open.              *)
LEMMA FlushedSpans ==
  ASSUME IInv, SpansInv, Building, nodestack # <<>>
  PROVE  /\ TreeSpans(Flushed, nodestack) /\ StackSpans(Flushed, nodestack)
         /\ \A i \in DOMAIN tokens : i >= pos /\ Stands(i) => NodesBefore(Flushed, tokens[i].lines.a)
<1>1. /\ nodes \in Seq(Node) /\ nodestack \in Seq(DOMAIN nodes) /\ comments \in Seq(LineRange)
      /\ Increasing(nodestack) /\ Root \in DOMAIN nodes
      /\ TreeSpans(nodes, nodestack) /\ StackSpans(nodes, nodestack)
  BY DEF IInv, TypeOK, StacksSound, Stacks, SpansInv, Building
<1>2. CASE comments = <<>>
  BY <1>1, <1>2 DEF Flushed, SpansInv, TokensBehind
<1>3. CASE comments # <<>>
  <2> DEFINE node == CommentNode(Peek(nodestack))
  <2>1. Len(nodestack) \in DOMAIN nodestack /\ Peek(nodestack) = nodestack[Len(nodestack)]
    BY <1>1 DEF Peek
  <2>2. Peek(nodestack) \in DOMAIN nodes /\ Peek(nodestack) \in Nat
    BY <1>1, <2>1
  <2>3. /\ node \in Node /\ node.type = "COMMENT" /\ node.parent = nodestack[Len(nodestack)]
        /\ node.line_start = [a |-> comments[1].a, b |-> comments[Len(comments)].b]
        /\ node.line_end = comments[1]
    BY <1>1, <1>3, <2>1, <2>2, CommentNodeIs
  <2>4. Flushed = Append(nodes, node)
    BY <1>3 DEF Flushed
  <2>5. node.type \notin BlockTypes
    BY <2>3, SomeNodeTypes DEF BlockTypes
  <2> HIDE DEF node
  <2>6. 1 \in DOMAIN comments /\ Len(comments) \in DOMAIN comments
    BY <1>1, <1>3
  <2>7. BlocksBefore(nodes, node.line_start.a)
    BY <2>3, <2>6 DEF SpansInv, CommentsBehind
  <2>8. TreeSpans(Flushed, Append(nodestack, Len(nodes) + 1))
    BY <1>1, <2>1, <2>3, <2>4, <2>5, <2>7, TreeAppended
  <2>9. TreeSpans(Flushed, nodestack)
    <3>1. nodestack \in Seq(Nat) /\ Len(nodes) + 1 \in Nat
      BY <1>1
    <3> QED
      BY <2>8, <3>1, TreeUnpushed
  <2>10. StackSpans(Flushed, nodestack)
    BY <1>1, <2>3, <2>4, StackAppended
  <2>11. ASSUME NEW i \in DOMAIN tokens, i >= pos, Stands(i)
         PROVE  NodesBefore(Flushed, tokens[i].lines.a)
    <3>1. /\ NodesBefore(nodes, tokens[i].lines.a)
          /\ comments[1].b <= tokens[i].lines.a
          /\ comments[Len(comments)].b <= tokens[i].lines.a
      BY <2>6, <2>11 DEF SpansInv, TokensBehind
    <3>2. \A n \in DOMAIN Flushed : (n \in DOMAIN nodes /\ Flushed[n] = nodes[n]) \/ Flushed[n] = node
      BY <1>1, <2>4
    <3> QED
      BY <2>3, <3>1, <3>2 DEF NodesBefore
  <2> QED
    BY <2>9, <2>10, <2>11
<1> QED
  BY <1>2, <1>3

(* What ms has beyond ns ends on line l.                                   *)
Stretched(ms, ns, l) ==
  \A n \in DOMAIN ms :
    /\ ms[n].line_start.b = l \/ (n \in DOMAIN ns /\ ms[n].line_start.b = ns[n].line_start.b)
    /\ ms[n].line_end.b = l \/ (n \in DOMAIN ns /\ ms[n].line_end.b = ns[n].line_end.b)

(* What every step that takes a token may use.                             *)
LEMMA SpansTaken ==
  ASSUME IInv, SpansInv, LinesSound, NEW type, Token1(type)
  PROVE  /\ TreeSpans(Flushed, nodestack) /\ StackSpans(Flushed, nodestack)
         /\ Flushed \in Seq(Node) /\ nodestack \in Seq(DOMAIN Flushed) /\ nodestack # <<>>
         /\ Increasing(nodestack) /\ nodestack[1] = Root /\ Root \in DOMAIN Flushed
         /\ Len(nodestack) \in DOMAIN nodestack /\ Peek(nodestack) = nodestack[Len(nodestack)]
         /\ Here \in LineRange
         /\ type # "target_end" => NodesBefore(Flushed, Here.a)
         /\ \A i \in DOMAIN tokens : i > pos /\ Stands(i) =>
              /\ NodesBefore(Flushed, tokens[i].lines.a)
              /\ type # "target_end" => Here.b <= tokens[i].lines.a
<1>1. /\ Building /\ nodestack # <<>> /\ pos \in DOMAIN tokens /\ tokens[pos].type = type
      /\ tokens \in Seq(Token) /\ DOMAIN tokens \subseteq Nat /\ pos \in Nat
  <2>1. Building /\ nodestack # <<>>
    BY DEF Token1
  <2> QED
    BY <2>1, TokenHere
<1>2. /\ TreeSpans(Flushed, nodestack) /\ StackSpans(Flushed, nodestack)
      /\ \A i \in DOMAIN tokens : i >= pos /\ Stands(i) => NodesBefore(Flushed, tokens[i].lines.a)
  BY <1>1, FlushedSpans
<1>3. /\ Flushed \in Seq(Node) /\ Stacks(Flushed, nodestack, ifstack) /\ Here \in LineRange
  BY TokenTaken
<1>4. /\ nodestack \in Seq(DOMAIN Flushed) /\ Increasing(nodestack)
      /\ nodestack[1] = Root /\ Root \in DOMAIN Flushed
  BY <1>3 DEF Stacks
<1>5. Len(nodestack) \in DOMAIN nodestack /\ Peek(nodestack) = nodestack[Len(nodestack)]
  BY <1>1, <1>4 DEF Peek
<1>6. type # "target_end" => NodesBefore(Flushed, Here.a)
  BY <1>1, <1>2 DEF Here, Stands
<1>7. ASSUME NEW i \in DOMAIN tokens, i > pos, Stands(i)
      PROVE  /\ NodesBefore(Flushed, tokens[i].lines.a)
             /\ type # "target_end" => Here.b <= tokens[i].lines.a
  <2>1. InOrder(tokens)
    BY DEF LinesSound, LinesIInv, LinesTaken
  <2>2. pos < i /\ i >= pos
    BY <1>1, <1>7
  <2> QED
    BY <1>1, <1>2, <1>7, <2>1, <2>2 DEF InOrder, Follows, Stands, Here
<1> QED
  BY <1>1, <1>2, <1>3, <1>4, <1>5, <1>6, <1>7

(* A step that takes a token other than a comment.                         *)
LEMMA SpansDone ==
  ASSUME IInv, SpansInv, LinesSound, NEW type, Token1(type), type # "comment",
         TreeSpans(nodes', nodestack'), error' = "ok" => StackSpans(nodes', nodestack'),
         IF type = "target_end" THEN nodes' = Flushed ELSE Stretched(nodes', Flushed, Here.b)
  PROVE  SpansInv'
<1>1. /\ finished' /\ ~built' /\ pos' = pos + 1 /\ tokens' = tokens /\ comments' = <<>>
      /\ DOMAIN tokens \subseteq Nat /\ pos \in Nat
  BY DEF Token1, Building, IInv, TypeOK, TokenizerTypeOK
<1>2. CommentsBehind'
  BY <1>1 DEF CommentsBehind
<1>3. TokensBehind'
  <2> SUFFICES ASSUME NEW i \in DOMAIN tokens, i >= pos + 1, Stands(i)
               PROVE  NodesBefore(nodes', tokens[i].lines.a)
    BY <1>1 DEF TokensBehind, Stands
  <2>1. i > pos
    BY <1>1
  <2>2. /\ NodesBefore(Flushed, tokens[i].lines.a)
        /\ type # "target_end" => Here.b <= tokens[i].lines.a
    BY <2>1, SpansTaken
  <2> QED
    BY <2>2 DEF NodesBefore, Stretched
<1> QED
  BY <1>1, <1>2, <1>3 DEF SpansInv

LEMMA LeafAdded ==
  ASSUME NEW ns \in Seq(Node), NEW st \in Seq(DOMAIN ns), st # <<>>, Increasing(st),
         Root \in DOMAIN ns, TreeSpans(ns, st), StackSpans(ns, st),
         NEW node \in Node, node.type \notin BlockTypes, node.parent = st[Len(st)],
         BlocksBefore(ns, node.line_start.a)
  PROVE  TreeSpans(Append(ns, node), st) /\ StackSpans(Append(ns, node), st)
<1>1. Len(st) \in DOMAIN st /\ st \in Seq(Nat) /\ Len(ns) + 1 \in Nat
  OBVIOUS
<1>2. TreeSpans(Append(ns, node), Append(st, Len(ns) + 1))
  BY <1>1, TreeAppended
<1>3. TreeSpans(Append(ns, node), st)
  BY <1>1, <1>2, TreeUnpushed
<1> QED
  BY <1>3, StackAppended

LEMMA NewNodeIs ==
  ASSUME NEW type \in NodeTypes, NEW parent \in Nat, NEW ifparent \in Nat,
         NEW range \in LineRange
  PROVE  LET node == NewNode(type, parent, ifparent, range) IN
         /\ node \in Node /\ node.type = type /\ node.parent = parent
         /\ node.ifparent = ifparent /\ node.line_start = range /\ node.line_end = range
  BY DEF NewNode, Node

LEMMA StretchedByNode ==
  ASSUME NEW ns \in Seq(Node), NEW node \in Node, NEW range,
         node.line_start = range, node.line_end = range
  PROVE  Stretched(Append(ns, node), ns, range.b)
<1> DEFINE ms == Append(ns, node)
<1>1. \A n \in DOMAIN ms : (n \in DOMAIN ns /\ ms[n] = ns[n]) \/ ms[n] = node
  OBVIOUS
<1> HIDE DEF ms
<1>2. ASSUME NEW n \in DOMAIN ms
      PROVE  \/ n \in DOMAIN ns /\ ms[n] = ns[n]
             \/ ms[n].line_start.b = range.b /\ ms[n].line_end.b = range.b
  <2>1. CASE ms[n] = node
    BY <2>1
  <2>2. CASE n \in DOMAIN ns /\ ms[n] = ns[n]
    BY <2>2
  <2> QED
    BY <1>1, <2>1, <2>2
<1> QED
  BY <1>2 DEF Stretched, ms

LEMMA BlocksAreNodes ==
  ASSUME NEW ns, NEW l, NodesBefore(ns, l)
  PROVE  BlocksBefore(ns, l)
  BY DEF NodesBefore, BlocksBefore

(* A node that is appended to the top of the stack and not pushed.         *)
LEMMA LeafSpans ==
  ASSUME IInv, SpansInv, LinesSound, NEW tokentype, Token1(tokentype),
         tokentype \notin {"comment", "target_end"}, NEW nodetype \in NodeTypes \ BlockTypes,
         nodes' = Append(Flushed, NewNode(nodetype, Peek(nodestack), NoNode, Here)),
         nodestack' = nodestack
  PROVE  SpansInv'
<1> DEFINE node == NewNode(nodetype, Peek(nodestack), NoNode, Here)
<1>1. Peek(nodestack) \in Nat /\ NoNode \in Nat /\ Here \in LineRange
  BY TokenTaken DEF NoNode
<1>2. /\ node \in Node /\ node.type \notin BlockTypes /\ node.parent = Peek(nodestack)
      /\ node.line_start = Here /\ node.line_end = Here
  BY <1>1, NewNodeIs
<1> HIDE DEF node
<1>3. BlocksBefore(Flushed, Here.a)
  BY SpansTaken, BlocksAreNodes
<1>4. TreeSpans(nodes', nodestack) /\ StackSpans(nodes', nodestack)
  BY <1>2, <1>3, SpansTaken, LeafAdded DEF node
<1>5. Stretched(nodes', Flushed, Here.b)
  BY <1>2, SpansTaken, StretchedByNode DEF node
<1> QED
  BY <1>4, <1>5, SpansDone

(* A node that is appended and pushed.                                     *)
LEMMA PushSpans ==
  ASSUME IInv, SpansInv, LinesSound, NEW tokentype, Token1(tokentype),
         tokentype \notin {"comment", "target_end"},
         NEW st \in Seq(DOMAIN Flushed), st # <<>>, Increasing(st),
         TreeSpans(Flushed, st), StackSpans(Flushed, st),
         NEW type \in NodeTypes, NEW m \in DOMAIN st, NEW ifparent \in Nat,
         m = Len(st) \/ (type \in IfTypes /\ ifparent # NoNode /\ ifparent = st[m]),
         nodes' = Append(Flushed, NewNode(type, st[m], ifparent, Here)),
         nodestack' = Append(st, Next1(Flushed))
  PROVE  SpansInv'
<1> DEFINE node == NewNode(type, st[m], ifparent, Here)
<1>1. st[m] \in Nat /\ Here \in LineRange /\ Flushed \in Seq(Node) /\ Root \in DOMAIN Flushed
  BY SpansTaken
<1>2. /\ node \in Node /\ node.type = type /\ node.parent = st[m] /\ node.ifparent = ifparent
      /\ node.line_start = Here /\ node.line_end = Here
  BY <1>1, NewNodeIs
<1> HIDE DEF node
<1>3. NodesBefore(Flushed, Here.a) /\ BlocksBefore(Flushed, Here.a)
  BY SpansTaken, BlocksAreNodes
<1>4. TreeSpans(nodes', nodestack')
  BY <1>1, <1>2, <1>3, TreeAppended DEF node, Next1
<1>5. StackSpans(nodes', nodestack')
  BY <1>1, <1>2, StackPushed DEF node, Next1
<1>6. Stretched(nodes', Flushed, Here.b)
  BY <1>1, <1>2, StretchedByNode DEF node
<1> QED
  BY <1>4, <1>5, <1>6, SpansDone

(* A target on the top of the stack is no branch.                          *)
LEMMA WithoutTargetSpans ==
  ASSUME IInv, SpansInv, LinesSound, NEW type, Token1(type)
  PROVE  /\ WithoutTarget \in Seq(DOMAIN Flushed) /\ WithoutTarget # <<>>
         /\ Increasing(WithoutTarget)
         /\ TreeSpans(Flushed, WithoutTarget) /\ StackSpans(Flushed, WithoutTarget)
<1> DEFINE top == Len(nodestack)
<1>1. /\ TreeSpans(Flushed, nodestack) /\ StackSpans(Flushed, nodestack)
      /\ Flushed \in Seq(Node) /\ nodestack \in Seq(DOMAIN Flushed) /\ nodestack # <<>>
      /\ Increasing(nodestack) /\ nodestack[1] = Root
      /\ top \in DOMAIN nodestack /\ Peek(nodestack) = nodestack[top]
  BY SpansTaken
<1>2. Stacks(nodes, nodestack, ifstack) /\ Grown(Flushed, nodes)
  BY TokenTaken
<1>3. CASE nodes[Peek(nodestack)].type = "TARGET"
  <2>1. /\ WithoutTarget = Below(nodestack, top)
        /\ Stacks(Flushed, WithoutTarget, ifstack)
    BY <1>3, WithoutTargetSound DEF WithoutTarget
  <2>2. top \in 2 .. Len(nodestack)
    <3>1. nodes[Root].type # "TARGET"
      BY <1>2 DEF Stacks
    <3> QED
      BY <1>1, <1>3, <3>1
  <2>3. Flushed[nodestack[top]].type = "TARGET"
    BY <1>1, <1>2, <1>3 DEF Grown, Stacks
  <2>4. Flushed[nodestack[top]].parent = nodestack[top - 1]
    BY <1>1, <2>2, <2>3, SomeNodeTypes DEF StackSpans, StackHangs
  <2>5. \A k \in top .. Len(nodestack) : Flushed[nodestack[k]].parent >= nodestack[top - 1]
    BY <1>1, <2>2, <2>4
  <2>6. StackSpans(Flushed, WithoutTarget)
    BY <1>1, <2>1, <2>2, <2>5, StackCut
  <2>7. TreeSpans(Flushed, WithoutTarget)
    <3>1. nodestack \in Seq(Nat)
      BY <1>1
    <3> QED
      BY <1>1, <2>1, <3>1, TreeCut
  <2> QED
    BY <2>1, <2>6, <2>7 DEF Stacks
<1>4. CASE nodes[Peek(nodestack)].type # "TARGET"
  BY <1>1, <1>4 DEF WithoutTarget
<1> QED
  BY <1>3, <1>4

(* A step that gives up leaves the tree as it is.                          *)
LEMMA FailSpans ==
  ASSUME IInv, SpansInv, LinesSound, NEW type, Token1(type), type # "comment", Fail
  PROVE  SpansInv'
<1>1. /\ finished' /\ pos' = pos + 1 /\ tokens' = tokens /\ comments' = <<>>
      /\ UNCHANGED <<nodes, nodestack>> /\ error' # "ok"
      /\ DOMAIN tokens \subseteq Nat /\ pos \in Nat
  BY DEF Token1, Building, Fail, IInv, TypeOK, TokenizerTypeOK
<1>2. \A i \in DOMAIN tokens : i >= pos + 1 => i >= pos
  BY <1>1
<1> QED
  BY <1>1, <1>2 DEF SpansInv, CommentsBehind, TokensBehind, Stands

(* A block is closed that nothing has left.                                *)
LEMMA CloseSpans ==
  ASSUME IInv, SpansInv, LinesSound, NEW type, Token1(type), type \notin {"comment", "target_end"},
         NEW j \in 2 .. Len(nodestack), Flushed[nodestack[j]].type \in BlockTypes,
         Unbroken(Flushed, nodestack, j), Flushed[nodestack[j]].parent >= nodestack[j - 1],
         nodes' = [Flushed EXCEPT ![nodestack[j]].line_end = Here],
         nodestack' = Below(nodestack, j)
  PROVE  SpansInv'
<1> DEFINE c == nodestack[j]
<1>1. /\ TreeSpans(Flushed, nodestack) /\ StackSpans(Flushed, nodestack)
      /\ Flushed \in Seq(Node) /\ nodestack \in Seq(DOMAIN Flushed)
      /\ Increasing(nodestack) /\ nodestack[1] = Root
      /\ Here \in LineRange /\ NodesBefore(Flushed, Here.a)
  BY SpansTaken
<1>2. /\ c \in DOMAIN Flushed /\ j \in DOMAIN nodestack /\ j - 1 \in DOMAIN nodestack
      /\ nodestack[j - 1] < c /\ nodestack[j - 1] \in Nat /\ c \in Nat
  <2>1. j \in DOMAIN nodestack /\ j - 1 \in DOMAIN nodestack /\ j - 1 < j
    BY <1>1
  <2>2. DOMAIN Flushed \subseteq Nat
    BY <1>1
  <2>3. c \in DOMAIN Flushed /\ nodestack[j - 1] \in DOMAIN Flushed
    BY <1>1, <2>1
  <2> QED
    BY <1>1, <2>1, <2>2, <2>3 DEF Increasing
<1>3. TreeSpans(nodes', nodestack')
  BY <1>1, TreeClosed
<1>4. StackSpans(nodes', nodestack')
  <2>1. \A k \in j .. Len(nodestack) : Flushed[nodestack[k]].parent >= nodestack[j - 1]
    <3> TAKE k \in j .. Len(nodestack)
    <3>1. k \in DOMAIN nodestack /\ nodestack[k] \in DOMAIN Flushed
      BY <1>1
    <3>2. Flushed[nodestack[k]] \in Node
      BY <1>1, <3>1
    <3>3. Flushed[nodestack[k]].parent \in Nat
      BY <3>2 DEF Node
    <3>4. k # j => Flushed[nodestack[k]].parent >= c
      BY <1>1 DEF Unbroken
    <3> HIDE DEF c
    <3>5. k = j => Flushed[nodestack[k]].parent >= nodestack[j - 1]
      OBVIOUS
    <3> QED
      BY <1>2, <3>3, <3>4, <3>5
  <2>2. StackSpans(Flushed, Below(nodestack, j))
    BY <1>1, <2>1, StackCut
  <2>3. Below(nodestack, j) \in Seq(DOMAIN Flushed)
    BY <1>1, <1>2, CutIncreasing
  <2> QED
    BY <1>1, <1>2, <2>2, <2>3, StackClosed
<1>5. Stretched(nodes', Flushed, Here.b)
  <2>1. /\ DOMAIN nodes' = DOMAIN Flushed
        /\ nodes'[c] = [Flushed[c] EXCEPT !.line_end = Here]
        /\ \A n \in DOMAIN Flushed : n # c => nodes'[n] = Flushed[n]
    BY <1>1, <1>2
  <2>2. Flushed[c] \in Node
    BY <1>1, <1>2
  <2>3. nodes'[c].line_end = Here /\ nodes'[c].line_start = Flushed[c].line_start
    BY <2>1, <2>2 DEF Node
  <2> HIDE DEF c
  <2>4. ASSUME NEW n \in DOMAIN nodes'
        PROVE  /\ nodes'[n].line_start.b = Flushed[n].line_start.b
               /\ nodes'[n].line_end.b \in {Here.b, Flushed[n].line_end.b}
    <3>1. CASE n = c
      BY <2>3, <3>1
    <3>2. CASE n # c
      BY <2>1, <3>2
    <3> QED
      BY <3>1, <3>2
  <2> QED
    BY <2>1, <2>4 DEF Stretched
<1> QED
  BY <1>3, <1>4, <1>5, SpansDone

(* .endfor: what is above the .for is a target at most, which is in it.    *)
LEMMA EndforSpans ==
  ASSUME IInv, SpansInv, LinesSound, Endfor
  PROVE  SpansInv'
<1> DEFINE top == Len(nodestack)
           depth == IF nodes[Peek(nodestack)].type = "TARGET" THEN top - 1 ELSE top
           node == nodestack[depth]
<1>1. Token1("endfor")
  BY DEF Endfor
<1>2. /\ TreeSpans(Flushed, nodestack) /\ StackSpans(Flushed, nodestack)
      /\ Flushed \in Seq(Node) /\ nodestack \in Seq(DOMAIN Flushed) /\ nodestack # <<>>
      /\ Increasing(nodestack) /\ nodestack[1] = Root
      /\ top \in DOMAIN nodestack /\ Peek(nodestack) = nodestack[top]
  BY <1>1, SpansTaken
<1>3. Stacks(nodes, nodestack, ifstack) /\ Grown(Flushed, nodes)
  BY <1>1, TokenTaken
<1>4. \A k \in DOMAIN nodestack : Flushed[nodestack[k]].type = nodes[nodestack[k]].type
  BY <1>3 DEF Stacks, Grown
<1>5. nodes[Root].type = "ROOT"
  BY <1>3 DEF Stacks
<1>6. CASE nodes[node].type = "FOR"
  <2>1. nodes' = [Flushed EXCEPT ![node].line_end = Here] /\ nodestack' = Below(nodestack, depth)
    BY <1>6 DEF Endfor
  <2>2. depth \in 2 .. top
    BY <1>2, <1>5, <1>6
  <2> HIDE DEF depth, node
  <2>3. depth \in DOMAIN nodestack /\ depth - 1 \in DOMAIN nodestack
    BY <1>2, <2>2
  <2>4. Flushed[nodestack[depth]].type = "FOR"
    BY <1>4, <1>6, <2>3 DEF node
  <2>5. Flushed[nodestack[depth]].parent = nodestack[depth - 1]
    BY <1>2, <2>2, <2>4, SomeNodeTypes DEF StackSpans, StackHangs
  <2>6. Unbroken(Flushed, nodestack, depth)
    <3> SUFFICES ASSUME NEW k \in (depth + 1) .. top
                 PROVE  Flushed[nodestack[k]].parent >= nodestack[depth]
      BY DEF Unbroken
    <3>1. k = top /\ depth = top - 1 /\ nodes[nodestack[top]].type = "TARGET"
      BY <1>2, <2>2 DEF depth
    <3>2. Flushed[nodestack[top]].type = "TARGET"
      BY <1>2, <1>4, <3>1
    <3>3. Flushed[nodestack[top]].parent = nodestack[depth]
      <4>1. top \in 2 .. Len(nodestack)
        BY <2>2, <3>1
      <4> QED
        BY <1>2, <3>1, <3>2, <4>1, SomeNodeTypes DEF StackSpans, StackHangs
    <3>4. nodestack[depth] \in Nat
      BY <1>2, <2>3
    <3> QED
      BY <3>1, <3>3, <3>4
  <2>7. nodestack[depth - 1] \in Nat
    BY <1>2, <2>3
  <2>8. "FOR" \in BlockTypes
    BY DEF BlockTypes
  <2>9. Flushed[nodestack[depth]].parent >= nodestack[depth - 1]
    BY <2>5, <2>7
  <2> QED
    BY <1>1, <2>1, <2>2, <2>4, <2>6, <2>8, <2>9, CloseSpans DEF node
<1>7. CASE nodes[node].type # "FOR"
  <2>1. Fail
    BY <1>7 DEF Endfor
  <2> QED
    BY <1>1, <2>1, FailSpans
<1> QED
  BY <1>6, <1>7

(* .endif: every branch above its .if is one of it or of something in it.  *)
LEMMA EndifSpans ==
  ASSUME IInv, SpansInv, LinesSound, Endif
  PROVE  SpansInv'
<1>1. Token1("endif")
  BY DEF Endif
<1>2. CASE ifstack = <<>> /\ Fail
  BY <1>1, <1>2, FailSpans
<1>3. ASSUME NEW i \in DOMAIN ifstack, NEW j \in DOMAIN nodestack, InnermostIf(i),
             nodestack[j] = ifstack[i],
             nodes' = [Flushed EXCEPT ![ifstack[i]].line_end = Here],
             nodestack' = Below(nodestack, j)
      PROVE  SpansInv'
  <2>1. /\ StackSpans(Flushed, nodestack)
        /\ Flushed \in Seq(Node) /\ nodestack \in Seq(DOMAIN Flushed)
        /\ Increasing(nodestack) /\ nodestack[1] = Root
    BY <1>1, SpansTaken
  <2>2. /\ Stacks(Flushed, nodestack, ifstack) /\ Links(Flushed, ifstack)
        /\ Stacks(nodes, nodestack, ifstack) /\ Grown(Flushed, nodes)
    BY <1>1, TokenTaken
  <2>3. /\ Flushed[nodestack[j]].type \in IfTypes /\ Flushed[nodestack[j]].ifparent = NoNode
        /\ Flushed[Root].type = "ROOT"
    <3>1. ifstack[i] \in DOMAIN nodes /\ nodes[ifstack[i]].ifparent = NoNode
      BY <1>3, <2>2 DEF Stacks, InnermostIf
    <3> QED
      BY <1>3, <2>2, <3>1 DEF Stacks, Grown
  <2>4. j \in 2 .. Len(nodestack)
    BY <2>1, <2>3, SomeNodeTypes
  <2>5. j - 1 \in DOMAIN nodestack /\ \A k \in DOMAIN nodestack : nodestack[k] \in Nat
    BY <2>1, <2>4
  <2>6. Flushed[nodestack[j]].parent = nodestack[j - 1]
    BY <2>1, <2>3, <2>4 DEF StackSpans, StackHangs
  <2>7. Unbroken(Flushed, nodestack, j)
    <3> SUFFICES ASSUME NEW k \in (j + 1) .. Len(nodestack)
                 PROVE  Flushed[nodestack[k]].parent >= nodestack[j]
      BY DEF Unbroken
    <3>1. k \in DOMAIN nodestack /\ k - 1 \in DOMAIN nodestack /\ k \in 2 .. Len(nodestack)
      BY <2>1, <2>4
    <3>2. CASE Flushed[nodestack[k]].parent = nodestack[k - 1]
      <4>1. j < k - 1 => nodestack[j] < nodestack[k - 1]
        BY <2>1, <3>1 DEF Increasing
      <4>2. j = k - 1 \/ j < k - 1
        BY <2>1, <2>4
      <4> QED
        BY <2>5, <3>1, <3>2, <4>1, <4>2
    <3>3. CASE /\ Flushed[nodestack[k]].type \in IfTypes
               /\ Flushed[nodestack[k]].ifparent # NoNode
               /\ Flushed[nodestack[k]].parent = Flushed[nodestack[k]].ifparent
      <4>1. PICK h \in DOMAIN ifstack : ifstack[h] = nodestack[k]
        BY <2>2, <3>1, <3>3 DEF Stacks
      <4>2. h > 1 /\ Flushed[nodestack[k]].ifparent = ifstack[h - 1]
        BY <2>2, <3>3, <4>1 DEF Links
      <4>3. /\ DOMAIN ifstack = 1 .. Len(ifstack) /\ Len(ifstack) \in Nat /\ Increasing(ifstack)
            /\ \A g \in DOMAIN ifstack : ifstack[g] \in Nat
        <5>1. ifstack \in Seq(DOMAIN Flushed) /\ Increasing(ifstack)
          BY <2>2 DEF Stacks
        <5>2. DOMAIN Flushed \subseteq Nat
          BY <2>1
        <5> QED
          BY <5>1, <5>2
      <4>4. ifstack[i] < ifstack[h]
        <5>1. j < k
          BY <2>1, <2>4
        <5> QED
          BY <1>3, <2>1, <3>1, <4>1, <5>1 DEF Increasing
      <4>5. i < h
        <5>1. h < i => ifstack[h] < ifstack[i]
          BY <4>3 DEF Increasing
        <5>2. ifstack[h] \in Nat /\ ifstack[i] \in Nat /\ h \in Nat /\ i \in Nat
          BY <4>3
        <5> QED
          BY <4>4, <5>1, <5>2
      <4>6. h - 1 \in DOMAIN ifstack /\ (i = h - 1 \/ i < h - 1)
        BY <4>2, <4>3, <4>5
      <4>7. i < h - 1 => ifstack[i] < ifstack[h - 1]
        BY <4>3, <4>6 DEF Increasing
      <4> QED
        BY <1>3, <3>3, <4>2, <4>3, <4>6, <4>7
    <3> QED
      BY <2>1, <3>1, <3>2, <3>3 DEF StackSpans, StackHangs
  <2>8. Flushed[nodestack[j]].type \in BlockTypes
    BY <2>3 DEF BlockTypes
  <2>9. Flushed[nodestack[j]].parent >= nodestack[j - 1]
    BY <2>5, <2>6
  <2> QED
    BY <1>1, <1>3, <2>4, <2>7, <2>8, <2>9, CloseSpans
<1> QED
  BY <1>2, <1>3 DEF Endif

(* .elif and .else hang in the conditional on top of ifstack.              *)
LEMMA BranchSpans ==
  ASSUME IInv, SpansInv, LinesSound, NEW tokentype \in {"elif", "else"}, NEW nodetype \in IfTypes,
         Branch(tokentype, nodetype)
  PROVE  SpansInv'
<1>1. Token1(tokentype)
  BY DEF Branch
<1>2. /\ TreeSpans(Flushed, nodestack) /\ StackSpans(Flushed, nodestack)
      /\ nodestack \in Seq(DOMAIN Flushed) /\ nodestack # <<>> /\ Increasing(nodestack)
      /\ Len(nodestack) \in DOMAIN nodestack /\ Peek(nodestack) = nodestack[Len(nodestack)]
  BY <1>1, SpansTaken
<1>3. nodetype \in NodeTypes
  BY SomeNodeTypes
<1>4. CASE ifstack = <<>>
  <2>1. PushIf(nodetype, Peek(nodestack), NoNode) /\ NoNode \in Nat
    BY <1>4 DEF Branch, NoNode
  <2> QED
    BY <1>1, <1>2, <1>3, <2>1, PushSpans DEF PushIf
<1>5. CASE ifstack # <<>>
  <2>1. PushIf(nodetype, Peek(ifstack), Peek(ifstack))
    BY <1>5 DEF Branch
  <2>2. Stacks(Flushed, nodestack, ifstack) /\ Flushed \in Seq(Node)
    BY <1>1, TokenTaken
  <2>3. Len(ifstack) \in DOMAIN ifstack /\ Peek(ifstack) = ifstack[Len(ifstack)]
    BY <1>5, <2>2 DEF Stacks, Peek
  <2>4. PICK m \in DOMAIN nodestack : nodestack[m] = Peek(ifstack)
    BY <2>2, <2>3 DEF Stacks
  <2>5. nodestack[m] \in Nat /\ nodestack[m] # NoNode
    BY <1>2, <2>2 DEF NoNode
  <2> QED
    BY <1>1, <1>2, <1>3, <2>1, <2>4, <2>5, PushSpans DEF PushIf
<1> QED
  BY <1>4, <1>5

(* A command brings its own target if it has none.                         *)
LEMMA CommandSpans ==
  ASSUME IInv, SpansInv, LinesSound, NEW tokentype \in {"command", "no_op_command"},
         NEW nodetype \in NodeTypes \ BlockTypes, Command(tokentype, nodetype)
  PROVE  SpansInv'
<1>1. Token1(tokentype)
  BY DEF Command
<1>2. CASE HasTarget[Peek(nodestack)]
  <2>1. /\ nodes' = Append(Flushed, NewNode(nodetype, Peek(nodestack), NoNode, Here))
        /\ nodestack' = nodestack
    BY <1>2 DEF Command
  <2> QED
    BY <1>1, <2>1, LeafSpans
<1>3. CASE ~HasTarget[Peek(nodestack)]
  <2> DEFINE n == Next1(Flushed)
             target == NewNode("TARGET", Peek(nodestack), NoNode, Here)
             command == NewNode(nodetype, n, NoNode, Here)
             ns == Append(Flushed, target)
             st == Append(nodestack, n)
  <2>1. nodes' = Flushed \o <<target, command>> /\ nodestack' = st
    BY <1>3 DEF Command
  <2>2. /\ TreeSpans(Flushed, nodestack) /\ StackSpans(Flushed, nodestack)
        /\ Flushed \in Seq(Node) /\ nodestack \in Seq(DOMAIN Flushed) /\ nodestack # <<>>
        /\ Increasing(nodestack) /\ Root \in DOMAIN Flushed
        /\ Len(nodestack) \in DOMAIN nodestack /\ Peek(nodestack) = nodestack[Len(nodestack)]
        /\ Here \in LineRange /\ NodesBefore(Flushed, Here.a) /\ BlocksBefore(Flushed, Here.a)
    BY <1>1, SpansTaken, BlocksAreNodes
  <2>3. /\ n = Len(Flushed) + 1 /\ n \in Nat /\ Peek(nodestack) \in Nat /\ NoNode \in Nat
    BY <2>2 DEF Next1, NoNode
  <2>4. "TARGET" \in NodeTypes \ BlockTypes
    BY SomeNodeTypes DEF BlockTypes
  <2>5. /\ target \in Node /\ target.type = "TARGET" /\ target.parent = Peek(nodestack)
        /\ target.line_start = Here /\ target.line_end = Here
        /\ command \in Node /\ command.type = nodetype /\ command.parent = n
        /\ command.line_start = Here /\ command.line_end = Here
    BY <2>2, <2>3, <2>4, NewNodeIs
  <2> HIDE DEF target, command, n
  <2>6. nodes' = Append(ns, command)
    BY <2>1, <2>2, <2>5
  <2>7. TreeSpans(ns, st) /\ StackSpans(ns, st)
    BY <2>2, <2>3, <2>4, <2>5, TreeAppended, StackPushed
  <2>8. /\ ns \in Seq(Node) /\ DOMAIN ns = 1 .. n /\ ns[n] = target
        /\ \A k \in DOMAIN ns : k # n => k \in DOMAIN Flushed /\ ns[k] = Flushed[k]
        /\ DOMAIN Flushed \subseteq DOMAIN ns
    BY <2>2, <2>3, <2>5
  <2>9. st \in Seq(DOMAIN ns) /\ st # <<>> /\ st[Len(st)] = n
    BY <2>2, <2>3, <2>8
  <2>10. Increasing(st)
    <3>1. nodestack \in Seq(Nat) /\ \A k \in DOMAIN nodestack : nodestack[k] < n
      BY <2>2, <2>3
    <3> QED
      BY <2>2, <2>3, <3>1, PushedIncreasing
  <2>11. BlocksBefore(ns, Here.a)
    BY <2>2, <2>4, <2>5, <2>8 DEF BlocksBefore
  <2>12. Root \in DOMAIN ns
    BY <2>2, <2>8
  <2>13. Stretched(ns, Flushed, Here.b)
    BY <2>2, <2>5, StretchedByNode
  <2>14. Stretched(nodes', ns, Here.b)
    <3> HIDE DEF ns
    <3> QED
      BY <2>5, <2>6, <2>8, StretchedByNode
  <2> HIDE DEF ns, st
  <2>15. TreeSpans(nodes', nodestack') /\ StackSpans(nodes', nodestack')
    BY <2>1, <2>4, <2>5, <2>6, <2>7, <2>8, <2>9, <2>10, <2>11, <2>12, LeafAdded
  <2>16. Stretched(nodes', Flushed, Here.b)
    BY <2>13, <2>14 DEF Stretched
  <2> QED
    BY <1>1, <2>15, <2>16, SpansDone
<1> QED
  BY <1>2, <1>3

(* A comment waits behind every block there is.                            *)
LEMMA CommentSpans ==
  ASSUME IInv, SpansInv, LinesSound, Comment
  PROVE  SpansInv'
<1>1. Token1("comment") /\ UNCHANGED <<error, nodes, nodestack, ifstack>>
  BY DEF Comment
<1>2. /\ finished' /\ ~built' /\ error = "ok" /\ ~built /\ pos' = pos + 1 /\ tokens' = tokens
      /\ comments' = Append(comments, Here) /\ comments \in Seq(LineRange) /\ Here \in LineRange
      /\ DOMAIN tokens \subseteq Nat /\ pos \in DOMAIN tokens /\ tokens[pos].type = "comment"
  <2>1. comments' = Append(comments, Here)
    BY <1>1 DEF Token1, Here
  <2>2. comments \in Seq(LineRange)
    BY DEF IInv, TypeOK
  <2>3. Here \in LineRange
    BY <1>1, TokenTaken
  <2> QED
    BY <1>1, <2>1, <2>2, <2>3, TokenHere
<1>3. \A c \in DOMAIN comments' : (c \in DOMAIN comments /\ comments'[c] = comments[c]) \/ comments'[c] = Here
  BY <1>2
<1>4. CommentsBehind'
  <2>1. BlocksBefore(nodes, Here.a)
    <3>1. NodesBefore(nodes, Here.a)
      BY <1>2 DEF SpansInv, TokensBehind, Stands, Here
    <3> QED
      BY <3>1, BlocksAreNodes
  <2> QED
    BY <1>1, <1>3, <2>1 DEF SpansInv, CommentsBehind
<1>5. TokensBehind'
  <2> SUFFICES ASSUME NEW i \in DOMAIN tokens, i >= pos + 1, Stands(i)
               PROVE  /\ NodesBefore(nodes, tokens[i].lines.a)
                      /\ \A c \in DOMAIN comments' : comments'[c].b <= tokens[i].lines.a
    BY <1>1, <1>2 DEF TokensBehind, Stands
  <2>1. i > pos /\ i >= pos
    BY <1>2
  <2>2. Here.b <= tokens[i].lines.a
    BY <1>1, <2>1, SpansTaken
  <2> QED
    BY <1>3, <2>1, <2>2 DEF SpansInv, TokensBehind
<1> QED
  BY <1>1, <1>2, <1>4, <1>5 DEF SpansInv

(* At the end what is left of the comments is flushed.                     *)
LEMMA FinishSpans ==
  ASSUME IInv, SpansInv, BuilderFinish
  PROVE  SpansInv'
<1>1. /\ Building /\ nodestack # <<>> /\ nodes' = Flushed /\ comments' = <<>>
      /\ nodestack' = Below(nodestack, Len(nodestack))
      /\ finished' /\ (error' # "ok" \/ built')
      /\ tokens' = tokens /\ pos' = Len(tokens) + 1 /\ tokens \in Seq(Token)
  BY DEF BuilderFinish, Building, IInv, TypeOK, TokenizerTypeOK
<1>2. TreeSpans(Flushed, nodestack)
  BY <1>1, FlushedSpans
<1>3. nodestack \in Seq(Nat) /\ Len(nodestack) \in DOMAIN nodestack
  <2>1. nodes \in Seq(Node) /\ nodestack \in Seq(DOMAIN nodes)
    BY DEF IInv, TypeOK
  <2>2. DOMAIN nodes \subseteq Nat
    BY <2>1
  <2> QED
    BY <1>1, <2>1, <2>2
<1>4. TreeSpans(nodes', nodestack')
  BY <1>1, <1>2, <1>3, TreeCut
<1>5. \A i \in DOMAIN tokens : ~(i >= Len(tokens) + 1)
  BY <1>1
<1> QED
  BY <1>1, <1>4, <1>5 DEF SpansInv, CommentsBehind, TokensBehind

LEMMA BuilderSpans ==
  ASSUME IInv, SpansInv, LinesSound, BuilderStep
  PROVE  SpansInv'
<1>1. CASE Comment
  BY <1>1, CommentSpans
<1>2. CASE Malformed
  BY <1>2, FailSpans DEF Malformed
<1>3. CASE Include \/ Expr \/ Variable
  <2>1. PICK tokentype \in {"include", "expr", "var"}, nodetype \in NodeTypes \ IfTypes :
          Leaf(tokentype, nodetype) /\ nodetype # "FOR"
    BY <1>3, SomeNodeTypes DEF Include, Expr, Variable
  <2>2. nodetype \in NodeTypes \ BlockTypes
    BY <2>1 DEF BlockTypes
  <2> QED
    BY <2>1, <2>2, LeafSpans DEF Leaf
<1>4. CASE For \/ If
  <2>1. PICK tokentype \in {"for", "if"}, type \in {"FOR", "IF"} :
          /\ Token1(tokentype)
          /\ nodes' = Append(Flushed, NewNode(type, Peek(nodestack), NoNode, Here))
          /\ nodestack' = Append(nodestack, Next1(Flushed))
    BY <1>4 DEF For, If, PushIf
  <2>2. type \in NodeTypes /\ NoNode \in Nat
    BY SomeNodeTypes DEF NoNode
  <2> QED
    BY <2>1, <2>2, SpansTaken, PushSpans
<1>5. CASE Endfor
  BY <1>5, EndforSpans
<1>6. CASE Elif \/ Else
  <2>1. "IF" \in IfTypes /\ "ELSE" \in IfTypes
    BY DEF IfTypes
  <2> QED
    BY <1>6, <2>1, BranchSpans DEF Elif, Else
<1>7. CASE Endif
  BY <1>7, EndifSpans
<1>8. CASE TargetStart
  <2>1. /\ Token1("target_start")
        /\ nodes' = Append(Flushed, NewNode("TARGET", Peek(WithoutTarget), NoNode, Here))
        /\ nodestack' = Append(WithoutTarget, Next1(Flushed))
    BY <1>8 DEF TargetStart
  <2>2. /\ WithoutTarget \in Seq(DOMAIN Flushed) /\ WithoutTarget # <<>>
        /\ Increasing(WithoutTarget)
        /\ TreeSpans(Flushed, WithoutTarget) /\ StackSpans(Flushed, WithoutTarget)
    BY <2>1, WithoutTargetSpans
  <2> DEFINE st == WithoutTarget
  <2> HIDE DEF st
  <2>3. Len(st) \in DOMAIN st /\ Peek(st) = st[Len(st)]
    BY <2>2 DEF Peek, st
  <2>4. "TARGET" \in NodeTypes /\ NoNode \in Nat
    BY SomeNodeTypes DEF NoNode
  <2> QED
    BY <2>1, <2>2, <2>3, <2>4, PushSpans DEF st
<1>9. CASE TargetEnd
  <2>1. Token1("target_end") /\ nodes' = Flushed /\ nodestack' = WithoutTarget
    BY <1>9 DEF TargetEnd
  <2>2. TreeSpans(nodes', nodestack') /\ StackSpans(nodes', nodestack')
    BY <2>1, WithoutTargetSpans
  <2> QED
    BY <2>1, <2>2, SpansDone
<1>10. CASE TargetCommand \/ NoOpCommand
  <2>1. {"COMMAND", "NO_OP_COMMAND"} \subseteq NodeTypes \ BlockTypes
    BY SomeNodeTypes DEF BlockTypes
  <2> QED
    BY <1>10, <2>1, CommandSpans DEF TargetCommand, NoOpCommand
<1>11. CASE BuilderFinish
  BY <1>11, FinishSpans
<1> QED
  BY <1>1, <1>2, <1>3, <1>4, <1>5, <1>6, <1>7, <1>8, <1>9, <1>10, <1>11 DEF BuilderStep

-----------------------------------------------------------------------------
(* What Ancestors chooses: a node has its parent and those of its parent.  *)
Above(up) ==
  up = [n \in DOMAIN nodes |->
          IF n = Root THEN {} ELSE {nodes[n].parent} \cup up[nodes[n].parent]]

(* The sets that have everything above n.                                  *)
Closure(n) ==
  {T \in SUBSET (DOMAIN nodes) :
     /\ n # Root => nodes[n].parent \in T
     /\ \A m \in T : m # Root => nodes[m].parent \in T}

(* Ancestors has a function to choose.                                     *)
LEMMA SomeAbove ==
  ASSUME ParentsBelow(nodes), nodes \in Seq(Node)
  PROVE  \E up : Above(up)
<1> DEFINE up == [n \in DOMAIN nodes |-> {m \in DOMAIN nodes : \A T \in Closure(n) : m \in T}]
<1>1. \A n \in DOMAIN nodes : n # Root => nodes[n].parent \in DOMAIN nodes
  BY DEF ParentsBelow
<1>2. ASSUME NEW n \in DOMAIN nodes
      PROVE  up[n] = IF n = Root THEN {} ELSE {nodes[n].parent} \cup up[nodes[n].parent]
  <2>1. CASE n = Root
    <3>1. {} \in Closure(n)
      BY <2>1 DEF Closure
    <3> QED
      BY <2>1, <3>1
  <2>2. CASE n # Root
    <3> DEFINE p == nodes[n].parent
    <3>1. p \in DOMAIN nodes
      BY <1>1, <2>2
    <3>2. p \in up[n]
      BY <2>2, <3>1 DEF Closure
    <3>3. up[p] \subseteq up[n]
      <4>1. \A T \in Closure(n) : T \in Closure(p)
        BY <2>2, <3>1 DEF Closure
      <4> QED
        BY <3>1, <4>1
    <3>4. up[n] \subseteq {p} \cup up[p]
      <4> DEFINE S == {p} \cup up[p]
      <4>1. S \in SUBSET (DOMAIN nodes) /\ p \in S
        BY <3>1
      <4>2. ASSUME NEW m \in S, m # Root
            PROVE  nodes[m].parent \in S
        <5>1. m \in DOMAIN nodes /\ nodes[m].parent \in DOMAIN nodes
          BY <1>1, <4>1, <4>2
        <5>2. \A T \in Closure(p) : nodes[m].parent \in T
          BY <3>1, <4>2 DEF Closure
        <5> QED
          BY <3>1, <5>1, <5>2
      <4> HIDE DEF S
      <4>3. S \in Closure(n)
        BY <2>2, <4>1, <4>2 DEF Closure
      <4> QED
        BY <4>3 DEF S
    <3> HIDE DEF up
    <3>5. up[n] = {p} \cup up[p]
      BY <3>2, <3>3, <3>4
    <3> QED
      BY <2>2, <3>5
  <2> QED
    BY <2>1, <2>2
<1>3. Above(up)
  <2> DEFINE e == [n \in DOMAIN nodes |->
                     IF n = Root THEN {} ELSE {nodes[n].parent} \cup up[nodes[n].parent]]
  <2>1. up = [n \in DOMAIN nodes |-> up[n]]
    OBVIOUS
  <2> HIDE DEF up
  <2>2. up = e
    BY <1>2, <2>1
  <2> QED
    BY <2>2 DEF Above
<1> QED
  BY <1>3

LEMMA AncestorsAre ==
  ASSUME ParentsBelow(nodes), nodes \in Seq(Node)
  PROVE  /\ Ancestors[Root] = {}
         /\ \A n \in DOMAIN nodes \ {Root} :
              Ancestors[n] = {nodes[n].parent} \cup Ancestors[nodes[n].parent]
<1>1. Ancestors = CHOOSE up : Above(up)
  BY DEF Ancestors, Above
<1>2. Above(Ancestors)
  BY <1>1, SomeAbove
<1> DEFINE g == Ancestors
<1>3. Above(g)
  BY <1>2
<1> HIDE DEF g
<1>4. \A n \in DOMAIN nodes :
        g[n] = IF n = Root THEN {} ELSE {nodes[n].parent} \cup g[nodes[n].parent]
  BY <1>3, Zenon DEF Above
<1>5. /\ g[Root] = {}
      /\ \A n \in DOMAIN nodes \ {Root} : g[n] = {nodes[n].parent} \cup g[nodes[n].parent]
  BY <1>4 DEF ParentsBelow
<1> QED
  BY <1>5 DEF g

(* The nodes of a span have p above them, and the others do not.           *)
LEMMA SpanIsBelow ==
  ASSUME ParentsBelow(nodes), nodes \in Seq(Node),
         NEW p \in DOMAIN nodes \ {Root}, NEW q \in p .. Len(nodes), Spanned(nodes, p, q),
         NEW n \in DOMAIN nodes, n # p
  PROVE  p \in Ancestors[n] <=> n \in (p + 1) .. q
<1> DEFINE up == Ancestors
           wrong == {m \in DOMAIN nodes \ {p} : ~(p \in up[m] <=> m \in (p + 1) .. q)}
<1>1. /\ up[Root] = {}
      /\ \A m \in DOMAIN nodes \ {Root} : up[m] = {nodes[m].parent} \cup up[nodes[m].parent]
  BY AncestorsAre
<1> HIDE DEF up
<1>2. DOMAIN nodes = 1 .. Len(nodes) /\ Len(nodes) \in Nat
  OBVIOUS
<1>3. p \in Nat /\ p > 1 /\ q \in Nat /\ p <= q /\ q <= Len(nodes)
  BY <1>2 DEF Root
<1>4. SUFFICES ASSUME wrong # {}
               PROVE  FALSE
  BY DEF up
<1>5. wrong \subseteq Nat
  BY <1>2
<1>6. PICK m \in wrong : \A k \in wrong : ~(k < m)
  BY <1>4, <1>5, LeastNatural
<1>7. m \in DOMAIN nodes /\ m # p /\ m \in Nat /\ ~(p \in up[m] <=> m \in (p + 1) .. q)
  BY <1>2, <1>6
<1>8. \A k \in DOMAIN nodes : k < m /\ k # p => (p \in up[k] <=> k \in (p + 1) .. q)
  BY <1>6
<1> HIDE DEF wrong
<1>9. CASE m = Root
  BY <1>1, <1>3, <1>7, <1>9 DEF Root
<1>10. CASE m # Root
  <2> DEFINE k == nodes[m].parent
  <2>1. k \in 1 .. (m - 1) /\ k \in DOMAIN nodes /\ k < m /\ k \in Nat
    <3>1. k \in 1 .. (m - 1)
      BY <1>7, <1>10 DEF ParentsBelow
    <3> QED
      BY <1>2, <1>7, <3>1
  <2>2. up[m] = {k} \cup up[k]
    BY <1>1, <1>7, <1>10
  <2>3. m \in (p + 1) .. q => k \in p .. q
    BY DEF Spanned
  <2>4. m > q => k < p \/ k > q
    BY <1>2, <1>3, <1>7 DEF Spanned
  <2> HIDE DEF k
  <2>5. CASE k = p
    BY <1>3, <1>7, <2>1, <2>2, <2>4, <2>5
  <2>6. CASE k # p
    <3>1. p \in up[m] <=> k \in (p + 1) .. q
      BY <1>8, <2>1, <2>2, <2>6
    <3> QED
      BY <1>3, <1>7, <2>1, <2>3, <2>4, <2>6, <3>1
  <2> QED
    BY <2>5, <2>6
<1> QED
  BY <1>9, <1>10

LEMMA SpansAreNested ==
  ASSUME IInv, SpansInv
  PROVE  SpansNest
<1> SUFFICES ASSUME NEW n \in DOMAIN nodes, NEW p \in DOMAIN nodes \ {Root, n},
                    nodes[p].type \in IfTypes \cup {"FOR"}, Closed(p)
             PROVE  IF p \in Ancestors[n]
                    THEN /\ nodes[p].line_start.b <= nodes[n].line_start.a
                         /\ nodes[n].line_end.b <= nodes[p].line_end.a
                    ELSE \/ nodes[n].line_start.b <= nodes[p].line_start.a
                         \/ nodes[p].line_end.b <= nodes[n].line_start.a
  BY DEF SpansNest
<1>1. nodes \in Seq(Node) /\ ParentsBelow(nodes) /\ BlocksStart(nodes) /\ nodes[p].type \in BlockTypes
  BY DEF IInv, TypeOK, SpansInv, TreeSpans, BlockTypes
<1>2. PICK q \in p .. Len(nodes) : Spanned(nodes, p, q)
  BY <1>1 DEF SpansInv, TreeSpans, BlocksSpanned, Closed
<1>3. p \in Ancestors[n] <=> n \in (p + 1) .. q
  BY <1>1, <1>2, SpanIsBelow
<1> DEFINE inside == p \in Ancestors[n]
<1> HIDE DEF inside
<1>4. /\ DOMAIN nodes = 1 .. Len(nodes) /\ Len(nodes) \in Nat /\ n \in Nat /\ p \in Nat
      /\ q \in Nat /\ p <= q /\ q <= Len(nodes) /\ n # p /\ n <= Len(nodes)
  BY <1>1
<1>5. CASE n \in (p + 1) .. q
  <2>1. n > p
    BY <1>4, <1>5
  <2> QED
    BY <1>1, <1>2, <1>3, <1>5, <2>1 DEF BlocksStart, Spanned
<1>6. CASE n < p
  <2>1. n \notin (p + 1) .. q
    BY <1>4, <1>6
  <2> QED
    BY <1>1, <1>3, <1>6, <2>1 DEF BlocksStart
<1>7. CASE n > q
  <2>1. n \notin (p + 1) .. q /\ n \in (q + 1) .. Len(nodes)
    BY <1>4, <1>7
  <2> QED
    BY <1>2, <1>3, <2>1 DEF Spanned
<1> QED
  BY <1>4, <1>5, <1>6, <1>7

(* Every line is where the stack of the builder says: what is open goes on *)
(* with the next token, and what was closed is closed for good.            *)
THEOREM SpansStaySound == Spec => [](IInv /\ LinesSound /\ SpansInv)
<1> DEFINE Inv == IInv /\ LinesSound /\ SpansInv
<1>1. Init => Inv
  <2> SUFFICES ASSUME Init
               PROVE  Inv
    OBVIOUS
  <2>1. IInv
    BY InitSafe
  <2>2. LinesSound
    BY <2>1 DEF Init, TokenizerInit, IInv, TypeOK, LinesSound, LinesIInv, PendingRange,
                PendingLines, LinesTaken, InOrder, TakenOnce, Within, RangesWithinInput
  <2>3. /\ nodes = <<RootNode>> /\ nodestack = <<Root>> /\ comments = <<>> /\ tokens = <<>>
        /\ DOMAIN nodes = {Root} /\ nodes[Root].type = "ROOT"
    BY DEF Init, TokenizerInit, RootNode, NewNode, Root
  <2>4. "ROOT" \notin BlockTypes
    BY SomeNodeTypes DEF BlockTypes
  <2>5. TreeSpans(nodes, nodestack)
    BY <2>3, <2>4 DEF TreeSpans, ParentsBelow, BlocksStart, BlocksSpanned
  <2>6. StackSpans(nodes, nodestack)
    <3>1. \A k \in 2 .. Len(nodestack) : FALSE
      BY <2>3
    <3>2. \A j \in DOMAIN nodestack, n \in DOMAIN nodes : ~(n > nodestack[j])
      BY <2>3 DEF Root
    <3> QED
      BY <3>1, <3>2 DEF StackSpans, StackHangs, OpenSpans
  <2> QED
    BY <2>1, <2>2, <2>3, <2>5, <2>6 DEF SpansInv, NotBegun, CommentsBehind, TokensBehind
<1>2. Inv /\ [Next]_vars => Inv'
  <2> SUFFICES ASSUME Inv, [Next]_vars
               PROVE  Inv'
    OBVIOUS
  <2>1. IInv'
    BY NextSafe
  <2>2. CASE BuilderStep
    BY <2>1, <2>2, BuilderKeepsLines, BuilderSpans
  <2>3. CASE TokenizerNext /\ UNCHANGED builderVars
    <3>1. LinesSound'
      BY <2>1, <2>3, LinesStep, RangesStep DEF LinesSound, LinesIInv, IInv, TypeOK
    <3>2. ~finished /\ error = "ok"
      BY <2>3 DEF TokenizerNext, FeedNul, FeedContinued, FeedLine, TokenizerFinish, Reading
    <3>3. /\ NotBegun /\ NotBegun' /\ UNCHANGED <<nodes, nodestack, comments, built, pos>>
      BY <2>3, <3>2 DEF SpansInv, NotBegun, builderVars
    <3>4. ASSUME NEW i \in DOMAIN tokens'
          PROVE  NodesBefore(nodes, tokens'[i].lines.a)
      <4>1. tokens'[i] \in Token
        BY <2>1 DEF IInv, TypeOK, TokenizerTypeOK
      <4>2. tokens'[i].lines.a \in Nat
        BY <4>1 DEF Token, LineRange
      <4> QED
        BY <3>3, <4>2 DEF NotBegun, NodesBefore, RootNode, NewNode
    <3>5. CommentsBehind' /\ TokensBehind'
      BY <3>3, <3>4 DEF NotBegun, CommentsBehind, TokensBehind
    <3> QED
      BY <2>1, <3>1, <3>2, <3>3, <3>5 DEF SpansInv
  <2>4. CASE UNCHANGED vars
    BY <2>1, <2>4 DEF vars, tokenizerVars, builderVars, LinesSound, LinesIInv, TokenizerTypeOK,
                      PendingRange, PendingLines, LinesTaken, RangesWithinInput, Stands,
                      SpansInv, NotBegun, CommentsBehind, TokensBehind
  <2> QED
    BY <2>2, <2>3, <2>4 DEF Next, Stopped
<1> QED
  BY <1>1, <1>2, PTL DEF Spec

(* What is inside a closed .if or .for in the tree is inside it in the     *)
(* file, and what is behind it in the file is not inside it in the tree:   *)
(* whatever is open when an .endif or .endfor is met.                      *)
THEOREM SpansStayNested == Spec => []SpansNest
<1>1. IInv /\ LinesSound /\ SpansInv => SpansNest
  BY SpansAreNested
<1> QED
  BY <1>1, SpansStaySound, PTL

-----------------------------------------------------------------------------
(* The line behind the last one that has a token.                          *)
LinesEnd == IF continued /\ inbuf = "none" THEN rawlines ELSE rawlines + 1

(* Only a line of nothing but a backslash at the end has no token.         *)
TailSound ==
  /\ continued => rawlines >= 1
  /\ finished => \A i \in DOMAIN tokens : Stands(i) => tokens[i].lines.b <= LinesEnd

(* n is the command the unassociated target m was put in for.              *)
Shares(ns, m, n) ==
  /\ n = m + 1 /\ ns[m].type = "TARGET" /\ ns[n].type \in {"COMMAND", "NO_OP_COMMAND"}
  /\ ns[n].parent = m /\ ns[n].line_start = ns[m].line_start

(* The nodes start one behind the other.                                   *)
StartsApart(ns) ==
  \A m, n \in DOMAIN ns : m < n => ns[m].line_start.b <= ns[n].line_start.a \/ Shares(ns, m, n)

Inside(range, end) == 1 <= range.a /\ range.a < range.b /\ range.b <= end

AllInside(ns, end) ==
  \A n \in DOMAIN ns \ {Root} : Inside(ns[n].line_start, end) /\ Inside(ns[n].line_end, end)

(* What ends a block is behind its start and on none of the lines of a     *)
(* node.                                                                   *)
EndsApart(ns) ==
  \A p \in DOMAIN ns : ns[p].type \in BlockTypes /\ ns[p].line_end # ns[p].line_start =>
    /\ ns[p].line_start.b <= ns[p].line_end.a
    /\ \A n \in DOMAIN ns :
         \/ ns[n].line_start.b <= ns[p].line_end.a
         \/ ns[p].line_end.b <= ns[n].line_start.a /\ ns[p].line_end.b <= ns[n].line_end.b

(* Only a container has children or is on the stack.                       *)
HoldersHold(ns) == \A n \in DOMAIN ns \ {Root} : ns[ns[n].parent].type \in Containers
StackHolds(ns, st) == \A k \in DOMAIN st : ns[st[k]].type \in Containers

Laid(ns, end) == StartsApart(ns) /\ AllInside(ns, end) /\ EndsApart(ns) /\ HoldersHold(ns)

(* A node whose line_end the printer prints.                               *)
Ends(ns, p) == ns[p].type = "FOR" \/ (ns[p].type \in IfTypes /\ ns[p].ifparent = NoNode)

(* The lines of a token are those of a node, end one, or are pending.      *)
Placed(ns, cs, range) ==
  \/ \E n \in DOMAIN ns : ns[n].line_start.a <= range.a /\ range.b <= ns[n].line_start.b
  \/ \E p \in DOMAIN ns : Ends(ns, p) /\ ns[p].line_end = range
  \/ \E c \in DOMAIN cs : cs[c] = range

TokensPlaced(ns, cs, p) == \A i \in DOMAIN tokens : i < p /\ Stands(i) => Placed(ns, cs, tokens[i].lines)

(* A token before p has one of these types and these lines.                *)
Taken(types, range, p) ==
  \E i \in DOMAIN tokens : i < p /\ tokens[i].type \in types /\ tokens[i].lines = range

(* A target begins with its own token or with that of a command.           *)
TargetTaken(ns, n, p) ==
  \/ Taken({"target_start"}, ns[n].line_start, p)
  \/ /\ n + 1 \in DOMAIN ns /\ Shares(ns, n, n + 1)
     /\ Taken({"command", "no_op_command"}, ns[n].line_start, p)

TargetsTaken(ns, p) == \A n \in DOMAIN ns : ns[n].type = "TARGET" => TargetTaken(ns, n, p)

(* The pending comments follow one another, behind all nodes.              *)
StartsBefore(ns, l) == \A n \in DOMAIN ns : ns[n].line_start.b <= l
CommentsInRow ==
  \A c \in DOMAIN comments :
    /\ Inside(comments[c], LinesEnd) /\ StartsBefore(nodes, comments[c].a)
    /\ \A d \in DOMAIN comments : c < d => comments[c].a <= comments[d].a /\ comments[c].b <= comments[d].b

LaidInv ==
  /\ TailSound
  /\ Laid(nodes, LinesEnd)
  /\ error = "ok" => StackHolds(nodes, nodestack) /\ TokensPlaced(nodes, comments, pos)
  /\ TargetsTaken(nodes, pos)
  /\ CommentsInRow
  /\ ~finished => pos = 1 /\ ~built
  /\ built => pos = Len(tokens) + 1 /\ comments = <<>>

-----------------------------------------------------------------------------
(* A node that is appended starts behind all others, or is the command of  *)
(* an unassociated target.                                                 *)
LEMMA LaidAppended ==
  ASSUME NEW ns \in Seq(Node), NEW end \in Nat, Laid(ns, end), ParentsBelow(ns),
         NEW node \in Node, node.parent \in DOMAIN ns, ns[node.parent].type \in Containers,
         Inside(node.line_start, end), Inside(node.line_end, end),
         node.type \in BlockTypes => node.line_end = node.line_start,
         node.line_start.a <= node.line_end.b, BlocksBefore(ns, node.line_start.a),
         \A m \in DOMAIN ns :
           ns[m].line_start.b <= node.line_start.a \/ Shares(Append(ns, node), m, Len(ns) + 1)
  PROVE  Laid(Append(ns, node), end)
<1> DEFINE ms == Append(ns, node)
           new == Len(ns) + 1
<1>1. /\ ms \in Seq(Node) /\ DOMAIN ms = 1 .. new /\ DOMAIN ns = 1 .. Len(ns) /\ Len(ns) \in Nat
      /\ ms[new] = node /\ (\A n \in DOMAIN ns : ms[n] = ns[n]) /\ new \in Nat
      /\ (\A n \in DOMAIN ms : n = new \/ n \in DOMAIN ns) /\ Root # new /\ DOMAIN ns \subseteq DOMAIN ms
      /\ \A n \in DOMAIN ns : n < new
  BY DEF Root, ParentsBelow
<1>2. \A m \in DOMAIN ns : ns[m].line_start.b <= node.line_start.a \/ Shares(ms, m, new)
  OBVIOUS
<1> HIDE DEF ms, new
<1>3. StartsApart(ms)
  <2> SUFFICES ASSUME NEW m \in DOMAIN ms, NEW n \in DOMAIN ms, m < n
               PROVE  ms[m].line_start.b <= ms[n].line_start.a \/ Shares(ms, m, n)
    BY DEF StartsApart
  <2>1. m \in DOMAIN ns
    BY <1>1
  <2>2. CASE n = new
    BY <1>1, <1>2, <2>1, <2>2
  <2>3. CASE n \in DOMAIN ns
    <3>1. ns[m].line_start.b <= ns[n].line_start.a \/ Shares(ns, m, n)
      BY <2>1, <2>3 DEF Laid, StartsApart
    <3> QED
      BY <1>1, <2>1, <2>3, <3>1 DEF Shares
  <2> QED
    BY <1>1, <2>2, <2>3
<1>4. AllInside(ms, end)
  BY <1>1 DEF Laid, AllInside
<1>5. EndsApart(ms)
  <2> SUFFICES ASSUME NEW p \in DOMAIN ms, ms[p].type \in BlockTypes, ms[p].line_end # ms[p].line_start,
                      NEW n \in DOMAIN ms
               PROVE  /\ ms[p].line_start.b <= ms[p].line_end.a
                      /\ \/ ms[n].line_start.b <= ms[p].line_end.a
                         \/ /\ ms[p].line_end.b <= ms[n].line_start.a
                            /\ ms[p].line_end.b <= ms[n].line_end.b
    BY DEF EndsApart
  <2>1. p \in DOMAIN ns /\ ms[p] = ns[p] /\ ms[p].line_start.b <= ms[p].line_end.a
    <3>1. p \in DOMAIN ns /\ ms[p] = ns[p]
      BY <1>1
    <3> QED
      BY <3>1 DEF Laid, EndsApart
  <2>2. CASE n \in DOMAIN ns
    BY <1>1, <2>1, <2>2 DEF Laid, EndsApart
  <2>3. CASE n = new
    <3>1. ns[p].line_end.b <= node.line_start.a
      BY <2>1 DEF BlocksBefore
    <3>2. ns[p] \in Node
      BY <2>1
    <3>3. ns[p].line_end.b \in Nat /\ node.line_start.a \in Nat /\ node.line_end.b \in Nat
      BY <3>2 DEF Node, LineRange
    <3> QED
      BY <1>1, <2>1, <2>3, <3>1, <3>3
  <2> QED
    BY <1>1, <2>2, <2>3
<1>6. HoldersHold(ms)
  <2> SUFFICES ASSUME NEW n \in DOMAIN ms \ {Root}
               PROVE  ms[ms[n].parent].type \in Containers
    BY DEF HoldersHold
  <2>1. CASE n = new
    BY <1>1, <2>1
  <2>2. CASE n \in DOMAIN ns
    <3>1. n \in Nat /\ ns[n].parent \in 1 .. (n - 1)
      BY <1>1, <2>2 DEF ParentsBelow
    <3>2. ns[n].parent \in DOMAIN ns
      BY <1>1, <2>2, <3>1
    <3> QED
      BY <1>1, <2>2, <3>2 DEF Laid, HoldersHold
  <2> QED
    BY <1>1, <2>1, <2>2
<1> QED
  BY <1>3, <1>4, <1>5, <1>6 DEF Laid, ms

(* A block that was open is closed behind all nodes.                       *)
LEMMA LaidClosed ==
  ASSUME NEW ns \in Seq(Node), NEW end \in Nat, Laid(ns, end), ParentsBelow(ns),
         NEW c \in DOMAIN ns,
         ns[c].line_end = ns[c].line_start, NEW range \in LineRange, Inside(range, end),
         NodesBefore(ns, range.a)
  PROVE  Laid([ns EXCEPT ![c].line_end = range], end)
<1> DEFINE ms == [ns EXCEPT ![c].line_end = range]
<1>1. /\ DOMAIN ms = DOMAIN ns /\ ms[c] = [ns[c] EXCEPT !.line_end = range]
      /\ \A n \in DOMAIN ns : n # c => ms[n] = ns[n]
  OBVIOUS
<1>2. /\ ns[c] \in Node /\ range.a \in Nat /\ range.b \in Nat /\ range.a < range.b
      /\ \A n \in DOMAIN ns : ns[n].line_start.b <= range.a /\ ns[n].line_end.b <= range.a
  BY DEF LineRange, Inside, NodesBefore
<1>3. /\ ms[c].line_end = range /\ ms[c].line_start = ns[c].line_start
      /\ ms[c].type = ns[c].type /\ ms[c].parent = ns[c].parent
  BY <1>1, <1>2 DEF Node
<1> HIDE DEF ms
<1>4. /\ \A n \in DOMAIN ns : /\ ms[n].line_start = ns[n].line_start /\ ms[n].type = ns[n].type
                              /\ ms[n].parent = ns[n].parent
      /\ \A n \in DOMAIN ns : n # c => ms[n].line_end = ns[n].line_end
  BY <1>1, <1>3
<1>5. StartsApart(ms)
  BY <1>1, <1>4 DEF Laid, StartsApart, Shares
<1>6. AllInside(ms, end)
  BY <1>1, <1>3, <1>4 DEF Laid, AllInside
<1>7. EndsApart(ms)
  <2> SUFFICES ASSUME NEW p \in DOMAIN ns, ms[p].type \in BlockTypes, ms[p].line_end # ms[p].line_start,
                      NEW n \in DOMAIN ns
               PROVE  /\ ms[p].line_start.b <= ms[p].line_end.a
                      /\ \/ ms[n].line_start.b <= ms[p].line_end.a
                         \/ /\ ms[p].line_end.b <= ms[n].line_start.a
                            /\ ms[p].line_end.b <= ms[n].line_end.b
    BY <1>1 DEF EndsApart
  <2>1. CASE p = c
    BY <1>2, <1>3, <1>4, <2>1
  <2>2. CASE p # c
    <3>1. /\ ms[p].line_end = ns[p].line_end /\ ms[p].line_start = ns[p].line_start
          /\ ns[p].line_start.b <= ns[p].line_end.a
          /\ \/ ns[n].line_start.b <= ns[p].line_end.a
             \/ /\ ns[p].line_end.b <= ns[n].line_start.a
                /\ ns[p].line_end.b <= ns[n].line_end.b
      BY <1>4, <2>2 DEF Laid, EndsApart
    <3>2. ns[p].line_end.b <= range.b
      <4>1. ns[p] \in Node
        OBVIOUS
      <4>2. ns[p].line_end.b \in Nat /\ ns[p].line_end.b <= range.a
        BY <1>2, <4>1 DEF Node, LineRange
      <4> QED
        BY <1>2, <4>2
    <3>3. CASE n = c
      BY <1>3, <3>1, <3>2, <3>3
    <3>4. CASE n # c
      BY <1>4, <3>1, <3>4
    <3> QED
      BY <3>3, <3>4
  <2> QED
    BY <2>1, <2>2
<1>8. HoldersHold(ms)
  <2> SUFFICES ASSUME HoldersHold(ns), NEW n \in DOMAIN ns \ {Root}
               PROVE  ms[ms[n].parent].type \in Containers
    BY <1>1 DEF Laid, HoldersHold
  <2>1. ms[n].parent = ns[n].parent /\ ns[ns[n].parent].type \in Containers
    BY <1>4 DEF HoldersHold
  <2>2. n \in Nat /\ ns[n].parent \in 1 .. (n - 1)
    BY DEF ParentsBelow
  <2>3. ns[n].parent \in DOMAIN ns
    BY <2>2
  <2> QED
    BY <1>4, <2>1, <2>3
<1> QED
  BY <1>5, <1>6, <1>7, <1>8 DEF Laid, ms

-----------------------------------------------------------------------------
(* ms has the nodes of ns, some of which that were open are closed.        *)
Keeps(ms, ns) ==
  /\ ms \in Seq(Node) /\ ns \in Seq(Node) /\ DOMAIN ns \subseteq DOMAIN ms
  /\ \A n \in DOMAIN ns :
       /\ ms[n].type = ns[n].type /\ ms[n].parent = ns[n].parent
       /\ ms[n].ifparent = ns[n].ifparent /\ ms[n].line_start = ns[n].line_start
       /\ ms[n].line_end = ns[n].line_end \/ ns[n].line_end = ns[n].line_start

LEMMA KeepsAppend ==
  ASSUME NEW ns \in Seq(Node), NEW node \in Node
  PROVE  Keeps(Append(ns, node), ns)
  BY DEF Keeps

LEMMA KeepsTwice ==
  ASSUME NEW ls, NEW ms, NEW ns, Keeps(ls, ms), Keeps(ms, ns)
  PROVE  Keeps(ls, ns)
<1>1. ASSUME NEW n \in DOMAIN ns
      PROVE  /\ ls[n].type = ns[n].type /\ ls[n].parent = ns[n].parent
             /\ ls[n].ifparent = ns[n].ifparent /\ ls[n].line_start = ns[n].line_start
             /\ ls[n].line_end = ns[n].line_end \/ ns[n].line_end = ns[n].line_start
  <2>1. n \in DOMAIN ms
    BY DEF Keeps
  <2>2. /\ ms[n].type = ns[n].type /\ ms[n].parent = ns[n].parent
        /\ ms[n].ifparent = ns[n].ifparent /\ ms[n].line_start = ns[n].line_start
        /\ ms[n].line_end = ns[n].line_end \/ ns[n].line_end = ns[n].line_start
    BY DEF Keeps
  <2>3. /\ ls[n].type = ms[n].type /\ ls[n].parent = ms[n].parent
        /\ ls[n].ifparent = ms[n].ifparent /\ ls[n].line_start = ms[n].line_start
        /\ ls[n].line_end = ms[n].line_end \/ ms[n].line_end = ms[n].line_start
    BY <2>1 DEF Keeps
  <2> QED
    BY <2>2, <2>3
<1>2. ls \in Seq(Node) /\ ns \in Seq(Node) /\ DOMAIN ns \subseteq DOMAIN ls
  BY DEF Keeps
<1> QED
  BY <1>1, <1>2, Zenon DEF Keeps

LEMMA KeepsClosed ==
  ASSUME NEW ns \in Seq(Node), NEW c \in DOMAIN ns, ns[c].line_end = ns[c].line_start,
         NEW range \in LineRange
  PROVE  Keeps([ns EXCEPT ![c].line_end = range], ns)
<1> DEFINE ms == [ns EXCEPT ![c].line_end = range]
<1>1. /\ DOMAIN ms = DOMAIN ns /\ ms[c] = [ns[c] EXCEPT !.line_end = range]
      /\ \A n \in DOMAIN ns : n # c => ms[n] = ns[n]
  OBVIOUS
<1>2. ns[c] \in Node
  OBVIOUS
<1>3. /\ ms[c].line_start = ns[c].line_start /\ ms[c].ifparent = ns[c].ifparent
      /\ ms[c].type = ns[c].type /\ ms[c].parent = ns[c].parent /\ ms[c] \in Node
  BY <1>1, <1>2 DEF Node
<1>4. ms \in Seq(Node)
  BY <1>3
<1> HIDE DEF ms
<1> QED
  BY <1>1, <1>3, <1>4 DEF Keeps, ms

LEMMA PlacedKept ==
  ASSUME NEW ms, NEW ns, Keeps(ms, ns), NEW cs, NEW range \in LineRange, Placed(ns, cs, range)
  PROVE  Placed(ms, cs, range)
<1>1. CASE \E n \in DOMAIN ns : ns[n].line_start.a <= range.a /\ range.b <= ns[n].line_start.b
  BY <1>1 DEF Placed, Keeps
<1>2. CASE \E p \in DOMAIN ns : Ends(ns, p) /\ ns[p].line_end = range
  <2>1. PICK p \in DOMAIN ns : Ends(ns, p) /\ ns[p].line_end = range
    BY <1>2
  <2>2. /\ p \in DOMAIN ms /\ Ends(ms, p) /\ ms[p].line_start = ns[p].line_start
        /\ ms[p].line_end = ns[p].line_end \/ ns[p].line_end = ns[p].line_start
    BY <2>1 DEF Keeps, Ends
  <2>3. range.a <= range.a /\ range.b <= range.b
    BY DEF LineRange
  <2>4. CASE ms[p].line_end = ns[p].line_end
    BY <2>1, <2>2, <2>4 DEF Placed
  <2>5. CASE ns[p].line_end = ns[p].line_start
    BY <2>1, <2>2, <2>3, <2>5 DEF Placed
  <2> QED
    BY <2>2, <2>4, <2>5
<1>3. CASE \E c \in DOMAIN cs : cs[c] = range
  BY <1>3 DEF Placed
<1> QED
  BY <1>1, <1>2, <1>3 DEF Placed

LEMMA TakenLater ==
  ASSUME NEW types, NEW range, NEW p \in Nat, NEW q \in Nat, p <= q, tokens \in Seq(Token),
         Taken(types, range, p)
  PROVE  Taken(types, range, q)
<1>1. \A i \in DOMAIN tokens : i < p => i < q
  OBVIOUS
<1> QED
  BY <1>1 DEF Taken

LEMMA TargetKept ==
  ASSUME NEW ms, NEW ns, Keeps(ms, ns), NEW n \in DOMAIN ns, NEW p \in Nat, NEW q \in Nat, p <= q,
         tokens \in Seq(Token), TargetTaken(ns, n, p)
  PROVE  TargetTaken(ms, n, q)
<1>1. ms[n].line_start = ns[n].line_start
  BY DEF Keeps
<1>2. CASE Taken({"target_start"}, ns[n].line_start, p)
  BY <1>1, <1>2, TakenLater DEF TargetTaken
<1>3. CASE /\ n + 1 \in DOMAIN ns /\ Shares(ns, n, n + 1)
           /\ Taken({"command", "no_op_command"}, ns[n].line_start, p)
  <2>1. n + 1 \in DOMAIN ms /\ Shares(ms, n, n + 1)
    BY <1>3 DEF Keeps, Shares
  <2> QED
    BY <1>1, <1>3, <2>1, TakenLater DEF TargetTaken
<1> QED
  BY <1>2, <1>3 DEF TargetTaken

(* The pending comments are all on the lines of the node they become.      *)
LEMMA FlushedLaid ==
  ASSUME IInv, SpansInv, LaidInv, Building, nodestack # <<>>
  PROVE  /\ Keeps(Flushed, nodes) /\ Laid(Flushed, LinesEnd) /\ StackHolds(Flushed, nodestack)
         /\ TokensPlaced(Flushed, <<>>, pos) /\ TargetsTaken(Flushed, pos)
<1>1. /\ nodes \in Seq(Node) /\ nodestack \in Seq(DOMAIN nodes) /\ comments \in Seq(LineRange)
      /\ tokens \in Seq(Token) /\ pos \in Nat /\ rawlines \in Nat /\ LinesEnd \in Nat
  BY DEF IInv, TypeOK, TokenizerTypeOK, LinesEnd
<1>2. /\ Laid(nodes, LinesEnd) /\ StackHolds(nodes, nodestack) /\ TokensPlaced(nodes, comments, pos)
      /\ TargetsTaken(nodes, pos) /\ CommentsInRow /\ ParentsBelow(nodes)
  BY DEF LaidInv, SpansInv, TreeSpans, Building
<1>3. CASE comments = <<>>
  <2>1. Keeps(nodes, nodes)
    BY <1>1 DEF Keeps
  <2> QED
    BY <1>2, <1>3, <2>1 DEF Flushed
<1>4. CASE comments # <<>>
  <2> DEFINE node == CommentNode(Peek(nodestack))
             last == Len(comments)
             top == Len(nodestack)
  <2>1. /\ top \in DOMAIN nodestack /\ Peek(nodestack) = nodestack[top]
        /\ Peek(nodestack) \in DOMAIN nodes /\ Peek(nodestack) \in Nat
    BY <1>1 DEF Peek
  <2>2. /\ node \in Node /\ node.type = "COMMENT" /\ node.parent = Peek(nodestack)
        /\ node.line_start = [a |-> comments[1].a, b |-> comments[last].b]
        /\ node.line_end = comments[1]
    BY <1>1, <1>4, <2>1, CommentNodeIs
  <2>3. Flushed = Append(nodes, node)
    BY <1>4 DEF Flushed
  <2>4. node.type \notin BlockTypes /\ node.type # "TARGET"
    BY <2>2, SomeNodeTypes DEF BlockTypes
  <2> HIDE DEF node
  <2>5. /\ 1 \in DOMAIN comments /\ last \in DOMAIN comments /\ DOMAIN comments = 1 .. last
        /\ \A c \in DOMAIN comments : /\ comments[c] \in LineRange /\ comments[c].a \in Nat
                                      /\ comments[c].b \in Nat
    <3>1. /\ 1 \in DOMAIN comments /\ last \in DOMAIN comments /\ DOMAIN comments = 1 .. last
          /\ \A c \in DOMAIN comments : comments[c] \in LineRange
      BY <1>1, <1>4
    <3>2. \A range \in LineRange : range.a \in Nat /\ range.b \in Nat
      BY DEF LineRange
    <3> QED
      BY <3>1, <3>2
  <2>6. ASSUME NEW c \in DOMAIN comments
        PROVE  comments[1].a <= comments[c].a /\ comments[c].b <= comments[last].b
    <3>1. (1 < c \/ c = 1) /\ (c < last \/ c = last)
      BY <2>5
    <3> QED
      BY <1>2, <2>5, <3>1 DEF CommentsInRow
  <2>7. Inside(comments[1], LinesEnd) /\ Inside(comments[last], LinesEnd)
    BY <1>2, <2>5 DEF CommentsInRow
  <2>8. Inside(node.line_start, LinesEnd) /\ Inside(node.line_end, LinesEnd)
    BY <2>2, <2>5, <2>6, <2>7 DEF Inside
  <2>9. BlocksBefore(nodes, node.line_start.a) /\ StartsBefore(nodes, node.line_start.a)
    BY <1>2, <2>2, <2>5 DEF SpansInv, CommentsBehind, CommentsInRow
  <2>10. node.line_start.a <= node.line_end.b
    BY <2>2, <2>5, <2>7 DEF Inside
  <2>11. nodes[node.parent].type \in Containers /\ node.parent \in DOMAIN nodes
    BY <1>2, <2>1, <2>2 DEF StackHolds
  <2>12. Laid(Flushed, LinesEnd)
    BY <1>1, <1>2, <2>2, <2>3, <2>4, <2>8, <2>9, <2>10, <2>11, LaidAppended DEF StartsBefore
  <2>13. Keeps(Flushed, nodes)
    BY <1>1, <2>2, <2>3, KeepsAppend
  <2>14. StackHolds(Flushed, nodestack)
    <3>1. \A k \in DOMAIN nodestack : nodestack[k] \in DOMAIN nodes
      BY <1>1
    <3>2. \A k \in DOMAIN nodestack : Flushed[nodestack[k]].type = nodes[nodestack[k]].type
      BY <2>13, <3>1 DEF Keeps
    <3> QED
      BY <1>2, <3>2 DEF StackHolds
  <2>15. Len(nodes) + 1 \in DOMAIN Flushed /\ Flushed[Len(nodes) + 1] = node
    BY <1>1, <2>2, <2>3
  <2>16. TokensPlaced(Flushed, <<>>, pos)
    <3> SUFFICES ASSUME NEW i \in DOMAIN tokens, i < pos, Stands(i)
                 PROVE  Placed(Flushed, <<>>, tokens[i].lines)
      BY DEF TokensPlaced
    <3>1. Placed(nodes, comments, tokens[i].lines)
      BY <1>2 DEF TokensPlaced
    <3>2. CASE \E c \in DOMAIN comments : comments[c] = tokens[i].lines
      BY <2>2, <2>6, <2>15, <3>2 DEF Placed
    <3>3. CASE ~\E c \in DOMAIN comments : comments[c] = tokens[i].lines
      <4>1. Placed(nodes, <<>>, tokens[i].lines)
        BY <3>1, <3>3 DEF Placed
      <4>2. tokens[i] \in Token
        BY <1>1
      <4>3. tokens[i].lines \in LineRange
        BY <4>2 DEF Token
      <4> QED
        BY <2>13, <4>1, <4>3, PlacedKept
    <3> QED
      BY <3>2, <3>3
  <2>17. TargetsTaken(Flushed, pos)
    <3> SUFFICES ASSUME NEW n \in DOMAIN Flushed, Flushed[n].type = "TARGET"
                 PROVE  TargetTaken(Flushed, n, pos)
      BY DEF TargetsTaken
    <3>1. n \in DOMAIN nodes
      BY <1>1, <2>2, <2>3, <2>4
    <3>2. nodes[n].type = "TARGET"
      BY <2>13, <3>1 DEF Keeps
    <3>3. TargetTaken(nodes, n, pos)
      BY <1>2, <3>1, <3>2 DEF TargetsTaken
    <3> QED
      BY <1>1, <2>13, <3>1, <3>3, TargetKept
  <2> QED
    BY <2>12, <2>13, <2>14, <2>16, <2>17
<1> QED
  BY <1>3, <1>4

(* What every step that takes a token may use.                             *)
LEMMA LaidTaken ==
  ASSUME IInv, LinesSound, SpansInv, LaidInv, NEW type, Token1(type)
  PROVE  /\ Keeps(Flushed, nodes) /\ Laid(Flushed, LinesEnd) /\ StackHolds(Flushed, nodestack)
         /\ TokensPlaced(Flushed, <<>>, pos) /\ TargetsTaken(Flushed, pos)
         /\ ParentsBelow(Flushed) /\ LinesEnd \in Nat /\ pos \in Nat
         /\ LinesEnd' = LinesEnd /\ finished /\ finished' /\ ~built'
         /\ type # "target_end" => /\ Inside(Here, LinesEnd) /\ Here.a <= Here.b
                                   /\ NodesBefore(Flushed, Here.a) /\ BlocksBefore(Flushed, Here.a)
<1>1. Building /\ nodestack # <<>> /\ finished
  BY DEF Token1, Building
<1>2. /\ Keeps(Flushed, nodes) /\ Laid(Flushed, LinesEnd) /\ StackHolds(Flushed, nodestack)
      /\ TokensPlaced(Flushed, <<>>, pos) /\ TargetsTaken(Flushed, pos)
  BY <1>1, FlushedLaid
<1>3. ParentsBelow(Flushed) /\ Here \in LineRange /\ (type # "target_end" => NodesBefore(Flushed, Here.a))
  BY SpansTaken DEF TreeSpans
<1>4. rawlines \in Nat /\ LinesEnd \in Nat /\ LinesEnd' = LinesEnd
  BY DEF IInv, TypeOK, TokenizerTypeOK, LinesEnd, Token1
<1>5. /\ pos \in DOMAIN tokens /\ tokens[pos].type = type /\ tokens[pos].lines = Here /\ pos \in Nat
      /\ finished' /\ ~built'
  BY TokenHere
<1>6. type # "target_end" => Inside(Here, LinesEnd)
  BY <1>1, <1>5 DEF LaidInv, TailSound, LinesSound, RangesWithinInput, Stands, Inside
<1>7. type # "target_end" => Here.a <= Here.b
  BY <1>3, <1>6 DEF Inside, LineRange
<1> QED
  BY <1>1, <1>2, <1>3, <1>4, <1>5, <1>6, <1>7, BlocksAreNodes

(* A step that takes a token other than a comment.                         *)
LEMMA LaidDone ==
  ASSUME IInv, LinesSound, SpansInv, LaidInv, NEW type, Token1(type), type # "comment",
         Keeps(nodes', Flushed), Laid(nodes', LinesEnd),
         error' = "ok" => StackHolds(nodes', nodestack'),
         error' = "ok" /\ type # "target_end" => Placed(nodes', <<>>, Here),
         \A n \in DOMAIN nodes' \ DOMAIN Flushed :
           nodes'[n].type = "TARGET" => TargetTaken(nodes', n, pos + 1)
  PROVE  LaidInv'
<1>1. /\ tokens' = tokens /\ tokens \in Seq(Token) /\ pos \in Nat /\ pos' = pos + 1 /\ comments' = <<>>
      /\ finished /\ finished' /\ ~built' /\ LinesEnd' = LinesEnd
      /\ tokens[pos].type = type /\ tokens[pos].lines = Here /\ pos \in DOMAIN tokens
  <2>1. comments' = <<>>
    BY DEF Token1
  <2> QED
    BY <2>1, TokenHere, LaidTaken
<1>2. TailSound'
  BY <1>1 DEF LaidInv, TailSound, Stands, Token1
<1>3. TokensPlaced(Flushed, <<>>, pos) /\ TargetsTaken(Flushed, pos)
  BY LaidTaken
<1>4. ASSUME error' = "ok", NEW i \in DOMAIN tokens, i < pos + 1, Stands(i)
      PROVE  Placed(nodes', <<>>, tokens[i].lines)
  <2>1. i < pos \/ i = pos
    BY <1>1, <1>4
  <2>2. CASE i = pos
    BY <1>1, <1>4, <2>2 DEF Stands
  <2>3. CASE i < pos
    <3>1. Placed(Flushed, <<>>, tokens[i].lines)
      BY <1>3, <1>4, <2>3 DEF TokensPlaced
    <3>2. tokens[i] \in Token
      BY <1>1
    <3>3. tokens[i].lines \in LineRange
      BY <3>2 DEF Token
    <3> QED
      BY <3>1, <3>3, PlacedKept
  <2> QED
    BY <2>1, <2>2, <2>3
<1>5. error' = "ok" => TokensPlaced(nodes, comments, pos)'
  BY <1>1, <1>4 DEF TokensPlaced, Stands
<1>6. ASSUME NEW n \in DOMAIN nodes', nodes'[n].type = "TARGET"
      PROVE  TargetTaken(nodes', n, pos + 1)
  <2>1. CASE n \in DOMAIN Flushed
    <3>1. Flushed[n].type = "TARGET"
      BY <1>6, <2>1 DEF Keeps
    <3>2. TargetTaken(Flushed, n, pos)
      BY <1>3, <2>1, <3>1 DEF TargetsTaken
    <3>3. pos <= pos + 1 /\ pos + 1 \in Nat
      BY <1>1
    <3> QED
      BY <1>1, <2>1, <3>2, <3>3, TargetKept
  <2>2. CASE n \notin DOMAIN Flushed
    BY <1>6, <2>2
  <2> QED
    BY <2>1, <2>2
<1>7. TargetsTaken(nodes, pos)'
  BY <1>1, <1>6 DEF TargetsTaken, TargetTaken, Taken
<1>8. CommentsInRow'
  BY <1>1 DEF CommentsInRow
<1>9. Laid(nodes, LinesEnd)'
  BY <1>1
<1>10. error' = "ok" => StackHolds(nodes, nodestack)'
  OBVIOUS
<1> QED
  BY <1>1, <1>2, <1>5, <1>7, <1>8, <1>9, <1>10 DEF LaidInv

(* A step that gives up leaves the tree as it is.                          *)
LEMMA LaidFailed ==
  ASSUME IInv, LinesSound, SpansInv, LaidInv, NEW type, Token1(type), type # "comment", Fail
  PROVE  LaidInv'
<1>1. /\ tokens' = tokens /\ tokens \in Seq(Token) /\ pos \in Nat /\ pos' = pos + 1 /\ comments' = <<>>
      /\ finished /\ finished' /\ ~built' /\ LinesEnd' = LinesEnd
      /\ nodes' = nodes /\ nodestack' = nodestack /\ error' # "ok"
  <2>1. comments' = <<>>
    BY DEF Token1
  <2>2. nodes' = nodes /\ nodestack' = nodestack /\ error' # "ok"
    BY DEF Fail
  <2> QED
    BY <2>1, <2>2, TokenHere, LaidTaken
<1>2. TailSound'
  BY <1>1 DEF LaidInv, TailSound, Stands, Token1
<1>3. TargetsTaken(nodes, pos)'
  <2>1. Keeps(nodes, nodes) /\ pos <= pos + 1 /\ pos + 1 \in Nat /\ TargetsTaken(nodes, pos)
    BY <1>1 DEF Keeps, IInv, TypeOK, LaidInv
  <2>2. \A n \in DOMAIN nodes : nodes[n].type = "TARGET" => TargetTaken(nodes, n, pos + 1)
    BY <1>1, <2>1, TargetKept DEF TargetsTaken
  <2> QED
    BY <1>1, <2>2 DEF TargetsTaken, TargetTaken, Taken
<1>4. CommentsInRow'
  BY <1>1 DEF CommentsInRow
<1>5. Laid(nodes, LinesEnd)'
  BY <1>1 DEF LaidInv
<1> QED
  BY <1>1, <1>2, <1>3, <1>4, <1>5 DEF LaidInv

(* A node with the lines of the token is where the token is.               *)
LEMMA HerePlaced ==
  ASSUME NEW ns, NEW n \in DOMAIN ns, NEW range \in LineRange, ns[n].line_start = range, NEW cs
  PROVE  Placed(ns, cs, range)
<1>1. range.a <= range.a /\ range.b <= range.b
  BY DEF LineRange
<1> QED
  BY <1>1 DEF Placed

(* A node that has the lines of the token is appended to one on the stack. *)
LEMMA NodeLaid ==
  ASSUME IInv, LinesSound, SpansInv, LaidInv, NEW tokentype, Token1(tokentype),
         tokentype \notin {"comment", "target_end"},
         NEW type \in NodeTypes, NEW parent \in DOMAIN Flushed, NEW ifparent \in Nat,
         Flushed[parent].type \in Containers
  PROVE  LET node == NewNode(type, parent, ifparent, Here)
             ms == Append(Flushed, node)
         IN /\ node \in Node /\ node.type = type /\ node.parent = parent /\ node.line_start = Here
            /\ ms \in Seq(Node) /\ DOMAIN ms = 1 .. (Len(Flushed) + 1) /\ ms[Len(Flushed) + 1] = node
            /\ Keeps(ms, Flushed) /\ Laid(ms, LinesEnd) /\ Placed(ms, <<>>, Here)
<1> DEFINE node == NewNode(type, parent, ifparent, Here)
           ms == Append(Flushed, node)
           new == Len(Flushed) + 1
<1>1. Flushed \in Seq(Node) /\ Here \in LineRange /\ parent \in Nat
  BY TokenTaken
<1>2. /\ node \in Node /\ node.type = type /\ node.parent = parent
      /\ node.line_start = Here /\ node.line_end = Here
  BY <1>1, NewNodeIs
<1> HIDE DEF node
<1>3. ms \in Seq(Node) /\ DOMAIN ms = 1 .. new /\ new \in DOMAIN ms /\ ms[new] = node
  BY <1>1, <1>2
<1>4. Keeps(ms, Flushed)
  BY <1>1, <1>2, KeepsAppend
<1>5. /\ Laid(Flushed, LinesEnd) /\ ParentsBelow(Flushed) /\ LinesEnd \in Nat
      /\ Inside(Here, LinesEnd) /\ Here.a <= Here.b
      /\ NodesBefore(Flushed, Here.a) /\ BlocksBefore(Flushed, Here.a)
  BY LaidTaken
<1>6. \A m \in DOMAIN Flushed : Flushed[m].line_start.b <= Here.a
  BY <1>5 DEF NodesBefore
<1>7. Laid(ms, LinesEnd)
  BY <1>1, <1>2, <1>5, <1>6, LaidAppended
<1> HIDE DEF ms
<1>8. Placed(ms, <<>>, Here)
  BY <1>1, <1>2, <1>3, HerePlaced
<1> QED
  BY <1>2, <1>3, <1>4, <1>7, <1>8 DEF node, ms

LEMMA HeldKept ==
  ASSUME NEW ms, NEW ns, Keeps(ms, ns), NEW st \in Seq(DOMAIN ns), StackHolds(ns, st)
  PROVE  StackHolds(ms, st)
<1>1. \A k \in DOMAIN st : st[k] \in DOMAIN ns
  OBVIOUS
<1>2. \A k \in DOMAIN st : ms[st[k]].type = ns[st[k]].type
  BY <1>1 DEF Keeps
<1> QED
  BY <1>2 DEF StackHolds

LEMMA HeldPushed ==
  ASSUME NEW S, NEW st \in Seq(S), NEW ns, NEW n, ns[n].type \in Containers, StackHolds(ns, st)
  PROVE  StackHolds(ns, Append(st, n))
<1> DEFINE stack == Append(st, n)
<1>1. \A k \in DOMAIN stack : (k \in DOMAIN st /\ stack[k] = st[k]) \/ stack[k] = n
  OBVIOUS
<1> HIDE DEF stack
<1>2. StackHolds(ns, stack)
  <2> SUFFICES ASSUME NEW k \in DOMAIN stack
               PROVE  ns[stack[k]].type \in Containers
    BY DEF StackHolds
  <2>1. CASE k \in DOMAIN st /\ stack[k] = st[k]
    BY <2>1 DEF StackHolds
  <2>2. CASE stack[k] = n
    BY <2>2
  <2> QED
    BY <1>1, <2>1, <2>2
<1> QED
  BY <1>2 DEF stack

LEMMA HeldCut ==
  ASSUME NEW S, NEW st \in Seq(S), NEW ns, NEW i \in DOMAIN st, StackHolds(ns, st)
  PROVE  StackHolds(ns, Below(st, i))
<1> DEFINE stack == Below(st, i)
<1>1. \A k \in DOMAIN stack : k \in DOMAIN st /\ stack[k] = st[k]
  BY DEF Below
<1> HIDE DEF stack
<1> QED
  BY <1>1 DEF StackHolds, stack

(* A node that is appended, and pushed if it holds others.                 *)
LEMMA AddLaid ==
  ASSUME IInv, LinesSound, SpansInv, LaidInv, NEW tokentype, Token1(tokentype),
         tokentype \notin {"comment", "target_end"},
         NEW type \in NodeTypes, NEW parent \in DOMAIN Flushed, NEW ifparent \in Nat,
         Flushed[parent].type \in Containers, type = "TARGET" => tokentype = "target_start",
         NEW st \in Seq(DOMAIN Flushed), StackHolds(Flushed, st),
         nodes' = Append(Flushed, NewNode(type, parent, ifparent, Here)),
         nodestack' = st \/ (type \in Containers /\ nodestack' = Append(st, Next1(Flushed)))
  PROVE  LaidInv'
<1> DEFINE node == NewNode(type, parent, ifparent, Here)
           new == Len(Flushed) + 1
<1>1. /\ node \in Node /\ node.type = type /\ node.line_start = Here
      /\ nodes' \in Seq(Node) /\ DOMAIN nodes' = 1 .. new /\ nodes'[new] = node
      /\ Keeps(nodes', Flushed) /\ Laid(nodes', LinesEnd) /\ Placed(nodes', <<>>, Here)
  BY NodeLaid
<1> HIDE DEF node
<1>2. Flushed \in Seq(Node) /\ Next1(Flushed) = new
  BY TokenTaken DEF Next1
<1>3. StackHolds(nodes', nodestack')
  <2>1. StackHolds(nodes', st)
    BY <1>1, HeldKept
  <2>2. CASE nodestack' = st
    BY <2>1, <2>2
  <2>3. CASE type \in Containers /\ nodestack' = Append(st, new)
    BY <1>1, <2>1, <2>3, HeldPushed
  <2> QED
    BY <1>2, <2>2, <2>3
<1>4. ASSUME NEW n \in DOMAIN nodes' \ DOMAIN Flushed, nodes'[n].type = "TARGET"
      PROVE  TargetTaken(nodes', n, pos + 1)
  <2>1. n = new
    BY <1>1, <1>2
  <2>2. tokentype = "target_start" /\ nodes'[n].line_start = Here
    BY <1>1, <1>4, <2>1
  <2>3. tokens[pos].type = tokentype /\ tokens[pos].lines = Here /\ pos \in DOMAIN tokens /\ pos < pos + 1
    BY TokenHere
  <2> QED
    BY <2>2, <2>3 DEF TargetTaken, Taken
<1> QED
  BY <1>1, <1>3, <1>4, LaidDone

(* The top of the stack holds others.                                      *)
LEMMA TopHolds ==
  ASSUME NEW ns, NEW st \in Seq(DOMAIN ns), st # <<>>, StackHolds(ns, st)
  PROVE  Peek(st) \in DOMAIN ns /\ ns[Peek(st)].type \in Containers
<1>1. Len(st) \in DOMAIN st /\ Peek(st) = st[Len(st)] /\ st[Len(st)] \in DOMAIN ns
  BY DEF Peek
<1> QED
  BY <1>1 DEF StackHolds

(* A node that is appended to the top of a stack.                          *)
LEMMA TopLaid ==
  ASSUME IInv, LinesSound, SpansInv, LaidInv, NEW tokentype, Token1(tokentype),
         tokentype \notin {"comment", "target_end"},
         NEW type \in NodeTypes, type = "TARGET" => tokentype = "target_start",
         NEW st \in Seq(DOMAIN Flushed), st # <<>>, StackHolds(Flushed, st),
         nodes' = Append(Flushed, NewNode(type, Peek(st), NoNode, Here)),
         nodestack' = st \/ (type \in Containers /\ nodestack' = Append(st, Next1(Flushed)))
  PROVE  LaidInv'
<1>1. Peek(st) \in DOMAIN Flushed /\ Flushed[Peek(st)].type \in Containers /\ NoNode \in Nat
  BY TopHolds DEF NoNode
<1> QED
  BY <1>1, AddLaid

(* .elif and .else are appended to a conditional.                          *)
LEMMA BranchLaid ==
  ASSUME IInv, LinesSound, SpansInv, LaidInv, NEW tokentype \in {"elif", "else"},
         NEW type \in IfTypes, Branch(tokentype, type)
  PROVE  LaidInv'
<1>1. Token1(tokentype) /\ type \in NodeTypes /\ type \in Containers /\ type # "TARGET"
  BY SomeNodeTypes DEF Branch, Containers
<1>2. /\ Stacks(Flushed, nodestack, ifstack) /\ StackHolds(Flushed, nodestack)
      /\ nodestack \in Seq(DOMAIN Flushed) /\ nodestack # <<>>
  BY <1>1, TokenTaken, LaidTaken DEF Stacks
<1>3. CASE ifstack = <<>>
  <2>1. /\ nodes' = Append(Flushed, NewNode(type, Peek(nodestack), NoNode, Here))
        /\ nodestack' = Append(nodestack, Next1(Flushed))
    BY <1>3 DEF Branch, PushIf
  <2> QED
    BY <1>1, <1>2, <2>1, TopLaid
<1>4. CASE ifstack # <<>>
  <2>1. /\ nodes' = Append(Flushed, NewNode(type, Peek(ifstack), Peek(ifstack), Here))
        /\ nodestack' = Append(nodestack, Next1(Flushed))
    BY <1>4 DEF Branch, PushIf
  <2>2. Len(ifstack) \in DOMAIN ifstack /\ Peek(ifstack) = ifstack[Len(ifstack)]
    BY <1>2, <1>4 DEF Stacks, Peek
  <2>3. Peek(ifstack) \in DOMAIN Flushed /\ Flushed[Peek(ifstack)].type \in IfTypes
    BY <1>2, <2>2 DEF Stacks
  <2>4. Peek(ifstack) \in Nat /\ Flushed[Peek(ifstack)].type \in Containers
    BY <1>2, <2>3 DEF Stacks, Containers
  <2> QED
    BY <1>1, <1>2, <2>1, <2>3, <2>4, AddLaid
<1> QED
  BY <1>3, <1>4

(* A command, with the target that is put in for it if there is none.      *)
LEMMA CommandLaid ==
  ASSUME IInv, LinesSound, SpansInv, LaidInv, NEW tokentype \in {"command", "no_op_command"},
         NEW nodetype \in {"COMMAND", "NO_OP_COMMAND"}, Command(tokentype, nodetype)
  PROVE  LaidInv'
<1>1. Token1(tokentype) /\ tokentype \notin {"comment", "target_end"}
  BY DEF Command
<1>2. nodetype \in NodeTypes /\ nodetype # "TARGET" /\ "TARGET" \in Containers /\ "TARGET" \in NodeTypes
  BY SomeNodeTypes DEF Containers
<1>3. /\ StackHolds(Flushed, nodestack) /\ Laid(Flushed, LinesEnd) /\ ParentsBelow(Flushed)
      /\ LinesEnd \in Nat /\ Inside(Here, LinesEnd) /\ Here.a <= Here.b
      /\ NodesBefore(Flushed, Here.a) /\ BlocksBefore(Flushed, Here.a)
  BY <1>1, LaidTaken
<1>4. /\ Flushed \in Seq(Node) /\ nodestack \in Seq(DOMAIN Flushed) /\ nodestack # <<>>
      /\ Here \in LineRange
  BY <1>1, SpansTaken
<1>5. CASE HasTarget[Peek(nodestack)]
  <2>1. /\ nodes' = Append(Flushed, NewNode(nodetype, Peek(nodestack), NoNode, Here))
        /\ nodestack' = nodestack
    BY <1>5 DEF Command
  <2> QED
    BY <1>1, <1>2, <1>3, <1>4, <2>1, TopLaid
<1>6. CASE ~HasTarget[Peek(nodestack)]
  <2> DEFINE n == Next1(Flushed)
             target == NewNode("TARGET", Peek(nodestack), NoNode, Here)
             command == NewNode(nodetype, n, NoNode, Here)
             ns == Append(Flushed, target)
  <2>1. nodes' = Flushed \o <<target, command>> /\ nodestack' = Append(nodestack, n)
    BY <1>6 DEF Command
  <2>2. /\ Peek(nodestack) \in DOMAIN Flushed /\ Flushed[Peek(nodestack)].type \in Containers
        /\ NoNode \in Nat
    BY <1>3, <1>4, TopHolds DEF NoNode
  <2>3. n = Len(Flushed) + 1 /\ n \in Nat /\ DOMAIN Flushed = 1 .. Len(Flushed)
    BY <1>4 DEF Next1
  <2>4. /\ target \in Node /\ target.type = "TARGET" /\ target.line_start = Here
        /\ ns \in Seq(Node) /\ DOMAIN ns = 1 .. n /\ ns[n] = target
        /\ Keeps(ns, Flushed) /\ Laid(ns, LinesEnd) /\ Placed(ns, <<>>, Here)
    BY <1>1, <1>2, <2>2, <2>3, NodeLaid
  <2>5. /\ command \in Node /\ command.type = nodetype /\ command.parent = n
        /\ command.line_start = Here /\ command.line_end = Here
    BY <1>2, <1>4, <2>2, <2>3, NewNodeIs
  <2>6. nodes' = Append(ns, command)
    <3>1. Flushed \in Seq(Node) /\ target \in Node /\ command \in Node
      BY <1>4, <2>4, <2>5
    <3> HIDE DEF target, command
    <3> QED
      BY <2>1, <3>1
  <2>7. TreeSpans(ns, Append(nodestack, n)) /\ target.line_end = Here /\ target.parent = Peek(nodestack)
    <3>1. /\ TreeSpans(Flushed, nodestack) /\ Root \in DOMAIN Flushed
          /\ Len(nodestack) \in DOMAIN nodestack /\ Peek(nodestack) = nodestack[Len(nodestack)]
      BY <1>1, SpansTaken
    <3>2. target.parent = Peek(nodestack) /\ target.line_end = Here
      <4>1. Peek(nodestack) \in Nat
        BY <1>4, <2>2
      <4> QED
        BY <1>2, <1>4, <2>2, <4>1, NewNodeIs
    <3>3. target.type \notin BlockTypes
      BY <2>4, SomeNodeTypes DEF BlockTypes
    <3> HIDE DEF target
    <3> QED
      BY <1>3, <1>4, <2>3, <2>4, <3>1, <3>2, <3>3, TreeAppended
  <2> HIDE DEF target, command, n
  <2>8. /\ DOMAIN nodes' = 1 .. (n + 1) /\ nodes'[n + 1] = command /\ nodes'[n] = target
        /\ nodes' \in Seq(Node) /\ \A k \in DOMAIN Flushed : nodes'[k] = Flushed[k]
    BY <1>4, <2>3, <2>4, <2>5, <2>6
  <2>9. Shares(nodes', n, n + 1)
    BY <2>4, <2>5, <2>8 DEF Shares
  <2>10. Keeps(nodes', ns)
    <3> HIDE DEF ns
    <3> QED
      BY <2>4, <2>5, <2>6, KeepsAppend
  <2>11. Laid(nodes', LinesEnd)
    <3>1. Len(ns) = n
      BY <2>3, <2>4
    <3>2. BlocksBefore(ns, Here.a)
      <4>1. \A k \in DOMAIN ns : k = n \/ (k \in DOMAIN Flushed /\ ns[k] = Flushed[k])
        BY <1>4, <2>3, <2>4
      <4>2. ns[n].type \notin BlockTypes
        BY <2>4, SomeNodeTypes DEF BlockTypes
      <4> QED
        BY <1>3, <4>1, <4>2 DEF BlocksBefore
    <3>3. ParentsBelow(ns)
      BY <2>7 DEF TreeSpans
    <3>4. command.parent \in DOMAIN ns /\ ns[command.parent].type \in Containers
      BY <1>2, <2>3, <2>4, <2>5
    <3>5. \A m \in DOMAIN ns :
            ns[m].line_start.b <= Here.a \/ Shares(Append(ns, command), m, Len(ns) + 1)
      <4>1. \A k \in DOMAIN ns : k = n \/ (k \in DOMAIN Flushed /\ ns[k] = Flushed[k])
        BY <1>4, <2>3, <2>4
      <4> HIDE DEF ns
      <4> QED
        BY <1>3, <2>6, <2>9, <3>1, <4>1 DEF NodesBefore
    <3>6. command.type \notin BlockTypes
      BY <2>5, SomeNodeTypes DEF BlockTypes
    <3> HIDE DEF ns
    <3> QED
      BY <1>3, <2>4, <2>5, <2>6, <3>2, <3>3, <3>4, <3>5, <3>6, LaidAppended
  <2>12. Keeps(nodes', Flushed)
    BY <2>4, <2>10, KeepsTwice
  <2>13. StackHolds(nodes', nodestack')
    <3>1. StackHolds(nodes', nodestack)
      BY <1>3, <1>4, <2>12, HeldKept
    <3>2. nodes'[n].type \in Containers
      BY <1>2, <2>4, <2>8
    <3> QED
      BY <1>4, <2>1, <3>1, <3>2, HeldPushed
  <2>14. Placed(nodes', <<>>, Here)
    BY <1>4, <2>4, <2>10, PlacedKept
  <2>15. ASSUME NEW k \in DOMAIN nodes' \ DOMAIN Flushed, nodes'[k].type = "TARGET"
         PROVE  TargetTaken(nodes', k, pos + 1)
    <3>1. k = n \/ k = n + 1
      BY <2>3, <2>8
    <3>2. k = n
      BY <1>2, <2>5, <2>8, <2>15, <3>1
    <3>3. n + 1 \in DOMAIN nodes' /\ nodes'[n].line_start = Here
      BY <2>3, <2>4, <2>8
    <3>4. tokens[pos].type = tokentype /\ tokens[pos].lines = Here /\ pos \in DOMAIN tokens /\ pos < pos + 1
      BY <1>1, TokenHere
    <3>5. Taken({"command", "no_op_command"}, Here, pos + 1)
      BY <3>4 DEF Taken
    <3> QED
      BY <2>9, <3>2, <3>3, <3>5 DEF TargetTaken
  <2> QED
    BY <1>1, <2>11, <2>12, <2>13, <2>14, <2>15, LaidDone
<1> QED
  BY <1>5, <1>6

(* A block on the stack is open.                                           *)
LEMMA StackOpen ==
  ASSUME NEW ns \in Seq(Node), NEW st \in Seq(DOMAIN ns), TreeSpans(ns, st), NEW j \in DOMAIN st,
         ns[st[j]].type \in BlockTypes
  PROVE  ns[st[j]].line_end = ns[st[j]].line_start
<1> SUFFICES ASSUME ns[st[j]].line_end # ns[st[j]].line_start
             PROVE  FALSE
  OBVIOUS
<1>1. st[j] \in DOMAIN ns /\ st[j] \in Nat
  OBVIOUS
<1>2. PICK q \in st[j] .. Len(ns) : \A k \in DOMAIN st : st[k] < st[j] \/ st[k] > q
  BY <1>1 DEF TreeSpans, BlocksSpanned
<1> QED
  BY <1>1, <1>2

(* The block that .endfor or .endif closes.                                *)
LEMMA CloseLaid ==
  ASSUME IInv, LinesSound, SpansInv, LaidInv, NEW type, Token1(type), type \notin {"comment", "target_end"},
         NEW j \in DOMAIN nodestack,
         Ends(Flushed, nodestack[j]),
         nodes' = [Flushed EXCEPT ![nodestack[j]].line_end = Here],
         nodestack' = Below(nodestack, j)
  PROVE  LaidInv'
<1> DEFINE c == nodestack[j]
<1>1. /\ Flushed \in Seq(Node) /\ nodestack \in Seq(DOMAIN Flushed) /\ Here \in LineRange
      /\ TreeSpans(Flushed, nodestack)
  BY SpansTaken
<1>2. /\ StackHolds(Flushed, nodestack) /\ Laid(Flushed, LinesEnd) /\ ParentsBelow(Flushed)
      /\ LinesEnd \in Nat /\ Inside(Here, LinesEnd) /\ NodesBefore(Flushed, Here.a)
  BY LaidTaken
<1>3. c \in DOMAIN Flushed /\ Flushed[c].type \in BlockTypes
  BY <1>1 DEF Ends, BlockTypes
<1>4. Flushed[c].line_end = Flushed[c].line_start
  BY <1>1, <1>3, StackOpen
<1> HIDE DEF c
<1>5. nodes' = [Flushed EXCEPT ![c].line_end = Here]
  BY DEF c
<1>6. Laid(nodes', LinesEnd)
  <2>1. Laid([Flushed EXCEPT ![c].line_end = Here], LinesEnd)
    BY <1>1, <1>2, <1>3, <1>4, LaidClosed, Zenon
  <2> QED
    BY <1>5, <2>1, Zenon
<1>7. Keeps(nodes', Flushed)
  <2>1. Keeps([Flushed EXCEPT ![c].line_end = Here], Flushed)
    BY <1>1, <1>3, <1>4, KeepsClosed, Zenon
  <2> QED
    BY <1>5, <2>1, Zenon
<1>8. StackHolds(nodes', nodestack')
  <2>1. StackHolds(nodes', nodestack)
    BY <1>1, <1>2, <1>7, HeldKept
  <2> QED
    BY <1>1, <2>1, HeldCut
<1>9. Placed(nodes', <<>>, Here)
  <2>1. c \in DOMAIN nodes' /\ nodes'[c].line_end = Here
    <3>1. c \in DOMAIN nodes' /\ nodes'[c] = [Flushed[c] EXCEPT !.line_end = Here] /\ Flushed[c] \in Node
      BY <1>1, <1>3, <1>5
    <3> QED
      BY <3>1 DEF Node
  <2>2. Ends(nodes', c)
    BY <1>3, <1>7 DEF Ends, Keeps, c
  <2> QED
    BY <2>1, <2>2 DEF Placed
<1>10. DOMAIN nodes' = DOMAIN Flushed
  BY <1>1, <1>5
<1> QED
  BY <1>6, <1>7, <1>8, <1>9, <1>10, LaidDone

LEMMA EndforLaid ==
  ASSUME IInv, LinesSound, SpansInv, LaidInv, Endfor
  PROVE  LaidInv'
<1> DEFINE top == Len(nodestack)
           depth == IF nodes[Peek(nodestack)].type = "TARGET" THEN top - 1 ELSE top
           node == nodestack[depth]
<1>1. Token1("endfor")
  BY DEF Endfor
<1>2. /\ Flushed \in Seq(Node) /\ nodestack \in Seq(DOMAIN Flushed) /\ nodestack[1] = Root
      /\ top \in DOMAIN nodestack /\ Peek(nodestack) = nodestack[top]
  BY <1>1, SpansTaken
<1>3. Stacks(nodes, nodestack, ifstack) /\ Grown(Flushed, nodes)
  BY <1>1, TokenTaken
<1>4. CASE nodes[node].type = "FOR"
  <2>1. nodes' = [Flushed EXCEPT ![node].line_end = Here] /\ nodestack' = Below(nodestack, depth)
    BY <1>4 DEF Endfor
  <2>2. nodes[Root].type = "ROOT"
    BY <1>3 DEF Stacks
  <2>3. depth \in DOMAIN nodestack
    BY <1>2, <1>4, <2>2
  <2> HIDE DEF depth, node
  <2>4. Flushed[nodestack[depth]].type = "FOR"
    BY <1>3, <1>4, <2>3 DEF Stacks, Grown, node
  <2>5. Ends(Flushed, nodestack[depth])
    BY <2>4 DEF Ends
  <2> QED
    BY <1>1, <2>1, <2>3, <2>5, CloseLaid DEF node
<1>5. CASE nodes[node].type # "FOR"
  <2>1. Fail
    BY <1>5 DEF Endfor
  <2> QED
    BY <1>1, <2>1, LaidFailed
<1> QED
  BY <1>4, <1>5

LEMMA EndifLaid ==
  ASSUME IInv, LinesSound, SpansInv, LaidInv, Endif
  PROVE  LaidInv'
<1>1. Token1("endif")
  BY DEF Endif
<1>2. CASE ifstack = <<>> /\ Fail
  BY <1>1, <1>2, LaidFailed
<1>3. ASSUME NEW i \in DOMAIN ifstack, NEW j \in DOMAIN nodestack, InnermostIf(i),
             nodestack[j] = ifstack[i],
             nodes' = [Flushed EXCEPT ![ifstack[i]].line_end = Here],
             nodestack' = Below(nodestack, j)
      PROVE  LaidInv'
  <2>1. Stacks(nodes, nodestack, ifstack) /\ Grown(Flushed, nodes)
    BY <1>1, TokenTaken
  <2>2. /\ ifstack[i] \in DOMAIN nodes /\ nodes[ifstack[i]].ifparent = NoNode
        /\ nodes[ifstack[i]].type \in IfTypes
    BY <1>3, <2>1 DEF Stacks, InnermostIf
  <2>3. Ends(Flushed, nodestack[j])
    BY <1>3, <2>1, <2>2 DEF Grown, Ends
  <2> QED
    BY <1>1, <1>3, <2>3, CloseLaid
<1> QED
  BY <1>2, <1>3 DEF Endif

(* Without the target on top the stack still holds what it held.           *)
LEMMA WithoutTargetHolds ==
  ASSUME IInv, LinesSound, SpansInv, LaidInv, NEW type, Token1(type)
  PROVE  /\ WithoutTarget \in Seq(DOMAIN Flushed) /\ WithoutTarget # <<>>
         /\ StackHolds(Flushed, WithoutTarget)
<1>1. WithoutTarget \in Seq(DOMAIN Flushed) /\ WithoutTarget # <<>>
  BY WithoutTargetSpans
<1>2. StackHolds(Flushed, nodestack)
  BY LaidTaken
<1>3. nodestack \in Seq(DOMAIN Flushed) /\ Len(nodestack) \in DOMAIN nodestack
  BY SpansTaken
<1>4. StackHolds(Flushed, Below(nodestack, Len(nodestack)))
  BY <1>2, <1>3, HeldCut
<1> QED
  BY <1>1, <1>2, <1>4 DEF WithoutTarget

LEMMA TargetLaid ==
  ASSUME IInv, LinesSound, SpansInv, LaidInv, TargetStart \/ TargetEnd
  PROVE  LaidInv'
<1>1. CASE TargetStart
  <2>1. /\ Token1("target_start")
        /\ nodes' = Append(Flushed, NewNode("TARGET", Peek(WithoutTarget), NoNode, Here))
        /\ nodestack' = Append(WithoutTarget, Next1(Flushed))
    BY <1>1 DEF TargetStart
  <2>2. /\ WithoutTarget \in Seq(DOMAIN Flushed) /\ WithoutTarget # <<>>
        /\ StackHolds(Flushed, WithoutTarget)
    BY <2>1, WithoutTargetHolds
  <2>3. "TARGET" \in NodeTypes /\ "TARGET" \in Containers
    BY SomeNodeTypes DEF Containers
  <2> QED
    BY <2>1, <2>2, <2>3, TopLaid
<1>2. CASE TargetEnd
  <2>1. Token1("target_end") /\ nodes' = Flushed /\ nodestack' = WithoutTarget
    BY <1>2 DEF TargetEnd
  <2>2. /\ Laid(Flushed, LinesEnd) /\ StackHolds(Flushed, WithoutTarget) /\ Flushed \in Seq(Node)
    BY <2>1, LaidTaken, WithoutTargetHolds, SpansTaken
  <2>3. Keeps(Flushed, Flushed)
    BY <2>2 DEF Keeps
  <2> QED
    BY <2>1, <2>2, <2>3, LaidDone
<1> QED
  BY <1>1, <1>2

(* A comment waits behind the comments that wait, and behind all nodes.    *)
LEMMA CommentLaid ==
  ASSUME IInv, LinesSound, SpansInv, LaidInv, Comment
  PROVE  LaidInv'
<1>1. Token1("comment") /\ UNCHANGED <<error, nodes, nodestack, ifstack>>
  BY DEF Comment
<1>2. /\ finished' /\ ~built' /\ error = "ok" /\ ~built /\ pos' = pos + 1 /\ tokens' = tokens
      /\ comments' = Append(comments, Here) /\ comments \in Seq(LineRange) /\ Here \in LineRange
      /\ DOMAIN tokens \subseteq Nat /\ pos \in DOMAIN tokens /\ tokens[pos].type = "comment"
      /\ tokens \in Seq(Token) /\ pos \in Nat /\ tokens[pos].lines = Here
  <2>1. comments' = Append(comments, Here)
    BY <1>1 DEF Token1, Here
  <2>2. comments \in Seq(LineRange)
    BY DEF IInv, TypeOK
  <2>3. Here \in LineRange
    BY <1>1, TokenTaken
  <2> QED
    BY <1>1, <2>1, <2>2, <2>3, TokenHere
<1>3. /\ LinesEnd' = LinesEnd /\ finished /\ Inside(Here, LinesEnd)
  BY <1>1, LaidTaken
<1>4. \A c \in DOMAIN comments : comments[c].b <= Here.a
  BY <1>2 DEF SpansInv, TokensBehind, Stands
<1>5. StartsBefore(nodes, Here.a)
  BY <1>2 DEF SpansInv, TokensBehind, Stands, NodesBefore, StartsBefore
<1>6. \A range \in LineRange : range.a \in Nat /\ range.b \in Nat
  BY DEF LineRange
<1>7. CommentsInRow'
  <2> DEFINE cs == Append(comments, Here)
             last == Len(comments) + 1
  <2>1. /\ DOMAIN cs = 1 .. last /\ DOMAIN comments = 1 .. Len(comments) /\ Len(comments) \in Nat
        /\ cs[last] = Here /\ \A c \in DOMAIN comments : cs[c] = comments[c] /\ comments[c] \in LineRange
    BY <1>2
  <2> HIDE DEF cs
  <2>2. CommentsInRow
    BY DEF LaidInv
  <2>3. ASSUME NEW c \in DOMAIN cs
        PROVE  /\ Inside(cs[c], LinesEnd) /\ StartsBefore(nodes, cs[c].a)
               /\ \A d \in DOMAIN cs : c < d => cs[c].a <= cs[d].a /\ cs[c].b <= cs[d].b
    <3>1. CASE c = last
      <4>1. \A d \in DOMAIN cs : ~(c < d)
        BY <2>1, <3>1
      <4> QED
        BY <1>3, <1>5, <2>1, <3>1, <4>1
    <3>2. CASE c \in DOMAIN comments
      <4>1. Inside(comments[c], LinesEnd) /\ StartsBefore(nodes, comments[c].a)
        BY <2>2, <3>2 DEF CommentsInRow
      <4>2. ASSUME NEW d \in DOMAIN cs, c < d
            PROVE  cs[c].a <= cs[d].a /\ cs[c].b <= cs[d].b
        <5>1. CASE d \in DOMAIN comments
          BY <2>1, <2>2, <3>2, <4>2, <5>1 DEF CommentsInRow
        <5>2. CASE d = last
          <6>1. comments[c].b <= Here.a /\ comments[c].a < comments[c].b
            BY <1>4, <3>2, <4>1 DEF Inside
          <6>2. /\ comments[c].a \in Nat /\ comments[c].b \in Nat /\ Here.a \in Nat /\ Here.b \in Nat
                /\ Here.a < Here.b
            BY <1>2, <1>3, <1>6, <2>1, <3>2 DEF Inside
          <6> QED
            BY <2>1, <3>2, <5>2, <6>1, <6>2
        <5> QED
          BY <2>1, <5>1, <5>2
      <4> QED
        BY <2>1, <3>2, <4>1, <4>2
    <3> QED
      BY <2>1, <3>1, <3>2
  <2>4. comments' = cs
    BY <1>2 DEF cs
  <2> QED
    BY <1>1, <1>3, <2>3, <2>4 DEF CommentsInRow, StartsBefore
<1>8. TokensPlaced(nodes, comments, pos)'
  <2> DEFINE cs == Append(comments, Here)
             last == Len(comments) + 1
  <2>1. /\ last \in DOMAIN cs /\ cs[last] = Here
        /\ \A c \in DOMAIN comments : c \in DOMAIN cs /\ cs[c] = comments[c]
    BY <1>2
  <2> HIDE DEF cs
  <2>2. ASSUME NEW i \in DOMAIN tokens, i < pos + 1, Stands(i)
        PROVE  Placed(nodes, cs, tokens[i].lines)
    <3>1. CASE i = pos
      BY <1>2, <2>1, <3>1 DEF Placed
    <3>2. CASE i < pos
      <4>1. Placed(nodes, comments, tokens[i].lines)
        BY <1>2, <2>2, <3>2 DEF LaidInv, TokensPlaced
      <4> QED
        BY <2>1, <4>1 DEF Placed
    <3> QED
      BY <1>2, <2>2, <3>1, <3>2
  <2>3. comments' = cs
    BY <1>2 DEF cs
  <2> QED
    BY <1>1, <1>2, <2>2, <2>3 DEF TokensPlaced, Stands, Placed, Ends
<1>9. TargetsTaken(nodes, pos)'
  <2>1. Keeps(nodes, nodes) /\ pos <= pos + 1 /\ pos + 1 \in Nat /\ TargetsTaken(nodes, pos)
    BY <1>2 DEF Keeps, IInv, TypeOK, LaidInv
  <2>2. \A n \in DOMAIN nodes : nodes[n].type = "TARGET" => TargetTaken(nodes, n, pos + 1)
    BY <1>2, <2>1, TargetKept DEF TargetsTaken
  <2> QED
    BY <1>1, <1>2, <2>2 DEF TargetsTaken, TargetTaken, Taken
<1>10. TailSound'
  BY <1>1, <1>2, <1>3 DEF LaidInv, TailSound, Stands, Token1
<1>11. Laid(nodes, LinesEnd)' /\ StackHolds(nodes, nodestack)'
  BY <1>1, <1>2, <1>3 DEF LaidInv
<1> QED
  BY <1>1, <1>2, <1>7, <1>8, <1>9, <1>10, <1>11 DEF LaidInv

(* At the end what is left of the comments is flushed.                     *)
LEMMA FinishLaid ==
  ASSUME IInv, SpansInv, LaidInv, BuilderFinish
  PROVE  LaidInv'
<1>1. /\ Building /\ nodestack # <<>> /\ nodes' = Flushed /\ comments' = <<>>
      /\ nodestack' = Below(nodestack, Len(nodestack))
      /\ finished' /\ LinesEnd' = LinesEnd /\ TailSound'
      /\ tokens' = tokens /\ pos' = pos /\ pos = Len(tokens) + 1
  BY DEF BuilderFinish, Building, LinesEnd, TailSound, LaidInv, Stands
<1>2. /\ Keeps(Flushed, nodes) /\ Laid(Flushed, LinesEnd) /\ StackHolds(Flushed, nodestack)
      /\ TokensPlaced(Flushed, <<>>, pos) /\ TargetsTaken(Flushed, pos)
  BY <1>1, FlushedLaid
<1>3. StackHolds(Flushed, Below(nodestack, Len(nodestack)))
  <2>1. nodestack \in Seq(DOMAIN nodes)
    BY DEF IInv, TypeOK
  <2>2. Len(nodestack) \in DOMAIN nodestack
    BY <1>1, <2>1
  <2> QED
    BY <1>2, <2>1, <2>2, HeldCut
<1>4. Laid(nodes, LinesEnd)' /\ StackHolds(nodes, nodestack)'
  BY <1>1, <1>2, <1>3
<1>5. TokensPlaced(nodes, comments, pos)'
  BY <1>1, <1>2 DEF TokensPlaced, Stands, Placed, Ends
<1>6. TargetsTaken(nodes, pos)'
  BY <1>1, <1>2 DEF TargetsTaken, TargetTaken, Taken
<1>7. CommentsInRow'
  BY <1>1 DEF CommentsInRow
<1> QED
  BY <1>1, <1>4, <1>5, <1>6, <1>7 DEF LaidInv

LEMMA BuilderLaid ==
  ASSUME IInv, LinesSound, SpansInv, LaidInv, BuilderStep
  PROVE  LaidInv'
<1> DEFINE Top(tokentype, type) ==
             /\ Token1(tokentype) /\ tokentype \notin {"comment", "target_end"}
             /\ nodes' = Append(Flushed, NewNode(type, Peek(nodestack), NoNode, Here))
             /\ nodestack' = nodestack \/ (type \in Containers /\ nodestack' = Append(nodestack, Next1(Flushed)))
<1>1. ASSUME NEW tokentype, NEW type \in NodeTypes \ {"TARGET"}, Top(tokentype, type)
      PROVE  LaidInv'
  <2>1. /\ nodestack \in Seq(DOMAIN Flushed) /\ nodestack # <<>> /\ StackHolds(Flushed, nodestack)
    BY <1>1, SpansTaken, LaidTaken
  <2> QED
    BY <1>1, <2>1, TopLaid
<1>2. {"INCLUDE", "EXPR", "VARIABLE", "FOR", "IF"} \subseteq NodeTypes \ {"TARGET"} /\ {"FOR", "IF"} \subseteq Containers
  BY SomeNodeTypes DEF Containers, IfTypes
<1>3. CASE Comment
  BY <1>3, CommentLaid
<1>4. CASE Malformed
  BY <1>4, LaidFailed DEF Malformed
<1>5. CASE Include
  <2>1. Top("include", "INCLUDE")
    BY <1>5 DEF Include, Leaf
  <2> HIDE DEF Top
  <2> QED
    BY <1>1, <1>2, <2>1
<1>6. CASE Expr
  <2>1. Top("expr", "EXPR")
    BY <1>6 DEF Expr, Leaf
  <2> HIDE DEF Top
  <2> QED
    BY <1>1, <1>2, <2>1
<1>7. CASE Variable
  <2>1. Top("var", "VARIABLE")
    BY <1>7 DEF Variable, Leaf
  <2> HIDE DEF Top
  <2> QED
    BY <1>1, <1>2, <2>1
<1>8. CASE For
  <2>1. Top("for", "FOR")
    BY <1>2, <1>8 DEF For
  <2> HIDE DEF Top
  <2> QED
    BY <1>1, <1>2, <2>1
<1>9. CASE If
  <2>1. Top("if", "IF")
    BY <1>2, <1>9 DEF If, PushIf
  <2> HIDE DEF Top
  <2> QED
    BY <1>1, <1>2, <2>1
<1>10. CASE Elif \/ Else
  <2>1. "IF" \in IfTypes /\ "ELSE" \in IfTypes
    BY DEF IfTypes
  <2> QED
    BY <1>10, <2>1, BranchLaid DEF Elif, Else
<1>11. CASE Endfor
  BY <1>11, EndforLaid
<1>12. CASE Endif
  BY <1>12, EndifLaid
<1>13. CASE TargetStart \/ TargetEnd
  BY <1>13, TargetLaid
<1>14. CASE TargetCommand \/ NoOpCommand
  BY <1>14, CommandLaid DEF TargetCommand, NoOpCommand
<1>15. CASE BuilderFinish
  BY <1>15, FinishLaid
<1> HIDE DEF Top
<1> QED
  BY <1>3, <1>4, <1>5, <1>6, <1>7, <1>8, <1>9, <1>10, <1>11, <1>12, <1>13, <1>14, <1>15 DEF BuilderStep

-----------------------------------------------------------------------------
(* A last line of nothing but a backslash has no token.                    *)
LEMMA TailStep ==
  ASSUME LinesSound, LinesSound', TailSound, TokenizerNext
  PROVE  TailSound'
<1>1. /\ rawlines \in Nat /\ tokens \in Seq(Token) /\ lines \in LineRange /\ in_target \in BOOLEAN
      /\ lines.a \in Nat /\ lines.b \in Nat
  BY MaxLinesAssumption DEF LinesSound, LinesIInv, TokenizerTypeOK, LineRange
<1>2. ~finished /\ error = "ok"
  BY DEF TokenizerNext, FeedNul, FeedContinued, FeedLine, TokenizerFinish, Reading
<1>3. continued => rawlines >= 1
  BY DEF TailSound
<1>4. CASE FeedNul
  BY <1>2, <1>3, <1>4 DEF FeedNul, TailSound
<1>5. ASSUME NEW text, FeedContinued(text)
      PROVE  TailSound'
  BY <1>1, <1>2, <1>5 DEF FeedContinued, TailSound
<1>6. ASSUME NEW text, FeedLine(text)
      PROVE  TailSound'
  <2>1. ~finished' /\ (continued' => continued /\ rawlines' = rawlines)
    BY <1>2, <1>6 DEF FeedLine
  <2> QED
    BY <1>3, <2>1 DEF TailSound
<1>7. CASE TokenizerFinish
  <2>1. UNCHANGED <<inbuf, continued, rawlines>> /\ LinesEnd' = LinesEnd
    BY <1>7 DEF TokenizerFinish, LinesEnd
  <2>2. CASE continued /\ inbuf = "none"
    <3> DEFINE end == IF in_target THEN TokensOf(<<"target_end">>, FinalRange) ELSE <<>>
    <3>1. tokens' = tokens \o <<>> \o end
      BY <1>7, <2>2 DEF TokenizerFinish
    <3>2. FinalRange \in LineRange
      BY <1>1, <2>2 DEF FinalRange
    <3>3. end \in Seq(Token) /\ \A k \in DOMAIN end : end[k].type = "target_end"
      <4>1. <<"target_end">> \in Seq(TokenTypes)
        BY SomeTokenTypes
      <4>2. DOMAIN <<"target_end">> = {1} /\ <<"target_end">>[1] = "target_end"
        OBVIOUS
      <4>3. /\ TokensOf(<<"target_end">>, FinalRange) \in Seq(Token)
            /\ DOMAIN TokensOf(<<"target_end">>, FinalRange) = DOMAIN <<"target_end">>
            /\ \A k \in DOMAIN <<"target_end">> :
                 TokensOf(<<"target_end">>, FinalRange)[k].type = <<"target_end">>[k]
        BY <3>2, <4>1, TokensOfLine
      <4> QED
        BY <4>2, <4>3
    <3> HIDE DEF end
    <3>4. tokens' = tokens \o end
      <4>1. tokens \o <<>> = tokens
        BY <1>1
      <4> QED
        BY <3>1, <4>1
    <3>5. /\ lines.b = rawlines + 1 /\ lines.b = lines.a + 1
          /\ \A i \in DOMAIN tokens : tokens[i].lines.b <= lines.a
      BY <1>2, <2>2 DEF LinesSound, LinesIInv, PendingRange, PendingLines, Within
    <3>6. LinesEnd' = lines.a
      BY <1>1, <2>1, <2>2, <3>5 DEF LinesEnd
    <3>7. ASSUME NEW i \in DOMAIN tokens', Stands(i)'
          PROVE  tokens'[i].lines.b <= LinesEnd'
      <4>1. i \in DOMAIN tokens /\ tokens'[i] = tokens[i]
        BY <1>1, <3>3, <3>4, <3>7, AppendedAt DEF Stands
      <4> QED
        BY <3>5, <3>6, <4>1
    <3> QED
      BY <1>3, <2>1, <3>7 DEF TailSound
  <2>3. CASE ~(continued /\ inbuf = "none")
    <3>1. LinesEnd' = rawlines' + 1
      BY <2>1, <2>3 DEF LinesEnd
    <3>2. \A i \in DOMAIN tokens' : Stands(i)' => tokens'[i].lines.b <= LinesEnd'
      BY <3>1 DEF LinesSound, RangesWithinInput
    <3> QED
      BY <1>3, <2>1, <3>2 DEF TailSound
  <2> QED
    BY <2>2, <2>3
<1> QED
  BY <1>4, <1>5, <1>6, <1>7 DEF TokenizerNext

(* Before the first token there is the root and nothing else.              *)
LEMMA BegunLaid ==
  ASSUME NotBegun
  PROVE  /\ \A end : Laid(nodes, end)
         /\ StackHolds(nodes, nodestack)
         /\ \A n \in DOMAIN nodes : nodes[n].type # "TARGET"
<1>1. DOMAIN nodes = {Root} /\ nodes[Root].type = "ROOT" /\ nodestack = <<Root>> /\ Root = 1
  BY DEF NotBegun, RootNode, NewNode, Root
<1>2. "ROOT" \notin BlockTypes /\ "ROOT" \in Containers
  BY SomeNodeTypes DEF BlockTypes, Containers
<1>3. \A end : Laid(nodes, end)
  BY <1>1, <1>2 DEF Laid, StartsApart, AllInside, EndsApart, HoldersHold
<1>4. StackHolds(nodes, nodestack)
  BY <1>1, <1>2 DEF StackHolds
<1> QED
  BY <1>1, <1>3, <1>4

(* Every line that has a token is printed for exactly one node, or ends a  *)
(* block, and the nodes are on lines of their own.                         *)
THEOREM NodesStayLaid == Spec => [](IInv /\ LinesSound /\ SpansInv /\ LaidInv)
<1> DEFINE Sound == IInv /\ LinesSound /\ SpansInv
<1>1. Init => LaidInv
  <2> SUFFICES ASSUME Init
               PROVE  LaidInv
    OBVIOUS
  <2>1. NotBegun /\ tokens \in Seq(Token) /\ pos = 1 /\ ~finished /\ ~continued /\ ~built
    <3>1. TokenizerTypeOK
      BY TokenizerInitType DEF Init
    <3> QED
      BY <3>1 DEF Init, TokenizerInit, NotBegun, TokenizerTypeOK
  <2>2. comments = <<>> /\ \A i \in DOMAIN tokens : ~(i < 1)
    BY <2>1 DEF NotBegun
  <2> QED
    BY <2>1, <2>2, BegunLaid DEF LaidInv, TailSound, TokensPlaced, TargetsTaken, CommentsInRow
<1>2. Sound /\ Sound' /\ LaidInv /\ [Next]_vars => LaidInv'
  <2> SUFFICES ASSUME Sound, Sound', LaidInv, [Next]_vars
               PROVE  LaidInv'
    OBVIOUS
  <2>1. CASE BuilderStep
    BY <2>1, BuilderLaid
  <2>2. CASE TokenizerNext /\ UNCHANGED builderVars
    <3>1. TailSound'
      BY <2>2, TailStep DEF LaidInv
    <3>2. ~finished
      BY <2>2 DEF TokenizerNext, FeedNul, FeedContinued, FeedLine, TokenizerFinish, Reading
    <3>3. NotBegun /\ UNCHANGED <<nodes, nodestack, comments, built, pos>>
      BY <2>2, <3>2 DEF SpansInv, LaidInv, builderVars
    <3>4. /\ \A end : Laid(nodes', end)
          /\ \A n \in DOMAIN nodes' : nodes'[n].type # "TARGET"
          /\ comments' = <<>> /\ pos' = 1 /\ ~built'
      BY <3>2, <3>3, BegunLaid DEF NotBegun, LaidInv
    <3>5. StackHolds(nodes, nodestack)'
      BY <3>3, BegunLaid DEF NotBegun, SpansInv, StackHolds, builderVars
    <3>6. \A i \in DOMAIN tokens' : ~(i < 1)
      BY DEF IInv, TypeOK, TokenizerTypeOK
    <3> QED
      BY <3>1, <3>4, <3>5, <3>6 DEF LaidInv, TokensPlaced, TargetsTaken, CommentsInRow
  <2>3. CASE UNCHANGED vars
    BY <2>3 DEF vars, tokenizerVars, builderVars, LaidInv, TailSound, LinesEnd, Stands, Laid,
                StackHolds, TokensPlaced, Placed, TargetsTaken, TargetTaken, Taken, CommentsInRow
  <2> QED
    BY <2>1, <2>2, <2>3 DEF Next, Stopped
<1> HIDE DEF Sound
<1>3. Spec => []Sound
  BY SpansStaySound, PTL DEF Sound
<1>4. Spec => [](Sound /\ LaidInv)
  BY <1>1, <1>2, <1>3, PTL DEF Spec
<1>5. Sound /\ LaidInv => IInv /\ LinesSound /\ SpansInv /\ LaidInv
  BY DEF Sound
<1> QED
  BY <1>4, <1>5, PTL

-----------------------------------------------------------------------------
(* A command begins with the token of one.                                 *)
CommandTypes == {"COMMAND", "NO_OP_COMMAND"}
CommandsTaken(ns, p) ==
  \A n \in DOMAIN ns :
    ns[n].type \in CommandTypes => Taken({"command", "no_op_command"}, ns[n].line_start, p)

(* The commands of ms are commands of ns.                                  *)
CommandsOf(ms, ns) ==
  \A n \in DOMAIN ms : ms[n].type \in CommandTypes =>
    n \in DOMAIN ns /\ ns[n].type \in CommandTypes /\ ns[n].line_start = ms[n].line_start

LEMMA CommandsAppended ==
  ASSUME NEW ns \in Seq(Node), NEW node, node.type \notin CommandTypes
  PROVE  CommandsOf(Append(ns, node), ns)
<1> DEFINE ms == Append(ns, node)
<1>1. \A n \in DOMAIN ms : ms[n] = node \/ (n \in DOMAIN ns /\ ms[n] = ns[n])
  OBVIOUS
<1> HIDE DEF ms
<1> QED
  BY <1>1 DEF CommandsOf, ms

LEMMA CommandsClosed ==
  ASSUME NEW ns \in Seq(Node), NEW c \in DOMAIN ns, NEW range
  PROVE  CommandsOf([ns EXCEPT ![c].line_end = range], ns)
<1> DEFINE ms == [ns EXCEPT ![c].line_end = range]
<1>1. /\ DOMAIN ms = DOMAIN ns /\ ms[c] = [ns[c] EXCEPT !.line_end = range]
      /\ \A n \in DOMAIN ns : n # c => ms[n] = ns[n]
  OBVIOUS
<1>2. ns[c] \in Node
  OBVIOUS
<1>3. ms[c].line_start = ns[c].line_start /\ ms[c].type = ns[c].type
  BY <1>1, <1>2 DEF Node
<1> HIDE DEF ms
<1> QED
  BY <1>1, <1>3 DEF CommandsOf, ms

LEMMA CommandsFlushed ==
  ASSUME TypeOK, nodestack # <<>>
  PROVE  CommandsOf(Flushed, nodes)
<1>1. nodes \in Seq(Node)
  BY DEF TypeOK
<1>2. CASE comments = <<>>
  BY <1>2 DEF Flushed, CommandsOf
<1>3. CASE comments # <<>>
  <2> DEFINE node == CommentNode(Peek(nodestack))
  <2>1. Flushed = Append(nodes, node)
    BY <1>3 DEF Flushed
  <2>2. node.type = "COMMENT"
    BY DEF CommentNode, NewNode
  <2>3. node.type \notin CommandTypes
    BY <2>2 DEF CommandTypes
  <2> HIDE DEF node
  <2> QED
    BY <1>1, <2>1, <2>3, CommandsAppended
<1> QED
  BY <1>2, <1>3

LEMMA CommandsTwice ==
  ASSUME NEW ls, NEW ms, NEW ns, CommandsOf(ls, ms), CommandsOf(ms, ns)
  PROVE  CommandsOf(ls, ns)
  BY DEF CommandsOf

(* A step that adds no command.                                            *)
LEMMA NoCommandAdded ==
  ASSUME NEW ms, NEW ns, CommandsOf(ms, ns), tokens \in Seq(Token),
         NEW p \in Nat, NEW q \in Nat, p <= q, CommandsTaken(ns, p)
  PROVE  CommandsTaken(ms, q)
<1> SUFFICES ASSUME NEW n \in DOMAIN ms, ms[n].type \in CommandTypes
             PROVE  Taken({"command", "no_op_command"}, ms[n].line_start, q)
  BY DEF CommandsTaken
<1>1. Taken({"command", "no_op_command"}, ms[n].line_start, p)
  BY DEF CommandsTaken, CommandsOf
<1> QED
  BY <1>1, TakenLater

(* A command is added with the token of the step.                          *)
LEMMA CommandAdded ==
  ASSUME IInv, CommandsTaken(nodes, pos), NEW tokentype \in {"command", "no_op_command"},
         NEW nodetype \in NodeTypes, Command(tokentype, nodetype)
  PROVE  CommandsTaken(nodes', pos + 1)
<1>1. Token1(tokentype) /\ nodestack # <<>>
  BY DEF Command, Token1
<1>2. /\ tokens \in Seq(Token) /\ pos \in Nat /\ pos \in DOMAIN tokens
      /\ tokens[pos].type = tokentype /\ tokens[pos].lines = Here
  BY <1>1, TokenHere
<1>3. Flushed \in Seq(Node) /\ CommandsOf(Flushed, nodes)
  BY <1>1, FlushedGrown, CommandsFlushed DEF IInv
<1>4. CommandsTaken(Flushed, pos + 1)
  BY <1>2, <1>3, NoCommandAdded
<1>5. Taken({"command", "no_op_command"}, Here, pos + 1)
  <2>1. pos < pos + 1
    BY <1>2
  <2> QED
    BY <1>2, <2>1 DEF Taken
<1>6. ASSUME NEW ns \in Seq(Node), NEW node, CommandsTaken(ns, pos + 1), node.line_start = Here
      PROVE  CommandsTaken(Append(ns, node), pos + 1)
  <2> DEFINE ms == Append(ns, node)
  <2>1. \A n \in DOMAIN ms : ms[n] = node \/ (n \in DOMAIN ns /\ ms[n] = ns[n])
    OBVIOUS
  <2> HIDE DEF ms
  <2> QED
    BY <1>5, <1>6, <2>1 DEF CommandsTaken, ms
<1>7. \A type, parent : NewNode(type, parent, NoNode, Here).line_start = Here
  BY DEF NewNode
<1>8. CASE HasTarget[Peek(nodestack)]
  <2>1. nodes' = Append(Flushed, NewNode(nodetype, Peek(nodestack), NoNode, Here))
    BY <1>8 DEF Command
  <2> QED
    BY <1>3, <1>4, <1>6, <1>7, <2>1
<1>9. CASE ~HasTarget[Peek(nodestack)]
  <2> DEFINE target == NewNode("TARGET", Peek(nodestack), NoNode, Here)
             command == NewNode(nodetype, Next1(Flushed), NoNode, Here)
             ns == Append(Flushed, target)
  <2>1. nodes' = Flushed \o <<target, command>>
    BY <1>9 DEF Command
  <2>2. target.line_start = Here /\ command.line_start = Here /\ target.type \notin CommandTypes
    BY <1>7 DEF NewNode, CommandTypes
  <2> HIDE DEF target, command
  <2>3. /\ DOMAIN nodes' = 1 .. (Len(Flushed) + 2)
        /\ \A n \in DOMAIN nodes' :
             nodes'[n] = target \/ nodes'[n] = command \/ (n \in DOMAIN Flushed /\ nodes'[n] = Flushed[n])
    BY <1>3, <2>1
  <2> QED
    BY <1>4, <1>5, <2>2, <2>3 DEF CommandsTaken
<1> QED
  BY <1>8, <1>9

(* What .endfor and .endif close is one of the nodes.                      *)
LEMMA ClosedIsNode ==
  ASSUME IInv, Endfor \/ Endif, nodes' # nodes
  PROVE  /\ nodestack # <<>> /\ Flushed \in Seq(Node)
         /\ \E c \in DOMAIN Flushed : nodes' = [Flushed EXCEPT ![c].line_end = Here]
<1>1. PICK type : Token1(type)
  BY DEF Endfor, Endif
<1>2. /\ nodestack # <<>> /\ Stacks(Flushed, nodestack, ifstack) /\ Flushed \in Seq(Node)
      /\ nodestack \in Seq(DOMAIN Flushed) /\ nodestack[1] = Root
      /\ nodes[Root].type = "ROOT" /\ Peek(nodestack) = nodestack[Len(nodestack)]
  BY <1>1, TokenTaken DEF Stacks, Peek
<1>3. CASE Endfor
  <2> DEFINE depth == IF nodes[Peek(nodestack)].type = "TARGET" THEN Len(nodestack) - 1
                      ELSE Len(nodestack)
  <2>1. /\ nodes[nodestack[depth]].type = "FOR"
        /\ nodes' = [Flushed EXCEPT ![nodestack[depth]].line_end = Here]
    BY <1>3 DEF Endfor, Fail
  <2>2. Len(nodestack) = 1 => depth = 1
    BY <1>2
  <2>3. depth \in DOMAIN nodestack
    BY <1>2, <2>2
  <2>4. nodestack[depth] \in DOMAIN Flushed
    BY <1>2, <2>3
  <2> HIDE DEF depth
  <2> QED
    BY <1>2, <2>1, <2>4
<1>4. CASE Endif
  <2>1. PICK i \in DOMAIN ifstack : nodes' = [Flushed EXCEPT ![ifstack[i]].line_end = Here]
    BY <1>4 DEF Endif, Fail
  <2>2. ifstack[i] \in DOMAIN Flushed
    BY <1>2 DEF Stacks
  <2> QED
    BY <1>2, <2>1, <2>2
<1> QED
  BY <1>3, <1>4

LEMMA BuilderCommands ==
  ASSUME IInv, CommandsTaken(nodes, pos), BuilderStep
  PROVE  CommandsTaken(nodes, pos)'
<1>1. tokens \in Seq(Token) /\ pos \in Nat /\ nodes \in Seq(Node) /\ TypeOK
  BY DEF IInv, TypeOK, TokenizerTypeOK
<1>2. tokens' = tokens /\ (pos' = pos \/ pos' = pos + 1)
  <2>1. CASE \E type : Token1(type)
    BY <2>1 DEF Token1
  <2>2. CASE BuilderFinish
    BY <2>2 DEF BuilderFinish
  <2> QED
    BY <2>1, <2>2 DEF BuilderStep, Comment, Include, Expr, Variable, Leaf, Malformed, For, Endfor,
       If, Elif, Else, Branch, Endif, TargetStart, TargetEnd, TargetCommand, NoOpCommand, Command
<1>3. ASSUME CommandsTaken(nodes', pos')
      PROVE  CommandsTaken(nodes, pos)'
  BY <1>2, <1>3 DEF CommandsTaken, Taken
<1>4. ASSUME CommandsOf(nodes', nodes)
      PROVE  CommandsTaken(nodes, pos)'
  <2>1. pos' \in Nat /\ pos <= pos'
    BY <1>1, <1>2
  <2>2. CommandsTaken(nodes', pos')
    BY <1>1, <1>4, <2>1, NoCommandAdded
  <2> QED
    BY <1>3, <2>2
<1>5. nodestack # <<>> => Flushed \in Seq(Node) /\ CommandsOf(Flushed, nodes)
  BY <1>1, FlushedGrown, CommandsFlushed
<1>6. CASE UNCHANGED nodes
  BY <1>4, <1>6 DEF CommandsOf
<1>7. CASE nodestack # <<>> /\ nodes' = Flushed
  BY <1>4, <1>5, <1>7
<1>8. ASSUME NEW type, type \notin CommandTypes, nodestack # <<>>, NEW parent, NEW ifparent,
             nodes' = Append(Flushed, NewNode(type, parent, ifparent, Here))
      PROVE  CommandsTaken(nodes, pos)'
  <2> DEFINE node == NewNode(type, parent, ifparent, Here)
  <2>1. node.type \notin CommandTypes
    BY <1>8 DEF NewNode
  <2> HIDE DEF node
  <2>2. CommandsOf(Append(Flushed, node), Flushed)
    BY <1>5, <1>8, <2>1, CommandsAppended
  <2> QED
    BY <1>4, <1>5, <1>8, <2>2, CommandsTwice DEF node
<1>9. {"INCLUDE", "EXPR", "VARIABLE", "FOR", "IF", "ELSE", "TARGET"} \cap CommandTypes = {}
  BY DEF CommandTypes
<1>10. CASE Comment \/ Malformed
  BY <1>6, <1>10 DEF Comment, Malformed, Fail
<1>11. CASE Include \/ Expr \/ Variable \/ For \/ If \/ TargetStart
  <2>1. /\ nodestack # <<>>
        /\ \E type \in {"INCLUDE", "EXPR", "VARIABLE", "FOR", "IF", "TARGET"}, parent \in {Peek(nodestack), Peek(WithoutTarget)} :
             nodes' = Append(Flushed, NewNode(type, parent, NoNode, Here))
    BY <1>11 DEF Include, Expr, Variable, Leaf, For, If, PushIf, TargetStart, Token1
  <2> QED
    BY <1>8, <1>9, <2>1
<1>12. CASE Elif \/ Else
  <2>1. /\ nodestack # <<>>
        /\ \E type \in {"IF", "ELSE"}, parent, ifparent \in {Peek(nodestack), Peek(ifstack), NoNode} :
             nodes' = Append(Flushed, NewNode(type, parent, ifparent, Here))
    BY <1>12 DEF Elif, Else, Branch, PushIf, Token1
  <2> QED
    BY <1>8, <1>9, <2>1
<1>13. CASE Endfor \/ Endif
  <2>1. CASE UNCHANGED nodes
    BY <1>6, <2>1
  <2>2. CASE nodes' # nodes
    <3>1. PICK c \in DOMAIN Flushed : nodes' = [Flushed EXCEPT ![c].line_end = Here]
      BY <1>13, <2>2, ClosedIsNode
    <3>2. nodestack # <<>>
      BY <1>13, <2>2, ClosedIsNode
    <3>3. CommandsOf([Flushed EXCEPT ![c].line_end = Here], Flushed)
      BY <1>5, <3>2, CommandsClosed
    <3> QED
      BY <1>4, <1>5, <3>1, <3>2, <3>3, CommandsTwice
  <2> QED
    BY <2>1, <2>2
<1>14. CASE TargetEnd \/ BuilderFinish
  BY <1>7, <1>14 DEF TargetEnd, BuilderFinish, Token1
<1>15. CASE TargetCommand \/ NoOpCommand
  <2>1. PICK tokentype \in {"command", "no_op_command"}, nodetype \in {"COMMAND", "NO_OP_COMMAND"} :
          Command(tokentype, nodetype)
    BY <1>15 DEF TargetCommand, NoOpCommand
  <2>2. nodetype \in NodeTypes
    BY SomeNodeTypes
  <2>3. pos' = pos + 1
    BY <2>1 DEF Command, Token1
  <2>4. CommandsTaken(nodes', pos + 1)
    BY <2>1, <2>2, CommandAdded
  <2> QED
    BY <1>3, <2>3, <2>4
<1> QED
  BY <1>10, <1>11, <1>12, <1>13, <1>14, <1>15 DEF BuilderStep

(* A command of the tree was a command in the file.                        *)
THEOREM CommandsStayTaken == Spec => [](IInv /\ CommandsTaken(nodes, pos))
<1> DEFINE Inv == CommandsTaken(nodes, pos)
<1>1. Init => Inv
  <2> SUFFICES ASSUME Init
               PROVE  CommandsTaken(nodes, pos)
    OBVIOUS
  <2>1. DOMAIN nodes = {1} /\ nodes[1].type = "ROOT"
    BY DEF Init, RootNode, NewNode
  <2> QED
    BY <2>1 DEF CommandsTaken, CommandTypes
<1>2. IInv /\ SpansInv /\ Inv /\ [Next]_vars => Inv'
  <2> SUFFICES ASSUME IInv, SpansInv, CommandsTaken(nodes, pos), [Next]_vars
               PROVE  CommandsTaken(nodes, pos)'
    OBVIOUS
  <2>1. CASE BuilderStep
    BY <2>1, BuilderCommands
  <2>2. CASE TokenizerNext /\ UNCHANGED builderVars
    <3>1. ~finished
      BY <2>2 DEF TokenizerNext, FeedNul, FeedContinued, FeedLine, TokenizerFinish, Reading
    <3>2. nodes = <<RootNode>> /\ nodes' = nodes
      BY <2>2, <3>1 DEF SpansInv, NotBegun, builderVars
    <3>3. DOMAIN nodes = {1} /\ nodes[1].type = "ROOT"
      BY <3>2 DEF RootNode, NewNode
    <3> QED
      BY <3>2, <3>3 DEF CommandsTaken, CommandTypes
  <2>3. CASE UNCHANGED vars
    BY <2>3 DEF vars, tokenizerVars, builderVars, CommandsTaken, Taken
  <2> QED
    BY <2>1, <2>2, <2>3 DEF Next, Stopped
<1>3. Spec => [](IInv /\ SpansInv)
  BY SpansStaySound, PTL
<1> QED
  BY <1>1, <1>2, <1>3, PTL DEF Spec

-----------------------------------------------------------------------------
(* The nodes of ns are what they were in ms, except for where they end, no *)
(* other is a root, and of the others only a conditional is a branch.      *)
KindsKept(ms, ns) ==
  /\ DOMAIN ns \subseteq DOMAIN ms
  /\ \A n \in DOMAIN ms :
       IF n \in DOMAIN ns
       THEN /\ ms[n].type = ns[n].type /\ ms[n].ifparent = ns[n].ifparent
            /\ ms[n].line_start = ns[n].line_start
       ELSE ms[n].type # "ROOT" /\ (ms[n].ifparent # NoNode => ms[n].type \in IfTypes)
KindsSound ==
  /\ nodes[Root].line_start = [a |-> 0, b |-> 0]
  /\ \A n \in DOMAIN nodes :
       /\ nodes[n].type = "ROOT" <=> n = Root
       /\ nodes[n].ifparent # NoNode => nodes[n].type \in IfTypes

LEMMA NodeAdded ==
  ASSUME NEW ns \in Seq(Node), NEW node, node.type # "ROOT",
         node.ifparent # NoNode => node.type \in IfTypes
  PROVE  KindsKept(Append(ns, node), ns)
<1> DEFINE ms == Append(ns, node)
<1>1. /\ DOMAIN ns \subseteq DOMAIN ms
      /\ \A n \in DOMAIN ms : IF n \in DOMAIN ns THEN ms[n] = ns[n] ELSE ms[n] = node
  OBVIOUS
<1> HIDE DEF ms
<1> QED
  BY <1>1 DEF KindsKept, ms

LEMMA NodeClosed ==
  ASSUME NEW ns \in Seq(Node), NEW c \in DOMAIN ns, NEW range
  PROVE  KindsKept([ns EXCEPT ![c].line_end = range], ns)
<1> DEFINE ms == [ns EXCEPT ![c].line_end = range]
<1>1. /\ DOMAIN ms = DOMAIN ns /\ ms[c] = [ns[c] EXCEPT !.line_end = range]
      /\ \A n \in DOMAIN ns : n # c => ms[n] = ns[n]
  OBVIOUS
<1>2. ns[c] \in Node
  OBVIOUS
<1>3. ms[c].type = ns[c].type /\ ms[c].ifparent = ns[c].ifparent /\ ms[c].line_start = ns[c].line_start
  BY <1>1, <1>2 DEF Node
<1> HIDE DEF ms
<1> QED
  BY <1>1, <1>3 DEF KindsKept, ms

LEMMA KindsTwice ==
  ASSUME NEW ls, NEW ms, NEW ns, KindsKept(ls, ms), KindsKept(ms, ns)
  PROVE  KindsKept(ls, ns)
  BY DEF KindsKept

LEMMA KindsFlushed ==
  ASSUME TypeOK, nodestack # <<>>
  PROVE  KindsKept(Flushed, nodes)
<1>1. nodes \in Seq(Node)
  BY DEF TypeOK
<1>2. CASE comments = <<>>
  BY <1>2 DEF Flushed, KindsKept
<1>3. CASE comments # <<>>
  <2> DEFINE node == CommentNode(Peek(nodestack))
  <2>1. Flushed = Append(nodes, node)
    BY <1>3 DEF Flushed
  <2>2. node.type # "ROOT" /\ node.ifparent = NoNode
    BY DEF CommentNode, NewNode
  <2> HIDE DEF node
  <2> QED
    BY <1>1, <2>1, <2>2, NodeAdded
<1> QED
  BY <1>2, <1>3

LEMMA BuilderKinds ==
  ASSUME IInv, BuilderStep
  PROVE  KindsKept(nodes', nodes)
<1>1. nodes \in Seq(Node) /\ TypeOK
  BY DEF IInv, TypeOK
<1>2. nodestack # <<>> => Flushed \in Seq(Node) /\ KindsKept(Flushed, nodes)
  BY <1>1, FlushedGrown, KindsFlushed
<1>3. CASE UNCHANGED nodes
  BY <1>3 DEF KindsKept
<1>4. CASE nodestack # <<>> /\ nodes' = Flushed
  BY <1>2, <1>4
<1>5. ASSUME NEW type, type # "ROOT", nodestack # <<>>, NEW parent, NEW ifparent,
             ifparent # NoNode => type \in IfTypes,
             nodes' = Append(Flushed, NewNode(type, parent, ifparent, Here))
      PROVE  KindsKept(nodes', nodes)
  <2> DEFINE node == NewNode(type, parent, ifparent, Here)
  <2>1. node.type # "ROOT" /\ (node.ifparent # NoNode => node.type \in IfTypes)
    BY <1>5 DEF NewNode
  <2> HIDE DEF node
  <2>2. KindsKept(Append(Flushed, node), Flushed)
    BY <1>2, <1>5, <2>1, NodeAdded
  <2> QED
    BY <1>2, <1>5, <2>2, KindsTwice DEF node
<1>6. CASE Comment \/ Malformed
  BY <1>3, <1>6 DEF Comment, Malformed, Fail
<1>7. CASE Include \/ Expr \/ Variable \/ For \/ If \/ TargetStart
  <2>1. /\ nodestack # <<>>
        /\ \E type \in {"INCLUDE", "EXPR", "VARIABLE", "FOR", "IF", "TARGET"}, parent \in {Peek(nodestack), Peek(WithoutTarget)} :
             nodes' = Append(Flushed, NewNode(type, parent, NoNode, Here))
    BY <1>7 DEF Include, Expr, Variable, Leaf, For, If, PushIf, TargetStart, Token1
  <2> QED
    BY <1>5, <2>1
<1>8. CASE Elif \/ Else
  <2>1. /\ nodestack # <<>>
        /\ \E type \in {"IF", "ELSE"}, parent, ifparent \in {Peek(nodestack), Peek(ifstack), NoNode} :
             nodes' = Append(Flushed, NewNode(type, parent, ifparent, Here))
    BY <1>8 DEF Elif, Else, Branch, PushIf, Token1
  <2> QED
    BY <1>5, <2>1 DEF IfTypes
<1>9. CASE Endfor \/ Endif
  <2>1. CASE nodes' # nodes
    <3>1. PICK c \in DOMAIN Flushed : nodes' = [Flushed EXCEPT ![c].line_end = Here]
      BY <1>9, <2>1, ClosedIsNode
    <3>2. nodestack # <<>>
      BY <1>9, <2>1, ClosedIsNode
    <3>3. KindsKept([Flushed EXCEPT ![c].line_end = Here], Flushed)
      BY <1>2, <3>2, NodeClosed
    <3> QED
      BY <1>2, <3>1, <3>2, <3>3, KindsTwice
  <2> QED
    BY <1>3, <2>1
<1>10. CASE TargetEnd \/ BuilderFinish
  BY <1>4, <1>10 DEF TargetEnd, BuilderFinish, Token1
<1>11. CASE TargetCommand \/ NoOpCommand
  <2>1. PICK tokentype \in {"command", "no_op_command"}, nodetype \in {"COMMAND", "NO_OP_COMMAND"} : Command(tokentype, nodetype)
    BY <1>11 DEF TargetCommand, NoOpCommand
  <2>2. nodestack # <<>>
    BY <2>1 DEF Command, Token1
  <2>3. CASE HasTarget[Peek(nodestack)]
    <3>1. nodes' = Append(Flushed, NewNode(nodetype, Peek(nodestack), NoNode, Here))
      BY <2>1, <2>3 DEF Command
    <3> QED
      BY <1>5, <2>2, <3>1
  <2>4. CASE ~HasTarget[Peek(nodestack)]
    <3> DEFINE target == NewNode("TARGET", Peek(nodestack), NoNode, Here)
               command == NewNode(nodetype, Next1(Flushed), NoNode, Here)
    <3>1. nodes' = Flushed \o <<target, command>>
      BY <2>1, <2>4 DEF Command
    <3>2. /\ target.type # "ROOT" /\ command.type # "ROOT"
          /\ target.ifparent = NoNode /\ command.ifparent = NoNode
      BY DEF NewNode
    <3> HIDE DEF target, command
    <3>3. /\ DOMAIN Flushed \subseteq DOMAIN nodes'
          /\ \A n \in DOMAIN nodes' :
               IF n \in DOMAIN Flushed THEN nodes'[n] = Flushed[n]
               ELSE nodes'[n] = target \/ nodes'[n] = command
      BY <1>2, <2>2, <3>1
    <3>4. KindsKept(nodes', Flushed)
      BY <3>2, <3>3 DEF KindsKept
    <3> QED
      BY <1>2, <2>2, <3>4, KindsTwice
  <2> QED
    BY <2>3, <2>4
<1> QED
  BY <1>6, <1>7, <1>8, <1>9, <1>10, <1>11 DEF BuilderStep

(* The root is the first node and the only one of its kind, and only a     *)
(* conditional is the branch of another.                                   *)
THEOREM KindsStaySound == Spec => [](IInv /\ KindsSound)
<1>1. Init => KindsSound
  <2> SUFFICES ASSUME Init
               PROVE  KindsSound
    OBVIOUS
  <2>1. /\ DOMAIN nodes = {1} /\ nodes[1].type = "ROOT" /\ nodes[1].ifparent = NoNode /\ Root = 1
        /\ nodes[1].line_start = [a |-> 0, b |-> 0]
    BY DEF Init, RootNode, NewNode, Root
  <2> QED
    BY <2>1 DEF KindsSound
<1>2. IInv /\ KindsSound /\ [Next]_vars => KindsSound'
  <2> SUFFICES ASSUME IInv, KindsSound, [Next]_vars
               PROVE  KindsSound'
    OBVIOUS
  <2>1. CASE BuilderStep
    <3>1. KindsKept(nodes', nodes) /\ Root \in DOMAIN nodes
      <4>1. Root \in DOMAIN nodes
        <5>1. Building
          BY <2>1 DEF BuilderStep, Comment, Include, Expr, Variable, Leaf, Malformed, For, Endfor,
             If, Elif, Else, Branch, Endif, TargetStart, TargetEnd, TargetCommand, NoOpCommand,
             Command, Token1, BuilderFinish
        <5> QED
          BY <5>1 DEF IInv, StacksSound, Stacks, Building
      <4> QED
        BY <2>1, <4>1, BuilderKinds
    <3> QED
      BY <3>1 DEF KindsKept, KindsSound
  <2>2. CASE UNCHANGED nodes
    BY <2>2 DEF KindsSound
  <2> QED
    BY <2>1, <2>2 DEF Next, Stopped, vars, builderVars
<1> QED
  BY <1>1, <1>2, StacksStaySound, PTL DEF Spec

-----------------------------------------------------------------------------
BuiltWithoutError == built => finished /\ error = "ok"

(* No tree is returned once an error was reported.                         *)
THEOREM NothingBuiltAfterError == Spec => [](IInv /\ BuiltWithoutError)
<1>1. Init => BuiltWithoutError
  BY DEF Init, BuiltWithoutError
<1>2. IInv /\ BuiltWithoutError /\ [Next]_vars => BuiltWithoutError'
  <2> SUFFICES ASSUME IInv, BuiltWithoutError, [Next]_vars
               PROVE  BuiltWithoutError'
    OBVIOUS
  <2>1. CASE UNCHANGED <<built, finished, error>>
    BY <2>1 DEF BuiltWithoutError
  <2>2. CASE TokenizerNext /\ UNCHANGED builderVars
    <3>1. ~finished
      BY <2>2 DEF TokenizerNext, FeedNul, FeedContinued, FeedLine, TokenizerFinish, Reading
    <3> QED
      BY <2>2, <3>1 DEF BuiltWithoutError, builderVars
  <2>3. CASE BuilderFinish
    BY <2>3 DEF BuilderFinish, Building, BuiltWithoutError
  <2>4. CASE BuilderStep /\ ~BuilderFinish
    <3>1. PICK type : Token1(type)
      BY <2>4 DEF BuilderStep, Comment, Include, Expr, Variable, Leaf, Malformed, For, Endfor,
             If, Elif, Else, Branch, Endif, TargetStart, TargetEnd, TargetCommand, NoOpCommand,
             Command
    <3>2. ~built'
      BY <3>1 DEF Token1, Building
    <3> QED
      BY <3>2 DEF BuiltWithoutError
  <2> QED
    BY <2>1, <2>2, <2>3, <2>4 DEF Next, Stopped, vars, builderVars, tokenizerVars
<1> QED
  BY <1>1, <1>2, StacksStaySound, PTL DEF Spec
=============================================================================
