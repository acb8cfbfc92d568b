------------------------------ MODULE TreeProofs ------------------------------
(***************************************************************************)
(* The tree of the AST builder, for every input: the builder implements    *)
(* BlockNesting, and a walk over the tree meets the nodes in the order     *)
(* they were read.                                                         *)
(***************************************************************************)
EXTENDS BlockRefinement, RawOutput, ASTBuilderProofs, SequenceInduction, FiniteSetTheorems

BlockTokens == {"if", "elif", "else", "endif", "for", "endfor", "bad_if", "bad_else", "bad_include"}

(* What the mapping makes of each token.                                   *)
LEMMA BlockLineValues ==
  /\ BlockLineOf("if") = <<"if">>
  /\ BlockLineOf("elif") = <<"branch">> /\ BlockLineOf("else") = <<"branch">>
  /\ BlockLineOf("endif") = <<"endif">>
  /\ BlockLineOf("for") = <<"for">> /\ BlockLineOf("endfor") = <<"endfor">>
  /\ \A type \in {"bad_if", "bad_else", "bad_include"} : BlockLineOf(type) = <<"bad">>
  /\ \A type : type \notin BlockTokens => BlockLineOf(type) = <<>>
BY DEF BlockLineOf, BlockTokens

(* A token stands for one block line at most.                              *)
LEMMA BlockLineType ==
  ASSUME NEW type
  PROVE  \/ BlockLineOf(type) = <<>>
         \/ \E line \in Blocks!BlockLines : BlockLineOf(type) = <<line>>
  BY BlockLineValues DEF BlockTokens, Blocks!BlockLines

(* What the mapping makes of each node.                                    *)
LEMMA BlockValues ==
  ASSUME NEW node
  PROVE  /\ node.type = "FOR" => BlockOf(node) = <<"for">>
         /\ node.type \in IfTypes /\ node.ifparent = NoNode => BlockOf(node) = <<"if">>
         /\ node.type \in IfTypes /\ node.ifparent # NoNode => BlockOf(node) = <<"branch">>
         /\ node.type \notin IfTypes \cup {"FOR"} => BlockOf(node) = <<>>
  BY SomeNodeTypes DEF BlockOf

Strings == {"if", "branch", "endif", "for", "endfor", "bad"}

(* The block lines of a stream of tokens are a sequence of block lines.    *)
LEMMA LinesSeq ==
  ASSUME NEW s \in Seq(Token)
  PROVE  /\ [i \in DOMAIN s |-> BlockLineOf(s[i].type)] \in Seq(Seq(Strings))
         /\ BlockLinesOf(s) \in Seq(Strings)
<1>1. ASSUME NEW type
      PROVE  BlockLineOf(type) \in Seq(Strings)
  <2>1. CASE BlockLineOf(type) = <<>>
    BY <2>1
  <2>2. CASE \E line \in Strings : BlockLineOf(type) = <<line>>
    <3> HIDE DEF Strings
    <3> QED
      BY <2>2
  <2> QED
    BY <2>1, <2>2, BlockLineType DEF Blocks!BlockLines, Strings
<1>2. [i \in DOMAIN s |-> BlockLineOf(s[i].type)] \in Seq(Seq(Strings))
  <2> HIDE DEF Strings
  <2> QED
    BY <1>1
<1> QED
  BY <1>2, FlattenType DEF BlockLinesOf

(* The block lines of two streams in a row.                                *)
LEMMA LinesOfConcat ==
  ASSUME NEW s \in Seq(Token), NEW t \in Seq(Token)
  PROVE  BlockLinesOf(s \o t) = BlockLinesOf(s) \o BlockLinesOf(t)
<1> DEFINE F(x) == [i \in DOMAIN x |-> BlockLineOf(x[i].type)]
<1>1. F(s) \in Seq(Seq(Strings)) /\ F(t) \in Seq(Seq(Strings))
  BY LinesSeq
<1>2. F(s \o t) = F(s) \o F(t)
  <2>1. /\ s \o t \in Seq(Token) /\ Len(s \o t) = Len(s) + Len(t)
        /\ \A i \in 1 .. Len(s) + Len(t) : (s \o t)[i] = IF i <= Len(s) THEN s[i] ELSE t[i - Len(s)]
    BY ConcatProperties
  <2>2. /\ Len(F(s)) = Len(s) /\ Len(F(t)) = Len(t)
        /\ \A i \in 1 .. Len(s) : F(s)[i] = BlockLineOf(s[i].type)
        /\ \A i \in 1 .. Len(t) : F(t)[i] = BlockLineOf(t[i].type)
    OBVIOUS
  <2>3. /\ F(s) \o F(t) \in Seq(Seq(Strings)) /\ Len(F(s) \o F(t)) = Len(F(s)) + Len(F(t))
        /\ \A i \in 1 .. Len(F(s)) + Len(F(t)) :
             (F(s) \o F(t))[i] = IF i <= Len(F(s)) THEN F(s)[i] ELSE F(t)[i - Len(F(s))]
    <3> HIDE DEF F
    <3> QED
      BY <1>1, ConcatProperties
  <2>4. /\ F(s \o t) \in Seq(Seq(Strings)) /\ Len(F(s \o t)) = Len(s \o t)
        /\ \A i \in 1 .. Len(s \o t) : F(s \o t)[i] = BlockLineOf((s \o t)[i].type)
    <3> DEFINE all == s \o t
    <3>1. all \in Seq(Token)
      BY <2>1
    <3> HIDE DEF all
    <3>2. F(all) \in Seq(Seq(Strings))
      BY <3>1, LinesSeq
    <3>3. Len(F(all)) = Len(all) /\ \A i \in 1 .. Len(all) : F(all)[i] = BlockLineOf(all[i].type)
      BY <3>1
    <3> QED
      BY <3>2, <3>3 DEF all
  <2>5. Len(s) \in Nat /\ Len(t) \in Nat
    OBVIOUS
  <2> DEFINE all == s \o t
             fall == F(s \o t)
             fst == F(s) \o F(t)
             fs == F(s)
             ft == F(t)
  <2> HIDE DEF all, fs, ft
  <2>6. \A i \in 1 .. Len(fall) : fall[i] = fst[i]
    <3> HIDE DEF fall, fst
    <3> TAKE i \in 1 .. Len(fall)
    <3>1. Len(fall) = Len(s) + Len(t) /\ Len(fs) = Len(s) /\ Len(ft) = Len(t)
      BY <2>1, <2>2, <2>4 DEF fall, fs, ft, all
    <3>2. fall[i] = BlockLineOf(all[i].type) /\ i \in Nat /\ i <= Len(s) + Len(t) /\ 1 <= i
      BY <2>1, <2>4, <2>5, <3>1 DEF fall, all
    <3>3. CASE i <= Len(s)
      <4>1. i \in 1 .. Len(s) /\ i \in 1 .. Len(s) + Len(t)
        BY <2>5, <3>2, <3>3
      <4>2. all[i] = s[i] /\ fst[i] = fs[i] /\ fs[i] = BlockLineOf(s[i].type)
        BY <2>1, <2>2, <2>3, <3>1, <3>3, <4>1 DEF all, fst, fs, ft
      <4> QED
        BY <3>2, <4>2
    <3>4. CASE ~(i <= Len(s))
      <4>1. i - Len(s) \in 1 .. Len(t) /\ i \in 1 .. Len(s) + Len(t)
        BY <2>5, <3>2, <3>4
      <4>2. /\ all[i] = t[i - Len(s)] /\ fst[i] = ft[i - Len(s)]
            /\ ft[i - Len(s)] = BlockLineOf(t[i - Len(s)].type)
        BY <2>1, <2>2, <2>3, <3>1, <3>4, <4>1 DEF all, fst, fs, ft
      <4> QED
        BY <3>2, <4>2
    <3> QED
      BY <3>3, <3>4
  <2>7. fall \in Seq(Seq(Strings)) /\ fst \in Seq(Seq(Strings)) /\ Len(fall) = Len(fst)
    BY <2>1, <2>2, <2>3, <2>4 DEF all, fs, ft
  <2> HIDE DEF fall, fst
  <2>8. fall = fst
    BY <2>6, <2>7, SeqEqual
  <2> QED
    BY <2>8 DEF fall, fst
<1> HIDE DEF F
<1>3. FlattenSeq(F(s) \o F(t)) = FlattenSeq(F(s)) \o FlattenSeq(F(t))
  BY <1>1, FlattenConcat
<1> QED
  BY <1>2, <1>3 DEF BlockLinesOf, F

(* One token stands for its own block line, or for none.                   *)
LEMMA LinesOfOne ==
  ASSUME NEW t \in Token
  PROVE  BlockLinesOf(<<t>>) = BlockLineOf(t.type)
<1> DEFINE F == [i \in DOMAIN <<t>> |-> BlockLineOf((<<t>>)[i].type)]
           x == BlockLineOf(t.type)
<1>1. F = <<x>>
  OBVIOUS
<1>2. x \in Seq(Strings)
  <2>1. <<t>> \in Seq(Token)
    OBVIOUS
  <2>2. F \in Seq(Seq(Strings))
    BY <2>1, LinesSeq
  <2>3. 1 \in DOMAIN F /\ F[1] = x
    OBVIOUS
  <2> HIDE DEF F, x
  <2> QED
    BY <2>2, <2>3
<1> HIDE DEF x, F
<1>3. FlattenSeq(<<x>>) = x
  BY <1>2, FlattenOne
<1> QED
  BY <1>1, <1>3 DEF BlockLinesOf, F, x

(* No tokens stand for no block lines.                                     *)
LEMMA LinesOfNone == BlockLinesOf(<<>>) = <<>>
  BY DEF BlockLinesOf, FlattenSeq

(* The first of the block lines from p on.                                 *)
LEMMA LinesFrom ==
  ASSUME NEW s \in Seq(Token), NEW p \in DOMAIN s
  PROVE  /\ SubSeq(s, p + 1, Len(s)) \in Seq(Token)
         /\ BlockLinesOf(SubSeq(s, p, Len(s)))
              = BlockLineOf(s[p].type) \o BlockLinesOf(SubSeq(s, p + 1, Len(s)))
<1> DEFINE all == SubSeq(s, p, Len(s))
           one == <<s[p]>>
           rest == SubSeq(s, p + 1, Len(s))
           both == one \o rest
<1>1. /\ one \in Seq(Token) /\ Len(one) = 1 /\ one[1] = s[p]
      /\ rest \in Seq(Token) /\ Len(rest) = Len(s) - p
      /\ \A i \in 1 .. (Len(s) - p) : rest[i] = s[i + p]
      /\ all \in Seq(Token) /\ Len(all) = Len(s) - p + 1
      /\ \A i \in 1 .. (Len(s) - p + 1) : all[i] = s[i + p - 1]
      /\ p \in 1 .. Len(s) /\ p \in Nat /\ Len(s) \in Nat
  <2>1. p \in 1 .. Len(s) /\ p \in Nat /\ Len(s) \in Nat /\ s[p] \in Token
    OBVIOUS
  <2>2. one \in Seq(Token) /\ Len(one) = 1 /\ one[1] = s[p]
    BY <2>1
  <2>3. /\ rest \in Seq(Token) /\ Len(rest) = Len(s) - p
        /\ \A i \in 1 .. (Len(s) - p) : rest[i] = s[i + p]
    BY <2>1
  <2>4. /\ all \in Seq(Token) /\ Len(all) = Len(s) - p + 1
        /\ \A i \in 1 .. (Len(s) - p + 1) : all[i] = s[i + p - 1]
    BY <2>1
  <2> HIDE DEF all, one, rest
  <2> QED
    BY <2>1, <2>2, <2>3, <2>4
<1> HIDE DEF all, one, rest
<1>2. all = both
  <2>1. /\ both \in Seq(Token) /\ Len(both) = Len(one) + Len(rest)
        /\ \A i \in 1 .. Len(one) + Len(rest) :
             both[i] = IF i <= Len(one) THEN one[i] ELSE rest[i - Len(one)]
    BY <1>1, ConcatProperties
  <2> HIDE DEF both
  <2>2. Len(all) = Len(both)
    BY <1>1, <2>1
  <2>3. ASSUME NEW i \in 1 .. Len(all)
        PROVE  all[i] = both[i]
    <3>1. CASE i = 1
      BY <1>1, <2>1, <3>1
    <3>2. CASE i # 1
      <4>1. i - 1 \in 1 .. (Len(s) - p) /\ i - 1 + p = i + p - 1 /\ ~(i <= 1)
            /\ i \in 1 .. Len(one) + Len(rest) /\ i \in 1 .. (Len(s) - p + 1)
        BY <1>1, <3>2
      <4> QED
        BY <1>1, <2>1, <4>1
    <3> QED
      BY <3>1, <3>2
  <2> QED
    BY <1>1, <2>1, <2>2, <2>3, SeqEqual
<1>3. BlockLinesOf(both) = BlockLinesOf(one) \o BlockLinesOf(rest)
  BY <1>1, LinesOfConcat
<1>4. BlockLinesOf(one) = BlockLineOf(s[p].type)
  <2>1. s[p] \in Token
    BY <1>1
  <2> QED
    BY <2>1, LinesOfOne DEF one
<1> HIDE DEF both
<1>5. BlockLinesOf(all) = BlockLineOf(s[p].type) \o BlockLinesOf(rest)
  BY <1>2, <1>3, <1>4
<1> QED
  BY <1>1, <1>5 DEF all, rest

-----------------------------------------------------------------------------
(* What a stack of nodes has open.                                         *)
Kinds(st, ns) == [j \in DOMAIN st |-> BlockOf(ns[st[j]])]

Blocking == {"if", "branch", "for"}

(* A node opens one block at most.                                         *)
LEMMA BlockOfType ==
  ASSUME NEW node
  PROVE  BlockOf(node) \in Seq(Blocking)
<1>1. BlockOf(node) = <<>> \/ \E block \in Blocking : BlockOf(node) = <<block>>
  BY BlockValues DEF Blocking
<1> HIDE DEF Blocking
<1>2. CASE BlockOf(node) = <<>>
  BY <1>2
<1>3. CASE \E block \in Blocking : BlockOf(node) = <<block>>
  BY <1>3
<1> QED
  BY <1>1, <1>2, <1>3

(* What the nodes of a stack open, one by one.                             *)
LEMMA KindsSeq ==
  ASSUME NEW S, NEW D, NEW st \in Seq(D), NEW ns,
         \A j \in DOMAIN st : BlockOf(ns[st[j]]) \in Seq(S)
  PROVE  /\ Kinds(st, ns) \in Seq(Seq(S)) /\ Len(Kinds(st, ns)) = Len(st)
         /\ DOMAIN Kinds(st, ns) = DOMAIN st
         /\ \A j \in DOMAIN st : Kinds(st, ns)[j] = BlockOf(ns[st[j]])
         /\ BlocksOn(st, ns) \in Seq(S) /\ BlocksOn(st, ns) = FlattenSeq(Kinds(st, ns))
<1>1. /\ Kinds(st, ns) \in Seq(Seq(S)) /\ Len(Kinds(st, ns)) = Len(st)
      /\ DOMAIN Kinds(st, ns) = DOMAIN st
      /\ \A j \in DOMAIN st : Kinds(st, ns)[j] = BlockOf(ns[st[j]])
  BY DEF Kinds
<1>2. BlocksOn(st, ns) = FlattenSeq(Kinds(st, ns))
  BY DEF BlocksOn, Kinds
<1>3. FlattenSeq(Kinds(st, ns)) \in Seq(S)
  BY <1>1, FlattenType
<1> QED
  BY <1>1, <1>2, <1>3

(* What the nodes of a stack open, for the blocks there are.               *)
LEMMA KindsType ==
  ASSUME NEW D, NEW st \in Seq(D), NEW ns
  PROVE  /\ Kinds(st, ns) \in Seq(Seq(Blocking)) /\ Len(Kinds(st, ns)) = Len(st)
         /\ DOMAIN Kinds(st, ns) = DOMAIN st
         /\ \A j \in DOMAIN st : Kinds(st, ns)[j] = BlockOf(ns[st[j]])
         /\ BlocksOn(st, ns) \in Seq(Blocking) /\ BlocksOn(st, ns) = FlattenSeq(Kinds(st, ns))
  BY BlockOfType, KindsSeq

(* The nodes of ns are of the same kind in ms.                             *)
SameKinds(ms, ns) ==
  \A n \in DOMAIN ns : ms[n].type = ns[n].type /\ ms[n].ifparent = ns[n].ifparent

(* The blocks on a stack do not notice that the tree has grown.            *)
LEMMA BlocksGrown ==
  ASSUME NEW ns \in Seq(Node), NEW st \in Seq(DOMAIN ns), NEW ms, SameKinds(ms, ns)
  PROVE  BlocksOn(st, ms) = BlocksOn(st, ns)
<1>1. \A j \in DOMAIN st : BlockOf(ms[st[j]]) = BlockOf(ns[st[j]])
  <2> TAKE j \in DOMAIN st
  <2>1. st[j] \in DOMAIN ns
    OBVIOUS
  <2>2. ms[st[j]].type = ns[st[j]].type /\ ms[st[j]].ifparent = ns[st[j]].ifparent
    BY <2>1 DEF SameKinds
  <2> QED
    BY <2>2 DEF BlockOf
<1>2. Kinds(st, ms) = Kinds(st, ns)
  BY <1>1 DEF Kinds
<1> QED
  BY <1>2, KindsType

(* A node pushed onto a stack opens its block inside the others.           *)
LEMMA BlocksPush ==
  ASSUME NEW ns, NEW D, NEW st \in Seq(D), NEW n \in D
  PROVE  BlocksOn(Append(st, n), ns) = BlocksOn(st, ns) \o BlockOf(ns[n])
<1> DEFINE more == Append(st, n)
<1>1. /\ more \in Seq(D) /\ Len(more) = Len(st) + 1 /\ more[Len(more)] = n
      /\ \A j \in 1 .. Len(st) : j \in DOMAIN st /\ j \in DOMAIN more /\ more[j] = st[j]
      /\ Len(more) \in DOMAIN more
  OBVIOUS
<1> HIDE DEF more
<1> DEFINE a == Kinds(st, ns)
           b == Kinds(more, ns)
<1>2. /\ a \in Seq(Seq(Blocking)) /\ Len(a) = Len(st)
      /\ \A j \in DOMAIN st : a[j] = BlockOf(ns[st[j]])
      /\ BlocksOn(st, ns) = FlattenSeq(a)
  BY KindsType
<1>3. /\ b \in Seq(Seq(Blocking)) /\ Len(b) = Len(more)
      /\ \A j \in DOMAIN more : b[j] = BlockOf(ns[more[j]])
      /\ BlocksOn(more, ns) = FlattenSeq(b)
  BY <1>1, KindsType
<1> HIDE DEF a, b
<1>4. Len(b) = Len(a) + 1 /\ \A j \in 1 .. Len(a) : b[j] = a[j]
  BY <1>1, <1>2, <1>3
<1>5. FlattenSeq(b) = FlattenSeq(a) \o b[Len(b)]
  BY <1>2, <1>3, <1>4, FlattenNext
<1>6. b[Len(b)] = BlockOf(ns[n])
  BY <1>1, <1>3
<1> QED
  BY <1>2, <1>3, <1>5, <1>6 DEF more

(* What is below, at and above a place of the stack.                       *)
LEMMA BlocksCut ==
  ASSUME NEW ns, NEW D, NEW st \in Seq(D), NEW j \in DOMAIN st
  PROVE  BlocksOn(st, ns) = (BlocksOn(Through(st, j - 1), ns) \o BlockOf(ns[st[j]]))
                               \o BlocksOn(Behind(st, j), ns)
<1> DEFINE u == Kinds(st, ns)
<1>1. /\ u \in Seq(Seq(Blocking)) /\ Len(u) = Len(st) /\ DOMAIN u = DOMAIN st
      /\ \A k \in DOMAIN st : u[k] = BlockOf(ns[st[k]])
      /\ BlocksOn(st, ns) = FlattenSeq(u)
  BY KindsType
<1>2. /\ Through(st, j - 1) \in Seq(D) /\ Behind(st, j) \in Seq(D)
      /\ Through(u, j - 1) \in Seq(Seq(Blocking)) /\ Behind(u, j) \in Seq(Seq(Blocking))
  <2> HIDE DEF u
  <2> QED
    BY <1>1, SplitAt
<1>3. Kinds(Through(st, j - 1), ns) = Through(u, j - 1)
  <2>1. DOMAIN Through(st, j - 1) = 1 .. (j - 1) /\ \A k \in 1 .. (j - 1) : Through(st, j - 1)[k] = st[k]
    BY DEF Through
  <2>2. Through(u, j - 1) = [k \in 1 .. (j - 1) |-> u[k]]
    <3> HIDE DEF u
    <3> QED
      BY <1>1 DEF Through
  <2>3. \A k \in 1 .. (j - 1) : k \in DOMAIN st
    OBVIOUS
  <2> HIDE DEF u
  <2> QED
    BY <1>1, <2>1, <2>2, <2>3 DEF Kinds
<1>4. Kinds(Behind(st, j), ns) = Behind(u, j)
  <2>1. /\ DOMAIN Behind(st, j) = 1 .. (Len(st) - j)
        /\ \A k \in 1 .. (Len(st) - j) : Behind(st, j)[k] = st[k + j]
    BY DEF Behind
  <2>2. Behind(u, j) = [k \in 1 .. (Len(st) - j) |-> u[k + j]]
    <3> DEFINE back == Behind(u, j)
    <3>1. /\ back \in Seq(Seq(Blocking)) /\ Len(back) = Len(st) - j
          /\ \A k \in 1 .. (Len(st) - j) : back[k] = u[k + j]
      <4> HIDE DEF u
      <4>1. j \in DOMAIN u
        BY <1>1
      <4>2. /\ Behind(u, j) \in Seq(Seq(Blocking)) /\ Len(Behind(u, j)) = Len(u) - j
            /\ \A i \in 1 .. (Len(u) - j) : Behind(u, j)[i] = u[i + j]
        BY <1>1, <4>1, BehindAt
      <4> QED
        BY <1>1, <4>2
    <3> HIDE DEF back, u
    <3>2. back = [k \in 1 .. (Len(st) - j) |-> back[k]]
      BY <3>1
    <3> QED
      BY <3>1, <3>2 DEF back
  <2>3. \A k \in 1 .. (Len(st) - j) : k + j \in DOMAIN st
    OBVIOUS
  <2> HIDE DEF u
  <2> QED
    BY <1>1, <2>1, <2>2, <2>3 DEF Kinds
<1>5. /\ BlocksOn(Through(st, j - 1), ns) = FlattenSeq(Through(u, j - 1))
      /\ BlocksOn(Behind(st, j), ns) = FlattenSeq(Behind(u, j))
  <2>1. /\ BlocksOn(Through(st, j - 1), ns) = FlattenSeq(Kinds(Through(st, j - 1), ns))
        /\ BlocksOn(Behind(st, j), ns) = FlattenSeq(Kinds(Behind(st, j), ns))
    BY <1>2, KindsType
  <2> QED
    BY <1>3, <1>4, <2>1
<1> HIDE DEF u
<1>6. FlattenSeq(u) = (FlattenSeq(Through(u, j - 1)) \o u[j]) \o FlattenSeq(Behind(u, j))
  BY <1>1, FlattenSplit
<1> QED
  BY <1>1, <1>5, <1>6

-----------------------------------------------------------------------------
(* The tokenizer.                                                          *)
LEMMA LinesOfAppend ==
  ASSUME NEW s \in Seq(Token), NEW t \in Token
  PROVE  BlockLinesOf(Append(s, t)) = BlockLinesOf(s) \o BlockLineOf(t.type)
<1>1. Append(s, t) = s \o <<t>> /\ <<t>> \in Seq(Token)
  OBVIOUS
<1>2. BlockLinesOf(s \o <<t>>) = BlockLinesOf(s) \o BlockLinesOf(<<t>>)
  BY <1>1, LinesOfConcat
<1> QED
  BY <1>1, <1>2, LinesOfOne

(* A target that has ended is followed by the next one.                    *)
Settled(s) ==
  \A i \in DOMAIN s :
    s[i].type = "target_end" => i + 1 \in DOMAIN s /\ s[i + 1].type = "target_start"

(* The last one may end with the file.                                     *)
TargetsSettled ==
  error = "ok" =>
    IF finished
    THEN \A i \in DOMAIN tokens :
           tokens[i].type = "target_end" => i = Len(tokens) \/ tokens[i + 1].type = "target_start"
    ELSE Settled(tokens)

(* t has the block lines of s, or one more.                                *)
MaybeOneMore(t, s) ==
  \/ BlockLinesOf(t) = BlockLinesOf(s)
  \/ \E line \in Blocks!BlockLines : BlockLinesOf(t) = Append(BlockLinesOf(s), line)

(* A token that ends no target.                                            *)
LEMMA SettledAppend ==
  ASSUME NEW s \in Seq(Token), Settled(s), NEW t \in Token, t.type # "target_end"
  PROVE  /\ Append(s, t) \in Seq(Token) /\ Settled(Append(s, t))
         /\ MaybeOneMore(Append(s, t), s)
<1> DEFINE all == Append(s, t)
<1>1. /\ all \in Seq(Token) /\ Len(all) = Len(s) + 1 /\ all[Len(s) + 1] = t
      /\ \A i \in 1 .. Len(s) : all[i] = s[i]
      /\ DOMAIN all = 1 .. (Len(s) + 1) /\ DOMAIN s = 1 .. Len(s) /\ Len(s) \in Nat
  OBVIOUS
<1>2. BlockLinesOf(all) = BlockLinesOf(s) \o BlockLineOf(t.type)
  BY LinesOfAppend
<1> HIDE DEF all
<1>3. Settled(all)
  BY <1>1 DEF Settled
<1>4. MaybeOneMore(all, s)
  <2> DEFINE a == BlockLinesOf(s)
  <2>1. a \in Seq(Strings)
    BY LinesSeq
  <2>2. CASE BlockLineOf(t.type) = <<>>
    <3> HIDE DEF a
    <3>1. a \o <<>> = a
      BY <2>1
    <3> QED
      BY <1>2, <2>2, <3>1 DEF MaybeOneMore, a
  <2>3. ASSUME NEW line \in Blocks!BlockLines, BlockLineOf(t.type) = <<line>>
        PROVE  MaybeOneMore(all, s)
    <3> HIDE DEF a
    <3>1. a \o <<line>> = Append(a, line)
      BY <2>1
    <3> QED
      BY <1>2, <2>3, <3>1 DEF MaybeOneMore, a
  <2> QED
    BY <2>2, <2>3, BlockLineType
<1> QED
  BY <1>1, <1>3, <1>4 DEF all

(* The end of one target and the start of the next.                        *)
LEMMA SettledPair ==
  ASSUME NEW s \in Seq(Token), Settled(s), NEW t \in Token, NEW u \in Token,
         t.type = "target_end", u.type = "target_start"
  PROVE  LET all == Append(Append(s, t), u)
         IN all \in Seq(Token) /\ Settled(all) /\ MaybeOneMore(all, s)
<1> DEFINE mid == Append(s, t)
           all == Append(mid, u)
<1>1. /\ mid \in Seq(Token) /\ all \in Seq(Token) /\ Len(all) = Len(s) + 2
      /\ all[Len(s) + 1] = t /\ all[Len(s) + 2] = u
      /\ \A i \in 1 .. Len(s) : all[i] = s[i]
      /\ DOMAIN all = 1 .. (Len(s) + 2) /\ DOMAIN s = 1 .. Len(s) /\ Len(s) \in Nat
  OBVIOUS
<1>2. /\ BlockLinesOf(mid) = BlockLinesOf(s) \o BlockLineOf(t.type)
      /\ BlockLinesOf(all) = BlockLinesOf(mid) \o BlockLineOf(u.type)
  BY <1>1, LinesOfAppend
<1> HIDE DEF all, mid
<1>3. Settled(all)
  <2> SUFFICES ASSUME NEW i \in DOMAIN all, all[i].type = "target_end"
               PROVE  i + 1 \in DOMAIN all /\ all[i + 1].type = "target_start"
    BY DEF Settled
  <2>1. CASE i \in DOMAIN s
    BY <1>1, <2>1 DEF Settled
  <2>2. CASE i = Len(s) + 1
    <3>1. i + 1 = Len(s) + 2
      BY <1>1, <2>2
    <3> QED
      BY <1>1, <3>1
  <2>3. CASE i = Len(s) + 2
    BY <1>1, <2>3
  <2> QED
    BY <1>1, <2>1, <2>2, <2>3
<1>4. BlockLinesOf(all) = BlockLinesOf(s)
  <2>1. BlockLineOf(t.type) = <<>> /\ BlockLineOf(u.type) = <<>>
    BY BlockLineValues DEF BlockTokens
  <2> DEFINE a == BlockLinesOf(s)
  <2>2. a \in Seq(Strings)
    BY LinesSeq
  <2> HIDE DEF a
  <2>3. a \o <<>> = a
    BY <2>2
  <2> QED
    BY <1>2, <2>1, <2>3 DEF a
<1> QED
  BY <1>1, <1>3, <1>4 DEF all, mid, MaybeOneMore

(* A logical line.                                                         *)
LEMMA LineSettled ==
  ASSUME NEW s \in Seq(Token), Settled(s), NEW range \in LineRange,
         NEW kind, ReadError(kind) = "ok"
  PROVE  LET all == s \o TokensOf(Emitted(kind), range)
         IN all \in Seq(Token) /\ Settled(all) /\ MaybeOneMore(all, s)
<1> DEFINE all == s \o TokensOf(Emitted(kind), range)
           Tok(type) == [type |-> type, lines |-> range]
<1>1. \A type \in TokenTypes : Tok(type) \in Token /\ Tok(type).type = type
  BY DEF Token
<1>2. Emitted(kind) # <<"target_end">>
  <2>1. kind \notin {"malformed", "junk"} /\ (kind \in {"command", "no_op_command"} => in_target)
    BY DEF ReadError
  <2>2. CASE kind \in Conditionals
    <3>1. kind \notin {"comment", "blank", "none", "command", "no_op_command", "target",
                       "var", "junk", "target_end"}
      BY <2>2 DEF Conditionals
    <3>2. Emitted(kind) = <<kind>>
      BY <2>2, <3>1 DEF Emitted
    <3> QED
      BY <3>1, <3>2
  <2>3. CASE kind \notin Conditionals
    BY <2>1, <2>3 DEF Emitted
  <2> QED
    BY <2>2, <2>3
<1>3. CASE Emitted(kind) = <<>>
  <2>1. all = s
    BY <1>3 DEF TokensOf
  <2> HIDE DEF all
  <2> QED
    BY <2>1 DEF MaybeOneMore, all
<1>4. CASE Emitted(kind) = <<"target_end", "target_start">>
  <2>1. "target_end" \in TokenTypes /\ "target_start" \in TokenTypes
    BY SomeTokenTypes
  <2>2. TokensOf(Emitted(kind), range) = <<Tok("target_end"), Tok("target_start")>>
    BY <1>4 DEF TokensOf
  <2>3. Tok("target_end") \in Token /\ Tok("target_start") \in Token
        /\ Tok("target_end").type = "target_end" /\ Tok("target_start").type = "target_start"
    BY <1>1, <2>1
  <2> HIDE DEF Tok
  <2>4. all = Append(Append(s, Tok("target_end")), Tok("target_start"))
    BY <2>2, <2>3
  <2> HIDE DEF all
  <2> QED
    BY <2>3, <2>4, SettledPair DEF all
<1>5. ASSUME NEW type \in TokenTypes \ {"target_end"}, Emitted(kind) = <<type>>
      PROVE  all \in Seq(Token) /\ Settled(all) /\ MaybeOneMore(all, s)
  <2>1. TokensOf(Emitted(kind), range) = <<Tok(type)>>
    BY <1>5 DEF TokensOf
  <2>2. Tok(type) \in Token /\ Tok(type).type # "target_end"
    BY <1>1
  <2> HIDE DEF Tok
  <2>3. all = Append(s, Tok(type))
    BY <2>1, <2>2
  <2> HIDE DEF all
  <2> QED
    BY <2>2, <2>3, SettledAppend
<1> QED
  BY <1>2, <1>3, <1>4, <1>5, EmittedShape

(* A step of the tokenizer: the targets stay settled, and without an error *)
(* there is at most one more block line.                                   *)
LEMMA TokenizerSettled ==
  ASSUME TokenizerTypeOK, TargetsSettled, TokenizerNext
  PROVE  /\ TargetsSettled'
         /\ error' = "ok" => MaybeOneMore(tokens', tokens)
         /\ error' = "ok" \/ ~finished'
<1> USE DEF Reading
<1>1. /\ tokens \in Seq(Token)
      /\ lines \in LineRange /\ [lines EXCEPT !.b = @ + 1] \in LineRange
  BY DEF TokenizerTypeOK, LineRange
<1>2. ~finished /\ error = "ok"
  BY DEF TokenizerNext, FeedNul, FeedContinued, FeedLine, TokenizerFinish
<1>3. Settled(tokens)
  BY <1>2 DEF TargetsSettled
<1>4. CASE FeedNul
  BY <1>2, <1>4 DEF FeedNul, TargetsSettled
<1>5. ASSUME NEW text \in Texts \ {"nul"}, FeedContinued(text)
      PROVE  /\ TargetsSettled'
             /\ error' = "ok" => MaybeOneMore(tokens', tokens)
             /\ error' = "ok" \/ ~finished'
  BY <1>2, <1>3, <1>5 DEF FeedContinued, TargetsSettled, MaybeOneMore, Settled
<1>6. ASSUME NEW text \in Texts \ {"nul"}, FeedLine(text)
      PROVE  /\ TargetsSettled'
             /\ error' = "ok" => MaybeOneMore(tokens', tokens)
             /\ error' = "ok" \/ ~finished'
  <2> DEFINE range == [lines EXCEPT !.b = @ + 1]
  <2>1. PICK kind \in Join(text) :
          tokens' = tokens \o TokensOf(Emitted(kind), range) /\ error' = ReadError(kind)
    BY <1>6 DEF FeedLine
  <2>2. finished' = finished
    BY <1>6 DEF FeedLine
  <2>3. CASE error' # "ok"
    BY <1>2, <2>2, <2>3 DEF TargetsSettled
  <2>4. CASE error' = "ok"
    <3>1. range \in LineRange
      BY <1>1
    <3> HIDE DEF range
    <3>2. Settled(tokens') /\ MaybeOneMore(tokens', tokens)
      BY <1>1, <1>3, <2>1, <2>4, <3>1, LineSettled
    <3> QED
      BY <1>2, <2>2, <2>4, <3>2 DEF TargetsSettled, Settled
  <2> QED
    BY <2>3, <2>4
<1>7. CASE TokenizerFinish
  <2> DEFINE range == IF continued THEN lines ELSE [lines EXCEPT !.b = @ + 1]
             pending == inbuf # "none"
             rest == IF pending THEN TokensOf(Emitted(inbuf), range) ELSE <<>>
             open == IF pending THEN InTargetAfter(inbuf) ELSE in_target
             failure == IF pending THEN ReadError(inbuf) ELSE "ok"
             end == IF failure = "ok" /\ open
                    THEN TokensOf(<<"target_end">>, range) ELSE <<>>
             mid == tokens \o rest
  <2>1. /\ tokens' = tokens \o rest \o end
        /\ error' = failure
        /\ finished' = (failure = "ok")
    BY <1>7 DEF TokenizerFinish, FinalRange
  <2>2. range \in LineRange
    BY <1>1
  <2>3. CASE failure # "ok"
    BY <2>1, <2>3 DEF TargetsSettled
  <2>4. CASE failure = "ok"
    <3>1. mid \in Seq(Token) /\ Settled(mid) /\ MaybeOneMore(mid, tokens)
      <4>1. CASE pending
        <5>1. mid = tokens \o TokensOf(Emitted(inbuf), range) /\ ReadError(inbuf) = "ok"
          BY <2>4, <4>1
        <5> HIDE DEF mid, range
        <5> QED
          BY <1>1, <1>3, <2>2, <5>1, LineSettled
      <4>2. CASE ~pending
        <5>1. mid = tokens
          BY <1>1, <4>2
        <5> HIDE DEF mid
        <5> QED
          BY <1>1, <1>3, <5>1 DEF MaybeOneMore
      <4> QED
        BY <4>1, <4>2
    <3>2. tokens' = mid \o end
      BY <2>1
    <3>3. CASE open
      <4> DEFINE token == [type |-> "target_end", lines |-> range]
      <4>1. token \in Token /\ token.type = "target_end"
        BY <2>2, SomeTokenTypes DEF Token
      <4>2. end = <<token>>
        BY <2>4, <3>3 DEF TokensOf
      <4> HIDE DEF mid, open, failure, end, token
      <4>3. tokens' = Append(mid, token)
        BY <3>1, <3>2, <4>1, <4>2
      <4>4. /\ DOMAIN tokens' = 1 .. (Len(mid) + 1) /\ DOMAIN mid = 1 .. Len(mid)
            /\ Len(mid) \in Nat /\ Len(tokens') = Len(mid) + 1
            /\ \A i \in 1 .. Len(mid) : tokens'[i] = mid[i]
        BY <3>1, <4>1, <4>3
      <4>5. \A i \in DOMAIN tokens' :
              tokens'[i].type = "target_end" =>
                i = Len(tokens') \/ tokens'[i + 1].type = "target_start"
        BY <3>1, <4>4 DEF Settled
      <4>6. BlockLinesOf(tokens') = BlockLinesOf(mid)
        <5>1. BlockLinesOf(tokens') = BlockLinesOf(mid) \o BlockLineOf(token.type)
          BY <3>1, <4>1, <4>3, LinesOfAppend
        <5>2. BlockLineOf(token.type) = <<>>
          BY <4>1, BlockLineValues DEF BlockTokens
        <5> DEFINE a == BlockLinesOf(mid)
        <5>3. a \in Seq(Strings)
          BY <3>1, LinesSeq
        <5> HIDE DEF a
        <5>4. a \o <<>> = a
          BY <5>3
        <5> QED
          BY <5>1, <5>2, <5>4 DEF a
      <4>7. MaybeOneMore(tokens', tokens)
        BY <3>1, <4>6 DEF MaybeOneMore
      <4> QED
        BY <2>1, <2>4, <4>5, <4>7 DEF TargetsSettled
    <3>4. CASE ~open
      <4>1. end = <<>>
        BY <3>4
      <4> HIDE DEF mid, open, failure, end
      <4>2. tokens' = mid
        BY <3>1, <3>2, <4>1
      <4> QED
        BY <2>1, <2>4, <3>1, <4>2 DEF TargetsSettled, Settled
    <3> QED
      BY <3>3, <3>4
  <2> QED
    BY <2>3, <2>4
<1> QED
  BY <1>4, <1>5, <1>6, <1>7 DEF TokenizerNext

-----------------------------------------------------------------------------
(* Every parent is a node.                                                 *)
Rooted(ns) == \A n \in DOMAIN ns : ns[n].parent \in DOMAIN ns

(* A node added below a node, or below itself, keeps the tree rooted.      *)
LEMMA RootedAppend ==
  ASSUME NEW ns \in Seq(Node), Rooted(ns), NEW node \in Node,
         node.parent \in DOMAIN ns \/ node.parent = Len(ns) + 1
  PROVE  Rooted(Append(ns, node))
<1> DEFINE ms == Append(ns, node)
<1>1. /\ DOMAIN ms = 1 .. (Len(ns) + 1) /\ DOMAIN ns = 1 .. Len(ns) /\ Len(ns) \in Nat
      /\ ms[Len(ns) + 1] = node /\ \A n \in 1 .. Len(ns) : ms[n] = ns[n]
  OBVIOUS
<1> HIDE DEF ms
<1> QED
  BY <1>1 DEF Rooted, ms

(* Setting where a node ends keeps the tree rooted.                        *)
LEMMA RootedLineEnd ==
  ASSUME NEW ns \in Seq(Node), Rooted(ns), NEW n \in DOMAIN ns, NEW range
  PROVE  Rooted([ns EXCEPT ![n].line_end = range])
<1> DEFINE ms == [ns EXCEPT ![n].line_end = range]
<1>1. DOMAIN ms = DOMAIN ns /\ \A k \in DOMAIN ns : k # n => ms[k] = ns[k]
  OBVIOUS
<1>2. ns[n] \in Node /\ ms[n] = [ns[n] EXCEPT !.line_end = range]
  OBVIOUS
<1>3. ms[n].parent = ns[n].parent
  BY <1>2 DEF Node
<1> HIDE DEF ms
<1> QED
  BY <1>1, <1>3 DEF Rooted, ms

(* Flushing the comments keeps the tree rooted.                            *)
LEMMA RootedFlushed ==
  ASSUME TypeOK, nodestack # <<>>, Rooted(nodes)
  PROVE  Rooted(Flushed)
<1>1. nodes \in Seq(Node) /\ comments \in Seq(LineRange)
  BY DEF TypeOK
<1>2. CASE comments = <<>>
  BY <1>2 DEF Flushed
<1>3. CASE comments # <<>>
  <2> DEFINE node == CommentNode(Peek(nodestack))
  <2>1. Flushed = Append(nodes, node)
    BY <1>3 DEF Flushed
  <2>2. Peek(nodestack) \in DOMAIN nodes
    <3>1. nodestack \in Seq(DOMAIN nodes)
      BY DEF TypeOK
    <3>2. Len(nodestack) \in DOMAIN nodestack
      BY <3>1
    <3> QED
      BY <3>1, <3>2 DEF Peek
  <2>3. node.parent = Peek(nodestack)
    BY DEF CommentNode, NewNode
  <2>4. node \in Node
    <3>1. Len(Flushed) \in DOMAIN Flushed /\ Flushed[Len(Flushed)] = node
      <4> HIDE DEF node
      <4> QED
        BY <1>1, <2>1
    <3>2. Flushed \in Seq(Node)
      BY FlushedGrown
    <3> HIDE DEF node
    <3> QED
      BY <3>1, <3>2
  <2> HIDE DEF node
  <2> QED
    BY <1>1, <2>1, <2>2, <2>3, <2>4, RootedAppend
<1> QED
  BY <1>2, <1>3

(* The function HasTarget chooses.                                         *)
TargetAbove(has) ==
  has = [n \in DOMAIN nodes |-> n # Root /\ (nodes[n].type = "TARGET" \/ has[nodes[n].parent])]

(* HasTarget has a function to choose: the nodes below a target.           *)
LEMMA TargetAboveExists ==
  ASSUME Rooted(nodes)
  PROVE  \E has : TargetAbove(has)
<1> DEFINE Up(S) == \A n \in S : n # Root /\ (nodes[n].type = "TARGET" \/ nodes[n].parent \in S)
           U == UNION {S \in SUBSET (DOMAIN nodes) : Up(S)}
           h == [n \in DOMAIN nodes |-> IF n \in U THEN TRUE ELSE FALSE]
<1>1. U \in SUBSET (DOMAIN nodes) /\ Up(U)
  OBVIOUS
<1>2. ASSUME NEW n \in DOMAIN nodes, n # Root, nodes[n].type = "TARGET" \/ nodes[n].parent \in U
      PROVE  n \in U
  <2>1. Up(U \cup {n}) /\ U \cup {n} \in SUBSET (DOMAIN nodes)
    BY <1>1, <1>2
  <2> QED
    BY <2>1
<1>3. ASSUME NEW n \in DOMAIN nodes
      PROVE  h[n] = (n # Root /\ (nodes[n].type = "TARGET" \/ h[nodes[n].parent]))
  <2>1. nodes[n].parent \in DOMAIN nodes
    BY DEF Rooted
  <2>2. h[nodes[n].parent] <=> nodes[n].parent \in U
    BY <2>1
  <2>3. n \in U <=> n # Root /\ (nodes[n].type = "TARGET" \/ nodes[n].parent \in U)
    BY <1>1, <1>2
  <2>4. h[n] = IF n \in U THEN TRUE ELSE FALSE
    OBVIOUS
  <2> HIDE DEF h, U
  <2>5. CASE n \in U
    <3>1. n # Root /\ (nodes[n].type = "TARGET" \/ h[nodes[n].parent])
      BY <2>2, <2>3, <2>5
    <3>2. h[n] = TRUE
      BY <2>4, <2>5
    <3> QED
      BY <3>1, <3>2
  <2>6. CASE n \notin U
    <3>1. ~(n # Root /\ (nodes[n].type = "TARGET" \/ h[nodes[n].parent]))
      BY <2>2, <2>3, <2>6
    <3>2. h[n] = FALSE
      BY <2>4, <2>6
    <3> QED
      BY <3>1, <3>2
  <2> QED
    BY <2>5, <2>6
<1>4. h = [n \in DOMAIN nodes |-> h[n]]
  OBVIOUS
<1> HIDE DEF h
<1>5. TargetAbove(h)
  BY <1>3, <1>4, Zenon DEF TargetAbove
<1> QED
  BY <1>5

(* A target has a target: a command finds the one on top of the stack.     *)
LEMMA TargetOnTop ==
  ASSUME Rooted(nodes), NEW n \in DOMAIN nodes, n # Root, nodes[n].type = "TARGET"
  PROVE  HasTarget[n]
<1>1. HasTarget = CHOOSE has : TargetAbove(has)
  BY DEF HasTarget, TargetAbove
<1>2. TargetAbove(HasTarget)
  BY <1>1, TargetAboveExists
<1> DEFINE g == HasTarget
<1>3. TargetAbove(g)
  BY <1>2
<1> HIDE DEF g
<1>4. g[n] = (n # Root /\ (nodes[n].type = "TARGET" \/ g[nodes[n].parent]))
  BY <1>3, Zenon DEF TargetAbove
<1>5. g[n]
  BY <1>4, Zenon
<1> QED
  BY <1>5 DEF g

-----------------------------------------------------------------------------
(* What is on nodestack above the root, and that no target is right above  *)
(* another.                                                                *)
Piled(ns, st) ==
  \A i \in DOMAIN st :
    i > 1 => /\ ns[st[i]].type \in IfTypes \cup {"FOR", "TARGET"}
             /\ ns[st[i]].type = "TARGET" => ns[st[i - 1]].type # "TARGET"

(* A stack stays piled as the tree grows.                                  *)
LEMMA PiledGrown ==
  ASSUME NEW ns, NEW st \in Seq(DOMAIN ns), NEW ms, SameKinds(ms, ns), Piled(ns, st)
  PROVE  Piled(ms, st)
<1> SUFFICES ASSUME NEW i \in DOMAIN st, i > 1
             PROVE  /\ ms[st[i]].type \in IfTypes \cup {"FOR", "TARGET"}
                    /\ ms[st[i]].type = "TARGET" => ms[st[i - 1]].type # "TARGET"
  BY DEF Piled
<1>1. i - 1 \in DOMAIN st /\ st[i] \in DOMAIN ns /\ st[i - 1] \in DOMAIN ns
  OBVIOUS
<1>2. ms[st[i]].type = ns[st[i]].type /\ ms[st[i - 1]].type = ns[st[i - 1]].type
  BY <1>1 DEF SameKinds
<1> QED
  BY <1>2 DEF Piled

(* A node pushed onto a piled stack keeps it piled.                        *)
LEMMA PiledPush ==
  ASSUME NEW ns, NEW D, NEW st \in Seq(D), st # <<>>, Piled(ns, st), NEW n \in D,
         ns[n].type \in IfTypes \cup {"FOR", "TARGET"},
         ns[n].type = "TARGET" => ns[Peek(st)].type # "TARGET"
  PROVE  Piled(ns, Append(st, n))
<1> DEFINE more == Append(st, n)
<1>1. /\ DOMAIN more = 1 .. (Len(st) + 1) /\ DOMAIN st = 1 .. Len(st) /\ Len(st) \in Nat
      /\ more[Len(st) + 1] = n /\ \A i \in 1 .. Len(st) : more[i] = st[i]
      /\ Len(st) > 0
  OBVIOUS
<1> HIDE DEF more
<1> SUFFICES ASSUME NEW i \in DOMAIN more, i > 1
             PROVE  /\ ns[more[i]].type \in IfTypes \cup {"FOR", "TARGET"}
                    /\ ns[more[i]].type = "TARGET" => ns[more[i - 1]].type # "TARGET"
  BY DEF Piled, more
<1>2. i - 1 \in 1 .. Len(st) /\ more[i - 1] = st[i - 1]
  BY <1>1
<1>3. CASE i \in DOMAIN st
  BY <1>1, <1>2, <1>3 DEF Piled
<1>4. CASE i = Len(st) + 1
  <2>1. i - 1 = Len(st) /\ more[i] = n
    BY <1>1, <1>4
  <2> QED
    BY <1>2, <2>1 DEF Peek
<1> QED
  BY <1>1, <1>3, <1>4

(* A piled stack cut off at any place is piled.                            *)
LEMMA PiledCut ==
  ASSUME NEW ns, NEW D, NEW st \in Seq(D), NEW j \in DOMAIN st, Piled(ns, st)
  PROVE  Piled(ns, Below(st, j))
<1> DEFINE cut == Below(st, j)
<1>1. /\ DOMAIN cut = 1 .. (j - 1) /\ \A i \in 1 .. (j - 1) : cut[i] = st[i]
      /\ DOMAIN st = 1 .. Len(st) /\ Len(st) \in Nat
  BY DEF Below
<1> HIDE DEF cut
<1> QED
  BY <1>1 DEF Piled, cut

(* The top of a stack and what is below.                                   *)
LEMMA TopOff ==
  ASSUME NEW D, NEW st \in Seq(D), st # <<>>
  PROVE  /\ Len(st) \in DOMAIN st /\ Peek(st) \in D
         /\ Below(st, Len(st)) \in Seq(D)
         /\ st = Append(Below(st, Len(st)), Peek(st))
<1> DEFINE cut == Below(st, Len(st))
           more == Append(cut, Peek(st))
<1>1. /\ Len(st) \in DOMAIN st /\ Len(st) \in Nat
      /\ cut \in Seq(D) /\ Len(cut) = Len(st) - 1
      /\ \A i \in 1 .. (Len(st) - 1) : cut[i] = st[i]
  <2>1. Len(st) \in Nat /\ Len(st) > 0 /\ DOMAIN st = 1 .. Len(st)
    OBVIOUS
  <2>2. Len(st) \in DOMAIN st
    BY <2>1
  <2>3. ASSUME NEW n \in DOMAIN st
        PROVE  /\ Below(st, n) \in Seq(D) /\ Len(Below(st, n)) = n - 1
               /\ \A i \in 1 .. (n - 1) : Below(st, n)[i] = st[i]
    BY DEF Below
  <2> QED
    BY <2>1, <2>2, <2>3
<1>2. Peek(st) = st[Len(st)] /\ Peek(st) \in D
  BY DEF Peek
<1> HIDE DEF cut
<1>3. /\ more \in Seq(D) /\ Len(more) = Len(st)
      /\ more[Len(st)] = Peek(st) /\ \A i \in 1 .. (Len(st) - 1) : more[i] = cut[i]
  BY <1>1, <1>2
<1> HIDE DEF more
<1>4. \A i \in 1 .. Len(st) : more[i] = st[i]
  BY <1>1, <1>2, <1>3
<1>5. more = st
  BY <1>1, <1>3, <1>4, SeqEqual
<1> QED
  BY <1>1, <1>2, <1>5 DEF cut, more

(* The innermost block open is the one its top opens.                      *)
LEMMA BlocksTop ==
  ASSUME NEW ns, NEW D, NEW st \in Seq(D), st # <<>>
  PROVE  BlocksOn(st, ns) = BlocksOn(Below(st, Len(st)), ns) \o BlockOf(ns[Peek(st)])
<1> DEFINE cut == Below(st, Len(st))
<1>1. cut \in Seq(D) /\ Peek(st) \in D /\ st = Append(cut, Peek(st))
  BY TopOff
<1> HIDE DEF cut
<1>2. BlocksOn(Append(cut, Peek(st)), ns) = BlocksOn(cut, ns) \o BlockOf(ns[Peek(st)])
  BY <1>1, BlocksPush
<1> QED
  BY <1>1, <1>2 DEF cut

-----------------------------------------------------------------------------
(* The last token the builder took was the end of a target.                *)
Ended == pos > 1 /\ tokens[pos - 1].type = "target_end"

TargetOn(ns, st) == \E i \in DOMAIN st : ns[st[i]].type = "TARGET"

(* A target stays on nodestack only while the file is inside of one, or    *)
(* between two of them, and there not on top: none is left on top when the *)
(* file ends.                                                              *)
TargetSeen ==
  /\ TargetOn(nodes, nodestack) => Ended \/ OpenTarget(pos - 1)
  /\ Ended => nodes[Peek(nodestack)].type # "TARGET"

NestSound ==
  /\ Rooted(nodes)
  /\ ~finished => ~built /\ pos = 1
  /\ error = "ok" /\ ~built => Piled(nodes, nodestack) /\ TargetSeen

(* The inductive invariant of the refinement.                              *)
NestIInv == IInv /\ TargetsBracketed /\ TargetsSettled /\ NestSound

(* What a step that takes a token may use.                                 *)
LEMMA NestTaken ==
  ASSUME NestIInv, NEW type, Token1(type)
  PROVE  /\ Piled(nodes, nodestack) /\ TargetSeen
         /\ SameKinds(Flushed, nodes) /\ Piled(Flushed, nodestack) /\ Rooted(Flushed)
         /\ nodes \in Seq(Node) /\ Flushed \in Seq(Node)
         /\ nodestack \in Seq(DOMAIN nodes) /\ nodestack \in Seq(DOMAIN Flushed)
         /\ nodestack # <<>> /\ Peek(nodestack) \in DOMAIN nodes
         /\ BlocksOn(nodestack, Flushed) = BlocksOn(nodestack, nodes)
<1>1. Piled(nodes, nodestack) /\ TargetSeen /\ Rooted(nodes) /\ IInv
  BY DEF NestIInv, NestSound, Token1, Building
<1>2. /\ nodes \in Seq(Node) /\ Flushed \in Seq(Node) /\ Grown(Flushed, nodes)
      /\ nodestack \in Seq(DOMAIN nodes) /\ nodestack \in Seq(DOMAIN Flushed)
      /\ nodestack # <<>>
  BY <1>1, TokenTaken DEF Stacks
<1>3. SameKinds(Flushed, nodes)
  BY <1>2 DEF Grown, SameKinds
<1>4. Piled(Flushed, nodestack)
  BY <1>1, <1>2, <1>3, PiledGrown
<1>5. Rooted(Flushed)
  BY <1>1, <1>2, RootedFlushed DEF IInv
<1>6. Peek(nodestack) \in DOMAIN nodes
  BY <1>2, TopOff
<1>7. BlocksOn(nodestack, Flushed) = BlocksOn(nodestack, nodes)
  BY <1>2, <1>3, BlocksGrown
<1> QED
  BY <1>1, <1>2, <1>3, <1>4, <1>5, <1>6, <1>7

(* What it must leave behind.                                              *)
LEMMA NestDone ==
  ASSUME NestIInv, NEW type, Token1(type), Rooted(nodes'),
         error' = "ok" =>
           /\ Piled(nodes', nodestack')
           /\ type = "target_end" => nodes'[Peek(nodestack')].type # "TARGET"
           /\ TargetOn(nodes', nodestack') =>
                \/ TargetOn(nodes, nodestack)
                \/ type \in {"target_start", "target_end", "command", "no_op_command"}
  PROVE  TargetsBracketed' /\ TargetsSettled' /\ NestSound'
<1>1. /\ tokens' = tokens /\ finished' = finished /\ finished /\ ~built /\ ~built' /\ error = "ok"
      /\ pos' = pos + 1 /\ pos \in DOMAIN tokens /\ tokens[pos].type = type
      /\ tokens \in Seq(Token)
  BY DEF Token1, Building, NestIInv, IInv, TypeOK, TokenizerTypeOK
<1>2. pos \in Nat /\ pos >= 1 /\ Len(tokens) \in Nat /\ DOMAIN tokens = 1 .. Len(tokens)
  BY <1>1
<1>3. TargetsBracketed' /\ TargetsSettled'
  BY <1>1 DEF NestIInv, TargetsBracketed, TargetsSettled, OpenTarget
<1>4. ASSUME error' = "ok" PROVE TargetSeen'
  <2>1. Ended' <=> type = "target_end"
    <3>1. pos' > 1 /\ pos' - 1 = pos
      BY <1>1, <1>2
    <3> QED
      BY <1>1, <3>1 DEF Ended
  <2>2. CASE type = "target_end"
    BY <1>4, <2>1, <2>2 DEF TargetSeen
  <2>3. CASE type # "target_end"
    <3> SUFFICES ASSUME TargetOn(nodes', nodestack') PROVE OpenTarget(pos - 1)'
      BY <2>1, <2>3 DEF TargetSeen
    <3>1. OpenTarget(pos - 1)' <=> OpenIn(tokens, pos)
      <4>1. pos' - 1 = pos
        BY <1>1, <1>2
      <4> QED
        BY <1>1, <4>1 DEF OpenTarget, OpenIn
    <3>2. pos - 1 \in Nat /\ pos - 1 + 1 = pos
      BY <1>2
    <3>3. CASE type = "target_start"
      <4>1. tokens[pos - 1 + 1].type = "target_start"
        BY <1>1, <3>2, <3>3
      <4>2. OpenIn(tokens, pos - 1 + 1)
        BY <3>2, <4>1, OpenNext
      <4> QED
        BY <3>1, <3>2, <4>2
    <3>4. CASE type # "target_start"
      <4>1. OpenIn(tokens, pos - 1)
        <5>1. CASE type \in {"command", "no_op_command"}
          BY <1>1, <5>1 DEF NestIInv, TargetsBracketed, OpenTarget, OpenIn
        <5>2. CASE type \notin {"command", "no_op_command"}
          <6>1. TargetOn(nodes, nodestack)
            BY <1>4, <2>3, <3>4, <5>2
          <6>2. Ended \/ OpenTarget(pos - 1)
            BY <6>1, NestTaken DEF TargetSeen
          <6>3. ~Ended
            <7> SUFFICES ASSUME pos > 1, tokens[pos - 1].type = "target_end" PROVE FALSE
              BY DEF Ended
            <7>1. /\ pos - 1 \in DOMAIN tokens /\ pos - 1 # Len(tokens)
                  /\ pos - 1 + 1 = pos
              BY <1>1, <1>2
            <7>2. tokens[pos - 1 + 1].type = "target_start"
              BY <1>1, <7>1 DEF NestIInv, TargetsSettled
            <7> QED
              BY <1>1, <3>4, <7>1, <7>2
          <6> QED
            BY <6>2, <6>3 DEF OpenTarget, OpenIn
        <5> QED
          BY <5>1, <5>2
      <4>2. OpenIn(tokens, pos - 1 + 1)
        <5>1. tokens[pos - 1 + 1].type \notin {"target_start", "target_end"}
          BY <1>1, <2>3, <3>2, <3>4
        <5> QED
          BY <3>2, <4>1, <5>1, OpenNext
      <4> QED
        BY <3>1, <3>2, <4>2
    <3> QED
      BY <3>3, <3>4
  <2> QED
    BY <2>2, <2>3
<1> QED
  BY <1>1, <1>3, <1>4 DEF NestSound

-----------------------------------------------------------------------------
(* What a step that takes a token is under the mapping.                    *)
LEMMA TokenLine ==
  ASSUME NestIInv, NEW type, Token1(type)
  PROVE  LET rest == BlockLinesOf(SubSeq(tokens, pos + 1, Len(tokens))) IN
         /\ rest \in Seq(Strings)
         /\ PendingBlocks = BlockLineOf(type) \o rest
         /\ OpenBlocks = BlocksOn(nodestack, nodes)
         /\ Verdict = "nesting"
         /\ error' = "ok" => /\ PendingBlocks' = rest
                             /\ OpenBlocks' = BlocksOn(nodestack', nodes')
                             /\ Verdict' = "nesting"
         /\ error' # "ok" => /\ PendingBlocks' = <<>>
                             /\ OpenBlocks' = <<>>
                             /\ Verdict' = "rejected"
<1> DEFINE rest == BlockLinesOf(SubSeq(tokens, pos + 1, Len(tokens)))
<1>1. /\ tokens' = tokens /\ finished' = finished /\ finished /\ ~built /\ ~built' /\ error = "ok"
      /\ pos' = pos + 1 /\ pos \in DOMAIN tokens /\ tokens[pos].type = type
      /\ tokens \in Seq(Token)
  BY DEF Token1, Building, NestIInv, IInv, TypeOK, TokenizerTypeOK
<1>2. rest \in Seq(Strings)
  BY <1>1, LinesFrom, LinesSeq
<1>3. BlockLinesOf(SubSeq(tokens, pos, Len(tokens))) = BlockLineOf(type) \o rest
  BY <1>1, LinesFrom
<1>4. Verdict = "nesting"
  BY <1>1 DEF Verdict
<1>5. error' = "ok" => Verdict' = "nesting"
  BY <1>1 DEF Verdict
<1>6. error' # "ok" => Verdict' = "rejected"
  BY <1>1 DEF Verdict
<1>7. error' = "ok" => PendingBlocks' = rest
  BY <1>1 DEF PendingBlocks
<1>8. PendingBlocks = BlockLineOf(type) \o rest
  <2> HIDE DEF rest
  <2> QED
    BY <1>1, <1>3 DEF PendingBlocks
<1> HIDE DEF rest
<1>9. /\ OpenBlocks = BlocksOn(nodestack, nodes)
      /\ error' = "ok" => OpenBlocks' = BlocksOn(nodestack', nodes')
      /\ error' # "ok" => OpenBlocks' = <<>> /\ PendingBlocks' = <<>>
  BY <1>1 DEF OpenBlocks, PendingBlocks
<1> QED
  BY <1>2, <1>4, <1>5, <1>6, <1>7, <1>8, <1>9 DEF rest

(* A token that is no block line and leaves the blocks alone.              *)
LEMMA QuietToken ==
  ASSUME NestIInv, NEW type, Token1(type), type \notin BlockTokens, error' = "ok",
         BlocksOn(nodestack', nodes') = BlocksOn(nodestack, nodes)
  PROVE  UNCHANGED Blocks!blockVars
<1> DEFINE rest == BlockLinesOf(SubSeq(tokens, pos + 1, Len(tokens)))
<1>1. /\ rest \in Seq(Strings) /\ PendingBlocks = BlockLineOf(type) \o rest
      /\ PendingBlocks' = rest /\ OpenBlocks' = OpenBlocks /\ Verdict' = Verdict
  BY TokenLine
<1>2. BlockLineOf(type) = <<>>
  BY BlockLineValues
<1> HIDE DEF rest
<1>3. <<>> \o rest = rest
  BY <1>1
<1> QED
  BY <1>1, <1>2, <1>3 DEF Blocks!blockVars

(* A block line.                                                           *)
LEMMA NestToken ==
  ASSUME NestIInv, NEW type, Token1(type), NEW line \in Strings, BlockLineOf(type) = <<line>>
  PROVE  /\ Blocks!Nest(line)
         /\ OpenBlocks = BlocksOn(nodestack, nodes)
         /\ error' = "ok" => Blocks!Move(BlocksOn(nodestack', nodes'))
         /\ error' # "ok" => Blocks!Reject
<1> DEFINE rest == BlockLinesOf(SubSeq(tokens, pos + 1, Len(tokens)))
<1>1. /\ rest \in Seq(Strings) /\ PendingBlocks = <<line>> \o rest
      /\ OpenBlocks = BlocksOn(nodestack, nodes)
      /\ Verdict = "nesting"
      /\ error' = "ok" => PendingBlocks' = rest
                          /\ OpenBlocks' = BlocksOn(nodestack', nodes')
                          /\ Verdict' = "nesting"
      /\ error' # "ok" => PendingBlocks' = <<>> /\ OpenBlocks' = <<>> /\ Verdict' = "rejected"
  BY TokenLine
<1> HIDE DEF rest
<1>2. /\ PendingBlocks # <<>> /\ Head(PendingBlocks) = line /\ Tail(PendingBlocks) = rest
  <2> HIDE DEF Strings
  <2> DEFINE all == <<line>> \o rest
  <2>1. all # <<>> /\ Head(all) = line /\ Tail(all) = rest
    <3>1. /\ all \in Seq(Strings) /\ Len(all) = Len(rest) + 1 /\ all[1] = line
          /\ \A i \in 1 .. Len(rest) : all[i + 1] = rest[i]
          /\ Len(rest) \in Nat
      BY <1>1
    <3> HIDE DEF all
    <3>2. all # <<>> /\ Head(all) = line
      BY <3>1
    <3>3. Tail(all) \in Seq(Strings) /\ Len(Tail(all)) = Len(rest)
          /\ \A i \in 1 .. Len(rest) : Tail(all)[i] = all[i + 1]
      BY <3>1, <3>2, HeadTailProperties
    <3>4. Tail(all) = rest
      BY <1>1, <3>1, <3>3, SeqEqual
    <3> QED
      BY <3>2, <3>4
  <2> QED
    BY <1>1, <2>1
<1>3. Blocks!Nest(line)
  BY <1>1, <1>2 DEF Blocks!Nest
<1>4. error' = "ok" => Blocks!Move(BlocksOn(nodestack', nodes'))
  BY <1>1, <1>2 DEF Blocks!Move
<1>5. error' # "ok" => Blocks!Reject
  BY <1>1 DEF Blocks!Reject
<1> QED
  BY <1>1, <1>3, <1>4, <1>5

-----------------------------------------------------------------------------
(* The pushes and pops under the mapping.                                  *)
LEMMA StackKept ==
  ASSUME NEW ns \in Seq(Node), NEW st \in Seq(DOMAIN ns), NEW ms, SameKinds(ms, ns),
         Piled(ns, st)
  PROVE  /\ Piled(ms, st) /\ BlocksOn(st, ms) = BlocksOn(st, ns)
         /\ TargetOn(ms, st) <=> TargetOn(ns, st)
<1>1. \A i \in DOMAIN st : st[i] \in DOMAIN ns
  OBVIOUS
<1>2. TargetOn(ms, st) <=> TargetOn(ns, st)
  BY <1>1 DEF TargetOn, SameKinds
<1> QED
  BY <1>2, PiledGrown, BlocksGrown

(* A node added leaves the kinds of the others alone.                      *)
LEMMA AppendedKinds ==
  ASSUME NEW ns \in Seq(Node), NEW node \in Node
  PROVE  /\ Append(ns, node) \in Seq(Node) /\ SameKinds(Append(ns, node), ns)
         /\ Next1(ns) \in DOMAIN Append(ns, node) /\ Append(ns, node)[Next1(ns)] = node
         /\ DOMAIN ns \subseteq DOMAIN Append(ns, node)
  BY DEF SameKinds, Next1

(* A block or a target added to the tree and pushed keeps both in order.   *)
LEMMA Pushed ==
  ASSUME NEW ns \in Seq(Node), Rooted(ns), NEW st \in Seq(DOMAIN ns), st # <<>>,
         Piled(ns, st),
         NEW node \in Node, node.parent \in DOMAIN ns,
         node.type \in IfTypes \cup {"FOR", "TARGET"},
         node.type = "TARGET" => ns[Peek(st)].type # "TARGET"
  PROVE  LET ms == Append(ns, node)
             stack == Append(st, Next1(ns))
         IN /\ ms \in Seq(Node) /\ SameKinds(ms, ns) /\ stack \in Seq(DOMAIN ms)
            /\ Rooted(ms) /\ Piled(ms, stack)
            /\ BlocksOn(stack, ms) = BlocksOn(st, ns) \o BlockOf(node)
            /\ TargetOn(ms, stack) => TargetOn(ns, st) \/ node.type = "TARGET"
<1> DEFINE ms == Append(ns, node)
           stack == Append(st, Next1(ns))
<1> DEFINE n == Next1(ns)
<1>1. /\ ms \in Seq(Node) /\ SameKinds(ms, ns) /\ n \in DOMAIN ms /\ ms[n] = node
      /\ DOMAIN ns \subseteq DOMAIN ms
  BY AppendedKinds
<1>2. Rooted(ms)
  BY RootedAppend
<1>6. stack = Append(st, n)
  OBVIOUS
<1> HIDE DEF n, ms, stack
<1>3. /\ Piled(ms, st) /\ BlocksOn(st, ms) = BlocksOn(st, ns)
      /\ TargetOn(ms, st) <=> TargetOn(ns, st)
  BY <1>1, StackKept
<1>4. st \in Seq(DOMAIN ms)
  BY <1>1
<1>5. ms[Peek(st)].type = ns[Peek(st)].type
  <2>1. Peek(st) \in DOMAIN ns
    BY TopOff
  <2> QED
    BY <1>1, <2>1 DEF SameKinds
<1>7. Piled(ms, stack)
  BY <1>1, <1>3, <1>4, <1>5, <1>6, PiledPush
<1>8. BlocksOn(stack, ms) = BlocksOn(st, ns) \o BlockOf(node)
  BY <1>1, <1>3, <1>4, <1>6, BlocksPush
<1>9. TargetOn(ms, stack) => TargetOn(ms, st) \/ node.type = "TARGET"
  <2>1. \A i \in DOMAIN stack : (i \in DOMAIN st /\ stack[i] = st[i]) \/ stack[i] = n
    BY <1>4, <1>6
  <2> SUFFICES ASSUME NEW i \in DOMAIN stack, ms[stack[i]].type = "TARGET"
               PROVE  TargetOn(ms, st) \/ node.type = "TARGET"
    BY DEF TargetOn
  <2>2. CASE stack[i] = n
    BY <1>1, <2>2
  <2>3. CASE i \in DOMAIN st /\ stack[i] = st[i]
    BY <2>3 DEF TargetOn
  <2> QED
    BY <2>1, <2>2, <2>3
<1>10. stack \in Seq(DOMAIN ms)
  BY <1>1, <1>4, <1>6
<1> QED
  BY <1>1, <1>2, <1>3, <1>7, <1>8, <1>9, <1>10 DEF ms, stack

(* nodestack without the target on top of it.                              *)
LEMMA NestWithout ==
  ASSUME NestIInv, NEW type, Token1(type)
  PROVE  /\ WithoutTarget \in Seq(DOMAIN nodes) /\ WithoutTarget \in Seq(DOMAIN Flushed)
         /\ WithoutTarget # <<>>
         /\ Piled(nodes, WithoutTarget)
         /\ nodes[Peek(WithoutTarget)].type # "TARGET"
         /\ BlocksOn(WithoutTarget, nodes) = BlocksOn(nodestack, nodes)
<1> DEFINE st == nodestack
           cut == Below(st, Len(st))
<1>1. /\ st \in Seq(DOMAIN nodes) /\ st # <<>> /\ Piled(nodes, st)
      /\ Stacks(nodes, st, ifstack) /\ IInv
  BY NestTaken, TokenTaken DEF NestIInv
<1>2. Len(st) \in DOMAIN st /\ cut \in Seq(DOMAIN nodes) /\ Len(st) \in Nat
  BY <1>1, TopOff
<1>3. WithoutTarget \in Seq(DOMAIN Flushed) /\ WithoutTarget # <<>>
  BY <1>1, WithoutTargetSound DEF Stacks
<1>4. CASE nodes[Peek(st)].type = "TARGET"
  <2>1. WithoutTarget = cut
    BY <1>4 DEF WithoutTarget
  <2>2. BlocksOn(st, nodes) = BlocksOn(cut, nodes)
    <3>1. BlockOf(nodes[Peek(st)]) = <<>>
      BY <1>4, BlockValues, SomeNodeTypes
    <3> DEFINE a == BlocksOn(cut, nodes)
    <3>2. BlocksOn(st, nodes) = a \o <<>>
      BY <1>1, <3>1, BlocksTop
    <3>3. a \in Seq(Blocking)
      BY <1>2, KindsType
    <3> HIDE DEF a
    <3>4. a \o <<>> = a
      BY <3>3
    <3> QED
      BY <3>2, <3>4 DEF a
  <2>3. Piled(nodes, cut)
    BY <1>1, <1>2, PiledCut
  <2>4. nodes[Peek(cut)].type # "TARGET"
    <3>1. Len(st) > 1 /\ Len(cut) = Len(st) - 1 /\ \A i \in 1 .. (Len(st) - 1) : cut[i] = st[i]
      BY <1>1, <1>4, PopBlock DEF Peek
    <3>2. Peek(cut) = st[Len(st) - 1]
      BY <1>2, <3>1 DEF Peek
    <3> HIDE DEF cut
    <3> QED
      BY <1>1, <1>2, <1>4, <3>1, <3>2 DEF Piled, Peek
  <2> HIDE DEF cut
  <2> QED
    BY <1>2, <1>3, <2>1, <2>2, <2>3, <2>4
<1>5. CASE nodes[Peek(st)].type # "TARGET"
  <2>1. WithoutTarget = st
    BY <1>5 DEF WithoutTarget
  <2> QED
    BY <1>1, <1>3, <1>5, <2>1
<1> QED
  BY <1>4, <1>5

-----------------------------------------------------------------------------
(* The actions, one by one.                                                *)
Implements ==
  /\ TargetsBracketed' /\ TargetsSettled' /\ NestSound'
  /\ [Blocks!BlockNext]_(Blocks!blockVars)

(* A token that is no block line takes no step of BlockNesting.            *)
LEMMA QuietImplements ==
  ASSUME NestIInv, NEW type, Token1(type), type \notin BlockTokens,
         UNCHANGED error, Rooted(nodes'),
         BlocksOn(nodestack', nodes') = BlocksOn(nodestack, nodes),
         Piled(nodes', nodestack'),
         type = "target_end" => nodes'[Peek(nodestack')].type # "TARGET",
         TargetOn(nodes', nodestack') =>
           \/ TargetOn(nodes, nodestack)
           \/ type \in {"target_start", "target_end", "command", "no_op_command"}
  PROVE  Implements
<1>1. error' = "ok"
  BY DEF Token1, Building
<1>2. UNCHANGED Blocks!blockVars
  BY <1>1, QuietToken
<1>3. TargetsBracketed' /\ TargetsSettled' /\ NestSound'
  BY NestDone
<1> QED
  BY <1>2, <1>3 DEF Implements

(* A comment line takes no step of it.                                     *)
LEMMA CommentImplements ==
  ASSUME NestIInv, Comment
  PROVE  Implements
<1>1. Token1("comment") /\ UNCHANGED <<error, nodes, nodestack, ifstack>>
  BY DEF Comment
<1>2. "comment" \notin BlockTokens
  BY DEF BlockTokens
<1>3. Piled(nodes, nodestack) /\ Rooted(nodes)
  BY <1>1, NestTaken DEF NestIInv, NestSound
<1>4. /\ Rooted(nodes') /\ BlocksOn(nodestack', nodes') = BlocksOn(nodestack, nodes)
      /\ Piled(nodes', nodestack') /\ (TargetOn(nodes', nodestack') => TargetOn(nodes, nodestack))
      /\ UNCHANGED error
  BY <1>1, <1>3
<1> QED
  BY <1>1, <1>2, <1>4, QuietImplements

(* Nor does a variable or another node of one line.                        *)
LEMMA LeafImplements ==
  ASSUME NestIInv, NEW tokentype, NEW nodetype \in NodeTypes, Leaf(tokentype, nodetype),
         tokentype \notin BlockTokens \cup {"target_end"}
  PROVE  Implements
<1> DEFINE node == NewNode(nodetype, Peek(nodestack), NoNode, Here)
<1>1. Token1(tokentype) /\ nodes' = Append(Flushed, node) /\ UNCHANGED <<error, nodestack, ifstack>>
  BY DEF Leaf
<1>2. node \in Node /\ node.parent = Peek(nodestack)
  <2>1. IInv
    BY DEF NestIInv
  <2>2. Here \in LineRange /\ Peek(nodestack) \in Nat /\ NoNode \in Nat
    BY <1>1, <2>1, TokenTaken DEF NoNode
  <2>3. node.parent = Peek(nodestack)
    BY DEF NewNode
  <2> QED
    BY <2>2, <2>3, NewNodeType
<1> HIDE DEF node
<1>3. /\ Rooted(Flushed) /\ Flushed \in Seq(Node) /\ SameKinds(Flushed, nodes)
      /\ nodes \in Seq(Node) /\ nodestack \in Seq(DOMAIN nodes)
      /\ nodestack \in Seq(DOMAIN Flushed) /\ nodestack # <<>>
      /\ Piled(nodes, nodestack) /\ Piled(Flushed, nodestack)
      /\ BlocksOn(nodestack, Flushed) = BlocksOn(nodestack, nodes)
  BY <1>1, NestTaken
<1>4. Peek(nodestack) \in DOMAIN Flushed
  BY <1>3, TopOff
<1>5. Rooted(nodes')
  BY <1>1, <1>2, <1>3, <1>4, RootedAppend
<1>6. SameKinds(nodes', Flushed)
  BY <1>1, <1>2, <1>3, AppendedKinds
<1>7. /\ Piled(nodes', nodestack) /\ BlocksOn(nodestack, nodes') = BlocksOn(nodestack, Flushed)
      /\ TargetOn(nodes', nodestack) <=> TargetOn(Flushed, nodestack)
  BY <1>3, <1>6, StackKept
<1>8. TargetOn(Flushed, nodestack) <=> TargetOn(nodes, nodestack)
  BY <1>3, StackKept
<1>9. /\ Piled(nodes', nodestack')
      /\ BlocksOn(nodestack', nodes') = BlocksOn(nodestack, nodes)
      /\ TargetOn(nodes', nodestack') => TargetOn(nodes, nodestack)
      /\ UNCHANGED error
  BY <1>1, <1>3, <1>7, <1>8
<1> QED
  BY <1>1, <1>5, <1>9, QuietImplements

(* A step that reports an error ends the nesting.                          *)
LEMMA RejectImplements ==
  ASSUME NestIInv, NEW type, Token1(type), Fail, NEW line \in Strings,
         BlockLineOf(type) = <<line>>
  PROVE  /\ TargetsBracketed' /\ TargetsSettled' /\ NestSound'
         /\ Blocks!Nest(line) /\ Blocks!Reject
         /\ OpenBlocks = BlocksOn(nodestack, nodes)
<1>1. error' # "ok" /\ nodes' = nodes
  BY DEF Fail
<1>2. Rooted(nodes')
  BY <1>1 DEF NestIInv, NestSound
<1>3. TargetsBracketed' /\ TargetsSettled' /\ NestSound'
  BY <1>1, <1>2, NestDone
<1>4. Blocks!Nest(line) /\ Blocks!Reject /\ OpenBlocks = BlocksOn(nodestack, nodes)
  BY <1>1, NestToken
<1> QED
  BY <1>3, <1>4

(* A malformed .if, .else or .include is rejected.                         *)
LEMMA MalformedImplements ==
  ASSUME NestIInv, Malformed
  PROVE  Implements
<1>1. PICK type \in {"bad_include", "bad_if", "bad_else"} : Token1(type) /\ Fail
  BY DEF Malformed
<1>2. BlockLineOf(type) = <<"bad">> /\ "bad" \in Strings
  BY BlockLineValues DEF Strings
<1>3. /\ TargetsBracketed' /\ TargetsSettled' /\ NestSound'
      /\ Blocks!Nest("bad") /\ Blocks!Reject
  BY <1>1, <1>2, RejectImplements
<1>4. Blocks!Bad
  BY <1>3 DEF Blocks!Bad
<1> QED
  BY <1>3, <1>4 DEF Implements, Blocks!BlockNext

(* A block line that pushes a node.                                        *)
LEMMA PushImplements ==
  ASSUME NestIInv, NEW tokentype, Token1(tokentype), NEW line \in Strings,
         BlockLineOf(tokentype) = <<line>>, tokentype \notin {"target_start", "target_end"},
         NEW type \in IfTypes \cup {"FOR"}, NEW parent \in DOMAIN nodes, NEW ifparent \in Nat,
         nodes' = Append(Flushed, NewNode(type, parent, ifparent, Here)),
         nodestack' = Append(nodestack, Next1(Flushed)),
         UNCHANGED error,
         NEW block, BlockOf(NewNode(type, parent, ifparent, Here)) = <<block>>
  PROVE  /\ TargetsBracketed' /\ TargetsSettled' /\ NestSound'
         /\ Blocks!Nest(line) /\ Blocks!Move(Append(OpenBlocks, block))
<1> DEFINE node == NewNode(type, parent, ifparent, Here)
<1>1. /\ Rooted(Flushed) /\ Flushed \in Seq(Node) /\ SameKinds(Flushed, nodes)
      /\ nodes \in Seq(Node) /\ nodestack \in Seq(DOMAIN nodes)
      /\ nodestack \in Seq(DOMAIN Flushed) /\ nodestack # <<>>
      /\ Piled(nodes, nodestack) /\ Piled(Flushed, nodestack)
      /\ BlocksOn(nodestack, Flushed) = BlocksOn(nodestack, nodes)
  BY NestTaken
<1>2. node \in Node /\ node.parent = parent /\ node.type = type
  <2>1. IInv
    BY DEF NestIInv
  <2>2. Here \in LineRange /\ parent \in Nat /\ type \in NodeTypes
    <3>1. DOMAIN nodes \subseteq Nat
      BY <1>1
    <3> QED
      BY <2>1, <3>1, TokenTaken, SomeNodeTypes
  <2>3. node.parent = parent
    BY DEF NewNode
  <2> QED
    BY <2>2, <2>3, NewNodeType
<1>3. parent \in DOMAIN Flushed
  <2>1. Stacks(nodes, nodestack, ifstack) /\ Grown(Flushed, nodes)
    BY TokenTaken DEF NestIInv
  <2> QED
    BY <1>1, <2>1 DEF Grown
<1>4. node.type # "TARGET"
  BY <1>2, SomeNodeTypes
<1> HIDE DEF node
<1>5. /\ Rooted(nodes') /\ Piled(nodes', nodestack')
      /\ BlocksOn(nodestack', nodes') = BlocksOn(nodestack, Flushed) \o BlockOf(node)
      /\ TargetOn(nodes', nodestack') => TargetOn(Flushed, nodestack) \/ node.type = "TARGET"
  <2>1. nodes' = Append(Flushed, node)
    BY DEF node
  <2>2. node \in Node /\ node.parent \in DOMAIN Flushed /\ node.type \in IfTypes \cup {"FOR", "TARGET"}
    BY <1>2, <1>3
  <2>3. nodestack' = Append(nodestack, Next1(Flushed))
    OBVIOUS
  <2>4. node.type = "TARGET" => Flushed[Peek(nodestack)].type # "TARGET"
    BY <1>4
  <2> DEFINE ns == Flushed
             ms == Append(ns, node)
             stack == Append(nodestack, Next1(ns))
  <2>5. /\ ns \in Seq(Node) /\ Rooted(ns) /\ nodestack \in Seq(DOMAIN ns) /\ nodestack # <<>>
        /\ Piled(ns, nodestack)
    BY <1>1
  <2>6. nodes' = ms /\ nodestack' = stack
    BY <2>1, <2>3
  <2>7. /\ node.parent \in DOMAIN ns
        /\ node.type = "TARGET" => ns[Peek(nodestack)].type # "TARGET"
    BY <2>2, <2>4
  <2> HIDE DEF ns
  <2>8. /\ Rooted(ms) /\ Piled(ms, stack)
        /\ BlocksOn(stack, ms) = BlocksOn(nodestack, ns) \o BlockOf(node)
        /\ TargetOn(ms, stack) => TargetOn(ns, nodestack) \/ node.type = "TARGET"
    BY <2>2, <2>5, <2>7, Pushed
  <2> HIDE DEF ms, stack
  <2> QED
    BY <2>6, <2>8 DEF ns
<1>6. TargetOn(Flushed, nodestack) <=> TargetOn(nodes, nodestack)
  BY <1>1, StackKept
<1>7. error' = "ok"
  BY DEF Token1, Building
<1>8. TargetsBracketed' /\ TargetsSettled' /\ NestSound'
  BY <1>4, <1>5, <1>6, NestDone
<1>9. /\ Blocks!Nest(line) /\ Blocks!Move(BlocksOn(nodestack', nodes'))
      /\ OpenBlocks = BlocksOn(nodestack, nodes)
  BY <1>7, NestToken
<1>10. BlocksOn(nodestack', nodes') = Append(OpenBlocks, block)
  <2> DEFINE a == BlocksOn(nodestack, nodes)
  <2>1. a \in Seq(Blocking)
    BY <1>1, KindsType
  <2>2. BlockOf(node) = <<block>>
    BY DEF node
  <2>3. BlocksOn(nodestack', nodes') = a \o <<block>>
    BY <1>1, <1>5, <2>2
  <2> HIDE DEF a
  <2>4. a \o <<block>> = Append(a, block)
    BY <2>1
  <2> QED
    BY <1>9, <2>3, <2>4 DEF a
<1> QED
  BY <1>8, <1>9, <1>10

(* A .for opens a block.                                                   *)
LEMMA ForImplements ==
  ASSUME NestIInv, For
  PROVE  Implements
<1> DEFINE node == NewNode("FOR", Peek(nodestack), NoNode, Here)
<1>1. /\ Token1("for") /\ UNCHANGED <<error, ifstack>>
      /\ nodes' = Append(Flushed, node)
      /\ nodestack' = Append(nodestack, Next1(Flushed))
  BY DEF For
<1>2. Peek(nodestack) \in DOMAIN nodes
  BY <1>1, NestTaken
<1>3. node.type = "FOR"
  BY DEF NewNode
<1>4. BlockOf(node) = <<"for">>
  <2> HIDE DEF node
  <2> QED
    BY <1>3, BlockValues
<1>5. BlockLineOf("for") = <<"for">> /\ "for" \in Strings /\ NoNode \in Nat
  BY BlockLineValues DEF Strings, NoNode
<1>6. /\ TargetsBracketed' /\ TargetsSettled' /\ NestSound'
      /\ Blocks!Nest("for") /\ Blocks!Move(Append(OpenBlocks, "for"))
  <2> DEFINE parent == Peek(nodestack)
             type == "FOR"
             line == "for"
  <2>1. type \in IfTypes \cup {"FOR"} /\ line \notin {"target_start", "target_end"}
    OBVIOUS
  <2>2. /\ BlockOf(NewNode(type, parent, NoNode, Here)) = <<"for">>
        /\ nodes' = Append(Flushed, NewNode(type, parent, NoNode, Here))
        /\ Token1(line) /\ BlockLineOf(line) = <<line>> /\ line \in Strings
        /\ parent \in DOMAIN nodes
    BY <1>1, <1>2, <1>4, <1>5
  <2> HIDE DEF parent, type, line
  <2>3. /\ TargetsBracketed' /\ TargetsSettled' /\ NestSound'
        /\ Blocks!Nest(line) /\ Blocks!Move(Append(OpenBlocks, "for"))
    BY <1>1, <1>5, <2>1, <2>2, PushImplements
  <2> QED
    BY <2>3 DEF line
<1>7. Blocks!OpenFor
  BY <1>6 DEF Blocks!OpenFor
<1> QED
  BY <1>6, <1>7 DEF Implements, Blocks!BlockNext

(* A conditional that is pushed.                                           *)
LEMMA PushIfImplements ==
  ASSUME NestIInv, NEW tokentype, Token1(tokentype), NEW line \in Strings,
         BlockLineOf(tokentype) = <<line>>, tokentype \notin {"target_start", "target_end"},
         NEW type \in IfTypes, NEW parent \in DOMAIN nodes, NEW ifparent \in Nat,
         PushIf(type, parent, ifparent)
  PROVE  /\ TargetsBracketed' /\ TargetsSettled' /\ NestSound'
         /\ Blocks!Nest(line)
         /\ ifparent = NoNode => Blocks!Move(Append(OpenBlocks, "if"))
         /\ ifparent # NoNode => Blocks!Move(Append(OpenBlocks, "branch"))
<1> DEFINE node == NewNode(type, parent, ifparent, Here)
           block == IF ifparent = NoNode THEN "if" ELSE "branch"
<1>1. /\ nodes' = Append(Flushed, node)
      /\ nodestack' = Append(nodestack, Next1(Flushed))
      /\ UNCHANGED error
  BY DEF PushIf
<1>2. node.type = type /\ node.ifparent = ifparent
  BY DEF NewNode
<1>3. BlockOf(node) = <<block>>
  <2> HIDE DEF node
  <2>1. node.type \in IfTypes
    BY <1>2
  <2>2. CASE ifparent = NoNode
    BY <1>2, <2>1, <2>2, BlockValues
  <2>3. CASE ifparent # NoNode
    BY <1>2, <2>1, <2>3, BlockValues
  <2> QED
    BY <2>2, <2>3
<1> HIDE DEF block
<1>4. /\ TargetsBracketed' /\ TargetsSettled' /\ NestSound'
      /\ Blocks!Nest(line) /\ Blocks!Move(Append(OpenBlocks, block))
  BY <1>1, <1>3, PushImplements
<1> QED
  BY <1>4 DEF block

(* An .if opens a block.                                                   *)
LEMMA IfImplements ==
  ASSUME NestIInv, If
  PROVE  Implements
<1>1. Token1("if") /\ PushIf("IF", Peek(nodestack), NoNode) /\ "IF" \in IfTypes
  BY DEF If, IfTypes
<1>2. Peek(nodestack) \in DOMAIN nodes
  BY <1>1, NestTaken
<1>3. BlockLineOf("if") = <<"if">> /\ "if" \in Strings /\ NoNode \in Nat
  BY BlockLineValues DEF Strings, NoNode
<1>4. /\ TargetsBracketed' /\ TargetsSettled' /\ NestSound'
      /\ Blocks!Nest("if") /\ Blocks!Move(Append(OpenBlocks, "if"))
  BY <1>1, <1>2, <1>3, PushIfImplements
<1>5. Blocks!OpenIf
  BY <1>4 DEF Blocks!OpenIf
<1> QED
  BY <1>4, <1>5 DEF Implements, Blocks!BlockNext

(* One block between two sequences of blocks.                              *)
LEMMA Between ==
  ASSUME NEW S, NEW T, NEW a \in Seq(S), NEW x \in S, NEW c \in Seq(T),
         NEW all, all = (a \o <<x>>) \o c
  PROVE  /\ Len(a) + 1 \in DOMAIN all /\ all[Len(a) + 1] = x
         /\ SubSeq(all, 1, Len(a)) = a
         /\ Len(all) = Len(a) + 1 + Len(c)
         /\ \A k \in (Len(a) + 2) .. Len(all) : all[k] \in T
<1> DEFINE b == a \o <<x>>
           U == S \cup T
<1>1. /\ b \in Seq(S) /\ Len(b) = Len(a) + 1 /\ b[Len(a) + 1] = x
      /\ \A i \in 1 .. Len(a) : b[i] = a[i]
      /\ Len(a) \in Nat /\ Len(c) \in Nat /\ a \in Seq(U) /\ c \in Seq(U)
  OBVIOUS
<1>2. b \in Seq(U) /\ all = b \o c
  BY <1>1
<1> HIDE DEF b, U
<1>3. /\ all \in Seq(U) /\ Len(all) = Len(a) + 1 + Len(c)
      /\ \A i \in 1 .. Len(b) : all[i] = b[i]
      /\ \A i \in (Len(b) + 1) .. Len(all) : all[i] = c[i - Len(b)]
  BY <1>1, <1>2
<1>4. Len(a) + 1 \in DOMAIN all /\ all[Len(a) + 1] = x
  BY <1>1, <1>3
<1>5. SubSeq(all, 1, Len(a)) = a
  <2> DEFINE cut == SubSeq(all, 1, Len(a))
  <2>1. cut \in Seq(U) /\ Len(cut) = Len(a) /\ \A i \in 1 .. Len(a) : cut[i] = all[i]
    BY <1>1, <1>3
  <2> HIDE DEF cut
  <2>2. \A i \in 1 .. Len(a) : cut[i] = a[i]
    BY <1>1, <1>3, <2>1
  <2>3. cut = a
    BY <1>1, <2>1, <2>2, SeqEqual
  <2> QED
    BY <2>3 DEF cut
<1>6. \A k \in (Len(a) + 2) .. Len(all) : all[k] \in T
  <2> TAKE k \in (Len(a) + 2) .. Len(all)
  <2>1. k \in (Len(b) + 1) .. Len(all) /\ k - Len(b) \in 1 .. Len(c)
    BY <1>1, <1>3
  <2> QED
    BY <1>3, <2>1
<1> QED
  BY <1>3, <1>4, <1>5, <1>6

(* The blocks at, below and above a conditional that is no branch.         *)
LEMMA IfOnStack ==
  ASSUME NEW ns, NEW D, NEW st \in Seq(D), NEW j \in DOMAIN st,
         ns[st[j]].type \in IfTypes, ns[st[j]].ifparent = NoNode,
         NEW T, BlocksOn(Behind(st, j), ns) \in Seq(T)
  PROVE  LET blocks == BlocksOn(st, ns)
             k == Len(BlocksOn(Through(st, j - 1), ns)) + 1
         IN /\ k \in DOMAIN blocks /\ blocks[k] = "if" /\ k \in Nat
            /\ SubSeq(blocks, 1, k - 1) = BlocksOn(Through(st, j - 1), ns)
            /\ \A m \in (k + 1) .. Len(blocks) : blocks[m] \in T
<1> DEFINE blocks == BlocksOn(st, ns)
           lower == BlocksOn(Through(st, j - 1), ns)
           upper == BlocksOn(Behind(st, j), ns)
<1>1. BlockOf(ns[st[j]]) = <<"if">>
  BY BlockValues
<1>2. blocks = (lower \o <<"if">>) \o upper
  BY <1>1, BlocksCut
<1>3. lower \in Seq(Blocking)
  <2>1. Through(st, j - 1) \in Seq(D)
    BY SplitAt
  <2> QED
    BY <2>1, KindsType
<1>4. "if" \in Blocking
  BY DEF Blocking
<1> HIDE DEF blocks, lower, upper
<1>5. upper \in Seq(T)
  BY DEF upper
<1>6. /\ Len(lower) + 1 \in DOMAIN blocks /\ blocks[Len(lower) + 1] = "if"
      /\ SubSeq(blocks, 1, Len(lower)) = lower
      /\ \A m \in (Len(lower) + 2) .. Len(blocks) : blocks[m] \in T
  BY <1>2, <1>3, <1>4, <1>5, Between
<1>7. Len(lower) \in Nat /\ Len(lower) + 1 - 1 = Len(lower) /\ Len(lower) + 1 + 1 = Len(lower) + 2
  BY <1>3
<1> QED
  BY <1>6, <1>7 DEF blocks, lower

(* ifstack is empty exactly when no .if is open.                           *)
LEMMA IfOpen ==
  ASSUME NestIInv, NEW type, Token1(type)
  PROVE  ifstack # <<>> <=> \E i \in DOMAIN OpenBlocks : OpenBlocks[i] = "if"
<1> DEFINE st == nodestack
<1>1. /\ Stacks(nodes, st, ifstack) /\ Links(nodes, ifstack)
      /\ st \in Seq(DOMAIN nodes) /\ ifstack \in Seq(DOMAIN nodes)
      /\ OpenBlocks = BlocksOn(st, nodes)
  BY TokenTaken, TokenLine DEF NestIInv, IInv, Stacks
<1> HIDE DEF st
<1>2. ASSUME ifstack # <<>> PROVE \E i \in DOMAIN OpenBlocks : OpenBlocks[i] = "if"
  <2>1. 1 \in DOMAIN ifstack
    BY <1>1, <1>2
  <2>2. nodes[ifstack[1]].ifparent = NoNode
    BY <1>1, <2>1 DEF Links
  <2>3. PICK j \in DOMAIN st : st[j] = ifstack[1]
    BY <1>1, <2>1 DEF Stacks
  <2>4. nodes[st[j]].type \in IfTypes /\ nodes[st[j]].ifparent = NoNode
    BY <1>1, <2>1, <2>2, <2>3 DEF Stacks
  <2>5. BlocksOn(Behind(st, j), nodes) \in Seq(Blocking)
    <3>1. Behind(st, j) \in Seq(DOMAIN nodes)
      BY <1>1, SplitAt
    <3> QED
      BY <3>1, KindsType
  <2> DEFINE k == Len(BlocksOn(Through(st, j - 1), nodes)) + 1
  <2>6. k \in DOMAIN BlocksOn(st, nodes) /\ BlocksOn(st, nodes)[k] = "if"
    BY <1>1, <2>4, <2>5, IfOnStack
  <2> HIDE DEF k
  <2> QED
    BY <1>1, <2>6
<1>3. ASSUME ifstack = <<>> PROVE ~ \E i \in DOMAIN OpenBlocks : OpenBlocks[i] = "if"
  <2>1. \A j \in DOMAIN st : BlockOf(nodes[st[j]]) \in Seq({"for"})
    <3> TAKE j \in DOMAIN st
    <3>1. nodes[st[j]].type \notin IfTypes
      BY <1>1, <1>3 DEF Stacks
    <3>2. CASE nodes[st[j]].type = "FOR"
      <4>1. BlockOf(nodes[st[j]]) = <<"for">>
        BY <3>2, BlockValues
      <4> QED
        BY <4>1
    <3>3. CASE nodes[st[j]].type # "FOR"
      <4>1. BlockOf(nodes[st[j]]) = <<>>
        BY <3>1, <3>3, BlockValues
      <4> QED
        BY <4>1
    <3> QED
      BY <3>2, <3>3
  <2>2. BlocksOn(st, nodes) \in Seq({"for"})
    BY <1>1, <2>1, KindsSeq
  <2> QED
    BY <1>1, <2>2
<1> QED
  BY <1>2, <1>3

(* An .elif or .else opens a branch, or a block where no .if is open.      *)
LEMMA BranchImplements ==
  ASSUME NestIInv, NEW tokentype \in {"elif", "else"}, NEW nodetype \in IfTypes,
         Branch(tokentype, nodetype)
  PROVE  Implements
<1>1. Token1(tokentype)
  BY DEF Branch
<1>2. /\ BlockLineOf(tokentype) = <<"branch">> /\ "branch" \in Strings /\ NoNode \in Nat
      /\ tokentype \notin {"target_start", "target_end"}
  BY BlockLineValues DEF Strings, NoNode
<1>3. CASE ifstack = <<>>
  <2>1. PushIf(nodetype, Peek(nodestack), NoNode) /\ Peek(nodestack) \in DOMAIN nodes
    BY <1>1, <1>3, NestTaken DEF Branch
  <2>2. /\ TargetsBracketed' /\ TargetsSettled' /\ NestSound'
        /\ Blocks!Nest("branch") /\ Blocks!Move(Append(OpenBlocks, "if"))
    BY <1>1, <1>2, <2>1, PushIfImplements
  <2>3. ~ \E i \in DOMAIN OpenBlocks : OpenBlocks[i] = "if"
    BY <1>1, <1>3, IfOpen
  <2>4. Blocks!TakeBranch
    BY <2>2, <2>3 DEF Blocks!TakeBranch
  <2> QED
    BY <2>2, <2>4 DEF Implements, Blocks!BlockNext
<1>4. CASE ifstack # <<>>
  <2>1. PushIf(nodetype, Peek(ifstack), Peek(ifstack))
    BY <1>4 DEF Branch
  <2>2. Peek(ifstack) \in DOMAIN nodes /\ Peek(ifstack) \in Nat /\ Peek(ifstack) # NoNode
    <3>1. ifstack \in Seq(DOMAIN nodes) /\ nodes \in Seq(Node)
      BY <1>1, TokenTaken DEF NestIInv, Stacks
    <3>2. Peek(ifstack) \in DOMAIN nodes
      BY <1>4, <3>1, TopOff
    <3> QED
      BY <3>1, <3>2 DEF NoNode
  <2>3. /\ TargetsBracketed' /\ TargetsSettled' /\ NestSound'
        /\ Blocks!Nest("branch") /\ Blocks!Move(Append(OpenBlocks, "branch"))
    BY <1>1, <1>2, <2>1, <2>2, PushIfImplements
  <2>4. \E i \in DOMAIN OpenBlocks : OpenBlocks[i] = "if"
    BY <1>1, <1>4, IfOpen
  <2>5. Blocks!TakeBranch
    BY <2>3, <2>4 DEF Blocks!TakeBranch
  <2> QED
    BY <2>3, <2>5 DEF Implements, Blocks!BlockNext
<1> QED
  BY <1>3, <1>4

(* An .endif closes the .if and its branches, or is rejected.              *)
LEMMA EndifImplements ==
  ASSUME NestIInv, Endif
  PROVE  Implements
<1> DEFINE st == nodestack
<1>1. Token1("endif")
  BY DEF Endif
<1>2. BlockLineOf("endif") = <<"endif">> /\ "endif" \in Strings
  BY BlockLineValues DEF Strings
<1>3. CASE ifstack = <<>> /\ Fail
  <2>1. /\ TargetsBracketed' /\ TargetsSettled' /\ NestSound'
        /\ Blocks!Nest("endif") /\ Blocks!Reject
    BY <1>1, <1>2, <1>3, RejectImplements
  <2>2. ~ \E i \in DOMAIN OpenBlocks : OpenBlocks[i] = "if"
    BY <1>1, <1>3, IfOpen
  <2>3. Blocks!CloseIf
    BY <2>1, <2>2 DEF Blocks!CloseIf
  <2> QED
    BY <2>1, <2>3 DEF Implements, Blocks!BlockNext
<1>4. ASSUME NEW i \in DOMAIN ifstack, NEW j \in DOMAIN st,
             InnermostIf(i), st[j] = ifstack[i],
             nodes' = [Flushed EXCEPT ![ifstack[i]].line_end = Here],
             nodestack' = Below(st, j),
             UNCHANGED error
      PROVE  Implements
  <2>1. /\ Stacks(nodes, st, ifstack) /\ nodes \in Seq(Node)
        /\ st \in Seq(DOMAIN nodes) /\ ifstack \in Seq(DOMAIN nodes)
        /\ Grown(Flushed, nodes) /\ Here \in LineRange
    BY <1>1, TokenTaken DEF NestIInv, IInv, Stacks
  <2>2. /\ Rooted(Flushed) /\ Flushed \in Seq(Node) /\ SameKinds(Flushed, nodes)
        /\ st \in Seq(DOMAIN Flushed) /\ Piled(nodes, st) /\ Piled(Flushed, st)
    BY <1>1, NestTaken
  <2>3. ifstack[i] \in DOMAIN Flushed
    BY <1>4, <2>2
  <2>4. Rooted(nodes') /\ SameKinds(nodes', Flushed)
    <3>1. Grown(nodes', Flushed)
      BY <1>4, <2>1, <2>2, <2>3, GrownByLineEnd
    <3> QED
      BY <1>4, <2>2, <2>3, <3>1, RootedLineEnd DEF Grown, SameKinds
  <2> DEFINE cut == Through(st, j - 1)
  <2>5. Below(st, j) = cut /\ cut \in Seq(DOMAIN Flushed) /\ cut \in Seq(DOMAIN nodes)
    <3>1. Below(st, j) = cut
      BY DEF Below, Through
    <3> QED
      BY <2>1, <2>2, <3>1, CutIncreasing, SplitAt
  <2>6. Piled(Flushed, Below(st, j))
    BY <2>2, PiledCut
  <2>7. /\ Piled(nodes', cut) /\ BlocksOn(cut, nodes') = BlocksOn(cut, nodes)
        /\ TargetOn(nodes', cut) <=> TargetOn(nodes, cut)
    <3>1. /\ Piled(nodes', cut) /\ BlocksOn(cut, nodes') = BlocksOn(cut, Flushed)
          /\ TargetOn(nodes', cut) <=> TargetOn(Flushed, cut)
      BY <2>2, <2>4, <2>5, <2>6, StackKept
    <3>2. Piled(nodes, cut)
      BY <2>1, <2>2, <2>5, PiledCut
    <3>3. /\ BlocksOn(cut, Flushed) = BlocksOn(cut, nodes)
          /\ TargetOn(Flushed, cut) <=> TargetOn(nodes, cut)
      BY <2>1, <2>2, <2>5, <3>2, StackKept
    <3> QED
      BY <3>1, <3>3
  <2>8. TargetOn(nodes, cut) => TargetOn(nodes, st)
    <3>1. \A k \in DOMAIN cut : k \in DOMAIN st /\ cut[k] = st[k]
      BY <2>1 DEF Through
    <3> QED
      BY <3>1 DEF TargetOn
  <2>9. TargetsBracketed' /\ TargetsSettled' /\ NestSound'
    <3>1. Piled(nodes', nodestack') /\ (TargetOn(nodes', nodestack') => TargetOn(nodes, nodestack))
      BY <1>4, <2>5, <2>7, <2>8
    <3> QED
      BY <1>1, <2>4, <3>1, NestDone
  <2>10. nodes[st[j]].type \in IfTypes /\ nodes[st[j]].ifparent = NoNode
    BY <1>4, <2>1 DEF Stacks, InnermostIf
  <2>11. BlocksOn(Behind(st, j), nodes) \in Seq({"branch", "for"})
    <3> DEFINE back == Behind(st, j)
    <3>1. /\ back \in Seq(DOMAIN nodes) /\ Len(back) = Len(st) - j
          /\ \A k \in 1 .. (Len(st) - j) : back[k] = st[k + j]
      BY <2>1, BehindAt
    <3> HIDE DEF back
    <3>2. \A k \in DOMAIN back : BlockOf(nodes[back[k]]) \in Seq({"branch", "for"})
      <4> TAKE k \in DOMAIN back
      <4>1. k + j \in DOMAIN st /\ back[k] = st[k + j] /\ j < k + j
        <5>1. /\ DOMAIN st = 1 .. Len(st) /\ Len(st) \in Nat /\ j \in 1 .. Len(st)
              /\ DOMAIN back = 1 .. Len(back)
          <6>1. DOMAIN st = 1 .. Len(st) /\ Len(st) \in Nat
            BY <2>1
          <6>2. DOMAIN back = 1 .. Len(back)
            BY <3>1
          <6>3. j \in 1 .. Len(st)
            BY <1>4, <6>1
          <6> QED
            BY <6>1, <6>2, <6>3
        <5>2. k \in 1 .. (Len(st) - j) /\ k \in Nat /\ j \in Nat
          BY <3>1, <5>1
        <5> QED
          BY <3>1, <5>1, <5>2
      <4>2. CASE nodes[back[k]].type \in IfTypes
        <5>1. PICK m \in DOMAIN ifstack : ifstack[m] = st[k + j]
          BY <2>1, <4>1, <4>2 DEF Stacks
        <5>2. st[j] < st[k + j]
          BY <2>1, <4>1 DEF Stacks, Increasing
        <5>3. m \in (i + 1) .. Len(ifstack)
          <6>1. m # i /\ ~(m < i)
            <7>1. m < i => ifstack[m] < ifstack[i]
              BY <2>1, <5>1 DEF Stacks, Increasing
            <7>2. ifstack[i] \in Nat /\ ifstack[m] \in Nat
              BY <2>1, <5>1
            <7> QED
              BY <1>4, <5>1, <5>2, <7>1, <7>2
          <6>2. i \in Nat /\ m \in Nat /\ Len(ifstack) \in Nat /\ m <= Len(ifstack)
            <7>1. DOMAIN ifstack = 1 .. Len(ifstack) /\ Len(ifstack) \in Nat
              BY <2>1
            <7> QED
              BY <1>4, <5>1, <7>1
          <6> QED
            BY <6>1, <6>2
        <5>4. nodes[back[k]].ifparent # NoNode
          BY <1>4, <4>1, <5>1, <5>3 DEF InnermostIf
        <5>5. BlockOf(nodes[back[k]]) = <<"branch">>
          BY <4>2, <5>4, BlockValues
        <5> QED
          BY <5>5
      <4>3. CASE nodes[back[k]].type = "FOR"
        <5>1. BlockOf(nodes[back[k]]) = <<"for">>
          BY <4>3, BlockValues
        <5> QED
          BY <5>1
      <4>4. CASE nodes[back[k]].type \notin IfTypes \cup {"FOR"}
        <5>1. BlockOf(nodes[back[k]]) = <<>>
          BY <4>4, BlockValues
        <5> QED
          BY <5>1
      <4> QED
        BY <4>2, <4>3, <4>4
    <3>3. BlocksOn(back, nodes) \in Seq({"branch", "for"})
      BY <3>1, <3>2, KindsSeq
    <3> QED
      BY <3>3 DEF back
  <2> DEFINE blocks == BlocksOn(st, nodes)
             k == Len(BlocksOn(cut, nodes)) + 1
  <2>12. /\ k \in DOMAIN blocks /\ blocks[k] = "if" /\ k \in Nat
         /\ SubSeq(blocks, 1, k - 1) = BlocksOn(cut, nodes)
         /\ \A m \in (k + 1) .. Len(blocks) : blocks[m] \in {"branch", "for"}
    BY <2>1, <2>10, <2>11, IfOnStack
  <2>13. error' = "ok"
    BY <1>1, <1>4 DEF Token1, Building
  <2>14. /\ Blocks!Nest("endif") /\ OpenBlocks = blocks
         /\ Blocks!Move(BlocksOn(nodestack', nodes'))
    BY <1>1, <1>2, <2>13, NestToken
  <2>15. BlocksOn(nodestack', nodes') = BlocksOn(cut, nodes)
    BY <1>4, <2>5, <2>7
  <2> HIDE DEF blocks, k, cut
  <2>16. Blocks!InnermostIs("if", k)
    BY <2>12, <2>14 DEF Blocks!InnermostIs
  <2>17. Blocks!Move(SubSeq(OpenBlocks, 1, k - 1))
    BY <2>12, <2>14, <2>15
  <2>18. Blocks!CloseIf
    BY <2>12, <2>14, <2>16, <2>17 DEF Blocks!CloseIf
  <2> QED
    BY <2>9, <2>18 DEF Implements, Blocks!BlockNext
<1> QED
  BY <1>3, <1>4 DEF Endif

(* Below the target that may be on top there is a .for, or what .endfor    *)
(* does not close.                                                         *)
LEMMA ForOnTop ==
  ASSUME NestIInv, NEW type, Token1(type)
  PROVE  LET top == nodes[Peek(WithoutTarget)]
             lower == BlocksOn(Below(WithoutTarget, Len(WithoutTarget)), nodes)
             blocks == BlocksOn(nodestack, nodes)
         IN /\ top.type = "FOR" =>
                 /\ blocks # <<>> /\ blocks[Len(blocks)] = "for"
                 /\ SubSeq(blocks, 1, Len(blocks) - 1) = lower
            /\ top.type # "FOR" => ~(blocks # <<>> /\ blocks[Len(blocks)] = "for")
<1> DEFINE w == WithoutTarget
           cut == Below(w, Len(w))
           top == nodes[Peek(w)]
           lower == BlocksOn(cut, nodes)
           blocks == BlocksOn(nodestack, nodes)
<1>1. /\ w \in Seq(DOMAIN nodes) /\ w # <<>> /\ Piled(nodes, w) /\ top.type # "TARGET"
      /\ BlocksOn(w, nodes) = blocks
  BY NestWithout
<1>2. /\ w[1] = Root /\ nodes[Root].type = "ROOT"
  BY TokenTaken, WithoutTargetSound DEF NestIInv, Stacks
<1> HIDE DEF w, cut
<1>3. /\ Len(w) \in DOMAIN w /\ Len(w) \in Nat /\ Len(w) >= 1
      /\ Peek(w) = w[Len(w)] /\ cut \in Seq(DOMAIN nodes)
  <2>1. Len(w) \in DOMAIN w /\ Below(w, Len(w)) \in Seq(DOMAIN nodes)
    BY <1>1, TopOff
  <2>2. w \in Seq(DOMAIN nodes)
    BY <1>1
  <2>3. Len(w) \in Nat /\ DOMAIN w = 1 .. Len(w)
    BY <2>2
  <2>4. Len(w) >= 1
    BY <2>1, <2>3
  <2> QED
    BY <2>1, <2>3, <2>4 DEF Peek, cut
<1>12. Len(w) = 1 \/ Len(w) > 1
  <2> DEFINE n == Len(w)
  <2>1. n \in Nat /\ n >= 1
    BY <1>3
  <2> HIDE DEF n
  <2>2. n = 1 \/ n > 1
    BY <2>1
  <2> QED
    BY <2>2 DEF n
<1>4. blocks = lower \o BlockOf(top)
  BY <1>1, BlocksTop DEF cut
<1>5. lower \in Seq(Blocking)
  BY <1>3, KindsType
<1> DEFINE b == BlockOf(top)
<1>6. /\ top.type = "FOR" => b = <<"for">>
      /\ top.type \in IfTypes => b = <<"if">> \/ b = <<"branch">>
      /\ top.type = "ROOT" => b = <<>>
  BY BlockValues, SomeNodeTypes
<1>7. top.type = "ROOT" \/ top.type = "FOR" \/ top.type \in IfTypes
  <2>1. CASE Len(w) = 1
    BY <1>2, <1>3, <2>1
  <2>2. CASE Len(w) # 1
    <3>1. Len(w) > 1
      BY <1>12, <2>2
    <3>2. nodes[w[Len(w)]].type \in IfTypes \cup {"FOR", "TARGET"}
      BY <1>1, <1>3, <3>1 DEF Piled
    <3> QED
      BY <1>1, <1>3, <3>2
  <2> QED
    BY <2>1, <2>2
<1>8. top.type = "ROOT" => lower = <<>>
  <2> SUFFICES ASSUME top.type = "ROOT" PROVE lower = <<>>
    OBVIOUS
  <2>1. Len(w) = 1
    <3>1. ASSUME Len(w) > 1 PROVE FALSE
      <4>1. nodes[w[Len(w)]].type \in IfTypes \cup {"FOR", "TARGET"}
        BY <1>1, <1>3, <3>1 DEF Piled
      <4> QED
        BY <1>3, <4>1, SomeNodeTypes
    <3> QED
      BY <1>12, <3>1
  <2>2. cut = <<>>
    BY <2>1 DEF cut, Below
  <2>3. FlattenSeq(<<>>) = <<>>
    BY DEF FlattenSeq
  <2> QED
    BY <2>2, <2>3 DEF BlocksOn
<1> HIDE DEF top, lower, blocks, b
<1>9. CASE top.type = "FOR"
  <2>1. blocks = lower \o <<"for">>
    BY <1>4, <1>6, <1>9 DEF b
  <2>2. /\ Len(blocks) = Len(lower) + 1 /\ blocks[Len(lower) + 1] = "for" /\ Len(lower) \in Nat
        /\ blocks # <<>>
    BY <1>5, <2>1
  <2>3. "for" \in Blocking
    BY DEF Blocking
  <2>4. SubSeq(blocks, 1, Len(lower)) = lower
    <3>1. <<>> \in Seq(Blocking)
      OBVIOUS
    <3>2. blocks = (lower \o <<"for">>) \o <<>>
      BY <1>5, <2>1, <2>3
    <3> QED
      BY <1>5, <2>3, <3>1, <3>2, Between
  <2>5. Len(blocks) - 1 = Len(lower)
    BY <2>2
  <2> QED
    BY <1>9, <2>2, <2>4, <2>5 DEF top, lower, blocks, w, cut
<1>10. CASE top.type \in IfTypes
  <2>1. top.type # "FOR"
    BY <1>10, SomeNodeTypes
  <2>2. PICK x \in {"if", "branch"} : blocks = lower \o <<x>>
    BY <1>4, <1>6, <1>10 DEF b
  <2>3. blocks[Len(blocks)] = x
    BY <1>5, <2>2
  <2>4. blocks[Len(blocks)] # "for"
    BY <2>3
  <2> QED
    BY <2>1, <2>4 DEF top, lower, blocks, w, cut
<1>11. CASE top.type = "ROOT"
  <2>1. blocks = <<>> \o <<>>
    BY <1>4, <1>6, <1>8, <1>11 DEF b
  <2>2. blocks = <<>>
    BY <2>1
  <2> QED
    BY <1>11, <2>2 DEF top, lower, blocks, w, cut
<1> QED
  BY <1>7, <1>9, <1>10, <1>11

(* Where .endfor looks for the .for.                                       *)
LEMMA EndforDepth ==
  ASSUME NestIInv, Token1("endfor")
  PROVE  LET depth == IF nodes[Peek(nodestack)].type = "TARGET"
                      THEN Len(nodestack) - 1 ELSE Len(nodestack)
         IN /\ depth \in DOMAIN nodestack /\ nodestack[depth] = Peek(WithoutTarget)
            /\ Below(nodestack, depth) = Below(WithoutTarget, Len(WithoutTarget))
<1> DEFINE depth == IF nodes[Peek(nodestack)].type = "TARGET"
                    THEN Len(nodestack) - 1 ELSE Len(nodestack)
           st == nodestack
<1>1. /\ st \in Seq(DOMAIN nodes) /\ DOMAIN st = 1 .. Len(st) /\ Len(st) \in Nat /\ st # <<>>
      /\ Stacks(nodes, st, ifstack)
  BY TokenTaken DEF NestIInv, Stacks
<1>2. CASE nodes[Peek(st)].type = "TARGET"
  <2>1. /\ Len(st) > 1
        /\ Len(Below(st, Len(st))) = Len(st) - 1
        /\ \A i \in 1 .. (Len(st) - 1) : Below(st, Len(st))[i] = st[i]
    BY <1>1, <1>2, PopBlock DEF Peek
  <2>2. depth = Len(st) - 1 /\ WithoutTarget = Below(st, Len(st))
    BY <1>2 DEF WithoutTarget
  <2> HIDE DEF depth
  <2>3. depth \in 1 .. (Len(st) - 1) /\ Len(st) \in DOMAIN st
    BY <1>1, <2>1, <2>2
  <2>4. Below(WithoutTarget, depth) = Below(st, depth)
    BY <1>1, <2>2, <2>3, CutTwice
  <2>5. Len(WithoutTarget) = depth /\ WithoutTarget[depth] = st[depth]
    BY <2>1, <2>2, <2>3
  <2>6. depth \in DOMAIN st
    BY <1>1, <2>3
  <2> QED
    BY <2>4, <2>5, <2>6 DEF Peek, depth
<1>3. CASE nodes[Peek(st)].type # "TARGET"
  <2>1. WithoutTarget = st /\ depth = Len(st)
    BY <1>3 DEF WithoutTarget
  <2>2. Len(st) \in DOMAIN st
    BY <1>1
  <2> HIDE DEF depth
  <2> QED
    BY <2>1, <2>2 DEF Peek, depth
<1> QED
  BY <1>2, <1>3

(* An .endfor closes the .for right inside it, or is rejected.             *)
LEMMA EndforImplements ==
  ASSUME NestIInv, Endfor
  PROVE  Implements
<1> DEFINE depth == IF nodes[Peek(nodestack)].type = "TARGET"
                    THEN Len(nodestack) - 1 ELSE Len(nodestack)
           node == nodestack[depth]
           w == WithoutTarget
           cut == Below(w, Len(w))
           blocks == BlocksOn(nodestack, nodes)
           lower == BlocksOn(cut, nodes)
<1>1. Token1("endfor")
  BY DEF Endfor
<1>2. BlockLineOf("endfor") = <<"endfor">> /\ "endfor" \in Strings
  BY BlockLineValues DEF Strings
<1>3. /\ depth \in DOMAIN nodestack /\ node = Peek(w)
      /\ Below(nodestack, depth) = cut
  BY <1>1, EndforDepth
<1>4. /\ nodes[Peek(w)].type = "FOR" =>
           /\ blocks # <<>> /\ blocks[Len(blocks)] = "for"
           /\ SubSeq(blocks, 1, Len(blocks) - 1) = lower
      /\ nodes[Peek(w)].type # "FOR" => ~(blocks # <<>> /\ blocks[Len(blocks)] = "for")
  BY <1>1, ForOnTop
<1>5. CASE nodes[node].type # "FOR"
  <2>1. Fail
    BY <1>5 DEF Endfor
  <2>2. /\ TargetsBracketed' /\ TargetsSettled' /\ NestSound'
        /\ Blocks!Nest("endfor") /\ Blocks!Reject /\ OpenBlocks = blocks
    BY <1>1, <1>2, <2>1, RejectImplements
  <2>3. ~(blocks # <<>> /\ blocks[Len(blocks)] = "for")
    <3> HIDE DEF node, w, blocks, lower
    <3> QED
      BY <1>3, <1>4, <1>5
  <2> HIDE DEF blocks
  <2>4. Blocks!CloseFor
    BY <2>2, <2>3 DEF Blocks!CloseFor
  <2> QED
    BY <2>2, <2>4 DEF Implements, Blocks!BlockNext
<1>6. CASE nodes[node].type = "FOR"
  <2>1. /\ nodes' = [Flushed EXCEPT ![node].line_end = Here]
        /\ nodestack' = Below(nodestack, depth)
        /\ UNCHANGED <<error, ifstack>>
    BY <1>6 DEF Endfor
  <2>2. /\ Rooted(Flushed) /\ Flushed \in Seq(Node) /\ SameKinds(Flushed, nodes)
        /\ nodes \in Seq(Node) /\ nodestack \in Seq(DOMAIN nodes)
        /\ nodestack \in Seq(DOMAIN Flushed) /\ Piled(nodes, nodestack)
    BY <1>1, NestTaken
  <2> HIDE DEF depth, w
  <2>3. node \in DOMAIN Flushed
    BY <1>3, <2>2
  <2> HIDE DEF node
  <2>4. Here \in LineRange
    BY <1>1, TokenTaken DEF NestIInv
  <2>5. Rooted(nodes') /\ SameKinds(nodes', Flushed)
    <3>1. Grown(nodes', Flushed)
      BY <2>1, <2>2, <2>3, <2>4, GrownByLineEnd
    <3> QED
      BY <2>1, <2>2, <2>3, <3>1, RootedLineEnd DEF Grown, SameKinds
  <2>6. SameKinds(nodes', nodes)
    <3>1. \A n \in DOMAIN nodes : n \in DOMAIN Flushed
      <4>1. Grown(Flushed, nodes)
        BY <1>1, TokenTaken DEF NestIInv
      <4> QED
        BY <2>2, <4>1 DEF Grown
    <3> QED
      BY <2>2, <2>5, <3>1 DEF SameKinds
  <2>7. nodestack' = cut /\ Piled(nodes, cut) /\ cut \in Seq(DOMAIN nodes)
    <3> HIDE DEF cut
    <3>1. Piled(nodes, Below(nodestack, depth)) /\ Below(nodestack, depth) \in Seq(DOMAIN nodes)
      <4>1. Piled(nodes, Below(nodestack, depth))
        BY <1>3, <2>2, PiledCut
      <4>2. Below(nodestack, depth) \in Seq(DOMAIN nodes)
        BY <1>3, <2>2 DEF Below
      <4> QED
        BY <4>1, <4>2
    <3> QED
      BY <1>3, <2>1, <3>1
  <2>8. TargetOn(nodes, Below(nodestack, depth)) => TargetOn(nodes, nodestack)
    <3> DEFINE low == Below(nodestack, depth)
    <3>1. \A k \in DOMAIN low : k \in DOMAIN nodestack /\ low[k] = nodestack[k]
      BY <1>3, <2>2 DEF Below
    <3> HIDE DEF low
    <3> QED
      BY <3>1 DEF TargetOn, low
  <2> HIDE DEF cut
  <2>9. /\ Piled(nodes', cut) /\ BlocksOn(cut, nodes') = lower
        /\ TargetOn(nodes', cut) <=> TargetOn(nodes, cut)
    BY <2>2, <2>6, <2>7, StackKept
  <2>10. TargetsBracketed' /\ TargetsSettled' /\ NestSound'
    <3>1. Piled(nodes', nodestack') /\ (TargetOn(nodes', nodestack') => TargetOn(nodes, nodestack))
      BY <1>3, <2>7, <2>8, <2>9
    <3> QED
      BY <1>1, <2>5, <3>1, NestDone
  <2>11. error' = "ok"
    BY <1>1, <2>1 DEF Token1, Building
  <2>12. /\ Blocks!Nest("endfor") /\ OpenBlocks = blocks
         /\ Blocks!Move(BlocksOn(nodestack', nodes'))
    BY <1>1, <1>2, <2>11, NestToken
  <2>13. BlocksOn(nodestack', nodes') = lower
    BY <2>7, <2>9
  <2> HIDE DEF blocks, lower
  <2>14. /\ blocks # <<>> /\ blocks[Len(blocks)] = "for"
         /\ SubSeq(blocks, 1, Len(blocks) - 1) = lower
    BY <1>3, <1>4, <1>6
  <2>15. Blocks!CloseFor
    BY <2>12, <2>13, <2>14 DEF Blocks!CloseFor
  <2> QED
    BY <2>10, <2>15 DEF Implements, Blocks!BlockNext
<1> QED
  BY <1>5, <1>6

(* The end of a target takes no step of BlockNesting.                      *)
LEMMA TargetEndImplements ==
  ASSUME NestIInv, TargetEnd
  PROVE  Implements
<1>1. /\ Token1("target_end") /\ UNCHANGED <<error, ifstack>>
      /\ nodes' = Flushed /\ nodestack' = WithoutTarget
  BY DEF TargetEnd
<1>2. /\ WithoutTarget \in Seq(DOMAIN nodes) /\ WithoutTarget # <<>>
      /\ Piled(nodes, WithoutTarget) /\ nodes[Peek(WithoutTarget)].type # "TARGET"
      /\ BlocksOn(WithoutTarget, nodes) = BlocksOn(nodestack, nodes)
  BY <1>1, NestWithout
<1>3. /\ Rooted(Flushed) /\ SameKinds(Flushed, nodes) /\ nodes \in Seq(Node)
  BY <1>1, NestTaken
<1> DEFINE w == WithoutTarget
<1>4. Piled(Flushed, w) /\ BlocksOn(w, Flushed) = BlocksOn(w, nodes)
  BY <1>2, <1>3, StackKept
<1>5. Flushed[Peek(w)].type # "TARGET"
  <2>1. Peek(w) \in DOMAIN nodes
    BY <1>2, TopOff
  <2> QED
    BY <1>2, <1>3, <2>1 DEF SameKinds
<1>6. "target_end" \notin BlockTokens
  BY DEF BlockTokens
<1> HIDE DEF w
<1>7. /\ Rooted(nodes') /\ Piled(nodes', nodestack')
      /\ BlocksOn(nodestack', nodes') = BlocksOn(nodestack, nodes)
      /\ nodes'[Peek(nodestack')].type # "TARGET"
      /\ UNCHANGED error
  BY <1>1, <1>2, <1>3, <1>4, <1>5 DEF w
<1> QED
  BY <1>1, <1>6, <1>7, QuietImplements

(* A target that is pushed.                                                *)
LEMMA TargetPushed ==
  ASSUME NestIInv, NEW type, Token1(type),
         NEW stack \in Seq(DOMAIN nodes), stack # <<>>, Piled(nodes, stack),
         nodes[Peek(stack)].type # "TARGET"
  PROVE  LET node == NewNode("TARGET", Peek(stack), NoNode, Here)
             ms == Append(Flushed, node)
             new == Append(stack, Next1(Flushed))
         IN /\ node \in Node
            /\ ms \in Seq(Node) /\ new \in Seq(DOMAIN ms) /\ Rooted(ms) /\ Piled(ms, new)
            /\ BlocksOn(new, ms) = BlocksOn(stack, nodes)
<1> DEFINE node == NewNode("TARGET", Peek(stack), NoNode, Here)
           ms == Append(Flushed, node)
           new == Append(stack, Next1(Flushed))
<1>1. /\ Rooted(Flushed) /\ Flushed \in Seq(Node) /\ SameKinds(Flushed, nodes)
      /\ nodes \in Seq(Node)
  BY NestTaken
<1>2. DOMAIN nodes \subseteq DOMAIN Flushed /\ Here \in LineRange
  <2>1. Grown(Flushed, nodes) /\ Here \in LineRange
    BY TokenTaken DEF NestIInv
  <2> QED
    BY <1>1, <2>1 DEF Grown
<1>3. Peek(stack) \in DOMAIN nodes /\ Peek(stack) \in Nat
  <2>1. Peek(stack) \in DOMAIN nodes
    BY TopOff
  <2> QED
    BY <1>1, <2>1
<1>4. /\ node \in Node /\ node.type = "TARGET" /\ node.parent \in DOMAIN Flushed
  <2>1. node \in Node /\ node.type = "TARGET"
    <3>1. "TARGET" \in NodeTypes /\ NoNode \in Nat
      BY SomeNodeTypes DEF NoNode
    <3> QED
      BY <1>2, <1>3, <3>1, NewNodeType
  <2>2. node.parent = Peek(stack)
    BY DEF NewNode
  <2> QED
    BY <1>2, <1>3, <2>1, <2>2
<1>5. stack \in Seq(DOMAIN Flushed) /\ Flushed[Peek(stack)].type # "TARGET"
  BY <1>1, <1>2, <1>3 DEF SameKinds
<1>6. Piled(Flushed, stack) /\ BlocksOn(stack, Flushed) = BlocksOn(stack, nodes)
  BY <1>1, StackKept
<1> HIDE DEF node
<1>7. /\ ms \in Seq(Node) /\ new \in Seq(DOMAIN ms) /\ Rooted(ms) /\ Piled(ms, new)
      /\ BlocksOn(new, ms) = BlocksOn(stack, Flushed) \o BlockOf(node)
  BY <1>1, <1>4, <1>5, <1>6, Pushed
<1>8. BlockOf(node) = <<>>
  BY <1>4, BlockValues, SomeNodeTypes
<1> DEFINE a == BlocksOn(stack, nodes)
<1>9. a \in Seq(Blocking)
  BY KindsType
<1> HIDE DEF ms, new, a
<1>10. a \o <<>> = a
  BY <1>9
<1>11. BlocksOn(new, ms) = a
  BY <1>6, <1>7, <1>8, <1>10 DEF a
<1> QED
  BY <1>4, <1>7, <1>11 DEF node, ms, new, a

(* Nor does the start of one.                                              *)
LEMMA TargetStartImplements ==
  ASSUME NestIInv, TargetStart
  PROVE  Implements
<1>1. /\ Token1("target_start") /\ UNCHANGED <<error, ifstack>>
      /\ nodes' = Append(Flushed, NewNode("TARGET", Peek(WithoutTarget), NoNode, Here))
      /\ nodestack' = Append(WithoutTarget, Next1(Flushed))
  BY DEF TargetStart
<1> DEFINE w == WithoutTarget
<1>2. /\ w \in Seq(DOMAIN nodes) /\ w # <<>>
      /\ Piled(nodes, w) /\ nodes[Peek(w)].type # "TARGET"
      /\ BlocksOn(w, nodes) = BlocksOn(nodestack, nodes)
  BY <1>1, NestWithout
<1> HIDE DEF w
<1> DEFINE ms == Append(Flushed, NewNode("TARGET", Peek(w), NoNode, Here))
           new == Append(w, Next1(Flushed))
<1>3. /\ Rooted(ms) /\ Piled(ms, new) /\ BlocksOn(new, ms) = BlocksOn(w, nodes)
  BY <1>1, <1>2, TargetPushed
<1>4. nodes' = ms /\ nodestack' = new
  BY <1>1 DEF w
<1> HIDE DEF ms, new
<1>5. "target_start" \notin BlockTokens
  BY DEF BlockTokens
<1>6. /\ Rooted(nodes') /\ Piled(nodes', nodestack')
      /\ BlocksOn(nodestack', nodes') = BlocksOn(nodestack, nodes)
      /\ UNCHANGED error
  BY <1>1, <1>2, <1>3, <1>4
<1> QED
  BY <1>1, <1>5, <1>6, QuietImplements

(* Nor does a command, inside a target or not.                             *)
LEMMA CommandImplements ==
  ASSUME NestIInv, NEW tokentype \in {"command", "no_op_command"}, NEW nodetype \in NodeTypes,
         Command(tokentype, nodetype)
  PROVE  Implements
<1>1. Token1(tokentype) /\ UNCHANGED <<error, ifstack>>
  BY DEF Command
<1>2. tokentype \notin BlockTokens \cup {"target_end"}
  BY DEF BlockTokens
<1>3. CASE HasTarget[Peek(nodestack)]
  <2>1. Leaf(tokentype, nodetype)
    BY <1>1, <1>3 DEF Command, Leaf
  <2> QED
    BY <1>2, <2>1, LeafImplements
<1>4. CASE ~HasTarget[Peek(nodestack)]
  <2>1. /\ nodestack \in Seq(DOMAIN nodes) /\ nodestack # <<>>
        /\ Piled(nodes, nodestack) /\ Peek(nodestack) \in DOMAIN nodes
        /\ Flushed \in Seq(Node) /\ Rooted(nodes)
    BY <1>1, NestTaken DEF NestIInv, NestSound
  <2>2. nodes[Peek(nodestack)].type # "TARGET"
    <3>1. nodes[Root].type = "ROOT"
      BY <1>1, TokenTaken DEF NestIInv, Stacks
    <3> QED
      BY <1>4, <2>1, <3>1, TargetOnTop
  <2> DEFINE target == NewNode("TARGET", Peek(nodestack), NoNode, Here)
             n == Next1(Flushed)
             command == NewNode(nodetype, n, NoNode, Here)
             mid == Append(Flushed, target)
             new == Append(nodestack, n)
  <2>3. /\ target \in Node
        /\ mid \in Seq(Node) /\ new \in Seq(DOMAIN mid) /\ Rooted(mid) /\ Piled(mid, new)
        /\ BlocksOn(new, mid) = BlocksOn(nodestack, nodes)
    BY <1>1, <2>1, <2>2, TargetPushed
  <2>4. nodes' = Flushed \o <<target, command>> /\ nodestack' = new
    BY <1>4 DEF Command
  <2>5. n \in Nat
    BY <2>1 DEF Next1
  <2>6. n \in DOMAIN mid
    BY <2>1, <2>3, AppendedKinds
  <2>7. command \in Node /\ command.parent = n
    <3>1. Here \in LineRange /\ NoNode \in Nat
      BY <1>1, TokenTaken DEF NestIInv, NoNode
    <3>2. command.parent = n
      BY DEF NewNode
    <3> HIDE DEF n
    <3> QED
      BY <2>5, <3>1, <3>2, NewNodeType
  <2> HIDE DEF target, command, n
  <2>8. nodes' = Append(mid, command)
    <3>1. Flushed \in Seq(Node) /\ target \in Node /\ command \in Node
      BY <2>1, <2>3, <2>7
    <3> QED
      BY <2>4, <3>1
  <2> HIDE DEF mid, new
  <2>9. Rooted(nodes') /\ SameKinds(nodes', mid)
    BY <2>3, <2>6, <2>7, <2>8, RootedAppend, AppendedKinds
  <2>10. Piled(nodes', new) /\ BlocksOn(new, nodes') = BlocksOn(new, mid)
    BY <2>3, <2>9, StackKept
  <2>11. /\ Piled(nodes', nodestack')
         /\ BlocksOn(nodestack', nodes') = BlocksOn(nodestack, nodes)
         /\ UNCHANGED error
    BY <1>1, <2>3, <2>4, <2>10
  <2> QED
    BY <1>1, <1>2, <2>9, <2>11, QuietImplements
<1> QED
  BY <1>3, <1>4

(* When the file has ended only the root is left exactly if no block is.   *)
LEMMA NothingOpenMeans ==
  ASSUME NestIInv, BuilderFinish
  PROVE  /\ NothingOpen => nodestack = <<Root>> /\ BlocksOn(nodestack, nodes) = <<>>
         /\ ~NothingOpen => BlocksOn(nodestack, nodes) # <<>>
<1> DEFINE st == nodestack
           top == nodes[Peek(st)]
<1>1. /\ Stacks(nodes, st, ifstack) /\ Piled(nodes, st) /\ TargetSeen
      /\ finished /\ pos = Len(tokens) + 1 /\ tokens \in Seq(Token)
  BY DEF BuilderFinish, Building, NestIInv, NestSound, IInv, StacksSound, TypeOK, TokenizerTypeOK
<1>2. /\ st \in Seq(DOMAIN nodes) /\ st # <<>> /\ st[1] = Root /\ nodes[Root].type = "ROOT"
      /\ Increasing(st) /\ nodes \in Seq(Node)
  BY <1>1 DEF Stacks
<1>3. Len(st) \in DOMAIN st /\ Peek(st) = st[Len(st)] /\ 1 \in DOMAIN st
  BY <1>2, TopOff DEF Peek
<1>4. Len(st) = 1 \/ Len(st) > 1
  <2> DEFINE n == Len(st)
  <2>1. n \in Nat /\ n >= 1
    <3>1. DOMAIN st = 1 .. Len(st) /\ Len(st) \in Nat
      BY <1>2
    <3> QED
      BY <1>3, <3>1
  <2> HIDE DEF n
  <2>2. n = 1 \/ n > 1
    BY <2>1
  <2> QED
    BY <2>2 DEF n
<1>5. top.type # "TARGET"
  <2> SUFFICES ASSUME top.type = "TARGET" PROVE FALSE
    OBVIOUS
  <2>1. TargetOn(nodes, nodestack)
    BY <1>3 DEF TargetOn
  <2>2. Ended \/ OpenTarget(pos - 1)
    BY <1>1, <2>1 DEF TargetSeen
  <2>3. pos - 1 = Len(tokens)
    BY <1>1
  <2>4. ~OpenTarget(Len(tokens))
    BY <1>1 DEF NestIInv, TargetsBracketed
  <2>5. Ended
    BY <2>2, <2>3, <2>4
  <2> QED
    BY <1>1, <2>5 DEF TargetSeen
<1>6. CASE Len(st) = 1
  <2>1. Peek(st) = Root
    BY <1>2, <1>3, <1>6
  <2>2. st = <<Root>>
    <3>1. <<Root>> \in Seq(DOMAIN nodes) /\ Len(<<Root>>) = 1 /\ <<Root>>[1] = Root
      BY <1>2, <1>3
    <3>2. \A i \in 1 .. 1 : st[i] = <<Root>>[i]
      BY <1>2, <3>1
    <3> QED
      BY <1>2, <1>6, <3>1, <3>2, SeqEqual
  <2>3. BlocksOn(st, nodes) = <<>>
    <3> DEFINE cut == Below(st, Len(st))
    <3>1. cut = <<>>
      BY <1>6 DEF Below
    <3>2. BlocksOn(cut, nodes) = <<>>
      BY <3>1 DEF BlocksOn, FlattenSeq
    <3>3. BlockOf(top) = <<>>
      BY <1>2, <2>1, BlockValues, SomeNodeTypes
    <3>4. BlocksOn(st, nodes) = BlocksOn(cut, nodes) \o BlockOf(top)
      BY <1>2, BlocksTop
    <3> HIDE DEF cut, top
    <3> QED
      BY <3>2, <3>3, <3>4
  <2> QED
    BY <2>1, <2>2, <2>3 DEF NothingOpen
<1>7. CASE Len(st) > 1
  <2>1. Peek(st) # Root
    <3>1. 1 < Len(st) => st[1] < st[Len(st)]
      BY <1>2, <1>3 DEF Increasing
    <3> QED
      BY <1>2, <1>3, <1>7, <3>1 DEF Root
  <2>2. top.type \in IfTypes \cup {"FOR"}
    <3>1. nodes[st[Len(st)]].type \in IfTypes \cup {"FOR", "TARGET"}
      BY <1>1, <1>3, <1>7 DEF Piled
    <3> QED
      BY <1>3, <1>5, <3>1
  <2>3. \E x : BlockOf(top) = <<x>>
    BY <2>2, BlockValues
  <2>4. BlocksOn(st, nodes) # <<>>
    <3> DEFINE a == BlocksOn(Below(st, Len(st)), nodes)
    <3>1. a \in Seq(Blocking)
      <4>1. Below(st, Len(st)) \in Seq(DOMAIN nodes)
        BY <1>2, TopOff
      <4> QED
        BY <4>1, KindsType
    <3>2. BlocksOn(st, nodes) = a \o BlockOf(top)
      BY <1>2, BlocksTop
    <3> HIDE DEF a, top
    <3> QED
      BY <2>3, <3>1, <3>2
  <2> QED
    BY <2>1, <2>4 DEF NothingOpen
<1> QED
  BY <1>4, <1>6, <1>7

(* At the end the file is accepted exactly if no block is open.            *)
LEMMA FinishImplements ==
  ASSUME NestIInv, BuilderFinish
  PROVE  Implements
<1>1. /\ finished /\ error = "ok" /\ ~built /\ pos = Len(tokens) + 1 /\ nodestack # <<>>
      /\ nodes' = Flushed /\ nodestack' = Below(nodestack, Len(nodestack))
      /\ tokens' = tokens /\ finished' = finished /\ pos' = pos /\ in_target' = in_target
      /\ tokens \in Seq(Token)
  BY DEF BuilderFinish, Building, NestIInv, IInv, TypeOK, TokenizerTypeOK
<1>2. Rooted(nodes')
  BY <1>1, RootedFlushed DEF NestIInv, NestSound, IInv
<1>3. /\ NothingOpen => built' = TRUE /\ error' = "ok"
      /\ ~NothingOpen => error' = "ast_build_failed" /\ ~built'
  BY <1>1 DEF BuilderFinish
<1>4. TargetsBracketed' /\ TargetsSettled' /\ NestSound'
  BY <1>1, <1>2, <1>3 DEF NestIInv, NestSound, TargetsBracketed, TargetsSettled, OpenTarget
<1>5. Verdict = "nesting"
  BY <1>1 DEF Verdict
<1>6. PendingBlocks = <<>>
  <2>1. SubSeq(tokens, pos, Len(tokens)) = <<>>
    BY <1>1
  <2> QED
    BY <1>1, <2>1, LinesOfNone DEF PendingBlocks
<1>7. OpenBlocks = BlocksOn(nodestack, nodes)
  BY <1>1 DEF OpenBlocks
<1>8. CASE NothingOpen
  <2>1. OpenBlocks = <<>> /\ nodestack = <<Root>>
    BY <1>7, <1>8, NothingOpenMeans
  <2>2. OpenBlocks' = <<>>
    <3>1. nodestack' = <<>>
      BY <1>1, <2>1 DEF Below
    <3>2. BlocksOn(<<>>, nodes') = <<>>
      BY DEF BlocksOn, FlattenSeq
    <3>3. OpenBlocks' = BlocksOn(nodestack', nodes')
      BY <1>3, <1>8 DEF OpenBlocks
    <3> QED
      BY <3>1, <3>2, <3>3
  <2>3. PendingBlocks' = <<>>
    BY <1>1, <1>3, <1>6, <1>8 DEF PendingBlocks
  <2>4. Verdict' = "accepted"
    BY <1>3, <1>8 DEF Verdict
  <2>5. Blocks!Decide
    BY <1>5, <1>6, <2>1, <2>2, <2>3, <2>4 DEF Blocks!Decide
  <2> QED
    BY <1>4, <2>5 DEF Implements, Blocks!BlockNext
<1>9. CASE ~NothingOpen
  <2>1. OpenBlocks # <<>>
    BY <1>7, <1>9, NothingOpenMeans
  <2>2. OpenBlocks' = <<>> /\ PendingBlocks' = <<>> /\ Verdict' = "rejected"
    BY <1>3, <1>9 DEF OpenBlocks, PendingBlocks, Verdict
  <2>3. Blocks!Decide
    BY <1>5, <1>6, <2>1, <2>2 DEF Blocks!Decide, Blocks!Reject
  <2> QED
    BY <1>4, <2>3 DEF Implements, Blocks!BlockNext
<1> QED
  BY <1>8, <1>9

(* Reading the file adds the block lines that are pending.                 *)
LEMMA TokenizerImplements ==
  ASSUME NestIInv, TokenizerNext, UNCHANGED builderVars
  PROVE  Implements
<1>1. ~finished /\ error = "ok"
  BY DEF TokenizerNext, FeedNul, FeedContinued, FeedLine, TokenizerFinish, Reading
<1>2. /\ ~built /\ pos = 1 /\ Rooted(nodes) /\ Piled(nodes, nodestack) /\ TargetSeen
      /\ TokenizerTypeOK /\ TargetsBracketed /\ TargetsSettled
  BY <1>1 DEF NestIInv, NestSound, IInv, TypeOK
<1>3. /\ nodes' = nodes /\ nodestack' = nodestack /\ pos' = pos /\ built' = built
  BY DEF builderVars
<1>4. TargetsBracketed'
  BY <1>2, BracketedStep
<1>5. /\ TargetsSettled'
      /\ error' = "ok" => MaybeOneMore(tokens', tokens)
      /\ error' = "ok" \/ ~finished'
  BY <1>2, TokenizerSettled
<1>6. ~TargetOn(nodes, nodestack)
  <2>1. ~Ended /\ ~OpenTarget(pos - 1)
    BY <1>2 DEF Ended, OpenTarget
  <2> QED
    BY <1>2, <2>1 DEF TargetSeen
<1>7. TargetSeen'
  <2>1. ~Ended' /\ ~TargetOn(nodes', nodestack')
    BY <1>2, <1>3, <1>6 DEF Ended
  <2> QED
    BY <2>1 DEF TargetSeen
<1>8. NestSound'
  BY <1>2, <1>3, <1>7 DEF NestSound
<1>9. Verdict = "reading"
  BY <1>1, <1>2 DEF Verdict
<1>10. CASE error' # "ok"
  <2>1. OpenBlocks' = <<>> /\ PendingBlocks' = <<>> /\ Verdict' = "rejected"
    BY <1>2, <1>3, <1>5, <1>10 DEF OpenBlocks, PendingBlocks, Verdict
  <2>2. Blocks!Unreadable
    BY <1>9, <2>1 DEF Blocks!Unreadable, Blocks!Reject
  <2> QED
    BY <1>4, <1>5, <1>8, <2>2 DEF Implements, Blocks!BlockNext
<1>11. CASE error' = "ok"
  <2>1. Verdict' \in {"reading", "nesting"}
    BY <1>2, <1>3, <1>11 DEF Verdict
  <2>2. OpenBlocks' = OpenBlocks
    BY <1>1, <1>3, <1>11 DEF OpenBlocks
  <2>3. PendingBlocks = BlockLinesOf(tokens) /\ PendingBlocks' = BlockLinesOf(tokens')
    <3>1. tokens \in Seq(Token) /\ tokens' \in Seq(Token)
      BY <1>2, TokenizerTypeStep DEF TokenizerTypeOK
    <3>2. SubSeq(tokens, 1, Len(tokens)) = tokens /\ SubSeq(tokens', 1, Len(tokens')) = tokens'
      <4>1. \A s \in Seq(Token) : SubSeq(s, 1, Len(s)) = s
        OBVIOUS
      <4> QED
        BY <3>1, <4>1
    <3>3. PendingBlocks = BlockLinesOf(SubSeq(tokens, 1, Len(tokens)))
      BY <1>1, <1>2 DEF PendingBlocks
    <3>4. PendingBlocks' = BlockLinesOf(SubSeq(tokens', 1, Len(tokens')))
      BY <1>2, <1>3, <1>11 DEF PendingBlocks
    <3> QED
      BY <3>2, <3>3, <3>4
  <2>4. \/ PendingBlocks' = PendingBlocks
        \/ \E line \in Blocks!BlockLines : PendingBlocks' = Append(PendingBlocks, line)
    BY <1>5, <1>11, <2>3 DEF MaybeOneMore
  <2>5. Blocks!Read
    BY <1>9, <2>1, <2>2, <2>4 DEF Blocks!Read
  <2> QED
    BY <1>4, <1>5, <1>8, <2>5 DEF Implements, Blocks!BlockNext
<1> QED
  BY <1>10, <1>11

-----------------------------------------------------------------------------
(* Every step keeps the invariant and implements BlockNesting.             *)
LEMMA NextImplements ==
  ASSUME NestIInv, [Next]_vars
  PROVE  NestIInv' /\ [Blocks!BlockNext]_(Blocks!blockVars)
<1>1. IInv'
  BY NextSafe DEF NestIInv
<1>2. CASE TokenizerNext /\ UNCHANGED builderVars
  BY <1>1, <1>2, TokenizerImplements DEF Implements, NestIInv
<1>3. CASE BuilderStep
  <2>1. ASSUME Comment PROVE Implements
    BY <2>1, CommentImplements
  <2>2. ASSUME Include \/ Expr \/ Variable PROVE Implements
    <3>1. /\ {"include", "expr", "var"} \cap (BlockTokens \cup {"target_end"}) = {}
          /\ {"INCLUDE", "EXPR", "VARIABLE"} \subseteq NodeTypes
      BY SomeNodeTypes DEF BlockTokens
    <3> QED
      BY <2>2, <3>1, LeafImplements DEF Include, Expr, Variable
  <2>3. ASSUME Malformed PROVE Implements
    BY <2>3, MalformedImplements
  <2>4. ASSUME For PROVE Implements
    BY <2>4, ForImplements
  <2>5. ASSUME Endfor PROVE Implements
    BY <2>5, EndforImplements
  <2>6. ASSUME If PROVE Implements
    BY <2>6, IfImplements
  <2>7. ASSUME Elif \/ Else PROVE Implements
    BY <2>7, BranchImplements, SomeNodeTypes DEF Elif, Else
  <2>8. ASSUME Endif PROVE Implements
    BY <2>8, EndifImplements
  <2>9. ASSUME TargetStart PROVE Implements
    BY <2>9, TargetStartImplements
  <2>10. ASSUME TargetEnd PROVE Implements
    BY <2>10, TargetEndImplements
  <2>11. ASSUME TargetCommand \/ NoOpCommand PROVE Implements
    BY <2>11, CommandImplements, SomeNodeTypes DEF TargetCommand, NoOpCommand
  <2>12. ASSUME BuilderFinish PROVE Implements
    BY <2>12, FinishImplements
  <2>13. Implements
    BY <1>3, <2>1, <2>2, <2>3, <2>4, <2>5, <2>6, <2>7, <2>8, <2>9, <2>10, <2>11, <2>12
       DEF BuilderStep
  <2> QED
    BY <1>1, <2>13 DEF Implements, NestIInv
<1>4. CASE UNCHANGED vars
  <2>1. /\ tokens' = tokens /\ finished' = finished /\ error' = error /\ in_target' = in_target
        /\ nodes' = nodes /\ nodestack' = nodestack /\ pos' = pos /\ built' = built
    BY <1>4 DEF vars, tokenizerVars, builderVars
  <2>2. TargetsBracketed' /\ TargetsSettled'
    BY <2>1 DEF NestIInv, TargetsBracketed, TargetsSettled, OpenTarget
  <2>3. NestSound'
    BY <2>1 DEF NestIInv, NestSound, TargetSeen, Ended, OpenTarget
  <2>4. UNCHANGED Blocks!blockVars
    BY <2>1 DEF Blocks!blockVars, PendingBlocks, OpenBlocks, Verdict
  <2> QED
    BY <1>1, <2>2, <2>3, <2>4 DEF NestIInv
<1> QED
  BY <1>2, <1>3, <1>4 DEF Next, Stopped

(* So it is at the start.                                                  *)
LEMMA InitImplements ==
  ASSUME Init
  PROVE  NestIInv /\ Blocks!BlockInit
<1>1. IInv
  BY InitSafe
<1>2. /\ error = "ok" /\ ~finished /\ tokens = <<>> /\ in_target = FALSE
      /\ nodes = <<RootNode>> /\ nodestack = <<Root>> /\ pos = 1 /\ ~built
  BY DEF Init, TokenizerInit
<1>3. TargetsBracketed /\ TargetsSettled
  BY <1>2 DEF TargetsBracketed, TargetsSettled, Settled, OpenTarget
<1>4. RootNode.type = "ROOT" /\ RootNode.parent = Root
  BY DEF RootNode, NewNode
<1> HIDE DEF RootNode
<1>5. NestSound
  <2>1. Rooted(nodes)
    BY <1>2, <1>4 DEF Rooted, Root
  <2>2. Piled(nodes, nodestack)
    BY <1>2 DEF Piled
  <2>3. ~TargetOn(nodes, nodestack) /\ ~Ended
    BY <1>2, <1>4 DEF TargetOn, Ended, Root
  <2> QED
    BY <1>2, <2>1, <2>2, <2>3 DEF NestSound, TargetSeen
<1>6. Blocks!BlockInit
  <2>1. Verdict = "reading"
    BY <1>2 DEF Verdict
  <2>2. PendingBlocks = <<>>
    <3>1. SubSeq(<<>>, 1, Len(<<>>)) = <<>>
      OBVIOUS
    <3> QED
      BY <1>2, <3>1, LinesOfNone DEF PendingBlocks
  <2>3. OpenBlocks = <<>>
    <3>1. <<Root>> \in Seq(Nat) /\ <<Root>> # <<>> /\ Len(<<Root>>) = 1 /\ Peek(<<Root>>) = Root
      BY DEF Root, Peek
    <3>2. BlocksOn(<<Root>>, nodes) = BlocksOn(Below(<<Root>>, 1), nodes) \o BlockOf(nodes[Root])
      BY <3>1, BlocksTop
    <3>3. Below(<<Root>>, 1) = <<>>
      BY DEF Below
    <3>4. BlockOf(nodes[Root]) = <<>>
      <4>1. nodes[Root].type = "ROOT"
        BY <1>2, <1>4 DEF Root
      <4> QED
        BY <4>1, BlockValues, SomeNodeTypes
    <3>5. BlocksOn(<<>>, nodes) = <<>>
      BY DEF BlocksOn, FlattenSeq
    <3>6. BlocksOn(<<Root>>, nodes) = <<>>
      BY <3>2, <3>3, <3>4, <3>5
    <3> QED
      BY <1>2, <3>6 DEF OpenBlocks
  <2> QED
    BY <2>1, <2>2, <2>3 DEF Blocks!BlockInit
<1> QED
  BY <1>1, <1>3, <1>5, <1>6 DEF NestIInv

(* The tokenizer and the builder together take the steps of BlockNesting   *)
(* and no others: whether a file is accepted, and what an .endif or an     *)
(* .endfor closes, depends on its block lines alone, for every input.      *)
THEOREM BlocksAreNested == Spec => BlockNestingImplemented
<1>1. Init => NestIInv /\ Blocks!BlockInit
  BY InitImplements
<1>2. NestIInv /\ [Next]_vars => NestIInv' /\ [Blocks!BlockNext]_(Blocks!blockVars)
  BY NextImplements
<1> QED
  BY <1>1, <1>2, PTL DEF Spec, BlockNestingImplemented, Blocks!BlockSpec

-----------------------------------------------------------------------------
(* s has the numbers of S, the least first.                                *)
Ascends(s, S) ==
  /\ s \in Seq(S)
  /\ Increasing(s)
  /\ \A n \in S : \E i \in DOMAIN s : s[i] = n

(* How many are below a number of a set is told by the number.             *)
LEMMA PlacesGrow ==
  ASSUME NEW N \in Nat, NEW S, S \subseteq 1 .. N, NEW a \in S, NEW b \in S, a < b
  PROVE  Cardinality({m \in S : m < a}) < Cardinality({m \in S : m < b})
<1> DEFINE A == {m \in S : m < a}
           B == {m \in S : m < b}
<1>1. \A m \in S : m \in Nat
  OBVIOUS
<1>2. A \subseteq B /\ a \in B /\ a \notin A /\ B \subseteq 1 .. N
  <2>1. a \in Nat /\ b \in Nat
    BY <1>1
  <2>2. \A m \in S : m < a => m < b
    BY <1>1, <2>1
  <2>3. ~(a < a)
    BY <2>1
  <2> QED
    BY <2>2, <2>3
<1>3. IsFiniteSet(1 .. N)
  BY FS_Interval
<1>4. IsFiniteSet(B)
  BY <1>2, <1>3, FS_Subset
<1> HIDE DEF A, B
<1>5. A # B /\ A \in SUBSET B
  BY <1>2
<1>6. Cardinality(A) < Cardinality(B)
  <2>1. Cardinality(A) <= Cardinality(B) /\ Cardinality(A) # Cardinality(B) /\ IsFiniteSet(A)
    BY <1>4, <1>5, FS_Subset
  <2>2. Cardinality(A) \in Nat /\ Cardinality(B) \in Nat
    BY <1>4, <2>1, FS_CardinalityType
  <2> QED
    BY <2>1, <2>2
<1> QED
  BY <1>6 DEF A, B

(* Every place up to the size of a set is taken by one of its numbers.     *)
LEMMA PlaceTaken ==
  ASSUME NEW N \in Nat, NEW S, S \subseteq 1 .. N, NEW i \in 1 .. Cardinality(S)
  PROVE  \E n \in S : Cardinality({m \in S : m < n}) = i - 1
<1> DEFINE AtMost(n) == {m \in S : m <= n}
           Under(n) == {m \in S : m < n}
           High == {n \in Nat : i <= Cardinality(AtMost(n))}
<1>1. \A m \in S : m \in Nat /\ m <= N /\ m # 0
  OBVIOUS
<1>2. IsFiniteSet(1 .. N)
  BY FS_Interval
<1>3. \A T : T \subseteq S => IsFiniteSet(T) /\ Cardinality(T) \in Nat
  BY <1>2, FS_Subset, FS_CardinalityType
<1>4. /\ \A n \in Nat : AtMost(n) \subseteq S /\ Under(n) \subseteq S
      /\ Cardinality(S) \in Nat /\ i \in Nat /\ 0 < i /\ i <= Cardinality(S)
  BY <1>3
<1>5. AtMost(N) = S /\ AtMost(0) = {}
  <2>1. \A m \in S : m <= N /\ ~(m <= 0)
    BY <1>1
  <2> QED
    BY <2>1
<1>6. N \in High /\ 0 \notin High
  BY <1>4, <1>5, FS_EmptySet
<1>7. PICK n \in High : \A m \in High : ~(m < n)
  <2>1. High \subseteq Nat /\ High # {}
    BY <1>6
  <2> HIDE DEF High
  <2> QED
    BY <2>1, LeastNatural
<1>8. n \in Nat /\ n # 0 /\ n - 1 \in Nat /\ n - 1 < n /\ i <= Cardinality(AtMost(n))
  <2>1. n \in Nat /\ n # 0
    BY <1>6
  <2> QED
    BY <2>1
<1>9. n - 1 \notin High
  BY <1>7, <1>8
<1>10. Under(n) = AtMost(n - 1)
  <2>1. \A m \in S : m < n <=> m <= n - 1
    BY <1>1, <1>8
  <2> QED
    BY <2>1
<1>11. ~(i <= Cardinality(Under(n))) /\ Cardinality(Under(n)) \in Nat
  BY <1>3, <1>4, <1>8, <1>9, <1>10
<1>12. n \in S
  <2>1. n \notin S => AtMost(n) = Under(n)
    <3>1. n \notin S => \A m \in S : m < n <=> m <= n
      BY <1>1, <1>8
    <3> QED
      BY <3>1
  <2> HIDE DEF AtMost, Under
  <2> QED
    BY <1>8, <1>11, <2>1
<1>13. AtMost(n) = Under(n) \cup {n} /\ n \notin Under(n)
  <2>1. (\A m \in S : m <= n <=> m < n \/ m = n) /\ ~(n < n)
    BY <1>1, <1>8
  <2> QED
    BY <1>12, <2>1
<1>14. Cardinality(AtMost(n)) = Cardinality(Under(n)) + 1
  <2>1. IsFiniteSet(Under(n))
    BY <1>3, <1>4, <1>8
  <2> HIDE DEF AtMost, Under
  <2> QED
    BY <1>13, <2>1, FS_AddElement
<1>15. Cardinality(Under(n)) = i - 1
  <2> HIDE DEF AtMost, Under
  <2> QED
    BY <1>4, <1>8, <1>11, <1>14
<1> QED
  BY <1>12, <1>15

LEMMA AscendingAscends ==
  ASSUME NEW N \in Nat, NEW S, S \subseteq 1 .. N
  PROVE  Ascends(Ascending(S), S)
<1> DEFINE place(n) == Cardinality({m \in S : m < n})
           s == Ascending(S)
           c == Cardinality(S)
<1>0. IsFiniteSet(S) /\ S \subseteq Nat
  <2>1. IsFiniteSet(1 .. N) /\ S \in SUBSET (1 .. N)
    BY FS_Interval
  <2>2. IsFiniteSet(S)
    BY <2>1, FS_Subset
  <2>3. S \subseteq Nat
    OBVIOUS
  <2> QED
    BY <2>2, <2>3
<1>1. c \in Nat
  BY <1>0, FS_CardinalityType
<1>2. \A i \in 1 .. c : s[i] \in S /\ place(s[i]) = i - 1
  <2> TAKE i \in 1 .. c
  <2>1. s[i] = CHOOSE n \in S : Cardinality({m \in S : m < n}) = i - 1
    BY Zenon DEF Ascending
  <2>2. \E n \in S : place(n) = i - 1
    BY PlaceTaken
  <2> QED
    BY <2>1, <2>2
<1>3. s = [i \in 1 .. c |-> s[i]]
  <2> DEFINE at(i) == CHOOSE n \in S : Cardinality({m \in S : m < n}) = i - 1
             f == [i \in 1 .. c |-> at(i)]
  <2>1. s = f
    BY DEF Ascending
  <2> HIDE DEF at
  <2>2. f = [i \in 1 .. c |-> f[i]]
    OBVIOUS
  <2> HIDE DEF f, s
  <2> QED
    BY <2>1, <2>2
<1> HIDE DEF s, c
<1>4. s \in Seq(S) /\ Len(s) = c /\ DOMAIN s = 1 .. c
  BY <1>1, <1>2, <1>3, FunctionSeq
<1>5. \A a, b \in S : a < b => place(a) < place(b)
  BY PlacesGrow
<1>6. \A n \in S : place(n) \in Nat /\ place(n) < c /\ n \in Nat
  <2> TAKE n \in S
  <2> DEFINE A == {m \in S : m < n}
  <2>1. n \in Nat
    OBVIOUS
  <2>2. A \subseteq S /\ n \notin A
    BY <2>1
  <2> HIDE DEF A
  <2>3. A \in SUBSET S /\ A # S
    BY <2>2
  <2>4. Cardinality(A) \in Nat /\ Cardinality(A) < Cardinality(S)
    <3>1. IsFiniteSet(A) /\ Cardinality(A) <= Cardinality(S) /\ Cardinality(A) # Cardinality(S)
      BY <1>0, <2>3, FS_Subset
    <3>2. Cardinality(A) \in Nat /\ Cardinality(S) \in Nat
      BY <1>0, <3>1, FS_CardinalityType
    <3> QED
      BY <3>1, <3>2
  <2> QED
    BY <2>1, <2>4 DEF A, c
<1> HIDE DEF place
<1>7. Increasing(s)
  <2> SUFFICES ASSUME NEW i \in DOMAIN s, NEW j \in DOMAIN s, i < j
               PROVE  s[i] < s[j]
    BY DEF Increasing
  <2>1. /\ s[i] \in S /\ s[j] \in S /\ place(s[i]) = i - 1 /\ place(s[j]) = j - 1
        /\ s[i] \in Nat /\ s[j] \in Nat /\ i \in Nat /\ j \in Nat
    <3>1. i \in 1 .. c /\ j \in 1 .. c
      BY <1>4
    <3>2. s[i] \in S /\ s[j] \in S /\ place(s[i]) = i - 1 /\ place(s[j]) = j - 1
      BY <1>2, <3>1
    <3>3. s[i] \in Nat /\ s[j] \in Nat
      BY <1>0, <3>2
    <3>4. i \in Nat /\ j \in Nat
      BY <1>1, <3>1
    <3> QED
      BY <3>2, <3>3, <3>4
  <2>2. ~(s[j] < s[i])
    <3>1. s[j] < s[i] => j - 1 < i - 1
      BY <1>5, <2>1
    <3> QED
      BY <2>1, <3>1
  <2>3. s[i] # s[j]
    BY <2>1
  <2> QED
    BY <2>1, <2>2, <2>3
<1>8. ASSUME NEW n \in S
      PROVE  \E i \in DOMAIN s : s[i] = n
  <2> DEFINE i == place(n) + 1
  <2>1. i \in 1 .. c /\ place(n) \in Nat
    BY <1>1, <1>6
  <2>2. s[i] \in S /\ place(s[i]) = place(n)
    BY <1>2, <2>1
  <2> HIDE DEF i
  <2>3. ~(s[i] < n) /\ ~(n < s[i])
    <3>1. s[i] < n => place(s[i]) < place(n)
      BY <1>5, <2>2
    <3>2. n < s[i] => place(n) < place(s[i])
      BY <1>5, <2>2
    <3> QED
      BY <2>1, <2>2, <3>1, <3>2
  <2>4. s[i] = n
    <3>1. s[i] \in Nat /\ n \in Nat
      BY <1>0, <2>2
    <3> QED
      BY <2>3, <3>1
  <2> QED
    BY <1>4, <2>1, <2>4
<1> QED
  BY <1>4, <1>7, <1>8 DEF Ascends, s

-----------------------------------------------------------------------------
(* A node between another and its parent hangs in that parent or in        *)
(* something created after it: what was left is not come back to.          *)
Preordered(ns) ==
  \A m, n \in DOMAIN ns :
    ns[n].parent < m /\ m < n => ns[m].parent >= ns[n].parent

(* A branch is behind all of the body of its conditional.                  *)
BranchesLast(ns) ==
  /\ ns[Root].ifparent = NoNode
  /\ \A m \in DOMAIN ns : ns[m].ifparent # NoNode =>
       /\ ns[m].parent = ns[m].ifparent
       /\ ns[ns[m].ifparent].type \in IfTypes
       /\ \A n \in DOMAIN ns :
            ns[n].ifparent = NoNode /\ ns[n].parent = ns[m].parent => n < m

TreeOrdered(ns) == ParentsBelow(ns) /\ Preordered(ns) /\ BranchesLast(ns)

(* The nodes from n to q are n and what is below it.                       *)
Reaches(n, q) ==
  /\ q \in n .. Len(nodes)
  /\ \A m \in (n + 1) .. q : nodes[m].parent >= n
  /\ q < Len(nodes) => nodes[q + 1].parent < n

LastBelow(n) == CHOOSE q \in n .. Len(nodes) : Reaches(n, q)

ChildrenOf(n) == {c \in DOMAIN nodes \ {Root} : nodes[c].parent = n}

(* The numbers from a to b.                                                *)
Stretch(a, b) == [i \in 1 .. (b - a + 1) |-> a + i - 1]

-----------------------------------------------------------------------------
LEMMA StretchType ==
  ASSUME NEW a \in Nat, NEW b \in Nat, a <= b + 1
  PROVE  /\ Stretch(a, b) \in Seq(Nat) /\ Len(Stretch(a, b)) = b - a + 1
         /\ \A i \in 1 .. (b - a + 1) : Stretch(a, b)[i] = a + i - 1
<1>1. b - a + 1 \in Nat
  OBVIOUS
<1>2. \A i \in 1 .. (b - a + 1) : a + i - 1 \in Nat
  OBVIOUS
<1> DEFINE n == b - a + 1
<1> HIDE DEF n
<1>3. [i \in 1 .. n |-> a + i - 1] \in Seq(Nat) /\ Len([i \in 1 .. n |-> a + i - 1]) = n
  BY <1>1, <1>2 DEF n
<1> QED
  BY <1>3 DEF Stretch, n

(* Two stretches are one.                                                  *)
LEMMA StretchesJoin ==
  ASSUME NEW a \in Nat, NEW b \in Nat, NEW c \in Nat, a <= b + 1, b <= c
  PROVE  Stretch(a, b) \o Stretch(b + 1, c) = Stretch(a, c)
<1> DEFINE s == Stretch(a, b)
           t == Stretch(b + 1, c)
           u == Stretch(a, c)
           st == s \o t
<1>1. /\ s \in Seq(Nat) /\ Len(s) = b - a + 1 /\ \A i \in 1 .. (b - a + 1) : s[i] = a + i - 1
  BY StretchType
<1>2. /\ t \in Seq(Nat) /\ Len(t) = c - b /\ \A i \in 1 .. (c - b) : t[i] = b + i
  <2> DEFINE d == b + 1
  <2>1. d \in Nat /\ d <= c + 1 /\ c - d + 1 = c - b
    OBVIOUS
  <2>2. \A i \in 1 .. (c - b) : d + i - 1 = b + i
    OBVIOUS
  <2> HIDE DEF d
  <2>3. /\ Stretch(d, c) \in Seq(Nat) /\ Len(Stretch(d, c)) = c - d + 1
        /\ \A i \in 1 .. (c - d + 1) : Stretch(d, c)[i] = d + i - 1
    BY <2>1, StretchType
  <2> QED
    BY <2>1, <2>2, <2>3 DEF d
<1>3. /\ u \in Seq(Nat) /\ Len(u) = c - a + 1 /\ \A i \in 1 .. (c - a + 1) : u[i] = a + i - 1
  <2>1. a <= c + 1
    OBVIOUS
  <2> QED
    BY <2>1, StretchType
<1> HIDE DEF s, t, u
<1>4. /\ st \in Seq(Nat) /\ Len(st) = Len(s) + Len(t)
      /\ \A i \in 1 .. Len(s) + Len(t) : st[i] = IF i <= Len(s) THEN s[i] ELSE t[i - Len(s)]
  BY <1>1, <1>2, ConcatProperties
<1> HIDE DEF st
<1>5. Len(st) = Len(u) /\ Len(s) + Len(t) = c - a + 1
  BY <1>1, <1>2, <1>3, <1>4
<1>6. ASSUME NEW i \in 1 .. (c - a + 1)
      PROVE  st[i] = u[i]
  <2>1. i \in 1 .. Len(s) + Len(t) /\ u[i] = a + i - 1 /\ i \in Nat
    BY <1>3, <1>5
  <2>2. CASE i <= Len(s)
    <3>1. i \in 1 .. (b - a + 1) /\ st[i] = s[i]
      BY <1>1, <1>4, <2>1, <2>2
    <3> QED
      BY <1>1, <2>1, <3>1
  <2>3. CASE ~(i <= Len(s))
    <3>1. i - Len(s) \in 1 .. (c - b) /\ st[i] = t[i - Len(s)]
      BY <1>1, <1>4, <2>1, <2>3
    <3>2. st[i] = b + (i - Len(s))
      BY <1>2, <3>1
    <3> QED
      BY <1>1, <2>1, <3>2
  <2> QED
    BY <2>2, <2>3
<1>7. st = u
  <2>1. \A i \in 1 .. Len(st) : st[i] = u[i]
    BY <1>3, <1>5, <1>6
  <2> QED
    BY <1>3, <1>4, <1>5, <2>1, SeqEqual
<1> QED
  BY <1>7 DEF st, s, t, u

(* Every node reaches to some last one.                                    *)
LEMMA LastBelowIs ==
  ASSUME nodes \in Seq(Node), NEW n \in DOMAIN nodes
  PROVE  Reaches(n, LastBelow(n))
<1> DEFINE size == Len(nodes)
           Stops == {q \in n .. size : q < size => nodes[q + 1].parent < n}
<1>1. size \in Nat /\ DOMAIN nodes = 1 .. size /\ n \in Nat /\ n <= size
  OBVIOUS
<1>2. size \in Stops
  BY <1>1
<1>3. PICK q \in Stops : \A m \in Stops : ~(m < q)
  <2>1. Stops \subseteq Nat /\ Stops # {}
    BY <1>1, <1>2
  <2> HIDE DEF Stops
  <2> QED
    BY <2>1, LeastNatural
<1>4. ASSUME NEW m \in (n + 1) .. q
      PROVE  nodes[m].parent >= n
  <2>1. m \in Nat /\ m - 1 \in n .. size /\ m - 1 < size /\ m - 1 < q /\ (m - 1) + 1 = m
    BY <1>1, <1>3
  <2>2. m - 1 \notin Stops
    BY <1>3, <2>1
  <2>3. ~(nodes[m].parent < n)
    BY <2>1, <2>2
  <2>4. nodes[m] \in Node
    BY <1>1, <2>1, <1>3
  <2>5. nodes[m].parent \in Nat
    BY <2>4 DEF Node
  <2> QED
    BY <1>1, <2>3, <2>5
<1>5. Reaches(n, q)
  BY <1>3, <1>4 DEF Reaches
<1>6. \E r \in n .. Len(nodes) : Reaches(n, r)
  BY <1>5 DEF Reaches
<1> QED
  BY <1>6 DEF LastBelow

-----------------------------------------------------------------------------
(* The last node below the first k children of n.                          *)
UpTo(n, ch, k) == IF k = 0 THEN n ELSE LastBelow(ch[k])

(* The children of a node and what is below them follow one another        *)
(* without a gap, and the last of it is the last below the node.           *)
LEMMA ChildrenFollow ==
  ASSUME nodes \in Seq(Node), TreeOrdered(nodes), NEW n \in DOMAIN nodes,
         NEW ch, Ascends(ch, ChildrenOf(n)), NEW k \in 0 .. Len(ch)
  PROVE  /\ UpTo(n, ch, k) \in n .. Len(nodes)
         /\ k < Len(ch) => ch[k + 1] = UpTo(n, ch, k) + 1
         /\ k = Len(ch) => UpTo(n, ch, k) = LastBelow(n)
<1> DEFINE size == Len(nodes)
           last == UpTo(n, ch, k)
           x == last + 1
           q == LastBelow(n)
<1>1. /\ size \in Nat /\ DOMAIN nodes = 1 .. size /\ n \in Nat /\ 1 <= n /\ n <= size
      /\ \A m \in DOMAIN nodes : nodes[m] \in Node /\ m \in Nat
  OBVIOUS
<1>2. \A m \in DOMAIN nodes : nodes[m].parent \in Nat
  BY <1>1 DEF Node
<1>3. /\ ch \in Seq(ChildrenOf(n)) /\ Len(ch) \in Nat /\ DOMAIN ch = 1 .. Len(ch)
      /\ k \in Nat /\ k <= Len(ch)
  BY DEF Ascends
<1>4. ASSUME NEW i \in DOMAIN ch
      PROVE  ch[i] \in DOMAIN nodes /\ ch[i] # Root /\ nodes[ch[i]].parent = n /\ ch[i] \in Nat /\ n < ch[i]
  <2>1. ch[i] \in ChildrenOf(n)
    BY <1>3
  <2>2. ch[i] \in DOMAIN nodes \ {Root} /\ nodes[ch[i]].parent = n
    BY <2>1 DEF ChildrenOf
  <2>3. n \in 1 .. (ch[i] - 1)
    BY <2>2 DEF TreeOrdered, ParentsBelow
  <2> QED
    BY <1>1, <2>2, <2>3
<1>5. ASSUME NEW c \in DOMAIN nodes \ {Root}, nodes[c].parent = n
      PROVE  \E i \in DOMAIN ch : ch[i] = c
  BY <1>5 DEF Ascends, ChildrenOf
<1>6. \A m \in DOMAIN nodes :
        /\ LastBelow(m) \in m .. size
        /\ \A j \in (m + 1) .. LastBelow(m) : nodes[j].parent >= m
        /\ LastBelow(m) < size => nodes[LastBelow(m) + 1].parent < m
  BY LastBelowIs DEF Reaches
<1>7. /\ k = 0 => last = n
      /\ k # 0 => k \in DOMAIN ch /\ last = LastBelow(ch[k])
  BY <1>3 DEF UpTo
<1> HIDE DEF last, size, q
<1>8. last \in n .. size /\ last \in Nat /\ x \in Nat
  <2>1. CASE k = 0
    BY <1>1, <1>7, <2>1
  <2>2. CASE k # 0
    <3>1. n < ch[k] /\ ch[k] \in DOMAIN nodes /\ ch[k] \in Nat
      BY <1>4, <1>7, <2>2
    <3>2. last \in ch[k] .. size
      BY <1>6, <1>7, <2>2, <3>1
    <3> QED
      BY <1>1, <3>1, <3>2
  <2> QED
    BY <2>1, <2>2
(* Nothing that is not behind last is left out.                            *)
<1>9. ASSUME x <= size, nodes[x].parent >= n
      PROVE  nodes[x].parent = n /\ x \in DOMAIN nodes \ {Root}
  <2>1. x \in DOMAIN nodes /\ x # Root /\ x \in Nat
    BY <1>1, <1>8, <1>9 DEF Root
  <2>2. nodes[x].parent \in Nat /\ nodes[x].parent < x
    <3>1. nodes[x].parent \in 1 .. (x - 1)
      BY <2>1 DEF TreeOrdered, ParentsBelow
    <3> QED
      BY <2>1, <3>1
  <2>3. CASE k = 0
    BY <1>1, <1>7, <1>9, <2>1, <2>2, <2>3
  <2>4. CASE k # 0
    <3> DEFINE c == ch[k]
    <3>1. c \in DOMAIN nodes /\ c \in Nat /\ nodes[c].parent = n /\ last \in c .. size /\ c < x
      BY <1>1, <1>4, <1>6, <1>7, <2>4
    <3>2. nodes[x].parent < c
      <4>1. last = LastBelow(c) /\ last < size /\ last + 1 = x
        BY <1>1, <1>7, <1>8, <1>9, <2>4
      <4> QED
        BY <1>6, <3>1, <4>1
    <3>3. nodes[c].parent >= nodes[x].parent
      BY <2>1, <3>1, <3>2 DEF TreeOrdered, Preordered
    <3> QED
      BY <1>1, <1>9, <2>1, <2>2, <3>1, <3>3
  <2> QED
    BY <2>3, <2>4
<1>10. ASSUME NEW m \in (n + 1) .. last
       PROVE  nodes[m].parent >= n
  <2>1. k # 0
    BY <1>1, <1>7, <1>10
  <2> DEFINE c == ch[k]
  <2>2. c \in DOMAIN nodes /\ c \in Nat /\ nodes[c].parent = n /\ n < c /\ last = LastBelow(c)
    BY <1>4, <1>7, <2>1
  <2>3. m \in DOMAIN nodes /\ m \in Nat /\ nodes[m].parent \in Nat
    BY <1>1, <1>2, <1>8
  <2> HIDE DEF c
  <2>4. CASE m < c
    <3>1. nodes[c].parent < m
      BY <1>1, <1>10, <2>2, <2>3
    <3>2. nodes[m].parent >= nodes[c].parent
      BY <2>2, <2>3, <2>4, <3>1 DEF TreeOrdered, Preordered
    <3> QED
      BY <2>2, <3>2
  <2>5. CASE m = c
    BY <1>1, <2>2, <2>5
  <2>6. CASE m > c
    <3>1. m \in (c + 1) .. LastBelow(c)
      BY <1>8, <2>2, <2>3, <2>6
    <3>2. nodes[m].parent >= c
      BY <1>6, <2>2, <3>1
    <3> QED
      BY <1>1, <2>2, <2>3, <3>2
  <2> QED
    BY <2>2, <2>3, <2>4, <2>5, <2>6
(* A child that is behind last is one of those after the k-th.             *)
<1>11. ASSUME NEW i \in DOMAIN ch, ch[i] > last
       PROVE  i > k
  <2>1. CASE k = 0
    BY <1>3, <2>1
  <2>2. CASE k # 0
    <3>1. k \in DOMAIN ch /\ last >= ch[k] /\ ch[k] \in Nat /\ ch[i] \in Nat
      BY <1>4, <1>6, <1>7, <1>8, <2>2
    <3>2. i < k => ch[i] < ch[k]
      BY <3>1 DEF Ascends, Increasing
    <3>3. ch[i] > ch[k]
      BY <1>8, <1>11, <3>1
    <3> QED
      BY <1>3, <3>1, <3>2, <3>3
  <2> QED
    BY <2>1, <2>2
<1>12. ASSUME k < Len(ch)
       PROVE  ch[k + 1] = x
  <2> DEFINE d == ch[k + 1]
  <2>1. k + 1 \in DOMAIN ch
    BY <1>3, <1>12
  <2>2. d \in DOMAIN nodes /\ d \in Nat /\ nodes[d].parent = n /\ n < d
    BY <1>4, <2>1
  <2>3. d > last
    <3>1. CASE k = 0
      BY <1>7, <2>2, <3>1
    <3>2. CASE k # 0
      <4>1. ch[k] \in DOMAIN nodes /\ ch[k] \in Nat /\ n < ch[k] /\ ch[k] < d /\ last = LastBelow(ch[k])
        <5>1. k \in DOMAIN ch /\ k < k + 1
          BY <1>3, <1>7, <3>2
        <5> QED
          BY <1>4, <1>7, <2>1, <3>2, <5>1 DEF Ascends, Increasing
      <4>2. d <= last => nodes[d].parent >= ch[k]
        <5>1. d <= last => d \in (ch[k] + 1) .. last
          BY <1>8, <2>2, <4>1
        <5> QED
          BY <1>6, <4>1, <5>1
      <4> QED
        BY <1>8, <2>2, <4>1, <4>2
    <3> QED
      BY <3>1, <3>2
  <2> HIDE DEF d
  <2>4. x <= d /\ x <= size /\ x \in DOMAIN nodes /\ n < x
    BY <1>1, <1>8, <2>2, <2>3
  <2>5. nodes[x].parent >= n
    <3>1. x < d => nodes[x].parent >= n
      BY <2>2, <2>4 DEF TreeOrdered, Preordered
    <3>2. x = d => nodes[x].parent >= n
      BY <1>1, <2>2
    <3> QED
      BY <1>8, <2>2, <2>4, <3>1, <3>2
  <2>6. PICK i \in DOMAIN ch : ch[i] = x
    BY <1>5, <1>9, <2>4, <2>5
  <2>7. i > k /\ i \in Nat
    BY <1>3, <1>8, <1>11, <2>6
  <2>8. i > k + 1 => d < x
    BY <2>1, <2>6 DEF Ascends, Increasing, d
  <2> QED
    BY <1>3, <1>8, <2>2, <2>4, <2>6, <2>7, <2>8 DEF d
<1>13. ASSUME k = Len(ch)
       PROVE  last = q
  <2>1. /\ q \in n .. size /\ q \in Nat
        /\ \A j \in (n + 1) .. q : nodes[j].parent >= n
        /\ q < size => nodes[q + 1].parent < n
    BY <1>1, <1>6 DEF q
  <2>2. ~(q < last)
    <3> SUFFICES ASSUME q < last
                 PROVE  FALSE
      OBVIOUS
    <3>1. q + 1 \in (n + 1) .. last /\ q < size /\ q + 1 \in DOMAIN nodes
      BY <1>1, <1>8, <2>1
    <3>2. nodes[q + 1].parent >= n /\ nodes[q + 1].parent < n /\ nodes[q + 1].parent \in Nat
      BY <1>2, <1>10, <2>1, <3>1
    <3> QED
      BY <1>1, <3>2
  <2>3. ~(q > last)
    <3> SUFFICES ASSUME q > last
                 PROVE  FALSE
      OBVIOUS
    <3>1. x \in (n + 1) .. q /\ x <= size
      BY <1>1, <1>8, <2>1
    <3>2. PICK i \in DOMAIN ch : ch[i] = x
      BY <1>5, <1>9, <2>1, <3>1
    <3>3. i > k
      BY <1>8, <1>11, <3>2
    <3> QED
      BY <1>3, <1>13, <3>3
  <2> QED
    BY <1>8, <2>1, <2>2, <2>3
<1> QED
  BY <1>8, <1>12, <1>13 DEF last, size, q

(* Each node with what is below it.                                        *)
Subtrees == [n \in DOMAIN nodes |-> Stretch(n, LastBelow(n))]

LEMMA SubtreesAre ==
  ASSUME nodes \in Seq(Node)
  PROVE  /\ Maps(Subtrees, DOMAIN nodes, Nat)
         /\ \A n \in DOMAIN nodes :
              /\ LastBelow(n) \in n .. Len(nodes) /\ n \in Nat /\ LastBelow(n) \in Nat
              /\ Subtrees[n] = Stretch(n, LastBelow(n))
<1>1. ASSUME NEW n \in DOMAIN nodes
      PROVE  LastBelow(n) \in n .. Len(nodes) /\ n \in Nat /\ LastBelow(n) \in Nat
  <2>1. LastBelow(n) \in n .. Len(nodes) /\ n \in Nat
    BY LastBelowIs DEF Reaches
  <2> QED
    BY <2>1
<1>2. ASSUME NEW n \in DOMAIN nodes
      PROVE  Stretch(n, LastBelow(n)) \in Seq(Nat)
  <2>1. n \in Nat /\ LastBelow(n) \in Nat /\ n <= LastBelow(n) + 1
    BY <1>1
  <2> QED
    BY <2>1, StretchType
<1>3. Subtrees \in [DOMAIN nodes -> Seq(Nat)]
  BY <1>2, Zenon DEF Subtrees
<1>4. \A n \in DOMAIN nodes : Subtrees[n] = Stretch(n, LastBelow(n))
  BY Zenon DEF Subtrees
<1> QED
  BY <1>1, <1>3, <1>4 DEF Maps

(* The subtrees of the first k children, in a row, leave nothing out.      *)
LEMMA ChildrenInRow ==
  ASSUME nodes \in Seq(Node), TreeOrdered(nodes), NEW n \in DOMAIN nodes,
         NEW ch, Ascends(ch, ChildrenOf(n)), NEW k \in 0 .. Len(ch)
  PROVE  Mapped(Subtrees, [i \in 1 .. k |-> ch[i]]) = Stretch(n + 1, UpTo(n, ch, k))
<1> DEFINE P(j) == [i \in 1 .. j |-> ch[i]]
           S == DOMAIN nodes
           K == {j \in Nat : j <= Len(ch) =>
                   Mapped(Subtrees, P(j)) = Stretch(n + 1, UpTo(n, ch, j))}
<1>1. /\ ch \in Seq(S) /\ Len(ch) \in Nat /\ n \in Nat /\ Len(nodes) \in Nat
      /\ Maps(Subtrees, S, Nat) /\ \A i \in 1 .. Len(ch) : ch[i] \in S
  <2>1. ch \in Seq(ChildrenOf(n))
    BY DEF Ascends
  <2>2. ChildrenOf(n) \subseteq S
    BY DEF ChildrenOf
  <2> HIDE DEF S
  <2>3. ch \in Seq(S)
    BY <2>1, <2>2
  <2> QED
    BY <2>3, SubtreesAre DEF S
<1>2. ASSUME NEW j \in Nat, j <= Len(ch)
      PROVE  P(j) \in Seq(S)
  BY <1>1, <1>2
<1>3. 0 \in K
  <2>1. P(0) = <<>>
    OBVIOUS
  <2>2. Mapped(Subtrees, P(0)) = <<>>
    BY <2>1, MappedNone
  <2>3. Stretch(n + 1, UpTo(n, ch, 0)) = <<>>
    <3>1. UpTo(n, ch, 0) = n
      BY DEF UpTo
    <3>2. n - (n + 1) + 1 = 0
      BY <1>1
    <3>3. Stretch(n + 1, n) = <<>>
      BY <3>2 DEF Stretch
    <3> QED
      BY <3>1, <3>3
  <2> QED
    BY <2>2, <2>3
<1>4. ASSUME NEW j \in Nat, j \in K
      PROVE  j + 1 \in K
  <2> SUFFICES ASSUME j + 1 <= Len(ch)
               PROVE  Mapped(Subtrees, P(j + 1)) = Stretch(n + 1, UpTo(n, ch, j + 1))
    OBVIOUS
  <2> DEFINE c == ch[j + 1]
             u == UpTo(n, ch, j)
  <2>1. j \in 0 .. Len(ch) /\ j < Len(ch) /\ j + 1 \in 1 .. Len(ch) /\ j <= Len(ch)
    BY <1>1
  <2>2. Mapped(Subtrees, P(j)) = Stretch(n + 1, u)
    BY <1>4, <2>1
  <2>3. u \in n .. Len(nodes) /\ c = u + 1
    BY <2>1, ChildrenFollow
  <2>4. c \in S /\ P(j) \in Seq(S)
    BY <1>1, <1>2, <2>1
  <2>5. P(j + 1) = Append(P(j), c)
    BY <1>1, <2>1
  <2>6. LastBelow(c) \in Nat /\ c <= LastBelow(c) /\ Subtrees[c] = Stretch(c, LastBelow(c))
    BY <2>4, SubtreesAre
  <2>7. Mapped(Subtrees, Append(P(j), c)) = Mapped(Subtrees, P(j)) \o Subtrees[c]
    <3> HIDE DEF P, c, S
    <3> QED
      BY <1>1, <2>4, MappedAppend
  <2>8. UpTo(n, ch, j + 1) = LastBelow(c)
    <3>1. j + 1 # 0
      OBVIOUS
    <3> QED
      BY <3>1 DEF UpTo
  <2>9. Stretch(n + 1, u) \o Stretch(u + 1, LastBelow(c)) = Stretch(n + 1, LastBelow(c))
    <3>0. n \in Nat /\ u \in n .. Len(nodes) /\ Len(nodes) \in Nat /\ c = u + 1
          /\ LastBelow(c) \in Nat /\ c <= LastBelow(c)
      BY <1>1, <2>3, <2>6
    <3> DEFINE q == LastBelow(c)
    <3> HIDE DEF q, u, c
    <3>1. n + 1 \in Nat /\ u \in Nat /\ q \in Nat /\ n + 1 <= u + 1 /\ u <= q
      BY <3>0 DEF q
    <3> USE DEF q
    <3> HIDE DEF u, c
    <3> DEFINE m == n + 1
    <3> HIDE DEF m
    <3>2. Stretch(m, u) \o Stretch(u + 1, LastBelow(c)) = Stretch(m, LastBelow(c))
      BY <3>1, StretchesJoin DEF m
    <3> QED
      BY <3>2 DEF m
  <2> HIDE DEF P, c, u
  <2> QED
    BY <2>2, <2>3, <2>5, <2>6, <2>7, <2>8, <2>9
<1>5. \A j \in Nat : j \in K
  <2> HIDE DEF K
  <2> QED
    BY <1>3, <1>4, SetInduction
<1> QED
  BY <1>1, <1>5

(* The children of a node are its body and its branches, in that order.    *)
LEMMA ChildrenAre ==
  ASSUME nodes \in Seq(Node), TreeOrdered(nodes), NEW n \in DOMAIN nodes
  PROVE  /\ Body(n) \in Seq(ChildrenOf(n)) /\ Orelse(n) \in Seq(ChildrenOf(n))
         /\ Ascends(Body(n) \o Orelse(n), ChildrenOf(n))
<1> DEFINE B == {c \in DOMAIN nodes \ {Root} : n = nodes[c].parent /\ nodes[c].ifparent = NoNode}
           O == {c \in DOMAIN nodes : nodes[c].ifparent = n}
           b == Body(n)
           o == Orelse(n)
           ch == b \o o
<1>1. DOMAIN nodes = 1 .. Len(nodes) /\ Len(nodes) \in Nat /\ n \in Nat /\ n # NoNode
  BY DEF NoNode
<1>2. b = Ascending(B) /\ o = Ascending(O)
  <2>1. B = {c \in DOMAIN nodes \ {Root} : nodes[c].parent = n /\ nodes[c].ifparent = NoNode}
    OBVIOUS
  <2> HIDE DEF B
  <2> QED
    BY <2>1 DEF Body, Orelse
<1>3. B \subseteq 1 .. Len(nodes) /\ O \subseteq 1 .. Len(nodes)
  BY <1>1
<1>4. \A c \in O : c # Root /\ nodes[c].parent = n
  BY <1>1 DEF TreeOrdered, BranchesLast
<1>5. \A c \in B, d \in O : c < d
  BY <1>1, <1>4 DEF TreeOrdered, BranchesLast
<1>6. \A c \in ChildrenOf(n) : c \in B \/ c \in O
  BY DEF ChildrenOf, TreeOrdered, BranchesLast
<1>7. B \subseteq ChildrenOf(n) /\ O \subseteq ChildrenOf(n)
  BY <1>4 DEF ChildrenOf
<1> HIDE DEF B, O
<1>8. Ascends(Ascending(B), B) /\ Ascends(Ascending(O), O)
  BY <1>1, <1>3, AscendingAscends
<1> HIDE DEF b, o
<1>9. /\ b \in Seq(B) /\ Increasing(b) /\ \A c \in B : \E i \in DOMAIN b : b[i] = c
      /\ o \in Seq(O) /\ Increasing(o) /\ \A c \in O : \E i \in DOMAIN o : o[i] = c
  BY <1>2, <1>8 DEF Ascends
<1>10. b \in Seq(ChildrenOf(n)) /\ o \in Seq(ChildrenOf(n))
  BY <1>7, <1>9
<1>11. /\ DOMAIN b = 1 .. Len(b) /\ Len(b) \in Nat /\ \A i \in DOMAIN b : b[i] \in B
       /\ DOMAIN o = 1 .. Len(o) /\ Len(o) \in Nat /\ \A i \in DOMAIN o : o[i] \in O
  BY <1>9
<1>12. /\ ch \in Seq(ChildrenOf(n)) /\ Len(ch) = Len(b) + Len(o) /\ DOMAIN ch = 1 .. (Len(b) + Len(o))
       /\ \A i \in 1 .. (Len(b) + Len(o)) : ch[i] = IF i <= Len(b) THEN b[i] ELSE o[i - Len(b)]
  BY <1>10, ConcatProperties
<1> HIDE DEF ch
<1>13. Increasing(ch)
  <2> SUFFICES ASSUME NEW i \in DOMAIN ch, NEW j \in DOMAIN ch, i < j
               PROVE  ch[i] < ch[j]
    BY DEF Increasing
  <2>1. i \in Nat /\ j \in Nat /\ i \in 1 .. (Len(b) + Len(o)) /\ j \in 1 .. (Len(b) + Len(o))
    BY <1>11, <1>12
  <2>2. CASE j <= Len(b)
    <3>1. i \in DOMAIN b /\ j \in DOMAIN b /\ i <= Len(b)
      BY <1>11, <2>1, <2>2
    <3>2. ch[i] = b[i] /\ ch[j] = b[j]
      BY <1>12, <2>1, <2>2, <3>1
    <3> QED
      BY <1>9, <3>1, <3>2 DEF Increasing
  <2>3. CASE i <= Len(b) /\ ~(j <= Len(b))
    <3>1. i \in DOMAIN b /\ j - Len(b) \in DOMAIN o
      BY <1>11, <2>1, <2>3
    <3>2. ch[i] = b[i] /\ ch[j] = o[j - Len(b)]
      BY <1>12, <2>1, <2>3
    <3> QED
      BY <1>5, <1>11, <3>1, <3>2
  <2>4. CASE ~(i <= Len(b)) /\ ~(j <= Len(b))
    <3>1. i - Len(b) \in DOMAIN o /\ j - Len(b) \in DOMAIN o /\ i - Len(b) < j - Len(b)
      BY <1>11, <2>1, <2>4
    <3>2. ch[i] = o[i - Len(b)] /\ ch[j] = o[j - Len(b)]
      BY <1>12, <2>1, <2>4
    <3> QED
      BY <1>9, <3>1, <3>2 DEF Increasing
  <2>5. i <= Len(b) \/ ~(j <= Len(b))
    BY <1>11, <2>1
  <2> QED
    BY <2>2, <2>3, <2>4, <2>5
<1>14. ASSUME NEW c \in ChildrenOf(n)
       PROVE  \E i \in DOMAIN ch : ch[i] = c
  <2>1. CASE c \in B
    <3>1. PICK i \in DOMAIN b : b[i] = c
      BY <1>9, <2>1
    <3>2. i \in DOMAIN ch /\ ch[i] = c
      BY <1>11, <1>12, <3>1
    <3> QED
      BY <3>2
  <2>2. CASE c \in O
    <3>1. PICK i \in DOMAIN o : o[i] = c
      BY <1>9, <2>2
    <3> DEFINE k == i + Len(b)
    <3>2. k \in DOMAIN ch /\ ~(k <= Len(b)) /\ k - Len(b) = i
      BY <1>11, <1>12, <3>1
    <3>3. ch[k] = c
      BY <1>12, <3>1, <3>2
    <3> QED
      BY <3>2, <3>3
  <2> QED
    BY <1>6, <2>1, <2>2
<1> QED
  BY <1>10, <1>12, <1>13, <1>14 DEF Ascends, ch, b, o

(* A node, its body and its branches are all that is below it, in order.   *)
LEMMA SubtreeOf ==
  ASSUME nodes \in Seq(Node), TreeOrdered(nodes), NEW n \in DOMAIN nodes
  PROVE  <<n>> \o Mapped(Subtrees, Body(n)) \o Mapped(Subtrees, Orelse(n)) = Subtrees[n]
<1> DEFINE S == DOMAIN nodes
           b == Body(n)
           o == Orelse(n)
           ch == b \o o
           q == LastBelow(n)
<1>1. b \in Seq(ChildrenOf(n)) /\ o \in Seq(ChildrenOf(n)) /\ Ascends(ch, ChildrenOf(n))
  BY ChildrenAre
<1>2. Maps(Subtrees, S, Nat) /\ n \in Nat /\ q \in Nat /\ n <= q /\ Subtrees[n] = Stretch(n, q)
  BY SubtreesAre
<1>3. b \in Seq(S) /\ o \in Seq(S) /\ ch \in Seq(ChildrenOf(n)) /\ Len(ch) \in Nat
  <2>1. ChildrenOf(n) \subseteq S
    BY DEF ChildrenOf
  <2> HIDE DEF b, o, S
  <2> QED
    BY <1>1, <2>1
<1> HIDE DEF b, o, S, q
<1>4. Mapped(Subtrees, ch) = Mapped(Subtrees, b) \o Mapped(Subtrees, o)
  BY <1>2, <1>3, MappedConcat
<1>5. Mapped(Subtrees, b) \in Seq(Nat) /\ Mapped(Subtrees, o) \in Seq(Nat) /\ <<n>> \in Seq(Nat)
  <2>1. Mapped(Subtrees, b) \in Seq(Nat) /\ Mapped(Subtrees, o) \in Seq(Nat)
    BY <1>2, <1>3, MappedType
  <2> QED
    BY <1>2, <2>1
<1> HIDE DEF ch
<1>6. Mapped(Subtrees, ch) = Stretch(n + 1, q)
  <2> DEFINE k == Len(ch)
             P == [i \in 1 .. k |-> ch[i]]
  <2>1. k \in 0 .. Len(ch)
    BY <1>3
  <2>2. P = ch
    BY <1>3
  <2>3. Mapped(Subtrees, P) = Stretch(n + 1, UpTo(n, ch, k))
    BY <1>1, <2>1, ChildrenInRow
  <2>4. UpTo(n, ch, k) = q
    BY <1>1, <2>1, ChildrenFollow DEF q
  <2> HIDE DEF P, k
  <2> QED
    BY <2>2, <2>3, <2>4
<1>7. <<n>> = Stretch(n, n)
  <2>1. n - n + 1 = 1 /\ n + 1 - 1 = n
    BY <1>2
  <2> QED
    BY <2>1 DEF Stretch
<1>8. Stretch(n, n) \o Stretch(n + 1, q) = Stretch(n, q)
  <2>1. n <= n + 1
    BY <1>2
  <2> QED
    BY <1>2, <2>1, StretchesJoin
<1> DEFINE B == Mapped(Subtrees, b)
           O == Mapped(Subtrees, o)
<1> HIDE DEF B, O
<1>9. (<<n>> \o B) \o O = <<n>> \o (B \o O)
  BY <1>5, ConcatInOrder DEF B, O
<1>10. <<n>> \o (B \o O) = Subtrees[n]
  BY <1>2, <1>4, <1>6, <1>7, <1>8 DEF B, O
<1> QED
  BY <1>9, <1>10 DEF B, O, b, o

(* What WalkInSourceOrder chooses.                                         *)
Walks(walk) ==
  walk = [n \in DOMAIN nodes |-> <<n>> \o Mapped(walk, Body(n)) \o Mapped(walk, Orelse(n))]

LEMMA SubtreesWalk ==
  ASSUME nodes \in Seq(Node), TreeOrdered(nodes)
  PROVE  Walks(Subtrees)
<1> DEFINE t == Subtrees
           v == [n \in DOMAIN nodes |-> <<n>> \o Mapped(t, Body(n)) \o Mapped(t, Orelse(n))]
<1>1. \A n \in DOMAIN nodes : <<n>> \o Mapped(t, Body(n)) \o Mapped(t, Orelse(n)) = t[n]
  BY SubtreeOf
<1>2. t = [n \in DOMAIN nodes |-> t[n]]
  <2>1. t \in [DOMAIN nodes -> Seq(Nat)]
    BY SubtreesAre DEF Maps
  <2> HIDE DEF t
  <2> QED
    BY <2>1
<1> HIDE DEF t
<1>3. v = t
  BY <1>1, <1>2
<1> QED
  BY <1>3, Zenon DEF Walks, t, v

(* There is no other walk: from the last node back.                        *)
LEMMA OnlyWalk ==
  ASSUME nodes \in Seq(Node), TreeOrdered(nodes), NEW walk, Walks(walk), NEW n \in DOMAIN nodes
  PROVE  walk[n] = Subtrees[n]
<1> DEFINE size == Len(nodes)
           K == {d \in Nat : \A m \in DOMAIN nodes : size - m <= d => walk[m] = Subtrees[m]}
<1>1. /\ size \in Nat /\ DOMAIN nodes = 1 .. size
      /\ \A m \in DOMAIN nodes : m \in Nat /\ m <= size
  OBVIOUS
<1>2. \A m \in DOMAIN nodes :
        walk[m] = <<m>> \o Mapped(walk, Body(m)) \o Mapped(walk, Orelse(m))
  BY Zenon DEF Walks
<1>3. ASSUME NEW m \in DOMAIN nodes,
             \A c \in DOMAIN nodes : c > m => walk[c] = Subtrees[c]
      PROVE  walk[m] = Subtrees[m]
  <2>1. \A c \in ChildrenOf(m) : walk[c] = Subtrees[c]
    <3> TAKE c \in ChildrenOf(m)
    <3>1. c \in DOMAIN nodes \ {Root} /\ nodes[c].parent = m
      BY DEF ChildrenOf
    <3>2. m \in 1 .. (c - 1)
      BY <3>1 DEF TreeOrdered, ParentsBelow
    <3>3. c > m
      BY <1>1, <3>1, <3>2
    <3> QED
      BY <1>3, <3>1, <3>3
  <2>2. ASSUME NEW s \in Seq(ChildrenOf(m))
        PROVE  Mapped(walk, s) = Mapped(Subtrees, s)
    <3>1. \A k \in DOMAIN s : s[k] \in ChildrenOf(m)
      OBVIOUS
    <3>2. \A k \in DOMAIN s : walk[s[k]] = Subtrees[s[k]]
      BY <2>1, <3>1
    <3> QED
      BY <3>2, MappedSame
  <2>3. Body(m) \in Seq(ChildrenOf(m)) /\ Orelse(m) \in Seq(ChildrenOf(m))
    BY ChildrenAre
  <2>4. /\ Mapped(walk, Body(m)) = Mapped(Subtrees, Body(m))
        /\ Mapped(walk, Orelse(m)) = Mapped(Subtrees, Orelse(m))
    BY <2>2, <2>3
  <2>5. <<m>> \o Mapped(Subtrees, Body(m)) \o Mapped(Subtrees, Orelse(m)) = Subtrees[m]
    BY SubtreeOf
  <2> QED
    BY <1>2, <2>4, <2>5, Zenon
<1>4. 0 \in K
  <2> SUFFICES ASSUME NEW m \in DOMAIN nodes, size - m <= 0
               PROVE  walk[m] = Subtrees[m]
    OBVIOUS
  <2>1. \A c \in DOMAIN nodes : ~(c > m)
    BY <1>1
  <2> QED
    BY <1>3, <2>1
<1>5. ASSUME NEW d \in Nat, d \in K
      PROVE  d + 1 \in K
  <2> SUFFICES ASSUME NEW m \in DOMAIN nodes, size - m <= d + 1
               PROVE  walk[m] = Subtrees[m]
    OBVIOUS
  <2>1. \A c \in DOMAIN nodes : c > m => size - c <= d
    BY <1>1
  <2>2. \A c \in DOMAIN nodes : c > m => walk[c] = Subtrees[c]
    BY <1>5, <2>1
  <2> QED
    BY <1>3, <2>2
<1>6. \A d \in Nat : d \in K
  <2> HIDE DEF K
  <2> QED
    BY <1>4, <1>5, SetInduction
<1>7. size - n \in Nat
  BY <1>1
<1>8. size - n \in K
  <2> HIDE DEF K
  <2> QED
    BY <1>6, <1>7
<1>9. size - n <= size - n
  BY <1>1
<1> QED
  BY <1>8, <1>9

(* All nodes are below the root.                                           *)
LEMMA AllBelowRoot ==
  ASSUME nodes \in Seq(Node), TreeOrdered(nodes)
  PROVE  Root \in DOMAIN nodes /\ Root = 1 /\ LastBelow(Root) = Len(nodes)
<1> DEFINE q == LastBelow(Root)
<1>1. Root \in DOMAIN nodes /\ Root = 1
  BY DEF TreeOrdered, ParentsBelow, Root
<1>2. q \in Root .. Len(nodes) /\ (q < Len(nodes) => nodes[q + 1].parent < Root)
  BY <1>1, LastBelowIs DEF Reaches
<1> HIDE DEF q
<1>3. Len(nodes) \in Nat /\ q \in Nat /\ 1 <= q /\ q <= Len(nodes)
  BY <1>1, <1>2
<1>4. q < Len(nodes) => nodes[q + 1].parent \in 1 .. q
  <2> SUFFICES ASSUME q < Len(nodes)
               PROVE  nodes[q + 1].parent \in 1 .. q
    OBVIOUS
  <2>1. q + 1 \in DOMAIN nodes \ {Root} /\ (q + 1) - 1 = q
    BY <1>1, <1>3
  <2>2. nodes[q + 1].parent \in 1 .. ((q + 1) - 1)
    BY <2>1 DEF TreeOrdered, ParentsBelow
  <2> QED
    BY <2>1, <2>2
<1>5. ~(q < Len(nodes))
  BY <1>1, <1>2, <1>3, <1>4
<1> QED
  BY <1>1, <1>3, <1>5 DEF q

LEMMA WalkIsInOrder ==
  ASSUME nodes \in Seq(Node), TreeOrdered(nodes)
  PROVE  WalkInSourceOrder
<1> DEFINE w == CHOOSE walk : Walks(walk)
           order == [i \in DOMAIN nodes |-> i]
<1>1. WalkInSourceOrder <=> w[Root] = order
  BY Zenon DEF WalkInSourceOrder, Walks, Mapped, Each
<1>2. Walks(w)
  BY SubtreesWalk
<1>3. Root \in DOMAIN nodes /\ Root = 1
  BY DEF TreeOrdered, ParentsBelow, Root
<1> HIDE DEF w
<1>4. w[Root] = Stretch(Root, LastBelow(Root))
  BY <1>2, <1>3, OnlyWalk, SubtreesAre
<1>5. LastBelow(Root) = Len(nodes)
  BY AllBelowRoot
<1>6. Stretch(1, Len(nodes)) = order
  <2>1. Len(nodes) - 1 + 1 = Len(nodes) /\ DOMAIN nodes = 1 .. Len(nodes)
    OBVIOUS
  <2>2. \A i \in 1 .. Len(nodes) : 1 + i - 1 = i
    OBVIOUS
  <2> QED
    BY <2>1, <2>2 DEF Stretch
<1> QED
  BY <1>1, <1>3, <1>4, <1>5, <1>6

(* A node that is appended to p when nothing but what is in p was created  *)
(* after p: to its body, while it has no branch, or as a branch.           *)
LEMMA OrderedAppended ==
  ASSUME NEW ns \in Seq(Node), TreeOrdered(ns), NEW node \in Node, NEW p \in DOMAIN ns,
         node.parent = p, \A n \in DOMAIN ns : n > p => ns[n].parent >= p,
         \/ node.ifparent = NoNode /\ \A m \in DOMAIN ns : ns[m].ifparent # p
         \/ node.ifparent = p /\ ns[p].type \in IfTypes
  PROVE  TreeOrdered(Append(ns, node))
<1> DEFINE ms == Append(ns, node)
           new == Len(ns) + 1
<1>1. /\ DOMAIN ms = 1 .. new /\ DOMAIN ns = 1 .. Len(ns) /\ Len(ns) \in Nat
      /\ ms[new] = node /\ \A n \in DOMAIN ns : ms[n] = ns[n]
  OBVIOUS
<1>2. /\ p \in Nat /\ p < new /\ p # NoNode
      /\ \A n \in DOMAIN ms : n \in Nat /\ (n \in DOMAIN ns \/ n = new)
      /\ \A n \in DOMAIN ns : n < new
  BY <1>1 DEF NoNode
<1>3. Root \in DOMAIN ns /\ Root # new
  BY <1>1 DEF TreeOrdered, ParentsBelow
<1> HIDE DEF ms, new
<1>4. ParentsBelow(ms)
  <2> SUFFICES ASSUME NEW n \in DOMAIN ms \ {Root}
               PROVE  ms[n].parent \in 1 .. (n - 1)
    BY <1>1, <1>3 DEF ParentsBelow, new, Root
  <2>1. CASE n \in DOMAIN ns
    BY <1>1, <2>1 DEF TreeOrdered, ParentsBelow
  <2>2. CASE n = new
    <3>1. p \in 1 .. (new - 1)
      BY <1>1, <1>2 DEF new
    <3> QED
      BY <1>1, <2>2, <3>1
  <2> QED
    BY <1>2, <2>1, <2>2
<1>5. Preordered(ms)
  <2> SUFFICES ASSUME NEW m \in DOMAIN ms, NEW n \in DOMAIN ms, ms[n].parent < m, m < n
               PROVE  ms[m].parent >= ms[n].parent
    BY DEF Preordered
  <2>1. m \in DOMAIN ns
    BY <1>1, <1>2 DEF new
  <2>2. CASE n \in DOMAIN ns
    BY <1>1, <2>1, <2>2 DEF TreeOrdered, Preordered
  <2>3. CASE n = new
    BY <1>1, <1>2, <2>1, <2>3
  <2> QED
    BY <1>2, <2>2, <2>3
<1>6. BranchesLast(ms)
  <2>1. ms[Root].ifparent = NoNode
    BY <1>1, <1>3 DEF TreeOrdered, BranchesLast
  <2>2. ASSUME NEW m \in DOMAIN ns, ns[m].ifparent # NoNode
        PROVE  ns[m].parent = ns[m].ifparent /\ ns[m].ifparent \in DOMAIN ns
    <3>1. ns[m].parent = ns[m].ifparent /\ m # Root
      BY <2>2 DEF TreeOrdered, BranchesLast
    <3>2. ns[m].parent \in 1 .. (m - 1)
      BY <3>1 DEF TreeOrdered, ParentsBelow
    <3> QED
      BY <1>1, <3>1, <3>2
  <2>3. ASSUME NEW m \in DOMAIN ms, ms[m].ifparent # NoNode
        PROVE  ms[m].parent = ms[m].ifparent /\ ms[ms[m].ifparent].type \in IfTypes
    <3>1. CASE m \in DOMAIN ns
      <4>1. ns[m].ifparent # NoNode /\ ms[m] = ns[m]
        BY <1>1, <2>3, <3>1
      <4>2. ns[m].ifparent \in DOMAIN ns /\ ns[m].parent = ns[m].ifparent
        BY <2>2, <3>1, <4>1
      <4>3. ns[ns[m].ifparent].type \in IfTypes
        BY <3>1, <4>1 DEF TreeOrdered, BranchesLast
      <4> QED
        BY <1>1, <4>1, <4>2, <4>3
    <3>2. CASE m = new
      BY <1>1, <2>3, <3>2
    <3> QED
      BY <1>2, <3>1, <3>2
  <2>4. ASSUME NEW m \in DOMAIN ms, ms[m].ifparent # NoNode,
               NEW n \in DOMAIN ms, ms[n].ifparent = NoNode, ms[n].parent = ms[m].parent
        PROVE  n < m
    <3>1. CASE m \in DOMAIN ns /\ n \in DOMAIN ns
      BY <1>1, <2>4, <3>1 DEF TreeOrdered, BranchesLast
    <3>2. CASE m \in DOMAIN ns /\ n = new
      <4>1. ns[m].ifparent # NoNode /\ ns[m].parent = p /\ node.ifparent = NoNode
        BY <1>1, <2>4, <3>2
      <4>2. ns[m].ifparent = p
        BY <2>2, <3>2, <4>1
      <4> QED
        BY <1>2, <3>2, <4>1, <4>2
    <3>3. CASE m = new
      <4>1. n # new
        BY <2>4, <3>3
      <4> QED
        BY <1>2, <3>3, <4>1
    <3> QED
      BY <1>2, <3>1, <3>2, <3>3
  <2> QED
    BY <2>1, <2>3, <2>4 DEF BranchesLast
<1> QED
  BY <1>4, <1>5, <1>6 DEF TreeOrdered, ms

(* The line a block ends on is of no matter.                               *)
LEMMA OrderedLineEnd ==
  ASSUME NEW ns \in Seq(Node), TreeOrdered(ns), NEW c \in DOMAIN ns, NEW range
  PROVE  TreeOrdered([ns EXCEPT ![c].line_end = range])
<1> DEFINE ms == [ns EXCEPT ![c].line_end = range]
<1>1. DOMAIN ms = DOMAIN ns /\ \A n \in DOMAIN ns : n # c => ms[n] = ns[n]
  OBVIOUS
<1>2. ms[c] = [ns[c] EXCEPT !.line_end = range] /\ ns[c] \in Node
  OBVIOUS
<1>3. ms[c].type = ns[c].type /\ ms[c].parent = ns[c].parent /\ ms[c].ifparent = ns[c].ifparent
  BY <1>2 DEF Node
<1> HIDE DEF ms
<1>4. \A n \in DOMAIN ns : /\ ms[n].type = ns[n].type /\ ms[n].parent = ns[n].parent
                           /\ ms[n].ifparent = ns[n].ifparent
  BY <1>1, <1>3
<1>5. ParentsBelow(ms) /\ Preordered(ms)
  BY <1>1, <1>4 DEF TreeOrdered, ParentsBelow, Preordered
<1>6. BranchesLast(ms)
  <2>1. Root \in DOMAIN ns
    BY DEF TreeOrdered, ParentsBelow
  <2>2. \A m \in DOMAIN ns : ns[m].ifparent # NoNode => ns[m].ifparent \in DOMAIN ns
    <3> SUFFICES ASSUME NEW m \in DOMAIN ns, ns[m].ifparent # NoNode
                 PROVE  ns[m].ifparent \in DOMAIN ns
      OBVIOUS
    <3>1. ns[m].parent = ns[m].ifparent /\ m # Root
      BY DEF TreeOrdered, BranchesLast
    <3>2. ns[m].parent \in 1 .. (m - 1)
      BY <3>1 DEF TreeOrdered, ParentsBelow
    <3>3. DOMAIN ns = 1 .. Len(ns) /\ Len(ns) \in Nat
      OBVIOUS
    <3> QED
      BY <3>1, <3>2, <3>3
  <2> QED
    BY <1>1, <1>4, <2>1, <2>2 DEF TreeOrdered, BranchesLast
<1> QED
  BY <1>5, <1>6 DEF TreeOrdered, ms

(* The top of the stack is open and has no branch.                         *)
LEMMA TopIsOpen ==
  ASSUME NEW ns \in Seq(Node), NEW st, NEW is, Stacks(ns, st, is), Links(ns, is),
         StackSpans(ns, st), TreeOrdered(ns)
  PROVE  /\ Peek(st) \in DOMAIN ns
         /\ \A n \in DOMAIN ns : n > Peek(st) => ns[n].parent >= Peek(st)
         /\ \A m \in DOMAIN ns : ns[m].ifparent # Peek(st)
<1> DEFINE top == Len(st)
           p == st[top]
<1>1. /\ st \in Seq(DOMAIN ns) /\ st # <<>> /\ DOMAIN st = 1 .. top /\ top \in Nat /\ top \in DOMAIN st
      /\ p \in DOMAIN ns /\ p \in Nat /\ p # NoNode /\ Peek(st) = p
      /\ \A k \in DOMAIN st : st[k] \in Nat
  <2>1. st \in Seq(DOMAIN ns) /\ st # <<>> /\ DOMAIN ns = 1 .. Len(ns) /\ Len(ns) \in Nat
    BY DEF Stacks
  <2> QED
    BY <2>1 DEF Peek, NoNode
<1>2. Unbroken(ns, st, top)
  BY <1>1 DEF Unbroken
<1>3. \A n \in DOMAIN ns : n > p => ns[n].parent >= p
  BY <1>1, <1>2 DEF StackSpans, OpenSpans
<1>4. ASSUME NEW m \in DOMAIN ns, ns[m].ifparent = p
      PROVE  FALSE
  <2>1. ns[p].type \in IfTypes
    BY <1>1, <1>4 DEF TreeOrdered, BranchesLast
  <2>2. PICK i \in DOMAIN is : is[i] = p
    BY <1>1, <2>1 DEF Stacks
  <2>3. i < Len(is) /\ is[i + 1] = m
    BY <1>4, <2>2 DEF Links
  <2>4. is \in Seq(DOMAIN ns) /\ i \in Nat /\ i + 1 \in DOMAIN is
    BY <2>2, <2>3 DEF Links
  <2>5. PICK j \in DOMAIN st : st[j] = is[i + 1]
    BY <2>4 DEF Stacks
  <2>6. is[i] < is[i + 1]
    BY <2>2, <2>4 DEF Links, Increasing
  <2>7. j < top => st[j] < p
    BY <1>1, <2>5 DEF Stacks, Increasing
  <2>8. j = top \/ j < top
    BY <1>1, <2>5
  <2> QED
    BY <1>1, <2>2, <2>5, <2>6, <2>7, <2>8
<1> QED
  BY <1>1, <1>3, <1>4

(* So is the conditional on top of ifstack.                                *)
LEMMA TopIfIsOpen ==
  ASSUME NEW ns \in Seq(Node), NEW st, NEW is, Stacks(ns, st, is), is # <<>>, StackSpans(ns, st)
  PROVE  /\ Peek(is) \in DOMAIN ns /\ ns[Peek(is)].type \in IfTypes
         /\ \A n \in DOMAIN ns : n > Peek(is) => ns[n].parent >= Peek(is)
<1> DEFINE p == Peek(is)
           last == Len(is)
<1>1. /\ is \in Seq(DOMAIN ns) /\ last \in DOMAIN is /\ p = is[last] /\ p \in DOMAIN ns
      /\ last \in Nat /\ DOMAIN is = 1 .. last
  <2>1. is \in Seq(DOMAIN ns)
    BY DEF Stacks
  <2> QED
    BY <2>1 DEF Peek
<1>2. ns[p].type \in IfTypes
  BY <1>1 DEF Stacks
<1>3. /\ st \in Seq(DOMAIN ns) /\ DOMAIN st = 1 .. Len(st) /\ Len(st) \in Nat
      /\ \A k \in DOMAIN st : st[k] \in Nat
  <2>1. st \in Seq(DOMAIN ns) /\ DOMAIN ns \subseteq Nat
    BY DEF Stacks
  <2> QED
    BY <2>1
<1>4. PICK j \in DOMAIN st : st[j] = p
  BY <1>1 DEF Stacks
<1> HIDE DEF p, last
<1>5. ASSUME NEW k \in (j + 1) .. Len(st)
      PROVE  ns[st[k]].parent >= st[j]
  <2>1. k \in DOMAIN st /\ k - 1 \in DOMAIN st /\ k \in 2 .. Len(st) /\ j < k
    BY <1>3
  <2>2. st[j] < st[k]
    BY <2>1 DEF Stacks, Increasing
  <2>3. ns[st[k]].type \notin IfTypes
    <3> SUFFICES ASSUME NEW i \in DOMAIN is, is[i] = st[k]
                 PROVE  FALSE
      BY <2>1 DEF Stacks
    <3>1. i < last => is[i] < is[last]
      BY <1>1 DEF Stacks, Increasing
    <3>2. i = last \/ i < last
      BY <1>1
    <3>3. st[k] \in Nat /\ st[j] \in Nat
      BY <1>3, <2>1
    <3> QED
      BY <1>1, <1>4, <2>2, <3>1, <3>2, <3>3
  <2>4. ns[st[k]].parent = st[k - 1]
    BY <2>1, <2>3 DEF StackSpans, StackHangs
  <2>5. j < k - 1 => st[j] < st[k - 1]
    BY <2>1 DEF Stacks, Increasing
  <2>6. j = k - 1 \/ j < k - 1
    BY <1>3, <2>1
  <2>7. st[k - 1] \in Nat /\ st[j] \in Nat
    BY <1>3, <2>1
  <2> QED
    BY <2>4, <2>5, <2>6, <2>7
<1>6. \A n \in DOMAIN ns : n > p => ns[n].parent >= p
  BY <1>4, <1>5 DEF StackSpans, OpenSpans, Unbroken
<1> QED
  BY <1>1, <1>2, <1>6 DEF p

(* The pending comments go to what is open.                                *)
LEMMA FlushedOrdered ==
  ASSUME IInv, SpansInv, TreeOrdered(nodes), Building, nodestack # <<>>
  PROVE  TreeOrdered(Flushed)
<1>1. /\ nodes \in Seq(Node) /\ comments \in Seq(LineRange)
      /\ Stacks(nodes, nodestack, ifstack) /\ Links(nodes, ifstack) /\ StackSpans(nodes, nodestack)
  BY DEF IInv, TypeOK, StacksSound, SpansInv, Building
<1>2. CASE comments = <<>>
  BY <1>2 DEF Flushed
<1>3. CASE comments # <<>>
  <2> DEFINE node == CommentNode(Peek(nodestack))
  <2>1. /\ Peek(nodestack) \in DOMAIN nodes
        /\ \A n \in DOMAIN nodes : n > Peek(nodestack) => nodes[n].parent >= Peek(nodestack)
        /\ \A m \in DOMAIN nodes : nodes[m].ifparent # Peek(nodestack)
    BY <1>1, TopIsOpen
  <2>2. Peek(nodestack) \in Nat
    BY <1>1, <2>1
  <2>3. node \in Node /\ node.parent = Peek(nodestack)
    BY <1>1, <1>3, <2>2, CommentNodeIs
  <2>4. Flushed = Append(nodes, node)
    BY <1>3 DEF Flushed
  <2>5. node.ifparent = NoNode
    <3> HIDE DEF node
    <3>1. Grown(Append(nodes, node), nodes)
      BY <2>4, FlushedGrown DEF IInv
    <3>2. Len(nodes) + 1 \in DOMAIN Append(nodes, node) \ DOMAIN nodes /\ Append(nodes, node)[Len(nodes) + 1] = node
      BY <1>1, <2>3
    <3> QED
      BY <3>1, <3>2 DEF Grown
  <2> HIDE DEF node
  <2> QED
    BY <1>1, <2>1, <2>3, <2>4, <2>5, OrderedAppended
<1> QED
  BY <1>2, <1>3

LEMMA TakenOrdered ==
  ASSUME IInv, SpansInv, LinesSound, TreeOrdered(nodes), NEW type, Token1(type)
  PROVE  /\ TreeOrdered(Flushed) /\ Flushed \in Seq(Node) /\ Here \in LineRange
         /\ Stacks(Flushed, nodestack, ifstack) /\ Links(Flushed, ifstack)
         /\ StackSpans(Flushed, nodestack)
<1>1. Building /\ nodestack # <<>>
  BY DEF Token1
<1> QED
  BY <1>1, FlushedOrdered, TokenTaken, SpansTaken

(* A node that is appended to the top of the stack st.                     *)
LEMMA TopOrdered ==
  ASSUME IInv, SpansInv, LinesSound, TreeOrdered(nodes), NEW tokentype, Token1(tokentype),
         NEW st, Stacks(Flushed, st, ifstack), StackSpans(Flushed, st), NEW type \in NodeTypes,
         nodes' = Append(Flushed, NewNode(type, Peek(st), NoNode, Here))
  PROVE  TreeOrdered(nodes')
<1> DEFINE node == NewNode(type, Peek(st), NoNode, Here)
<1>1. /\ TreeOrdered(Flushed) /\ Flushed \in Seq(Node) /\ Here \in LineRange /\ Links(Flushed, ifstack)
  BY TakenOrdered
<1>2. /\ Peek(st) \in DOMAIN Flushed
      /\ \A n \in DOMAIN Flushed : n > Peek(st) => Flushed[n].parent >= Peek(st)
      /\ \A m \in DOMAIN Flushed : Flushed[m].ifparent # Peek(st)
  BY <1>1, TopIsOpen
<1>3. Peek(st) \in Nat /\ NoNode \in Nat
  BY <1>1, <1>2 DEF NoNode
<1>4. node \in Node /\ node.parent = Peek(st) /\ node.ifparent = NoNode
  BY <1>1, <1>3, NewNodeIs
<1> HIDE DEF node
<1>5. TreeOrdered(Append(Flushed, node))
  BY <1>1, <1>2, <1>4, OrderedAppended
<1> QED
  BY <1>5 DEF node

(* .elif and .else are the last of their conditional.                      *)
LEMMA BranchOrdered ==
  ASSUME IInv, SpansInv, LinesSound, TreeOrdered(nodes), NEW tokentype, NEW type \in IfTypes,
         Branch(tokentype, type)
  PROVE  TreeOrdered(nodes')
<1>1. Token1(tokentype) /\ type \in NodeTypes
  BY SomeNodeTypes DEF Branch
<1>2. /\ TreeOrdered(Flushed) /\ Flushed \in Seq(Node) /\ Here \in LineRange
      /\ Stacks(Flushed, nodestack, ifstack) /\ StackSpans(Flushed, nodestack)
  BY <1>1, TakenOrdered
<1>3. CASE ifstack = <<>>
  <2>1. nodes' = Append(Flushed, NewNode(type, Peek(nodestack), NoNode, Here))
    BY <1>3 DEF Branch, PushIf
  <2> QED
    BY <1>1, <1>2, <2>1, TopOrdered
<1>4. CASE ifstack # <<>>
  <2> DEFINE p == Peek(ifstack)
             node == NewNode(type, p, p, Here)
  <2>1. nodes' = Append(Flushed, node)
    BY <1>4 DEF Branch, PushIf
  <2>2. /\ p \in DOMAIN Flushed /\ Flushed[p].type \in IfTypes
        /\ \A n \in DOMAIN Flushed : n > p => Flushed[n].parent >= p
    BY <1>2, <1>4, TopIfIsOpen
  <2> HIDE DEF p
  <2>3. p \in Nat
    BY <1>2, <2>2
  <2>4. node \in Node /\ node.parent = p /\ node.ifparent = p
    BY <1>1, <1>2, <2>3, NewNodeIs
  <2> HIDE DEF node
  <2>5. TreeOrdered(Append(Flushed, node))
    BY <1>2, <2>2, <2>4, OrderedAppended
  <2> QED
    BY <2>1, <2>5
<1> QED
  BY <1>3, <1>4

(* A command that brings its own target brings it to the top of the stack. *)
LEMMA CommandOrdered ==
  ASSUME IInv, SpansInv, LinesSound, TreeOrdered(nodes), NEW tokentype, NEW type \in NodeTypes,
         Command(tokentype, type)
  PROVE  TreeOrdered(nodes')
<1>1. Token1(tokentype)
  BY DEF Command
<1>2. /\ TreeOrdered(Flushed) /\ Flushed \in Seq(Node) /\ Here \in LineRange
      /\ Stacks(Flushed, nodestack, ifstack) /\ Links(Flushed, ifstack)
      /\ StackSpans(Flushed, nodestack)
  BY <1>1, TakenOrdered
<1>3. CASE HasTarget[Peek(nodestack)]
  <2>1. nodes' = Append(Flushed, NewNode(type, Peek(nodestack), NoNode, Here))
    BY <1>3 DEF Command
  <2> QED
    BY <1>1, <1>2, <2>1, TopOrdered
<1>4. CASE ~HasTarget[Peek(nodestack)]
  <2> DEFINE p == Peek(nodestack)
             new == Next1(Flushed)
             target == NewNode("TARGET", p, NoNode, Here)
             command == NewNode(type, new, NoNode, Here)
             ns == Append(Flushed, target)
  <2>1. nodes' = Flushed \o <<target, command>>
    BY <1>4 DEF Command
  <2>2. /\ p \in DOMAIN Flushed
        /\ \A n \in DOMAIN Flushed : n > p => Flushed[n].parent >= p
        /\ \A m \in DOMAIN Flushed : Flushed[m].ifparent # p
    BY <1>2, TopIsOpen
  <2> HIDE DEF p
  <2>3. p \in Nat /\ new = Len(Flushed) + 1 /\ new \in Nat /\ NoNode \in Nat /\ "TARGET" \in NodeTypes
    BY <1>2, <2>2, SomeNodeTypes DEF Next1, NoNode
  <2> HIDE DEF new
  <2>4. /\ target \in Node /\ target.parent = p /\ target.ifparent = NoNode
        /\ command \in Node /\ command.parent = new /\ command.ifparent = NoNode
    <3>0. p \in Nat /\ new \in Nat /\ NoNode \in Nat /\ "TARGET" \in NodeTypes /\ Here \in LineRange
      BY <1>2, <2>3
    <3>1. target \in Node /\ target.parent = p /\ target.ifparent = NoNode
      BY <3>0, NewNodeIs
    <3>2. command \in Node /\ command.parent = new /\ command.ifparent = NoNode
      BY <3>0, NewNodeIs
    <3> QED
      BY <3>1, <3>2
  <2> HIDE DEF target, command
  <2>5. TreeOrdered(ns)
    BY <1>2, <2>2, <2>4, OrderedAppended
  <2>6. nodes' = Append(ns, command)
    BY <1>2, <2>1, <2>4
  <2>7. /\ ns \in Seq(Node) /\ DOMAIN ns = 1 .. new /\ new \in DOMAIN ns /\ ns[new] = target
        /\ \A n \in DOMAIN ns : ~(n > new)
        /\ \A n \in DOMAIN ns : n = new \/ (n \in DOMAIN Flushed /\ ns[n] = Flushed[n])
    BY <1>2, <2>3, <2>4
  <2>8. \A m \in DOMAIN ns : ns[m].ifparent # new
    <3>1. new # NoNode /\ new \notin 0 .. Len(Flushed)
      BY <1>2, <2>3 DEF NoNode
    <3>2. \A m \in DOMAIN Flushed : Flushed[m].ifparent \in 0 .. Len(Flushed)
      BY <1>2 DEF Links
    <3> QED
      BY <2>4, <2>7, <3>1, <3>2
  <2> HIDE DEF ns
  <2>9. TreeOrdered(Append(ns, command))
    BY <2>4, <2>5, <2>7, <2>8, OrderedAppended
  <2> QED
    BY <2>6, <2>9
<1> QED
  BY <1>3, <1>4

LEMMA ClosedOrdered ==
  ASSUME IInv, SpansInv, LinesSound, TreeOrdered(nodes), Endfor \/ Endif
  PROVE  TreeOrdered(nodes')
<1>1. PICK type : Token1(type)
  BY DEF Endfor, Endif
<1>2. TreeOrdered(Flushed) /\ Flushed \in Seq(Node) /\ Stacks(Flushed, nodestack, ifstack)
  BY <1>1, TakenOrdered
<1>3. \A c \in DOMAIN Flushed : TreeOrdered([Flushed EXCEPT ![c].line_end = Here])
  BY <1>2, OrderedLineEnd
<1>4. CASE nodes' = nodes
  BY <1>4
<1>5. CASE Endfor /\ nodes' # nodes
  <2> DEFINE top == Len(nodestack)
             depth == IF nodes[Peek(nodestack)].type = "TARGET" THEN top - 1 ELSE top
  <2>1. nodes[nodestack[depth]].type = "FOR" /\ nodes' = [Flushed EXCEPT ![nodestack[depth]].line_end = Here]
    BY <1>5 DEF Endfor, Fail
  <2>2. depth \in DOMAIN nodestack
    <3>1. /\ nodestack \in Seq(DOMAIN Flushed) /\ nodestack # <<>> /\ nodestack[1] = Root
          /\ nodes[Root].type = "ROOT" /\ Peek(nodestack) = nodestack[top]
      BY <1>1, <1>2, TokenTaken DEF Stacks, Peek
    <3>2. top = 1 => depth = 1
      BY <3>1
    <3> QED
      BY <3>1, <3>2
  <2>3. nodestack[depth] \in DOMAIN Flushed
    BY <1>2, <2>2 DEF Stacks
  <2> HIDE DEF depth
  <2> QED
    BY <1>3, <2>1, <2>3
<1>6. CASE Endif /\ nodes' # nodes
  <2>1. PICK i \in DOMAIN ifstack : nodes' = [Flushed EXCEPT ![ifstack[i]].line_end = Here]
    BY <1>6 DEF Endif, Fail
  <2>2. ifstack[i] \in DOMAIN Flushed
    BY <1>2 DEF Stacks
  <2> QED
    BY <1>3, <2>1, <2>2
<1> QED
  BY <1>4, <1>5, <1>6

LEMMA BuilderOrdered ==
  ASSUME IInv, SpansInv, LinesSound, TreeOrdered(nodes), BuilderStep
  PROVE  TreeOrdered(nodes')
<1>1. CASE Comment \/ Malformed
  BY <1>1 DEF Comment, Malformed, Fail
<1>2. CASE Include \/ Expr \/ Variable \/ For \/ If
  <2> DEFINE Adds(tokentype, type) ==
               /\ Token1(tokentype)
               /\ nodes' = Append(Flushed, NewNode(type, Peek(nodestack), NoNode, Here))
  <2>1. \/ Adds("include", "INCLUDE") \/ Adds("expr", "EXPR") \/ Adds("var", "VARIABLE")
        \/ Adds("for", "FOR") \/ Adds("if", "IF")
    BY <1>2, Zenon DEF Include, Expr, Variable, Leaf, For, If, PushIf
  <2>2. ASSUME NEW tokentype, NEW type \in NodeTypes, Adds(tokentype, type)
        PROVE  TreeOrdered(nodes')
    <3>1. Token1(tokentype)
      BY <2>2
    <3>2. Stacks(Flushed, nodestack, ifstack) /\ StackSpans(Flushed, nodestack)
      BY <3>1, TakenOrdered
    <3> QED
      BY <2>2, <3>1, <3>2, TopOrdered
  <2> HIDE DEF Adds
  <2> QED
    BY <2>1, <2>2, SomeNodeTypes
<1>3. CASE Elif \/ Else
  <2>1. "IF" \in IfTypes /\ "ELSE" \in IfTypes
    BY DEF IfTypes
  <2> QED
    BY <1>3, <2>1, BranchOrdered DEF Elif, Else
<1>4. CASE Endfor \/ Endif
  BY <1>4, ClosedOrdered
<1>5. CASE TargetStart
  <2>1. /\ Token1("target_start") /\ "TARGET" \in NodeTypes
        /\ nodes' = Append(Flushed, NewNode("TARGET", Peek(WithoutTarget), NoNode, Here))
    BY <1>5, SomeNodeTypes DEF TargetStart
  <2>2. Stacks(Flushed, WithoutTarget, ifstack) /\ StackSpans(Flushed, WithoutTarget)
    BY <2>1, WithoutTargetSound, WithoutTargetSpans
  <2> QED
    BY <2>1, <2>2, TopOrdered
<1>6. CASE TargetEnd
  <2>1. Token1("target_end") /\ nodes' = Flushed
    BY <1>6 DEF TargetEnd
  <2> QED
    BY <2>1, TakenOrdered
<1>7. CASE TargetCommand \/ NoOpCommand
  <2>1. "COMMAND" \in NodeTypes /\ "NO_OP_COMMAND" \in NodeTypes
    BY SomeNodeTypes
  <2> QED
    BY <1>7, <2>1, CommandOrdered DEF TargetCommand, NoOpCommand
<1>8. CASE BuilderFinish
  <2>1. Building /\ nodestack # <<>> /\ nodes' = Flushed
    BY <1>8 DEF BuilderFinish
  <2> QED
    BY <2>1, FlushedOrdered
<1> QED
  BY <1>1, <1>2, <1>3, <1>4, <1>5, <1>6, <1>7, <1>8 DEF BuilderStep

(* What was created in between is below: the tree is in the order of the   *)
(* file.                                                                   *)
THEOREM TreeStaysOrdered == Spec => [](IInv /\ LinesSound /\ SpansInv /\ TreeOrdered(nodes))
<1> DEFINE Inv == TreeOrdered(nodes)
<1>1. Init => Inv
  <2> SUFFICES ASSUME Init
               PROVE  TreeOrdered(nodes)
    OBVIOUS
  <2>1. DOMAIN nodes = {1} /\ nodes[1].ifparent = NoNode /\ Root = 1
    BY DEF Init, RootNode, NewNode, Root
  <2> QED
    BY <2>1 DEF TreeOrdered, ParentsBelow, Preordered, BranchesLast
<1>2. IInv /\ LinesSound /\ SpansInv /\ Inv /\ [Next]_vars => Inv'
  <2> SUFFICES ASSUME IInv, LinesSound, SpansInv, TreeOrdered(nodes), [Next]_vars
               PROVE  TreeOrdered(nodes')
    OBVIOUS
  <2>1. CASE BuilderStep
    BY <2>1, BuilderOrdered
  <2>2. CASE UNCHANGED nodes
    BY <2>2
  <2> QED
    BY <2>1, <2>2 DEF Next, Stopped, vars, builderVars
<1> QED
  BY <1>1, <1>2, SpansStaySound, PTL DEF Spec

(* Walking the tree, body before alternatives, meets the nodes in the      *)
(* order they were read, whatever was opened and closed in between.        *)
THEOREM WalkKeepsSourceOrder == Spec => []WalkInSourceOrder
<1>1. IInv /\ TreeOrdered(nodes) => WalkInSourceOrder
  BY WalkIsInOrder DEF IInv, TypeOK
<1> QED
  BY <1>1, TreeStaysOrdered, PTL

-----------------------------------------------------------------------------
(* Where the elements of two sequences in a row are.                       *)
LEMMA ConcatAt ==
  ASSUME NEW T, NEW s \in Seq(T), NEW t \in Seq(T)
  PROVE  /\ s \o t \in Seq(T)
         /\ \A i \in DOMAIN s : i \in DOMAIN (s \o t) /\ (s \o t)[i] = s[i]
         /\ \A j \in DOMAIN t : Len(s) + j \in DOMAIN (s \o t) /\ (s \o t)[Len(s) + j] = t[j]
         /\ \A k \in DOMAIN (s \o t) : k \in DOMAIN s \/ (k > Len(s) /\ k - Len(s) \in DOMAIN t)
<1> DEFINE st == s \o t
<1>1. /\ st \in Seq(T) /\ Len(st) = Len(s) + Len(t)
      /\ \A i \in 1 .. Len(s) + Len(t) : st[i] = IF i <= Len(s) THEN s[i] ELSE t[i - Len(s)]
  BY ConcatProperties
<1>2. /\ DOMAIN s = 1 .. Len(s) /\ DOMAIN t = 1 .. Len(t) /\ Len(s) \in Nat /\ Len(t) \in Nat
  OBVIOUS
<1> HIDE DEF st
<1>3. DOMAIN st = 1 .. (Len(s) + Len(t))
  BY <1>1, <1>2
<1>4. ASSUME NEW i \in DOMAIN s
      PROVE  i \in DOMAIN st /\ st[i] = s[i]
  BY <1>1, <1>2, <1>3
<1>5. ASSUME NEW j \in DOMAIN t
      PROVE  Len(s) + j \in DOMAIN st /\ st[Len(s) + j] = t[j]
  <2>1. /\ Len(s) + j \in 1 .. (Len(s) + Len(t)) /\ ~(Len(s) + j <= Len(s))
        /\ (Len(s) + j) - Len(s) = j
    BY <1>2
  <2> QED
    BY <1>1, <1>3, <2>1
<1>6. ASSUME NEW k \in DOMAIN st
      PROVE  k \in DOMAIN s \/ (k > Len(s) /\ k - Len(s) \in DOMAIN t)
  BY <1>2, <1>3
<1> QED
  BY <1>1, <1>4, <1>5, <1>6 DEF st

(* Two sequences in a row grow when both do, one behind the other.         *)
LEMMA IncreasingConcat ==
  ASSUME NEW s \in Seq(Nat), NEW t \in Seq(Nat)
  PROVE  Increasing(s \o t) <=>
           Increasing(s) /\ Increasing(t) /\ \A i \in DOMAIN s, j \in DOMAIN t : s[i] < t[j]
<1> DEFINE st == s \o t
<1>1. /\ st \in Seq(Nat)
      /\ \A i \in DOMAIN s : i \in DOMAIN st /\ st[i] = s[i]
      /\ \A j \in DOMAIN t : Len(s) + j \in DOMAIN st /\ st[Len(s) + j] = t[j]
      /\ \A k \in DOMAIN st : k \in DOMAIN s \/ (k > Len(s) /\ k - Len(s) \in DOMAIN t)
  BY ConcatAt
<1>2. /\ DOMAIN s = 1 .. Len(s) /\ DOMAIN t = 1 .. Len(t) /\ Len(s) \in Nat /\ Len(t) \in Nat
      /\ DOMAIN st \subseteq Nat
  BY <1>1
<1> HIDE DEF st
<1>3. ASSUME Increasing(st)
      PROVE  Increasing(s) /\ Increasing(t) /\ \A i \in DOMAIN s, j \in DOMAIN t : s[i] < t[j]
  <2>1. Increasing(s)
    BY <1>1, <1>3 DEF Increasing
  <2>2. Increasing(t)
    <3> SUFFICES ASSUME NEW i \in DOMAIN t, NEW j \in DOMAIN t, i < j
                 PROVE  t[i] < t[j]
      BY DEF Increasing
    <3>1. Len(s) + i < Len(s) + j
      BY <1>2
    <3> QED
      BY <1>1, <1>3, <3>1 DEF Increasing
  <2>3. ASSUME NEW i \in DOMAIN s, NEW j \in DOMAIN t
        PROVE  s[i] < t[j]
    <3>1. i < Len(s) + j
      BY <1>2
    <3> QED
      BY <1>1, <1>3, <3>1 DEF Increasing
  <2> QED
    BY <2>1, <2>2, <2>3
<1>4. ASSUME Increasing(s), Increasing(t), \A i \in DOMAIN s, j \in DOMAIN t : s[i] < t[j]
      PROVE  Increasing(st)
  <2> SUFFICES ASSUME NEW i \in DOMAIN st, NEW j \in DOMAIN st, i < j
               PROVE  st[i] < st[j]
    BY DEF Increasing
  <2>0. i \in Nat /\ j \in Nat
    BY <1>2
  <2>1. ASSUME NEW k \in DOMAIN st, k > Len(s), k - Len(s) \in DOMAIN t
        PROVE  st[k] = t[k - Len(s)]
    <3>1. Len(s) + (k - Len(s)) = k
      BY <1>2
    <3> QED
      BY <1>1, <2>1, <3>1
  <2>2. CASE i \in DOMAIN s /\ j \in DOMAIN s
    BY <1>1, <1>4, <2>2 DEF Increasing
  <2>3. CASE i \in DOMAIN s /\ j > Len(s) /\ j - Len(s) \in DOMAIN t
    BY <1>1, <1>4, <2>1, <2>3
  <2>4. CASE /\ i > Len(s) /\ i - Len(s) \in DOMAIN t
             /\ j > Len(s) /\ j - Len(s) \in DOMAIN t
    <3>1. i - Len(s) < j - Len(s)
      BY <1>2, <2>0
    <3> QED
      BY <1>4, <2>1, <2>4, <3>1 DEF Increasing
  <2>5. ~(i > Len(s) /\ j \in DOMAIN s)
    BY <1>2, <2>0
  <2> QED
    BY <1>1, <2>2, <2>3, <2>4, <2>5
<1> QED
  BY <1>3, <1>4 DEF st

LEMMA SeqWider ==
  ASSUME NEW A, NEW B, A \subseteq B, NEW s \in Seq(A)
  PROVE  s \in Seq(B)
  OBVIOUS

(* Two sets of numbers in a row.                                           *)
LEMMA AscendsConcat ==
  ASSUME NEW A, A \subseteq Nat, NEW B, B \subseteq Nat, \A a \in A, b \in B : a < b,
         NEW s, Ascends(s, A), NEW t, Ascends(t, B)
  PROVE  Ascends(s \o t, A \cup B)
<1> DEFINE st == s \o t
<1>1. /\ s \in Seq(A) /\ t \in Seq(B) /\ Increasing(s) /\ Increasing(t)
      /\ \A c \in A : \E i \in DOMAIN s : s[i] = c
      /\ \A c \in B : \E i \in DOMAIN t : t[i] = c
  BY DEF Ascends
<1>2. /\ \A i \in DOMAIN s : s[i] \in A
      /\ \A i \in DOMAIN t : t[i] \in B
      /\ s \in Seq(A \cup B) /\ t \in Seq(A \cup B) /\ s \in Seq(Nat) /\ t \in Seq(Nat)
  <2> DEFINE C == A \cup B
  <2>1. A \subseteq C /\ B \subseteq C /\ s \in Seq(A) /\ t \in Seq(B)
    BY <1>1
  <2> HIDE DEF C
  <2>2. s \in Seq(C) /\ t \in Seq(C)
    BY <2>1, SeqWider
  <2>3. s \in Seq(Nat) /\ t \in Seq(Nat)
    BY <2>1, SeqWider
  <2>4. (\A i \in DOMAIN s : s[i] \in A) /\ (\A i \in DOMAIN t : t[i] \in B)
    <3>1. s \in Seq(A) /\ t \in Seq(B)
      BY <1>1
    <3> QED
      BY <3>1
  <2> QED
    BY <2>2, <2>3, <2>4 DEF C
<1>3. Increasing(st)
  <2>1. \A i \in DOMAIN s, j \in DOMAIN t : s[i] < t[j]
    BY <1>2
  <2> QED
    BY <1>1, <1>2, <2>1, IncreasingConcat
<1>4. /\ st \in Seq(A \cup B)
      /\ \A i \in DOMAIN s : i \in DOMAIN st /\ st[i] = s[i]
      /\ \A j \in DOMAIN t : Len(s) + j \in DOMAIN st /\ st[Len(s) + j] = t[j]
  BY <1>2, ConcatAt
<1> HIDE DEF st
<1>5. \A c \in A \cup B : \E i \in DOMAIN st : st[i] = c
  BY <1>1, <1>4
<1> QED
  BY <1>3, <1>4, <1>5 DEF Ascends, st

(* The numbers up to N can only be counted.                                *)
LEMMA AscendsCounts ==
  ASSUME NEW N \in Nat, NEW s, Ascends(s, 1 .. N)
  PROVE  s = [i \in 1 .. N |-> i]
<1> DEFINE K == {d \in Nat : d <= N => \A i \in 1 .. d : i \in DOMAIN s /\ s[i] = i}
<1>1. /\ s \in Seq(1 .. N) /\ DOMAIN s = 1 .. Len(s) /\ Len(s) \in Nat
      /\ (\A i \in DOMAIN s : s[i] \in 1 .. N)
      /\ (\A i, j \in DOMAIN s : i < j => s[i] < s[j])
      /\ \A c \in 1 .. N : \E i \in DOMAIN s : s[i] = c
  BY DEF Ascends, Increasing
<1>2. 0 \in K
  OBVIOUS
<1>3. ASSUME NEW d \in Nat, d \in K
      PROVE  d + 1 \in K
  <2> SUFFICES ASSUME d + 1 <= N
               PROVE  \A i \in 1 .. (d + 1) : i \in DOMAIN s /\ s[i] = i
    OBVIOUS
  <2>1. \A i \in 1 .. d : i \in DOMAIN s /\ s[i] = i
    BY <1>3
  <2>2. PICK k \in DOMAIN s : s[k] = d + 1
    BY <1>1
  <2>3. k \in Nat /\ k >= 1 /\ k \notin 1 .. d
    BY <1>1, <2>1, <2>2
  <2>4. d + 1 \in DOMAIN s /\ d + 1 <= k
    BY <1>1, <2>2, <2>3
  <2>5. s[d + 1] \in 1 .. N /\ s[d + 1] <= d + 1
    <3>1. s[d + 1] \in 1 .. N
      BY <1>1, <2>4
    <3>2. CASE d + 1 = k
      BY <2>2, <3>1, <3>2
    <3>3. CASE d + 1 < k
      <4>1. s[d + 1] < s[k]
        BY <1>1, <2>2, <2>4, <3>3
      <4> QED
        BY <2>2, <3>1, <4>1
    <3> QED
      BY <2>3, <2>4, <3>1, <3>2, <3>3
  <2>6. s[d + 1] >= d + 1
    <3>1. CASE d = 0
      BY <2>5, <3>1
    <3>2. CASE d > 0
      <4>1. d \in DOMAIN s /\ s[d] = d /\ d < d + 1
        BY <2>1, <3>2
      <4>2. s[d] < s[d + 1]
        BY <1>1, <2>4, <4>1
      <4> QED
        BY <2>5, <4>1, <4>2
    <3> QED
      BY <3>1, <3>2
  <2>7. s[d + 1] = d + 1
    BY <2>5, <2>6
  <2> QED
    BY <2>1, <2>4, <2>7
<1>4. \A d \in Nat : d \in K
  <2> HIDE DEF K
  <2> QED
    BY <1>2, <1>3, SetInduction
<1>5. \A i \in 1 .. N : i \in DOMAIN s /\ s[i] = i
  BY <1>4
<1>6. ~(Len(s) > N)
  <2> SUFFICES ASSUME Len(s) > N
               PROVE  FALSE
    OBVIOUS
  <2>1. N + 1 \in DOMAIN s
    BY <1>1
  <2>2. s[N + 1] \in 1 .. N
    BY <1>1, <2>1
  <2>3. s[s[N + 1]] = s[N + 1] /\ s[N + 1] \in DOMAIN s /\ s[N + 1] < N + 1
    BY <1>5, <2>2
  <2>4. s[s[N + 1]] < s[N + 1]
    BY <1>1, <2>1, <2>3
  <2> QED
    BY <2>2, <2>3, <2>4
<1>7. DOMAIN s = 1 .. N
  <2>1. \A i \in 1 .. N : i \in 1 .. Len(s)
    BY <1>1, <1>5
  <2>2. N = 0 \/ N <= Len(s)
    <3>1. N > 0 => N \in 1 .. Len(s)
      BY <2>1
    <3> QED
      BY <1>1, <3>1
  <2>3. Len(s) = N
    <3>1. Len(s) \in Nat
      BY <1>1
    <3> QED
      BY <1>6, <2>2, <3>1
  <2> QED
    BY <1>1, <2>3
<1> QED
  <2>1. s = [i \in DOMAIN s |-> s[i]]
    BY <1>1
  <2> QED
    BY <1>5, <1>7, <2>1

-----------------------------------------------------------------------------
(* What the elements of a sequence are mapped to, typed one by one.        *)
Into(g, A, T) == \A a \in A : g[a] \in Seq(T)

LEMMA MappedIn ==
  ASSUME NEW A, NEW T, NEW g, NEW s \in Seq(A), Into(g, A, T)
  PROVE  Each(g, s) \in Seq(Seq(T)) /\ Mapped(g, s) \in Seq(T)
<1> DEFINE U == Seq(T)
<1>1. \A k \in DOMAIN s : g[s[k]] \in U
  BY DEF Into
<1> HIDE DEF U
<1>2. [k \in DOMAIN s |-> g[s[k]]] \in Seq(U)
  BY <1>1
<1>3. Each(g, s) \in Seq(Seq(T))
  BY <1>2 DEF Each, U
<1> QED
  BY <1>3, FlattenType DEF Mapped

(* p is somewhere in m as it is.                                           *)
Part(p, m) == \E x, y, z \in Seq(Nat) : z = x \o p /\ m = z \o y

LEMMA MappedParts ==
  ASSUME NEW A, NEW g, NEW s \in Seq(A), Into(g, A, Nat), NEW k \in DOMAIN s
  PROVE  Part(g[s[k]], Mapped(g, s)) /\ g[s[k]] \in Seq(Nat)
<1> DEFINE T == Nat
           u == Each(g, s)
           x == FlattenSeq(Through(u, k - 1))
           y == FlattenSeq(Behind(u, k))
           z == x \o g[s[k]]
<1> HIDE DEF T
<1>1. u \in Seq(Seq(T)) /\ DOMAIN u = DOMAIN s /\ u[k] = g[s[k]]
  <2>1. u \in Seq(Seq(T))
    BY MappedIn DEF T
  <2> QED
    BY <2>1 DEF Each
<1> HIDE DEF u
<1>2. FlattenSeq(u) = (x \o u[k]) \o y
  BY <1>1, FlattenSplit
<1>3. x \in Seq(T) /\ y \in Seq(T)
  <2> DEFINE U == Seq(T)
  <2>1. u \in Seq(U) /\ k \in DOMAIN u
    BY <1>1
  <2> HIDE DEF U
  <2>2. Through(u, k - 1) \in Seq(U) /\ Behind(u, k) \in Seq(U)
    BY <2>1, SplitAt
  <2> QED
    BY <2>2, FlattenType DEF U
<1> HIDE DEF x, y
<1>4. g[s[k]] \in Seq(T) /\ Mapped(g, s) = z \o y
  BY <1>1, <1>2 DEF Mapped, u, Into, T
<1>5. z \in Seq(T)
  BY <1>3, <1>4
<1> HIDE DEF z
<1>6. z = x \o g[s[k]]
  BY DEF z
<1> QED
  BY <1>3, <1>4, <1>5, <1>6 DEF Part, T

(* What is a part of something that grows grows, and nothing of it is lost.*)
LEMMA PartIncreasing ==
  ASSUME NEW p \in Seq(Nat), NEW m, Part(p, m)
  PROVE  /\ Increasing(m) => Increasing(p)
         /\ \A i \in DOMAIN p : \E j \in DOMAIN m : m[j] = p[i]
<1>1. PICK x, y, z \in Seq(Nat) : z = x \o p /\ m = z \o y
  BY DEF Part
<1>2. \A j \in DOMAIN p : Len(x) + j \in DOMAIN z /\ z[Len(x) + j] = p[j]
  BY <1>1, ConcatAt
<1>3. Increasing(z) => Increasing(p)
  BY <1>1, IncreasingConcat
<1>4. \A i \in DOMAIN z : i \in DOMAIN (z \o y) /\ (z \o y)[i] = z[i]
  BY ConcatAt
<1>5. Increasing(m) => Increasing(z)
  BY <1>1, IncreasingConcat
<1>6. \A i \in DOMAIN p : \E j \in DOMAIN m : m[j] = p[i]
  BY <1>1, <1>2, <1>4
<1> QED
  BY <1>3, <1>5, <1>6

-----------------------------------------------------------------------------
(* The lines of a range, in order.                                         *)
LEMMA RawLinesAre ==
  ASSUME NEW range \in LineRange, range.a <= range.b
  PROVE  Ascends(RawLines(range), range.a .. (range.b - 1))
<1> DEFINE a == range.a
           n == range.b - range.a
           S == range.a .. (range.b - 1)
           s == RawLines(range)
<1>1. a \in Nat /\ range.b \in Nat /\ n \in Nat
  <2>1. range.a \in Nat /\ range.b \in Nat
    BY DEF LineRange
  <2> QED
    BY <2>1
<1>2. s = [i \in 1 .. n |-> a + i - 1]
  BY DEF RawLines
<1>3. \A i \in 1 .. n : a + i - 1 \in S
  BY <1>1
<1>4. \A l \in S : l - a + 1 \in 1 .. n /\ a + (l - a + 1) - 1 = l
  BY <1>1
<1> HIDE DEF S, s, n
<1>5. s \in Seq(S) /\ DOMAIN s = 1 .. n /\ \A i \in 1 .. n : s[i] = a + i - 1
  BY <1>1, <1>2, <1>3
<1>6. Increasing(s)
  BY <1>1, <1>5 DEF Increasing
<1>7. \A l \in S : \E i \in DOMAIN s : s[i] = l
  BY <1>4, <1>5
<1> QED
  BY <1>5, <1>6, <1>7 DEF Ascends, S, s

-----------------------------------------------------------------------------
(* What the printer makes of a node when f is what it makes of the nodes   *)
(* below it.                                                               *)
OutOf(f, n) ==
  LET node == nodes[n]
      start == RawLines(node.line_start)
      end == RawLines(node.line_end)
      body == Mapped(f, Body(n))
      orelse == Orelse(n)
      otherwise ==
        IF orelse # <<>> /\ nodes[orelse[1]].type = "ELSE"
        THEN RawLines(nodes[orelse[1]].line_start) \o Mapped(f, Body(orelse[1]))
        ELSE Mapped(f, orelse)
  IN CASE node.type = "ROOT" -> body
       [] node.type = "NO_OP_COMMAND" -> <<>>
       [] node.type = "FOR" -> start \o body \o end
       [] node.type = "TARGET" -> start \o body
       [] node.type \in IfTypes /\ node.ifparent = NoNode -> start \o body \o otherwise \o end
       [] node.type \in IfTypes /\ node.ifparent # NoNode -> start \o body \o otherwise
       [] OTHER -> start

(* What Output chooses.                                                    *)
Writes(out) == out = [n \in DOMAIN nodes |-> OutOf(out, n)]

LEMMA OutputIs == Output = (CHOOSE out : Writes(out))[Root]
  BY Zenon DEF Output, Writes, OutOf, Mapped, Each

(* The children of a node come after it.                                   *)
LEMMA ChildrenLater ==
  ASSUME nodes \in Seq(Node), TreeOrdered(nodes), NEW n \in DOMAIN nodes, NEW c \in ChildrenOf(n)
  PROVE  c \in DOMAIN nodes /\ c \in Nat /\ n \in Nat /\ c > n
<1>1. c \in DOMAIN nodes \ {Root} /\ nodes[c].parent = n
  BY DEF ChildrenOf
<1>2. n \in 1 .. (c - 1)
  BY <1>1 DEF TreeOrdered, ParentsBelow
<1>3. DOMAIN nodes \subseteq Nat
  OBVIOUS
<1> QED
  BY <1>1, <1>2, <1>3

LEMMA FirstBranch ==
  ASSUME nodes \in Seq(Node), TreeOrdered(nodes), NEW n \in DOMAIN nodes, Orelse(n) # <<>>
  PROVE  Orelse(n)[1] \in ChildrenOf(n) /\ 1 \in DOMAIN Orelse(n)
<1>1. Orelse(n) \in Seq(ChildrenOf(n))
  BY ChildrenAre
<1> DEFINE o == Orelse(n)
<1> HIDE DEF o
<1>2. o \in Seq(ChildrenOf(n)) /\ o # <<>>
  BY <1>1 DEF o
<1>3. 1 \in DOMAIN o /\ o[1] \in ChildrenOf(n)
  BY <1>2
<1> QED
  BY <1>3 DEF o

(* Nothing but what comes after a node decides what is made of it.         *)
LEMMA OutAgrees ==
  ASSUME nodes \in Seq(Node), TreeOrdered(nodes), NEW n \in DOMAIN nodes, NEW f, NEW h,
         \A c \in DOMAIN nodes : c > n => f[c] = h[c]
  PROVE  OutOf(f, n) = OutOf(h, n)
<1>1. ASSUME NEW m \in DOMAIN nodes, m >= n
      PROVE  Mapped(f, Body(m)) = Mapped(h, Body(m)) /\ Mapped(f, Orelse(m)) = Mapped(h, Orelse(m))
  <2>1. ASSUME NEW s \in Seq(ChildrenOf(m))
        PROVE  Mapped(f, s) = Mapped(h, s)
    <3>1. \A k \in DOMAIN s : s[k] \in ChildrenOf(m)
      OBVIOUS
    <3>2. ASSUME NEW k \in DOMAIN s
          PROVE  f[s[k]] = h[s[k]]
      <4> DEFINE c == s[k]
      <4>1. c \in ChildrenOf(m)
        BY <3>1
      <4> HIDE DEF c
      <4>2. c \in DOMAIN nodes /\ c \in Nat /\ m \in Nat /\ c > m
        BY <4>1, ChildrenLater
      <4>3. n \in Nat
        OBVIOUS
      <4>4. c > n
        BY <1>1, <4>2, <4>3
      <4> QED
        BY <4>2, <4>4 DEF c
    <3> QED
      BY <3>2, MappedSame
  <2> QED
    BY <2>1, ChildrenAre
<1>2. n >= n
  <2>1. n \in Nat
    OBVIOUS
  <2> QED
    BY <2>1
<1>3. ASSUME Orelse(n) # <<>>
      PROVE  Mapped(f, Body(Orelse(n)[1])) = Mapped(h, Body(Orelse(n)[1]))
  <2> DEFINE c == Orelse(n)[1]
  <2>1. c \in ChildrenOf(n)
    BY <1>3, FirstBranch
  <2> HIDE DEF c
  <2>2. c \in DOMAIN nodes /\ c \in Nat /\ n \in Nat /\ c > n
    BY <2>1, ChildrenLater
  <2>3. c >= n
    BY <2>2
  <2>4. Mapped(f, Body(c)) = Mapped(h, Body(c))
    BY <1>1, <2>2, <2>3
  <2> QED
    BY <2>4 DEF c
<1>4. Mapped(f, Body(n)) = Mapped(h, Body(n)) /\ Mapped(f, Orelse(n)) = Mapped(h, Orelse(n))
  BY <1>1, <1>2
<1> DEFINE g(x) == Mapped(x, Body(n))
           o(x) == Mapped(x, Orelse(n))
           e(x) == Mapped(x, Body(Orelse(n)[1]))
<1>5. g(f) = g(h) /\ o(f) = o(h) /\ (Orelse(n) # <<>> => e(f) = e(h))
  BY <1>3, <1>4
<1> QED
  BY <1>5, Zenon DEF OutOf

(* So there is something to choose: it is made from the last node back.    *)
LEMMA WritesExists ==
  ASSUME nodes \in Seq(Node), TreeOrdered(nodes)
  PROVE  \E out : Writes(out)
<1> DEFINE size == Len(nodes)
           Made(f, d) == \A m \in DOMAIN nodes : size - m < d => f[m] = OutOf(f, m)
           Some(d) == \E f : f = [m \in DOMAIN nodes |-> f[m]] /\ Made(f, d)
           K == {d \in Nat : Some(d)}
<1>1. size \in Nat /\ DOMAIN nodes = 1 .. size /\ \A m \in DOMAIN nodes : m \in Nat /\ m <= size
  OBVIOUS
<1>2. Some(0)
  <2> DEFINE f == [m \in DOMAIN nodes |-> m]
  <2>1. f = [m \in DOMAIN nodes |-> f[m]]
    OBVIOUS
  <2>2. \A m \in DOMAIN nodes : ~(size - m < 0)
    BY <1>1
  <2> HIDE DEF f
  <2>3. Made(f, 0)
    BY <2>2
  <2> HIDE DEF Made
  <2> QED
    BY <2>1, <2>3
<1>3. ASSUME NEW d \in Nat, Some(d)
      PROVE  Some(d + 1)
  <2>1. PICK f : f = [m \in DOMAIN nodes |-> f[m]] /\ Made(f, d)
    BY <1>3
  <2> DEFINE h == [m \in DOMAIN nodes |-> IF size - m = d THEN OutOf(f, m) ELSE f[m]]
  <2>2. h = [m \in DOMAIN nodes |-> h[m]]
    OBVIOUS
  <2>3. \A m \in DOMAIN nodes : h[m] = IF size - m = d THEN OutOf(f, m) ELSE f[m]
    OBVIOUS
  <2> HIDE DEF h
  <2>4. ASSUME NEW m \in DOMAIN nodes, size - m < d + 1
        PROVE  h[m] = OutOf(h, m)
    <3>1. m \in Nat /\ m <= size /\ size - m \in Nat
      BY <1>1
    <3>2. ASSUME NEW c \in DOMAIN nodes, c > m
          PROVE  f[c] = h[c]
      <4>1. c \in Nat /\ size - c # d
        BY <1>1, <2>4, <3>1, <3>2
      <4> QED
        BY <2>3, <4>1
    <3>3. OutOf(f, m) = OutOf(h, m)
      BY <3>2, OutAgrees
    <3>4. CASE size - m = d
      BY <2>3, <3>3, <3>4
    <3>5. CASE size - m # d
      <4>1. size - m < d
        BY <2>4, <3>1, <3>5
      <4>2. f[m] = OutOf(f, m)
        BY <2>1, <4>1
      <4> QED
        BY <2>3, <3>3, <3>5, <4>2
    <3> QED
      BY <3>4, <3>5
  <2>5. Made(h, d + 1)
    BY <2>4
  <2> HIDE DEF Made
  <2> QED
    BY <2>2, <2>5
<1> HIDE DEF Made
<1>4. 0 \in K
  BY <1>2
<1>5. \A d \in Nat : d \in K => d + 1 \in K
  BY <1>3
<1>6. \A d \in Nat : d \in K
  <2> HIDE DEF K
  <2> QED
    BY <1>4, <1>5, SetInduction
<1>7. PICK f : f = [m \in DOMAIN nodes |-> f[m]] /\ Made(f, size)
  BY <1>1, <1>6
<1>8. \A m \in DOMAIN nodes : f[m] = OutOf(f, m)
  <2>1. \A m \in DOMAIN nodes : size - m < size
    BY <1>1
  <2> QED
    BY <1>7, <2>1 DEF Made
<1>9. [m \in DOMAIN nodes |-> f[m]] = [m \in DOMAIN nodes |-> OutOf(f, m)]
  BY <1>8
<1>10. Writes(f)
  BY <1>7, <1>9, Zenon DEF Writes
<1> QED
  BY <1>10

-----------------------------------------------------------------------------
(* The body of a node has no branch, and its orelse has its branches.      *)
LEMMA BodyAndBranches ==
  ASSUME nodes \in Seq(Node), TreeOrdered(nodes), NEW n \in DOMAIN nodes
  PROVE  /\ \A k \in DOMAIN Body(n) :
              Body(n)[k] \in ChildrenOf(n) /\ nodes[Body(n)[k]].ifparent = NoNode
         /\ \A k \in DOMAIN Orelse(n) :
              Orelse(n)[k] \in ChildrenOf(n) /\ nodes[Orelse(n)[k]].ifparent = n
         /\ nodes[n].type \notin IfTypes => Orelse(n) = <<>>
<1> DEFINE B == {m \in DOMAIN nodes \ {Root} : nodes[m].parent = n /\ nodes[m].ifparent = NoNode}
           O == {m \in DOMAIN nodes : nodes[m].ifparent = n}
<1>1. Len(nodes) \in Nat /\ DOMAIN nodes = 1 .. Len(nodes) /\ n # NoNode
  BY DEF NoNode
<1>2. B \subseteq 1 .. Len(nodes) /\ O \subseteq 1 .. Len(nodes)
  BY <1>1
<1> HIDE DEF B, O
<1>3. Ascends(Ascending(B), B) /\ Ascends(Ascending(O), O)
  BY <1>1, <1>2, AscendingAscends
<1>4. Body(n) \in Seq(B) /\ Orelse(n) \in Seq(O)
  BY <1>3 DEF Body, Orelse, Ascends, B, O
<1>5. \A m \in B : nodes[m].ifparent = NoNode
  BY DEF B
<1>6. \A m \in O : nodes[m].ifparent = n
  BY DEF O
<1>7. nodes[n].type \notin IfTypes => O = {}
  BY <1>1 DEF TreeOrdered, BranchesLast, O
<1> DEFINE b == Body(n)
           o == Orelse(n)
<1>8. b \in Seq(B) /\ o \in Seq(O) /\ b \in Seq(ChildrenOf(n)) /\ o \in Seq(ChildrenOf(n))
  BY <1>4, ChildrenAre
<1> HIDE DEF b, o
<1>9. /\ \A k \in DOMAIN b : b[k] \in B /\ b[k] \in ChildrenOf(n)
      /\ \A k \in DOMAIN o : o[k] \in O /\ o[k] \in ChildrenOf(n)
      /\ O = {} => o = <<>>
  BY <1>8
<1> QED
  BY <1>5, <1>6, <1>7, <1>9 DEF b, o

(* It has one branch at most.                                              *)
LEMMA OneBranch ==
  ASSUME nodes \in Seq(Node), TreeOrdered(nodes), OneAlternative, NEW n \in DOMAIN nodes,
         Orelse(n) # <<>>
  PROVE  Orelse(n) = <<Orelse(n)[1]>> /\ nodes[Orelse(n)[1]].ifparent = n
<1> DEFINE o == Orelse(n)
<1>1. /\ o \in Seq(ChildrenOf(n)) /\ n # NoNode
      /\ \A k \in DOMAIN o : o[k] \in ChildrenOf(n) /\ nodes[o[k]].ifparent = n
  BY ChildrenAre, BodyAndBranches DEF NoNode
<1>2. Increasing(o)
  <2> DEFINE O == {m \in DOMAIN nodes : nodes[m].ifparent = n}
  <2>1. Len(nodes) \in Nat /\ O \subseteq 1 .. Len(nodes)
    OBVIOUS
  <2> HIDE DEF O
  <2>2. Ascends(Ascending(O), O)
    BY <2>1, AscendingAscends
  <2> QED
    BY <2>2 DEF Orelse, Ascends, O
<1> HIDE DEF o
<1>3. o # <<>>
  BY DEF o
<1>4. ChildrenOf(n) \subseteq DOMAIN nodes /\ ChildrenOf(n) \subseteq Nat
  BY DEF ChildrenOf
<1>5. DOMAIN o = 1 .. Len(o) /\ Len(o) \in Nat /\ Len(o) # 0
  BY <1>1, <1>3
<1>6. ~(2 \in DOMAIN o)
  <2> SUFFICES ASSUME 2 \in DOMAIN o
               PROVE  FALSE
    OBVIOUS
  <2>1. 1 \in DOMAIN o
    BY <1>5
  <2>2. o[1] < o[2] /\ o[1] \in Nat /\ o[2] \in Nat
    BY <1>1, <1>2, <1>4, <2>1 DEF Increasing
  <2>3. o[1] = o[2]
    BY <1>1, <1>4, <2>1 DEF OneAlternative
  <2> QED
    BY <2>2, <2>3
<1>7. Len(o) = 1
  BY <1>5, <1>6
<1>8. o = <<o[1]>>
  BY <1>1, <1>7
<1> QED
  BY <1>1, <1>5, <1>7, <1>8 DEF o

-----------------------------------------------------------------------------
(* The lines a node has for its own: those it begins with, unless it is    *)
(* the root or a command without words, and those it ends with.            *)
Begins(n) == nodes[n].type \notin {"ROOT", "NO_OP_COMMAND"}
PrintsIn(n, S) ==
  /\ Begins(n) => RawLines(nodes[n].line_start) \in Seq(S)
  /\ Ends(nodes, n) => RawLines(nodes[n].line_end) \in Seq(S)

(* x is the branch of a branch e, which is not looked for one.             *)
SkipsBranch(x, e) ==
  /\ x \in DOMAIN nodes /\ nodes[x].ifparent = e /\ e # NoNode
  /\ e \in DOMAIN nodes /\ nodes[e].type = "ELSE" /\ nodes[e].ifparent # NoNode
Skips(x, e) == (x = NoNode /\ e = NoNode) \/ SkipsBranch(x, e)

(* What is made of a node but x and e is of the lines of S when those of   *)
(* all nodes but x are.                                                    *)
LEMMA OutInStep ==
  ASSUME nodes \in Seq(Node), TreeOrdered(nodes), OneAlternative, NEW S, NEW x, NEW e, Skips(x, e),
         \A k \in DOMAIN nodes \ {x} : PrintsIn(k, S),
         NEW out, NEW n \in DOMAIN nodes \ {x, e},
         \A c \in DOMAIN nodes \ {x, e} : c > n => out[c] \in Seq(S)
  PROVE  OutOf(out, n) \in Seq(S)
<1>1. ASSUME NEW c \in DOMAIN nodes \ {x, e}, c > n
      PROVE  Mapped(out, <<c>>) \in Seq(S)
  <2>1. Into(out, {c}, S) /\ <<c>> \in Seq({c})
    BY <1>1 DEF Into
  <2> QED
    BY <2>1, MappedIn
<1>2. ASSUME NEW m \in DOMAIN nodes, m >= n
      PROVE  Mapped(out, Body(m)) \in Seq(S)
  <2> DEFINE A == {c \in DOMAIN nodes \ {x, e} : c > n}
             b == Body(m)
  <2>1. b \in Seq(ChildrenOf(m)) /\ \A k \in DOMAIN b : b[k] \in ChildrenOf(m) /\ nodes[b[k]].ifparent = NoNode
    BY ChildrenAre, BodyAndBranches
  <2> HIDE DEF b
  <2>2. \A k \in DOMAIN b : b[k] \in A
    <3> TAKE k \in DOMAIN b
    <3> DEFINE c == b[k]
    <3>1. c \in ChildrenOf(m) /\ nodes[c].ifparent = NoNode
      BY <2>1
    <3> HIDE DEF c
    <3>2. c \in DOMAIN nodes /\ c \in Nat /\ m \in Nat /\ c > m
      BY <3>1, ChildrenLater
    <3>3. c \notin {x, e}
      BY <3>1, <3>2 DEF Skips, SkipsBranch, NoNode
    <3>4. n \in Nat
      OBVIOUS
    <3>5. c \in A
      BY <1>2, <3>2, <3>3, <3>4
    <3> QED
      BY <3>5 DEF c
  <2>3. Into(out, A, S)
    BY DEF Into
  <2> HIDE DEF A
  <2>4. b \in Seq(A)
    BY <2>1, <2>2
  <2> QED
    BY <2>3, <2>4, MappedIn DEF b
<1>3. n \in Nat /\ n >= n
  OBVIOUS
<1>4. Mapped(out, Body(n)) \in Seq(S)
  BY <1>2, <1>3
<1>5. PrintsIn(n, S)
  OBVIOUS
<1> DEFINE o == Orelse(n)
           c == o[1]
           otherwise == IF o # <<>> /\ nodes[c].type = "ELSE"
                        THEN RawLines(nodes[c].line_start) \o Mapped(out, Body(c))
                        ELSE Mapped(out, o)
<1>6. otherwise \in Seq(S)
  <2>1. CASE o = <<>>
    <3>1. otherwise = Mapped(out, o)
      BY <2>1
    <3>2. Mapped(out, o) = <<>>
      BY <2>1, MappedNone
    <3> HIDE DEF otherwise, o
    <3> QED
      BY <3>1, <3>2
  <2>2. CASE o # <<>>
    <3>1. o = <<c>> /\ nodes[c].ifparent = n /\ c \in ChildrenOf(n)
      BY <2>2, OneBranch, FirstBranch
    <3> HIDE DEF o, c
    <3>2. c \in DOMAIN nodes /\ c \in Nat /\ n \in Nat /\ c > n
      BY <3>1, ChildrenLater
    <3>3. c # x
      BY <3>1, <3>2 DEF Skips, SkipsBranch, NoNode
    <3>4. CASE nodes[c].type = "ELSE"
      <4>1. Begins(c) /\ PrintsIn(c, S)
        BY <3>2, <3>3, <3>4 DEF Begins
      <4>2. RawLines(nodes[c].line_start) \in Seq(S)
        BY <4>1 DEF PrintsIn
      <4>3. Mapped(out, Body(c)) \in Seq(S)
        BY <1>2, <3>2
      <4>4. RawLines(nodes[c].line_start) \o Mapped(out, Body(c)) \in Seq(S)
        BY <4>2, <4>3
      <4> QED
        BY <2>2, <3>4, <4>4
    <3>5. CASE nodes[c].type # "ELSE"
      <4>1. c # e
        BY <3>2, <3>5 DEF Skips, SkipsBranch, NoNode
      <4>2. Mapped(out, o) \in Seq(S)
        BY <1>1, <3>1, <3>2, <3>3, <4>1
      <4> QED
        BY <3>5, <4>2
    <3> QED
      BY <3>4, <3>5
  <2> QED
    BY <2>1, <2>2
<1> DEFINE start == RawLines(nodes[n].line_start)
           end == RawLines(nodes[n].line_end)
           body == Mapped(out, Body(n))
<1>7. /\ body \in Seq(S) /\ otherwise \in Seq(S)
      /\ Begins(n) => start \in Seq(S)
      /\ Ends(nodes, n) => end \in Seq(S)
  BY <1>4, <1>5, <1>6 DEF PrintsIn
<1>8. OutOf(out, n) =
        CASE nodes[n].type = "ROOT" -> body
          [] nodes[n].type = "NO_OP_COMMAND" -> <<>>
          [] nodes[n].type = "FOR" -> start \o body \o end
          [] nodes[n].type = "TARGET" -> start \o body
          [] nodes[n].type \in IfTypes /\ nodes[n].ifparent = NoNode -> start \o body \o otherwise \o end
          [] nodes[n].type \in IfTypes /\ nodes[n].ifparent # NoNode -> start \o body \o otherwise
          [] OTHER -> start
  BY DEF OutOf
<1> HIDE DEF start, end, body, otherwise
<1>9. nodes[n].type \in IfTypes => nodes[n].type \notin {"ROOT", "NO_OP_COMMAND", "FOR", "TARGET"}
  BY DEF IfTypes
<1>10. CASE nodes[n].type \in {"ROOT", "NO_OP_COMMAND"}
  <2>1. nodes[n].type = "ROOT" => OutOf(out, n) = body
    BY <1>8, <1>9
  <2>2. nodes[n].type = "NO_OP_COMMAND" => OutOf(out, n) = <<>>
    BY <1>8, <1>9
  <2> QED
    <3>1. CASE nodes[n].type = "ROOT"
      BY <1>7, <2>1, <3>1
    <3>2. CASE nodes[n].type = "NO_OP_COMMAND"
      BY <2>2, <3>2
    <3> QED
      BY <1>10, <3>1, <3>2
<1>11. CASE nodes[n].type \in {"FOR", "TARGET"}
  <2>1. Begins(n) /\ (nodes[n].type = "FOR" => Ends(nodes, n))
    BY <1>11 DEF Begins, Ends
  <2>2. nodes[n].type = "FOR" => OutOf(out, n) = start \o body \o end
    BY <1>8, <1>9
  <2>3. nodes[n].type = "TARGET" => OutOf(out, n) = start \o body
    BY <1>8, <1>9
  <2> QED
    <3>1. CASE nodes[n].type = "FOR"
      <4>1. OutOf(out, n) = start \o body \o end /\ start \in Seq(S) /\ end \in Seq(S)
        BY <1>7, <2>1, <2>2, <3>1, Zenon
      <4> QED
        BY <1>7, <4>1
    <3>2. CASE nodes[n].type = "TARGET"
      <4>1. OutOf(out, n) = start \o body /\ start \in Seq(S)
        BY <1>7, <2>1, <2>3, <3>2, Zenon
      <4> QED
        BY <1>7, <4>1
    <3> QED
      BY <1>11, <3>1, <3>2
<1>12. CASE nodes[n].type \in IfTypes
  <2>1. Begins(n) /\ (nodes[n].ifparent = NoNode => Ends(nodes, n))
    BY <1>9, <1>12 DEF Begins, Ends
  <2>2. CASE nodes[n].ifparent = NoNode
    <3>1. OutOf(out, n) = start \o body \o otherwise \o end
      BY <1>8, <1>9, <1>12, <2>2, Zenon
    <3> QED
      BY <1>7, <2>1, <2>2, <3>1
  <2>3. CASE nodes[n].ifparent # NoNode
    <3>1. OutOf(out, n) = start \o body \o otherwise
      BY <1>8, <1>9, <1>12, <2>3, Zenon
    <3> QED
      BY <1>7, <2>1, <3>1
  <2> QED
    BY <2>2, <2>3
<1>13. CASE nodes[n].type \notin {"ROOT", "NO_OP_COMMAND", "FOR", "TARGET"} \cup IfTypes
  <2>1. Begins(n)
    BY <1>13 DEF Begins
  <2> QED
    BY <1>7, <1>8, <1>13, <2>1
<1> QED
  BY <1>10, <1>11, <1>12, <1>13

(* Induction from the last node back.                                      *)
LEMMA BackFromLast ==
  ASSUME nodes \in Seq(Node), NEW T,
         \A n \in DOMAIN nodes : (\A c \in DOMAIN nodes : c > n => c \in T) => n \in T
  PROVE  \A n \in DOMAIN nodes : n \in T
<1> DEFINE size == Len(nodes)
           K == {d \in Nat : \A m \in DOMAIN nodes : size - m <= d => m \in T}
<1>1. /\ size \in Nat /\ DOMAIN nodes = 1 .. size
      /\ \A m \in DOMAIN nodes : m \in Nat /\ m <= size /\ size - m \in Nat
  OBVIOUS
<1>2. 0 \in K
  <2> SUFFICES ASSUME NEW m \in DOMAIN nodes, size - m <= 0
               PROVE  m \in T
    OBVIOUS
  <2>1. \A c \in DOMAIN nodes : ~(c > m)
    BY <1>1
  <2> QED
    BY <2>1
<1>3. ASSUME NEW d \in Nat, d \in K
      PROVE  d + 1 \in K
  <2> SUFFICES ASSUME NEW m \in DOMAIN nodes, size - m <= d + 1
               PROVE  m \in T
    OBVIOUS
  <2>1. \A c \in DOMAIN nodes : c > m => size - c <= d
    BY <1>1
  <2>2. \A c \in DOMAIN nodes : c > m => c \in T
    BY <1>3, <2>1
  <2> QED
    BY <2>2
<1>4. \A d \in Nat : d \in K
  <2> HIDE DEF K
  <2> QED
    BY <1>2, <1>3, SetInduction
<1> TAKE n \in DOMAIN nodes
<1>5. size - n \in K /\ size - n <= size - n
  <2>1. size - n \in Nat /\ size - n <= size - n
    BY <1>1
  <2> HIDE DEF K
  <2> QED
    BY <1>4, <2>1
<1> QED
  BY <1>5

LEMMA OutIn ==
  ASSUME nodes \in Seq(Node), TreeOrdered(nodes), OneAlternative, NEW S, NEW x, NEW e, Skips(x, e),
         \A k \in DOMAIN nodes \ {x} : PrintsIn(k, S), NEW out, Writes(out)
  PROVE  \A n \in DOMAIN nodes \ {x, e} : out[n] \in Seq(S)
<1> DEFINE T == {n \in DOMAIN nodes : n \in {x, e} \/ out[n] \in Seq(S)}
<1>1. \A n \in DOMAIN nodes : out[n] = OutOf(out, n)
  BY Zenon DEF Writes
<1>2. ASSUME NEW n \in DOMAIN nodes, \A c \in DOMAIN nodes : c > n => c \in T
      PROVE  n \in T
  <2>1. CASE n \in {x, e}
    BY <2>1
  <2>2. CASE n \notin {x, e}
    <3>1. \A c \in DOMAIN nodes \ {x, e} : c > n => out[c] \in Seq(S)
      BY <1>2
    <3>2. OutOf(out, n) \in Seq(S)
      BY <2>2, <3>1, OutInStep
    <3> QED
      BY <1>1, <3>2
  <2> QED
    BY <2>1, <2>2
<1>3. \A n \in DOMAIN nodes : n \in T
  <2> HIDE DEF T
  <2> QED
    BY <1>2, BackFromLast
<1> QED
  BY <1>3

-----------------------------------------------------------------------------
(* What the printer needs of the tree.                                     *)
Printable ==
  /\ nodes \in Seq(Node) /\ TreeOrdered(nodes) /\ OneAlternative /\ KindsSound
  /\ Laid(nodes, LinesEnd) /\ LinesEnd \in Nat

LEMMA RawLinesIn ==
  ASSUME NEW range \in LineRange, range.a <= range.b, NEW S, (range.a .. (range.b - 1)) \subseteq S
  PROVE  RawLines(range) \in Seq(S)
<1>1. RawLines(range) \in Seq(range.a .. (range.b - 1))
  BY RawLinesAre DEF Ascends
<1> QED
  BY <1>1, SeqWider

(* The lines that are printed for a node are lines of the input.           *)
LEMMA OwnLines ==
  ASSUME Printable, NEW n \in DOMAIN nodes
  PROVE  /\ nodes[n].line_start \in LineRange /\ nodes[n].line_end \in LineRange
         /\ Begins(n) \/ Ends(nodes, n) =>
              Inside(nodes[n].line_start, LinesEnd) /\ Inside(nodes[n].line_end, LinesEnd)
<1>1. nodes[n] \in Node
  BY DEF Printable
<1>2. nodes[n].line_start \in LineRange /\ nodes[n].line_end \in LineRange
  BY <1>1 DEF Node
<1>3. Begins(n) \/ Ends(nodes, n) => n # Root
  BY DEF Printable, KindsSound, Begins, Ends, IfTypes
<1> QED
  BY <1>2, <1>3 DEF Printable, Laid, AllInside

LEMMA InsideLines ==
  ASSUME NEW range \in LineRange, NEW end \in Nat, Inside(range, end)
  PROVE  /\ range.a \in Nat /\ range.b \in Nat /\ 1 <= range.a /\ range.a < range.b /\ range.b <= end
         /\ range.a <= range.b /\ (range.a .. (range.b - 1)) \subseteq 1 .. (end - 1)
         /\ range.a \in range.a .. (range.b - 1)
<1>1. range.a \in Nat /\ range.b \in Nat
  BY DEF LineRange
<1> QED
  BY <1>1 DEF Inside

(* What is printed for a node is of S when none of its lines is missing    *)
(* from S.                                                                 *)
LEMMA PrintsInAll ==
  ASSUME Printable, NEW n \in DOMAIN nodes, NEW S,
         Begins(n) => (nodes[n].line_start.a .. (nodes[n].line_start.b - 1)) \subseteq S,
         Ends(nodes, n) => (nodes[n].line_end.a .. (nodes[n].line_end.b - 1)) \subseteq S
  PROVE  PrintsIn(n, S)
<1>1. LinesEnd \in Nat
  BY DEF Printable
<1>2. ASSUME Begins(n)
      PROVE  RawLines(nodes[n].line_start) \in Seq(S)
  <2>1. nodes[n].line_start \in LineRange /\ Inside(nodes[n].line_start, LinesEnd)
    BY <1>2, OwnLines
  <2>2. nodes[n].line_start.a <= nodes[n].line_start.b
    BY <1>1, <2>1, InsideLines
  <2> QED
    BY <1>2, <2>1, <2>2, RawLinesIn
<1>3. ASSUME Ends(nodes, n)
      PROVE  RawLines(nodes[n].line_end) \in Seq(S)
  <2>1. nodes[n].line_end \in LineRange /\ Inside(nodes[n].line_end, LinesEnd)
    BY <1>3, OwnLines
  <2>2. nodes[n].line_end.a <= nodes[n].line_end.b
    BY <1>1, <2>1, InsideLines
  <2> QED
    BY <1>3, <2>1, <2>2, RawLinesIn
<1> QED
  BY <1>2, <1>3 DEF PrintsIn

(* What is printed for a node is lines of the input.                       *)
LEMMA OutTyped ==
  ASSUME Printable, NEW out, Writes(out)
  PROVE  Maps(out, DOMAIN nodes, Nat) /\ \A n \in DOMAIN nodes : PrintsIn(n, Nat)
<1>1. /\ nodes \in Seq(Node) /\ TreeOrdered(nodes) /\ OneAlternative /\ LinesEnd \in Nat
  BY DEF Printable
<1>2. ASSUME NEW n \in DOMAIN nodes
      PROVE  PrintsIn(n, Nat)
  <2>1. /\ nodes[n].line_start \in LineRange /\ nodes[n].line_end \in LineRange
    BY OwnLines
  <2>2. ASSUME NEW range \in LineRange
        PROVE  (range.a .. (range.b - 1)) \subseteq Nat
    BY DEF LineRange
  <2> QED
    BY <2>1, <2>2, PrintsInAll
<1>3. \A n \in DOMAIN nodes \ {0, 0} : out[n] \in Seq(Nat)
  <2>1. Skips(0, 0)
    BY DEF Skips, NoNode
  <2> QED
    BY <1>1, <1>2, <2>1, OutIn
<1>4. \A n \in DOMAIN nodes : out[n] \in Seq(Nat)
  <2>1. 0 \notin DOMAIN nodes
    BY <1>1
  <2> QED
    BY <1>3, <2>1
<1>5. out = [n \in DOMAIN nodes |-> out[n]]
  BY Zenon DEF Writes
<1> DEFINE T == Seq(Nat)
<1>6. out \in [DOMAIN nodes -> T]
  <2>1. \A n \in DOMAIN nodes : out[n] \in T
    BY <1>4
  <2> HIDE DEF T
  <2> QED
    BY <1>5, <2>1
<1> QED
  BY <1>2, <1>6 DEF Maps

-----------------------------------------------------------------------------
(* What is printed before and after what is in a node.                     *)
Begin(n) == IF Begins(n) THEN RawLines(nodes[n].line_start) ELSE <<>>
Finish(n) == IF Ends(nodes, n) THEN RawLines(nodes[n].line_end) ELSE <<>>
Children(n) == Body(n) \o Orelse(n)

LEMMA Joined ==
  ASSUME NEW S, NEW a \in Seq(S), NEW b \in Seq(S)
  PROVE  /\ a \o b \in Seq(S) /\ a \o b = a \o (b \o <<>>)
         /\ a = a \o <<>> /\ a = <<>> \o a /\ a = <<>> \o (a \o <<>>)
<1>1. a \o b \in Seq(S)
  OBVIOUS
<1>2. \A x \in Seq(S) : x = x \o <<>> /\ x = <<>> \o x
  OBVIOUS
<1> QED
  BY <1>1, <1>2

LEMMA JoinedThree ==
  ASSUME NEW S, NEW a \in Seq(S), NEW b \in Seq(S), NEW c \in Seq(S)
  PROVE  a \o b \o c = a \o (b \o c)
  BY ConcatInOrder

(* Unless it is a branch of a branch that was not looked for one, a node   *)
(* is printed as its start, its children and its end.                      *)
LEMMA OutPlain ==
  ASSUME Printable, ~BranchAfterElse, NEW out, Writes(out), NEW n \in DOMAIN nodes
  PROVE  /\ out[n] = Begin(n) \o (Mapped(out, Children(n)) \o Finish(n))
         /\ Begin(n) \in Seq(Nat) /\ Finish(n) \in Seq(Nat) /\ Mapped(out, Children(n)) \in Seq(Nat)
         /\ Children(n) \in Seq(DOMAIN nodes) /\ Ascends(Children(n), ChildrenOf(n))
         /\ out[n] \in Seq(Nat)
<1>1. /\ nodes \in Seq(Node) /\ TreeOrdered(nodes) /\ OneAlternative
      /\ HoldersHold(nodes) /\ KindsSound
  BY DEF Printable, Laid
<1> DEFINE D == DOMAIN nodes
           T == Nat
<1>2. Maps(out, D, T) /\ PrintsIn(n, T) /\ out[n] \in Seq(T)
  BY OutTyped DEF Maps
<1>3. /\ Body(n) \in Seq(D) /\ Orelse(n) \in Seq(D) /\ Ascends(Children(n), ChildrenOf(n))
      /\ Children(n) \in Seq(D)
  <2>1. /\ Body(n) \in Seq(ChildrenOf(n)) /\ Orelse(n) \in Seq(ChildrenOf(n))
        /\ Ascends(Children(n), ChildrenOf(n))
    BY <1>1, ChildrenAre DEF Children
  <2>2. ChildrenOf(n) \subseteq D
    BY DEF ChildrenOf
  <2> HIDE DEF D
  <2>3. Body(n) \in Seq(D) /\ Orelse(n) \in Seq(D)
    BY <2>1, <2>2, SeqWider
  <2>4. Children(n) \in Seq(D)
    BY <2>3 DEF Children
  <2> QED
    BY <2>1, <2>3, <2>4
<1> DEFINE body == Mapped(out, Body(n))
           branches == Mapped(out, Orelse(n))
           start == RawLines(nodes[n].line_start)
           end == RawLines(nodes[n].line_end)
           all == Mapped(out, Children(n))
<1>4. /\ body \in Seq(T) /\ branches \in Seq(T) /\ all \in Seq(T) /\ all = body \o branches
      /\ Begins(n) => start \in Seq(T)
      /\ Ends(nodes, n) => end \in Seq(T)
  <2>1. /\ Begins(n) => start \in Seq(T)
        /\ Ends(nodes, n) => end \in Seq(T)
    BY <1>2 DEF PrintsIn
  <2> HIDE DEF D, T
  <2>2. body \in Seq(T) /\ branches \in Seq(T) /\ all \in Seq(T)
    BY <1>2, <1>3, MappedType
  <2>3. all = body \o branches
    BY <1>2, <1>3, MappedConcat DEF Children
  <2> QED
    BY <2>1, <2>2, <2>3
<1>5. Begin(n) \in Seq(T) /\ Finish(n) \in Seq(T)
  BY <1>4 DEF Begin, Finish
<1> SUFFICES out[n] = Begin(n) \o (all \o Finish(n))
  BY <1>2, <1>3, <1>4, <1>5
<1> DEFINE o == Orelse(n)
           c == o[1]
           otherwise == IF o # <<>> /\ nodes[c].type = "ELSE"
                        THEN RawLines(nodes[c].line_start) \o Mapped(out, Body(c))
                        ELSE branches
<1>6. \A m \in DOMAIN nodes : out[m] = OutOf(out, m)
  BY Zenon DEF Writes
<1>7. otherwise = branches
  <2> SUFFICES ASSUME o # <<>>, nodes[c].type = "ELSE"
               PROVE  RawLines(nodes[c].line_start) \o Mapped(out, Body(c)) = branches
    OBVIOUS
  <2>1. o = <<c>> /\ nodes[c].ifparent = n /\ c \in ChildrenOf(n)
    BY <1>1, OneBranch, FirstBranch
  <2>2. c \in DOMAIN nodes /\ n # NoNode
    BY <2>1 DEF ChildrenOf, NoNode
  <2> HIDE DEF c, o
  <2>3. branches = out[c]
    <3>1. Mapped(out, <<c>>) = out[c]
      <4> HIDE DEF D, T
      <4>1. c \in D
        BY <2>2 DEF D
      <4> QED
        BY <1>2, <4>1, MappedOne
    <3> QED
      BY <2>1, <3>1 DEF o
  <2>4. Orelse(c) = <<>>
    <3> SUFFICES ASSUME Orelse(c) # <<>>
                 PROVE  FALSE
      OBVIOUS
    <3> DEFINE m == Orelse(c)[1]
    <3>1. nodes[m].ifparent = c /\ m \in ChildrenOf(c)
      BY <1>1, <2>2, OneBranch, FirstBranch
    <3>2. m \in DOMAIN nodes /\ c # NoNode
      BY <1>1, <2>2, <3>1 DEF ChildrenOf, NoNode
    <3> HIDE DEF m
    <3> QED
      BY <2>1, <2>2, <3>1, <3>2 DEF BranchAfterElse
  <2> DEFINE s == RawLines(nodes[c].line_start)
             b == Mapped(out, Body(c))
             r == Mapped(out, Orelse(c))
  <2>5. OutOf(out, c) = s \o b \o r
    <3>1. /\ nodes[c].type \in IfTypes /\ nodes[c].ifparent # NoNode
          /\ nodes[c].type \notin {"ROOT", "NO_OP_COMMAND", "FOR", "TARGET"}
      BY <2>1, <2>2 DEF IfTypes
    <3> QED
      BY <2>4, <3>1 DEF OutOf
  <2>6. r = <<>>
    BY <2>4, MappedNone
  <2>7. s \in Seq(T) /\ b \in Seq(T)
    <3>1. Begins(c)
      BY DEF Begins
    <3>2. s \in Seq(T)
      BY <2>2, <3>1, OutTyped DEF PrintsIn
    <3>3. Body(c) \in Seq(ChildrenOf(c)) /\ ChildrenOf(c) \subseteq D
      BY <1>1, <2>2, ChildrenAre DEF ChildrenOf
    <3> HIDE DEF D, T
    <3>4. Body(c) \in Seq(D)
      BY <3>3, SeqWider
    <3>5. b \in Seq(T)
      BY <1>2, <3>4, MappedType
    <3> QED
      BY <3>2, <3>5
  <2> HIDE DEF s, b, r
  <2>8. s \o b \o r = s \o b
    BY <2>6, <2>7
  <2> QED
    BY <1>6, <2>2, <2>3, <2>5, <2>8 DEF s, b
<1>8. OutOf(out, n) =
        CASE nodes[n].type = "ROOT" -> body
          [] nodes[n].type = "NO_OP_COMMAND" -> <<>>
          [] nodes[n].type = "FOR" -> start \o body \o end
          [] nodes[n].type = "TARGET" -> start \o body
          [] nodes[n].type \in IfTypes /\ nodes[n].ifparent = NoNode -> start \o body \o otherwise \o end
          [] nodes[n].type \in IfTypes /\ nodes[n].ifparent # NoNode -> start \o body \o otherwise
          [] OTHER -> start
  BY DEF OutOf
<1>9. nodes[n].type \in IfTypes => nodes[n].type \notin {"ROOT", "NO_OP_COMMAND", "FOR", "TARGET"}
  BY DEF IfTypes
<1>10. nodes[n].type \notin IfTypes => branches = <<>> /\ all = body
  <2>1. nodes[n].type \notin IfTypes => branches = <<>>
    BY <1>1, BodyAndBranches, MappedNone
  <2> HIDE DEF body, branches, all
  <2> QED
    BY <1>4, <2>1
<1>11. nodes[n].type \notin Containers => all = <<>>
  <2> SUFFICES ASSUME nodes[n].type \notin Containers
               PROVE  all = <<>>
    OBVIOUS
  <2>1. ChildrenOf(n) = {}
    BY <1>1 DEF HoldersHold, ChildrenOf
  <2>2. Children(n) = <<>>
    BY <1>3, <2>1 DEF Ascends
  <2> QED
    BY <2>2, MappedNone
<1>12. out[n] = OutOf(out, n)
  BY <1>6
<1>13. /\ Begin(n) = IF Begins(n) THEN start ELSE <<>>
       /\ Finish(n) = IF Ends(nodes, n) THEN end ELSE <<>>
  BY DEF Begin, Finish
<1> HIDE DEF start, end, body, branches, all, otherwise, T
<1>14. CASE nodes[n].type = "ROOT"
  <2>1. ~Begins(n) /\ ~Ends(nodes, n) /\ nodes[n].type \notin IfTypes
    BY <1>14 DEF Begins, Ends, IfTypes
  <2>2. OutOf(out, n) = body
    BY <1>8, <1>9, <1>14
  <2> QED
    BY <1>4, <1>10, <1>12, <1>13, <2>1, <2>2, Joined
<1>15. CASE nodes[n].type = "NO_OP_COMMAND"
  <2>1. ~Begins(n) /\ ~Ends(nodes, n) /\ nodes[n].type \notin Containers
    BY <1>15 DEF Begins, Ends, IfTypes, Containers
  <2>2. OutOf(out, n) = <<>>
    BY <1>8, <1>9, <1>15
  <2>3. Begin(n) = <<>> /\ Finish(n) = <<>> /\ all = <<>>
    BY <1>11, <1>13, <2>1
  <2>4. <<>> \o (<<>> \o <<>>) = <<>>
    OBVIOUS
  <2> QED
    BY <1>12, <2>2, <2>3, <2>4
<1>16. CASE nodes[n].type = "FOR"
  <2>1. Begins(n) /\ Ends(nodes, n) /\ nodes[n].type \notin IfTypes
    BY <1>16 DEF Begins, Ends, IfTypes
  <2>2. OutOf(out, n) = start \o body \o end
    BY <1>8, <1>9, <1>16
  <2>3. start \o body \o end = start \o (body \o end)
    BY <1>4, <2>1, JoinedThree
  <2> QED
    BY <1>10, <1>12, <1>13, <2>1, <2>2, <2>3
<1>17. CASE nodes[n].type = "TARGET"
  <2>1. Begins(n) /\ ~Ends(nodes, n) /\ nodes[n].type \notin IfTypes
    BY <1>17 DEF Begins, Ends, IfTypes
  <2>2. OutOf(out, n) = start \o body
    BY <1>8, <1>9, <1>17
  <2>3. start \o body = start \o (body \o <<>>)
    BY <1>4, <2>1, Joined
  <2> QED
    BY <1>10, <1>12, <1>13, <2>1, <2>2, <2>3
<1>18. CASE nodes[n].type \in IfTypes
  <2>1. Begins(n) /\ (Ends(nodes, n) <=> nodes[n].ifparent = NoNode)
    BY <1>9, <1>18 DEF Begins, Ends
  <2>2. CASE nodes[n].ifparent = NoNode
    <3>1. OutOf(out, n) = start \o body \o otherwise \o end
      BY <1>8, <1>9, <1>18, <2>2, Zenon
    <3>2. start \o body \o branches = start \o (body \o branches)
      BY <1>4, <2>1, JoinedThree
    <3>3. start \o all \o end = start \o (all \o end)
      <4>1. start \in Seq(T) /\ all \in Seq(T) /\ end \in Seq(T)
        BY <1>4, <2>1, <2>2
      <4> QED
        BY <4>1, JoinedThree
    <3> QED
      BY <1>4, <1>7, <1>12, <1>13, <2>1, <2>2, <3>1, <3>2, <3>3
  <2>3. CASE nodes[n].ifparent # NoNode
    <3>1. OutOf(out, n) = start \o body \o otherwise
      BY <1>8, <1>9, <1>18, <2>3, Zenon
    <3>2. start \o body \o branches = start \o (body \o branches)
      BY <1>4, <2>1, JoinedThree
    <3>3. all \o <<>> = all
      BY <1>4, Joined
    <3> QED
      BY <1>4, <1>7, <1>12, <1>13, <2>1, <2>3, <3>1, <3>2, <3>3
  <2> QED
    BY <2>2, <2>3
<1>19. CASE nodes[n].type \notin {"ROOT", "NO_OP_COMMAND", "FOR", "TARGET"} \cup IfTypes
  <2>1. Begins(n) /\ ~Ends(nodes, n) /\ nodes[n].type \notin Containers
    BY <1>19 DEF Begins, Ends, Containers
  <2>2. OutOf(out, n) = start
    BY <1>8, <1>19
  <2>3. Begin(n) = start /\ Finish(n) = <<>> /\ all = <<>>
    BY <1>11, <1>13, <2>1
  <2>4. start \o (<<>> \o <<>>) = start
    BY <1>4, <2>1
  <2> QED
    BY <1>12, <2>2, <2>3, <2>4
<1> QED
  BY <1>14, <1>15, <1>16, <1>17, <1>18, <1>19

-----------------------------------------------------------------------------
(* What is known of a tree that was returned.                              *)
TreeRead ==
  /\ IInv /\ LinesSound /\ SpansInv /\ LaidInv /\ CommandsTaken(nodes, pos)
  /\ TreeOrdered(nodes) /\ KindsSound /\ ConditionalsClosed /\ OneAlternative

LEMMA ReadPrintable ==
  ASSUME TreeRead
  PROVE  /\ Printable /\ nodes \in Seq(Node) /\ rawlines \in Nat /\ tokens \in Seq(Token)
         /\ LinesEnd = IF LoneLastBackslash THEN rawlines ELSE rawlines + 1
         /\ built => finished /\ pos = Len(tokens) + 1 /\ comments = <<>>
<1>1. TokenizerTypeOK /\ nodes \in Seq(Node)
  BY DEF TreeRead, IInv, TypeOK
<1>2. MaxLines \in Nat /\ rawlines \in 0 .. MaxLines /\ tokens \in Seq(Token)
  BY <1>1, MaxLinesAssumption DEF TokenizerTypeOK
<1>3. rawlines \in Nat
  BY <1>2
<1>4. LinesEnd \in Nat
  BY <1>3 DEF LinesEnd, TreeRead, LaidInv, TailSound
<1> QED
  BY <1>1, <1>2, <1>3, <1>4 DEF TreeRead, Printable, LaidInv, LinesEnd, LoneLastBackslash

(* No two tokens are on the same lines.                                    *)
LEMMA OneToken ==
  ASSUME TreeRead, built, NEW i \in DOMAIN tokens, NEW j \in DOMAIN tokens,
         Stands(i), Stands(j), tokens[i].lines = tokens[j].lines
  PROVE  i = j
<1> DEFINE l == tokens[i].lines.a
<1>1. /\ 1 <= l /\ l < tokens[i].lines.b /\ tokens[i].lines.b <= rawlines + 1
      /\ tokens[i].lines.b <= LinesEnd
  <2>1. finished
    BY ReadPrintable
  <2> QED
    BY <2>1 DEF TreeRead, LinesSound, RangesWithinInput, LaidInv, TailSound
<1>2. l \in Nat /\ tokens[i].lines.b \in Nat /\ rawlines \in Nat
  <2>1. tokens[i] \in Token /\ rawlines \in Nat
    BY ReadPrintable
  <2>2. tokens[i].lines \in LineRange
    BY <2>1 DEF Token
  <2> QED
    BY <2>1, <2>2 DEF LineRange
<1>3. l \in TokenizedLines
  <2>1. finished /\ (LinesEnd = IF LoneLastBackslash THEN rawlines ELSE rawlines + 1)
    BY ReadPrintable
  <2> QED
    BY <1>1, <1>2, <2>1 DEF TokenizedLines, LoneLastBackslash
<1>4. Covers(i, l) /\ Covers(j, l)
  BY <1>1, <1>2 DEF Covers
<1>5. LinesTokenizedOnce
  BY LinesOnce DEF TreeRead, LinesSound
<1> QED
  BY <1>3, <1>4, <1>5 DEF LinesTokenizedOnce

LEMMA TakenUnassociated ==
  ASSUME TreeRead, built, NEW m \in DOMAIN nodes, nodes[m].type = "TARGET",
         Taken({"command", "no_op_command"}, nodes[m].line_start, pos)
  PROVE  Unassociated(m)
<1>1. PICK i \in DOMAIN tokens :
        tokens[i].type \in {"command", "no_op_command"} /\ tokens[i].lines = nodes[m].line_start
  BY DEF Taken
<1>2. ASSUME NEW j \in DOMAIN tokens, tokens[j].type = "target_start",
             tokens[j].lines = nodes[m].line_start
      PROVE  FALSE
  <2>1. Stands(i) /\ Stands(j)
    BY <1>1, <1>2 DEF Stands
  <2>2. i = j
    BY <1>1, <1>2, <2>1, OneToken
  <2> QED
    BY <1>1, <1>2, <2>2
<1> QED
  BY <1>2 DEF Unassociated

(* A target that has the line of its command had none of its own.          *)
LEMMA SharesUnassociated ==
  ASSUME TreeRead, built, NEW m \in DOMAIN nodes, NEW n \in DOMAIN nodes, Shares(nodes, m, n)
  PROVE  Unassociated(m)
<1>1. Taken({"command", "no_op_command"}, nodes[n].line_start, pos)
  BY DEF TreeRead, CommandsTaken, CommandTypes, Shares
<1>2. nodes[m].type = "TARGET" /\ nodes[m].line_start = nodes[n].line_start
  BY DEF Shares
<1> QED
  BY <1>1, <1>2, TakenUnassociated

(* So does a target without a token.                                       *)
LEMMA UnassociatedShares ==
  ASSUME TreeRead, built, NEW m \in DOMAIN nodes, Unassociated(m)
  PROVE  m + 1 \in DOMAIN nodes /\ Shares(nodes, m, m + 1)
<1>1. TargetTaken(nodes, m, pos)
  BY DEF TreeRead, LaidInv, TargetsTaken, Unassociated
<1>2. ~Taken({"target_start"}, nodes[m].line_start, pos)
  BY DEF Taken, Unassociated
<1> QED
  BY <1>1, <1>2 DEF TargetTaken

-----------------------------------------------------------------------------
(* A line that no node but one that is skipped has is missing.             *)
Has(range, l) == l \in range.a .. (range.b - 1)
LEMMA LineMissing ==
  ASSUME TreeRead, NEW x, NEW e, Skips(x, e), Root \notin {x, e}, NEW l \in 1 .. rawlines,
         \A k \in DOMAIN nodes \ {x} :
           /\ Begins(k) => ~Has(nodes[k].line_start, l)
           /\ Ends(nodes, k) => ~Has(nodes[k].line_end, l)
  PROVE  Output # Input
<1> DEFINE S == Nat \ {l}
<1>1. /\ Printable /\ nodes \in Seq(Node) /\ TreeOrdered(nodes) /\ OneAlternative
      /\ rawlines \in Nat
  BY ReadPrintable DEF Printable
<1>2. ASSUME NEW k \in DOMAIN nodes \ {x}
      PROVE  PrintsIn(k, S)
  <2>1. nodes[k].line_start \in LineRange /\ nodes[k].line_end \in LineRange
    BY <1>1, OwnLines
  <2>2. ASSUME NEW range \in LineRange, ~Has(range, l)
        PROVE  (range.a .. (range.b - 1)) \subseteq S
    BY <2>2 DEF LineRange, Has
  <2> HIDE DEF S
  <2>3. /\ Begins(k) => (nodes[k].line_start.a .. (nodes[k].line_start.b - 1)) \subseteq S
        /\ Ends(nodes, k) => (nodes[k].line_end.a .. (nodes[k].line_end.b - 1)) \subseteq S
    BY <2>1, <2>2
  <2> QED
    BY <1>1, <2>3, PrintsInAll
<1> DEFINE out == CHOOSE f : Writes(f)
<1>3. Writes(out) /\ Output = out[Root]
  BY <1>1, WritesExists, OutputIs
<1> HIDE DEF out
<1>4. Root \in DOMAIN nodes
  BY <1>1 DEF TreeOrdered, ParentsBelow
<1>5. Output \in Seq(S)
  <2> HIDE DEF S
  <2>1. \A n \in DOMAIN nodes \ {x, e} : out[n] \in Seq(S)
    BY <1>1, <1>2, <1>3, OutIn
  <2> QED
    BY <1>3, <1>4, <2>1
<1>6. l \in DOMAIN Input /\ Input[l] = l
  BY DEF Input
<1>7. \A i \in DOMAIN Output : Output[i] # l
  BY <1>5
<1> QED
  BY <1>6, <1>7

(* The lines of nodes and the lines blocks end on, where they meet.        *)
LEMMA StartsMeet ==
  ASSUME TreeRead, NEW m \in DOMAIN nodes \ {Root}, NEW k \in DOMAIN nodes \ {Root}, m # k,
         Has(nodes[k].line_start, nodes[m].line_start.a)
  PROVE  Shares(nodes, m, k) \/ Shares(nodes, k, m)
<1>1. /\ Inside(nodes[m].line_start, LinesEnd) /\ Inside(nodes[k].line_start, LinesEnd)
      /\ StartsApart(nodes)
  BY DEF TreeRead, LaidInv, Laid, AllInside
<1>2. /\ nodes[m].line_start \in LineRange /\ nodes[k].line_start \in LineRange
      /\ LinesEnd \in Nat /\ m \in Nat /\ k \in Nat
  BY ReadPrintable, OwnLines DEF Printable
<1>3. /\ nodes[m].line_start.a \in Nat /\ nodes[m].line_start.b \in Nat
      /\ nodes[k].line_start.a \in Nat /\ nodes[k].line_start.b \in Nat
      /\ nodes[m].line_start.a < nodes[m].line_start.b
      /\ nodes[k].line_start.a <= nodes[m].line_start.a /\ nodes[m].line_start.a < nodes[k].line_start.b
  BY <1>1, <1>2, InsideLines DEF Has
<1>4. CASE m < k
  BY <1>1, <1>3, <1>4 DEF StartsApart
<1>5. CASE k < m
  BY <1>1, <1>3, <1>5 DEF StartsApart
<1> QED
  BY <1>2, <1>4, <1>5

LEMMA EndsMeetNone ==
  ASSUME TreeRead, NEW m \in DOMAIN nodes \ {Root}, NEW p \in DOMAIN nodes, Ends(nodes, p),
         nodes[p].line_end # nodes[p].line_start
  PROVE  ~Has(nodes[p].line_end, nodes[m].line_start.a)
<1>1. p # Root
  BY DEF TreeRead, KindsSound, Ends, IfTypes
<1>2. /\ Inside(nodes[m].line_start, LinesEnd) /\ Inside(nodes[p].line_end, LinesEnd)
      /\ EndsApart(nodes)
  BY <1>1 DEF TreeRead, LaidInv, Laid, AllInside
<1>3. /\ nodes[m].line_start \in LineRange /\ nodes[p].line_end \in LineRange /\ LinesEnd \in Nat
  BY ReadPrintable, OwnLines DEF Printable
<1>4. /\ nodes[m].line_start.a \in Nat /\ nodes[m].line_start.b \in Nat
      /\ nodes[p].line_end.a \in Nat /\ nodes[p].line_end.b \in Nat
      /\ nodes[m].line_start.a < nodes[m].line_start.b
  BY <1>2, <1>3, InsideLines
<1>5. nodes[p].type \in BlockTypes
  BY DEF Ends, BlockTypes
<1>6. \/ nodes[m].line_start.b <= nodes[p].line_end.a
      \/ nodes[p].line_end.b <= nodes[m].line_start.a
  BY <1>2, <1>5 DEF EndsApart
<1> QED
  BY <1>4, <1>6 DEF Has

(* The first line of a node that is not printed and shares it with none.   *)
LEMMA StartMissing ==
  ASSUME TreeRead, NEW x, NEW e, Skips(x, e), Root \notin {x, e}, NEW m \in DOMAIN nodes \ {Root},
         m = x \/ nodes[m].type = "NO_OP_COMMAND",
         \A k \in DOMAIN nodes : ~Shares(nodes, m, k) /\ ~Shares(nodes, k, m)
  PROVE  Output # Input
<1> DEFINE l == nodes[m].line_start.a
<1>1. l \in 1 .. rawlines
  <2>1. Inside(nodes[m].line_start, LinesEnd) /\ nodes[m].line_start \in LineRange
    BY ReadPrintable, OwnLines DEF TreeRead, LaidInv, Laid, AllInside
  <2>2. LinesEnd \in Nat /\ rawlines \in Nat /\ LinesEnd <= rawlines + 1
    BY ReadPrintable DEF Printable, LinesEnd
  <2>3. /\ nodes[m].line_start.a \in Nat /\ nodes[m].line_start.b \in Nat
        /\ 1 <= nodes[m].line_start.a /\ nodes[m].line_start.a < nodes[m].line_start.b
        /\ nodes[m].line_start.b <= LinesEnd
    BY <2>1, <2>2, InsideLines
  <2> QED
    BY <2>2, <2>3
<1>2. ASSUME NEW k \in DOMAIN nodes \ {x}
      PROVE  /\ Begins(k) => ~Has(nodes[k].line_start, l)
             /\ Ends(nodes, k) => ~Has(nodes[k].line_end, l)
  <2>1. Begins(k) \/ Ends(nodes, k) => k # Root /\ k # m
    BY DEF TreeRead, KindsSound, Begins, Ends, IfTypes
  <2>2. k # Root /\ k # m => ~Has(nodes[k].line_start, l)
    BY StartsMeet
  <2>3. Ends(nodes, k) /\ nodes[k].line_end # nodes[k].line_start => ~Has(nodes[k].line_end, l)
    BY EndsMeetNone
  <2> HIDE DEF l
  <2>4. CASE nodes[k].line_end # nodes[k].line_start
    BY <2>1, <2>2, <2>3, <2>4
  <2>5. CASE nodes[k].line_end = nodes[k].line_start
    BY <2>1, <2>2, <2>5
  <2> QED
    BY <2>4, <2>5
<1> HIDE DEF l
<1> QED
  BY <1>1, <1>2, LineMissing

(* A last line of nothing but a backslash.                                 *)
LEMMA LoneMissing ==
  ASSUME TreeRead, built, LoneLastBackslash
  PROVE  Output # Input
<1>1. Skips(0, 0) /\ Root \notin {0, 0}
  BY DEF Skips, NoNode, Root
<1>2. LinesEnd = rawlines /\ LinesEnd \in Nat /\ Printable
  BY ReadPrintable DEF Printable
<1>3. rawlines \in 1 .. rawlines
  <2>1. rawlines >= 1
    BY DEF TreeRead, LaidInv, TailSound, LoneLastBackslash
  <2> QED
    BY <1>2, <2>1
<1>4. ASSUME NEW k \in DOMAIN nodes
      PROVE  /\ Begins(k) => ~Has(nodes[k].line_start, rawlines)
             /\ Ends(nodes, k) => ~Has(nodes[k].line_end, rawlines)
  <2>1. ASSUME NEW range \in LineRange, Inside(range, LinesEnd)
        PROVE  ~Has(range, rawlines)
    <3>1. range.b \in Nat /\ range.b <= rawlines
      BY <1>2, <2>1, InsideLines
    <3> QED
      BY <1>2, <3>1 DEF Has
  <2> QED
    BY <1>2, <2>1, OwnLines
<1> QED
  BY <1>1, <1>3, <1>4, LineMissing

(* The second branch behind an .else is not printed.                       *)
LEMMA BranchMissing ==
  ASSUME TreeRead, built, BranchAfterElse
  PROVE  Output # Input
<1>1. PICK x \in DOMAIN nodes :
        /\ nodes[x].ifparent # NoNode
        /\ nodes[nodes[x].ifparent].type = "ELSE"
        /\ nodes[nodes[x].ifparent].ifparent # NoNode
  BY DEF BranchAfterElse
<1> DEFINE e == nodes[x].ifparent
<1>2. x # Root /\ e # Root /\ nodes[x].type \in IfTypes /\ nodes[e].type \in IfTypes
  BY <1>1 DEF TreeRead, TreeOrdered, BranchesLast, KindsSound, IfTypes
<1>3. e \in DOMAIN nodes
  <2>1. nodes[x].parent = e /\ nodes[x].parent \in 1 .. (x - 1)
    BY <1>1, <1>2 DEF TreeRead, TreeOrdered, BranchesLast, ParentsBelow
  <2>2. nodes \in Seq(Node)
    BY ReadPrintable
  <2> HIDE DEF e
  <2> QED
    BY <2>1, <2>2
<1>4. Skips(x, e)
  BY <1>1, <1>3 DEF Skips, SkipsBranch
<1>5. ASSUME NEW k \in DOMAIN nodes
      PROVE  ~Shares(nodes, x, k) /\ ~Shares(nodes, k, x)
  BY <1>2 DEF Shares, IfTypes
<1> HIDE DEF e
<1> QED
  BY <1>2, <1>4, <1>5, StartMissing

(* A command without words that is not the first of a target of its own.   *)
LEMMA NoOpMissing ==
  ASSUME TreeRead, built, NoOpCommandLine
  PROVE  Output # Input
<1>1. PICK n \in DOMAIN nodes :
        /\ nodes[n].type = "NO_OP_COMMAND"
        /\ ~(Unassociated(n - 1) /\ nodes[n].line_start = nodes[n - 1].line_start)
  BY DEF NoOpCommandLine
<1>2. n # Root /\ nodes \in Seq(Node)
  BY <1>1, ReadPrintable DEF TreeRead, KindsSound
<1>3. Skips(0, 0) /\ Root \notin {0, 0}
  BY DEF Skips, NoNode, Root
<1>4. ASSUME NEW k \in DOMAIN nodes
      PROVE  ~Shares(nodes, n, k) /\ ~Shares(nodes, k, n)
  <2>1. ~Shares(nodes, n, k)
    BY <1>1 DEF Shares
  <2>2. ASSUME Shares(nodes, k, n)
        PROVE  FALSE
    <3>1. Unassociated(k) /\ nodes[n].line_start = nodes[k].line_start /\ n = k + 1
      BY <2>2, SharesUnassociated DEF Shares
    <3>2. n - 1 = k
      BY <1>2, <3>1
    <3> QED
      BY <1>1, <3>1, <3>2
  <2> QED
    BY <2>1, <2>2
<1> QED
  BY <1>1, <1>2, <1>3, <1>4, StartMissing

-----------------------------------------------------------------------------
(* When the whole output grows, so does what is printed for each node.     *)
LEMMA PartsIncrease ==
  ASSUME Printable, ~BranchAfterElse, NEW out, Writes(out), Increasing(out[Root])
  PROVE  \A n \in DOMAIN nodes : Increasing(out[n])
<1> DEFINE K == {d \in Nat : \A n \in DOMAIN nodes : n <= d => Increasing(out[n])}
<1>1. /\ nodes \in Seq(Node) /\ TreeOrdered(nodes) /\ DOMAIN nodes \subseteq Nat
      /\ \A n \in DOMAIN nodes : n >= 1
  BY DEF Printable
<1>2. 0 \in K
  BY <1>1
<1>3. ASSUME NEW d \in Nat, d \in K
      PROVE  d + 1 \in K
  <2> SUFFICES ASSUME NEW n \in DOMAIN nodes, n <= d + 1
               PROVE  Increasing(out[n])
    OBVIOUS
  <2>1. CASE n = Root
    BY <2>1
  <2>2. CASE n # Root
    <3> DEFINE p == nodes[n].parent
               ch == Children(p)
               D == DOMAIN nodes
               m == Mapped(out, ch)
    <3>1. p \in 1 .. (n - 1)
      BY <1>1, <2>2 DEF TreeOrdered, ParentsBelow
    <3>2. p \in DOMAIN nodes /\ p <= d
      BY <1>1, <3>1
    <3>3. n \in ChildrenOf(p)
      BY <2>2 DEF ChildrenOf
    <3> HIDE DEF p
    <3>4. Increasing(out[p])
      BY <1>3, <3>2
    <3>5. /\ out[p] = Begin(p) \o (m \o Finish(p))
          /\ Begin(p) \in Seq(Nat) /\ Finish(p) \in Seq(Nat) /\ m \in Seq(Nat)
          /\ ch \in Seq(D) /\ Ascends(ch, ChildrenOf(p))
      BY <3>2, OutPlain
    <3>6. PICK k \in DOMAIN ch : ch[k] = n
      BY <3>3, <3>5 DEF Ascends
    <3>7. Into(out, D, Nat)
      BY OutTyped DEF Into, Maps
    <3> HIDE DEF D, ch, m
    <3>8. Increasing(m)
      <4> DEFINE rest == m \o Finish(p)
      <4>1. rest \in Seq(Nat)
        BY <3>5
      <4> HIDE DEF rest
      <4>2. Increasing(rest)
        BY <3>4, <3>5, <4>1, IncreasingConcat DEF rest
      <4> QED
        BY <3>5, <4>2, IncreasingConcat DEF rest
    <3>9. Part(out[n], Mapped(out, ch)) /\ out[n] \in Seq(Nat)
      BY <3>5, <3>6, <3>7, MappedParts
    <3> QED
      BY <3>8, <3>9, PartIncreasing DEF m
  <2> QED
    BY <2>1, <2>2
<1>4. \A d \in Nat : d \in K
  <2> HIDE DEF K
  <2> QED
    BY <1>2, <1>3, SetInduction
<1> TAKE n \in DOMAIN nodes
<1>5. n \in K /\ n <= n
  <2> HIDE DEF K
  <2> QED
    BY <1>1, <1>4
<1> QED
  BY <1>5

LEMMA OutGrows ==
  ASSUME TreeRead, ~BranchAfterElse, Output = Input
  PROVE  \E out : Writes(out) /\ \A n \in DOMAIN nodes : Increasing(out[n])
<1>1. /\ Printable /\ nodes \in Seq(Node) /\ TreeOrdered(nodes)
  BY ReadPrintable DEF Printable
<1> DEFINE out == CHOOSE f : Writes(f)
<1>2. Writes(out) /\ Output = out[Root]
  BY <1>1, WritesExists, OutputIs
<1> HIDE DEF out
<1>3. Increasing(Input)
  <2>1. rawlines \in Nat
    BY ReadPrintable
  <2> QED
    BY <2>1 DEF Increasing, Input
<1> QED
  BY <1>1, <1>2, <1>3, PartsIncrease

(* The lines of a node begin with its first.                               *)
LEMMA FirstLine ==
  ASSUME Printable, NEW n \in DOMAIN nodes, Begins(n)
  PROVE  \E i \in DOMAIN RawLines(nodes[n].line_start) :
           RawLines(nodes[n].line_start)[i] = nodes[n].line_start.a
<1>1. nodes[n].line_start \in LineRange /\ Inside(nodes[n].line_start, LinesEnd) /\ LinesEnd \in Nat
  BY OwnLines DEF Printable
<1>2. /\ nodes[n].line_start.a <= nodes[n].line_start.b
      /\ nodes[n].line_start.a \in nodes[n].line_start.a .. (nodes[n].line_start.b - 1)
  BY <1>1, InsideLines
<1> QED
  BY <1>1, <1>2, RawLinesAre DEF Ascends

(* What is in p is in st.                                                  *)
AllIn(p, st) == \A i \in DOMAIN p : \E k \in DOMAIN st : st[k] = p[i]

LEMMA ConcatHas ==
  ASSUME NEW T, NEW s \in Seq(T), NEW t \in Seq(T)
  PROVE  AllIn(s, s \o t) /\ AllIn(t, s \o t)
<1> DEFINE st == s \o t
<1>1. /\ \A i \in DOMAIN s : i \in DOMAIN st /\ st[i] = s[i]
      /\ \A j \in DOMAIN t : Len(s) + j \in DOMAIN st /\ st[Len(s) + j] = t[j]
  BY ConcatAt
<1> HIDE DEF st
<1> QED
  BY <1>1 DEF AllIn, st

(* The line of a .for that is not closed is printed twice.                 *)
LEMMA UnclosedTwice ==
  ASSUME TreeRead, ~BranchAfterElse, UnclosedFor
  PROVE  Output # Input
<1> SUFFICES ASSUME Output = Input
             PROVE  FALSE
  OBVIOUS
<1>1. PICK n \in DOMAIN nodes : nodes[n].type = "FOR" /\ nodes[n].line_end = nodes[n].line_start
  BY DEF UnclosedFor, Closed
<1>2. PICK out : Writes(out) /\ Increasing(out[n])
  BY OutGrows
<1>3. Printable
  BY ReadPrintable
<1> DEFINE m == Mapped(out, Children(n))
           s == RawLines(nodes[n].line_start)
<1>4. /\ out[n] = Begin(n) \o (m \o Finish(n))
      /\ Begin(n) \in Seq(Nat) /\ Finish(n) \in Seq(Nat) /\ m \in Seq(Nat)
  BY <1>2, <1>3, OutPlain
<1>5. Begins(n) /\ Begin(n) = s /\ Finish(n) = s
  BY <1>1 DEF Begins, Begin, Finish, Ends
<1>6. PICK i \in DOMAIN s : s[i] = nodes[n].line_start.a
  BY <1>3, <1>5, FirstLine
<1> DEFINE rest == m \o s
<1> HIDE DEF m, s
<1>7. rest \in Seq(Nat) /\ s \in Seq(Nat) /\ s[i] \in Nat
  BY <1>4, <1>5
<1>8. rest = m \o s
  OBVIOUS
<1> HIDE DEF rest
<1>9. out[n] = s \o rest
  BY <1>4, <1>5 DEF rest
<1>10. \A j \in DOMAIN rest : s[i] < rest[j]
  BY <1>2, <1>7, <1>9, IncreasingConcat
<1>11. AllIn(s, rest)
  BY <1>4, <1>7, <1>8, ConcatHas
<1> QED
  BY <1>7, <1>10, <1>11 DEF AllIn

(* So is that of a command that a target is put in for.                    *)
LEMMA CommandTwice ==
  ASSUME TreeRead, built, ~BranchAfterElse, UnassociatedCommand
  PROVE  Output # Input
<1> SUFFICES ASSUME Output = Input
             PROVE  FALSE
  OBVIOUS
<1>1. PICK n \in DOMAIN nodes : Unassociated(n) /\ nodes[n + 1].type = "COMMAND"
  BY DEF UnassociatedCommand
<1> DEFINE c == n + 1
<1>2. c \in DOMAIN nodes /\ Shares(nodes, n, c)
  BY <1>1, UnassociatedShares
<1>3. /\ nodes[n].type = "TARGET" /\ nodes[c].type = "COMMAND" /\ nodes[c].parent = n
      /\ nodes[c].line_start = nodes[n].line_start /\ c # Root
  <2>1. c # Root
    BY <1>1, <1>2 DEF TreeRead, KindsSound
  <2> QED
    BY <1>1, <1>2, <2>1 DEF Shares
<1> HIDE DEF c
<1>4. PICK out : Writes(out) /\ Increasing(out[n])
  BY OutGrows
<1>5. Printable
  BY ReadPrintable
<1> DEFINE D == DOMAIN nodes
           ch == Children(n)
           m == Mapped(out, ch)
           s == RawLines(nodes[n].line_start)
<1>6. /\ out[n] = Begin(n) \o (m \o Finish(n))
      /\ Begin(n) \in Seq(Nat) /\ Finish(n) \in Seq(Nat) /\ m \in Seq(Nat)
      /\ ch \in Seq(D) /\ Ascends(ch, ChildrenOf(n))
  BY <1>4, <1>5, OutPlain
<1>7. Begins(n) /\ Begin(n) = s /\ Begins(c) /\ Begin(c) = s
  BY <1>3 DEF Begins, Begin
<1>8. PICK i \in DOMAIN s : s[i] = nodes[n].line_start.a
  BY <1>5, <1>7, FirstLine
<1>9. PICK k \in DOMAIN ch : ch[k] = c
  BY <1>2, <1>3, <1>6 DEF Ascends, ChildrenOf
<1>10. Into(out, D, Nat)
  BY <1>4, <1>5, OutTyped DEF Into, Maps
<1>11. /\ out[c] = s \o (Mapped(out, Children(c)) \o Finish(c))
       /\ Finish(c) \in Seq(Nat) /\ Mapped(out, Children(c)) \in Seq(Nat)
  BY <1>2, <1>4, <1>5, <1>7, OutPlain
<1> HIDE DEF D, ch, m, s
<1>12. Part(out[c], m) /\ out[c] \in Seq(Nat)
  BY <1>6, <1>9, <1>10, MappedParts DEF m
<1>13. \E j \in DOMAIN out[c] : out[c][j] = s[i]
  <2> DEFINE rest == Mapped(out, Children(c)) \o Finish(c)
  <2>1. rest \in Seq(Nat) /\ s \in Seq(Nat) /\ out[c] = s \o rest
    BY <1>6, <1>7, <1>11
  <2> HIDE DEF rest
  <2> QED
    <3>1. AllIn(s, out[c])
      BY <2>1, ConcatHas
    <3> QED
      BY <3>1 DEF AllIn
<1>14. PICK h \in DOMAIN m : m[h] = s[i]
  BY <1>12, <1>13, PartIncreasing
<1> DEFINE rest == m \o Finish(n)
<1>15. rest \in Seq(Nat) /\ s \in Seq(Nat) /\ s[i] \in Nat
  BY <1>6, <1>7
<1> HIDE DEF rest
<1>16. \E j \in DOMAIN rest : rest[j] = s[i]
  <2>1. rest = m \o Finish(n)
    BY DEF rest
  <2> QED
    <3>1. AllIn(m, rest)
      BY <1>6, <2>1, ConcatHas
    <3> QED
      BY <1>14, <3>1 DEF AllIn
<1>17. out[n] = s \o rest
  BY <1>6, <1>7 DEF rest
<1>18. \A j \in DOMAIN rest : s[i] < rest[j]
  BY <1>4, <1>15, <1>17, IncreasingConcat
<1> QED
  BY <1>15, <1>16, <1>18

-----------------------------------------------------------------------------
(* None of the shapes that are not given back.                             *)
Plain ==
  /\ TreeRead /\ built /\ ~LoneLastBackslash /\ ~UnclosedFor /\ ~BranchAfterElse
  /\ ~NoOpCommandLine /\ ~UnassociatedCommand

(* The lines printed for a node, before and after what is in it.           *)
OwnStart(n) ==
  IF Begins(n) THEN nodes[n].line_start.a .. (nodes[n].line_start.b - 1) ELSE {}
OwnEnd(n) ==
  IF Ends(nodes, n) THEN nodes[n].line_end.a .. (nodes[n].line_end.b - 1) ELSE {}
Own(n) == OwnStart(n) \cup OwnEnd(n)

LEMMA OwnAscends ==
  ASSUME Printable, NEW n \in DOMAIN nodes
  PROVE  /\ Ascends(Begin(n), OwnStart(n)) /\ Ascends(Finish(n), OwnEnd(n))
         /\ OwnStart(n) \subseteq Nat /\ OwnEnd(n) \subseteq Nat
<1>1. Ascends(<<>>, {})
  BY DEF Ascends, Increasing
<1>2. LinesEnd \in Nat
  BY DEF Printable
<1>3. ASSUME Begins(n)
      PROVE  Ascends(Begin(n), OwnStart(n)) /\ OwnStart(n) \subseteq Nat
  <2>1. nodes[n].line_start \in LineRange /\ Inside(nodes[n].line_start, LinesEnd)
    BY <1>3, OwnLines
  <2>2. nodes[n].line_start.a <= nodes[n].line_start.b /\ OwnStart(n) \subseteq Nat
    BY <1>2, <2>1, InsideLines DEF OwnStart
  <2>3. Ascends(Begin(n), OwnStart(n))
    BY <1>3, <2>1, <2>2, RawLinesAre DEF Begin, OwnStart
  <2> QED
    BY <2>2, <2>3
<1>4. ASSUME Ends(nodes, n)
      PROVE  Ascends(Finish(n), OwnEnd(n)) /\ OwnEnd(n) \subseteq Nat
  <2>1. nodes[n].line_end \in LineRange /\ Inside(nodes[n].line_end, LinesEnd)
    BY <1>4, OwnLines
  <2>2. nodes[n].line_end.a <= nodes[n].line_end.b /\ OwnEnd(n) \subseteq Nat
    BY <1>2, <2>1, InsideLines DEF OwnEnd
  <2>3. Ascends(Finish(n), OwnEnd(n))
    BY <1>4, <2>1, <2>2, RawLinesAre DEF Finish, OwnEnd
  <2> QED
    BY <2>2, <2>3
<1>5. ~Begins(n) => Begin(n) = <<>> /\ OwnStart(n) = {}
  BY DEF Begin, OwnStart
<1>6. ~Ends(nodes, n) => Finish(n) = <<>> /\ OwnEnd(n) = {}
  BY DEF Finish, OwnEnd
<1>7. Ascends(Begin(n), OwnStart(n)) /\ OwnStart(n) \subseteq Nat
  BY <1>1, <1>3, <1>5
<1>8. Ascends(Finish(n), OwnEnd(n)) /\ OwnEnd(n) \subseteq Nat
  BY <1>1, <1>4, <1>6
<1> QED
  BY <1>7, <1>8

(* Every block whose end is printed was closed.                            *)
LEMMA EndsClosed ==
  ASSUME Plain, NEW n \in DOMAIN nodes, Ends(nodes, n)
  PROVE  /\ nodes[n].line_end # nodes[n].line_start /\ nodes[n].type \in BlockTypes
         /\ nodes[n].line_start.b <= nodes[n].line_end.a
<1>1. nodes[n].line_end # nodes[n].line_start /\ nodes[n].type \in BlockTypes
  BY DEF Plain, Ends, BlockTypes, UnclosedFor, TreeRead, ConditionalsClosed, Closed
<1> QED
  BY <1>1 DEF Plain, TreeRead, LaidInv, Laid, EndsApart

(* What is inside of it is what is below it in the tree.                   *)
LEMMA SpanEnds ==
  ASSUME Plain, NEW p \in DOMAIN nodes, Ends(nodes, p)
  PROVE  Spanned(nodes, p, LastBelow(p))
<1> DEFINE r == LastBelow(p)
           size == Len(nodes)
<1>1. nodes \in Seq(Node) /\ ParentsBelow(nodes) /\ p \in Nat /\ size \in Nat /\ DOMAIN nodes = 1 .. size
  BY ReadPrintable DEF Plain, TreeRead, TreeOrdered
<1>2. PICK q \in p .. size : Spanned(nodes, p, q)
  BY EndsClosed DEF Plain, TreeRead, SpansInv, TreeSpans, BlocksSpanned
<1>3. /\ r \in p .. size
      /\ \A m \in (p + 1) .. r : nodes[m].parent >= p
      /\ r < size => nodes[r + 1].parent < p
  BY <1>1, LastBelowIs DEF Reaches
<1> HIDE DEF r, size
<1>4. ~(r < q)
  <2> SUFFICES ASSUME r < q
               PROVE  FALSE
    OBVIOUS
  <2>1. r + 1 \in (p + 1) .. q /\ r < size
    BY <1>1, <1>2, <1>3
  <2>2. nodes[r + 1].parent \in p .. q
    BY <1>2, <2>1 DEF Spanned
  <2> QED
    BY <1>1, <1>3, <2>1, <2>2
<1>5. ~(q < r)
  <2> SUFFICES ASSUME q < r
               PROVE  FALSE
    OBVIOUS
  <2>1. /\ q + 1 \in (p + 1) .. r /\ q + 1 \in (q + 1) .. size /\ q + 1 \in DOMAIN nodes \ {Root}
        /\ (q + 1) - 1 = q
    BY <1>1, <1>2, <1>3 DEF Root
  <2>2. nodes[q + 1].parent \in 1 .. q
    BY <1>1, <2>1 DEF ParentsBelow
  <2>3. nodes[q + 1].parent >= p
    BY <1>3, <2>1
  <2>4. nodes[q + 1].parent < p \/ nodes[q + 1].parent > q
    BY <1>2, <2>1 DEF Spanned, size
  <2> QED
    BY <1>1, <1>2, <2>2, <2>3, <2>4
<1>6. r = q
  BY <1>1, <1>2, <1>3, <1>4, <1>5
<1> QED
  BY <1>2, <1>6 DEF r

(* Where the lines of a node are.                                          *)
LEMMA OwnBetween ==
  ASSUME Plain, NEW m \in DOMAIN nodes, m # Root, NEW b \in Own(m)
  PROVE  /\ b \in Nat /\ nodes[m].line_start.a <= b
         /\ \/ Begins(m) /\ b < nodes[m].line_start.b
            \/ Ends(nodes, m) /\ nodes[m].line_start.b <= b /\ b < nodes[m].line_end.b
         /\ Begins(m) \/ Ends(nodes, m)
<1>1. Begins(m) \/ Ends(nodes, m)
  BY DEF Own, OwnStart, OwnEnd
<1>2. /\ Inside(nodes[m].line_start, LinesEnd) /\ Inside(nodes[m].line_end, LinesEnd)
      /\ nodes[m].line_start \in LineRange /\ nodes[m].line_end \in LineRange /\ LinesEnd \in Nat
  BY <1>1, ReadPrintable, OwnLines DEF Plain, Printable
<1>3. /\ nodes[m].line_start.a \in Nat /\ nodes[m].line_start.b \in Nat
      /\ nodes[m].line_start.a < nodes[m].line_start.b
      /\ nodes[m].line_end.a \in Nat /\ nodes[m].line_end.b \in Nat
  BY <1>2, InsideLines
<1>4. CASE b \in OwnStart(m)
  BY <1>1, <1>3, <1>4 DEF OwnStart
<1>5. CASE b \in OwnEnd(m)
  <2>1. Ends(nodes, m) /\ nodes[m].line_end.a <= b /\ b < nodes[m].line_end.b /\ b \in Nat
    BY <1>3, <1>5 DEF OwnEnd
  <2>2. nodes[m].line_start.b <= nodes[m].line_end.a
    BY <2>1, EndsClosed
  <2> QED
    BY <1>3, <2>1, <2>2
<1> QED
  BY <1>4, <1>5 DEF Own

(* A node begins before everything that is created later.                  *)
LEMMA StartFirst ==
  ASSUME Plain, NEW k \in DOMAIN nodes, NEW m \in DOMAIN nodes, k < m,
         NEW a \in OwnStart(k), NEW b \in Own(m)
  PROVE  a < b
<1>1. Begins(k) /\ k # Root
  BY DEF OwnStart, Begins, Plain, TreeRead, KindsSound
<1>2. m # Root /\ nodes \in Seq(Node)
  BY ReadPrintable DEF Plain, Root
<1>3. /\ b \in Nat /\ nodes[m].line_start.a <= b /\ (Begins(m) \/ Ends(nodes, m))
  BY <1>2, OwnBetween
<1>4. ~Shares(nodes, k, m)
  <2> SUFFICES ASSUME Shares(nodes, k, m)
               PROVE  FALSE
    OBVIOUS
  <2>1. nodes[m].type = "COMMAND" /\ m = k + 1
    BY <1>3 DEF Shares, Begins, Ends, IfTypes
  <2>2. Unassociated(k)
    BY SharesUnassociated DEF Plain
  <2> QED
    BY <2>1, <2>2 DEF Plain, UnassociatedCommand
<1>5. nodes[k].line_start.b <= nodes[m].line_start.a
  BY <1>4 DEF Plain, TreeRead, LaidInv, Laid, StartsApart
<1>6. a \in Nat /\ a < nodes[k].line_start.b /\ nodes[k].line_start.b \in Nat /\ nodes[m].line_start.a \in Nat
  <2>1. nodes[k].line_start \in LineRange /\ nodes[m].line_start \in LineRange
    BY ReadPrintable, OwnLines DEF Plain
  <2> QED
    BY <1>1, <2>1 DEF LineRange, OwnStart
<1> QED
  BY <1>3, <1>5, <1>6

(* It ends behind everything that is in it, and before everything behind.  *)
LEMMA EndLast ==
  ASSUME Plain, NEW k \in DOMAIN nodes, NEW m \in DOMAIN nodes, k < m,
         NEW a \in OwnEnd(k), NEW b \in Own(m)
  PROVE  IF m <= LastBelow(k) THEN b < a ELSE a < b
<1>1. Ends(nodes, k) /\ m # Root /\ nodes \in Seq(Node) /\ m \in Nat /\ k \in Nat
  BY ReadPrintable DEF OwnEnd, Plain, Root
<1>2. /\ Spanned(nodes, k, LastBelow(k)) /\ nodes[k].line_end # nodes[k].line_start
      /\ nodes[k].type \in BlockTypes
  BY <1>1, SpanEnds, EndsClosed
<1>3. /\ b \in Nat /\ nodes[m].line_start.a <= b
      /\ \/ b < nodes[m].line_start.b
         \/ nodes[m].line_start.b <= b /\ b < nodes[m].line_end.b
  BY <1>1, OwnBetween
<1>4. LastBelow(k) \in Nat /\ Len(nodes) \in Nat /\ DOMAIN nodes = 1 .. Len(nodes)
  BY <1>1, LastBelowIs DEF Reaches
<1>5. /\ a \in Nat /\ nodes[k].line_end.a <= a /\ a < nodes[k].line_end.b
      /\ nodes[k].line_end.a \in Nat /\ nodes[k].line_end.b \in Nat
      /\ nodes[m].line_start.a \in Nat /\ nodes[m].line_start.b \in Nat /\ nodes[m].line_end.b \in Nat
  <2>1. nodes[k].line_end \in LineRange /\ nodes[m].line_start \in LineRange /\ nodes[m].line_end \in LineRange
    BY ReadPrintable, OwnLines DEF Plain
  <2> QED
    BY <1>1, <2>1 DEF LineRange, OwnEnd
<1>6. CASE m <= LastBelow(k)
  <2>1. m \in (k + 1) .. LastBelow(k)
    BY <1>1, <1>4, <1>6
  <2>2. nodes[m].line_end.b <= nodes[k].line_end.a
    BY <1>2, <2>1 DEF Spanned
  <2>3. \/ nodes[m].line_start.b <= nodes[k].line_end.a
        \/ nodes[k].line_end.b <= nodes[m].line_end.b
    BY <1>2 DEF Plain, TreeRead, LaidInv, Laid, EndsApart
  <2> QED
    BY <1>3, <1>5, <1>6, <2>2, <2>3
<1>7. CASE ~(m <= LastBelow(k))
  <2>1. m \in (LastBelow(k) + 1) .. Len(nodes)
    BY <1>1, <1>4, <1>7
  <2>2. nodes[k].line_end.b <= nodes[m].line_start.a
    BY <1>2, <2>1 DEF Spanned
  <2> QED
    BY <1>3, <1>5, <1>7, <2>2
<1> QED
  BY <1>6, <1>7

LEMMA StartThenEnd ==
  ASSUME Plain, NEW n \in DOMAIN nodes, NEW a \in OwnStart(n), NEW b \in OwnEnd(n)
  PROVE  a < b
<1>1. Begins(n) /\ Ends(nodes, n)
  BY DEF OwnStart, OwnEnd
<1>2. nodes[n].line_start.b <= nodes[n].line_end.a
  BY <1>1, EndsClosed
<1>3. nodes[n].line_start \in LineRange /\ nodes[n].line_end \in LineRange
  BY ReadPrintable, OwnLines DEF Plain
<1> QED
  BY <1>1, <1>2, <1>3 DEF LineRange, OwnStart, OwnEnd

-----------------------------------------------------------------------------
(* The lines that are printed for the nodes from a to b.                   *)
OwnIn(a, b) == {l \in Nat : \E k \in a .. b : l \in Own(k)}

LEMMA OwnInParts ==
  ASSUME NEW a \in Nat, NEW b \in Nat, NEW c \in Nat, a <= b + 1, b <= c
  PROVE  /\ OwnIn(a, b) \cup OwnIn(b + 1, c) = OwnIn(a, c)
         /\ OwnIn(a, b) \subseteq Nat
<1>1. \A k : k \in a .. c <=> k \in a .. b \/ k \in (b + 1) .. c
  OBVIOUS
<1> QED
  BY <1>1 DEF OwnIn

LEMMA OwnInOne ==
  ASSUME NEW n \in Nat, Own(n) \subseteq Nat
  PROVE  OwnIn(n, n) = Own(n) /\ OwnIn(n + 1, n) = {}
<1>1. \A k : k \in n .. n <=> k = n
  OBVIOUS
<1>2. \A k : k \notin (n + 1) .. n
  OBVIOUS
<1> QED
  BY <1>1, <1>2 DEF OwnIn

(* What is printed for a node and what is below it comes before everything *)
(* behind that.                                                            *)
LEMMA EarlierFirst ==
  ASSUME Plain, NEW k \in DOMAIN nodes, NEW m \in DOMAIN nodes, LastBelow(k) < m,
         NEW a \in Own(k), NEW b \in Own(m)
  PROVE  a < b
<1>1. nodes \in Seq(Node)
  BY ReadPrintable DEF Plain
<1>2. LastBelow(k) \in Nat /\ k <= LastBelow(k) /\ k \in Nat /\ m \in Nat
  BY <1>1, SubtreesAre
<1>3. k < m /\ ~(m <= LastBelow(k))
  BY <1>2
<1>4. CASE a \in OwnStart(k)
  BY <1>3, <1>4, StartFirst
<1>5. CASE a \in OwnEnd(k)
  BY <1>3, <1>5, EndLast
<1> QED
  BY <1>4, <1>5 DEF Own

(* What is printed for the children of a node, in a row.                   *)
LEMMA ChildrenAscend ==
  ASSUME Plain, NEW out, Maps(out, DOMAIN nodes, Nat), NEW n \in DOMAIN nodes,
         \A c \in DOMAIN nodes : c > n => Ascends(out[c], OwnIn(c, LastBelow(c))),
         NEW ch, Ascends(ch, ChildrenOf(n))
  PROVE  Ascends(Mapped(out, ch), OwnIn(n + 1, LastBelow(n)))
<1> DEFINE P(j) == [i \in 1 .. j |-> ch[i]]
           S == DOMAIN nodes
           K == {j \in Nat : j <= Len(ch) =>
                   Ascends(Mapped(out, P(j)), OwnIn(n + 1, UpTo(n, ch, j)))}
<1>1. /\ nodes \in Seq(Node) /\ TreeOrdered(nodes) /\ Len(nodes) \in Nat /\ S = 1 .. Len(nodes)
      /\ n \in Nat
  BY ReadPrintable DEF Plain, TreeRead
<1>2. ch \in Seq(S) /\ Len(ch) \in Nat /\ \A i \in 1 .. Len(ch) : ch[i] \in S
  <2>1. ch \in Seq(ChildrenOf(n))
    BY DEF Ascends
  <2>2. ChildrenOf(n) \subseteq S
    BY DEF ChildrenOf
  <2> HIDE DEF S
  <2>3. ch \in Seq(S)
    BY <2>1, <2>2, SeqWider
  <2> QED
    BY <2>3
<1>3. ASSUME NEW j \in Nat, j <= Len(ch)
      PROVE  P(j) \in Seq(S)
  BY <1>2, <1>3
<1>4. 0 \in K
  <2>1. P(0) = <<>>
    OBVIOUS
  <2>2. Mapped(out, P(0)) = <<>>
    BY <2>1, MappedNone
  <2>3. OwnIn(n + 1, UpTo(n, ch, 0)) = {}
    <3>1. UpTo(n, ch, 0) = n
      BY DEF UpTo
    <3>2. \A k : k \notin (n + 1) .. n
      BY <1>1
    <3> QED
      BY <3>1, <3>2 DEF OwnIn
  <2>4. Ascends(<<>>, {})
    BY DEF Ascends, Increasing
  <2> QED
    BY <2>2, <2>3, <2>4
<1>5. ASSUME NEW j \in Nat, j \in K
      PROVE  j + 1 \in K
  <2> SUFFICES ASSUME j + 1 <= Len(ch)
               PROVE  Ascends(Mapped(out, P(j + 1)), OwnIn(n + 1, UpTo(n, ch, j + 1)))
    OBVIOUS
  <2> DEFINE c == ch[j + 1]
             u == UpTo(n, ch, j)
             q == LastBelow(c)
  <2>1. j \in 0 .. Len(ch) /\ j < Len(ch) /\ j + 1 \in 1 .. Len(ch) /\ j <= Len(ch)
    BY <1>2
  <2>2. Ascends(Mapped(out, P(j)), OwnIn(n + 1, u))
    BY <1>5, <2>1
  <2>3. u \in n .. Len(nodes) /\ c = u + 1
    BY <1>1, <2>1, ChildrenFollow
  <2>4. c \in S /\ P(j) \in Seq(S) /\ c \in ChildrenOf(n)
    <3>1. c \in S /\ P(j) \in Seq(S)
      BY <1>2, <1>3, <2>1
    <3>2. ch \in Seq(ChildrenOf(n))
      BY DEF Ascends
    <3>3. c \in ChildrenOf(n)
      BY <1>2, <2>1, <3>2
    <3> QED
      BY <3>1, <3>3
  <2>5. P(j + 1) = Append(P(j), c)
    BY <1>2, <2>1
  <2>6. q \in Nat /\ c <= q /\ q <= Len(nodes)
    BY <1>1, <2>4, SubtreesAre
  <2>7. Mapped(out, Append(P(j), c)) = Mapped(out, P(j)) \o out[c]
    <3> HIDE DEF P, c, S
    <3> QED
      BY <2>4, MappedAppend DEF S
  <2>8. UpTo(n, ch, j + 1) = q
    <3>1. j + 1 # 0
      OBVIOUS
    <3> QED
      BY <3>1 DEF UpTo
  <2>9. Ascends(out[c], OwnIn(c, q))
    <3>1. c > n
      BY <1>1, <2>3
    <3> QED
      BY <2>4, <3>1
  <2>10. nodes[c].parent = n
    BY <2>4 DEF ChildrenOf
  <2> HIDE DEF c, u, q, P, K, S
  <2>11. ASSUME NEW k \in (n + 1) .. u
         PROVE  k \in S /\ LastBelow(k) <= u
    <3>1. k \in S /\ k \in Nat /\ u \in Nat
      BY <1>1, <2>3
    <3>2. /\ LastBelow(k) \in Nat
          /\ \A m \in (k + 1) .. LastBelow(k) : nodes[m].parent >= k
      BY <1>1, <3>1, LastBelowIs DEF Reaches, S
    <3>3. ASSUME u < LastBelow(k)
          PROVE  FALSE
      <4>1. c \in (k + 1) .. LastBelow(k)
        BY <2>3, <3>1, <3>2, <3>3
      <4>2. n >= k
        BY <2>10, <3>2, <4>1
      <4> QED
        BY <1>1, <4>2
    <3> QED
      BY <3>1, <3>2, <3>3
  <2>12. ASSUME NEW a \in OwnIn(n + 1, u), NEW b \in OwnIn(c, q)
         PROVE  a < b
    <3>1. PICK k \in (n + 1) .. u : a \in Own(k)
      BY DEF OwnIn
    <3>2. PICK m \in c .. q : b \in Own(m)
      BY DEF OwnIn
    <3>3. k \in DOMAIN nodes /\ LastBelow(k) <= u
      BY <2>11 DEF S
    <3>4. m \in DOMAIN nodes /\ u < m /\ m \in Nat /\ u \in Nat
      BY <1>1, <2>3, <2>6 DEF S
    <3>5. LastBelow(k) \in Nat
      BY <1>1, <3>3, SubtreesAre
    <3>6. LastBelow(k) < m
      BY <3>3, <3>4, <3>5
    <3> QED
      BY <3>1, <3>2, <3>3, <3>4, <3>6, EarlierFirst
  <2>13. /\ OwnIn(n + 1, u) \cup OwnIn(u + 1, q) = OwnIn(n + 1, q)
         /\ OwnIn(n + 1, u) \subseteq Nat /\ OwnIn(c, q) \subseteq Nat
    <3>1. u \in Nat /\ n + 1 \in Nat /\ n + 1 <= u + 1 /\ u <= q
      BY <1>1, <2>3, <2>6
    <3>2. OwnIn(n + 1, u) \cup OwnIn(u + 1, q) = OwnIn(n + 1, q)
      BY <2>6, <3>1, OwnInParts
    <3> QED
      BY <3>2 DEF OwnIn
  <2>14. Ascends(Mapped(out, P(j)) \o out[c], OwnIn(n + 1, u) \cup OwnIn(c, q))
    BY <2>2, <2>9, <2>12, <2>13, AscendsConcat
  <2> QED
    BY <2>3, <2>5, <2>7, <2>8, <2>13, <2>14
<1>6. Len(ch) \in K
  <2> HIDE DEF K
  <2>1. \A j \in Nat : j \in K
    BY <1>4, <1>5, SetInduction
  <2> QED
    BY <1>2, <2>1
<1>7. P(Len(ch)) = ch
  BY <1>2
<1>8. UpTo(n, ch, Len(ch)) = LastBelow(n)
  BY <1>1, <1>2, ChildrenFollow
<1>9. Ascends(Mapped(out, P(Len(ch))), OwnIn(n + 1, UpTo(n, ch, Len(ch))))
  BY <1>2, <1>6
<1> HIDE DEF P
<1> QED
  BY <1>7, <1>8, <1>9

(* What is printed for a node are the lines of it and of what is below it, *)
(* in order.                                                               *)
LEMMA OutAscends ==
  ASSUME Plain, NEW out, Writes(out)
  PROVE  \A n \in DOMAIN nodes : Ascends(out[n], OwnIn(n, LastBelow(n)))
<1> DEFINE T == {n \in DOMAIN nodes : Ascends(out[n], OwnIn(n, LastBelow(n)))}
<1>1. /\ Printable /\ nodes \in Seq(Node) /\ TreeOrdered(nodes) /\ Len(nodes) \in Nat
      /\ DOMAIN nodes = 1 .. Len(nodes)
  BY ReadPrintable DEF Plain, TreeRead
<1>2. Maps(out, DOMAIN nodes, Nat)
  BY <1>1, OutTyped
<1>3. ASSUME NEW n \in DOMAIN nodes, \A c \in DOMAIN nodes : c > n => c \in T
      PROVE  n \in T
  <2> DEFINE q == LastBelow(n)
             mid == Mapped(out, Children(n))
  <2>1. /\ out[n] = Begin(n) \o (mid \o Finish(n))
        /\ Ascends(Children(n), ChildrenOf(n))
    BY <1>1, OutPlain DEF Plain
  <2>2. \A c \in DOMAIN nodes : c > n => Ascends(out[c], OwnIn(c, LastBelow(c)))
    BY <1>3
  <2>3. Ascends(mid, OwnIn(n + 1, q))
    BY <1>2, <2>1, <2>2, ChildrenAscend
  <2>4. /\ Ascends(Begin(n), OwnStart(n)) /\ Ascends(Finish(n), OwnEnd(n))
        /\ OwnStart(n) \subseteq Nat /\ OwnEnd(n) \subseteq Nat
    BY <1>1, OwnAscends
  <2>5. n \in Nat /\ q \in Nat /\ n <= q /\ q <= Len(nodes)
    BY <1>1, SubtreesAre
  <2> HIDE DEF q, mid, T
  <2>6. OwnIn(n + 1, q) \subseteq Nat
    BY DEF OwnIn
  <2>7. ASSUME NEW b \in OwnIn(n + 1, q)
        PROVE  \E m \in DOMAIN nodes : m > n /\ m <= q /\ b \in Own(m)
    <3>1. PICK m \in (n + 1) .. q : b \in Own(m)
      BY DEF OwnIn
    <3>2. m \in DOMAIN nodes /\ m > n /\ m <= q
      BY <1>1, <2>5
    <3> QED
      BY <3>1, <3>2
  <2>8. ASSUME NEW b \in OwnIn(n + 1, q), NEW a \in OwnEnd(n)
        PROVE  b < a
    <3>1. PICK m \in DOMAIN nodes : m > n /\ m <= q /\ b \in Own(m)
      BY <2>7
    <3>2. n < m
      BY <1>1, <2>5, <3>1
    <3> QED
      BY <3>1, <3>2, EndLast DEF q
  <2>9. ASSUME NEW a \in OwnStart(n), NEW b \in OwnIn(n + 1, q)
        PROVE  a < b
    <3>1. PICK m \in DOMAIN nodes : m > n /\ m <= q /\ b \in Own(m)
      BY <2>7
    <3>2. n < m
      BY <1>1, <2>5, <3>1
    <3> QED
      BY <3>1, <3>2, StartFirst
  <2>10. Ascends(mid \o Finish(n), OwnIn(n + 1, q) \cup OwnEnd(n))
    BY <2>3, <2>4, <2>6, <2>8, AscendsConcat
  <2>11. \A a \in OwnStart(n), b \in OwnIn(n + 1, q) \cup OwnEnd(n) : a < b
    BY <2>9, StartThenEnd
  <2> DEFINE rest == mid \o Finish(n)
             below == OwnIn(n + 1, q) \cup OwnEnd(n)
  <2>12. below \subseteq Nat
    BY <2>4, <2>6
  <2>13. Ascends(Begin(n) \o rest, OwnStart(n) \cup below)
    <3> HIDE DEF rest, below
    <3>1. Ascends(rest, below) /\ \A a \in OwnStart(n), b \in below : a < b
      BY <2>10, <2>11 DEF rest, below
    <3> QED
      BY <2>4, <2>12, <3>1, AscendsConcat
  <2>14. OwnStart(n) \cup below = OwnIn(n, q)
    <3>1. OwnIn(n, n) \cup OwnIn(n + 1, q) = OwnIn(n, q)
      BY <2>5, OwnInParts
    <3>2. OwnIn(n, n) = OwnStart(n) \cup OwnEnd(n)
      BY <2>4, <2>5, OwnInOne DEF Own
    <3> QED
      BY <3>1, <3>2
  <2>15. Ascends(out[n], OwnIn(n, q))
    <3> HIDE DEF below
    <3> QED
      BY <2>1, <2>13, <2>14
  <2> QED
    BY <2>15 DEF q, T
<1>4. \A n \in DOMAIN nodes : n \in T
  <2> HIDE DEF T
  <2> QED
    BY <1>1, <1>3, BackFromLast
<1> QED
  BY <1>4

-----------------------------------------------------------------------------
(* What is printed for a node are lines that were read.                    *)
LEMMA OwnRead ==
  ASSUME Plain, NEW n \in DOMAIN nodes, NEW l \in Own(n)
  PROVE  l \in 1 .. rawlines
<1>1. Begins(n) \/ Ends(nodes, n)
  BY DEF Own, OwnStart, OwnEnd
<1>2. /\ Inside(nodes[n].line_start, LinesEnd) /\ Inside(nodes[n].line_end, LinesEnd)
      /\ nodes[n].line_start \in LineRange /\ nodes[n].line_end \in LineRange
      /\ LinesEnd = rawlines + 1 /\ LinesEnd \in Nat /\ rawlines \in Nat
  BY <1>1, ReadPrintable, OwnLines DEF Plain, Printable
<1>3. LinesEnd - 1 = rawlines
  BY <1>2
<1>4. /\ (nodes[n].line_start.a .. (nodes[n].line_start.b - 1)) \subseteq 1 .. (LinesEnd - 1)
      /\ (nodes[n].line_end.a .. (nodes[n].line_end.b - 1)) \subseteq 1 .. (LinesEnd - 1)
  BY <1>2, InsideLines
<1> QED
  BY <1>3, <1>4 DEF Own, OwnStart, OwnEnd

(* Every line that was read is printed for some node.                      *)
LEMMA LineOwned ==
  ASSUME Plain, BuiltWithoutError, NEW l \in 1 .. rawlines
  PROVE  \E n \in DOMAIN nodes : l \in Own(n)
<1>1. /\ finished /\ error = "ok" /\ pos = Len(tokens) + 1 /\ comments = <<>>
      /\ tokens \in Seq(Token) /\ nodes \in Seq(Node) /\ rawlines \in Nat
  BY ReadPrintable DEF Plain, BuiltWithoutError
<1>2. l \in TokenizedLines
  BY <1>1 DEF Plain, LoneLastBackslash, TokenizedLines
<1>3. LinesTokenizedOnce
  BY LinesOnce DEF Plain, TreeRead, LinesSound
<1>4. PICK i \in DOMAIN tokens : Covers(i, l)
  BY <1>2, <1>3 DEF LinesTokenizedOnce
<1> DEFINE range == tokens[i].lines
<1>5. /\ Stands(i) /\ range \in LineRange /\ range.a \in Nat /\ range.b \in Nat
      /\ range.a <= l /\ l < range.b /\ l \in Nat
  <2>1. tokens[i] \in Token
    BY <1>1
  <2>2. tokens[i].lines \in LineRange
    BY <2>1 DEF Token
  <2> QED
    BY <1>1, <1>4, <2>2 DEF Covers, LineRange
<1>6. Placed(nodes, comments, range)
  <2>1. i < pos
    BY <1>1
  <2> QED
    BY <1>1, <1>5, <2>1 DEF Plain, TreeRead, LaidInv, TokensPlaced
<1> HIDE DEF range
<1>7. ASSUME NEW n \in DOMAIN nodes,
             nodes[n].line_start.a <= range.a, range.b <= nodes[n].line_start.b
      PROVE  \E m \in DOMAIN nodes : l \in Own(m)
  <2>1. nodes[n].line_start \in LineRange
    BY ReadPrintable, OwnLines DEF Plain
  <2>2. /\ l \in nodes[n].line_start.a .. (nodes[n].line_start.b - 1)
        /\ 0 < nodes[n].line_start.b
    BY <1>5, <1>7, <2>1 DEF LineRange
  <2>3. n # Root
    BY <2>2 DEF Plain, TreeRead, KindsSound
  <2>4. CASE Begins(n)
    BY <2>2, <2>4 DEF Own, OwnStart
  <2>5. CASE ~Begins(n)
    <3>1. nodes[n].type = "NO_OP_COMMAND"
      BY <2>3, <2>5 DEF Begins, Plain, TreeRead, KindsSound
    <3>2. Unassociated(n - 1) /\ nodes[n].line_start = nodes[n - 1].line_start
      BY <3>1 DEF Plain, NoOpCommandLine
    <3>3. n - 1 \in DOMAIN nodes
      BY <1>1, <2>3 DEF Root
    <3>4. Begins(n - 1)
      BY <3>2 DEF Unassociated, Begins
    <3>5. l \in Own(n - 1)
      BY <2>2, <3>2, <3>4 DEF Own, OwnStart
    <3> QED
      BY <3>3, <3>5
  <2> QED
    BY <2>4, <2>5
<1>8. ASSUME NEW p \in DOMAIN nodes, Ends(nodes, p), nodes[p].line_end = range
      PROVE  \E m \in DOMAIN nodes : l \in Own(m)
  <2>1. l \in range.a .. (range.b - 1)
    BY <1>5
  <2>2. l \in Own(p)
    BY <1>8, <2>1 DEF Own, OwnEnd
  <2> QED
    BY <2>2
<1> QED
  BY <1>1, <1>6, <1>7, <1>8 DEF Placed

(* Without any of the shapes the output is the input.                      *)
LEMMA PlainGivenBack ==
  ASSUME Plain, BuiltWithoutError
  PROVE  Output = Input
<1> DEFINE out == CHOOSE f : Writes(f)
<1>1. nodes \in Seq(Node) /\ TreeOrdered(nodes) /\ rawlines \in Nat /\ DOMAIN nodes = 1 .. Len(nodes)
  BY ReadPrintable DEF Plain, TreeRead
<1>2. Writes(out) /\ Output = out[Root]
  BY <1>1, WritesExists, OutputIs
<1> HIDE DEF out
<1>3. Root \in DOMAIN nodes /\ Root = 1 /\ LastBelow(Root) = Len(nodes)
  BY <1>1, AllBelowRoot
<1>4. Ascends(out[Root], OwnIn(1, Len(nodes)))
  BY <1>2, <1>3, OutAscends
<1>5. ASSUME NEW l
      PROVE  l \in OwnIn(1, Len(nodes)) <=> l \in 1 .. rawlines
  <2>1. l \in OwnIn(1, Len(nodes)) => l \in 1 .. rawlines
    BY <1>1, OwnRead DEF OwnIn
  <2>2. l \in 1 .. rawlines => l \in OwnIn(1, Len(nodes))
    BY <1>1, LineOwned DEF OwnIn
  <2> QED
    BY <2>1, <2>2
<1>6. OwnIn(1, Len(nodes)) = 1 .. rawlines
  BY <1>5
<1>7. out[Root] = [i \in 1 .. rawlines |-> i]
  BY <1>1, <1>4, <1>6, AscendsCounts
<1> QED
  BY <1>2, <1>7 DEF Input

-----------------------------------------------------------------------------
(* A file that is accepted and not edited is printed as it was read, line  *)
(* by line and in order, unless it has one of five shapes; with any of     *)
(* them a line is lost or printed twice.                                   *)
THEOREM AcceptedFilesRoundTrip == Spec => []RoundTrip
<1>1. TreeRead /\ BuiltWithoutError => RoundTrip
  <2> SUFFICES ASSUME TreeRead, BuiltWithoutError, built
               PROVE  Output = Input <=>
                        ~( \/ LoneLastBackslash \/ UnclosedFor \/ BranchAfterElse
                           \/ NoOpCommandLine \/ UnassociatedCommand )
    BY DEF RoundTrip
  <2>1. LoneLastBackslash => Output # Input
    BY LoneMissing
  <2>2. BranchAfterElse => Output # Input
    BY BranchMissing
  <2>3. NoOpCommandLine => Output # Input
    BY NoOpMissing
  <2>4. ~BranchAfterElse /\ UnclosedFor => Output # Input
    BY UnclosedTwice
  <2>5. ~BranchAfterElse /\ UnassociatedCommand => Output # Input
    BY CommandTwice
  <2>6. ~( \/ LoneLastBackslash \/ UnclosedFor \/ BranchAfterElse
           \/ NoOpCommandLine \/ UnassociatedCommand ) => Output = Input
    BY PlainGivenBack DEF Plain
  <2> QED
    BY <2>1, <2>2, <2>3, <2>4, <2>5, <2>6
<1>2. /\ (IInv /\ LinesSound /\ SpansInv /\ LaidInv) /\ (IInv /\ CommandsTaken(nodes, pos))
      /\ (IInv /\ LinesSound /\ SpansInv /\ TreeOrdered(nodes)) /\ (IInv /\ KindsSound)
      /\ ConditionalsClosed /\ OneAlternative
      => TreeRead
  BY DEF TreeRead
<1> QED
  BY <1>1, <1>2, NodesStayLaid, CommandsStayTaken, TreeStaysOrdered, KindsStaySound,
     ConditionalsAreClosed, AtMostOneAlternative, NothingBuiltAfterError, PTL
=============================================================================
