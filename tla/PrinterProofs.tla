--------------------------- MODULE PrinterProofs ---------------------------
(***************************************************************************)
(* The goal columns parser_find_goalcols() leaves have room for the names  *)
(* in front of them, and the rows print_newline_array() writes of the      *)
(* variables of a block start in one column, for all Makefiles; and every  *)
(* statement is printed as pieces that are read back as its words.  A row  *)
(* of a variable ends only where the next word has no room.                *)
(***************************************************************************)
EXTENDS Printer, SequenceInduction, TLAPS

(* The variables print_newline_array() prints rows of.                     *)
HasRows(k) == file[k].type = "variable" /\ file[k].words # <<>>

(* What the walker has met has its goal column, or will get one that is no *)
(* smaller than the largest of its block.                                  *)
HasColumn(k) ==
  \/ StartLen(file[k]) < goalcol[k]
  \/ pc = "goalcols" /\ k \in nodes

ColumnsInv ==
  /\ file \in Files
  /\ DOMAIN goalcol = DOMAIN file
  /\ moving_goalcol \in Nat
  /\ \A k \in DOMAIN file : goalcol[k] \in Nat
  /\ at \in Nat \ {0}
  /\ pc = "goalcols" => at <= Len(file) + 1
  /\ \A k \in nodes :
       k \in DOMAIN file /\ file[k].type = "variable" /\ StartLen(file[k]) < moving_goalcol
  /\ \A k \in DOMAIN file :
       HasRows(k) /\ (pc = "goalcols" => k < at) => HasColumn(k)

-----------------------------------------------------------------------------
LEMMA MaxOfTwo ==
  ASSUME NEW a \in Nat, NEW b \in Nat
  PROVE  /\ Max({a, b}) \in Nat
         /\ Max({a, b}) >= a
         /\ Max({a, b}) >= b
<1>1. \E x \in {a, b} : \A y \in {a, b} : x >= y
  <2>1. CASE a >= b
    BY <2>1
  <2>2. CASE b >= a
    BY <2>2
  <2>q. QED BY <2>1, <2>2
<1>q. QED BY <1>1 DEF Max

(* indent_goalcol() is behind the name and its modifier.                   *)
LEMMA IndentBehindName ==
  ASSUME NEW node, node.name \in Nat, node.modifier \in {1, 2}
  PROVE  /\ IndentGoalcol(node) \in Nat
         /\ StartLen(node) \in Nat
         /\ StartLen(node) < IndentGoalcol(node)
<1>1. \A n \in Nat : Tabstops(n) * 8 \in Nat /\ Tabstops(n) * 8 >= n
  BY DEF Tabstops
<1>2. CASE node.plus
  BY <1>1, <1>2 DEF IndentGoalcol, StartLen
<1>3. CASE ~node.plus
  BY <1>1, <1>3 DEF IndentGoalcol, StartLen
<1>q. QED BY <1>2, <1>3

LEMMA FileIsSequence ==
  ASSUME file \in Files
  PROVE  Len(file) \in Nat /\ DOMAIN file = 1 .. Len(file)
<1>1. file \in Seq({file[k] : k \in DOMAIN file})
  BY FilesAssumption
<1>q. QED BY <1>1

LEMMA ColumnsInit == Init => ColumnsInv
<1> SUFFICES ASSUME Init PROVE ColumnsInv
  OBVIOUS
<1>1. Len(file) \in Nat /\ DOMAIN file = 1 .. Len(file)
  BY FileIsSequence DEF Init
<1>q. QED BY <1>1 DEF Init, ColumnsInv

(* parser_propagate_goalcol() leaves nobody behind.                        *)
LEMMA PropagateKeepsColumns ==
  ASSUME ColumnsInv, Propagate, UNCHANGED file
  PROVE  /\ DOMAIN goalcol' = DOMAIN file
         /\ moving_goalcol' \in Nat
         /\ nodes' = {}
         /\ \A k \in DOMAIN file : goalcol'[k] \in Nat
         /\ \A k \in DOMAIN file :
              file[k].type = "variable" /\ HasColumn(k) => StartLen(file[k]) < goalcol'[k]
<1>1. Max({16, moving_goalcol}) \in Nat /\ Max({16, moving_goalcol}) >= moving_goalcol
  BY MaxOfTwo DEF ColumnsInv
<1>2. /\ DOMAIN goalcol' = DOMAIN file
      /\ moving_goalcol' \in Nat
      /\ nodes' = {}
      /\ \A k \in DOMAIN file : goalcol'[k] \in Nat
  BY <1>1 DEF ColumnsInv, Propagate
<1>3. ASSUME NEW k \in DOMAIN file, file[k].type = "variable", HasColumn(k)
      PROVE  StartLen(file[k]) < goalcol'[k]
  <2>1. StartLen(file[k]) \in Nat
    BY Zenon, <1>3, IndentBehindName, FilesAssumption DEF ColumnsInv
  <2>q. QED BY <1>1, <1>3, <2>1 DEF HasColumn, ColumnsInv, Propagate
<1>q. QED BY <1>2, <1>3

LEMMA ColumnsStep ==
  ASSUME ColumnsInv, [Next]_vars
  PROVE  ColumnsInv'
<1>0. Len(file) \in Nat /\ DOMAIN file = 1 .. Len(file)
  BY FileIsSequence DEF ColumnsInv
<1>1. CASE VisitComment
  <2>1. CASE Propagate
    BY <1>0, <1>1, <2>1, PropagateKeepsColumns
       DEF VisitComment, Visit, ColumnsInv, HasRows, HasColumn
  <2>2. CASE UNCHANGED <<goalcol, moving_goalcol, nodes>>
    BY <1>0, <1>1, <2>2 DEF VisitComment, Visit, ColumnsInv, HasRows, HasColumn
  <2>q. QED BY <1>1, <2>1, <2>2 DEF VisitComment
<1>2. CASE VisitVariable
  <2> DEFINE indent == IndentGoalcol(file[at])
  <2>1. indent \in Nat /\ StartLen(file[at]) \in Nat /\ StartLen(file[at]) < indent
    BY Zenon, <1>2, IndentBehindName, FilesAssumption DEF VisitVariable, Visit, ColumnsInv
  <2>2. /\ Max({indent, moving_goalcol}) \in Nat
        /\ Max({indent, moving_goalcol}) >= indent
        /\ Max({indent, moving_goalcol}) >= moving_goalcol
    BY <2>1, MaxOfTwo DEF ColumnsInv
  <2> HIDE DEF indent
  <2>4. /\ UNCHANGED <<file, pc>> /\ pc = "goalcols"
        /\ at \in DOMAIN file /\ file[at].type = "variable" /\ at' = at + 1
    BY <1>2 DEF VisitVariable, Visit
  <2>5. CASE file[at].words = <<>>
    BY <1>0, <1>2, <2>4, <2>5 DEF VisitVariable, ColumnsInv, HasRows, HasColumn
  <2>6. CASE file[at].words # <<>> /\ file[at].skip
    <3>1. goalcol' = [goalcol EXCEPT ![at] = indent] /\ UNCHANGED <<moving_goalcol, nodes>>
      BY <1>2, <2>6 DEF VisitVariable, indent
    <3>q. QED BY <1>0, <2>1, <2>4, <3>1 DEF ColumnsInv, HasRows, HasColumn
  <2>7. CASE file[at].words # <<>> /\ ~file[at].skip
    <3>1. /\ nodes' = nodes \cup {at}
          /\ moving_goalcol' = Max({indent, moving_goalcol})
          /\ UNCHANGED goalcol
      BY <1>2, <2>7 DEF VisitVariable, indent
    <3>2. \A k \in nodes' : /\ k \in DOMAIN file'
                           /\ file'[k].type = "variable"
                           /\ StartLen(file'[k]) < moving_goalcol'
      <4>1. \A k \in nodes' :
              k \in DOMAIN file /\ file[k].type = "variable" /\ StartLen(file[k]) \in Nat
        BY Zenon, <2>1, <2>2, <2>4, <3>1, IndentBehindName, FilesAssumption DEF ColumnsInv
      <4>q. QED BY <2>1, <2>2, <2>4, <3>1, <4>1 DEF ColumnsInv
    <3>3. \A k \in DOMAIN file' : HasRows(k)' /\ k < at' => HasColumn(k)'
      BY <1>0, <2>4, <3>1 DEF ColumnsInv, HasRows, HasColumn
    <3>4. at' \in Nat \ {0} /\ at' <= Len(file') + 1
      BY <1>0, <2>4 DEF ColumnsInv
    <3>q. QED BY Zenon, <2>2, <2>4, <3>1, <3>2, <3>3, <3>4 DEF ColumnsInv
  <2>q. QED BY <2>5, <2>6, <2>7
<1>3. CASE VisitOther
  BY <1>0, <1>3 DEF VisitOther, Visit, ColumnsInv, HasRows, HasColumn
<1>4. CASE VisitEnd
  BY <1>0, <1>4, PropagateKeepsColumns DEF VisitEnd, ColumnsInv, HasRows, HasColumn
<1>5. CASE PrintVariable \/ PrintTargetCommand \/ PrintFor \/ PrintIf \/ PrintRaw
  <2>1. /\ pc = "print" /\ at \in DOMAIN file /\ at' = at + 1
        /\ UNCHANGED <<file, pc, nodes, moving_goalcol, goalcol>>
    BY <1>5 DEF PrintVariable, PrintTargetCommand, PrintFor, PrintIf, PrintRaw, Enqueue
  <2>q. QED BY <1>0, <2>1 DEF ColumnsInv, HasRows, HasColumn
<1>6. CASE PrintEnd \/ UNCHANGED vars
  BY <1>6 DEF PrintEnd, vars, ColumnsInv, HasRows, HasColumn
<1>q. QED BY <1>1, <1>2, <1>3, <1>4, <1>5, <1>6 DEF Next, Done

(* Once parser_find_goalcols() is through, the name and modifier of every  *)
(* variable with words end in front of its goal column, so that            *)
(* print_newline_array() has a tab between them.                           *)
THEOREM ColumnsHaveRoom == Spec => []NamesHaveRoom
<1>1. ColumnsInv => NamesHaveRoom
  BY DEF ColumnsInv, NamesHaveRoom, HasRows, HasColumn
<1>q. QED BY <1>1, ColumnsInit, ColumnsStep, PTL DEF Spec

-----------------------------------------------------------------------------
(* Any number but one is the greatest of a set in a single way.            *)
LEMMA GreatestIsMax ==
  ASSUME NEW S \in SUBSET Nat, NEW m \in S, \A x \in S : x <= m
  PROVE  Max(S) = m
<1>1. m \in Nat /\ \A y \in S : y \in Nat
  OBVIOUS
<1>2. m >= m /\ \A y \in S : m >= y
  BY <1>1
<1>3. \A x \in S : (\A y \in S : x >= y) => x = m
  <2> SUFFICES ASSUME NEW x \in S, \A y \in S : x >= y
               PROVE  x = m
    OBVIOUS
  <2>1. x >= m /\ x <= m /\ x \in Nat
    OBVIOUS
  <2> QED
    BY <1>1, <2>1
<1> QED
  BY Zenon, <1>2, <1>3 DEF Max

(* indent_goalcol() is the first tabstop behind the name and its modifier. *)
LEMMA IndentIsNeeded ==
  ASSUME NEW node, node.name \in Nat, node.modifier \in {1, 2}
  PROVE  IndentGoalcol(node) = Needed(node)
<1> DEFINE s == StartLen(node)
           v == node.name + 1 + (IF node.plus THEN 1 ELSE 0) + node.modifier
<1>1. s \in Nat /\ v = s + 1
  BY DEF StartLen
<1>2. IndentGoalcol(node) = Tabstops(IF (v + 1) % 8 = 0 THEN v + 1 ELSE v) * 8
  BY DEF IndentGoalcol
<1>3. Needed(node) = (s \div 8 + 1) * 8
  BY DEF Needed
<1> HIDE DEF s, v
<1>4. Tabstops(s + 1) = s \div 8 + 1
  BY <1>1 DEF Tabstops
<1>5. (s + 2) % 8 = 0 => Tabstops(s + 2) = s \div 8 + 1
  BY <1>1 DEF Tabstops
<1> QED
  BY <1>1, <1>2, <1>3, <1>4, <1>5

LEMMA NeededIs ==
  ASSUME NEW node, node.name \in Nat, node.modifier \in {1, 2}
  PROVE  /\ Needed(node) \in Nat /\ Needed(node) % 8 = 0
         /\ StartLen(node) \in Nat /\ StartLen(node) < Needed(node)
<1>1. StartLen(node) \in Nat
  BY DEF StartLen
<1> QED
  BY <1>1 DEF Needed

(* As many tabs as are left lead to the goal column.                       *)
LEMMA TabsToColumn ==
  ASSUME NEW s \in Nat, NEW column \in Nat, column % 8 = 0, s < column
  PROVE  /\ Tabstops(column - s) \in Nat \ {0}
         /\ (s \div 8 + Tabstops(column - s)) * 8 = column
         /\ Tabstops(column) \in Nat \ {0}
         /\ Tabstops(column) * 8 = column
<1> DEFINE m == column \div 8
           q == s \div 8
           r == s % 8
<1>1. m \in Nat /\ q \in Nat /\ r \in 0 .. 7 /\ column = 8 * m /\ s = 8 * q + r
  OBVIOUS
<1> HIDE DEF m, q, r
<1>2. q < m
  BY <1>1
<1>3. (8 * m - (8 * q + r) + 7) \div 8 = m - q
  <2>1. 8 * m - (8 * q + r) + 7 = 8 * (m - q) + (7 - r) /\ 7 - r \in 0 .. 7
    BY <1>1
  <2> QED
    BY <1>1, <2>1
<1>4. (8 * m + 7) \div 8 = m
  BY <1>1
<1>5. Tabstops(column - s) = m - q /\ Tabstops(column) = m
  BY <1>1, <1>3, <1>4 DEF Tabstops
<1>6. q = s \div 8
  BY DEF q
<1> QED
  BY <1>1, <1>2, <1>5, <1>6

-----------------------------------------------------------------------------
Kinds ==
  WordKinds \cup {"tab", "space", "backslash", "newline", "comment", "name", "modifier",
                  "flags", "for", "in", "if"}

Pieces == [kind : Kinds, len : Nat]

(* What does not end a line, and what no word starts in.                   *)
InLine(pieces) == \A i \in DOMAIN pieces : pieces[i] # Newline
Wordless(pieces) == \A i \in DOMAIN pieces : ~IsWord(pieces[i])

LEMMA PiecesAre ==
  /\ Tab \in Pieces /\ Space \in Pieces /\ Backslash \in Pieces /\ Comment \in Pieces
  /\ Newline \in Pieces
  /\ Tab # Newline /\ Space # Newline /\ Backslash # Newline /\ Comment # Newline
  /\ ~IsWord(Tab) /\ ~IsWord(Space) /\ ~IsWord(Backslash) /\ ~IsWord(Comment)
  /\ Space # Tab /\ Space.len = 1
  /\ \A word \in WordPieces : word \in Pieces /\ IsWord(word) /\ word # Newline
<1>1. /\ Tab = [kind |-> "tab", len |-> 0] /\ Space = [kind |-> "space", len |-> 1]
      /\ Backslash = [kind |-> "backslash", len |-> 1]
      /\ Comment = [kind |-> "comment", len |-> 3] /\ Newline = [kind |-> "newline", len |-> 0]
  BY DEF Tab, Space, Backslash, Comment, Newline, Piece
<1>2. /\ Tab \in Pieces /\ Space \in Pieces /\ Backslash \in Pieces /\ Comment \in Pieces
      /\ Newline \in Pieces
  BY <1>1 DEF Pieces, Kinds
<1>3. Tab # Newline /\ Space # Newline /\ Backslash # Newline /\ Comment # Newline
  BY <1>1
<1>4. ~IsWord(Tab) /\ ~IsWord(Space) /\ ~IsWord(Backslash) /\ ~IsWord(Comment)
  BY <1>1 DEF IsWord, WordKinds
<1>5. ASSUME NEW word \in WordPieces
      PROVE  word \in Pieces /\ IsWord(word) /\ word # Newline
  <2>1. word.kind \in WordKinds /\ word = [kind |-> word.kind, len |-> word.len]
        /\ word.len \in Nat
    BY DEF WordPieces
  <2>2. word.kind \in Kinds /\ word.kind # "newline"
    BY <2>1 DEF WordKinds, Kinds
  <2>3. word \in Pieces
    BY <2>1, <2>2 DEF Pieces
  <2>4. word # Newline
    BY <2>2, <1>1
  <2> QED
    BY <2>1, <2>3, <2>4 DEF IsWord
<1>6. Space # Tab /\ Space.len = 1
  BY <1>1
<1> QED
  BY <1>2, <1>3, <1>4, <1>5, <1>6

-----------------------------------------------------------------------------
(* A line that str_join() has made starts with its first word.             *)
JoinedSoFar(line, n, c) ==
  /\ line \in Seq(Pieces)
  /\ InLine(line)
  /\ line # <<>> => IsWord(line[1])

JoinFold == INSTANCE FoldInduction WITH op <- JoinWord, Holds <- JoinedSoFar

LEMMA JoinedIs ==
  ASSUME NEW words \in Seq(WordPieces)
  PROVE  JoinedSoFar(Joined(words), Len(words), 0)
<1>1. Joined(words) = JoinFold!Fold(<<>>, words)
  BY Zenon DEF Joined, JoinFold!Fold, JoinFold!Greatest,
     FoldLeft, MapThenFoldSet, Max
<1>2. JoinedSoFar(<<>>, 0, 0)
  BY DEF JoinedSoFar, InLine
<1>3. ASSUME NEW k \in DOMAIN words, NEW line, JoinedSoFar(line, k - 1, 0)
      PROVE  JoinedSoFar(JoinWord(line, words[k]), k, 0)
  <2> DEFINE word == words[k]
  <2>1. word \in Pieces /\ IsWord(word) /\ word # Newline
    BY PiecesAre
  <2>2. Space \in Pieces /\ Space # Newline
    BY PiecesAre
  <2>3. line \in Seq(Pieces) /\ InLine(line) /\ (line # <<>> => IsWord(line[1]))
    BY <1>3 DEF JoinedSoFar
  <2> HIDE DEF word
  <2>4. CASE line = <<>>
    <3>1. JoinWord(line, word) = <<word>>
      BY <2>1, <2>4 DEF JoinWord, If
    <3>2. JoinedSoFar(<<word>>, k, 0)
      BY <2>1 DEF JoinedSoFar, InLine
    <3> QED
      BY <3>1, <3>2 DEF word
  <2>5. CASE line # <<>>
    <3> DEFINE longer == Append(Append(line, Space), word)
    <3>1. JoinWord(line, word) = longer
      <4>1. JoinWord(line, word) = (line \o <<Space>>) \o <<word>>
        BY <2>5 DEF JoinWord, If
      <4> QED
        BY <4>1, <2>1, <2>2, <2>3
    <3>2. /\ longer \in Seq(Pieces) /\ Len(longer) = Len(line) + 2
          /\ \A i \in DOMAIN longer : longer[i] = Space \/ longer[i] = word \/
                                      (i \in DOMAIN line /\ longer[i] = line[i])
      BY <2>1, <2>2, <2>3
    <3>3. longer[1] = line[1]
      BY <2>1, <2>2, <2>3, <2>5
    <3> HIDE DEF longer
    <3>4. JoinedSoFar(longer, k, 0)
      BY <2>1, <2>2, <2>3, <2>5, <3>2, <3>3 DEF JoinedSoFar, InLine
    <3> QED
      BY <3>1, <3>4 DEF word
  <2> QED
    BY <2>4, <2>5
<1>4. JoinedSoFar(JoinFold!Fold(<<>>, words), Len(words), 0)
  BY <1>2, <1>3, JoinFold!FoldHolds
<1> QED
  BY <1>1, <1>4

-----------------------------------------------------------------------------
(* Sorting words gives words.                                              *)
SortedSoFar(words, n, c) == words \in Seq(WordPieces)

SortFold == INSTANCE FoldInduction WITH op <- SortIn, Holds <- SortedSoFar

LEMMA InsertedIs ==
  ASSUME NEW T, NEW s \in Seq(T), NEW i \in 1 .. (Len(s) + 1), NEW x \in T
  PROVE  InsertAt(s, i, x) \in Seq(T)
<1>1. SubSeq(s, 1, i - 1) \in Seq(T) /\ SubSeq(s, i, Len(s)) \in Seq(T) /\ <<x>> \in Seq(T)
  OBVIOUS
<1>2. InsertAt(s, i, x) = SubSeq(s, 1, i - 1) \o <<x>> \o SubSeq(s, i, Len(s))
  BY Zenon DEF InsertAt
<1> QED
  BY <1>1, <1>2

LEMMA SortedIs ==
  ASSUME NEW words \in Seq(WordPieces)
  PROVE  Sorted(words) \in Seq(WordPieces)
<1>1. Sorted(words) = SortFold!Fold(<<>>, words)
  BY Zenon DEF Sorted, SortFold!Fold, SortFold!Greatest,
     FoldLeft, MapThenFoldSet, Max
<1>2. SortedSoFar(<<>>, 0, 0)
  BY DEF SortedSoFar
<1>3. ASSUME NEW k \in DOMAIN words, NEW sorted, SortedSoFar(sorted, k - 1, 0)
      PROVE  SortedSoFar(SortIn(sorted, words[k]), k, 0)
  <2>1. sorted \in Seq(WordPieces) /\ words[k] \in WordPieces
    BY <1>3 DEF SortedSoFar
  <2> DEFINE I == {i \in 1 .. Len(sorted) : sorted[i].len <= words[k].len}
             at1 == (IF I # {} THEN Max(I) ELSE 0) + 1
  <2>2. SortIn(sorted, words[k]) = InsertAt(sorted, at1, words[k])
    BY DEF SortIn, SelectLastInSeq
  <2>3. at1 \in 1 .. (Len(sorted) + 1)
    <3>1. Len(sorted) \in Nat /\ I \in SUBSET (0 .. Len(sorted)) /\ I \in SUBSET (1 .. Len(sorted))
      BY <2>1
    <3> HIDE DEF I
    <3>2. CASE I = {}
      <4>1. at1 = 1
        BY <3>2
      <4> QED
        BY <3>1, <4>1
    <3>3. CASE I # {}
      <4>1. Max(I) \in I
        BY Zenon, <3>1, <3>3, MaxIs
      <4>2. at1 = Max(I) + 1 /\ Max(I) \in 1 .. Len(sorted)
        BY Zenon, <3>1, <3>3, <4>1
      <4> HIDE DEF at1
      <4> QED
        BY <3>1, <4>2
    <3> QED
      BY <3>2, <3>3
  <2> HIDE DEF at1
  <2> QED
    BY <2>1, <2>2, <2>3, InsertedIs DEF SortedSoFar
<1>4. SortedSoFar(SortFold!Fold(<<>>, words), Len(words), 0)
  BY <1>2, <1>3, SortFold!FoldHolds
<1> QED
  BY <1>1, <1>4 DEF SortedSoFar

-----------------------------------------------------------------------------
(* What is flattened of a sequence grows at its end.                       *)
LEMMA FlattenAppend ==
  ASSUME NEW S, NEW seqs \in Seq(Seq(S)), NEW x \in Seq(S)
  PROVE  /\ FlattenSeq(Append(seqs, x)) = FlattenSeq(seqs) \o x
         /\ FlattenSeq(seqs) \in Seq(S)
<1> DEFINE longer == Append(seqs, x)
<1>1. /\ longer \in Seq(Seq(S)) /\ Len(longer) = Len(seqs) + 1 /\ longer[Len(longer)] = x
      /\ \A i \in 1 .. Len(seqs) : longer[i] = seqs[i]
  OBVIOUS
<1> HIDE DEF longer
<1>2. FlattenSeq(longer) = FlattenSeq(seqs) \o longer[Len(longer)]
  BY Zenon, <1>1, FlattenNext
<1>3. FlattenSeq(seqs) \in Seq(S)
  BY FlattenType
<1> QED
  BY <1>1, <1>2, <1>3 DEF longer

(* Words go on where they were.                                            *)
LEMMA RowGrows ==
  ASSUME NEW so \in Seq(WordPieces), NEW row \in Seq(WordPieces), NEW word \in WordPieces
  PROVE  /\ so \o Append(row, word) = Append(so \o row, word)
         /\ (so \o row) \o <<word>> = Append(so \o row, word)
         /\ row = <<>> => (so \o <<word>>) \o row = Append(so \o row, word)
<1>1. so \o Append(row, word) = Append(so \o row, word)
  OBVIOUS
<1>2. (so \o row) \o <<word>> = Append(so \o row, word)
  OBVIOUS
<1>3. ASSUME row = <<>>
      PROVE  (so \o <<word>>) \o row = Append(so \o row, word)
  <2>1. so \o row = so
    BY <1>3
  <2>2. (so \o <<word>>) \o row = so \o <<word>>
    BY <1>3
  <2>3. so \o <<word>> = Append(so, word)
    OBVIOUS
  <2> QED
    BY <2>1, <2>2, <2>3
<1> QED
  BY <1>1, <1>2, <1>3

(* The rows of print_token_array() are rows of words, and have them all in *)
(* their order.                                                            *)
RowsSoFar(acc, n, c) ==
  /\ acc = [width |-> acc.width, rows |-> acc.rows, row |-> acc.row]
  /\ acc.rows \in Seq(Seq(WordPieces))
  /\ acc.row \in Seq(WordPieces)
  /\ FlattenSeq(acc.rows) \o acc.row = SubSeq(c, 1, n)

RowFold == INSTANCE FoldInduction WITH op <- TakeWord, Holds <- RowsSoFar

LEMMA RowsAre ==
  ASSUME NEW words \in Seq(WordPieces), NEW width
  PROVE  /\ Rows(words, width) \in Seq(Seq(WordPieces))
         /\ FlattenSeq(Rows(words, width)) = words
<1> DEFINE base == [width |-> width, rows |-> <<>>, row |-> <<>>]
           end == FoldLeft(TakeWord, base, words)
<1>1. end = RowFold!Fold(base, words)
  BY Zenon DEF RowFold!Fold, RowFold!Greatest, FoldLeft, MapThenFoldSet, Max
<1>2. RowsSoFar(base, 0, words)
  <2>1. SubSeq(words, 1, 0) = <<>>
    BY NoneAndAll
  <2>2. FlattenSeq(<<>>) = <<>>
    <3>1. <<>> \in Seq(WordPieces) /\ \A i \in DOMAIN <<>> : <<>>[i] = <<>>
      OBVIOUS
    <3> QED
      BY Zenon, <3>1, FlattenNothing
  <2>3. <<>> \o <<>> = <<>>
    OBVIOUS
  <2>4. /\ base = [width |-> base.width, rows |-> base.rows, row |-> base.row]
        /\ base.rows = <<>> /\ base.row = <<>>
    OBVIOUS
  <2>5. <<>> \in Seq(Seq(WordPieces)) /\ <<>> \in Seq(WordPieces)
    OBVIOUS
  <2> HIDE DEF base
  <2> QED
    BY Zenon, <2>1, <2>2, <2>3, <2>4, <2>5 DEF RowsSoFar
<1>3. ASSUME NEW k \in DOMAIN words, NEW acc, RowsSoFar(acc, k - 1, words)
      PROVE  RowsSoFar(TakeWord(acc, words[k]), k, words)
  <2> DEFINE word == words[k]
             fits == Length(Joined(acc.row)) + word.len <= acc.width
  <2>1. word \in WordPieces
    OBVIOUS
  <2>2. TakeWord(acc, word) = CASE fits -> [acc EXCEPT !.row = Append(@, word)]
          [] ~fits /\ acc.row = <<>>    -> [acc EXCEPT !.rows = Append(@, <<word>>)]
          [] ~fits /\ acc.row # <<>>    -> [acc EXCEPT !.rows = Append(@, acc.row), !.row = <<word>>]
    BY DEF TakeWord
  <2>6. /\ acc = [width |-> acc.width, rows |-> acc.rows, row |-> acc.row]
        /\ acc.rows \in Seq(Seq(WordPieces)) /\ acc.row \in Seq(WordPieces)
        /\ FlattenSeq(acc.rows) \o acc.row = SubSeq(words, 1, k - 1)
    BY <1>3 DEF RowsSoFar
  <2> DEFINE so == FlattenSeq(acc.rows)
  <2>7. SubSeq(words, 1, k) = Append(so \o acc.row, word)
    <3>1. SubSeq(words, 1, k) = Append(SubSeq(words, 1, k - 1), words[k])
      BY OneMore
    <3> QED
      BY Zenon, <2>6, <3>1
  <2>8. /\ so \in Seq(WordPieces) /\ FlattenSeq(Append(acc.rows, acc.row)) = so \o acc.row
        /\ FlattenSeq(Append(acc.rows, <<word>>)) = so \o <<word>>
    <3>1. <<word>> \in Seq(WordPieces)
      BY <2>1
    <3> HIDE DEF word
    <3> QED
      BY Zenon, <2>6, <3>1, FlattenAppend
  <2> HIDE DEF word, fits, so
  <2>3. CASE fits
    <3>1. TakeWord(acc, word) = [acc EXCEPT !.row = Append(@, word)]
      BY <2>2, <2>3
    <3>3. /\ Append(acc.row, word) \in Seq(WordPieces)
          /\ Append(acc.rows, <<word>>) \in Seq(Seq(WordPieces))
          /\ Append(acc.rows, acc.row) \in Seq(Seq(WordPieces)) /\ <<word>> \in Seq(WordPieces)
      BY <2>1, <2>6
    <3>4. TakeWord(acc, word) = [width |-> acc.width, rows |-> acc.rows, row |-> Append(acc.row, word)]
      BY Zenon, <2>6, <3>1
    <3>5. (so) \o Append(acc.row, word) = SubSeq(words, 1, k)
      BY Zenon, <2>1, <2>6, <2>7, <2>8, <2>3, RowGrows
    <3> DEFINE new == TakeWord(acc, word)
    <3>e. /\ new.rows = acc.rows /\ new.row = Append(acc.row, word)
          /\ new = [width |-> new.width, rows |-> new.rows, row |-> new.row]
      BY <3>4
    <3> HIDE DEF new
    <3>6. FlattenSeq(new.rows) \o new.row = SubSeq(words, 1, k)
      <4>1. FlattenSeq(new.rows) = so
        BY Zenon, <2>8, <3>e DEF so
      <4> QED
        BY Zenon, <3>5, <3>e, <4>1
    <3>8. new.rows \in Seq(Seq(WordPieces)) /\ new.row \in Seq(WordPieces)
      BY <2>6, <3>3, <3>e
    <3>7. RowsSoFar(TakeWord(acc, word), k, words)
      BY Zenon, <3>e, <3>6, <3>8 DEF RowsSoFar, new
    <3> QED
      BY <3>7 DEF word
  <2>4. CASE ~fits /\ acc.row = <<>>
    <3>1. TakeWord(acc, word) = [acc EXCEPT !.rows = Append(@, <<word>>)]
      BY <2>2, <2>4
    <3>2. <<word>> \in Seq(WordPieces)
      BY <2>1
    <3>3. /\ Append(acc.row, word) \in Seq(WordPieces)
          /\ Append(acc.rows, <<word>>) \in Seq(Seq(WordPieces))
          /\ Append(acc.rows, acc.row) \in Seq(Seq(WordPieces)) /\ <<word>> \in Seq(WordPieces)
      BY <2>1, <2>6
    <3>4. TakeWord(acc, word) = [width |-> acc.width, rows |-> Append(acc.rows, <<word>>), row |-> acc.row]
      BY Zenon, <2>6, <3>1
    <3>5. (so \o <<word>>) \o acc.row = SubSeq(words, 1, k)
      BY Zenon, <2>1, <2>6, <2>7, <2>8, <2>4, RowGrows
    <3> DEFINE new == TakeWord(acc, word)
    <3>e. /\ new.rows = Append(acc.rows, <<word>>) /\ new.row = acc.row
          /\ new = [width |-> new.width, rows |-> new.rows, row |-> new.row]
      BY <3>4
    <3> HIDE DEF new
    <3>6. FlattenSeq(new.rows) \o new.row = SubSeq(words, 1, k)
      <4>1. FlattenSeq(new.rows) = so \o <<word>>
        BY Zenon, <2>8, <3>e DEF so
      <4> QED
        BY Zenon, <3>5, <3>e, <4>1
    <3>8. new.rows \in Seq(Seq(WordPieces)) /\ new.row \in Seq(WordPieces)
      BY <2>6, <3>3, <3>e
    <3>7. RowsSoFar(TakeWord(acc, word), k, words)
      BY Zenon, <3>e, <3>6, <3>8 DEF RowsSoFar, new
    <3> QED
      BY <3>7 DEF word
  <2>5. CASE ~fits /\ acc.row # <<>>
    <3>1. TakeWord(acc, word) = [acc EXCEPT !.rows = Append(@, acc.row), !.row = <<word>>]
      BY <2>2, <2>5
    <3>2. <<word>> \in Seq(WordPieces)
      BY <2>1
    <3>3. /\ Append(acc.row, word) \in Seq(WordPieces)
          /\ Append(acc.rows, <<word>>) \in Seq(Seq(WordPieces))
          /\ Append(acc.rows, acc.row) \in Seq(Seq(WordPieces)) /\ <<word>> \in Seq(WordPieces)
      BY <2>1, <2>6
    <3>4. TakeWord(acc, word) = [width |-> acc.width, rows |-> Append(acc.rows, acc.row), row |-> <<word>>]
      BY Zenon, <2>6, <3>1
    <3>5. (so \o acc.row) \o <<word>> = SubSeq(words, 1, k)
      BY Zenon, <2>1, <2>6, <2>7, <2>8, <2>5, RowGrows
    <3> DEFINE new == TakeWord(acc, word)
    <3>e. /\ new.rows = Append(acc.rows, acc.row) /\ new.row = <<word>>
          /\ new = [width |-> new.width, rows |-> new.rows, row |-> new.row]
      BY <3>4
    <3> HIDE DEF new
    <3>6. FlattenSeq(new.rows) \o new.row = SubSeq(words, 1, k)
      <4>1. FlattenSeq(new.rows) = so \o acc.row
        BY Zenon, <2>8, <3>e DEF so
      <4> QED
        BY Zenon, <3>5, <3>e, <4>1
    <3>8. new.rows \in Seq(Seq(WordPieces)) /\ new.row \in Seq(WordPieces)
      BY <2>6, <3>3, <3>e
    <3>7. RowsSoFar(TakeWord(acc, word), k, words)
      BY Zenon, <3>e, <3>6, <3>8 DEF RowsSoFar, new
    <3> QED
      BY <3>7 DEF word
  <2> QED
    BY <2>3, <2>4, <2>5
<1>4. RowsSoFar(end, Len(words), words)
  BY <1>1, <1>2, <1>3, RowFold!FoldHolds
<1>5. Rows(words, width) = end.rows \o If(end.row # <<>>, <<end.row>>)
  BY DEF Rows
<1> HIDE DEF end
<1>6. /\ end.rows \in Seq(Seq(WordPieces)) /\ end.row \in Seq(WordPieces)
      /\ FlattenSeq(end.rows) \o end.row = SubSeq(words, 1, Len(words))
  BY <1>4 DEF RowsSoFar
<1>7. SubSeq(words, 1, Len(words)) = words
  BY NoneAndAll
<1>8. CASE end.row = <<>>
  <2>1. Rows(words, width) = end.rows
    BY <1>5, <1>6, <1>8 DEF If
  <2>2. FlattenSeq(end.rows) \in Seq(WordPieces)
    BY <1>6, FlattenType
  <2>3. FlattenSeq(end.rows) \o end.row = FlattenSeq(end.rows)
    BY <1>8, <2>2
  <2> QED
    BY Zenon, <1>6, <1>7, <2>1, <2>3
<1>9. CASE end.row # <<>>
  <2>1. Rows(words, width) = Append(end.rows, end.row)
    BY <1>5, <1>6, <1>9 DEF If
  <2>2. FlattenSeq(Append(end.rows, end.row)) = FlattenSeq(end.rows) \o end.row
    BY Zenon, <1>6, FlattenAppend
  <2>3. Append(end.rows, end.row) \in Seq(Seq(WordPieces))
    BY <1>6
  <2> QED
    BY Zenon, <1>6, <1>7, <2>1, <2>2, <2>3
<1> QED
  BY <1>8, <1>9

(* What parser_output_print_variable() prints in rows are words.           *)
LEMMA VariableRows ==
  ASSUME NEW node, node.words \in Seq(WordPieces), NEW goal
  PROVE  \E rows \in Seq(Seq(WordPieces)) :
           /\ rows # <<>> => node.words # <<>>
           /\ FlattenSeq(rows) = WordsOf(node)
           /\ VariableLines(node, goal) =
                IF IsRaw(node) THEN RawLine ELSE PrintNewlineArray(node, goal, rows)
<1> DEFINE words == WordsOf(node)
           rows == IF node.newlines \/ Len(words) < 2 THEN SingleRows(words)
                   ELSE Rows(words, VariableWidth(node, goal))
<1>1. words \in Seq(WordPieces)
  BY SortedIs DEF WordsOf
<1>2. SingleRows(words) \in Seq(Seq(WordPieces))
  <2> DEFINE T == Seq(WordPieces)
             e == SingleRows(words)
  <2>1. Len(words) \in Nat /\ DOMAIN words = 1 .. Len(words)
    BY <1>1
  <2>2. e = [k \in 1 .. Len(words) |-> e[k]] /\ \A k \in 1 .. Len(words) : e[k] = <<words[k]>>
    BY <2>1 DEF SingleRows
  <2>3. \A k \in 1 .. Len(words) : words[k] \in WordPieces
    BY <1>1, <2>1
  <2>4. ASSUME NEW k \in 1 .. Len(words)
        PROVE  e[k] \in T
    <3> DEFINE word == words[k]
    <3>1. word \in WordPieces /\ e[k] = <<word>>
      BY <2>2, <2>3
    <3> HIDE DEF word, e
    <3>2. <<word>> \in Seq(WordPieces)
      BY <3>1
    <3> QED
      BY <3>1, <3>2
  <2> HIDE DEF e, T
  <2>5. e \in Seq(T)
    BY <2>1, <2>2, <2>4, FunctionSeq
  <2> QED
    BY <2>5 DEF e, T
<1>3. rows \in Seq(Seq(WordPieces))
  BY <1>1, <1>2, RowsAre
<1>6. FlattenSeq(rows) = words
  <2>1. FlattenSeq(SingleRows(words)) = words
    BY <1>1, FlattenSingles DEF SingleRows
  <2> HIDE DEF words
  <2> QED
    BY <1>1, <2>1, RowsAre
<1>4. VariableLines(node, goal) =
        IF IsRaw(node) THEN RawLine ELSE PrintNewlineArray(node, goal, rows)
  BY DEF VariableLines
<1>5. node.words = <<>> => rows = <<>>
  <2> SUFFICES ASSUME node.words = <<>>
               PROVE  rows = <<>>
    OBVIOUS
  <2>1. Sorted(<<>>) = <<>>
    <3>1. <<>> \in Seq(WordPieces) /\ Len(<<>>) = 0
      OBVIOUS
    <3>2. Sorted(<<>>) = SortFold!Fold(<<>>, <<>>)
      BY Zenon DEF Sorted, SortFold!Fold, SortFold!Greatest,
         FoldLeft, MapThenFoldSet, Max
    <3> QED
      BY <3>1, <3>2, SortFold!FoldNone
  <2>2. words = <<>>
    BY <2>1 DEF WordsOf
  <2>3. SingleRows(words) = <<>>
    BY <2>2 DEF SingleRows
  <2> QED
    BY <2>2, <2>3
<1> HIDE DEF rows
<1> QED
  BY <1>3, <1>4, <1>5, <1>6

-----------------------------------------------------------------------------
(* As many tabs move to as many tabstops.                                  *)
TabsSoFar(column, n, c) == column = IF n = 0 THEN c ELSE (c \div 8 + n) * 8

ColumnFold == INSTANCE FoldInduction WITH op <- NextColumn, Holds <- TabsSoFar

LEMMA ColumnIsFold ==
  ASSUME NEW pieces
  PROVE  ColumnAfter(pieces) = ColumnFold!Fold(0, pieces)
  BY Zenon DEF ColumnAfter, ColumnFold!Fold, ColumnFold!Greatest,
     FoldLeft, MapThenFoldSet, Max

LEMMA TabsAre ==
  ASSUME NEW n \in Nat
  PROVE  /\ Tabs(n) \in Seq(Pieces) /\ Len(Tabs(n)) = n
         /\ \A i \in DOMAIN Tabs(n) : Tabs(n)[i] = Tab
         /\ InLine(Tabs(n)) /\ Wordless(Tabs(n))
<1> DEFINE e == Tabs(n)
<1>1. e = [k \in 1 .. n |-> e[k]] /\ \A k \in 1 .. n : e[k] = Tab
  BY DEF Tabs
<1>2. Tab \in Pieces /\ Tab # Newline /\ ~IsWord(Tab)
  BY PiecesAre
<1> HIDE DEF e
<1>3. \A k \in 1 .. n : e[k] \in Pieces
  BY <1>1, <1>2
<1>4. e \in Seq(Pieces) /\ Len(e) = n /\ DOMAIN e = 1 .. n
  BY <1>1, <1>3, FunctionSeq
<1>5. InLine(e) /\ Wordless(e)
  BY <1>1, <1>2, <1>4 DEF InLine, Wordless
<1> QED
  BY <1>1, <1>4, <1>5 DEF e

LEMMA TabsColumn ==
  ASSUME NEW c \in Nat, NEW n \in Nat \ {0}
  PROVE  ColumnFold!Fold(c, Tabs(n)) = (c \div 8 + n) * 8
<1> DEFINE t == Tabs(n)
<1>1. t \in Seq(Pieces) /\ Len(t) = n /\ DOMAIN t = 1 .. n /\ \A i \in DOMAIN t : t[i] = Tab
  BY TabsAre
<1> HIDE DEF t
<1>2. TabsSoFar(c, 0, c)
  BY DEF TabsSoFar
<1>3. ASSUME NEW k \in DOMAIN t, NEW column, TabsSoFar(column, k - 1, c)
      PROVE  TabsSoFar(NextColumn(column, t[k]), k, c)
  <2>1. t[k] = Tab /\ k \in Nat /\ k >= 1
    BY <1>1
  <2>2. NextColumn(column, Tab) = (column \div 8 + 1) * 8
    BY DEF NextColumn
  <2>3. CASE k = 1
    <3>1. column = c
      BY <1>3, <2>3 DEF TabsSoFar
    <3> QED
      BY <2>1, <2>2, <2>3, <3>1 DEF TabsSoFar
  <2>4. CASE k # 1
    <3> DEFINE m == c \div 8 + (k - 1)
    <3>1. column = m * 8 /\ m \in Nat
      BY <1>3, <2>1, <2>4 DEF TabsSoFar
    <3>2. m + 1 = c \div 8 + k
      BY <2>1
    <3> HIDE DEF m
    <3>3. (m * 8) \div 8 = m
      BY <3>1
    <3>4. NextColumn(column, Tab) = (c \div 8 + k) * 8
      BY <2>2, <3>1, <3>2, <3>3
    <3> QED
      BY <2>1, <2>4, <3>4 DEF TabsSoFar
  <2> QED
    BY <2>3, <2>4
<1>4. TabsSoFar(ColumnFold!Fold(c, t), Len(t), c)
  BY <1>1, <1>2, <1>3, ColumnFold!FoldHolds
<1> QED
  BY <1>1, <1>4 DEF TabsSoFar, t

(* The name and its modifier.                                              *)
HeadOf(node) ==
  <<Piece("name", node.name)>> \o If(node.plus, <<Space>>)
    \o <<Piece("modifier", node.modifier)>>

LEMMA HeadIs ==
  ASSUME NEW node, node.name \in Nat, node.modifier \in {1, 2}
  PROVE  /\ HeadOf(node) \in Seq(Pieces) /\ InLine(HeadOf(node)) /\ Wordless(HeadOf(node))
         /\ ColumnAfter(HeadOf(node)) = StartLen(node)
<1> DEFINE name == Piece("name", node.name)
           mod == Piece("modifier", node.modifier)
<1>1. /\ name \in Pieces /\ name # Newline /\ ~IsWord(name) /\ name # Tab /\ name.len = node.name
      /\ mod \in Pieces /\ mod # Newline /\ ~IsWord(mod) /\ mod # Tab /\ mod.len = node.modifier
  <2>1. name = [kind |-> "name", len |-> node.name] /\ mod = [kind |-> "modifier", len |-> node.modifier]
    BY DEF Piece
  <2>2. name \in Pieces /\ mod \in Pieces
    BY <2>1 DEF Pieces, Kinds
  <2>3. name # Newline /\ mod # Newline /\ name # Tab /\ mod # Tab
    BY <2>1 DEF Newline, Tab, Piece
  <2>4. ~IsWord(name) /\ ~IsWord(mod)
    BY <2>1 DEF IsWord, WordKinds
  <2> QED
    BY <2>1, <2>2, <2>3, <2>4
<1>2. Space \in Pieces /\ Space # Newline /\ ~IsWord(Space) /\ Space # Tab /\ Space.len = 1
  BY PiecesAre
<1>3. HeadOf(node) = (<<name>> \o If(node.plus, <<Space>>)) \o <<mod>>
  BY DEF HeadOf
<1> HIDE DEF name, mod
<1> DEFINE one == Append(<<>>, name)
           two == IF node.plus THEN Append(one, Space) ELSE one
<1>4. one \in Seq(Pieces) /\ two \in Seq(Pieces)
  BY <1>1, <1>2
<1>5. HeadOf(node) = Append(two, mod)
  <2>1. CASE node.plus
    BY <1>1, <1>2, <1>3, <2>1 DEF If
  <2>2. CASE ~node.plus
    BY <1>1, <1>2, <1>3, <2>2 DEF If
  <2> QED
    BY <2>1, <2>2
<1>6. \A i \in DOMAIN Append(two, mod) : Append(two, mod)[i] \in {name, Space, mod}
  BY <1>1, <1>2
<1>7. ColumnFold!Fold(0, one) = node.name
  <2>1. ColumnFold!Fold(0, one) = NextColumn(ColumnFold!Fold(0, <<>>), name)
    <3>1. <<>> \in Seq(Pieces)
      OBVIOUS
    <3> QED
      BY Zenon, <1>1, <3>1, ColumnFold!FoldAppend
  <2>2. ColumnFold!Fold(0, <<>>) = 0
    BY ColumnFold!FoldNone
  <2> QED
    BY <1>1, <2>1, <2>2 DEF NextColumn
<1> HIDE DEF one
<1>8. ColumnFold!Fold(0, two) = node.name + (IF node.plus THEN 1 ELSE 0)
  <2>1. ColumnFold!Fold(0, Append(one, Space)) = NextColumn(ColumnFold!Fold(0, one), Space)
    BY <1>2, <1>4, ColumnFold!FoldAppend
  <2>2. ColumnFold!Fold(0, Append(one, Space)) = node.name + 1
    BY <1>2, <1>7, <2>1 DEF NextColumn
  <2> QED
    BY <1>7, <2>2
<1> HIDE DEF two
<1>9. ColumnFold!Fold(0, Append(two, mod)) = node.name + (IF node.plus THEN 1 ELSE 0) + node.modifier
  <2>1. ColumnFold!Fold(0, Append(two, mod)) = NextColumn(ColumnFold!Fold(0, two), mod)
    BY <1>1, <1>4, ColumnFold!FoldAppend
  <2> QED
    BY <1>1, <1>8, <2>1 DEF NextColumn
<1>10. ColumnAfter(HeadOf(node)) = StartLen(node)
  <2>1. ColumnAfter(HeadOf(node)) = ColumnFold!Fold(0, HeadOf(node))
    BY ColumnIsFold
  <2> QED
    BY <1>5, <1>9, <2>1 DEF StartLen
<1>11. HeadOf(node) \in Seq(Pieces)
  BY <1>1, <1>4, <1>5
<1>12. InLine(HeadOf(node)) /\ Wordless(HeadOf(node))
  BY <1>1, <1>2, <1>5, <1>6 DEF InLine, Wordless
<1> QED
  BY <1>10, <1>11, <1>12

-----------------------------------------------------------------------------
(* What is in front of the words of a line.                                *)
LeadsTo(pre, column) ==
  pre \in Seq(Pieces) /\ InLine(pre) /\ Wordless(pre) /\ ColumnAfter(pre) = column

(* Words start in a column, if there are any.                              *)
StartsIn(line, column) ==
  \A k \in DOMAIN line :
    IsWord(line[k]) /\ (\A j \in 1 .. (k - 1) : ~IsWord(line[j])) =>
      ColumnAfter(SubSeq(line, 1, k - 1)) = column

LEMMA WordlessStarts ==
  ASSUME NEW line, NEW column, Wordless(line)
  PROVE  StartsIn(line, column)
BY DEF Wordless, StartsIn

LEMMA StartsBehind ==
  ASSUME NEW column, NEW pre, LeadsTo(pre, column), NEW body \in Seq(Pieces),
         body # <<>> => IsWord(body[1])
  PROVE  StartsIn(pre \o body, column)
<1> DEFINE line == pre \o body
           n == Len(pre)
<1>1. pre \in Seq(Pieces) /\ n \in Nat /\ DOMAIN pre = 1 .. n
  BY DEF LeadsTo
<1>2. /\ Len(line) = n + Len(body) /\ DOMAIN line = 1 .. (n + Len(body))
      /\ \A i \in 1 .. n : line[i] = pre[i]
      /\ \A i \in (n + 1) .. (n + Len(body)) : line[i] = body[i - n]
      /\ Len(body) \in Nat
  BY <1>1
<1>3. SubSeq(line, 1, n) = pre
  BY <1>1
<1> SUFFICES ASSUME NEW k \in DOMAIN line, IsWord(line[k]), \A j \in 1 .. (k - 1) : ~IsWord(line[j])
             PROVE  ColumnAfter(SubSeq(line, 1, k - 1)) = column
  BY Zenon DEF StartsIn
<1> HIDE DEF line, n
<1>4. ~(k \in 1 .. n)
  BY <1>1, <1>2 DEF LeadsTo, Wordless
<1>5. k \in (n + 1) .. (n + Len(body)) /\ body # <<>>
  BY <1>1, <1>2, <1>4
<1>6. IsWord(line[n + 1])
  <2>1. n + 1 \in (n + 1) .. (n + Len(body)) /\ (n + 1) - n = 1
    BY <1>1, <1>2, <1>5
  <2>2. line[n + 1] = body[1]
    BY <1>2, <2>1
  <2> QED
    BY <1>5, <2>2
<1>7. k = n + 1
  <2> SUFFICES ASSUME k # n + 1
               PROVE  FALSE
    OBVIOUS
  <2>0. k \in Int /\ n + 1 <= k
    BY <1>1, <1>2, <1>5
  <2>1. n + 1 \in 1 .. (k - 1)
    BY <1>1, <2>0
  <2> QED
    BY <1>6, <2>1
<1>8. k - 1 = n
  BY <1>1, <1>7
<1> QED
  BY Zenon, <1>3, <1>8 DEF LeadsTo

(* What follows the words does not move them.                              *)
LEMMA StartsStill ==
  ASSUME NEW column, NEW line \in Seq(Pieces), StartsIn(line, column),
         NEW tail \in Seq(Pieces), Wordless(tail)
  PROVE  StartsIn(line \o tail, column)
<1> DEFINE longer == line \o tail
           n == Len(line)
<1>1. /\ n \in Nat /\ DOMAIN line = 1 .. n /\ DOMAIN longer = 1 .. (n + Len(tail))
      /\ Len(tail) \in Nat
      /\ \A i \in 1 .. n : longer[i] = line[i]
      /\ \A i \in (n + 1) .. (n + Len(tail)) : longer[i] = tail[i - n] /\ i - n \in DOMAIN tail
  OBVIOUS
<1>2. \A k \in 1 .. n : SubSeq(longer, 1, k - 1) = SubSeq(line, 1, k - 1)
  OBVIOUS
<1> SUFFICES ASSUME NEW k \in DOMAIN longer, IsWord(longer[k]),
                    \A j \in 1 .. (k - 1) : ~IsWord(longer[j])
             PROVE  ColumnAfter(SubSeq(longer, 1, k - 1)) = column
  BY Zenon DEF StartsIn
<1> HIDE DEF longer, n
<1>3. k \in 1 .. n
  BY <1>1 DEF Wordless
<1>4. IsWord(line[k]) /\ \A j \in 1 .. (k - 1) : ~IsWord(line[j])
  BY <1>1, <1>3
<1>5. ColumnAfter(SubSeq(line, 1, k - 1)) = column
  BY <1>1, <1>3, <1>4 DEF StartsIn
<1> QED
  BY Zenon, <1>2, <1>3, <1>5

-----------------------------------------------------------------------------
(* Pieces with no line break among them are put behind the line.           *)
TakenSoFar(acc, n, c) ==
  acc = [lines |-> c.lines, line |-> c.line \o SubSeq(c.taken, 1, n)]

PieceFold == INSTANCE FoldInduction WITH op <- TakePiece, Holds <- TakenSoFar

LEMMA InLineTaken ==
  ASSUME NEW lines, NEW line \in Seq(Pieces), NEW taken \in Seq(Pieces), InLine(taken)
  PROVE  PieceFold!Fold([lines |-> lines, line |-> line], taken)
           = [lines |-> lines, line |-> line \o taken]
<1> DEFINE base == [lines |-> lines, line |-> line]
           c == [lines |-> lines, line |-> line, taken |-> taken]
<1>1. TakenSoFar(base, 0, c)
  <2>1. SubSeq(taken, 1, 0) = <<>> /\ line \o <<>> = line
    OBVIOUS
  <2> QED
    BY <2>1 DEF TakenSoFar
<1>2. ASSUME NEW k \in DOMAIN taken, NEW acc, TakenSoFar(acc, k - 1, c)
      PROVE  TakenSoFar(TakePiece(acc, taken[k]), k, c)
  <2> DEFINE piece == taken[k]
             before == SubSeq(taken, 1, k - 1)
  <2>1. piece \in Pieces /\ piece # Newline /\ before \in Seq(Pieces)
        /\ SubSeq(taken, 1, k) = Append(before, piece)
    BY OneMore DEF InLine
  <2>2. acc = [lines |-> lines, line |-> line \o before]
    BY <1>2 DEF TakenSoFar
  <2> HIDE DEF before
  <2>3. line \o Append(before, piece) = Append(line \o before, piece)
    BY <2>1
  <2> HIDE DEF piece
  <2>4. TakePiece(acc, piece) = [acc EXCEPT !.line = Append(@, piece)]
    BY <2>1 DEF TakePiece
  <2>5. TakePiece(acc, piece) = [lines |-> lines, line |-> Append(line \o before, piece)]
    BY Zenon, <2>2, <2>4
  <2>6. TakePiece(acc, piece) = [lines |-> lines, line |-> line \o SubSeq(taken, 1, k)]
    BY Zenon, <2>1, <2>3, <2>5
  <2> QED
    BY <2>6 DEF TakenSoFar, piece
<1>3. TakenSoFar(PieceFold!Fold(base, taken), Len(taken), c)
  BY <1>1, <1>2, PieceFold!FoldHolds
<1>4. SubSeq(taken, 1, Len(taken)) = taken
  OBVIOUS
<1> QED
  BY Zenon, <1>3, <1>4 DEF TakenSoFar

LEMMA NewlineTaken ==
  ASSUME NEW lines, NEW line
  PROVE  PieceFold!Fold([lines |-> lines, line |-> line], <<Newline>>)
           = [lines |-> Append(lines, line), line |-> <<>>]
<1> DEFINE base == [lines |-> lines, line |-> line]
<1>1. Newline \in Pieces /\ <<>> \in Seq(Pieces) /\ <<Newline>> = Append(<<>>, Newline)
  BY PiecesAre
<1>2. PieceFold!Fold(base, Append(<<>>, Newline)) = TakePiece(PieceFold!Fold(base, <<>>), Newline)
  BY Zenon, <1>1, PieceFold!FoldAppend
<1>3. PieceFold!Fold(base, <<>>) = base
  BY PieceFold!FoldNone
<1>4. TakePiece(base, Newline) = [lines |-> Append(lines, line), line |-> <<>>]
  BY DEF TakePiece
<1> QED
  BY <1>1, <1>2, <1>3, <1>4

-----------------------------------------------------------------------------
(* What was read so far starts in the column.                              *)
Aligned(acc, column) ==
  /\ acc = [lines |-> acc.lines, line |-> acc.line]
  /\ acc.lines \in Seq(Seq(Pieces))
  /\ \A i \in DOMAIN acc.lines : StartsIn(acc.lines[i], column)
  /\ acc.line \in Seq(Pieces)
  /\ StartsIn(acc.line, column)

LEMMA LineTaken ==
  ASSUME NEW acc, NEW column, Aligned(acc, column),
         NEW taken \in Seq(Pieces), InLine(taken), StartsIn(acc.line \o taken, column)
  PROVE  /\ Aligned(PieceFold!Fold(acc, taken), column)
         /\ PieceFold!Fold(acc, taken).line = acc.line \o taken
<1>1. /\ acc = [lines |-> acc.lines, line |-> acc.line]
      /\ acc.lines \in Seq(Seq(Pieces))
      /\ \A i \in DOMAIN acc.lines : StartsIn(acc.lines[i], column)
      /\ acc.line \in Seq(Pieces)
  BY DEF Aligned
<1>2. PieceFold!Fold(acc, taken) = [lines |-> acc.lines, line |-> acc.line \o taken]
  <2> DEFINE l == acc.lines
             m == acc.line
  <2>1. acc = [lines |-> l, line |-> m] /\ m \in Seq(Pieces)
    BY <1>1
  <2> HIDE DEF l, m
  <2>2. PieceFold!Fold([lines |-> l, line |-> m], taken) = [lines |-> l, line |-> m \o taken]
    BY Zenon, <2>1, InLineTaken
  <2> QED
    BY <2>1, <2>2 DEF l, m
<1>3. acc.line \o taken \in Seq(Pieces)
  BY <1>1
<1> DEFINE next == PieceFold!Fold(acc, taken)
<1>4. next.lines = acc.lines /\ next.line = acc.line \o taken
      /\ next = [lines |-> next.lines, line |-> next.line]
  BY <1>2
<1> HIDE DEF next
<1>5. Aligned(next, column)
  BY <1>1, <1>3, <1>4 DEF Aligned
<1> QED
  BY <1>4, <1>5 DEF next

LEMMA LineEnds ==
  ASSUME NEW acc, NEW column, Aligned(acc, column)
  PROVE  /\ Aligned(PieceFold!Fold(acc, <<Newline>>), column)
         /\ PieceFold!Fold(acc, <<Newline>>).line = <<>>
<1>1. /\ acc = [lines |-> acc.lines, line |-> acc.line]
      /\ acc.lines \in Seq(Seq(Pieces))
      /\ \A i \in DOMAIN acc.lines : StartsIn(acc.lines[i], column)
      /\ acc.line \in Seq(Pieces) /\ StartsIn(acc.line, column)
  BY DEF Aligned
<1>2. PieceFold!Fold(acc, <<Newline>>) = [lines |-> Append(acc.lines, acc.line), line |-> <<>>]
  <2> DEFINE l == acc.lines
             m == acc.line
  <2>1. acc = [lines |-> l, line |-> m]
    BY <1>1
  <2> HIDE DEF l, m
  <2>2. PieceFold!Fold([lines |-> l, line |-> m], <<Newline>>)
          = [lines |-> Append(l, m), line |-> <<>>]
    BY NewlineTaken
  <2> QED
    BY <2>1, <2>2 DEF l, m
<1> DEFINE next == PieceFold!Fold(acc, <<Newline>>)
<1>3. next.lines = Append(acc.lines, acc.line) /\ next.line = <<>>
      /\ next = [lines |-> next.lines, line |-> next.line]
  BY <1>2
<1>4. /\ Append(acc.lines, acc.line) \in Seq(Seq(Pieces))
      /\ \A i \in DOMAIN Append(acc.lines, acc.line) :
           Append(acc.lines, acc.line)[i] = acc.line \/
           (i \in DOMAIN acc.lines /\ Append(acc.lines, acc.line)[i] = acc.lines[i])
  BY <1>1
<1>5. StartsIn(<<>>, column) /\ <<>> \in Seq(Pieces)
  BY DEF StartsIn
<1> HIDE DEF next
<1>6. Aligned(next, column)
  BY <1>1, <1>3, <1>4, <1>5 DEF Aligned
<1> QED
  BY <1>3, <1>6 DEF next

(* What a tuple is put together from.                                      *)
LEMMA TwoAndOne ==
  ASSUME NEW T, NEW u \in Seq(T), Len(u) = 2, NEW w \in Seq(T), Len(w) = 3,
         w[1] = u[1], w[2] = u[2]
  PROVE  u \o <<w[3]>> = w
<1>1. SubSeq(w, 1, 2) = u
  <2>1. SubSeq(w, 1, 2) \in Seq(T) /\ Len(SubSeq(w, 1, 2)) = 2
    OBVIOUS
  <2>2. \A i \in 1 .. 2 : SubSeq(w, 1, 2)[i] = w[i]
    OBVIOUS
  <2>3. \A i \in 1 .. 2 : w[i] = u[i]
    OBVIOUS
  <2> QED
    BY <2>1, <2>2, <2>3, SeqEqual
<1>2. 3 \in DOMAIN w /\ 3 - 1 = 2 /\ w[3] \in T
  OBVIOUS
<1>3. SubSeq(w, 1, 3) = Append(SubSeq(w, 1, 2), w[3])
  BY <1>2, OneMore
<1>4. SubSeq(w, 1, 3) = w
  OBVIOUS
<1>5. w = Append(u, w[3])
  BY Zenon, <1>1, <1>3, <1>4
<1> QED
  BY <1>2, <1>5

LEMMA Three ==
  ASSUME NEW T, NEW a \in T, NEW b \in T, NEW c \in T
  PROVE  <<a, b>> \o <<c>> = <<a, b, c>>
<1> DEFINE u == <<a, b>>
           w == <<a, b, c>>
<1>1. u \in Seq(T) /\ w \in Seq(T) /\ Len(u) = 2
  OBVIOUS
<1>2. Len(w) = 3 /\ u[1] = a /\ u[2] = b /\ w[1] = a /\ w[2] = b /\ w[3] = c
  OBVIOUS
<1> HIDE DEF u, w
<1>4. u \o <<w[3]>> = w
  BY <1>1, <1>2, TwoAndOne
<1> QED
  BY <1>2, <1>4 DEF u, w

(* One row of print_newline_array().                                       *)
RowOf(pre, row, more) == pre \o Joined(row) \o If(more, <<Space, Backslash, Newline>>)

LEMMA RowIsPieces ==
  ASSUME NEW pre \in Seq(Pieces), NEW row \in Seq(WordPieces), NEW more
  PROVE  RowOf(pre, row, more) \in Seq(Pieces)
<1>1. Joined(row) \in Seq(Pieces)
  BY JoinedIs DEF JoinedSoFar
<1>2. <<Space, Backslash, Newline>> \in Seq(Pieces) /\ <<>> \in Seq(Pieces)
  BY PiecesAre
<1> QED
  BY <1>1, <1>2 DEF RowOf, If

LEMMA RowTaken ==
  ASSUME NEW acc, NEW column, Aligned(acc, column), NEW pre \in Seq(Pieces), InLine(pre),
         LeadsTo(acc.line \o pre, column), NEW row \in Seq(WordPieces), NEW more
  PROVE  /\ Aligned(PieceFold!Fold(acc, RowOf(pre, row, more)), column)
         /\ more => PieceFold!Fold(acc, RowOf(pre, row, more)).line = <<>>
<1> DEFINE body == Joined(row)
           taken == pre \o body
           tail == <<Space, Backslash>>
           first == PieceFold!Fold(acc, taken)
<1>1. body \in Seq(Pieces) /\ InLine(body) /\ (body # <<>> => IsWord(body[1]))
  BY JoinedIs DEF JoinedSoFar
<1>2. acc.line \in Seq(Pieces)
  BY DEF Aligned
<1> HIDE DEF body
<1>3. taken \in Seq(Pieces) /\ InLine(taken)
  BY <1>1 DEF InLine
<1>4. acc.line \o taken = (acc.line \o pre) \o body
  <2>1. \A x, y, z \in Seq(Pieces) : (x \o y) \o z = x \o (y \o z)
    BY ConcatInOrder
  <2> QED
    BY Zenon, <1>1, <1>2, <2>1
<1>5. StartsIn((acc.line \o pre) \o body, column)
  BY <1>1, StartsBehind
<1> HIDE DEF taken
<1>6. Aligned(first, column) /\ first.line = acc.line \o taken
  BY Zenon, <1>3, <1>4, <1>5, LineTaken
<1> HIDE DEF first
<1>7. tail \in Seq(Pieces) /\ InLine(tail) /\ Wordless(tail)
  BY PiecesAre DEF InLine, Wordless
<1> HIDE DEF tail
<1> DEFINE second == PieceFold!Fold(first, tail)
           third == PieceFold!Fold(second, <<Newline>>)
<1>8. Aligned(second, column)
  <2>1. first.line \in Seq(Pieces) /\ StartsIn(first.line, column)
    BY <1>6 DEF Aligned
  <2>2. StartsIn(first.line \o tail, column)
    BY <1>7, <2>1, StartsStill
  <2> QED
    BY Zenon, <1>6, <1>7, <2>2, LineTaken
<1> HIDE DEF second
<1>9. Aligned(third, column) /\ third.line = <<>>
  BY <1>8, LineEnds
<1>10. CASE more
  <2>1. <<Newline>> \in Seq(Pieces)
    BY PiecesAre
  <2>2. tail \o <<Newline>> = <<Space, Backslash, Newline>>
    BY PiecesAre, Three DEF tail
  <2>3. RowOf(pre, row, more) = taken \o (tail \o <<Newline>>)
    BY Zenon, <1>10, <2>2 DEF RowOf, If, taken, body
  <2>4. tail \o <<Newline>> \in Seq(Pieces)
    BY <1>7, <2>1
  <2>5. PieceFold!Fold(acc, taken \o (tail \o <<Newline>>))
          = PieceFold!Fold(first, tail \o <<Newline>>)
    BY Zenon, <1>3, <2>4, PieceFold!FoldConcat DEF first
  <2>6. PieceFold!Fold(first, tail \o <<Newline>>) = third
    BY Zenon, <1>7, <2>1, PieceFold!FoldConcat DEF second
  <2> HIDE DEF third
  <2> QED
    BY <1>9, <2>3, <2>5, <2>6
<1>11. CASE ~more
  <2>1. RowOf(pre, row, more) = taken
    <3>1. taken \o <<>> = taken
      BY <1>3
    <3> QED
      BY <1>11, <3>1 DEF RowOf, If, taken, body
  <2> QED
    BY <1>6, <1>11, <2>1 DEF first
<1> QED
  BY <1>10, <1>11

-----------------------------------------------------------------------------
(* The tabs in front of the first row start behind the modifier.           *)
LEMMA FirstLeads ==
  ASSUME NEW node, node.name \in Nat, node.modifier \in {1, 2},
         NEW column \in Nat, column % 8 = 0, StartLen(node) < column
  PROVE  LeadsTo(HeadOf(node) \o Tabs(Tabstops(column - StartLen(node))), column)
<1> DEFINE head == HeadOf(node)
           s == StartLen(node)
           n == Tabstops(column - s)
           tabs == Tabs(n)
<1>1. s \in Nat
  BY NeededIs
<1>2. head \in Seq(Pieces) /\ InLine(head) /\ Wordless(head) /\ ColumnAfter(head) = s
  BY HeadIs
<1> HIDE DEF s, head
<1>3. n \in Nat \ {0} /\ (s \div 8 + n) * 8 = column
  BY <1>1, TabsToColumn DEF s
<1> HIDE DEF n
<1>4. tabs \in Seq(Pieces) /\ InLine(tabs) /\ Wordless(tabs)
  BY <1>3, TabsAre
<1>5. ColumnFold!Fold(s, tabs) = column
  BY Zenon, <1>1, <1>3, TabsColumn
<1> HIDE DEF tabs
<1>6. ColumnAfter(head \o tabs) = column
  <2>1. ColumnAfter(head \o tabs) = ColumnFold!Fold(0, head \o tabs)
        /\ ColumnAfter(head) = ColumnFold!Fold(0, head)
    BY ColumnIsFold
  <2>2. ColumnFold!Fold(0, head \o tabs) = ColumnFold!Fold(ColumnFold!Fold(0, head), tabs)
    BY <1>2, <1>4, ColumnFold!FoldConcat
  <2> QED
    BY <1>2, <1>5, <2>1, <2>2
<1>7. head \o tabs \in Seq(Pieces) /\ InLine(head \o tabs) /\ Wordless(head \o tabs)
  <2>1. /\ DOMAIN (head \o tabs) = 1 .. (Len(head) + Len(tabs))
        /\ \A i \in 1 .. Len(head) : (head \o tabs)[i] = head[i] /\ i \in DOMAIN head
        /\ \A i \in (Len(head) + 1) .. (Len(head) + Len(tabs)) :
             (head \o tabs)[i] = tabs[i - Len(head)] /\ i - Len(head) \in DOMAIN tabs
        /\ Len(head) \in Nat /\ Len(tabs) \in Nat
    BY <1>2, <1>4
  <2>2. \A i \in DOMAIN (head \o tabs) :
          i \in 1 .. Len(head) \/ i \in (Len(head) + 1) .. (Len(head) + Len(tabs))
    BY <2>1
  <2> DEFINE both == head \o tabs
  <2>3. both \in Seq(Pieces)
    BY <1>2, <1>4
  <2> HIDE DEF both
  <2>4. InLine(both) /\ Wordless(both)
    BY <1>2, <1>4, <2>1, <2>2 DEF InLine, Wordless, both
  <2> QED
    BY <2>3, <2>4 DEF both
<1> QED
  BY <1>6, <1>7 DEF LeadsTo, head, tabs, n, s

(* Those in front of the others start at the margin.                       *)
LEMMA OthersLead ==
  ASSUME NEW column \in Nat \ {0}, column % 8 = 0
  PROVE  LeadsTo(Tabs(Tabstops(column)), column)
<1> DEFINE n == Tabstops(column)
           tabs == Tabs(n)
<1>1. n \in Nat \ {0} /\ n * 8 = column
  <2>1. 0 \in Nat /\ 0 < column
    OBVIOUS
  <2> QED
    BY <2>1, TabsToColumn
<1> HIDE DEF n
<1>2. tabs \in Seq(Pieces) /\ InLine(tabs) /\ Wordless(tabs)
  BY <1>1, TabsAre
<1>3. ColumnFold!Fold(0, tabs) = (0 \div 8 + n) * 8
  BY <1>1, TabsColumn
<1>4. 0 \div 8 + n = n
  BY <1>1
<1>5. ColumnAfter(tabs) = ColumnFold!Fold(0, tabs)
  BY ColumnIsFold
<1> HIDE DEF tabs
<1>6. LeadsTo(tabs, column)
  BY <1>1, <1>2, <1>3, <1>4, <1>5 DEF LeadsTo
<1> QED
  BY <1>6 DEF tabs, n

(* What was read after some of the rows.                                   *)
AfterRows(acc, k, n, head, column) ==
  /\ Aligned(acc, column)
  /\ k = 0 => acc.line = head
  /\ k > 0 /\ k < n => acc.line = <<>>

(* The rows, one behind the other.                                         *)
LEMMA RowsTaken ==
  ASSUME NEW acc, NEW column, NEW head, NEW rows \in Seq(Seq(WordPieces)),
         AfterRows(acc, 0, Len(rows), head, column),
         NEW first \in Seq(Pieces), InLine(first), NEW others \in Seq(Pieces), InLine(others),
         rows # <<>> => LeadsTo(head \o first, column) /\ LeadsTo(others, column),
         NEW printed, printed = [k \in DOMAIN rows |->
           RowOf(IF k = 1 THEN first ELSE others, rows[k], k < Len(rows))]
  PROVE  Aligned(PieceFold!Fold(acc, FlattenSeq(printed)), column)
         /\ FlattenSeq(printed) \in Seq(Pieces)
<1> DEFINE n == Len(rows)
           pre(k) == IF k = 1 THEN first ELSE others
           At(k) == PieceFold!Fold(acc, FlattenSeq(SubSeq(printed, 1, k)))
           So == {k \in Nat : k <= n => AfterRows(At(k), k, n, head, column)}
<1>1. n \in Nat /\ DOMAIN rows = 1 .. n
  OBVIOUS
<1>2. \A k \in 1 .. n : /\ rows[k] \in Seq(WordPieces)
                        /\ pre(k) \in Seq(Pieces) /\ InLine(pre(k))
                        /\ printed[k] = RowOf(pre(k), rows[k], k < n)
  BY <1>1
<1>3. printed \in Seq(Seq(Pieces)) /\ Len(printed) = n /\ DOMAIN printed = 1 .. n
  <2> DEFINE T == Seq(Pieces)
             e == printed
  <2>1. \A k \in 1 .. n : e[k] \in T
    BY <1>2, RowIsPieces
  <2>2. e = [k \in 1 .. n |-> e[k]]
    BY <1>1
  <2> HIDE DEF T, n, e
  <2>3. e \in Seq(T) /\ Len(e) = n /\ DOMAIN e = 1 .. n
    BY Zenon, <1>1, <2>1, <2>2, FunctionSeq
  <2> QED
    BY <2>3 DEF T, e
<1>4. 0 \in So
  <2>1. SubSeq(printed, 1, 0) = <<>>
    BY <1>3, NoneAndAll
  <2>2. FlattenSeq(<<>>) = <<>>
    <3>1. <<>> \in Seq(Pieces) /\ \A i \in DOMAIN <<>> : <<>>[i] = <<>>
      OBVIOUS
    <3> QED
      BY Zenon, <3>1, FlattenNothing
  <2>3. At(0) = acc
    BY Zenon, <2>1, <2>2, PieceFold!FoldNone
  <2> QED
    BY <2>3
<1>5. ASSUME NEW k \in Nat, k \in So
      PROVE  k + 1 \in So
  <2> SUFFICES ASSUME k + 1 <= n
               PROVE  AfterRows(At(k + 1), k + 1, n, head, column)
    OBVIOUS
  <2>1. AfterRows(At(k), k, n, head, column) /\ k + 1 \in 1 .. n /\ k < n /\ (k + 1) - 1 = k
    BY <1>1, <1>5
  <2> DEFINE before == SubSeq(printed, 1, k)
             flat == FlattenSeq(before)
             row == printed[k + 1]
             now == PieceFold!Fold(acc, flat)
  <2>2. /\ before \in Seq(Seq(Pieces)) /\ row \in Seq(Pieces)
        /\ SubSeq(printed, 1, k + 1) = Append(before, row)
    <3> DEFINE T == Seq(Pieces)
    <3>1. printed \in Seq(T) /\ k + 1 \in DOMAIN printed
      BY <1>3, <2>1
    <3> HIDE DEF T
    <3>2. /\ SubSeq(printed, 1, (k + 1) - 1) \in Seq(T) /\ printed[k + 1] \in T
          /\ SubSeq(printed, 1, k + 1) = Append(SubSeq(printed, 1, (k + 1) - 1), printed[k + 1])
      BY Zenon, <3>1, OneMore
    <3> QED
      BY Zenon, <2>1, <3>2 DEF T
  <2> HIDE DEF before, row
  <2>3. FlattenSeq(Append(before, row)) = flat \o row
    <3>1. Append(before, row) \in Seq(Seq(Pieces)) /\ Len(Append(before, row)) = Len(before) + 1
          /\ (\A i \in 1 .. Len(before) : Append(before, row)[i] = before[i])
          /\ Append(before, row)[Len(before) + 1] = row
      BY <2>2
    <3> QED
      BY Zenon, <2>2, <3>1, FlattenNext
  <2>4. flat \in Seq(Pieces)
    BY <2>2, FlattenType
  <2> HIDE DEF flat
  <2>5. At(k + 1) = PieceFold!Fold(now, row)
    <3>1. At(k + 1) = PieceFold!Fold(acc, FlattenSeq(SubSeq(printed, 1, k + 1)))
      OBVIOUS
    <3>2. FlattenSeq(SubSeq(printed, 1, k + 1)) = flat \o row
      BY Zenon, <2>2, <2>3
    <3>3. PieceFold!Fold(acc, flat \o row) = PieceFold!Fold(now, row)
      BY <2>2, <2>4, PieceFold!FoldConcat
    <3> HIDE DEF At, now
    <3> QED
      BY Zenon, <3>1, <3>2, <3>3
  <2>6. AfterRows(now, k, n, head, column)
    BY <2>1 DEF flat, before
  <2> HIDE DEF now
  <2>7. Aligned(now, column) /\ LeadsTo(now.line \o pre(k + 1), column)
    <3>1. rows # <<>>
      BY <1>1, <2>1
    <3>2. CASE k = 0
      <4>1. now.line = head /\ pre(k + 1) = first
        BY <2>6, <3>2 DEF AfterRows
      <4> QED
        BY <2>6, <3>1, <4>1 DEF AfterRows
    <3>3. CASE k # 0
      <4>1. now.line = <<>> /\ pre(k + 1) = others
        BY <2>1, <2>6, <3>3 DEF AfterRows
      <4>2. <<>> \o others = others
        OBVIOUS
      <4> QED
        BY <2>6, <3>1, <4>1, <4>2 DEF AfterRows
    <3> QED
      BY <3>2, <3>3
  <2> DEFINE p == pre(k + 1)
             words == rows[k + 1]
             more == k + 1 < n
  <2>8. p \in Seq(Pieces) /\ InLine(p) /\ words \in Seq(WordPieces) /\ row = RowOf(p, words, more)
    BY <1>2, <2>1 DEF row
  <2>9. LeadsTo(now.line \o p, column)
    BY <2>7
  <2> HIDE DEF p, words, more
  <2>10. Aligned(PieceFold!Fold(now, row), column) /\ (more => PieceFold!Fold(now, row).line = <<>>)
    BY <2>7, <2>8, <2>9, RowTaken
  <2> DEFINE next == PieceFold!Fold(now, row)
  <2>11. Aligned(next, column) /\ (k + 1 < n => next.line = <<>>)
    BY <2>10 DEF more
  <2> HIDE DEF next
  <2>12. AfterRows(next, k + 1, n, head, column)
    BY <2>11 DEF AfterRows
  <2> QED
    BY <2>5, <2>12 DEF next
<1> HIDE DEF So
<1>6. n \in So
  BY Zenon, <1>1, <1>4, <1>5, SetInduction
<1>7. AfterRows(At(n), n, n, head, column)
  BY <1>1, <1>6 DEF So
<1>8. SubSeq(printed, 1, n) = printed
  BY <1>3, NoneAndAll
<1>9. FlattenSeq(printed) \in Seq(Pieces)
  BY Zenon, <1>3, FlattenType
<1> QED
  BY Zenon, <1>7, <1>8, <1>9 DEF AfterRows

-----------------------------------------------------------------------------
(* Every line of print_newline_array() that has words starts in the goal   *)
(* column, but not in front of 16.                                         *)
LEMMA LinesStart ==
  ASSUME NEW node, node.name \in Nat, node.modifier \in {1, 2}, NEW goal,
         Max({16, goal}) \in Nat, NEW rows \in Seq(Seq(WordPieces)), NEW column,
         rows # <<>> =>
           column = Max({16, goal}) /\ column % 8 = 0 /\ StartLen(node) < column
  PROVE  LET lines == PhysicalLines(PrintNewlineArray(node, goal, rows))
         IN \A i \in DOMAIN lines : StartsIn(lines[i], column) /\ lines[i] \in Seq(Pieces)
<1> DEFINE head == HeadOf(node)
           startlen == StartLen(node)
           margin == Max({16, goal})
           n == Tabstops(IF startlen > margin THEN startlen - margin ELSE margin - startlen)
           first == Tabs(n)
           others == Tabs(Tabstops(margin))
           printed == [k \in DOMAIN rows |->
                         RowOf(IF k = 1 THEN first ELSE others, rows[k], k < Len(rows))]
           flat == FlattenSeq(printed)
           comment == IF rows = <<>> THEN first \o <<Comment>> ELSE <<Space, Comment>>
           last == If(node.comment, comment)
           base == [lines |-> <<>>, line |-> <<>>]
<1>1. startlen \in Nat
  BY NeededIs
<1>2. n \in Nat /\ Tabstops(margin) \in Nat
  <2> DEFINE behind == IF startlen > margin THEN startlen - margin ELSE margin - startlen
  <2>1. behind \in Nat /\ margin \in Nat
    BY <1>1
  <2> HIDE DEF behind, margin
  <2> QED
    BY <2>1 DEF Tabstops, behind
<1>3. first \in Seq(Pieces) /\ InLine(first) /\ Wordless(first)
      /\ others \in Seq(Pieces) /\ InLine(others)
  BY <1>2, TabsAre
<1>4. head \in Seq(Pieces) /\ InLine(head) /\ Wordless(head)
  BY HeadIs
<1>5. rows # <<>> => LeadsTo(head \o first, column) /\ LeadsTo(others, column)
  <2> SUFFICES ASSUME rows # <<>>
               PROVE  LeadsTo(head \o first, column) /\ LeadsTo(others, column)
    OBVIOUS
  <2>1. startlen < column /\ column \in Nat \ {0} /\ column = margin /\ column % 8 = 0
    BY <1>1
  <2>2. n = Tabstops(column - startlen)
    BY <1>1, <2>1
  <2>3. LeadsTo(head \o first, column)
    BY <2>1, <2>2, FirstLeads
  <2>4. LeadsTo(others, column)
    BY <2>1, OthersLead
  <2> QED
    BY <2>3, <2>4
<1>6. PrintNewlineArray(node, goal, rows) = ((head \o flat) \o last) \o <<Newline>>
  BY DEF PrintNewlineArray, HeadOf, RowOf
<1>7. last \in Seq(Pieces) /\ InLine(last) /\ Wordless(last)
  <2>1. /\ <<Comment>> \in Seq(Pieces) /\ InLine(<<Comment>>) /\ Wordless(<<Comment>>)
        /\ <<Space, Comment>> \in Seq(Pieces) /\ InLine(<<Space, Comment>>)
        /\ Wordless(<<Space, Comment>>)
    BY PiecesAre DEF InLine, Wordless
  <2>2. /\ first \o <<Comment>> \in Seq(Pieces)
        /\ InLine(first \o <<Comment>>) /\ Wordless(first \o <<Comment>>)
    <3> DEFINE both == Append(first, Comment)
               start == first
    <3>1. first \o <<Comment>> = both
      <4> HIDE DEF first
      <4> QED
        BY <1>3, PiecesAre
    <3>2. start \in Seq(Pieces) /\ both = Append(start, Comment) /\ InLine(start) /\ Wordless(start)
      BY <1>3
    <3> HIDE DEF start, both
    <3>3. /\ both \in Seq(Pieces)
          /\ \A i \in DOMAIN both : both[i] = Comment \/ (i \in DOMAIN start /\ both[i] = start[i])
      BY <3>2, PiecesAre
    <3>4. InLine(both) /\ Wordless(both)
      BY <3>2, <3>3, PiecesAre DEF InLine, Wordless
    <3> QED
      BY Zenon, <3>1, <3>3, <3>4
  <2>3. comment \in Seq(Pieces) /\ InLine(comment) /\ Wordless(comment)
    <3>1. CASE rows = <<>>
      BY <2>2, <3>1
    <3>2. CASE rows # <<>>
      BY <2>1, <3>2
    <3> QED
      BY <3>1, <3>2
  <2> HIDE DEF comment
  <2>4. <<>> \in Seq(Pieces) /\ InLine(<<>>) /\ Wordless(<<>>)
    BY DEF InLine, Wordless
  <2>5. CASE node.comment
    BY <2>3, <2>5 DEF If
  <2>6. CASE ~node.comment
    BY <2>4, <2>6 DEF If
  <2> QED
    BY <2>5, <2>6
<1> HIDE DEF head, first, others, comment, last
<1> DEFINE acc1 == PieceFold!Fold(base, head)
           acc2 == PieceFold!Fold(acc1, flat)
           acc3 == PieceFold!Fold(acc2, last)
           acc4 == PieceFold!Fold(acc3, <<Newline>>)
<1>8. AfterRows(acc1, 0, Len(rows), head, column)
  <2>1. base.line = <<>> /\ base.lines = <<>> /\ <<>> \o head = head
    BY <1>4
  <2>2. Aligned(base, column)
    BY WordlessStarts DEF Aligned, Wordless
  <2> HIDE DEF base
  <2>3. StartsIn(base.line \o head, column)
    BY <1>4, <2>1, WordlessStarts
  <2>4. Aligned(acc1, column) /\ acc1.line = base.line \o head
    BY <1>4, <2>2, <2>3, LineTaken
  <2> HIDE DEF acc1
  <2> QED
    BY <2>1, <2>4 DEF AfterRows
<1> HIDE DEF acc1, base
<1>9. Aligned(acc2, column) /\ flat \in Seq(Pieces)
  <2> DEFINE p == printed
  <2>1. p = [k \in DOMAIN rows |->
               RowOf(IF k = 1 THEN first ELSE others, rows[k], k < Len(rows))]
    OBVIOUS
  <2> HIDE DEF p
  <2>2. Aligned(PieceFold!Fold(acc1, FlattenSeq(p)), column) /\ FlattenSeq(p) \in Seq(Pieces)
    BY <1>3, <1>5, <1>8, <2>1, RowsTaken
  <2> QED
    BY <2>2 DEF p
<1> HIDE DEF acc2, flat, printed
<1>10. Aligned(acc3, column)
  <2>1. acc2.line \in Seq(Pieces) /\ StartsIn(acc2.line, column)
    BY <1>9 DEF Aligned
  <2>2. StartsIn(acc2.line \o last, column)
    BY <1>7, <2>1, StartsStill
  <2> QED
    BY <1>7, <1>9, <2>2, LineTaken
<1> HIDE DEF acc3
<1>11. Aligned(acc4, column)
  BY <1>10, LineEnds
<1> HIDE DEF acc4
<1>12. PhysicalLines(PrintNewlineArray(node, goal, rows)) = acc4.lines
  <2> DEFINE all == PrintNewlineArray(node, goal, rows)
             t1 == head \o flat
             t2 == t1 \o last
  <2>1. all = t2 \o <<Newline>>
    BY <1>6
  <2>2. t1 \in Seq(Pieces) /\ t2 \in Seq(Pieces) /\ <<Newline>> \in Seq(Pieces)
    BY <1>4, <1>7, <1>9, PiecesAre
  <2>3. PieceFold!Fold(base, t1) = acc2
    BY <1>4, <1>9, PieceFold!FoldConcat DEF acc1, acc2
  <2> HIDE DEF t1
  <2>4. PieceFold!Fold(base, t2) = acc3
    BY <1>7, <2>2, <2>3, PieceFold!FoldConcat DEF acc3
  <2> HIDE DEF t2
  <2>5. PieceFold!Fold(base, all) = acc4
    <3>1. PieceFold!Fold(base, t2 \o <<Newline>>)
            = PieceFold!Fold(PieceFold!Fold(base, t2), <<Newline>>)
      BY Zenon, <2>2, PieceFold!FoldConcat
    <3> HIDE DEF all
    <3> QED
      BY <2>1, <2>4, <3>1 DEF acc4
  <2> HIDE DEF all
  <2>6. PhysicalLines(all) = PieceFold!Fold(base, all).lines
    <3>1. FoldLeft(TakePiece, base, all) = PieceFold!Fold(base, all)
      BY Zenon DEF PieceFold!Fold, PieceFold!Greatest,
         FoldLeft, MapThenFoldSet, Max
    <3>2. PhysicalLines(all) = FoldLeft(TakePiece, base, all).lines
      BY DEF PhysicalLines, base
    <3> QED
      BY <3>1, <3>2
  <2> QED
    BY <2>5, <2>6 DEF all
<1>13. acc4.lines \in Seq(Seq(Pieces)) /\ \A i \in DOMAIN acc4.lines : StartsIn(acc4.lines[i], column)
  BY <1>11 DEF Aligned
<1>14. \A i \in DOMAIN acc4.lines : acc4.lines[i] \in Seq(Pieces)
  BY <1>13
<1> QED
  BY <1>12, <1>13, <1>14

(* Its first words are where its lines start.                              *)
LEMMA StartsOfLines ==
  ASSUME NEW pieces, NEW column,
         \A i \in DOMAIN PhysicalLines(pieces) :
           /\ StartsIn(PhysicalLines(pieces)[i], column)
           /\ PhysicalLines(pieces)[i] \in Seq(Pieces)
  PROVE  StartColumns(pieces) \subseteq {column}
<1> SUFFICES ASSUME NEW line \in ToSet(PhysicalLines(pieces)), FirstWord(line) # 0
             PROVE  ColumnAfter(SubSeq(line, 1, FirstWord(line) - 1)) = column
  BY DEF StartColumns
<1>1. StartsIn(line, column) /\ line \in Seq(Pieces)
  BY DEF ToSet
<1> DEFINE words == {k \in DOMAIN line : IsWord(line[k])}
<1>2. words # {} /\ FirstWord(line) = Min(words)
  BY DEF FirstWord
<1>3. words \in SUBSET Nat /\ DOMAIN line = 1 .. Len(line) /\ Len(line) \in Nat
  BY <1>1
<1>4. Min(words) \in words /\ \A x \in words : Min(words) <= x
  <2> HIDE DEF words
  <2> QED
    BY <1>2, <1>3, MinIs
<1> DEFINE k == Min(words)
<1>5. k \in DOMAIN line /\ IsWord(line[k]) /\ k \in 1 .. Len(line)
  BY <1>3, <1>4
<1>6. \A j \in 1 .. (k - 1) : ~IsWord(line[j])
  <2> SUFFICES ASSUME NEW j \in 1 .. (k - 1), IsWord(line[j])
               PROVE  FALSE
    OBVIOUS
  <2>1. j \in 1 .. Len(line) /\ j < k
    <3> HIDE DEF k
    <3> QED
      BY <1>3, <1>5
  <2>2. j \in words
    BY <1>3, <2>1
  <2>3. k <= j
    BY <1>4, <2>2
  <2> HIDE DEF k
  <2> QED
    BY <1>3, <1>5, <2>1, <2>3
<1> HIDE DEF k
<1>7. ColumnAfter(SubSeq(line, 1, k - 1)) = column
  BY <1>1, <1>5, <1>6 DEF StartsIn
<1> QED
  BY <1>2, <1>7 DEF k

-----------------------------------------------------------------------------
(* An empty line between two statements.                                   *)
Parted(j, k) == \E i \in j .. k : file[i].type = "comment" /\ file[i].blank

(* A number is the greatest of 16 and what the variables of a block need.  *)
IsColumnOf(column, block) ==
  LET columns == {16} \cup {Needed(file[j]) : j \in block}
  IN column \in columns /\ \A c \in columns : c <= column

(* What was met has the column of its block, or is in the block that is    *)
(* still to get one.                                                       *)
HasItsColumn(k) ==
  IsAligned(k) /\ ~(pc = "goalcols" /\ k \in nodes) => IsColumnOf(goalcol[k], BlockOf(k))

SkipsBlock(k) ==
  file[k].type = "variable" /\ file[k].words # <<>> /\ file[k].skip =>
    goalcol[k] = Needed(file[k])

(* The variables in front of a statement with no empty line between.       *)
Gathered(k) == {j \in DOMAIN file : j < k /\ IsAligned(j) /\ ~Parted(j, k - 1)}

Met(k) == k \in DOMAIN file /\ (pc = "goalcols" => k < at)

BlocksInv ==
  /\ ColumnsInv
  /\ pc \in {"goalcols", "print", "done"}
  /\ pc = "goalcols" =>
       /\ nodes = Gathered(at)
       /\ moving_goalcol \in {0} \cup {Needed(file[j]) : j \in nodes}
       /\ \A j \in nodes : Needed(file[j]) <= moving_goalcol
  /\ \A k \in DOMAIN file : Met(k) => HasItsColumn(k) /\ SkipsBlock(k)

(* The lines of the variables printed so far.                              *)
PrintedInv ==
  /\ result \in Seq({result[k] : k \in DOMAIN result})
  /\ pc = "goalcols" => result = <<>>
  /\ pc = "print" => Len(result) = at - 1 /\ at <= Len(file) + 1
  /\ Len(result) <= Len(file)
  /\ \A k \in DOMAIN result :
       file[k].type = "variable" => result[k] = VariableLines(file[k], goalcol[k])

-----------------------------------------------------------------------------
LEMMA VariableIs ==
  ASSUME file \in Files, NEW k \in DOMAIN file, file[k].type = "variable"
  PROVE  /\ file[k].name \in Nat /\ file[k].modifier \in {1, 2}
         /\ file[k].words \in Seq(WordPieces)
         /\ Needed(file[k]) \in Nat /\ IndentGoalcol(file[k]) = Needed(file[k])
<1>1. file[k].name \in Nat /\ file[k].modifier \in {1, 2} /\ file[k].words \in Seq(WordPieces)
  BY Zenon, FilesAssumption
<1> DEFINE node == file[k]
<1>2. node.name \in Nat /\ node.modifier \in {1, 2}
  BY <1>1
<1> HIDE DEF node
<1>3. Needed(node) \in Nat /\ IndentGoalcol(node) = Needed(node)
  BY <1>2, NeededIs, IndentIsNeeded
<1> QED
  BY <1>1, <1>3 DEF node

(* Where a block ends, it is what parser_propagate_goalcol() has gathered. *)
LEMMA BlockIsNodes ==
  ASSUME BlocksInv, pc = "goalcols",
         at \in DOMAIN file => file[at].type = "comment" /\ file[at].blank,
         NEW k \in nodes
  PROVE  BlockOf(k) = nodes
<1>1. Len(file) \in Nat /\ DOMAIN file = 1 .. Len(file)
  BY FileIsSequence DEF BlocksInv, ColumnsInv
<1>2. nodes = {j \in DOMAIN file : j < at /\ IsAligned(j) /\ ~Parted(j, at - 1)}
  BY DEF BlocksInv, Gathered
<1>3. at \in Nat \ {0} /\ at <= Len(file) + 1
  BY DEF BlocksInv, ColumnsInv
<1>4. k \in DOMAIN file /\ k < at /\ IsAligned(k) /\ ~Parted(k, at - 1)
  BY <1>2
<1>5. BlockOf(k) = {j \in DOMAIN file : IsAligned(j) /\ ~Parted(Min({j, k}), Max({j, k}))}
  BY <1>4 DEF BlockOf, Parted
<1>6. ASSUME NEW j \in DOMAIN file, IsAligned(j)
      PROVE  ~Parted(Min({j, k}), Max({j, k})) <=> j < at /\ ~Parted(j, at - 1)
  <2>1. j \in Nat /\ k \in Nat
    BY <1>1, <1>4
  <2>2. CASE j <= k
    <3>1. Min({j, k}) = j /\ Max({j, k}) = k
      BY <2>1, <2>2 DEF Min, Max
    <3>2. j < at
      BY <1>3, <1>4, <2>1, <2>2
    <3>3. Parted(j, k) => Parted(j, at - 1)
      BY <1>3, <1>4, <2>1, <2>2 DEF Parted
    <3>4. Parted(j, at - 1) => Parted(j, k)
      <4> SUFFICES ASSUME NEW i \in j .. (at - 1), file[i].type = "comment" /\ file[i].blank
                   PROVE  Parted(j, k)
        BY DEF Parted
      <4>1. ~(i \in k .. (at - 1))
        BY <1>4 DEF Parted
      <4>2. i \in j .. k
        BY <1>3, <2>1, <2>2, <4>1
      <4> QED
        BY <4>2 DEF Parted
    <3> QED
      BY <3>1, <3>2, <3>3, <3>4
  <2>3. CASE k < j
    <3>1. Min({j, k}) = k /\ Max({j, k}) = j
      BY <2>1, <2>3 DEF Min, Max
    <3>2. CASE j < at
      <4>1. ~Parted(k, j)
        BY <1>3, <1>4, <2>1, <2>3, <3>2 DEF Parted
      <4>2. ~Parted(j, at - 1)
        BY <1>3, <1>4, <2>1, <2>3, <3>2 DEF Parted
      <4> QED
        BY <3>1, <3>2, <4>1, <4>2
    <3>3. CASE ~(j < at)
      <4>1. at \in DOMAIN file /\ at \in k .. j
        BY <1>1, <1>3, <1>4, <2>1, <3>3
      <4>2. Parted(k, j)
        BY <4>1 DEF Parted
      <4> QED
        BY <3>1, <3>3, <4>2
    <3> QED
      BY <3>2, <3>3
  <2> QED
    BY <2>1, <2>2, <2>3
<1> QED
  BY <1>2, <1>5, <1>6

(* Each gets the greatest.                                                 *)
LEMMA PropagateGivesColumns ==
  ASSUME BlocksInv, pc = "goalcols", Propagate, UNCHANGED file,
         at \in DOMAIN file => file[at].type = "comment" /\ file[at].blank
  PROVE  \A k \in DOMAIN file : k < at => 
           /\ IsAligned(k) => IsColumnOf(goalcol'[k], BlockOf(k))
           /\ file[k].type = "variable" /\ file[k].words # <<>> /\ file[k].skip =>
                goalcol'[k] = Needed(file[k])
<1>1. DOMAIN goalcol = DOMAIN file /\ moving_goalcol \in Nat /\ file \in Files
  BY DEF BlocksInv, ColumnsInv
<1>2. nodes \subseteq DOMAIN file
      /\ (\A j \in nodes : IsAligned(j))
      /\ moving_goalcol \in {0} \cup {Needed(file[j]) : j \in nodes}
      /\ \A j \in nodes : Needed(file[j]) <= moving_goalcol
  BY DEF BlocksInv, Gathered
<1> SUFFICES ASSUME NEW k \in DOMAIN file, k < at
             PROVE  /\ IsAligned(k) => IsColumnOf(goalcol'[k], BlockOf(k))
                    /\ file[k].type = "variable" /\ file[k].words # <<>> /\ file[k].skip =>
                         goalcol'[k] = Needed(file[k])
  OBVIOUS
<1>3. Met(k) /\ HasItsColumn(k) /\ SkipsBlock(k)
  BY DEF BlocksInv, Met
<1>4. CASE k \notin nodes
  <2>1. goalcol'[k] = goalcol[k]
    BY <1>1, <1>4 DEF Propagate
  <2> QED
    BY <1>3, <1>4, <2>1 DEF HasItsColumn, SkipsBlock
<1>5. CASE k \in nodes
  <2>1. goalcol'[k] = Max({16, moving_goalcol})
    BY <1>1, <1>5 DEF Propagate
  <2>2. BlockOf(k) = nodes
    BY <1>5, BlockIsNodes
  <2>3. \A j \in nodes : Needed(file[j]) \in Nat
    BY <1>1, <1>2, VariableIs DEF IsAligned
  <2> DEFINE m == moving_goalcol
             columns == {16} \cup {Needed(file[j]) : j \in nodes}
  <2>4. Max({16, m}) = IF m <= 16 THEN 16 ELSE m
    <3>1. m \in Nat
      BY <1>1
    <3> HIDE DEF m
    <3>2. CASE m <= 16
      BY <3>1, <3>2 DEF Max
    <3>3. CASE ~(m <= 16)
      BY <3>1, <3>3 DEF Max
    <3> QED
      BY <3>2, <3>3
  <2>5. IsColumnOf(Max({16, m}), nodes)
    <3>1. Max({16, m}) \in columns
      BY <1>1, <1>2, <2>4
    <3>2. \A c \in columns : c <= Max({16, m})
      BY <1>1, <1>2, <2>3, <2>4
    <3> QED
      BY <3>1, <3>2 DEF IsColumnOf
  <2>6. ~file[k].skip
    BY <1>2, <1>5 DEF IsAligned
  <2> QED
    BY <2>1, <2>2, <2>5, <2>6
<1> QED
  BY <1>4, <1>5

-----------------------------------------------------------------------------
(* What depends on the file alone stays.                                   *)
LEMMA SameFile ==
  ASSUME UNCHANGED file, NEW k
  PROVE  /\ IsAligned(k)' <=> IsAligned(k)
         /\ BlockOf(k)' = BlockOf(k)
         /\ Gathered(k)' = Gathered(k)
<1>1. \A j : IsAligned(j)' <=> IsAligned(j)
  BY DEF IsAligned
<1>2. BlockOf(k)' = BlockOf(k)
  BY Zenon DEF BlockOf, IsAligned
<1>3. Gathered(k)' = Gathered(k)
  BY Zenon DEF Gathered, Parted, IsAligned
<1> QED
  BY <1>1, <1>2, <1>3

(* What is still asked of a node.                                          *)
LEMMA ColumnNow ==
  ASSUME UNCHANGED file, NEW k
  PROVE  /\ HasItsColumn(k)' <=>
              (IsAligned(k) /\ ~(pc' = "goalcols" /\ k \in nodes') =>
                 IsColumnOf(goalcol'[k], BlockOf(k)))
         /\ SkipsBlock(k)' <=>
              (file[k].type = "variable" /\ file[k].words # <<>> /\ file[k].skip =>
                 goalcol'[k] = Needed(file[k]))
<1>1. IsColumnOf(goalcol[k], BlockOf(k))' <=> IsColumnOf(goalcol'[k], BlockOf(k))
  <2>1. BlockOf(k)' = BlockOf(k)
    BY SameFile
  <2> HIDE DEF BlockOf
  <2> QED
    BY Zenon, <2>1 DEF IsColumnOf, Needed, StartLen
<1>2. IsAligned(k)' <=> IsAligned(k)
  BY SameFile
<1> HIDE DEF BlockOf
<1>3. HasItsColumn(k)' <=>
              (IsAligned(k) /\ ~(pc' = "goalcols" /\ k \in nodes') =>
                 IsColumnOf(goalcol'[k], BlockOf(k)))
  BY Zenon, <1>1, <1>2 DEF HasItsColumn
<1>4. SkipsBlock(k)' <=>
              (file[k].type = "variable" /\ file[k].words # <<>> /\ file[k].skip =>
                 goalcol'[k] = Needed(file[k]))
  BY Zenon DEF SkipsBlock, Needed, StartLen
<1> QED
  BY <1>3, <1>4

(* The walker goes on.                                                     *)
LEMMA GatheredNext ==
  ASSUME BlocksInv, pc = "goalcols", at \in DOMAIN file,
         ~(file[at].type = "comment" /\ file[at].blank)
  PROVE  Gathered(at + 1) = nodes \cup {j \in {at} : IsAligned(at)}
<1>1. Len(file) \in Nat /\ DOMAIN file = 1 .. Len(file) /\ at \in Nat \ {0}
  BY FileIsSequence DEF BlocksInv, ColumnsInv
<1>2. nodes = {j \in DOMAIN file : j < at /\ IsAligned(j) /\ ~Parted(j, at - 1)}
  BY DEF BlocksInv, Gathered
<1>3. Gathered(at + 1) = {j \in DOMAIN file : j < at + 1 /\ IsAligned(j) /\ ~Parted(j, at)}
  <2>1. (at + 1) - 1 = at
    BY <1>1
  <2> QED
    BY <2>1 DEF Gathered
<1>4. \A j \in DOMAIN file : j < at + 1 <=> j < at \/ j = at
  BY <1>1
<1>5. ~Parted(at, at)
  BY <1>1 DEF Parted
<1>6. \A j \in DOMAIN file : j < at => (Parted(j, at) <=> Parted(j, at - 1))
  <2> SUFFICES ASSUME NEW j \in DOMAIN file, j < at
               PROVE  Parted(j, at) <=> Parted(j, at - 1)
    OBVIOUS
  <2>1. \A i \in j .. at : i = at \/ i \in j .. (at - 1)
    BY <1>1
  <2>2. \A i \in j .. (at - 1) : i \in j .. at
    BY <1>1
  <2> QED
    BY <2>1, <2>2 DEF Parted
<1> HIDE DEF IsAligned
<1> QED
  BY <1>2, <1>3, <1>4, <1>5, <1>6

LEMMA GatheredNone ==
  ASSUME BlocksInv, at \in DOMAIN file, file[at].type = "comment", file[at].blank
  PROVE  Gathered(at + 1) = {}
<1>1. Len(file) \in Nat /\ DOMAIN file = 1 .. Len(file) /\ at \in Nat \ {0}
  BY FileIsSequence DEF BlocksInv, ColumnsInv
<1>2. (at + 1) - 1 = at
  BY <1>1
<1>3. \A j \in DOMAIN file : j < at + 1 => at \in j .. at
  BY <1>1
<1> QED
  BY <1>2, <1>3 DEF Gathered, Parted

LEMMA BlocksInit == Init => BlocksInv
<1> SUFFICES ASSUME Init
             PROVE  BlocksInv
  OBVIOUS
<1>1. Len(file) \in Nat /\ DOMAIN file = 1 .. Len(file)
  BY FileIsSequence DEF Init
<1>2. \A k \in DOMAIN file : ~(k < 1)
  BY <1>1
<1> QED
  BY <1>2, ColumnsInit DEF Init, BlocksInv, Gathered, Met

(* The walker passes a statement and no column changes, but may be that of *)
(* the statement.                                                          *)
LEMMA ColumnsPassed ==
  ASSUME BlocksInv, pc = "goalcols", pc' = pc, at \in DOMAIN file, at' = at + 1,
         UNCHANGED file, \A k \in DOMAIN file : k # at => goalcol'[k] = goalcol[k],
         nodes \subseteq nodes', IsAligned(at) => at \in nodes',
         file[at].type = "variable" /\ file[at].words # <<>> /\ file[at].skip =>
           goalcol'[at] = Needed(file[at])
  PROVE  (\A k \in DOMAIN file : Met(k) => HasItsColumn(k) /\ SkipsBlock(k))'
<1>1. Len(file) \in Nat /\ DOMAIN file = 1 .. Len(file) /\ at \in Nat \ {0}
  BY FileIsSequence DEF BlocksInv, ColumnsInv
<1> SUFFICES ASSUME NEW k \in DOMAIN file, k < at + 1
             PROVE  HasItsColumn(k)' /\ SkipsBlock(k)'
  BY DEF Met
<1>2. CASE k = at
  BY <1>2, ColumnNow
<1>3. CASE k # at
  <2>1. HasItsColumn(k) /\ SkipsBlock(k)
    BY <1>1, <1>3 DEF BlocksInv, Met
  <2>2. goalcol'[k] = goalcol[k]
    BY <1>3
  <2>3. HasItsColumn(k)'
    BY <2>1, <2>2, ColumnNow DEF HasItsColumn
  <2>4. SkipsBlock(k)'
    BY <2>1, <2>2, ColumnNow DEF SkipsBlock
  <2> QED
    BY <2>3, <2>4
<1> QED
  BY <1>2, <1>3

(* A block ends, and the walker may go on.                                 *)
LEMMA BlockEnds ==
  ASSUME BlocksInv, pc = "goalcols", Propagate, UNCHANGED file,
         at \in DOMAIN file => file[at].type = "comment" /\ file[at].blank
  PROVE  \A k \in DOMAIN file : (k < at => HasItsColumn(k)' /\ SkipsBlock(k)')
                                /\ (k = at => HasItsColumn(k)' /\ SkipsBlock(k)')
<1> SUFFICES ASSUME NEW k \in DOMAIN file
             PROVE  /\ k < at => HasItsColumn(k)' /\ SkipsBlock(k)'
                    /\ k = at => HasItsColumn(k)' /\ SkipsBlock(k)'
  OBVIOUS
<1>1. ASSUME k < at
      PROVE  HasItsColumn(k)' /\ SkipsBlock(k)'
  <2>1. /\ IsAligned(k) => IsColumnOf(goalcol'[k], BlockOf(k))
        /\ file[k].type = "variable" /\ file[k].words # <<>> /\ file[k].skip =>
             goalcol'[k] = Needed(file[k])
    BY <1>1, PropagateGivesColumns
  <2> QED
    BY <2>1, ColumnNow
<1>2. ASSUME k = at
      PROVE  HasItsColumn(k)' /\ SkipsBlock(k)'
  <2>1. ~IsAligned(k) /\ (k \in DOMAIN file => file[k].type # "variable")
    BY <1>2 DEF IsAligned
  <2> QED
    BY <2>1, ColumnNow
<1> QED
  BY <1>1, <1>2

LEMMA BlocksStep ==
  ASSUME BlocksInv, [Next]_vars
  PROVE  BlocksInv'
<1>0. Len(file) \in Nat /\ DOMAIN file = 1 .. Len(file) /\ at \in Nat \ {0} /\ file \in Files
      /\ DOMAIN goalcol = DOMAIN file
  BY FileIsSequence DEF BlocksInv, ColumnsInv
<1>c. ColumnsInv'
  BY ColumnsStep DEF BlocksInv
<1>m. /\ pc = "goalcols" => /\ nodes = Gathered(at)
                            /\ moving_goalcol \in {0} \cup {Needed(file[j]) : j \in nodes}
                            /\ \A j \in nodes : Needed(file[j]) <= moving_goalcol
      /\ moving_goalcol \in Nat
  BY DEF BlocksInv, ColumnsInv
<1>1. CASE VisitComment
  <2>1. /\ UNCHANGED <<file, pc>> /\ pc = "goalcols"
        /\ at \in DOMAIN file /\ file[at].type = "comment" /\ at' = at + 1
    BY <1>1 DEF VisitComment, Visit
  <2>2. CASE file[at].blank /\ nodes # {}
    <3>1. Propagate
      BY <1>1, <2>2 DEF VisitComment
    <3>2. nodes' = {} /\ moving_goalcol' = 0
      BY <3>1 DEF Propagate
    <3>3. nodes' = Gathered(at)'
      <4>1. Gathered(at + 1) = {}
        BY <2>1, <2>2, GatheredNone
      <4> QED
        BY <2>1, <3>2, <4>1 DEF Gathered, IsAligned, Parted
    <3>4. \A k \in DOMAIN file : Met(k)' => HasItsColumn(k)' /\ SkipsBlock(k)'
      <4>1. \A k \in DOMAIN file : k < at + 1 => k < at \/ k = at
        BY <1>0
      <4>2. \A k \in DOMAIN file : Met(k)' => k < at + 1
        BY <2>1 DEF Met
      <4>3. \A k \in DOMAIN file : (k < at => HasItsColumn(k)' /\ SkipsBlock(k)')
                                   /\ (k = at => HasItsColumn(k)' /\ SkipsBlock(k)')
        BY <2>1, <2>2, <3>1, BlockEnds
      <4> QED
        BY Zenon, <4>1, <4>2, <4>3
    <3> QED
      BY <1>c, <2>1, <3>2, <3>3, <3>4 DEF BlocksInv
  <2>3. CASE ~(file[at].blank /\ nodes # {})
    <3>1. UNCHANGED <<goalcol, moving_goalcol, nodes>>
      BY <1>1, <2>3 DEF VisitComment
    <3>2. Gathered(at + 1) = nodes
      <4>1. CASE file[at].blank
        BY <2>1, <2>3, <4>1, GatheredNone
      <4>2. CASE ~file[at].blank
        <5>1. ~IsAligned(at)
          BY <2>1 DEF IsAligned
        <5> QED
          BY <2>1, <4>2, <5>1, GatheredNext
      <4> QED
        BY <4>1, <4>2
    <3>3. nodes' = Gathered(at)'
      BY <2>1, <3>1, <3>2 DEF Gathered, IsAligned, Parted
    <3>4. ~IsAligned(at) /\ file[at].type # "variable"
      BY <2>1 DEF IsAligned
    <3>5. (\A k \in DOMAIN file : Met(k) => HasItsColumn(k) /\ SkipsBlock(k))'
      BY <2>1, <3>1, <3>4, ColumnsPassed
    <3> QED
      BY <1>c, <1>m, <2>1, <3>1, <3>3, <3>5 DEF BlocksInv, Needed, StartLen
  <2> QED
    BY <2>2, <2>3
<1>2. CASE VisitVariable
  <2>1. /\ UNCHANGED <<file, pc>> /\ pc = "goalcols"
        /\ at \in DOMAIN file /\ file[at].type = "variable" /\ at' = at + 1
    BY <1>2 DEF VisitVariable, Visit
  <2>2. IndentGoalcol(file[at]) = Needed(file[at]) /\ Needed(file[at]) \in Nat
    BY <1>0, <2>1, VariableIs
  <2>3. Gathered(at + 1) = nodes \cup {j \in {at} : IsAligned(at)}
    BY <2>1, GatheredNext
  <2>4. Gathered(at)' = Gathered(at + 1)
    BY <2>1 DEF Gathered, IsAligned, Parted
  <2>5. CASE file[at].words = <<>>
    <3>1. UNCHANGED <<goalcol, moving_goalcol, nodes>>
      BY <1>2, <2>5 DEF VisitVariable
    <3>2. ~IsAligned(at)
      BY <2>5 DEF IsAligned
    <3>3. nodes' = Gathered(at)'
      BY <2>3, <2>4, <3>1, <3>2
    <3>5. (\A k \in DOMAIN file : Met(k) => HasItsColumn(k) /\ SkipsBlock(k))'
      BY <2>1, <2>5, <3>1, <3>2, ColumnsPassed
    <3> QED
      BY <1>c, <1>m, <2>1, <3>1, <3>3, <3>5 DEF BlocksInv, Needed, StartLen
  <2>6. CASE file[at].words # <<>> /\ file[at].skip
    <3>1. /\ goalcol' = [goalcol EXCEPT ![at] = Needed(file[at])]
          /\ UNCHANGED <<moving_goalcol, nodes>>
      BY <1>2, <2>2, <2>6 DEF VisitVariable
    <3>2. ~IsAligned(at)
      BY <2>6 DEF IsAligned
    <3>3. nodes' = Gathered(at)'
      BY Zenon, <2>3, <2>4, <3>1, <3>2
    <3>4. /\ \A k \in DOMAIN file : k # at => goalcol'[k] = goalcol[k]
          /\ goalcol'[at] = Needed(file[at])
      BY <1>0, <2>1, <3>1
    <3>6. (\A k \in DOMAIN file : Met(k) => HasItsColumn(k) /\ SkipsBlock(k))'
      BY <2>1, <3>1, <3>2, <3>4, ColumnsPassed
    <3> QED
      BY <1>c, <1>m, <2>1, <3>1, <3>3, <3>6 DEF BlocksInv, Needed, StartLen
  <2>7. CASE file[at].words # <<>> /\ ~file[at].skip
    <3>1. /\ nodes' = nodes \cup {at}
          /\ moving_goalcol' = Max({Needed(file[at]), moving_goalcol})
          /\ UNCHANGED goalcol
      BY <1>2, <2>2, <2>7 DEF VisitVariable
    <3>2. IsAligned(at)
      BY <2>1, <2>7 DEF IsAligned
    <3>3. nodes' = Gathered(at)'
      BY <2>3, <2>4, <3>1, <3>2
    <3>5. (\A k \in DOMAIN file : Met(k) => HasItsColumn(k) /\ SkipsBlock(k))'
      BY <2>1, <2>7, <3>1, <3>2, ColumnsPassed
    <3> DEFINE new == Needed(file[at])
               old == moving_goalcol
    <3>6. /\ moving_goalcol' = IF new >= old THEN new ELSE old
      <4>1. new \in Nat /\ old \in Nat
        BY <1>m, <2>2
      <4> HIDE DEF new, old
      <4>2. CASE new >= old
        <5>1. Max({new, old}) = new
          BY <4>1, <4>2 DEF Max
        <5> QED
          BY <3>1, <4>2, <5>1 DEF new, old
      <4>3. CASE ~(new >= old)
        <5>1. Max({new, old}) = old
          BY <4>1, <4>3 DEF Max
        <5> QED
          BY <3>1, <4>3, <5>1 DEF new, old
      <4> QED
        BY <4>2, <4>3
    <3>7. \A j \in nodes : Needed(file[j]) \in Nat /\ j \in DOMAIN file
      BY <1>0, <1>m, <2>1, VariableIs DEF Gathered, IsAligned
    <3>8. moving_goalcol' \in {0} \cup {Needed(file[j]) : j \in nodes'}
      BY Zenon, <1>m, <2>1, <3>1, <3>6
    <3>9. \A j \in nodes' : Needed(file[j]) <= moving_goalcol'
      BY <1>m, <2>1, <2>2, <3>1, <3>6, <3>7
    <3>10. (\A j \in nodes : Needed(file[j]) <= moving_goalcol)'
           /\ (moving_goalcol \in {0} \cup {Needed(file[j]) : j \in nodes})'
      BY <2>1, <3>8, <3>9 DEF Needed, StartLen
    <3> QED
      BY <1>c, <2>1, <3>3, <3>5, <3>10 DEF BlocksInv
  <2> QED
    BY <2>5, <2>6, <2>7
<1>3. CASE VisitOther
  <2>1. /\ UNCHANGED <<file, pc>> /\ pc = "goalcols" /\ UNCHANGED <<goalcol, moving_goalcol, nodes>>
        /\ at \in DOMAIN file /\ file[at].type \in {"command", "for", "if", "other"} /\ at' = at + 1
    BY <1>3 DEF VisitOther, Visit
  <2>2. ~IsAligned(at) /\ file[at].type # "comment" /\ file[at].type # "variable"
    BY <2>1 DEF IsAligned
  <2>3. Gathered(at + 1) = nodes
    BY <2>1, <2>2, GatheredNext
  <2>4. nodes' = Gathered(at)'
    BY <2>1, <2>3 DEF Gathered, IsAligned, Parted
  <2>6. (\A k \in DOMAIN file : Met(k) => HasItsColumn(k) /\ SkipsBlock(k))'
    BY <2>1, <2>2, ColumnsPassed
  <2> QED
    BY <1>c, <1>m, <2>1, <2>4, <2>6 DEF BlocksInv, Needed, StartLen
<1>4. CASE VisitEnd
  <2>1. /\ pc = "goalcols" /\ at \notin DOMAIN file /\ Propagate /\ pc' = "print" /\ UNCHANGED file
    BY <1>4 DEF VisitEnd
  <2>2. \A k \in DOMAIN file : k < at
    <3>1. at <= Len(file) + 1
      BY <2>1 DEF BlocksInv, ColumnsInv
    <3> QED
      BY <1>0, <2>1, <3>1
  <2>3. \A k \in DOMAIN file : (k < at => HasItsColumn(k)' /\ SkipsBlock(k)')
                               /\ (k = at => HasItsColumn(k)' /\ SkipsBlock(k)')
    BY <2>1, BlockEnds
  <2>4. \A k \in DOMAIN file : HasItsColumn(k)' /\ SkipsBlock(k)'
    BY Zenon, <2>2, <2>3
  <2> QED
    BY <1>c, <2>1, <2>4 DEF BlocksInv
<1>5. CASE \/ PrintVariable \/ PrintTargetCommand \/ PrintFor \/ PrintIf \/ PrintRaw
           \/ PrintEnd
  <2>1. pc = "print" /\ pc' \in {"print", "done"} /\ UNCHANGED <<file, goalcol>>
    BY <1>5 DEF PrintVariable, PrintTargetCommand, PrintFor, PrintIf, PrintRaw, Enqueue, PrintEnd
  <2>2. \A k \in DOMAIN file : HasItsColumn(k) /\ SkipsBlock(k)
    BY <2>1 DEF BlocksInv, Met
  <2>3. \A k \in DOMAIN file : HasItsColumn(k)' /\ SkipsBlock(k)'
    <3> SUFFICES ASSUME NEW k \in DOMAIN file
                 PROVE  HasItsColumn(k)' /\ SkipsBlock(k)'
      OBVIOUS
    <3>1. HasItsColumn(k) /\ SkipsBlock(k) /\ goalcol'[k] = goalcol[k]
      BY <2>1, <2>2
    <3> QED
      BY <2>1, <3>1, ColumnNow DEF HasItsColumn, SkipsBlock
  <2> QED
    BY <1>c, <2>1, <2>3 DEF BlocksInv
<1>6. CASE UNCHANGED vars
  <2>1. UNCHANGED <<file, goalcol, nodes, moving_goalcol, pc, at>>
    BY <1>6 DEF vars
  <2>2. \A k \in DOMAIN file : Met(k)' => HasItsColumn(k)' /\ SkipsBlock(k)'
    <3> SUFFICES ASSUME NEW k \in DOMAIN file, Met(k)'
                 PROVE  HasItsColumn(k)' /\ SkipsBlock(k)'
      OBVIOUS
    <3>1. Met(k)
      BY <2>1 DEF Met
    <3>2. HasItsColumn(k) /\ SkipsBlock(k) /\ goalcol'[k] = goalcol[k]
      BY <2>1, <3>1 DEF BlocksInv
    <3> QED
      BY <2>1, <3>2, ColumnNow DEF HasItsColumn, SkipsBlock
  <2>3. Gathered(at)' = Gathered(at)
    BY <2>1 DEF Gathered, IsAligned, Parted
  <2> QED
    BY <1>c, <1>m, <2>1, <2>2, <2>3 DEF BlocksInv, Needed, StartLen
<1> QED
  BY <1>1, <1>2, <1>3, <1>4, <1>5, <1>6 DEF Next, Done

-----------------------------------------------------------------------------
(* One more element is put behind a sequence of any elements.              *)
LEMMA AnyAppend ==
  ASSUME NEW s, s \in Seq({s[k] : k \in DOMAIN s}), NEW x
  PROVE  LET t == Append(s, x)
         IN /\ t \in Seq({t[k] : k \in DOMAIN t}) /\ Len(t) = Len(s) + 1
            /\ DOMAIN t = 1 .. (Len(s) + 1) /\ DOMAIN s = 1 .. Len(s) /\ Len(s) \in Nat
            /\ \A k \in DOMAIN s : t[k] = s[k]
            /\ t[Len(s) + 1] = x
<1> DEFINE T == {s[k] : k \in DOMAIN s} \cup {x}
           t == Append(s, x)
           E == {t[k] : k \in DOMAIN t}
<1>1. s \in Seq(T) /\ x \in T
  OBVIOUS
<1>2. Len(s) \in Nat /\ DOMAIN s = 1 .. Len(s)
  OBVIOUS
<1> HIDE DEF T
<1>3. /\ t \in Seq(T) /\ Len(t) = Len(s) + 1 /\ DOMAIN t = 1 .. (Len(s) + 1)
      /\ \A k \in DOMAIN s : t[k] = s[k]
      /\ t[Len(s) + 1] = x
  BY <1>1
<1> HIDE DEF t
<1>4. t \in Seq(E)
  BY <1>3
<1> QED
  BY Zenon, <1>2, <1>3, <1>4 DEF t, E

LEMMA PrintedInit == Init => PrintedInv
<1> SUFFICES ASSUME Init
             PROVE  PrintedInv
  OBVIOUS
<1>1. Len(file) \in Nat
  BY FileIsSequence DEF Init
<1>2. result = <<>> /\ pc = "goalcols"
  BY DEF Init
<1>3. result \in Seq({result[k] : k \in DOMAIN result}) /\ Len(result) = 0 /\ DOMAIN result = {}
  BY <1>2
<1> QED
  BY <1>1, <1>2, <1>3 DEF PrintedInv

LEMMA PrintedStep ==
  ASSUME ColumnsInv, PrintedInv, [Next]_vars
  PROVE  PrintedInv'
<1>0. Len(file) \in Nat /\ DOMAIN file = 1 .. Len(file) /\ at \in Nat \ {0}
  BY FileIsSequence DEF ColumnsInv
<1>1. CASE VisitComment \/ VisitVariable \/ VisitOther
  <2>1. UNCHANGED <<file, pc, result>> /\ pc = "goalcols"
    BY <1>1 DEF VisitComment, VisitVariable, VisitOther, Visit
  <2>2. result = <<>> /\ DOMAIN result = {} /\ Len(result) = 0
    BY <2>1 DEF PrintedInv
  <2> QED
    BY <1>0, <2>1, <2>2 DEF PrintedInv
<1>2. CASE VisitEnd
  <2>1. UNCHANGED <<file, result>> /\ pc = "goalcols" /\ pc' = "print" /\ at' = 1
    BY <1>2 DEF VisitEnd
  <2>2. result = <<>> /\ DOMAIN result = {} /\ Len(result) = 0
    BY <2>1 DEF PrintedInv
  <2>3. Len(result) = at' - 1 /\ at' <= Len(file) + 1
    BY <1>0, <2>1, <2>2
  <2> QED
    BY <1>0, <2>1, <2>2, <2>3 DEF PrintedInv
<1>3. CASE PrintVariable \/ PrintTargetCommand \/ PrintFor \/ PrintIf \/ PrintRaw
  <2>1. /\ pc = "print" /\ at \in DOMAIN file /\ at' = at + 1
        /\ UNCHANGED <<file, pc, goalcol, wrapcol, behavior>>
    BY <1>3 DEF PrintVariable, PrintTargetCommand, PrintFor, PrintIf, PrintRaw, Enqueue
  <2>2. PICK lines : /\ result' = Append(result, lines)
                     /\ file[at].type = "variable" => lines = VariableLines(file[at], goalcol[at])
    BY <1>3 DEF PrintVariable, PrintTargetCommand, PrintFor, PrintIf, PrintRaw, Enqueue
  <2> DEFINE longer == Append(result, lines)
  <2>3. /\ longer \in Seq({longer[k] : k \in DOMAIN longer}) /\ Len(longer) = Len(result) + 1
        /\ DOMAIN longer = 1 .. (Len(result) + 1) /\ DOMAIN result = 1 .. Len(result)
        /\ Len(result) \in Nat
        /\ \A k \in DOMAIN result : longer[k] = result[k]
        /\ longer[Len(result) + 1] = lines
    BY AnyAppend DEF PrintedInv
  <2> HIDE DEF longer
  <2>4. Len(result) = at - 1
    BY <2>1 DEF PrintedInv
  <2>5. Len(result) + 1 = at /\ at <= Len(file)
    BY <1>0, <2>1, <2>4
  <2>6. \A k \in DOMAIN longer :
          file[k].type = "variable" => longer[k] = VariableLines(file[k], goalcol[k])
    <3> SUFFICES ASSUME NEW k \in DOMAIN longer, file[k].type = "variable"
                 PROVE  longer[k] = VariableLines(file[k], goalcol[k])
      OBVIOUS
    <3>1. k \in DOMAIN result \/ k = at
      BY <2>3, <2>5
    <3>2. CASE k \in DOMAIN result
      BY <2>3, <3>2 DEF PrintedInv
    <3>3. CASE k = at
      BY <2>2, <2>3, <2>5, <3>3
    <3> QED
      BY <3>1, <3>2, <3>3
  <2>7. \A k : VariableLines(file[k], goalcol[k])' = VariableLines(file[k], goalcol[k])
    <3> SUFFICES ASSUME NEW k
                 PROVE  VariableLines(file[k], goalcol[k])' = VariableLines(file[k], goalcol[k])
      OBVIOUS
    <3>1. IsRaw(file[k])' <=> IsRaw(file[k])
      BY <2>1 DEF IsRaw
    <3>2. WordsOf(file[k])' = WordsOf(file[k])
      BY <2>1 DEF WordsOf
    <3>3. VariableWidth(file[k], goalcol[k])' = VariableWidth(file[k], goalcol[k])
      BY <2>1 DEF VariableWidth
    <3> QED
      BY Zenon, <2>1, <3>1, <3>2, <3>3 DEF VariableLines
  <2>8. result' = longer
    BY <2>2 DEF longer
  <2>9. (\A k \in DOMAIN result :
           file[k].type = "variable" => result[k] = VariableLines(file[k], goalcol[k]))'
    BY <2>1, <2>6, <2>7, <2>8
  <2>10. /\ result' \in Seq({result'[k] : k \in DOMAIN result'})
         /\ Len(result') = at' - 1 /\ at' <= Len(file') + 1 /\ Len(result') <= Len(file')
    BY <1>0, <2>1, <2>3, <2>5, <2>8
  <2> QED
    BY <2>1, <2>9, <2>10 DEF PrintedInv
<1>4. CASE PrintEnd \/ UNCHANGED vars
  <2>1. UNCHANGED <<file, result, goalcol, wrapcol, behavior, at>>
        /\ \/ pc = "print" /\ pc' = "done"
           \/ pc' = pc
    BY <1>4 DEF PrintEnd, vars
  <2>7. \A k : VariableLines(file[k], goalcol[k])' = VariableLines(file[k], goalcol[k])
    <3> SUFFICES ASSUME NEW k
                 PROVE  VariableLines(file[k], goalcol[k])' = VariableLines(file[k], goalcol[k])
      OBVIOUS
    <3>1. IsRaw(file[k])' <=> IsRaw(file[k])
      BY <2>1 DEF IsRaw
    <3>2. WordsOf(file[k])' = WordsOf(file[k])
      BY <2>1 DEF WordsOf
    <3>3. VariableWidth(file[k], goalcol[k])' = VariableWidth(file[k], goalcol[k])
      BY <2>1 DEF VariableWidth
    <3> QED
      BY Zenon, <2>1, <3>1, <3>2, <3>3 DEF VariableLines
  <2>9. (\A k \in DOMAIN result :
           file[k].type = "variable" => result[k] = VariableLines(file[k], goalcol[k]))'
    BY <2>1, <2>7 DEF PrintedInv
  <2> HIDE DEF VariableLines
  <2> QED
    BY <2>1, <2>9 DEF PrintedInv
<1> QED
  BY <1>1, <1>2, <1>3, <1>4 DEF Next, Done

-----------------------------------------------------------------------------
LEMMA ColumnGiven ==
  ASSUME BlocksInv, pc # "goalcols", NEW k \in DOMAIN file, file[k].type = "variable",
         file[k].words # <<>>
  PROVE  LET column == Max({16} \cup {Needed(file[j]) : j \in BlockOf(k)})
         IN /\ column \in Nat /\ column % 8 = 0 /\ column = Max({16, goalcol[k]})
            /\ StartLen(file[k]) < column
<1> DEFINE columns == {16} \cup {Needed(file[j]) : j \in BlockOf(k)}
           goal == goalcol[k]
<1>1. file \in Files /\ goal \in Nat /\ StartLen(file[k]) < goal /\ StartLen(file[k]) \in Nat
  <2>1. file \in Files /\ goal \in Nat /\ StartLen(file[k]) < goal
    BY DEF BlocksInv, ColumnsInv, HasRows, HasColumn
  <2>2. file[k].name \in Nat /\ file[k].modifier \in {1, 2}
    BY <2>1, VariableIs
  <2> DEFINE node == file[k]
  <2>3. node.name \in Nat /\ node.modifier \in {1, 2}
    BY <2>2
  <2> HIDE DEF node
  <2>4. StartLen(node) \in Nat
    BY <2>3, NeededIs
  <2> QED
    BY <2>1, <2>4 DEF node
<1>2. \A j \in BlockOf(k) : j \in DOMAIN file /\ file[j].type = "variable"
  BY DEF BlockOf, IsAligned
<1>3. \A j \in BlockOf(k) : Needed(file[j]) \in Nat /\ Needed(file[j]) % 8 = 0
  <2> SUFFICES ASSUME NEW j \in BlockOf(k)
               PROVE  Needed(file[j]) \in Nat /\ Needed(file[j]) % 8 = 0
    OBVIOUS
  <2>1. j \in DOMAIN file /\ file[j].type = "variable"
    BY <1>2
  <2>2. file[j].name \in Nat /\ file[j].modifier \in {1, 2}
    BY <1>1, <2>1, VariableIs
  <2> DEFINE node == file[j]
  <2>3. node.name \in Nat /\ node.modifier \in {1, 2}
    BY <2>2
  <2> HIDE DEF node
  <2>4. Needed(node) \in Nat /\ Needed(node) % 8 = 0
    BY <2>3, NeededIs
  <2> QED
    BY <2>4 DEF node
<1>4. columns \in SUBSET Nat /\ \A c \in columns : c % 8 = 0
  BY <1>3
<1>5. HasItsColumn(k) /\ SkipsBlock(k)
  BY DEF BlocksInv, Met
<1>6. \E c \in columns : c = Max({16, goal}) /\ \A d \in columns : d <= c
  <2>1. CASE IsAligned(k)
    <3>1. IsColumnOf(goal, BlockOf(k))
      BY <1>5, <2>1 DEF HasItsColumn
    <3>2. goal \in columns /\ \A d \in columns : d <= goal
      BY <3>1 DEF IsColumnOf
    <3>3. 16 <= goal
      BY <3>2
    <3>4. Max({16, goal}) = goal
      <4> HIDE DEF goal, columns
      <4> QED
        BY <1>1, <3>3 DEF Max
    <3> QED
      BY Zenon, <3>2, <3>4
  <2>2. CASE ~IsAligned(k)
    <3>1. BlockOf(k) = {k}
      BY <2>2 DEF BlockOf
    <3>2. goal = Needed(file[k])
      BY <1>5, <2>2 DEF SkipsBlock, IsAligned
    <3>3. columns = {16, goal}
      BY <3>1, <3>2
    <3> HIDE DEF goal, columns
    <3>4. CASE 16 <= goal
      <4>1. Max({16, goal}) = goal
        BY <1>1, <3>4 DEF Max
      <4> QED
        BY <1>1, <3>3, <3>4, <4>1
    <3>5. CASE ~(16 <= goal)
      <4>1. Max({16, goal}) = 16
        BY <1>1, <3>5 DEF Max
      <4> QED
        BY <1>1, <3>3, <3>5, <4>1
    <3> QED
      BY Zenon, <3>4, <3>5
  <2> QED
    BY Zenon, <2>1, <2>2
<1>7. PICK c \in columns : c = Max({16, goal}) /\ \A d \in columns : d <= c
  BY Zenon, <1>6
<1>8. Max(columns) = c
  <2> HIDE DEF columns
  <2> QED
    BY Zenon, <1>4, <1>7, GreatestIsMax
<1>9. Max({16, goal}) >= goal
  BY <1>1, MaxOfTwo
<1> HIDE DEF columns, goal
<1>10. c \in Nat /\ c % 8 = 0 /\ StartLen(file[k]) < c
  BY <1>1, <1>4, <1>7, <1>9
<1> QED
  BY <1>7, <1>8, <1>10 DEF columns, goal

(* Every row of every variable starts in the column of its block.          *)
LEMMA BlocksAlign ==
  ASSUME BlocksInv, PrintedInv
  PROVE  BlocksAligned
<1> SUFFICES ASSUME NEW k \in DOMAIN result, file[k].type = "variable", result[k] # RawLine
             PROVE  StartColumns(result[k])
                      \subseteq {Max({16} \cup {Needed(file[j]) : j \in BlockOf(k)})}
  BY DEF BlocksAligned
<1> DEFINE column == Max({16} \cup {Needed(file[j]) : j \in BlockOf(k)})
           goal == goalcol[k]
           node == file[k]
<1>1. Len(file) \in Nat /\ DOMAIN file = 1 .. Len(file) /\ file \in Files
  BY FileIsSequence DEF BlocksInv, ColumnsInv
<1>2. k \in DOMAIN file /\ pc # "goalcols"
  <2>1. DOMAIN result = 1 .. Len(result) /\ Len(result) \in Nat /\ Len(result) <= Len(file)
    BY DEF PrintedInv
  <2>2. pc # "goalcols"
    BY DEF PrintedInv
  <2> QED
    BY <1>1, <2>1, <2>2
<1>3. node.name \in Nat /\ node.modifier \in {1, 2} /\ node.words \in Seq(WordPieces)
  BY <1>1, <1>2, VariableIs
<1>4. result[k] = VariableLines(node, goal)
  BY DEF PrintedInv
<1>5. goal \in Nat
  BY <1>2 DEF BlocksInv, ColumnsInv
<1>6. node.words # <<>> =>
        column \in Nat /\ column % 8 = 0 /\ column = Max({16, goal}) /\ StartLen(node) < column
  BY Zenon, <1>2, ColumnGiven
<1>7. Max({16, goal}) \in Nat
  BY <1>5, MaxOfTwo
<1> HIDE DEF column, goal, node
<1>8. PICK rows \in Seq(Seq(WordPieces)) :
        /\ rows # <<>> => node.words # <<>>
        /\ VariableLines(node, goal) =
             IF IsRaw(node) THEN RawLine ELSE PrintNewlineArray(node, goal, rows)
  BY Zenon, <1>3, VariableRows
<1> DEFINE pieces == PrintNewlineArray(node, goal, rows)
<1>9. result[k] = pieces
  BY <1>4, <1>8
<1>10. rows # <<>> => column = Max({16, goal}) /\ column % 8 = 0 /\ StartLen(node) < column
  BY <1>6, <1>8
<1>11. \A i \in DOMAIN PhysicalLines(pieces) :
         StartsIn(PhysicalLines(pieces)[i], column) /\ PhysicalLines(pieces)[i] \in Seq(Pieces)
  BY Zenon, <1>3, <1>7, <1>10, LinesStart
<1> HIDE DEF pieces
<1>12. StartColumns(pieces) \subseteq {column}
  BY Zenon, <1>11, StartsOfLines
<1> QED
  BY <1>9, <1>12 DEF column

(* In what is printed, every row of the variables of a block starts in     *)
(* the same column: the first row in the one print_newline_array() has     *)
(* tabs for behind the name, the others in the one of their own tabs.      *)
THEOREM BlocksStayAligned == Spec => []BlocksAligned
<1>1. BlocksInv /\ PrintedInv => BlocksAligned
  BY BlocksAlign
<1>2. Init => BlocksInv /\ PrintedInv
  BY BlocksInit, PrintedInit
<1>3. BlocksInv /\ PrintedInv /\ [Next]_vars => BlocksInv' /\ PrintedInv'
  BY BlocksStep, PrintedStep DEF BlocksInv
<1> QED
  BY <1>1, <1>2, <1>3, PTL DEF Spec

-----------------------------------------------------------------------------
(* Reading a statement: the words read of it so far, not behind a          *)
(* backslash and not in a comment.                                         *)
Readable == WordPieces \cup {Raw}

Readings ==
  [done : Seq(Seq(Readable)), words : Seq(Readable), last : Pieces, commented : BOOLEAN]

Reading(acc, done, words) ==
  /\ acc \in Readings
  /\ acc.done = done /\ acc.words = words
  /\ acc.last # Backslash /\ ~acc.commented

(* A word behind a piece is read as it is.                                 *)
Apart(last, word) == ~IsWord(last) \/ last.kind = "open" \/ word.kind = "close"

QuietPiece(piece) ==
  /\ piece \in Pieces
  /\ ~IsWord(piece) /\ piece # Newline /\ piece # Comment /\ piece # Backslash

(* Neither words nor ends of lines.                                        *)
Quiet(pieces) == pieces \in Seq(Pieces) /\ \A i \in DOMAIN pieces : QuietPiece(pieces[i])

(* What was read is at one of its stages.                                  *)
InStage(acc, n, stages) == acc \in stages[n]

ReadFold == INSTANCE FoldInduction WITH op <- ReadPiece, Holds <- InStage

LEMMA ReadableAre ==
  /\ \A word \in Readable :
       /\ word \in Pieces /\ IsWord(word) /\ word # Newline /\ word # Comment
       /\ word # Backslash
  /\ WordPieces \subseteq Readable /\ Raw \in Readable
  /\ QuietPiece(Tab) /\ QuietPiece(Space)
  /\ Backslash \in Pieces /\ Newline \in Pieces /\ Comment \in Pieces
  /\ ~IsWord(Backslash) /\ ~IsWord(Newline) /\ ~IsWord(Comment)
  /\ Backslash # Newline /\ Comment # Newline /\ Comment # Backslash
<1>1. /\ Tab = [kind |-> "tab", len |-> 0] /\ Space = [kind |-> "space", len |-> 1]
      /\ Backslash = [kind |-> "backslash", len |-> 1]
      /\ Comment = [kind |-> "comment", len |-> 3]
      /\ Newline = [kind |-> "newline", len |-> 0]
      /\ Raw = [kind |-> "raw", len |-> 0]
  BY DEF Tab, Space, Backslash, Comment, Newline, Raw, Piece
<1>2. /\ Tab.kind = "tab" /\ Space.kind = "space" /\ Backslash.kind = "backslash"
      /\ Comment.kind = "comment" /\ Newline.kind = "newline"
  BY <1>1
<1>3. /\ Tab \in Pieces /\ Space \in Pieces /\ Backslash \in Pieces /\ Comment \in Pieces
      /\ Newline \in Pieces
  BY PiecesAre
<1>4. /\ ~IsWord(Tab) /\ ~IsWord(Space) /\ ~IsWord(Backslash) /\ ~IsWord(Comment)
      /\ ~IsWord(Newline)
  BY <1>2 DEF IsWord, WordKinds
<1>5. QuietPiece(Tab) /\ QuietPiece(Space)
  BY <1>2, <1>3, <1>4 DEF QuietPiece
<1>6. Raw \in Pieces /\ IsWord(Raw)
  <2>1. Raw.kind = "raw" /\ "raw" \in WordKinds /\ "raw" \in Kinds /\ 0 \in Nat
    BY <1>1 DEF WordKinds, Kinds
  <2> QED
    BY <1>1, <2>1 DEF Pieces, IsWord
<1>7. ASSUME NEW word \in Readable
      PROVE  word \in Pieces /\ IsWord(word)
  BY <1>6, PiecesAre DEF Readable
<1>8. Backslash # Newline /\ Comment # Newline /\ Comment # Backslash
  BY <1>2
<1>9. WordPieces \subseteq Readable /\ Raw \in Readable
  BY DEF Readable
<1> HIDE DEF QuietPiece, Readable
<1> QED
  BY <1>3, <1>4, <1>5, <1>7, <1>8, <1>9

LEMMA WordReads ==
  ASSUME NEW acc, NEW done, NEW words, Reading(acc, done, words),
         NEW word \in Readable, Apart(acc.last, word)
  PROVE  /\ Reading(ReadPiece(acc, word), done, Append(words, word))
         /\ ReadPiece(acc, word).last = word
<1>1. word \in Pieces /\ IsWord(word) /\ word # Newline /\ word # Backslash
  BY ReadableAre
<1>2. acc \in Readings /\ ~acc.commented /\ acc.done = done /\ acc.words = words
  BY DEF Reading
<1>3. ~(IsWord(acc.last) /\ acc.last.kind # "open" /\ word.kind # "close")
  BY DEF Apart
<1> DEFINE new == [acc EXCEPT !.words = Append(@, word), !.last = word]
<1>4. ReadPiece(acc, word) = new
  BY <1>1, <1>2, <1>3, Zenon DEF ReadPiece
<1>5. Append(words, word) \in Seq(Readable)
  BY <1>2 DEF Readings
<1>6. /\ new \in Readings /\ new.done = done /\ new.words = Append(words, word)
      /\ new.last = word /\ new.commented = acc.commented
  BY Zenon, <1>1, <1>2, <1>5 DEF Readings
<1> HIDE DEF new
<1> QED
  BY <1>1, <1>2, <1>4, <1>6 DEF Reading

LEMMA QuietReads ==
  ASSUME NEW acc, NEW done, NEW words, Reading(acc, done, words),
         NEW piece, QuietPiece(piece)
  PROVE  /\ Reading(ReadPiece(acc, piece), done, words)
         /\ ReadPiece(acc, piece).last = piece
<1>1. /\ piece \in Pieces /\ ~IsWord(piece) /\ piece # Newline /\ piece # Backslash
      /\ (piece = Comment) = FALSE
  BY DEF QuietPiece
<1>2. /\ acc \in Readings /\ ~acc.commented /\ acc.done = done /\ acc.words = words
      /\ acc.commented = FALSE
  BY DEF Reading, Readings
<1> DEFINE new == [acc EXCEPT !.last = piece, !.commented = @ \/ piece = Comment]
<1>4. ReadPiece(acc, piece) = new
  BY <1>1, <1>2, Zenon DEF ReadPiece
<1>6. /\ new \in Readings /\ new.done = done /\ new.words = words
      /\ new.last = piece /\ new.commented = FALSE
  BY Zenon, <1>1, <1>2 DEF Readings
<1> HIDE DEF new
<1> QED
  BY <1>1, <1>2, <1>4, <1>6 DEF Reading

(* A statement ends.                                                       *)
LEMMA EndReads ==
  ASSUME NEW acc \in Readings, acc.last # Backslash
  PROVE  /\ Reading(ReadPiece(acc, Newline), Append(acc.done, acc.words), <<>>)
         /\ ReadPiece(acc, Newline).last = Newline
<1> DEFINE new == [done |-> Append(acc.done, acc.words), words |-> <<>>, last |-> Newline,
                   commented |-> FALSE]
<1>0. ~IsWord(Newline)
  BY ReadableAre
<1>1. ReadPiece(acc, Newline) = new
  BY <1>0, Zenon DEF ReadPiece
<1>2. Newline \in Pieces /\ Newline # Backslash
  BY ReadableAre
<1>3. Append(acc.done, acc.words) \in Seq(Seq(Readable)) /\ <<>> \in Seq(Readable)
  BY DEF Readings
<1>4. /\ new \in Readings /\ new.done = Append(acc.done, acc.words) /\ new.words = <<>>
      /\ new.last = Newline /\ ~new.commented
  BY <1>2, <1>3 DEF Readings
<1> HIDE DEF new
<1> QED
  BY <1>1, <1>2, <1>4 DEF Reading

LEMMA OneRead ==
  ASSUME NEW acc, NEW piece
  PROVE  ReadFold!Fold(acc, <<piece>>) = ReadPiece(acc, piece)
<1> DEFINE T == {piece}
<1>1. <<>> \in Seq(T) /\ piece \in T /\ Append(<<>>, piece) = <<piece>>
  OBVIOUS
<1> HIDE DEF T
<1>2. ReadFold!Fold(acc, Append(<<>>, piece)) = ReadPiece(ReadFold!Fold(acc, <<>>), piece)
  BY Zenon, <1>1, ReadFold!FoldAppend
<1>3. ReadFold!Fold(acc, <<>>) = acc
  BY ReadFold!FoldNone
<1> QED
  BY <1>1, <1>2, <1>3

LEMMA TwoRead ==
  ASSUME NEW acc, NEW a, NEW b
  PROVE  ReadFold!Fold(acc, <<a, b>>) = ReadPiece(ReadPiece(acc, a), b)
<1> DEFINE T == {a, b}
<1> DEFINE u == Append(<<>>, a)
<1>1. <<a, b>> = Append(u, b)
  OBVIOUS
<1>2. <<>> \in Seq(T) /\ u \in Seq(T) /\ a \in T /\ b \in T
  OBVIOUS
<1> HIDE DEF T
<1>3. ReadFold!Fold(acc, u) = ReadPiece(acc, a)
  BY Zenon, <1>2, ReadFold!FoldAppend, ReadFold!FoldNone
<1> HIDE DEF u
<1>4. ReadFold!Fold(acc, Append(u, b)) = ReadPiece(ReadFold!Fold(acc, u), b)
  BY <1>2, ReadFold!FoldAppend
<1> QED
  BY Zenon, <1>1, <1>3, <1>4

(* A statement ends behind its comment.                                    *)
LEMMA CommentEnds ==
  ASSUME NEW acc, NEW done, NEW words, Reading(acc, done, words)
  PROVE  /\ Reading(ReadFold!Fold(acc, <<Comment, Newline>>), Append(done, words), <<>>)
         /\ ReadFold!Fold(acc, <<Comment, Newline>>).last = Newline
<1>1. /\ acc \in Readings /\ acc.done = done /\ acc.words = words
      /\ Comment \in Pieces /\ Comment # Newline /\ Comment # Backslash /\ ~IsWord(Comment)
  BY ReadableAre DEF Reading
<1> DEFINE new == [acc EXCEPT !.last = Comment, !.commented = @ \/ Comment = Comment]
<1>2. ReadPiece(acc, Comment) = new
  BY <1>1, Zenon DEF ReadPiece
<1>3. acc.commented \in BOOLEAN
  BY <1>1 DEF Readings
<1>4. /\ new \in Readings /\ new.done = done /\ new.words = words
      /\ new.last = Comment
  BY Zenon, <1>1, <1>3 DEF Readings
<1> HIDE DEF new
<1> QED
  BY <1>1, <1>2, <1>4, EndReads, TwoRead

(* A statement goes on in the next line.                                   *)
LEMMA BreakReads ==
  ASSUME NEW acc, NEW done, NEW words, Reading(acc, done, words)
  PROVE  /\ Reading(ReadFold!Fold(acc, <<Backslash, Newline>>), done, words)
         /\ ReadFold!Fold(acc, <<Backslash, Newline>>).last = Newline
<1>1. /\ acc \in Readings /\ acc.done = done /\ acc.words = words
      /\ Backslash \in Pieces /\ Newline \in Pieces
      /\ Backslash # Newline /\ ~IsWord(Backslash) /\ ~IsWord(Newline)
      /\ (Backslash = Comment) = FALSE /\ (Newline = Comment) = FALSE
      /\ acc.commented = FALSE
  BY ReadableAre DEF Reading, Readings
<1> DEFINE new == [acc EXCEPT !.last = Backslash, !.commented = @ \/ Backslash = Comment]
           newer == [new EXCEPT !.last = Newline, !.commented = @ \/ Newline = Comment]
<1>2. ReadPiece(acc, Backslash) = new
  BY <1>1, Zenon DEF ReadPiece
<1>3. /\ new \in Readings /\ new.done = done /\ new.words = words
      /\ new.last = Backslash /\ new.commented = FALSE
  BY Zenon, <1>1 DEF Readings
<1>4. ReadPiece(new, Newline) = newer
  <2> HIDE DEF new
  <2> QED
    BY <1>1, <1>3, Zenon DEF ReadPiece
<1>5. /\ newer \in Readings /\ newer.done = done /\ newer.words = words
      /\ newer.last = Newline /\ newer.commented = FALSE
  <2> HIDE DEF new
  <2> QED
    BY Zenon, <1>1, <1>3 DEF Readings
<1> HIDE DEF new, newer
<1> QED
  BY <1>1, <1>2, <1>4, <1>5, TwoRead DEF Reading

-----------------------------------------------------------------------------
(* Words in a row that are read as they are.                               *)
AllApart(last, words) ==
  \A i \in DOMAIN words : Apart(IF i = 1 THEN last ELSE words[i - 1], words[i])

LEMMA AppendBehind ==
  ASSUME NEW s \in Seq(Readable), NEW t \in Seq(Readable), NEW x \in Readable
  PROVE  Append(s \o t, x) = s \o Append(t, x)
  OBVIOUS

(* Pieces without words are read over.                                     *)
LEMMA QuietRead ==
  ASSUME NEW acc, NEW done, NEW words, Reading(acc, done, words), NEW pieces, Quiet(pieces)
  PROVE  /\ Reading(ReadFold!Fold(acc, pieces), done, words)
         /\ ~IsWord(acc.last) \/ pieces # <<>> => ~IsWord(ReadFold!Fold(acc, pieces).last)
<1> DEFINE n == Len(pieces)
           stages == [k \in 0 .. n |->
             {now \in Readings : /\ Reading(now, done, words)
                                 /\ k = 0 => now.last = acc.last
                                 /\ k > 0 => ~IsWord(now.last)}]
<1>1. pieces \in Seq(Pieces) /\ n \in Nat /\ DOMAIN pieces = 1 .. n
  BY DEF Quiet
<1>2. InStage(acc, 0, stages)
  <2>1. acc \in Readings
    BY DEF Reading
  <2>2. 0 \in 0 .. n /\ ~(0 > 0)
    BY <1>1
  <2> QED
    BY <2>1, <2>2 DEF InStage
<1>3. ASSUME NEW k \in DOMAIN pieces, NEW now, InStage(now, k - 1, stages)
      PROVE  InStage(ReadPiece(now, pieces[k]), k, stages)
  <2> DEFINE new == ReadPiece(now, pieces[k])
  <2>1. k \in 0 .. n /\ k - 1 \in 0 .. n /\ k # 0
    BY <1>1
  <2>2. Reading(now, done, words) /\ QuietPiece(pieces[k])
    BY <1>3, <2>1 DEF InStage, Quiet
  <2>3. Reading(new, done, words) /\ new.last = pieces[k]
    BY <2>2, QuietReads
  <2>4. new \in Readings /\ ~IsWord(new.last)
    BY <2>2, <2>3 DEF Reading, QuietPiece
  <2> HIDE DEF new
  <2>5. InStage(new, k, stages)
    BY <2>1, <2>3, <2>4 DEF InStage
  <2> QED
    BY <2>5 DEF new
<1> HIDE DEF stages
<1>4. InStage(ReadFold!Fold(acc, pieces), n, stages)
  BY <1>1, <1>2, <1>3, ReadFold!FoldHolds
<1>5. n \in 0 .. n /\ (pieces # <<>> => n > 0) /\ (n > 0 \/ n = 0)
  BY <1>1
<1> QED
  BY <1>4, <1>5 DEF InStage, stages

(* Words nothing is between.                                               *)
LEMMA WordsRead ==
  ASSUME NEW acc, NEW done, NEW words, Reading(acc, done, words),
         NEW row \in Seq(WordPieces), AllApart(acc.last, row)
  PROVE  Reading(ReadFold!Fold(acc, row), done, words \o row)
<1> DEFINE n == Len(row)
           stages == [k \in 0 .. n |->
             {now \in Readings : /\ Reading(now, done, words \o SubSeq(row, 1, k))
                                 /\ now.last = IF k = 0 THEN acc.last ELSE row[k]}]
<1>1. row \in Seq(Readable) /\ n \in Nat /\ DOMAIN row = 1 .. n /\ words \in Seq(Readable)
  <2>1. words \in Seq(Readable)
    BY DEF Reading, Readings
  <2>2. row \in Seq(Readable)
    BY DEF Readable
  <2> QED
    BY <2>1, <2>2
<1>2. InStage(acc, 0, stages)
  <2>1. acc \in Readings
    BY DEF Reading
  <2>2. 0 \in 0 .. n
    BY <1>1
  <2>3. words \o SubSeq(row, 1, 0) = words
    <3>1. SubSeq(row, 1, 0) = <<>>
      BY <1>1, NoneAndAll
    <3> QED
      BY <1>1, <3>1
  <2> QED
    BY Zenon, <2>1, <2>2, <2>3 DEF InStage
<1>3. ASSUME NEW k \in DOMAIN row, NEW now, InStage(now, k - 1, stages)
      PROVE  InStage(ReadPiece(now, row[k]), k, stages)
  <2> DEFINE new == ReadPiece(now, row[k])
             before == SubSeq(row, 1, k - 1)
  <2>1. k \in 0 .. n /\ k - 1 \in 0 .. n /\ k # 0 /\ (k - 1 = 0 <=> k = 1)
    BY <1>1
  <2>2. Reading(now, done, words \o before)
        /\ now.last = IF k - 1 = 0 THEN acc.last ELSE row[k - 1]
    BY <1>3, <2>1 DEF InStage
  <2>3. Apart(now.last, row[k])
    BY <2>1, <2>2 DEF AllApart
  <2>4. /\ before \in Seq(Readable) /\ row[k] \in Readable
        /\ SubSeq(row, 1, k) = Append(before, row[k])
    BY Zenon, <1>1, OneMore
  <2>5. Append(words \o before, row[k]) = words \o SubSeq(row, 1, k)
    <3> HIDE DEF before
    <3>1. Append(words \o before, row[k]) = words \o Append(before, row[k])
      BY Zenon, <1>1, <2>4, AppendBehind
    <3> QED
      BY Zenon, <2>4, <3>1
  <2> HIDE DEF before
  <2>6. Reading(new, done, words \o SubSeq(row, 1, k)) /\ new.last = row[k]
    BY Zenon, <2>2, <2>3, <2>4, <2>5, WordReads
  <2>7. new \in Readings
    BY <2>6 DEF Reading
  <2> HIDE DEF new
  <2>8. InStage(new, k, stages)
    BY <2>1, <2>6, <2>7 DEF InStage
  <2> QED
    BY <2>8 DEF new
<1> HIDE DEF stages
<1>4. InStage(ReadFold!Fold(acc, row), n, stages)
  BY <1>1, <1>2, <1>3, ReadFold!FoldHolds
<1>5. n \in 0 .. n /\ SubSeq(row, 1, n) = row
  BY <1>1, NoneAndAll
<1> QED
  BY Zenon, <1>4, <1>5 DEF InStage, stages

-----------------------------------------------------------------------------
(* What str_join() has put between its words keeps them apart.             *)
JoinReads(line, n, c) ==
  /\ line \in Seq(Pieces)
  /\ line = <<>> <=> n = 0
  /\ Reading(ReadFold!Fold(c.acc, line), c.done, c.words \o SubSeq(c.row, 1, n))

JoinReadFold == INSTANCE FoldInduction WITH op <- JoinWord, Holds <- JoinReads

LEMMA JoinedRead ==
  ASSUME NEW acc, NEW done, NEW words, Reading(acc, done, words), ~IsWord(acc.last),
         NEW row \in Seq(WordPieces)
  PROVE  /\ Reading(ReadFold!Fold(acc, Joined(row)), done, words \o row)
         /\ Joined(row) \in Seq(Pieces)
         /\ Joined(row) = <<>> <=> row = <<>>
<1> DEFINE c == [acc |-> acc, done |-> done, words |-> words, row |-> row]
<1>1. Joined(row) = JoinReadFold!Fold(<<>>, row)
  BY Zenon DEF Joined, JoinReadFold!Fold, JoinReadFold!Greatest,
     FoldLeft, MapThenFoldSet, Max
<1>2. row \in Seq(Readable) /\ words \in Seq(Readable)
  <2>1. words \in Seq(Readable)
    BY DEF Reading, Readings
  <2>2. row \in Seq(Readable)
    BY DEF Readable
  <2> QED
    BY <2>1, <2>2
<1>3. JoinReads(<<>>, 0, c)
  <2>1. words \o SubSeq(row, 1, 0) = words
    <3>1. SubSeq(row, 1, 0) = <<>>
      BY <1>2, NoneAndAll
    <3> QED
      BY <1>2, <3>1
  <2>2. ReadFold!Fold(acc, <<>>) = acc
    BY ReadFold!FoldNone
  <2>3. <<>> \in Seq(Pieces)
    OBVIOUS
  <2> QED
    BY Zenon, <2>1, <2>2, <2>3 DEF JoinReads
<1>4. ASSUME NEW k \in DOMAIN row, NEW line, JoinReads(line, k - 1, c)
      PROVE  JoinReads(JoinWord(line, row[k]), k, c)
  <2> DEFINE word == row[k]
             before == SubSeq(row, 1, k - 1)
             now == ReadFold!Fold(acc, line)
  <2>1. /\ line \in Seq(Pieces) /\ (line = <<>> <=> k - 1 = 0)
        /\ Reading(now, done, words \o before)
    BY <1>4 DEF JoinReads
  <2>2. k \in Nat /\ k # 0 /\ word \in Readable /\ word \in Pieces /\ Space \in Pieces
    BY <1>2, ReadableAre DEF QuietPiece
  <2>3. /\ before \in Seq(Readable) /\ SubSeq(row, 1, k) = Append(before, word)
    BY <1>2, OneMore
  <2> HIDE DEF before, word
  <2>4. Append(words \o before, word) = words \o SubSeq(row, 1, k)
    <3>1. Append(words \o before, word) = words \o Append(before, word)
      BY Zenon, <1>2, <2>2, <2>3, AppendBehind
    <3> QED
      BY Zenon, <2>3, <3>1
  <2>5. CASE line = <<>>
    <3>1. JoinWord(line, word) = <<word>>
      BY <2>2, <2>5 DEF JoinWord, If
    <3>2. now = acc
      BY <2>5, ReadFold!FoldNone
    <3>3. Reading(ReadPiece(acc, word), done, words \o SubSeq(row, 1, k))
      BY Zenon, <2>1, <2>2, <2>4, <3>2, WordReads DEF Apart
    <3>4. Reading(ReadFold!Fold(acc, <<word>>), done, words \o SubSeq(row, 1, k))
      BY <3>3, OneRead
    <3>5. <<word>> \in Seq(Pieces) /\ <<word>> # <<>>
      BY <2>2
    <3> QED
      BY <2>2, <3>1, <3>4, <3>5 DEF JoinReads, word
  <2>6. CASE line # <<>>
    <3> DEFINE spaced == Append(line, Space)
               longer == Append(spaced, word)
    <3>1. JoinWord(line, word) = longer
      <4>1. JoinWord(line, word) = (line \o <<Space>>) \o <<word>>
        BY <2>6 DEF JoinWord, If
      <4> QED
        BY <2>1, <2>2, <4>1
    <3>2. spaced \in Seq(Pieces) /\ longer \in Seq(Pieces) /\ longer # <<>>
      BY <2>1, <2>2
    <3>3. ReadFold!Fold(acc, spaced) = ReadPiece(now, Space)
      BY <2>1, <2>2, ReadFold!FoldAppend
    <3> HIDE DEF spaced
    <3>4. ReadFold!Fold(acc, longer) = ReadPiece(ReadPiece(now, Space), word)
      BY <2>2, <3>2, <3>3, ReadFold!FoldAppend
    <3> HIDE DEF now, longer
    <3>5. /\ Reading(ReadPiece(now, Space), done, words \o before)
          /\ ReadPiece(now, Space).last = Space /\ ~IsWord(Space)
      BY <2>1, QuietReads, ReadableAre DEF QuietPiece
    <3> DEFINE between == ReadPiece(now, Space)
    <3>e. Apart(between.last, word)
      BY <3>5 DEF Apart
    <3> HIDE DEF between
    <3>6. Reading(ReadFold!Fold(acc, longer), done, words \o SubSeq(row, 1, k))
      <4>1. Reading(ReadPiece(between, word), done, Append(words \o before, word))
        BY <2>2, <3>5, <3>e, WordReads DEF between
      <4> QED
        BY <2>4, <3>4, <4>1 DEF between
    <3> QED
      BY <2>2, <3>1, <3>2, <3>6 DEF JoinReads, word
  <2> QED
    BY <2>5, <2>6 DEF word
<1> HIDE DEF c
<1>5. JoinReads(JoinReadFold!Fold(<<>>, row), Len(row), c)
  BY <1>3, <1>4, JoinReadFold!FoldHolds
<1>6. SubSeq(row, 1, Len(row)) = row /\ (Len(row) = 0 <=> row = <<>>)
  BY <1>2, NoneAndAll
<1> QED
  BY Zenon, <1>1, <1>5, <1>6 DEF JoinReads, c

-----------------------------------------------------------------------------
(* Sequences of pieces, one after the other.                               *)
LEMMA FlatRead ==
  ASSUME NEW seqs \in Seq(Seq(Pieces)), NEW start, NEW stages, InStage(start, 0, stages),
         \A k \in DOMAIN seqs : \A now : InStage(now, k - 1, stages) =>
           InStage(ReadFold!Fold(now, seqs[k]), k, stages)
  PROVE  InStage(ReadFold!Fold(start, FlattenSeq(seqs)), Len(seqs), stages)
<1> DEFINE n == Len(seqs)
           At(k) == ReadFold!Fold(start, FlattenSeq(SubSeq(seqs, 1, k)))
           So == {k \in Nat : k <= n => InStage(At(k), k, stages)}
<1>1. n \in Nat /\ DOMAIN seqs = 1 .. n
  OBVIOUS
<1>2. 0 \in So
  <2>1. SubSeq(seqs, 1, 0) = <<>>
    BY NoneAndAll
  <2>2. FlattenSeq(<<>>) = <<>>
    <3>1. <<>> \in Seq(Pieces) /\ \A i \in DOMAIN <<>> : <<>>[i] = <<>>
      OBVIOUS
    <3> QED
      BY Zenon, <3>1, FlattenNothing
  <2>3. At(0) = start
    BY Zenon, <2>1, <2>2, ReadFold!FoldNone
  <2> HIDE DEF At
  <2> QED
    BY <2>3
<1>3. ASSUME NEW k \in Nat, k \in So
      PROVE  k + 1 \in So
  <2> SUFFICES ASSUME k + 1 <= n
               PROVE  InStage(At(k + 1), k + 1, stages)
    OBVIOUS
  <2>1. k + 1 \in DOMAIN seqs /\ (k + 1) - 1 = k /\ k <= n
    BY <1>1
  <2> DEFINE before == SubSeq(seqs, 1, k)
             next == seqs[k + 1]
             flat == FlattenSeq(before)
             now == ReadFold!Fold(start, flat)
  <2>2. InStage(now, k, stages)
    BY <1>3, <2>1
  <2>3. InStage(ReadFold!Fold(now, next), k + 1, stages)
    <3> HIDE DEF now
    <3> QED
      BY <2>1, <2>2
  <2>4. /\ before \in Seq(Seq(Pieces)) /\ next \in Seq(Pieces)
        /\ SubSeq(seqs, 1, k + 1) = Append(before, next)
    <3> DEFINE T == Seq(Pieces)
    <3>1. seqs \in Seq(T)
      OBVIOUS
    <3> HIDE DEF T
    <3>2. /\ SubSeq(seqs, 1, (k + 1) - 1) \in Seq(T) /\ seqs[k + 1] \in T
          /\ SubSeq(seqs, 1, k + 1) = Append(SubSeq(seqs, 1, (k + 1) - 1), seqs[k + 1])
      BY <2>1, <3>1, OneMore
    <3> QED
      BY <2>1, <3>2 DEF T
  <2> HIDE DEF before, next
  <2>5. FlattenSeq(Append(before, next)) = flat \o next
    <3>1. Append(before, next) \in Seq(Seq(Pieces)) /\ Len(Append(before, next)) = Len(before) + 1
          /\ (\A i \in 1 .. Len(before) : Append(before, next)[i] = before[i])
          /\ Append(before, next)[Len(before) + 1] = next
      BY <2>4
    <3> QED
      BY Zenon, <2>4, <3>1, FlattenNext
  <2>6. flat \in Seq(Pieces)
    BY <2>4, FlattenType
  <2> HIDE DEF flat
  <2>7. ReadFold!Fold(start, flat \o next) = ReadFold!Fold(now, next)
    BY <2>4, <2>6, ReadFold!FoldConcat
  <2>8. At(k + 1) = ReadFold!Fold(start, flat \o next)
    BY Zenon, <2>4, <2>5
  <2> HIDE DEF At, now
  <2> QED
    BY <2>3, <2>7, <2>8
<1>4. n \in So
  <2> HIDE DEF So, n
  <2> QED
    BY Zenon, <1>1, <1>2, <1>3, SetInduction
<1>5. SubSeq(seqs, 1, n) = seqs
  BY NoneAndAll
<1>6. InStage(At(n), n, stages)
  BY <1>1, <1>4
<1> QED
  BY Zenon, <1>5, <1>6

-----------------------------------------------------------------------------
(* A statement is printed as pieces that are read back as its words.       *)
Prints(pieces, words) ==
  /\ pieces \in Seq(Pieces)
  /\ \A acc, done :
       Reading(acc, done, <<>>) /\ acc.last = Newline =>
         /\ Reading(ReadFold!Fold(acc, pieces), Append(done, words), <<>>)
         /\ ReadFold!Fold(acc, pieces).last = Newline

(* Every statement ends with its comment and a newline.                    *)
LEMMA StatementEnds ==
  ASSUME NEW acc, NEW done, NEW words, Reading(acc, done, words),
         NEW pre, Quiet(pre), NEW comment
  PROVE  LET tail == If(comment, pre \o <<Comment>>) \o <<Newline>>
         IN /\ tail \in Seq(Pieces)
            /\ Reading(ReadFold!Fold(acc, tail), Append(done, words), <<>>)
            /\ ReadFold!Fold(acc, tail).last = Newline
<1> DEFINE tail == If(comment, pre \o <<Comment>>) \o <<Newline>>
<1>1. Newline \in Pieces /\ Comment \in Pieces /\ pre \in Seq(Pieces)
  BY ReadableAre DEF Quiet
<1>2. CASE comment
  <2> DEFINE a1 == ReadFold!Fold(acc, pre)
             longer == Append(pre, Comment)
  <2>1. tail = Append(longer, Newline)
    <3>1. tail = (pre \o <<Comment>>) \o <<Newline>>
      BY <1>2 DEF If
    <3>2. pre \o <<Comment>> = longer /\ longer \in Seq(Pieces)
      BY <1>1
    <3> HIDE DEF longer
    <3>3. longer \o <<Newline>> = Append(longer, Newline)
      BY <1>1, <3>2
    <3> HIDE DEF tail
    <3> QED
      BY Zenon, <3>1, <3>2, <3>3
  <2>2. longer \in Seq(Pieces) /\ Append(longer, Newline) \in Seq(Pieces)
    BY <1>1
  <2>3. ReadFold!Fold(acc, longer) = ReadPiece(a1, Comment)
    BY <1>1, ReadFold!FoldAppend
  <2> HIDE DEF longer
  <2>4. ReadFold!Fold(acc, Append(longer, Newline)) = ReadPiece(ReadPiece(a1, Comment), Newline)
    BY <1>1, <2>2, <2>3, ReadFold!FoldAppend
  <2>5. Reading(a1, done, words)
    BY QuietRead
  <2> HIDE DEF tail, a1
  <2>6. ReadFold!Fold(acc, tail) = ReadFold!Fold(a1, <<Comment, Newline>>)
    BY <2>1, <2>4, TwoRead
  <2> QED
    BY Zenon, <2>1, <2>2, <2>5, <2>6, CommentEnds DEF tail
<1>3. CASE ~comment
  <2>1. tail = <<Newline>>
    BY <1>3 DEF If
  <2>2. <<Newline>> \in Seq(Pieces)
    BY <1>1
  <2>3. ReadFold!Fold(acc, <<Newline>>) = ReadPiece(acc, Newline)
    BY OneRead
  <2>4. acc \in Readings /\ acc.last # Backslash /\ acc.done = done /\ acc.words = words
    BY DEF Reading
  <2> HIDE DEF tail
  <2> QED
    BY Zenon, <2>1, <2>2, <2>3, <2>4, EndReads DEF tail
<1> QED
  BY <1>2, <1>3

-----------------------------------------------------------------------------
(* One row of print_newline_array().                                       *)
LEMMA RowRead ==
  ASSUME NEW acc, NEW done, NEW words, Reading(acc, done, words), ~IsWord(acc.last),
         NEW pre, Quiet(pre), NEW row \in Seq(WordPieces), NEW more
  PROVE  /\ Reading(ReadFold!Fold(acc, RowOf(pre, row, more)), done, words \o row)
         /\ more => ~IsWord(ReadFold!Fold(acc, RowOf(pre, row, more)).last)
<1> DEFINE joined == Joined(row)
           tail == <<Backslash, Newline>>
           a1 == ReadFold!Fold(acc, pre)
           a2 == ReadFold!Fold(a1, joined)
           a3 == ReadFold!Fold(a2, <<Space>>)
           a4 == ReadFold!Fold(a3, tail)
<1>1. /\ pre \in Seq(Pieces) /\ Space \in Pieces /\ Backslash \in Pieces /\ Newline \in Pieces
      /\ ~IsWord(Newline) /\ QuietPiece(Space)
  BY ReadableAre DEF Quiet, QuietPiece
<1>2. Reading(a1, done, words) /\ ~IsWord(a1.last)
  BY QuietRead
<1> HIDE DEF a1
<1>3. Reading(a2, done, words \o row) /\ joined \in Seq(Pieces)
  BY <1>2, JoinedRead
<1> HIDE DEF joined, a2
<1>4. ReadFold!Fold(acc, pre \o joined) = a2 /\ pre \o joined \in Seq(Pieces)
  BY <1>1, <1>3, ReadFold!FoldConcat DEF a1, a2
<1>5. CASE more
  <2>1. Reading(a3, done, words \o row)
    BY <1>1, <1>3, QuietReads, OneRead
  <2> HIDE DEF a3
  <2>2. Reading(a4, done, words \o row) /\ a4.last = Newline
    BY <2>1, BreakReads
  <2>3. <<Space>> \in Seq(Pieces) /\ tail \in Seq(Pieces)
    BY <1>1
  <2>4. <<Space, Backslash, Newline>> = <<Space>> \o tail
    OBVIOUS
  <2> HIDE DEF tail, a4
  <2>5. ReadFold!Fold(a2, <<Space>> \o tail) = a4
    BY Zenon, <2>3, ReadFold!FoldConcat DEF a3, a4
  <2>6. <<Space>> \o tail \in Seq(Pieces)
    BY <2>3
  <2>7. ReadFold!Fold(acc, (pre \o joined) \o (<<Space>> \o tail)) = a4
    <3>1. ReadFold!Fold(acc, (pre \o joined) \o (<<Space>> \o tail))
            = ReadFold!Fold(ReadFold!Fold(acc, pre \o joined), <<Space>> \o tail)
      BY Zenon, <1>4, <2>6, ReadFold!FoldConcat
    <3> QED
      BY <1>4, <2>5, <3>1
  <2>8. RowOf(pre, row, more) = (pre \o joined) \o (<<Space>> \o tail)
    BY Zenon, <1>5, <2>4 DEF RowOf, If, joined
  <2> QED
    BY <1>1, <2>2, <2>7, <2>8
<1>6. CASE ~more
  <2>1. RowOf(pre, row, more) = (pre \o joined) \o <<>>
    BY <1>6 DEF RowOf, If, joined
  <2>2. (pre \o joined) \o <<>> = pre \o joined
    BY <1>4
  <2> QED
    BY <1>3, <1>4, <1>6, <2>1, <2>2
<1> QED
  BY <1>5, <1>6

(* All of them.                                                            *)
LEMMA RowsRead ==
  ASSUME NEW acc, NEW done, Reading(acc, done, <<>>), ~IsWord(acc.last),
         NEW rows \in Seq(Seq(WordPieces)), NEW first, Quiet(first), NEW others, Quiet(others),
         NEW printed, printed = [k \in DOMAIN rows |->
           RowOf(IF k = 1 THEN first ELSE others, rows[k], k < Len(rows))]
  PROVE  /\ Reading(ReadFold!Fold(acc, FlattenSeq(printed)), done, FlattenSeq(rows))
         /\ FlattenSeq(printed) \in Seq(Pieces)
<1> DEFINE n == Len(rows)
           pre(k) == IF k = 1 THEN first ELSE others
           stages == [k \in 0 .. n |->
             {now \in Readings : /\ Reading(now, done, FlattenSeq(SubSeq(rows, 1, k)))
                                 /\ k < n \/ n = 0 => ~IsWord(now.last)}]
<1>1. n \in Nat /\ DOMAIN rows = 1 .. n
  OBVIOUS
<1>2. \A k \in 1 .. n : /\ rows[k] \in Seq(WordPieces) /\ Quiet(pre(k)) /\ pre(k) \in Seq(Pieces)
                        /\ printed[k] = RowOf(pre(k), rows[k], k < n)
  BY <1>1 DEF Quiet
<1>3. printed \in Seq(Seq(Pieces)) /\ Len(printed) = n /\ DOMAIN printed = 1 .. n
  <2> DEFINE T == Seq(Pieces)
             e == printed
  <2>1. \A k \in 1 .. n : e[k] \in T
    <3> SUFFICES ASSUME NEW k \in 1 .. n
                 PROVE  e[k] \in T
      BY Zenon
    <3>1. rows[k] \in Seq(WordPieces) /\ pre(k) \in Seq(Pieces)
          /\ printed[k] = RowOf(pre(k), rows[k], k < n)
      BY Zenon, <1>2
    <3> HIDE DEF pre
    <3>2. RowOf(pre(k), rows[k], k < n) \in Seq(Pieces)
      BY <3>1, RowIsPieces
    <3> QED
      BY <3>1, <3>2
  <2>2. e = [k \in 1 .. n |-> e[k]]
    BY <1>1
  <2> HIDE DEF T, n, e
  <2>3. e \in Seq(T) /\ Len(e) = n /\ DOMAIN e = 1 .. n
    BY Zenon, <1>1, <2>1, <2>2, FunctionSeq
  <2> QED
    BY <2>3 DEF T, e
<1>4. InStage(acc, 0, stages)
  <2>1. SubSeq(rows, 1, 0) = <<>>
    BY NoneAndAll
  <2>2. FlattenSeq(<<>>) = <<>>
    <3>1. <<>> \in Seq(Pieces) /\ \A i \in DOMAIN <<>> : <<>>[i] = <<>>
      OBVIOUS
    <3> QED
      BY Zenon, <3>1, FlattenNothing
  <2>3. acc \in Readings
    BY DEF Reading
  <2>4. Reading(acc, done, FlattenSeq(SubSeq(rows, 1, 0)))
    BY Zenon, <2>1, <2>2
  <2>5. 0 \in 0 .. n
    BY <1>1
  <2> QED
    BY <2>3, <2>4, <2>5 DEF InStage
<1>5. ASSUME NEW k \in DOMAIN printed, NEW now, InStage(now, k - 1, stages)
      PROVE  InStage(ReadFold!Fold(now, printed[k]), k, stages)
  <2> DEFINE before == SubSeq(rows, 1, k - 1)
             new == ReadFold!Fold(now, printed[k])
  <2>1. k \in 1 .. n /\ k \in 0 .. n /\ k - 1 \in 0 .. n /\ k - 1 < n /\ n # 0
    BY <1>1, <1>3
  <2>2. Reading(now, done, FlattenSeq(before)) /\ ~IsWord(now.last)
    BY <1>5, <2>1 DEF InStage
  <2>3. /\ Reading(new, done, FlattenSeq(before) \o rows[k])
        /\ k < n => ~IsWord(new.last)
    <3> HIDE DEF before
    <3> QED
      BY Zenon, <1>2, <2>1, <2>2, RowRead
  <2>4. FlattenSeq(before) \o rows[k] = FlattenSeq(SubSeq(rows, 1, k))
    <3> DEFINE T == Seq(WordPieces)
    <3>1. rows \in Seq(T) /\ k \in DOMAIN rows
      BY <1>1, <2>1
    <3> HIDE DEF T
    <3>2. /\ before \in Seq(T) /\ rows[k] \in T
          /\ SubSeq(rows, 1, k) = Append(before, rows[k])
      BY Zenon, <3>1, OneMore
    <3> HIDE DEF before
    <3>3. /\ Append(before, rows[k]) \in Seq(T) /\ Len(Append(before, rows[k])) = Len(before) + 1
          /\ (\A i \in 1 .. Len(before) : Append(before, rows[k])[i] = before[i])
          /\ Append(before, rows[k])[Len(before) + 1] = rows[k]
      BY <3>2
    <3>4. FlattenSeq(Append(before, rows[k])) = FlattenSeq(before) \o rows[k]
      BY Zenon, <3>2, <3>3, FlattenNext DEF T
    <3> QED
      BY Zenon, <3>2, <3>4
  <2>5. new \in Readings
    BY <2>3 DEF Reading
  <2> HIDE DEF new, before
  <2>6. InStage(new, k, stages)
    BY <2>1, <2>3, <2>4, <2>5 DEF InStage
  <2> QED
    BY <2>6 DEF new
<1> HIDE DEF stages
<1>6. InStage(ReadFold!Fold(acc, FlattenSeq(printed)), n, stages)
  BY Zenon, <1>3, <1>4, <1>5, FlatRead
<1>7. n \in 0 .. n /\ SubSeq(rows, 1, n) = rows
  BY <1>1, NoneAndAll
<1>8. FlattenSeq(printed) \in Seq(Pieces)
  BY Zenon, <1>3, FlattenType
<1> QED
  BY Zenon, <1>6, <1>7, <1>8 DEF InStage, stages

-----------------------------------------------------------------------------
LEMMA TwoPieces ==
  ASSUME NEW a, NEW b
  PROVE  <<a>> \o <<b>> = <<a, b>> /\ <<>> \o <<a>> = <<a>> /\ <<a>> \o <<>> = <<a>>
<1>1. <<a>> \o <<b>> = <<a, b>>
  <2> DEFINE s == <<a>>
             T == {a, b}
  <2>1. <<a, b>> = Append(Append(<<>>, a), b) /\ <<a>> = Append(<<>>, a)
    OBVIOUS
  <2>2. s \in Seq(T) /\ b \in T
    OBVIOUS
  <2>3. Append(s, b) = <<a, b>>
    BY Zenon, <2>1
  <2> HIDE DEF s, T
  <2>4. s \o <<b>> = Append(s, b)
    BY <2>2
  <2> QED
    BY Zenon, <2>3, <2>4 DEF s
<1>2. <<>> \o <<a>> = <<a>>
  OBVIOUS
<1>3. <<a>> \o <<>> = <<a>>
  OBVIOUS
<1> QED
  BY <1>1, <1>2, <1>3

LEMMA TabsQuiet ==
  ASSUME NEW n \in Nat
  PROVE  Quiet(Tabs(n))
<1>1. Tabs(n) \in Seq(Pieces) /\ \A i \in DOMAIN Tabs(n) : Tabs(n)[i] = Tab
  BY TabsAre
<1> QED
  BY <1>1, ReadableAre DEF Quiet

LEMMA SpaceQuiet ==
  /\ Quiet(<<Space>>) /\ Quiet(<<>>) /\ Quiet(<<Tab>>)
  /\ \A condition : Quiet(If(condition, <<Space>>))
<1>1. QuietPiece(Space) /\ Space \in Pieces /\ QuietPiece(Tab) /\ Tab \in Pieces
  BY ReadableAre DEF QuietPiece
<1>2. Quiet(<<Space>>) /\ Quiet(<<Tab>>) /\ Quiet(<<>>)
  BY <1>1 DEF Quiet
<1> QED
  BY <1>2 DEF If

LEMMA QuietConcat ==
  ASSUME NEW s, Quiet(s), NEW t, Quiet(t)
  PROVE  Quiet(s \o t)
<1>1. s \in Seq(Pieces) /\ t \in Seq(Pieces)
  BY DEF Quiet
<1>2. /\ s \o t \in Seq(Pieces)
      /\ \A i \in DOMAIN (s \o t) : \/ i \in DOMAIN s /\ (s \o t)[i] = s[i]
                                    \/ i - Len(s) \in DOMAIN t /\ (s \o t)[i] = t[i - Len(s)]
  BY <1>1
<1> QED
  BY <1>2 DEF Quiet

LEMMA PieceQuiet ==
  ASSUME NEW kind \in {"name", "modifier", "flags", "for", "in", "if"}, NEW len \in Nat
  PROVE  QuietPiece(Piece(kind, len)) /\ Quiet(<<Piece(kind, len)>>)
<1> DEFINE piece == Piece(kind, len)
<1>1. piece = [kind |-> kind, len |-> len] /\ piece.kind = kind
  BY DEF Piece
<1>2. piece \in Pieces
  BY <1>1 DEF Pieces, Kinds
<1>3. ~IsWord(piece)
  BY <1>1 DEF IsWord, WordKinds
<1>4. piece # Newline /\ piece # Comment /\ piece # Backslash
  <2>1. Newline.kind = "newline" /\ Comment.kind = "comment" /\ Backslash.kind = "backslash"
    BY DEF Newline, Comment, Backslash, Piece
  <2> QED
    BY <1>1, <2>1
<1> HIDE DEF piece
<1>5. QuietPiece(piece)
  BY <1>2, <1>3, <1>4 DEF QuietPiece
<1>6. Quiet(<<piece>>)
  BY <1>2, <1>5 DEF Quiet
<1> QED
  BY <1>5, <1>6 DEF piece

LEMMA HeadQuiet ==
  ASSUME NEW node, node.name \in Nat, node.modifier \in {1, 2}
  PROVE  Quiet(HeadOf(node)) /\ HeadOf(node) # <<>>
<1> DEFINE name == <<Piece("name", node.name)>>
           mod == <<Piece("modifier", node.modifier)>>
           plus == If(node.plus, <<Space>>)
<1>1. Quiet(name) /\ Quiet(mod)
  BY PieceQuiet
<1>2. Quiet(plus)
  BY SpaceQuiet
<1>3. HeadOf(node) = (name \o plus) \o mod
  BY DEF HeadOf
<1>4. HeadOf(node) # <<>>
  <2>1. mod # <<>>
    OBVIOUS
  <2> HIDE DEF mod, name, plus
  <2>2. mod \in Seq(Pieces) /\ name \o plus \in Seq(Pieces)
    BY <1>1, <1>2, QuietConcat DEF Quiet
  <2> QED
    BY <1>3, <2>1, <2>2
<1> HIDE DEF mod, name, plus
<1> QED
  BY <1>1, <1>2, <1>3, <1>4, QuietConcat

(* There is a statement to be read.                                        *)
LEMMA SomeReading ==
  \E acc, done : Reading(acc, done, <<>>) /\ acc.last = Newline /\ ~IsWord(acc.last)
<1> DEFINE acc == [done |-> <<>>, words |-> <<>>, last |-> Newline, commented |-> FALSE]
<1>1. /\ Newline \in Pieces /\ Newline # Backslash /\ ~IsWord(Newline)
      /\ <<>> \in Seq(Seq(Readable)) /\ <<>> \in Seq(Readable)
  BY ReadableAre
<1>2. /\ acc \in Readings /\ acc.done = <<>> /\ acc.words = <<>> /\ acc.last = Newline
      /\ ~acc.commented
  BY <1>1 DEF Readings
<1> HIDE DEF acc
<1>3. Reading(acc, <<>>, <<>>) /\ acc.last = Newline /\ ~IsWord(acc.last)
  BY <1>1, <1>2 DEF Reading
<1> QED
  BY <1>3

(* What is printed of a statement behind its start and in front of its     *)
(* comment is read back as its words.                                      *)
ReadsAs(body, words) ==
  /\ body \in Seq(Pieces)
  /\ \A acc, done :
       Reading(acc, done, <<>>) /\ ~IsWord(acc.last) =>
         Reading(ReadFold!Fold(acc, body), done, words)

LEMMA StatementPrints ==
  ASSUME NEW head, Quiet(head), NEW body, NEW words, ReadsAs(body, words),
         NEW pre, Quiet(pre), NEW comment
  PROVE  Prints(((head \o body) \o If(comment, pre \o <<Comment>>)) \o <<Newline>>, words)
<1> DEFINE ending == If(comment, pre \o <<Comment>>)
           tail == ending \o <<Newline>>
           all == ((head \o body) \o ending) \o <<Newline>>
<1>1. /\ head \in Seq(Pieces) /\ body \in Seq(Pieces) /\ pre \in Seq(Pieces)
      /\ <<Comment>> \in Seq(Pieces) /\ <<Newline>> \in Seq(Pieces) /\ ~IsWord(Newline)
  BY ReadableAre DEF Quiet, ReadsAs
<1>2. ending \in Seq(Pieces)
  BY <1>1 DEF If
<1>3. all = (head \o body) \o tail /\ all \in Seq(Pieces) /\ tail \in Seq(Pieces)
  <2> HIDE DEF ending
  <2>1. head \o body \in Seq(Pieces) /\ (head \o body) \o ending \in Seq(Pieces)
    BY <1>1, <1>2
  <2>2. tail \in Seq(Pieces)
    BY <1>1, <1>2
  <2>3. all = (head \o body) \o tail
    <3> DEFINE start == head \o body
    <3> HIDE DEF start
    <3>1. (start \o ending) \o <<Newline>> = start \o (ending \o <<Newline>>)
      BY <1>1, <1>2, <2>1, ConcatInOrder DEF start
    <3> QED
      BY Zenon, <3>1 DEF start
  <2>4. (head \o body) \o tail \in Seq(Pieces)
    <3> HIDE DEF tail
    <3> QED
      BY <2>1, <2>2
  <2> HIDE DEF all, tail
  <2> QED
    BY <2>2, <2>3, <2>4
<1>4. ASSUME NEW acc, NEW done, Reading(acc, done, <<>>), acc.last = Newline
      PROVE  /\ Reading(ReadFold!Fold(acc, all), Append(done, words), <<>>)
             /\ ReadFold!Fold(acc, all).last = Newline
  <2> DEFINE a1 == ReadFold!Fold(acc, head)
             a2 == ReadFold!Fold(a1, body)
  <2>1. Reading(a1, done, <<>>) /\ ~IsWord(a1.last)
    <3> HIDE DEF all, tail, ending
    <3>1. ~IsWord(acc.last)
      BY <1>1, <1>4
    <3> QED
      BY <1>4, <3>1, QuietRead
  <2> HIDE DEF a1
  <2>2. Reading(a2, done, words)
    BY <2>1 DEF ReadsAs
  <2> HIDE DEF a2
  <2>3. /\ Reading(ReadFold!Fold(a2, tail), Append(done, words), <<>>)
        /\ ReadFold!Fold(a2, tail).last = Newline
    BY <2>2, StatementEnds
  <2> HIDE DEF all, tail, ending
  <2>4. ReadFold!Fold(acc, head \o body) = a2 /\ head \o body \in Seq(Pieces)
    BY <1>1, ReadFold!FoldConcat DEF a1, a2
  <2>5. ReadFold!Fold(acc, (head \o body) \o tail) = ReadFold!Fold(a2, tail)
    BY Zenon, <1>3, <2>4, ReadFold!FoldConcat
  <2> QED
    BY <1>3, <2>3, <2>5
<1> HIDE DEF all
<1>5. Prints(all, words)
  BY Zenon, <1>3, <1>4 DEF Prints
<1> QED
  BY <1>5 DEF all

(* What is printed as it was read.                                         *)
LEMMA RawPrints == Prints(RawLine, <<Raw>>)
<1>1. Raw \in Readable /\ Raw \in Pieces /\ <<Raw>> \in Seq(Pieces) /\ ~IsWord(Newline)
  BY ReadableAre
<1>2. Quiet(<<>>)
  BY SpaceQuiet
<1>3. ReadsAs(<<Raw>>, <<Raw>>)
  <2>1. ASSUME NEW acc, NEW done, Reading(acc, done, <<>>), ~IsWord(acc.last)
        PROVE  Reading(ReadFold!Fold(acc, <<Raw>>), done, <<Raw>>)
    <3>1. Apart(acc.last, Raw)
      BY <2>1 DEF Apart
    <3>2. Reading(ReadPiece(acc, Raw), done, Append(<<>>, Raw))
      BY Zenon, <1>1, <2>1, <3>1, WordReads
    <3>3. Append(<<>>, Raw) = <<Raw>>
      OBVIOUS
    <3> QED
      BY <3>2, <3>3, OneRead
  <2> QED
    BY <1>1, <2>1 DEF ReadsAs
<1>4. Prints(((<<>> \o <<Raw>>) \o If(FALSE, <<>> \o <<Comment>>)) \o <<Newline>>, <<Raw>>)
  BY Zenon, <1>2, <1>3, StatementPrints
<1>5. ((<<>> \o <<Raw>>) \o If(FALSE, <<>> \o <<Comment>>)) \o <<Newline>> = RawLine
  <2>1. If(FALSE, <<>> \o <<Comment>>) = <<>>
    BY DEF If
  <2>2. (<<>> \o <<Raw>>) \o <<>> = <<Raw>> /\ <<Raw>> \o <<Newline>> = <<Raw, Newline>>
    BY TwoPieces
  <2> QED
    BY Zenon, <2>1, <2>2 DEF RawLine
<1> QED
  BY Zenon, <1>4, <1>5

(* What print_newline_array() prints is read back as its rows.             *)
LEMMA ArrayPrints ==
  ASSUME NEW node, node.name \in Nat, node.modifier \in {1, 2}, NEW goal,
         Max({16, goal}) \in Nat, NEW rows \in Seq(Seq(WordPieces))
  PROVE  Prints(PrintNewlineArray(node, goal, rows), FlattenSeq(rows))
<1> DEFINE head == HeadOf(node)
           startlen == StartLen(node)
           margin == Max({16, goal})
           n == Tabstops(IF startlen > margin THEN startlen - margin ELSE margin - startlen)
           first == Tabs(n)
           others == Tabs(Tabstops(margin))
           printed == [k \in DOMAIN rows |->
                         RowOf(IF k = 1 THEN first ELSE others, rows[k], k < Len(rows))]
           flat == FlattenSeq(printed)
           pre == IF rows = <<>> THEN first ELSE <<Space>>
           last == If(node.comment, pre \o <<Comment>>)
<1>1. startlen \in Nat
  BY NeededIs
<1>2. n \in Nat /\ Tabstops(margin) \in Nat
  <2> DEFINE behind == IF startlen > margin THEN startlen - margin ELSE margin - startlen
  <2>1. behind \in Nat /\ margin \in Nat
    BY <1>1
  <2> HIDE DEF behind, margin
  <2> QED
    BY <2>1 DEF Tabstops, behind
<1>3. Quiet(first) /\ Quiet(others) /\ Quiet(pre)
  BY <1>2, TabsQuiet, SpaceQuiet
<1>4. Quiet(head) /\ head # <<>>
  BY HeadQuiet
<1>5. PrintNewlineArray(node, goal, rows) = ((head \o flat) \o last) \o <<Newline>>
  <2>1. <<Space>> \o <<Comment>> = <<Space, Comment>>
    BY TwoPieces
  <2>2. pre \o <<Comment>> = IF rows = <<>> THEN first \o <<Comment>> ELSE <<Space, Comment>>
    BY Zenon, <2>1
  <2> HIDE DEF pre
  <2> QED
    BY Zenon, <2>2 DEF PrintNewlineArray, HeadOf, RowOf
<1> HIDE DEF head, first, others, pre
<1>6. ReadsAs(flat, FlattenSeq(rows))
  <2>1. ASSUME NEW acc, NEW done, Reading(acc, done, <<>>), ~IsWord(acc.last)
        PROVE  /\ Reading(ReadFold!Fold(acc, FlattenSeq(printed)), done, FlattenSeq(rows))
               /\ FlattenSeq(printed) \in Seq(Pieces)
    <3> DEFINE p == printed
    <3>1. p = [k \in DOMAIN rows |->
                 RowOf(IF k = 1 THEN first ELSE others, rows[k], k < Len(rows))]
      OBVIOUS
    <3> HIDE DEF p
    <3>2. /\ Reading(ReadFold!Fold(acc, FlattenSeq(p)), done, FlattenSeq(rows))
          /\ FlattenSeq(p) \in Seq(Pieces)
      BY <1>3, <2>1, <3>1, RowsRead
    <3> QED
      BY <3>2 DEF p
  <2>2. FlattenSeq(printed) \in Seq(Pieces)
    BY Zenon, <2>1, SomeReading
  <2> HIDE DEF printed
  <2> QED
    BY <2>1, <2>2 DEF ReadsAs
<1> HIDE DEF flat
<1>7. Prints(((head \o flat) \o If(node.comment, pre \o <<Comment>>)) \o <<Newline>>,
             FlattenSeq(rows))
  BY <1>3, <1>4, <1>6, StatementPrints
<1> QED
  BY Zenon, <1>5, <1>7 DEF last

-----------------------------------------------------------------------------
(* Lines are read back as what is expected of them.                        *)
PrintsOrRaw(lines, words) == Prints(lines, IF lines = RawLine THEN <<Raw>> ELSE words)

LEMMA PrintsThem ==
  ASSUME NEW lines, NEW words, lines = RawLine \/ Prints(lines, words)
  PROVE  PrintsOrRaw(lines, words)
BY RawPrints DEF PrintsOrRaw

LEMMA VariablePrints ==
  ASSUME NEW node, node.name \in Nat, node.modifier \in {1, 2},
         node.words \in Seq(WordPieces), NEW goal \in Nat
  PROVE  PrintsOrRaw(VariableLines(node, goal), WordsOf(node))
<1>1. PICK rows \in Seq(Seq(WordPieces)) :
           /\ FlattenSeq(rows) = WordsOf(node)
           /\ VariableLines(node, goal) =
                IF IsRaw(node) THEN RawLine ELSE PrintNewlineArray(node, goal, rows)
  BY Zenon, VariableRows
<1>2. Max({16, goal}) \in Nat
  BY MaxOfTwo
<1>3. Prints(PrintNewlineArray(node, goal, rows), WordsOf(node))
  BY <1>1, <1>2, ArrayPrints
<1> QED
  BY <1>1, <1>3, PrintsThem

-----------------------------------------------------------------------------
(* Words nothing is between that are read as they are.                     *)
Whole(group) == \A i \in DOMAIN group : i > 1 => Apart(group[i - 1], group[i])

(* What .if and .for have written of their groups.                         *)
GroupsReads(acc, n, c) ==
  /\ acc = [groups |-> acc.groups, wrapcol |-> acc.wrapcol, linelen |-> acc.linelen,
            line |-> acc.line]
  /\ acc.groups = c.groups
  /\ acc.line \in Seq(Pieces)
  /\ Reading(ReadFold!Fold(c.acc, acc.line), c.done, c.words \o FlattenSeq(SubSeq(c.groups, 1, n)))
  /\ n = 0 \/ n < Len(c.groups) => ~IsWord(ReadFold!Fold(c.acc, acc.line).last)

GroupFold == INSTANCE FoldInduction WITH op <- TakeGroup, Holds <- GroupsReads

(* Pieces in a row, in whatever order they were put together.              *)
LEMMA PiecesInOrder ==
  \A x, y, z \in Seq(Pieces) : (x \o y) \o z = x \o (y \o z)
<1> DEFINE S == Pieces
<1> HIDE DEF S
<1>1. \A x, y, z \in Seq(S) : (x \o y) \o z = x \o (y \o z)
  BY ConcatInOrder
<1> QED
  BY Zenon, <1>1 DEF S

LEMMA InOrder ==
  ASSUME NEW T, NEW x \in Seq(T), NEW y \in Seq(T), NEW z \in Seq(T)
  PROVE  (x \o y) \o z = x \o (y \o z)
BY ConcatInOrder

LEMMA PiecesType ==
  ASSUME NEW x \in Seq(Pieces), NEW y \in Seq(Pieces)
  PROVE  x \o y \in Seq(Pieces)
OBVIOUS

LEMMA ThreePieces ==
  ASSUME NEW a, NEW b, NEW c
  PROVE  Append(<<a, b>>, c) = <<a, b, c>>
<1> DEFINE s == <<a, b>>
           T == {a, b}
<1>1. s = Append(Append(<<>>, a), b) /\ <<a, b, c>> = Append(Append(Append(<<>>, a), b), c)
  OBVIOUS
<1> QED
  BY Zenon, <1>1

(* One of them.                                                            *)
LEMMA GroupRead ==
  ASSUME NEW acc, NEW done, NEW words, Reading(acc, done, words), ~IsWord(acc.last),
         NEW breaks, NEW group \in Seq(WordPieces), Whole(group), NEW space
  PROVE  LET pieces == (If(breaks, <<Backslash, Newline, Tab>>) \o group)
                         \o If(space, <<Space>>)
         IN /\ pieces \in Seq(Pieces)
            /\ Reading(ReadFold!Fold(acc, pieces), done, words \o group)
            /\ space => ~IsWord(ReadFold!Fold(acc, pieces).last)
<1> DEFINE break == If(breaks, <<Backslash, Newline, Tab>>)
           gap == If(space, <<Space>>)
           a1 == ReadFold!Fold(acc, break)
           a2 == ReadFold!Fold(a1, group)
           a3 == ReadFold!Fold(a2, gap)
<1>1. /\ Backslash \in Pieces /\ Newline \in Pieces /\ Tab \in Pieces /\ Space \in Pieces
      /\ QuietPiece(Tab) /\ ~IsWord(Tab) /\ QuietPiece(Space) /\ ~IsWord(Space)
      /\ group \in Seq(Pieces)
  <2>1. group \in Seq(Pieces)
    BY PiecesAre
  <2> QED
    BY <2>1, ReadableAre DEF QuietPiece
<1>2. Reading(a1, done, words) /\ ~IsWord(a1.last) /\ break \in Seq(Pieces)
  <2>1. CASE breaks
    <3> DEFINE s == <<Backslash, Newline>>
               b1 == ReadFold!Fold(acc, s)
    <3>1. Append(s, Tab) = <<Backslash, Newline, Tab>> /\ s \in Seq(Pieces)
      <4>1. Append(s, Tab) = <<Backslash, Newline, Tab>>
        BY ThreePieces
      <4> QED
        BY <1>1, <4>1
    <3>2. Reading(b1, done, words)
      BY BreakReads
    <3> HIDE DEF s
    <3>3. ReadFold!Fold(acc, Append(s, Tab)) = ReadPiece(b1, Tab)
      BY Zenon, <1>1, <3>1, ReadFold!FoldAppend
    <3> HIDE DEF b1
    <3>4. Reading(ReadPiece(b1, Tab), done, words) /\ ReadPiece(b1, Tab).last = Tab
      BY <1>1, <3>2, QuietReads
    <3>5. break = Append(s, Tab)
      BY <2>1, <3>1 DEF If
    <3>6. Append(s, Tab) \in Seq(Pieces)
      BY <1>1, <3>1
    <3> HIDE DEF break
    <3>7. a1 = ReadPiece(b1, Tab)
      BY <3>3, <3>5
    <3> HIDE DEF a1
    <3> QED
      BY <1>1, <3>4, <3>5, <3>6, <3>7
  <2>2. CASE ~breaks
    <3>1. break = <<>>
      BY <2>2 DEF If
    <3> HIDE DEF break
    <3>2. a1 = acc
      BY <3>1, ReadFold!FoldNone
    <3> HIDE DEF a1
    <3> QED
      BY <3>1, <3>2
  <2> QED
    BY <2>1, <2>2
<1> HIDE DEF break, a1
<1>3. AllApart(a1.last, group)
  <2>1. ASSUME NEW i \in DOMAIN group
        PROVE  Apart(IF i = 1 THEN a1.last ELSE group[i - 1], group[i])
    <3>1. i = 1 \/ i > 1
      OBVIOUS
    <3>2. CASE i = 1
      BY <1>2, <3>2 DEF Apart
    <3>3. CASE i > 1
      <4>1. Apart(group[i - 1], group[i]) /\ i # 1
        BY <3>3 DEF Whole
      <4> QED
        BY <4>1
    <3> QED
      BY <3>1, <3>2, <3>3
  <2> QED
    BY <2>1 DEF AllApart
<1>4. Reading(a2, done, words \o group)
  BY <1>2, <1>3, WordsRead
<1> HIDE DEF a2
<1>5. /\ Reading(a3, done, words \o group) /\ gap \in Seq(Pieces)
      /\ space => ~IsWord(a3.last)
  <2>1. Quiet(gap)
    BY SpaceQuiet
  <2>2. gap \in Seq(Pieces)
    BY <2>1 DEF Quiet
  <2>3. space => gap # <<>>
    BY DEF If
  <2> HIDE DEF gap
  <2> QED
    BY <1>4, <2>1, <2>2, <2>3, QuietRead
<1> HIDE DEF a3, gap
<1>6. ReadFold!Fold(acc, break \o group) = a2 /\ break \o group \in Seq(Pieces)
  BY <1>1, <1>2, ReadFold!FoldConcat DEF a1, a2
<1>7. /\ ReadFold!Fold(acc, (break \o group) \o gap) = a3
      /\ (break \o group) \o gap \in Seq(Pieces)
  <2> DEFINE s == break \o group
  <2>1. s \in Seq(Pieces) /\ ReadFold!Fold(acc, s) = a2
    BY <1>6
  <2> HIDE DEF s
  <2>2. ReadFold!Fold(acc, s \o gap) = ReadFold!Fold(ReadFold!Fold(acc, s), gap)
    BY <1>5, <2>1, ReadFold!FoldConcat
  <2>3. s \o gap \in Seq(Pieces)
    BY <1>5, <2>1
  <2> QED
    BY Zenon, <2>1, <2>2, <2>3 DEF s, a3
<1> QED
  BY <1>5, <1>7 DEF break, gap

(* All of them.                                                            *)
LEMMA GroupsRead ==
  ASSUME NEW acc, NEW done, NEW words, Reading(acc, done, words), ~IsWord(acc.last),
         NEW groups \in Seq(Seq(WordPieces)), \A k \in DOMAIN groups : Whole(groups[k]),
         NEW start
  PROVE  /\ PrintGroups(groups, start).line \in Seq(Pieces)
         /\ Reading(ReadFold!Fold(acc, PrintGroups(groups, start).line), done,
                    words \o FlattenSeq(groups))
<1> DEFINE n == Len(groups)
           c == [acc |-> acc, done |-> done, words |-> words, groups |-> groups]
           base == [groups |-> groups, wrapcol |-> AsSize(wrapcol), linelen |-> start,
                    line |-> <<>>]
           indices == [k \in DOMAIN groups |-> k]
<1>1. n \in Nat /\ DOMAIN groups = 1 .. n
  OBVIOUS
<1>2. c.acc = acc /\ c.done = done /\ c.words = words /\ c.groups = groups
  OBVIOUS
<1>3. words \in Seq(Readable)
  BY DEF Reading, Readings
<1> HIDE DEF c
<1>4. PrintGroups(groups, start) = GroupFold!Fold(base, indices)
  BY Zenon DEF PrintGroups, GroupFold!Fold, GroupFold!Greatest,
     FoldLeft, MapThenFoldSet, Max
<1>5. /\ indices \in Seq(Nat) /\ Len(indices) = n /\ DOMAIN indices = 1 .. n
      /\ \A k \in 1 .. n : indices[k] = k
  BY <1>1
<1> HIDE DEF indices
<1>6. GroupsReads(base, 0, c)
  <2>1. /\ base.groups = groups /\ base.line = <<>> /\ base.wrapcol = AsSize(wrapcol)
        /\ base.linelen = start
    OBVIOUS
  <2>2. base = [groups |-> base.groups, wrapcol |-> base.wrapcol, linelen |-> base.linelen,
                line |-> base.line]
    BY Zenon, <2>1
  <2>3. SubSeq(groups, 1, 0) = <<>>
    BY NoneAndAll
  <2>4. FlattenSeq(<<>>) = <<>>
    <3>1. <<>> \in Seq(Pieces) /\ \A i \in DOMAIN <<>> : <<>>[i] = <<>>
      OBVIOUS
    <3> QED
      BY Zenon, <3>1, FlattenNothing
  <2>5. words \o <<>> = words
    BY <1>3
  <2>6. words \o FlattenSeq(SubSeq(c.groups, 1, 0)) = words
    BY Zenon, <1>2, <2>3, <2>4, <2>5
  <2>7. <<>> \in Seq(Pieces) /\ ReadFold!Fold(acc, <<>>) = acc
    BY ReadFold!FoldNone
  <2> HIDE DEF base
  <2> QED
    BY Zenon, <1>2, <2>1, <2>2, <2>6, <2>7 DEF GroupsReads
<1>7. ASSUME NEW k \in DOMAIN indices, NEW now, GroupsReads(now, k - 1, c)
      PROVE  GroupsReads(TakeGroup(now, indices[k]), k, c)
  <2> DEFINE group == groups[k]
             before == SubSeq(groups, 1, k - 1)
             len == Length(group)
             breaks == now.linelen + len > now.wrapcol /\ ~(Len(group) = 1 /\ group[1].kind = "op")
             space == k < n
             break == If(breaks, <<Backslash, Newline, Tab>>)
             gap == If(space, <<Space>>)
             new == TakeGroup(now, k)
             so == ReadFold!Fold(acc, now.line)
  <2>1. k \in 1 .. n /\ indices[k] = k /\ k - 1 < n
    BY <1>1, <1>5
  <2>2. /\ now = [groups |-> now.groups, wrapcol |-> now.wrapcol, linelen |-> now.linelen,
                  line |-> now.line]
        /\ now.groups = groups /\ now.line \in Seq(Pieces)
        /\ Reading(so, done, words \o FlattenSeq(before)) /\ ~IsWord(so.last)
    <3> HIDE DEF before, so
    <3> QED
      BY <1>2, <1>7, <2>1 DEF GroupsReads, before, so
  <2>3. /\ new.groups = now.groups /\ new.wrapcol = now.wrapcol
        /\ new.line = ((now.line \o break) \o group) \o gap
        /\ new = [groups |-> new.groups, wrapcol |-> new.wrapcol, linelen |-> new.linelen,
                  line |-> new.line]
    <3> DEFINE length == (IF breaks THEN 8 ELSE now.linelen) + len + (IF space THEN 1 ELSE 0)
               line == ((now.line \o break) \o group) \o gap
    <3>1. new = [now EXCEPT !.linelen = length, !.line = line]
      <4> HIDE DEF len
      <4> QED
        BY <2>2 DEF TakeGroup, len
    <3> HIDE DEF new, length, line
    <3>2. new = [groups |-> now.groups, wrapcol |-> now.wrapcol, linelen |-> length,
                 line |-> line]
      BY Zenon, <2>2, <3>1
    <3> QED
      BY Zenon, <3>2 DEF line
  <2>4. group \in Seq(WordPieces) /\ Whole(group)
    BY <1>1, <2>1
  <2> DEFINE pieces == (break \o group) \o gap
  <2>5. /\ pieces \in Seq(Pieces)
        /\ Reading(ReadFold!Fold(so, pieces), done, (words \o FlattenSeq(before)) \o group)
        /\ space => ~IsWord(ReadFold!Fold(so, pieces).last)
    <3> HIDE DEF so, before, group, breaks, space
    <3> QED
      BY Zenon, <2>2, <2>4, GroupRead
  <2>6. new.line = now.line \o pieces /\ new.line \in Seq(Pieces)
    <3>1. /\ break \in Seq(Pieces) /\ gap \in Seq(Pieces) /\ group \in Seq(Pieces)
          /\ now.line \in Seq(Pieces)
      <4>1. group \in Seq(Pieces)
        <5> HIDE DEF group
        <5> QED
          BY <2>4, PiecesAre
      <4>2. Backslash \in Pieces /\ Newline \in Pieces /\ Tab \in Pieces /\ Space \in Pieces
        BY PiecesAre
      <4> HIDE DEF breaks, space, group
      <4> QED
        BY <2>2, <4>1, <4>2 DEF If
    <3> HIDE DEF break, gap, group
    <3> DEFINE line == now.line
    <3>2. line \in Seq(Pieces)
      BY <3>1
    <3> HIDE DEF line
    <3>3. ((line \o break) \o group) \o gap = line \o ((break \o group) \o gap)
      <4>1. break \in Seq(Pieces) /\ group \in Seq(Pieces)
        BY <3>1
      <4>2. gap \in Seq(Pieces)
        BY <3>1
      <4>3. break \o group \in Seq(Pieces)
        BY <4>1, PiecesType
      <4>4. (line \o break) \o group = line \o (break \o group)
        BY Zenon, <3>2, <4>1, PiecesInOrder
      <4>5. (line \o (break \o group)) \o gap = line \o ((break \o group) \o gap)
        BY Zenon, <3>2, <4>2, <4>3, PiecesInOrder
      <4> QED
        BY Zenon, <4>4, <4>5
    <3>4. line \o pieces \in Seq(Pieces)
      <4> HIDE DEF pieces
      <4> QED
        BY <2>5, <3>2
    <3> HIDE DEF new, pieces
    <3> QED
      BY <2>3, <3>3, <3>4 DEF line, pieces
  <2> HIDE DEF pieces
  <2>7. ReadFold!Fold(acc, new.line) = ReadFold!Fold(so, pieces)
    <3> HIDE DEF new
    <3>1. ReadFold!Fold(acc, now.line \o pieces) = ReadFold!Fold(ReadFold!Fold(acc, now.line), pieces)
      BY <2>2, <2>5, ReadFold!FoldConcat
    <3> QED
      BY Zenon, <2>6, <3>1 DEF so
  <2>8. (words \o FlattenSeq(before)) \o group = words \o FlattenSeq(SubSeq(groups, 1, k))
    <3> DEFINE T == Seq(WordPieces)
    <3>1. groups \in Seq(T) /\ k \in DOMAIN groups
      BY <1>1, <2>1
    <3> HIDE DEF T
    <3>2. before \in Seq(T) /\ SubSeq(groups, 1, k) = Append(before, group)
      BY Zenon, <3>1, OneMore
    <3> HIDE DEF before, group
    <3>3. /\ FlattenSeq(Append(before, group)) = FlattenSeq(before) \o group
          /\ FlattenSeq(before) \in Seq(WordPieces)
      BY Zenon, <2>4, <3>2, FlattenAppend DEF T
    <3>4. FlattenSeq(before) \in Seq(Readable) /\ group \in Seq(Readable)
      BY <2>4, <3>3, ReadableAre
    <3>5. (words \o FlattenSeq(before)) \o group = words \o (FlattenSeq(before) \o group)
      BY <1>3, <3>4, InOrder
    <3> QED
      BY Zenon, <3>2, <3>3, <3>5
  <2> HIDE DEF new, so, before, group, breaks
  <2>9. ~(k = 0) /\ (k < Len(groups) => space)
    BY <2>1
  <2> HIDE DEF space
  <2>10. GroupsReads(new, k, c)
    <3>1. Reading(ReadFold!Fold(acc, new.line), done, words \o FlattenSeq(SubSeq(groups, 1, k)))
      BY <2>5, <2>7, <2>8
    <3>2. k < Len(groups) => ~IsWord(ReadFold!Fold(acc, new.line).last)
      BY <2>5, <2>7, <2>9
    <3>3. new.groups = groups
      BY <2>2, <2>3
    <3> QED
      BY Zenon, <1>2, <2>3, <2>6, <2>9, <3>1, <3>2, <3>3 DEF GroupsReads
  <2> QED
    BY <2>1, <2>10 DEF new
<1> HIDE DEF base
<1>8. GroupsReads(GroupFold!Fold(base, indices), n, c)
  BY Zenon, <1>5, <1>6, <1>7, GroupFold!FoldHolds
<1>9. SubSeq(groups, 1, n) = groups
  BY NoneAndAll
<1> QED
  BY Zenon, <1>2, <1>4, <1>8, <1>9 DEF GroupsReads

-----------------------------------------------------------------------------
(* Lines that start with something no word is in, and have a comment.      *)
LEMMA PrintedLine ==
  ASSUME NEW kind \in {"for", "if"}, NEW len \in Nat, NEW body, NEW words,
         ReadsAs(body, words), NEW comment
  PROVE  Prints(((<<Piece(kind, len)>> \o body) \o If(comment, <<Space, Comment>>))
                  \o <<Newline>>, words)
<1>1. Quiet(<<Piece(kind, len)>>)
  BY PieceQuiet
<1>2. Quiet(<<Space>>)
  BY SpaceQuiet
<1>3. <<Space>> \o <<Comment>> = <<Space, Comment>>
  BY TwoPieces
<1>4. Prints(((<<Piece(kind, len)>> \o body) \o If(comment, <<Space>> \o <<Comment>>))
               \o <<Newline>>, words)
  BY <1>1, <1>2, StatementPrints
<1> QED
  BY Zenon, <1>3, <1>4

(* What is put around the words of .if and .for.                           *)
LEMMA GroupsReadAs ==
  ASSUME NEW groups \in Seq(Seq(WordPieces)), \A k \in DOMAIN groups : Whole(groups[k]),
         NEW start
  PROVE  ReadsAs(PrintGroups(groups, start).line, FlattenSeq(groups))
<1> DEFINE line == PrintGroups(groups, start).line
           words == FlattenSeq(groups)
<1>1. words \in Seq(WordPieces)
  BY FlattenType
<1>2. ASSUME NEW acc, NEW done, Reading(acc, done, <<>>), ~IsWord(acc.last)
      PROVE  line \in Seq(Pieces) /\ Reading(ReadFold!Fold(acc, line), done, words)
  <2>1. /\ line \in Seq(Pieces)
        /\ Reading(ReadFold!Fold(acc, line), done, <<>> \o words)
    BY Zenon, <1>2, GroupsRead
  <2>2. <<>> \o words = words
    <3> HIDE DEF words
    <3> QED
      BY <1>1
  <2> QED
    BY Zenon, <2>1, <2>2
<1>3. line \in Seq(Pieces)
  <2> HIDE DEF line, words
  <2> QED
    BY <1>2, SomeReading
<1> HIDE DEF line, words
<1>4. ReadsAs(line, words)
  BY <1>2, <1>3 DEF ReadsAs
<1> QED
  BY <1>4 DEF line, words

LEMMA SinglesAre ==
  ASSUME NEW words \in Seq(WordPieces)
  PROVE  /\ SingleRows(words) \in Seq(Seq(WordPieces))
         /\ \A k \in DOMAIN SingleRows(words) : Whole(SingleRows(words)[k])
         /\ FlattenSeq(SingleRows(words)) = words
<1> DEFINE rows == [k \in DOMAIN words |-> <<words[k]>>]
<1>1. FlattenSeq(rows) = words
  BY FlattenSingles
<1>2. rows = SingleRows(words)
  BY DEF SingleRows
<1>3. ASSUME NEW k \in DOMAIN words
      PROVE  <<words[k]>> \in Seq(WordPieces) /\ Whole(<<words[k]>>)
  BY DEF Whole
<1>4. rows \in Seq(Seq(WordPieces))
  <2> DEFINE T == Seq(WordPieces)
             n == Len(words)
  <2>1. n \in Nat /\ DOMAIN words = 1 .. n /\ rows = [k \in 1 .. n |-> rows[k]]
    OBVIOUS
  <2>2. \A k \in 1 .. n : rows[k] \in T
    BY <1>3, <2>1
  <2> HIDE DEF rows, T, n
  <2>3. rows \in Seq(T)
    BY Zenon, <2>1, <2>2, FunctionSeq
  <2> QED
    BY <2>3 DEF T
<1>5. \A k \in DOMAIN rows : Whole(rows[k])
  BY <1>3
<1> QED
  BY <1>1, <1>2, <1>4, <1>5

-----------------------------------------------------------------------------
(* The words of .if, put into groups.                                      *)
TestGroups(groups, n, c) ==
  /\ groups \in Seq(Seq(WordPieces))
  /\ \A k \in DOMAIN groups : groups[k] # <<>> /\ Whole(groups[k])
  /\ FlattenSeq(groups) = SubSeq(c, 1, n)

TestFold == INSTANCE FoldInduction WITH op <- TakeTest, Holds <- TestGroups

(* The last of a sequence.                                                 *)
LEMMA FrontAndLast ==
  ASSUME NEW T, NEW s \in Seq(T), s # <<>>
  PROVE  Front(s) \in Seq(T) /\ Last(s) \in T /\ s = Append(Front(s), Last(s))
         /\ Last(s) = s[Len(s)] /\ Len(s) \in DOMAIN s /\ Len(Front(s)) = Len(s) - 1
         /\ \A k \in DOMAIN Front(s) : k \in DOMAIN s /\ Front(s)[k] = s[k]
<1> DEFINE n == Len(s)
           front == SubSeq(s, 1, n - 1)
<1>1. n \in Nat \ {0} /\ n \in DOMAIN s
  OBVIOUS
<1>2. Front(s) = front /\ Last(s) = s[n]
  BY DEF Front, Last
<1>3. front \in Seq(T) /\ s[n] \in T /\ SubSeq(s, 1, n) = Append(front, s[n])
  BY Zenon, <1>1, OneMore
<1>4. SubSeq(s, 1, n) = s
  BY NoneAndAll
<1>5. Len(front) = n - 1 /\ \A k \in DOMAIN front : k \in DOMAIN s /\ front[k] = s[k]
  <2> DEFINE m == n - 1
  <2>1. m \in 0 .. Len(s) /\ m \in Nat /\ m <= Len(s) /\ DOMAIN s = 1 .. Len(s)
    BY <1>1
  <2> HIDE DEF m, n
  <2>2. Len(SubSeq(s, 1, m)) = m
    BY <2>1
  <2>3. \A k \in 1 .. m : k \in DOMAIN s /\ SubSeq(s, 1, m)[k] = s[k]
    BY <2>1
  <2>4. DOMAIN SubSeq(s, 1, m) = 1 .. m
    BY <2>1
  <2> QED
    BY Zenon, <2>2, <2>3, <2>4 DEF m
<1> QED
  BY <1>1, <1>2, <1>3, <1>4, <1>5

(* A word that is read as it is behind the last of a group goes into it.   *)
LEMMA WholeGrows ==
  ASSUME NEW group \in Seq(WordPieces), group # <<>>, Whole(group),
         NEW word \in WordPieces, Apart(Last(group), word)
  PROVE  Append(group, word) \in Seq(WordPieces) /\ Whole(Append(group, word))
<1> DEFINE n == Len(group)
           new == Append(group, word)
<1>1. n \in Nat \ {0} /\ Last(group) = group[n]
  BY DEF Last
<1>2. /\ new \in Seq(WordPieces) /\ DOMAIN new = 1 .. (n + 1) /\ new[n + 1] = word
      /\ \A i \in 1 .. n : new[i] = group[i]
      /\ DOMAIN group = 1 .. n
  OBVIOUS
<1> HIDE DEF new, n
<1>3. ASSUME NEW i \in DOMAIN new, i > 1
      PROVE  Apart(new[i - 1], new[i])
  <2>1. CASE i = n + 1
    BY <1>1, <1>2, <2>1
  <2>2. CASE i # n + 1
    <3>1. i \in DOMAIN group /\ i \in 1 .. n /\ i - 1 \in 1 .. n
      BY <1>1, <1>2, <1>3, <2>2
    <3> QED
      BY <1>2, <1>3, <3>1 DEF Whole
  <2> QED
    BY <2>1, <2>2
<1> QED
  BY Zenon, <1>2, <1>3 DEF Whole, new

LEMMA TestGrows ==
  ASSUME NEW groups, NEW n, NEW c, TestGroups(groups, n, c), NEW word \in WordPieces
  PROVE  LET new == TakeTest(groups, word)
         IN /\ new \in Seq(Seq(WordPieces))
            /\ \A k \in DOMAIN new : new[k] # <<>> /\ Whole(new[k])
            /\ FlattenSeq(new) = Append(FlattenSeq(groups), word)
<1> DEFINE new == TakeTest(groups, word)
           T == Seq(WordPieces)
<1>1. /\ groups \in Seq(T)
      /\ \A k \in DOMAIN groups : groups[k] # <<>> /\ Whole(groups[k])
      /\ FlattenSeq(groups) \in Seq(WordPieces)
  BY Zenon, FlattenType DEF TestGroups
<1> DEFINE alone == groups = <<>> \/ (Last(Last(groups)).kind # "open" /\ word.kind # "close")
<1>2. CASE alone
  <2> DEFINE group == <<word>>
  <2>1. new = Append(groups, group)
    BY <1>2 DEF TakeTest
  <2>2. group \in T /\ group # <<>> /\ Whole(group)
    BY DEF Whole
  <2>3. FlattenSeq(groups) \o group = Append(FlattenSeq(groups), word)
    <3> DEFINE flat == FlattenSeq(groups)
    <3>1. flat \in Seq(WordPieces)
      BY <1>1
    <3> HIDE DEF flat
    <3>2. flat \o <<word>> = Append(flat, word)
      BY <3>1
    <3> QED
      BY <3>2 DEF flat
  <2> HIDE DEF group, new, T
  <2>4. /\ Append(groups, group) \in Seq(T)
        /\ \A k \in DOMAIN Append(groups, group) :
             \/ k \in DOMAIN groups /\ Append(groups, group)[k] = groups[k]
             \/ Append(groups, group)[k] = group
    BY <1>1, <2>2
  <2>5. FlattenSeq(Append(groups, group)) = FlattenSeq(groups) \o group
    BY <1>1, <2>2, FlattenAppend DEF T
  <2>6. \A k \in DOMAIN new : new[k] # <<>> /\ Whole(new[k])
    BY <1>1, <2>1, <2>2, <2>4
  <2>7. new \in Seq(Seq(WordPieces))
    BY <2>1, <2>4 DEF T
  <2> QED
    BY Zenon, <2>1, <2>3, <2>5, <2>6, <2>7 DEF new
<1>3. CASE ~alone
  <2> DEFINE front == Front(groups)
             group == Last(groups)
             longer == Append(group, word)
  <2>1. groups # <<>> /\ new = Append(front, longer)
    BY <1>3 DEF TakeTest
  <2>2. /\ front \in Seq(T) /\ group \in T /\ groups = Append(front, group)
        /\ group # <<>> /\ Whole(group)
        /\ \A k \in DOMAIN front : front[k] # <<>> /\ Whole(front[k])
    <3> HIDE DEF T
    <3> QED
      BY Zenon, <1>1, <2>1, FrontAndLast
  <2>3. Apart(Last(group), word)
    BY <1>3 DEF Apart
  <2> HIDE DEF front, group, new
  <2>4. longer \in T /\ Whole(longer) /\ longer # <<>>
    <3>1. longer \in T /\ Whole(longer)
      BY <2>2, <2>3, WholeGrows
    <3>2. longer # <<>>
      BY <2>2
    <3> QED
      BY <3>1, <3>2
  <2>5. FlattenSeq(groups) = FlattenSeq(front) \o group /\ FlattenSeq(front) \in Seq(WordPieces)
    <3> HIDE DEF longer
    <3>1. FlattenSeq(Append(front, group)) = FlattenSeq(front) \o group
      BY <2>2, FlattenAppend
    <3>2. FlattenSeq(front) \in Seq(WordPieces)
      BY <2>2, FlattenAppend
    <3> QED
      BY <2>2, <3>1, <3>2
  <2>6. FlattenSeq(front) \o longer = Append(FlattenSeq(groups), word)
    <3> DEFINE flat == FlattenSeq(front)
    <3>1. flat \in Seq(WordPieces) /\ group \in Seq(WordPieces)
      BY <2>2, <2>5
    <3> HIDE DEF flat, T
    <3>2. flat \o Append(group, word) = Append(flat \o group, word)
      BY <3>1
    <3> QED
      BY <2>5, <3>2 DEF flat
  <2> HIDE DEF longer
  <2>7. FlattenSeq(Append(front, longer)) = FlattenSeq(front) \o longer
    BY <2>2, <2>4, FlattenAppend
  <2> HIDE DEF T
  <2>8. /\ Append(front, longer) \in Seq(T)
        /\ \A k \in DOMAIN Append(front, longer) :
             \/ k \in DOMAIN front /\ Append(front, longer)[k] = front[k]
             \/ Append(front, longer)[k] = longer
    BY <2>2, <2>4
  <2>9. \A k \in DOMAIN new : new[k] # <<>> /\ Whole(new[k])
    BY <2>1, <2>2, <2>4, <2>8
  <2>10. new \in Seq(Seq(WordPieces))
    BY <2>1, <2>8 DEF T
  <2> QED
    BY Zenon, <2>1, <2>6, <2>7, <2>9, <2>10 DEF new
<1> QED
  BY <1>2, <1>3

LEMMA GroupsAre ==
  ASSUME NEW test \in Seq(WordPieces)
  PROVE  /\ Groups(test) \in Seq(Seq(WordPieces))
         /\ \A k \in DOMAIN Groups(test) : Whole(Groups(test)[k])
         /\ FlattenSeq(Groups(test)) = test
<1>1. Groups(test) = TestFold!Fold(<<>>, test)
  BY Zenon DEF Groups, TestFold!Fold, TestFold!Greatest,
     FoldLeft, MapThenFoldSet, Max
<1>2. SubSeq(test, 1, 0) = <<>> /\ SubSeq(test, 1, Len(test)) = test
  BY NoneAndAll
<1>3. TestGroups(<<>>, 0, test)
  <2>1. <<>> \in Seq(Seq(WordPieces)) /\ \A i \in DOMAIN <<>> : <<>>[i] = <<>>
    OBVIOUS
  <2>2. FlattenSeq(<<>>) = <<>>
    BY Zenon, <2>1, FlattenNothing
  <2>3. \A k \in DOMAIN <<>> : <<>>[k] # <<>> /\ Whole(<<>>[k])
    OBVIOUS
  <2> QED
    BY Zenon, <1>2, <2>1, <2>2, <2>3 DEF TestGroups
<1>4. ASSUME NEW k \in DOMAIN test, NEW groups, TestGroups(groups, k - 1, test)
      PROVE  TestGroups(TakeTest(groups, test[k]), k, test)
  <2> DEFINE before == SubSeq(test, 1, k - 1)
             word == test[k]
             new == TakeTest(groups, word)
  <2>1. word \in WordPieces /\ SubSeq(test, 1, k) = Append(before, word)
    BY OneMore
  <2>2. FlattenSeq(groups) = before
    BY <1>4 DEF TestGroups
  <2> HIDE DEF word, before
  <2>3. /\ new \in Seq(Seq(WordPieces))
        /\ \A i \in DOMAIN new : new[i] # <<>> /\ Whole(new[i])
        /\ FlattenSeq(new) = Append(FlattenSeq(groups), word)
    BY Zenon, <1>4, <2>1, TestGrows
  <2> HIDE DEF new
  <2>4. FlattenSeq(new) = SubSeq(test, 1, k)
    BY Zenon, <2>1, <2>2, <2>3
  <2>5. TestGroups(new, k, test)
    BY <2>3, <2>4 DEF TestGroups
  <2> QED
    BY <2>5 DEF new, word
<1>5. TestGroups(TestFold!Fold(<<>>, test), Len(test), test)
  BY <1>3, <1>4, TestFold!FoldHolds
<1> QED
  BY <1>1, <1>2, <1>5 DEF TestGroups

-----------------------------------------------------------------------------
(* What parser_output_print_if() prints is read back as its words.         *)
LEMMA IfPrints ==
  ASSUME NEW node, node.indent \in Nat, node.words \in Seq(WordPieces)
  PROVE  PrintsOrRaw(IfLines(node), node.words)
<1> DEFINE groups == Groups(node.words)
           start == Piece("if", node.indent + 4)
           body == PrintGroups(groups, start.len).line
<1>1. node.indent + 4 \in Nat
  OBVIOUS
<1>2. /\ groups \in Seq(Seq(WordPieces)) /\ \A k \in DOMAIN groups : Whole(groups[k])
      /\ FlattenSeq(groups) = node.words
  BY GroupsAre
<1> HIDE DEF groups
<1>3. ReadsAs(body, node.words)
  BY Zenon, <1>2, GroupsReadAs
<1> HIDE DEF body
<1>4. Prints(((<<start>> \o body) \o If(node.comment, <<Space, Comment>>)) \o <<Newline>>,
             node.words)
  BY <1>1, <1>3, PrintedLine
<1>5. IfLines(node) = ((<<start>> \o body) \o If(node.comment, <<Space, Comment>>)) \o <<Newline>>
  BY Zenon DEF IfLines, body, groups
<1> QED
  BY <1>4, <1>5, PrintsThem

(* What parser_output_print_for() prints is read back as its words.        *)
LEMMA ForPrints ==
  ASSUME NEW node, node.indent \in Nat, node.words \in Seq(WordPieces),
         node.bindings \in Seq(WordPieces)
  PROVE  PrintsOrRaw(ForLines(node), node.bindings \o node.words)
<1> DEFINE start == Piece("for", node.indent + 5)
           in == Piece("in", 4)
           first == PrintGroups(SingleRows(node.bindings), start.len)
           second == PrintGroups(SingleRows(node.words), first.linelen + in.len)
           b == first.line
           w == second.line
           body == (b \o <<in>>) \o w
           ending == If(node.comment, <<Space, Comment>>)
<1>1. node.indent + 5 \in Nat /\ 4 \in Nat
  OBVIOUS
<1>2. ReadsAs(b, node.bindings)
  BY Zenon, SinglesAre, GroupsReadAs
<1> HIDE DEF first
<1>3. \A acc, done, words :
        Reading(acc, done, words) /\ ~IsWord(acc.last) =>
          /\ w \in Seq(Pieces)
          /\ Reading(ReadFold!Fold(acc, w), done, words \o node.words)
  BY Zenon, SinglesAre, GroupsRead
<1>4. Quiet(<<in>>) /\ <<in>> # <<>>
  BY <1>1, PieceQuiet
<1> HIDE DEF in, second
<1>5. b \in Seq(Pieces) /\ <<in>> \in Seq(Pieces) /\ w \in Seq(Pieces) /\ <<start>> \in Seq(Pieces)
  <2>1. <<start>> \in Seq(Pieces)
    BY Zenon, <1>1, PieceQuiet DEF Quiet
  <2> HIDE DEF start, w, b
  <2> QED
    BY <1>2, <1>3, <1>4, <2>1, SomeReading DEF ReadsAs, Quiet
<1> HIDE DEF w, b
<1>6. b \o <<in>> \in Seq(Pieces) /\ body \in Seq(Pieces)
  BY <1>5, PiecesType
<1>7. ReadsAs(body, node.bindings \o node.words)
  <2>1. ASSUME NEW acc, NEW done, Reading(acc, done, <<>>), ~IsWord(acc.last)
        PROVE  Reading(ReadFold!Fold(acc, body), done, node.bindings \o node.words)
    <3> DEFINE a1 == ReadFold!Fold(acc, b)
               a2 == ReadFold!Fold(a1, <<in>>)
               a3 == ReadFold!Fold(a2, w)
    <3>1. Reading(a1, done, node.bindings)
      BY <1>2, <2>1 DEF ReadsAs
    <3> HIDE DEF a1
    <3>2. Reading(a2, done, node.bindings) /\ ~IsWord(a2.last)
      BY Zenon, <1>4, <3>1, QuietRead
    <3> HIDE DEF a2
    <3>3. Reading(a3, done, node.bindings \o node.words)
      BY <1>3, <3>2
    <3> HIDE DEF a3, body, in
    <3>4. ReadFold!Fold(acc, b \o <<in>>) = a2
      BY Zenon, <1>5, ReadFold!FoldConcat DEF a1, a2
    <3>5. ReadFold!Fold(acc, (b \o <<in>>) \o w) = a3
      BY Zenon, <1>5, <1>6, <3>4, ReadFold!FoldConcat DEF a3
    <3> QED
      BY Zenon, <3>3, <3>5 DEF body
  <2> HIDE DEF body
  <2> QED
    BY <1>6, <2>1 DEF ReadsAs
<1>8. Prints(((<<start>> \o body) \o ending) \o <<Newline>>, node.bindings \o node.words)
  <2> HIDE DEF body
  <2> QED
    BY Zenon, <1>1, <1>7, PrintedLine
<1>9. ForLines(node) = ((((<<start>> \o b) \o <<in>>) \o w) \o ending) \o <<Newline>>
  BY Zenon DEF ForLines, b, w, first, second, in
<1>10. ((<<start>> \o b) \o <<in>>) \o w = <<start>> \o body
  <2>1. (<<start>> \o b) \o <<in>> = <<start>> \o (b \o <<in>>)
    BY Zenon, <1>5, PiecesInOrder
  <2>2. (<<start>> \o (b \o <<in>>)) \o w = <<start>> \o ((b \o <<in>>) \o w)
    <3>1. <<start>> \in Seq(Pieces) /\ w \in Seq(Pieces)
      BY <1>5
    <3>2. b \o <<in>> \in Seq(Pieces)
      BY <1>6
    <3> HIDE DEF start, in
    <3> QED
      BY Zenon, <3>1, <3>2, PiecesInOrder
  <2> QED
    BY Zenon, <2>1, <2>2
<1> HIDE DEF body, start, ending
<1>11. Prints(ForLines(node), node.bindings \o node.words)
  BY Zenon, <1>8, <1>9, <1>10
<1> QED
  BY <1>11, PrintsThem

-----------------------------------------------------------------------------
(* What is put behind a chunk.                                             *)
Gaps == {<<>>, <<Space>>, <<Backslash, Newline>>, <<Space>> \o <<Backslash, Newline>>}

LEMMA GapRead ==
  ASSUME NEW acc, NEW done, NEW words, Reading(acc, done, words), NEW gap \in Gaps
  PROVE  /\ gap \in Seq(Pieces)
         /\ Reading(ReadFold!Fold(acc, gap), done, words)
         /\ gap # <<>> => ~IsWord(ReadFold!Fold(acc, gap).last)
<1> DEFINE break == <<Backslash, Newline>>
           b1 == ReadFold!Fold(acc, <<Space>>)
<1>1. /\ <<Space>> \in Seq(Pieces) /\ break \in Seq(Pieces) /\ ~IsWord(Newline)
      /\ ~IsWord(Space) /\ QuietPiece(Space)
  BY ReadableAre DEF QuietPiece
<1>2. CASE gap = <<>>
  <2>1. ReadFold!Fold(acc, <<>>) = acc /\ <<>> \in Seq(Pieces)
    BY ReadFold!FoldNone
  <2> QED
    BY <1>2, <2>1
<1>3. /\ Reading(b1, done, words) /\ ~IsWord(b1.last)
  <2>1. b1 = ReadPiece(acc, Space)
    BY OneRead
  <2> HIDE DEF b1
  <2>2. Reading(ReadPiece(acc, Space), done, words) /\ ReadPiece(acc, Space).last = Space
    BY <1>1, QuietReads
  <2> QED
    BY <1>1, <2>1, <2>2
<1> HIDE DEF b1
<1>4. CASE gap = <<Space>>
  BY <1>1, <1>3, <1>4 DEF b1
<1>5. \A now : Reading(now, done, words) =>
        Reading(ReadFold!Fold(now, break), done, words) /\ ReadFold!Fold(now, break).last = Newline
  BY BreakReads
<1>6. CASE gap = <<Backslash, Newline>>
  <2> HIDE DEF break
  <2>1. gap = break
    BY <1>6 DEF break
  <2> QED
    BY <1>1, <1>5, <2>1
<1>7. CASE gap = <<Space>> \o <<Backslash, Newline>>
  <2> HIDE DEF break
  <2>1. gap = <<Space>> \o break
    BY <1>7 DEF break
  <2>2. <<Space>> \o break \in Seq(Pieces)
    BY <1>1, PiecesType
  <2>3. ReadFold!Fold(acc, <<Space>> \o break) = ReadFold!Fold(b1, break)
    BY Zenon, <1>1, ReadFold!FoldConcat DEF b1
  <2> QED
    BY <1>1, <1>3, <1>5, <2>1, <2>2, <2>3
<1> QED
  BY <1>2, <1>4, <1>6, <1>7 DEF Gaps

(* A chunk of a target command.                                            *)
LEMMA ChunkRead ==
  ASSUME NEW acc, NEW done, NEW words, Reading(acc, done, words),
         NEW pre, Quiet(pre), NEW chunk \in Seq(WordPieces),
         chunk # <<>> => ~IsWord(acc.last), NEW gap \in Gaps
  PROVE  LET pieces == (pre \o Joined(chunk)) \o gap
         IN /\ pieces \in Seq(Pieces)
            /\ Reading(ReadFold!Fold(acc, pieces), done, words \o chunk)
            /\ gap # <<>> => ~IsWord(ReadFold!Fold(acc, pieces).last)
<1> DEFINE joined == Joined(chunk)
           a1 == ReadFold!Fold(acc, pre)
           a2 == ReadFold!Fold(a1, joined)
           a3 == ReadFold!Fold(a2, gap)
           front == pre \o joined
<1>1. pre \in Seq(Pieces) /\ words \in Seq(Readable)
  BY DEF Quiet, Reading, Readings
<1>2. Reading(a1, done, words) /\ (chunk # <<>> => ~IsWord(a1.last))
  BY QuietRead
<1> HIDE DEF a1
<1>3. Reading(a2, done, words \o chunk) /\ joined \in Seq(Pieces)
  <2>1. CASE chunk # <<>>
    BY <1>2, <2>1, JoinedRead
  <2>2. CASE chunk = <<>>
    <3>1. joined = <<>>
      <4>1. PICK now, so : Reading(now, so, <<>>) /\ ~IsWord(now.last)
        BY SomeReading
      <4> QED
        BY Zenon, <2>2, <4>1, JoinedRead
    <3> HIDE DEF joined
    <3>2. a2 = a1
      BY <3>1, ReadFold!FoldNone
    <3>3. words \o <<>> = words
      BY <1>1
    <3>4. <<>> \in Seq(Pieces)
      OBVIOUS
    <3> HIDE DEF a2
    <3> QED
      BY Zenon, <1>2, <2>2, <3>1, <3>2, <3>3, <3>4
  <2> QED
    BY <2>1, <2>2
<1> HIDE DEF joined, a2
<1>4. /\ gap \in Seq(Pieces) /\ Reading(a3, done, words \o chunk)
      /\ gap # <<>> => ~IsWord(a3.last)
  BY <1>3, GapRead
<1> HIDE DEF a3
<1>5. front \in Seq(Pieces) /\ ReadFold!Fold(acc, front) = a2
  BY <1>1, <1>3, PiecesType, ReadFold!FoldConcat DEF a1, a2
<1> HIDE DEF front
<1>6. front \o gap \in Seq(Pieces) /\ ReadFold!Fold(acc, front \o gap) = a3
  BY <1>4, <1>5, PiecesType, ReadFold!FoldConcat DEF a3
<1> QED
  BY Zenon, <1>4, <1>6 DEF front, joined

-----------------------------------------------------------------------------
(* The words of a command are in its chunks and in what is still to become *)
(* one; there are no more chunks than words.                               *)
ChunksSoFar(acc, n, c) ==
  /\ acc = [command |-> acc.command, merge |-> acc.merge, wrap_after |-> acc.wrap_after,
            chunks |-> acc.chunks]
  /\ acc.chunks \in Seq(Seq(WordPieces))
  /\ acc.merge \in Seq(WordPieces)
  /\ FlattenSeq(acc.chunks) \o acc.merge = SubSeq(c, 1, n)
  /\ acc.wrap_after <=> acc.merge # <<>>
  /\ Len(acc.chunks) + Len(acc.merge) <= n

ChunkFold == INSTANCE FoldInduction WITH op <- TakeToken, Holds <- ChunksSoFar

LEMMA WordBehind ==
  ASSUME NEW s \in Seq(WordPieces), NEW t \in Seq(WordPieces), NEW x \in WordPieces
  PROVE  s \o Append(t, x) = Append(s \o t, x)
OBVIOUS

(* One more chunk, and an empty one behind it.                             *)
LEMMA ChunkBehind ==
  ASSUME NEW chunks \in Seq(Seq(WordPieces)), NEW chunk \in Seq(WordPieces), NEW condition
  PROVE  LET new == (chunks \o <<chunk>>) \o If(condition, <<<<>>>>)
         IN /\ new \in Seq(Seq(WordPieces))
            /\ FlattenSeq(new) = FlattenSeq(chunks) \o chunk
            /\ condition => Len(new) = Len(chunks) + 2 /\ new[Len(new)] = <<>>
            /\ ~condition => Len(new) = Len(chunks) + 1
<1> DEFINE T == Seq(WordPieces)
           empty == <<>>
           one == Append(chunks, chunk)
           two == Append(one, empty)
           new == (chunks \o <<chunk>>) \o If(condition, <<<<>>>>)
<1>1. chunks \in Seq(T) /\ chunk \in T /\ empty \in T
  OBVIOUS
<1> HIDE DEF empty
<1>2. /\ one \in Seq(T) /\ chunks \o <<chunk>> = one /\ Len(one) = Len(chunks) + 1
      /\ Len(chunks) \in Nat
  <2> HIDE DEF T
  <2> QED
    BY <1>1
<1>3. FlattenSeq(one) = FlattenSeq(chunks) \o chunk /\ FlattenSeq(one) \in Seq(WordPieces)
  <2>1. FlattenSeq(one) = FlattenSeq(chunks) \o chunk
    BY <1>1, FlattenAppend
  <2>2. FlattenSeq(one) \in Seq(WordPieces)
    <3> HIDE DEF one
    <3> QED
      BY <1>2, FlattenType
  <2> QED
    BY <2>1, <2>2
<1> HIDE DEF one
<1>4. CASE condition
  <2>1. new = one \o <<empty>>
    BY Zenon, <1>2, <1>4 DEF If, empty
  <2>2. /\ two \in Seq(T) /\ one \o <<empty>> = two /\ Len(two) = Len(one) + 1
        /\ two[Len(two)] = empty
    <3> HIDE DEF T
    <3> QED
      BY <1>1, <1>2
  <2>3. FlattenSeq(two) = FlattenSeq(one) \o empty
    BY Zenon, <1>1, <1>2, FlattenAppend
  <2>4. FlattenSeq(one) \o empty = FlattenSeq(one)
    <3> DEFINE flat == FlattenSeq(one)
    <3>1. flat \in Seq(WordPieces)
      BY <1>3
    <3> HIDE DEF flat
    <3>2. flat \o <<>> = flat
      BY <3>1
    <3> QED
      BY <3>2 DEF flat, empty
  <2>5. Len(two) = Len(chunks) + 2
    <3> HIDE DEF two
    <3> QED
      BY <1>2, <2>2
  <2> HIDE DEF two
  <2>6. /\ new \in Seq(T) /\ FlattenSeq(new) = FlattenSeq(chunks) \o chunk
        /\ Len(new) = Len(chunks) + 2 /\ new[Len(new)] = <<>>
    <3> HIDE DEF new
    <3> QED
      BY Zenon, <1>3, <2>1, <2>2, <2>3, <2>4, <2>5 DEF empty
  <2> QED
    BY Zenon, <1>4, <2>6
<1>5. CASE ~condition
  <2>1. new = one \o <<>>
    BY Zenon, <1>2, <1>5 DEF If
  <2>2. one \o <<>> = one
    <3> HIDE DEF T
    <3> QED
      BY <1>2
  <2>3. new = one
    BY Zenon, <2>1, <2>2
  <2> HIDE DEF new
  <2>4. new \in Seq(T) /\ FlattenSeq(new) = FlattenSeq(chunks) \o chunk
        /\ Len(new) = Len(chunks) + 1
    BY <1>2, <1>3, <2>3
  <2> QED
    BY Zenon, <1>5, <2>4 DEF new
<1> QED
  BY Zenon, <1>4, <1>5

LEMMA TokenTaken ==
  ASSUME NEW acc, NEW n \in Nat, NEW c \in Seq(WordPieces), ChunksSoFar(acc, n, c),
         n + 1 \in DOMAIN c
  PROVE  ChunksSoFar(TakeToken(acc, c[n + 1]), n + 1, c)
<1> DEFINE word == c[n + 1]
           new == TakeToken(acc, word)
           command == CommandAt(acc.command, <<word>>)
           merged == Append(acc.merge, word)
           flat == FlattenSeq(acc.chunks)
<1>1. /\ acc = [command |-> acc.command, merge |-> acc.merge, wrap_after |-> acc.wrap_after,
                chunks |-> acc.chunks]
      /\ acc.chunks \in Seq(Seq(WordPieces)) /\ acc.merge \in Seq(WordPieces)
      /\ flat \o acc.merge = SubSeq(c, 1, n)
      /\ acc.wrap_after <=> acc.merge # <<>>
      /\ Len(acc.chunks) + Len(acc.merge) <= n
  BY DEF ChunksSoFar
<1>2. word \in WordPieces /\ SubSeq(c, 1, n + 1) = Append(SubSeq(c, 1, n), word)
  <2>1. (n + 1) - 1 = n
    OBVIOUS
  <2>2. /\ c[n + 1] \in WordPieces
        /\ SubSeq(c, 1, n + 1) = Append(SubSeq(c, 1, (n + 1) - 1), c[n + 1])
    BY OneMore
  <2> QED
    BY <2>1, <2>2
<1> HIDE DEF word
<1>3. flat \in Seq(WordPieces)
  BY <1>1, FlattenType
<1> HIDE DEF flat
<1>4. /\ merged \in Seq(WordPieces) /\ Len(merged) = Len(acc.merge) + 1 /\ merged # <<>>
      /\ Len(acc.merge) \in Nat /\ Len(acc.chunks) \in Nat
      /\ acc.merge # <<>> => Len(acc.merge) >= 1
  <2> DEFINE merge == acc.merge
  <2>1. merge \in Seq(WordPieces)
    BY <1>1
  <2> HIDE DEF merge
  <2>2. /\ Append(merge, word) \in Seq(WordPieces) /\ Len(Append(merge, word)) = Len(merge) + 1
        /\ Append(merge, word) # <<>> /\ Len(merge) \in Nat
        /\ merge # <<>> => Len(merge) >= 1
    BY <1>2, <2>1
  <2>3. Len(acc.chunks) \in Nat
    BY <1>1
  <2> QED
    BY <2>2, <2>3 DEF merge
<1>5. flat \o merged = SubSeq(c, 1, n + 1)
  <2>1. flat \o Append(acc.merge, word) = Append(flat \o acc.merge, word)
    BY Zenon, <1>1, <1>2, <1>3, WordBehind
  <2> QED
    BY Zenon, <1>1, <1>2, <2>1
<1> HIDE DEF command, merged
<1> DEFINE keeps == command[1].kind = "sed" /\ word.kind = "-e"
<1>6. CASE keeps
  <2>1. new = [acc EXCEPT !.command = command, !.merge = merged, !.wrap_after = TRUE]
    BY Zenon, <1>6 DEF TakeToken, command, merged
  <2> HIDE DEF new
  <2>2. new = [command |-> command, merge |-> merged, wrap_after |-> TRUE, chunks |-> acc.chunks]
    BY Zenon, <1>1, <2>1
  <2>3. /\ new.command = command /\ new.merge = merged /\ new.wrap_after = TRUE
        /\ new.chunks = acc.chunks
    BY <2>2
  <2>4. Len(new.chunks) + Len(new.merge) <= n + 1
    BY <1>1, <1>4, <2>3
  <2>5. FlattenSeq(new.chunks) \o new.merge = SubSeq(c, 1, n + 1)
    BY Zenon, <1>5, <2>3 DEF flat
  <2>6. new = [command |-> new.command, merge |-> new.merge, wrap_after |-> new.wrap_after,
               chunks |-> new.chunks]
    BY Zenon, <2>2, <2>3
  <2>7. new.chunks \in Seq(Seq(WordPieces)) /\ new.merge \in Seq(WordPieces)
    BY Zenon, <1>1, <1>4, <2>3
  <2>8. new.wrap_after <=> new.merge # <<>>
    BY <1>4, <2>3
  <2>9. ChunksSoFar(new, n + 1, c)
    BY Zenon, <2>4, <2>5, <2>6, <2>7, <2>8 DEF ChunksSoFar
  <2> QED
    BY <2>9 DEF new, word
<1>7. CASE ~keeps
  <2> DEFINE chunks == (acc.chunks \o <<merged>>) \o If(acc.wrap_after, <<<<>>>>)
  <2>1. new = [command |-> command, merge |-> <<>>, wrap_after |-> FALSE, chunks |-> chunks]
    BY Zenon, <1>7 DEF TakeToken, command, merged
  <2>2. /\ chunks \in Seq(Seq(WordPieces))
        /\ FlattenSeq(chunks) = flat \o merged
        /\ acc.wrap_after => Len(chunks) = Len(acc.chunks) + 2
        /\ ~acc.wrap_after => Len(chunks) = Len(acc.chunks) + 1
    <3> DEFINE so == acc.chunks
               wrap_after == acc.wrap_after
    <3>1. so \in Seq(Seq(WordPieces)) /\ merged \in Seq(WordPieces)
      BY <1>1, <1>4
    <3> HIDE DEF so, wrap_after
    <3>2. LET longer == (so \o <<merged>>) \o If(wrap_after, <<<<>>>>)
          IN /\ longer \in Seq(Seq(WordPieces))
             /\ FlattenSeq(longer) = FlattenSeq(so) \o merged
             /\ wrap_after => Len(longer) = Len(so) + 2 /\ longer[Len(longer)] = <<>>
             /\ ~wrap_after => Len(longer) = Len(so) + 1
      BY Zenon, <3>1, ChunkBehind
    <3> QED
      BY Zenon, <3>2 DEF so, wrap_after, flat
  <2> HIDE DEF new, chunks
  <2>3. /\ new.command = command /\ new.merge = <<>> /\ new.wrap_after = FALSE
        /\ new.chunks = chunks
    BY <2>1
  <2>4. Len(new.chunks) + Len(new.merge) <= n + 1
    <3>1. Len(<<>>) = 0
      OBVIOUS
    <3>2. Len(chunks) <= n + 1
      BY <1>1, <1>4, <2>2
    <3>3. Len(chunks) \in Nat
      BY <2>2
    <3> QED
      BY <2>3, <3>1, <3>2, <3>3
  <2>5. FlattenSeq(new.chunks) \o new.merge = SubSeq(c, 1, n + 1)
    <3>1. FlattenSeq(chunks) = SubSeq(c, 1, n + 1)
      BY Zenon, <1>5, <2>2
    <3>2. FlattenSeq(chunks) \in Seq(WordPieces)
      BY Zenon, <2>2, FlattenType
    <3> DEFINE f == FlattenSeq(chunks)
    <3>3. f \in Seq(WordPieces)
      BY <3>2
    <3> HIDE DEF f
    <3>4. f \o <<>> = f
      BY <3>3
    <3> QED
      BY Zenon, <2>3, <3>1, <3>4 DEF f
  <2>6. new = [command |-> new.command, merge |-> new.merge, wrap_after |-> new.wrap_after,
               chunks |-> new.chunks]
    BY Zenon, <2>1, <2>3
  <2>7. new.chunks \in Seq(Seq(WordPieces)) /\ new.merge \in Seq(WordPieces)
    <3>1. <<>> \in Seq(WordPieces)
      OBVIOUS
    <3> QED
      BY Zenon, <2>2, <2>3, <3>1
  <2>8. new.wrap_after <=> new.merge # <<>>
    BY <2>3
  <2>9. ChunksSoFar(new, n + 1, c)
    BY Zenon, <2>4, <2>5, <2>6, <2>7, <2>8 DEF ChunksSoFar
  <2> QED
    BY <2>9 DEF new, word
<1> QED
  BY <1>6, <1>7

(* The chunks have all the words, and a chunk behind as many as there are  *)
(* words has none.                                                         *)
LEMMA ChunksAre ==
  ASSUME NEW words \in Seq(WordPieces)
  PROVE  /\ Chunks(words).chunks \in Seq(Seq(WordPieces))
         /\ FlattenSeq(Chunks(words).chunks) = words
         /\ \A k \in DOMAIN Chunks(words).chunks :
              k > Len(words) => Chunks(words).chunks[k] = <<>>
<1> DEFINE base == [command |-> NoCommand, merge |-> <<>>, wrap_after |-> FALSE,
                    chunks |-> <<>>]
           end == ChunkFold!Fold(base, words)
           chunks == end.chunks \o If(end.merge # <<>>, <<end.merge, <<>>>>)
           n == Len(words)
<1>1. Chunks(words) = [command |-> end.command, chunks |-> chunks]
  BY Zenon DEF Chunks, ChunkFold!Fold, ChunkFold!Greatest,
     FoldLeft, MapThenFoldSet, Max
<1>2. SubSeq(words, 1, 0) = <<>> /\ SubSeq(words, 1, n) = words /\ n \in Nat
  BY NoneAndAll
<1>3. ChunksSoFar(base, 0, words)
  <2>1. /\ base.command = NoCommand /\ base.merge = <<>> /\ base.wrap_after = FALSE
        /\ base.chunks = <<>>
    OBVIOUS
  <2>2. base = [command |-> base.command, merge |-> base.merge, wrap_after |-> base.wrap_after,
                chunks |-> base.chunks]
    BY Zenon, <2>1
  <2> HIDE DEF base
  <2>3. FlattenSeq(<<>>) = <<>>
    <3>1. <<>> \in Seq(Pieces) /\ \A i \in DOMAIN <<>> : <<>>[i] = <<>>
      OBVIOUS
    <3> QED
      BY Zenon, <3>1, FlattenNothing
  <2>4. /\ <<>> \o <<>> = <<>> /\ Len(<<>>) + Len(<<>>) <= 0 /\ <<>> \in Seq(Seq(WordPieces))
        /\ <<>> \in Seq(WordPieces)
    OBVIOUS
  <2>5. FlattenSeq(base.chunks) \o base.merge = SubSeq(words, 1, 0)
    BY Zenon, <1>2, <2>1, <2>3, <2>4
  <2>6. base.wrap_after <=> base.merge # <<>>
    BY <2>1
  <2>7. Len(base.chunks) + Len(base.merge) <= 0
    BY Zenon, <2>1, <2>4
  <2>8. base.chunks \in Seq(Seq(WordPieces)) /\ base.merge \in Seq(WordPieces)
    BY Zenon, <2>1, <2>4
  <2> QED
    BY Zenon, <2>2, <2>5, <2>6, <2>7, <2>8 DEF ChunksSoFar
<1> HIDE DEF base
<1>4. ASSUME NEW k \in DOMAIN words, NEW acc, ChunksSoFar(acc, k - 1, words)
      PROVE  ChunksSoFar(TakeToken(acc, words[k]), k, words)
  <2> DEFINE m == k - 1
  <2>1. m \in Nat /\ m + 1 = k
    OBVIOUS
  <2> HIDE DEF m
  <2>2. ChunksSoFar(acc, m, words) /\ m + 1 \in DOMAIN words
    BY <1>4, <2>1 DEF m
  <2>3. ChunksSoFar(TakeToken(acc, words[m + 1]), m + 1, words)
    BY <2>1, <2>2, TokenTaken
  <2> QED
    BY <2>1, <2>3
<1>5. ChunksSoFar(end, n, words)
  BY <1>3, <1>4, ChunkFold!FoldHolds
<1> HIDE DEF end
<1>6. /\ end.chunks \in Seq(Seq(WordPieces)) /\ end.merge \in Seq(WordPieces)
      /\ FlattenSeq(end.chunks) \o end.merge = words
      /\ Len(end.chunks) + Len(end.merge) <= n
  BY Zenon, <1>2, <1>5 DEF ChunksSoFar
<1>7. /\ chunks \in Seq(Seq(WordPieces)) /\ FlattenSeq(chunks) = words
      /\ \A k \in DOMAIN chunks : k > n => chunks[k] = <<>>
  <2> DEFINE T == Seq(WordPieces)
             so == end.chunks
             merge == end.merge
             flat == FlattenSeq(so)
  <2>1. so \in Seq(T) /\ merge \in T /\ Len(so) + Len(merge) <= n /\ flat \o merge = words
    BY Zenon, <1>6
  <2>2. /\ Len(so) \in Nat /\ DOMAIN so = 1 .. Len(so) /\ Len(merge) \in Nat
        /\ (merge # <<>> => Len(merge) >= 1)
    <3>1. Len(merge) \in Nat /\ (merge # <<>> => Len(merge) >= 1)
      <4> HIDE DEF merge
      <4> QED
        BY <2>1
    <3> HIDE DEF T, so
    <3> QED
      BY <2>1, <3>1
  <2>3. flat \in Seq(WordPieces)
    BY <1>6, FlattenType
  <2>4. CASE merge = <<>>
    <3>1. chunks = so \o <<>>
      BY <2>4 DEF If
    <3>2. so \o <<>> = so
      <4> HIDE DEF T, so
      <4> QED
        BY <2>1
    <3>3. chunks = so
      BY Zenon, <3>1, <3>2
    <3>4. \A k \in DOMAIN so : ~(k > n)
      <4> HIDE DEF so, merge
      <4> QED
        BY <1>2, <2>1, <2>2
    <3>5. flat \o <<>> = flat
      <4> HIDE DEF flat
      <4> QED
        BY <2>3
    <3>6. flat = words
      BY Zenon, <2>1, <2>4, <3>5
    <3>7. so \in Seq(Seq(WordPieces))
      BY <1>6
    <3> HIDE DEF chunks, so
    <3> QED
      BY <3>3, <3>4, <3>6, <3>7 DEF flat
  <2>5. CASE merge # <<>>
    <3> DEFINE new == (so \o <<merge>>) \o If(TRUE, <<<<>>>>)
    <3>1. chunks = new
      <4>1. chunks = so \o <<merge, <<>>>>
        BY <2>5 DEF If
      <4> DEFINE empty == <<>>
      <4>2. <<merge>> \o <<empty>> = <<merge, empty>>
        BY TwoPieces
      <4>3. (so \o <<merge>>) \o <<empty>> = so \o (<<merge>> \o <<empty>>)
        <5>1. so \in Seq(T) /\ <<merge>> \in Seq(T) /\ <<empty>> \in Seq(T)
          <6>1. empty \in T
            OBVIOUS
          <6> HIDE DEF T, empty
          <6> QED
            BY <2>1, <6>1
        <5> HIDE DEF so, T, merge, empty
        <5> QED
          BY <5>1, InOrder
      <4> QED
        BY Zenon, <4>1, <4>2, <4>3 DEF If
    <3>2. /\ new \in Seq(Seq(WordPieces)) /\ FlattenSeq(new) = flat \o merge
          /\ Len(new) = Len(so) + 2 /\ new[Len(new)] = <<>>
      <4> HIDE DEF merge
      <4> QED
        BY Zenon, <2>1, <1>6, ChunkBehind
    <3> HIDE DEF new
    <3>3. DOMAIN new = 1 .. Len(new)
      BY <3>2
    <3>4. \A k \in DOMAIN new : k > n => k = Len(new)
      <4> HIDE DEF so, merge
      <4> QED
        BY <1>2, <2>1, <2>2, <2>5, <3>2, <3>3
    <3>5. FlattenSeq(new) = words
      BY Zenon, <2>1, <3>2
    <3> HIDE DEF chunks
    <3> QED
      BY <3>1, <3>2, <3>4, <3>5
  <2> QED
    BY Zenon, <2>4, <2>5
<1> HIDE DEF chunks
<1> QED
  BY <1>1, <1>7

-----------------------------------------------------------------------------
LEMMA EndIsGap ==
  ASSUME NEW node, node.words \in Seq(WordPieces), NEW chunk, NEW k \in Nat, NEW wraps
  PROVE  /\ EndOfChunk(node, chunk, k, wraps) \in Gaps
         /\ k < Len(node.words) => EndOfChunk(node, chunk, k, wraps) # <<>>
<1> DEFINE end == EndOfChunk(node, chunk, k, wraps)
           break == <<Backslash, Newline>>
           n == Len(node.words)
<1>1. n \in Nat
  OBVIOUS
<1>2. /\ <<>> \in Gaps /\ <<Space>> \in Gaps /\ break \in Gaps
      /\ <<Space>> \o break \in Gaps
  BY Zenon DEF Gaps
<1>3. <<>> \o break = break /\ break # <<>> /\ <<Space>> # <<>> /\ <<Space>> \o break # <<>>
  <2>1. Space \in Pieces /\ Backslash \in Pieces /\ Newline \in Pieces
    BY PiecesAre
  <2>2. break \in Seq(Pieces) /\ break # <<>> /\ <<Space>> \in Seq(Pieces) /\ <<Space>> # <<>>
    BY <2>1
  <2> HIDE DEF break
  <2>3. <<>> \o break = break
    BY <2>2
  <2>4. <<Space>> \o break # <<>>
    BY <2>2
  <2> QED
    BY <2>2, <2>3, <2>4
<1>4. CASE k >= n
  <2>0. ~(k < n)
    BY <1>1, <1>4
  <2>1. end = <<>>
    BY Zenon, <1>4, <2>0 DEF EndOfChunk
  <2> HIDE DEF end, n
  <2> QED
    BY <1>1, <1>2, <1>4, <2>1 DEF end, n
<1>5. CASE k < n /\ k \in wraps
  <2>0. ~(k >= n)
    BY <1>1, <1>5
  <2>1. end = If(chunk # <<>>, <<Space>>) \o break
    BY Zenon, <1>5, <2>0 DEF EndOfChunk
  <2>2. end = break \/ end = <<Space>> \o break
    <3> HIDE DEF end, break
    <3>1. If(chunk # <<>>, <<Space>>) = <<>> \/ If(chunk # <<>>, <<Space>>) = <<Space>>
      BY DEF If
    <3> QED
      BY Zenon, <1>3, <2>1, <3>1
  <2> HIDE DEF end, break
  <2>3. end \in Gaps /\ end # <<>>
    BY Zenon, <1>2, <1>3, <2>2
  <2> QED
    BY <2>3 DEF end
<1>6. CASE k < n /\ k \notin wraps
  <2>0. ~(k >= n)
    BY <1>1, <1>6
  <2>1. end = <<Space>>
    BY Zenon, <1>6, <2>0 DEF EndOfChunk
  <2> HIDE DEF end, break
  <2>3. end \in Gaps /\ end # <<>>
    BY <1>2, <1>3, <2>1
  <2> QED
    BY <2>3 DEF end
<1>7. k >= n \/ k < n
  <2> HIDE DEF n
  <2> QED
    BY <1>1
<1> QED
  BY <1>4, <1>5, <1>6, <1>7

(* The chunks of a command, whatever lines they are broken into.           *)
LEMMA ChunksRead ==
  ASSUME NEW node, node.words \in Seq(WordPieces), node.flags \in Nat,
         NEW chunks \in Seq(Seq(WordPieces)), FlattenSeq(chunks) = node.words,
         \A k \in DOMAIN chunks : k > Len(node.words) => chunks[k] = <<>>,
         NEW wraps, NEW printed, printed = [k \in DOMAIN chunks |->
           If(k - 1 \in wraps, Tabs(2))
             \o If(k = 1 /\ node.flags > 0, <<Piece("flags", node.flags)>>)
             \o Joined(chunks[k]) \o EndOfChunk(node, chunks[k], k, wraps)]
  PROVE  ReadsAs(FlattenSeq(printed), node.words)
<1> DEFINE n == Len(chunks)
           m == Len(node.words)
           pre(k) == If(k - 1 \in wraps, Tabs(2))
                       \o If(k = 1 /\ node.flags > 0, <<Piece("flags", node.flags)>>)
           gap(k) == EndOfChunk(node, chunks[k], k, wraps)
           stages(done) == [k \in 0 .. n |->
             {now \in Readings : /\ Reading(now, done, FlattenSeq(SubSeq(chunks, 1, k)))
                                 /\ k < m => ~IsWord(now.last)}]
<1>1. n \in Nat /\ DOMAIN chunks = 1 .. n /\ m \in Nat
  OBVIOUS
<1>2. ASSUME NEW k \in 1 .. n
      PROVE  /\ chunks[k] \in Seq(WordPieces) /\ Quiet(pre(k)) /\ gap(k) \in Gaps
             /\ k < m => gap(k) # <<>>
             /\ printed[k] = (pre(k) \o Joined(chunks[k])) \o gap(k)
             /\ chunks[k] # <<>> => k - 1 < m
  <2>1. Quiet(If(k - 1 \in wraps, Tabs(2)))
    <3>1. Quiet(Tabs(2)) /\ Quiet(<<>>)
      BY TabsQuiet, SpaceQuiet
    <3> QED
      BY <3>1 DEF If
  <2>2. Quiet(If(k = 1 /\ node.flags > 0, <<Piece("flags", node.flags)>>))
    <3>1. Quiet(<<Piece("flags", node.flags)>>) /\ Quiet(<<>>)
      BY PieceQuiet, SpaceQuiet
    <3> QED
      BY <3>1 DEF If
  <2>3. Quiet(pre(k))
    BY Zenon, <2>1, <2>2, QuietConcat
  <2>4. gap(k) \in Gaps /\ (k < m => gap(k) # <<>>)
    BY EndIsGap
  <2>5. printed[k] = (pre(k) \o Joined(chunks[k])) \o gap(k)
    BY <1>1, Zenon
  <2>6. chunks[k] # <<>> => k - 1 < m
    <3>1. ~(k > m) => k - 1 < m
      BY <1>1
    <3>2. k \in DOMAIN chunks
      BY <1>1
    <3> QED
      BY <3>1, <3>2
  <2>7. chunks[k] \in Seq(WordPieces)
    BY <1>1
  <2> HIDE DEF pre, gap
  <2> QED
    BY Zenon, <2>3, <2>4, <2>5, <2>6, <2>7
<1> HIDE DEF pre, gap
<1>3. ASSUME NEW acc, NEW done, NEW words, Reading(acc, done, words), NEW k \in 1 .. n,
             k - 1 < m => ~IsWord(acc.last)
      PROVE  /\ printed[k] \in Seq(Pieces)
             /\ Reading(ReadFold!Fold(acc, printed[k]), done, words \o chunks[k])
             /\ k < m => ~IsWord(ReadFold!Fold(acc, printed[k]).last)
  <2> DEFINE chunk == chunks[k]
             end == gap(k)
             start == pre(k)
             pieces == (start \o Joined(chunk)) \o end
  <2>1. /\ chunk \in Seq(WordPieces) /\ Quiet(start) /\ end \in Gaps
        /\ k < m => end # <<>>
        /\ chunk # <<>> => ~IsWord(acc.last)
        /\ printed[k] = pieces
    BY Zenon, <1>2, <1>3
  <2> HIDE DEF chunk, end, start
  <2>2. /\ pieces \in Seq(Pieces)
        /\ Reading(ReadFold!Fold(acc, pieces), done, words \o chunk)
        /\ end # <<>> => ~IsWord(ReadFold!Fold(acc, pieces).last)
    BY Zenon, <1>3, <2>1, ChunkRead
  <2> HIDE DEF pieces
  <2> QED
    BY Zenon, <2>1, <2>2 DEF chunk
<1>4. printed \in Seq(Seq(Pieces)) /\ Len(printed) = n /\ DOMAIN printed = 1 .. n
  <2> DEFINE T == Seq(Pieces)
             e == printed
  <2>1. \A k \in 1 .. n : e[k] \in T
    <3>1. PICK acc, done : Reading(acc, done, <<>>) /\ ~IsWord(acc.last)
      BY SomeReading
    <3> HIDE DEF n, m
    <3> QED
      BY Zenon, <1>3, <3>1
  <2>2. e = [k \in 1 .. n |-> e[k]]
    BY Zenon, <1>1
  <2> HIDE DEF T, n, e
  <2>3. e \in Seq(T) /\ Len(e) = n /\ DOMAIN e = 1 .. n
    BY Zenon, <1>1, <2>1, <2>2, FunctionSeq
  <2> QED
    BY <2>3 DEF T, e
<1>5. ASSUME NEW acc, NEW done, Reading(acc, done, <<>>), ~IsWord(acc.last)
      PROVE  Reading(ReadFold!Fold(acc, FlattenSeq(printed)), done, node.words)
  <2>1. InStage(acc, 0, stages(done))
    <3>1. SubSeq(chunks, 1, 0) = <<>>
      BY NoneAndAll
    <3>2. FlattenSeq(<<>>) = <<>>
      <4>1. <<>> \in Seq(Pieces) /\ \A i \in DOMAIN <<>> : <<>>[i] = <<>>
        OBVIOUS
      <4> QED
        BY Zenon, <4>1, FlattenNothing
    <3>3. acc \in Readings
      BY <1>5 DEF Reading
    <3>4. Reading(acc, done, FlattenSeq(SubSeq(chunks, 1, 0)))
      BY Zenon, <1>5, <3>1, <3>2
    <3>5. 0 \in 0 .. n
      BY <1>1
    <3> QED
      BY <1>5, <3>3, <3>4, <3>5 DEF InStage
  <2>2. ASSUME NEW k \in DOMAIN printed, NEW now, InStage(now, k - 1, stages(done))
        PROVE  InStage(ReadFold!Fold(now, printed[k]), k, stages(done))
    <3> DEFINE before == SubSeq(chunks, 1, k - 1)
               new == ReadFold!Fold(now, printed[k])
    <3>1. k \in 1 .. n /\ k \in 0 .. n /\ k - 1 \in 0 .. n
      BY <1>1, <1>4
    <3>2. Reading(now, done, FlattenSeq(before)) /\ (k - 1 < m => ~IsWord(now.last))
      BY <2>2, <3>1 DEF InStage
    <3>3. /\ Reading(new, done, FlattenSeq(before) \o chunks[k])
          /\ k < m => ~IsWord(new.last)
      <4> HIDE DEF before, n, m
      <4> QED
        BY Zenon, <1>3, <3>1, <3>2
    <3>4. FlattenSeq(before) \o chunks[k] = FlattenSeq(SubSeq(chunks, 1, k))
      <4> DEFINE T == Seq(WordPieces)
      <4>1. chunks \in Seq(T) /\ k \in DOMAIN chunks
        BY <1>1, <3>1
      <4> HIDE DEF T
      <4>2. /\ before \in Seq(T) /\ chunks[k] \in T
            /\ SubSeq(chunks, 1, k) = Append(before, chunks[k])
        BY Zenon, <4>1, OneMore
      <4> HIDE DEF before
      <4>3. FlattenSeq(Append(before, chunks[k])) = FlattenSeq(before) \o chunks[k]
        BY Zenon, <4>2, FlattenAppend DEF T
      <4> QED
        BY Zenon, <4>2, <4>3
    <3>5. new \in Readings
      BY Zenon, <3>3 DEF Reading
    <3> HIDE DEF new, before
    <3>6. InStage(new, k, stages(done))
      BY <3>1, <3>3, <3>4, <3>5 DEF InStage
    <3> QED
      BY Zenon, <3>6 DEF new
  <2> DEFINE all == stages(done)
  <2> HIDE DEF all
  <2>3. InStage(ReadFold!Fold(acc, FlattenSeq(printed)), Len(printed), all)
    <3>1. InStage(acc, 0, all)
      BY <2>1 DEF all
    <3>2. \A k \in DOMAIN printed : \A now : InStage(now, k - 1, all) =>
            InStage(ReadFold!Fold(now, printed[k]), k, all)
      BY Zenon, <2>2 DEF all
    <3> QED
      BY Zenon, <1>4, <3>1, <3>2, FlatRead
  <2>4. n \in 0 .. n /\ SubSeq(chunks, 1, n) = chunks
    BY <1>1, NoneAndAll
  <2> QED
    BY Zenon, <1>4, <2>3, <2>4 DEF InStage, all
<1>6. FlattenSeq(printed) \in Seq(Pieces)
  BY Zenon, <1>4, FlattenType
<1> QED
  BY Zenon, <1>5, <1>6 DEF ReadsAs

(* What parser_output_print_target_command() prints is read back as the    *)
(* words of the command.                                                   *)
LEMMA CommandPrints ==
  ASSUME NEW node, node.words \in Seq(WordPieces), node.flags \in Nat
  PROVE  /\ node.words # <<>> => PrintsOrRaw(CommandLines(node), node.words)
         /\ node.words = <<>> => CommandLines(node) = <<>>
<1> DEFINE built == Chunks(node.words)
           chunks == built.chunks
           wraps == Wraps(chunks, built.command, node.flags)
           printed == [k \in DOMAIN chunks |->
             If(k - 1 \in wraps, Tabs(2))
               \o If(k = 1 /\ node.flags > 0, <<Piece("flags", node.flags)>>)
               \o Joined(chunks[k]) \o EndOfChunk(node, chunks[k], k, wraps)]
           body == FlattenSeq(printed)
           raw == /\ ~node.edited
                  /\ \/ "commands" \notin behavior
                     \/ Complexity(node.words) > target_command_format_threshold
           lines == ((<<Tab>> \o body) \o If(node.comment, <<Space, Comment>>)) \o <<Newline>>
<1>1. node.words = <<>> => CommandLines(node) = <<>>
  BY Zenon DEF CommandLines
<1>2. node.words # <<>> /\ raw => CommandLines(node) = RawLine
  BY Zenon DEF CommandLines
<1>3. node.words # <<>> /\ ~raw => CommandLines(node) = lines
  BY Zenon DEF CommandLines
<1>4. /\ chunks \in Seq(Seq(WordPieces)) /\ FlattenSeq(chunks) = node.words
      /\ \A k \in DOMAIN chunks : k > Len(node.words) => chunks[k] = <<>>
  BY ChunksAre
<1> HIDE DEF raw, wraps, chunks
<1>5. ReadsAs(body, node.words)
  <2> DEFINE p == printed
  <2>1. p = [k \in DOMAIN chunks |->
             If(k - 1 \in wraps, Tabs(2))
               \o If(k = 1 /\ node.flags > 0, <<Piece("flags", node.flags)>>)
               \o Joined(chunks[k]) \o EndOfChunk(node, chunks[k], k, wraps)]
    OBVIOUS
  <2> HIDE DEF p
  <2>2. ReadsAs(FlattenSeq(p), node.words)
    BY Zenon, <1>4, <2>1, ChunksRead
  <2> QED
    BY <2>2 DEF p
<1> HIDE DEF body
<1>6. Prints(lines, node.words)
  <2>1. Quiet(<<Tab>>) /\ Quiet(<<Space>>)
    BY SpaceQuiet
  <2>2. Prints(((<<Tab>> \o body) \o If(node.comment, <<Space>> \o <<Comment>>)) \o <<Newline>>,
               node.words)
    BY <1>5, <2>1, StatementPrints
  <2>3. <<Space>> \o <<Comment>> = <<Space, Comment>>
    BY TwoPieces
  <2> QED
    BY Zenon, <2>2, <2>3
<1> HIDE DEF lines
<1> QED
  BY <1>1, <1>2, <1>3, <1>6, PrintsThem

-----------------------------------------------------------------------------
(* What each statement printed so far is read back as.                     *)
IsPrinted(k) == file[k].type = "command" => file[k].words # <<>>

ReadsAt(k) ==
  IF IsPrinted(k) THEN PrintsOrRaw(result[k], ExpectedWords(file[k])) ELSE result[k] = <<>>

ReadsInv == \A k \in DOMAIN result : ReadsAt(k)

(* Statements one after the other are read back one after the other.       *)
LEMMA InvReads ==
  ASSUME PrintedInv, ReadsInv
  PROVE  ReadsBack
<1> DEFINE n == Len(result)
           T == {Expected(k) : k \in DOMAIN result}
           what == [k \in DOMAIN result |->
             If(file[k].type = "command" => file[k].words # <<>>, <<Expected(k)>>)]
           base == [done |-> <<>>, words |-> <<>>, last |-> Newline, commented |-> FALSE]
           stages == [k \in 0 .. n |->
             {now \in Readings : /\ Reading(now, FlattenSeq(SubSeq(what, 1, k)), <<>>)
                                 /\ now.last = Newline}]
<1>1. n \in Nat /\ DOMAIN result = 1 .. n
  BY DEF PrintedInv
<1>2. ASSUME NEW k \in 1 .. n
      PROVE  /\ what[k] \in Seq(T)
             /\ result[k] \in Seq(Pieces)
             /\ \/ what[k] = <<>> /\ result[k] = <<>>
                \/ what[k] = <<Expected(k)>> /\ Prints(result[k], Expected(k))
  <2>1. ReadsAt(k) /\ what[k] = If(IsPrinted(k), <<Expected(k)>>)
    BY <1>1 DEF ReadsInv, IsPrinted
  <2>2. Expected(k) \in T
    BY <1>1
  <2> HIDE DEF T, what
  <2>3. CASE IsPrinted(k)
    <3>1. what[k] = <<Expected(k)>>
      BY <2>1, <2>3 DEF If
    <3>2. PrintsOrRaw(result[k], ExpectedWords(file[k]))
      BY <2>1, <2>3 DEF ReadsAt
    <3>3. Prints(result[k], Expected(k))
      BY Zenon, <3>2 DEF PrintsOrRaw, Expected
    <3>4. result[k] \in Seq(Pieces)
      BY <3>3 DEF Prints
    <3> HIDE DEF Expected
    <3> QED
      BY <2>2, <3>1, <3>3, <3>4
  <2>4. CASE ~IsPrinted(k)
    <3>1. what[k] = <<>> /\ result[k] = <<>>
      BY <2>1, <2>4 DEF If, ReadsAt
    <3> QED
      BY <3>1
  <2> QED
    BY <2>3, <2>4
<1>3. result \in Seq(Seq(Pieces))
  <2> DEFINE P == Seq(Pieces)
             e == result
  <2>1. \A k \in 1 .. n : e[k] \in P
    BY Zenon, <1>2
  <2>2. e = [k \in 1 .. n |-> e[k]]
    BY <1>1 DEF PrintedInv
  <2> HIDE DEF P, n, e
  <2>3. e \in Seq(P)
    BY Zenon, <1>1, <2>1, <2>2, FunctionSeq
  <2> QED
    BY <2>3 DEF P, e
<1>4. what \in Seq(Seq(T)) /\ Len(what) = n /\ DOMAIN what = 1 .. n
  <2> DEFINE P == Seq(T)
             e == what
  <2>1. \A k \in 1 .. n : e[k] \in P
    BY Zenon, <1>2
  <2>2. e = [k \in 1 .. n |-> e[k]]
    BY <1>1
  <2> HIDE DEF P, n, e
  <2>3. e \in Seq(P) /\ Len(e) = n /\ DOMAIN e = 1 .. n
    BY Zenon, <1>1, <2>1, <2>2, FunctionSeq
  <2> QED
    BY <2>3 DEF P, e
<1> HIDE DEF what, T
<1>5. /\ base \in Readings /\ base.last = Newline /\ Reading(base, <<>>, <<>>)
  <2>1. /\ Newline \in Pieces /\ Newline # Backslash
        /\ <<>> \in Seq(Seq(Readable)) /\ <<>> \in Seq(Readable)
    BY ReadableAre
  <2>2. /\ base \in Readings /\ base.done = <<>> /\ base.words = <<>> /\ base.last = Newline
        /\ ~base.commented
    BY <2>1 DEF Readings
  <2> HIDE DEF base
  <2> QED
    BY <2>1, <2>2 DEF Reading
<1> HIDE DEF base
<1>6. InStage(base, 0, stages)
  <2>1. SubSeq(what, 1, 0) = <<>>
    BY <1>4, NoneAndAll
  <2>2. FlattenSeq(<<>>) = <<>>
    <3>1. <<>> \in Seq(Pieces) /\ \A i \in DOMAIN <<>> : <<>>[i] = <<>>
      OBVIOUS
    <3> QED
      BY Zenon, <3>1, FlattenNothing
  <2>3. Reading(base, FlattenSeq(SubSeq(what, 1, 0)), <<>>)
    BY Zenon, <1>5, <2>1, <2>2
  <2>4. 0 \in 0 .. n
    BY <1>1
  <2> QED
    BY <1>5, <2>3, <2>4 DEF InStage
<1>7. ASSUME NEW k \in DOMAIN result, NEW now, InStage(now, k - 1, stages)
      PROVE  InStage(ReadFold!Fold(now, result[k]), k, stages)
  <2> DEFINE before == SubSeq(what, 1, k - 1)
             new == ReadFold!Fold(now, result[k])
             done == FlattenSeq(before)
  <2>1. k \in 1 .. n /\ k \in 0 .. n /\ k - 1 \in 0 .. n /\ k \in DOMAIN what
    BY <1>1, <1>4
  <2>2. Reading(now, done, <<>>) /\ now.last = Newline
    BY <1>7, <2>1 DEF InStage
  <2>3. before \in Seq(Seq(T)) /\ what[k] \in Seq(T) /\ SubSeq(what, 1, k) = Append(before, what[k])
    <3> DEFINE P == Seq(T)
    <3>1. what \in Seq(P)
      BY <1>4
    <3> HIDE DEF P
    <3>2. before \in Seq(P) /\ what[k] \in P /\ SubSeq(what, 1, k) = Append(before, what[k])
      BY <2>1, <3>1, OneMore
    <3> QED
      BY Zenon, <3>2 DEF P
  <2> HIDE DEF before
  <2>4. FlattenSeq(Append(before, what[k])) = done \o what[k] /\ done \in Seq(T)
    BY Zenon, <2>3, FlattenAppend
  <2> HIDE DEF done
  <2>5. /\ Reading(new, done \o what[k], <<>>) /\ new.last = Newline
    <3>1. CASE what[k] = <<>> /\ result[k] = <<>>
      <4>1. new = now
        BY <3>1, ReadFold!FoldNone
      <4>2. done \o <<>> = done
        BY <2>4
      <4> HIDE DEF new
      <4> QED
        BY Zenon, <2>2, <3>1, <4>1, <4>2
    <3>2. CASE what[k] = <<Expected(k)>> /\ Prints(result[k], Expected(k))
      <4>1. Reading(new, Append(done, Expected(k)), <<>>) /\ new.last = Newline
        BY <2>2, <3>2 DEF Prints
      <4> DEFINE x == Expected(k)
      <4>2. x \in T
        BY <2>1 DEF T
      <4> HIDE DEF x
      <4>3. done \o <<x>> = Append(done, x)
        BY <2>4, <4>2
      <4> HIDE DEF new
      <4> QED
        BY Zenon, <3>2, <4>1, <4>3 DEF x
    <3> QED
      BY Zenon, <1>2, <2>1, <3>1, <3>2
  <2>6. new \in Readings
    BY <2>5 DEF Reading
  <2> HIDE DEF new
  <2>7. Reading(new, FlattenSeq(SubSeq(what, 1, k)), <<>>)
    BY Zenon, <2>3, <2>4, <2>5
  <2>8. InStage(new, k, stages)
    BY <2>1, <2>5, <2>6, <2>7 DEF InStage
  <2> QED
    BY <2>8 DEF new
<1> HIDE DEF stages
<1>8. InStage(ReadFold!Fold(base, FlattenSeq(result)), n, stages)
  BY <1>3, <1>6, <1>7, FlatRead
<1>9. n \in 0 .. n /\ SubSeq(what, 1, n) = what
  BY <1>1, <1>4, NoneAndAll
<1>10. ReadFold!Fold(base, FlattenSeq(result)).done = FlattenSeq(what)
  BY Zenon, <1>8, <1>9 DEF InStage, stages, Reading
<1>11. Statements(FlattenSeq(result)) = ReadFold!Fold(base, FlattenSeq(result)).done
  BY Zenon DEF Statements, base, ReadFold!Fold, ReadFold!Greatest,
     FoldLeft, MapThenFoldSet, Max
<1> QED
  BY Zenon, <1>10, <1>11 DEF ReadsBack, what

-----------------------------------------------------------------------------
(* What each kind of statement is printed as.                              *)
LEMMA NodeIs ==
  ASSUME file \in Files, NEW k \in DOMAIN file
  PROVE  /\ file[k].type \in {"variable", "comment", "command", "for", "if", "other"}
         /\ file[k].type \in {"variable", "command", "for", "if"} =>
              file[k].words \in Seq(WordPieces)
         /\ file[k].type = "variable" => file[k].name \in Nat /\ file[k].modifier \in {1, 2}
         /\ file[k].type = "command" => file[k].flags \in Nat
         /\ file[k].type = "for" => file[k].bindings \in Seq(WordPieces)
         /\ file[k].type \in {"for", "if"} => file[k].indent \in Nat
BY Zenon, FilesAssumption

LEMMA LinesRead ==
  ASSUME ColumnsInv, at \in DOMAIN file, NEW lines,
         \/ file[at].type = "variable" /\ lines = VariableLines(file[at], goalcol[at])
         \/ file[at].type = "command" /\ lines = CommandLines(file[at])
         \/ file[at].type = "for" /\ lines \in {ForLines(file[at]), RawLine}
         \/ file[at].type = "if" /\ lines \in {IfLines(file[at]), RawLine}
         \/ file[at].type \in {"comment", "other"} /\ lines = RawLine
  PROVE  IF IsPrinted(at) THEN PrintsOrRaw(lines, ExpectedWords(file[at])) ELSE lines = <<>>
<1> DEFINE node == file[at]
<1>1. /\ node.type \in {"variable", "command", "for", "if"} => node.words \in Seq(WordPieces)
      /\ node.type = "variable" => node.name \in Nat /\ node.modifier \in {1, 2}
      /\ node.type = "command" => node.flags \in Nat
      /\ node.type = "for" => node.bindings \in Seq(WordPieces)
      /\ node.type \in {"for", "if"} => node.indent \in Nat
      /\ goalcol[at] \in Nat
  BY NodeIs DEF ColumnsInv
<1> HIDE DEF node
<1>2. CASE node.type = "variable" /\ lines = VariableLines(node, goalcol[at])
  <2>1. PrintsOrRaw(lines, WordsOf(node))
    BY <1>1, <1>2, VariablePrints
  <2>2. ExpectedWords(node) = WordsOf(node) /\ IsPrinted(at)
    BY <1>2 DEF ExpectedWords, IsPrinted, node
  <2> QED
    BY <2>1, <2>2 DEF node
<1>3. CASE node.type = "command" /\ lines = CommandLines(node)
  <2>1. /\ node.words # <<>> => PrintsOrRaw(lines, node.words)
        /\ node.words = <<>> => lines = <<>>
    BY <1>1, <1>3, CommandPrints
  <2>2. ExpectedWords(node) = node.words /\ (IsPrinted(at) <=> node.words # <<>>)
    BY <1>3 DEF ExpectedWords, IsPrinted, node
  <2> QED
    BY <2>1, <2>2 DEF node
<1>4. CASE node.type = "for" /\ lines \in {ForLines(node), RawLine}
  <2>1. PrintsOrRaw(lines, node.bindings \o node.words)
    BY <1>1, <1>4, ForPrints, PrintsThem
  <2>2. ExpectedWords(node) = node.bindings \o node.words /\ IsPrinted(at)
    BY Zenon, <1>4 DEF ExpectedWords, IsPrinted, node
  <2> QED
    BY <2>1, <2>2 DEF node
<1>5. CASE node.type = "if" /\ lines \in {IfLines(node), RawLine}
  <2>1. PrintsOrRaw(lines, node.words)
    BY <1>1, <1>5, IfPrints, PrintsThem
  <2>2. ExpectedWords(node) = node.words /\ IsPrinted(at)
    BY <1>5 DEF ExpectedWords, IsPrinted, node
  <2> QED
    BY <2>1, <2>2 DEF node
<1>6. CASE node.type \in {"comment", "other"} /\ lines = RawLine
  <2>1. PrintsOrRaw(lines, ExpectedWords(node))
    BY <1>6, PrintsThem
  <2>2. IsPrinted(at)
    BY <1>6 DEF IsPrinted, node
  <2> QED
    BY <2>1, <2>2 DEF node
<1> QED
  BY <1>2, <1>3, <1>4, <1>5, <1>6 DEF node

(* What a statement is to be read back as does not change.                 *)
LEMMA SameExpected ==
  ASSUME UNCHANGED <<file, behavior>>, NEW k
  PROVE  ReadsAt(k)' <=>
           IF IsPrinted(k) THEN PrintsOrRaw(result'[k], ExpectedWords(file[k]))
           ELSE result'[k] = <<>>
<1>1. WordsOf(file[k])' = WordsOf(file[k])
  BY DEF WordsOf
<1>2. ExpectedWords(file[k])' = ExpectedWords(file[k])
  BY Zenon, <1>1 DEF ExpectedWords
<1>3. IsPrinted(k)' <=> IsPrinted(k)
  BY DEF IsPrinted
<1> QED
  BY Zenon, <1>2, <1>3 DEF ReadsAt

LEMMA ReadsStep ==
  ASSUME ColumnsInv, PrintedInv, ReadsInv, [Next]_vars
  PROVE  ReadsInv'
<1>0. UNCHANGED <<file, behavior>>
  BY DEF Next, VisitComment, VisitVariable, VisitOther, Visit, VisitEnd, PrintVariable,
     PrintTargetCommand, PrintFor, PrintIf, PrintRaw, Enqueue, PrintEnd, Done, vars
<1>1. CASE UNCHANGED result
  <2> SUFFICES ASSUME NEW k \in DOMAIN result
               PROVE  ReadsAt(k)'
    BY <1>1 DEF ReadsInv
  <2>1. ReadsAt(k)
    BY DEF ReadsInv
  <2> QED
    BY <1>0, <1>1, <2>1, SameExpected DEF ReadsAt
<1>2. ASSUME NEW lines, result' = Append(result, lines), pc = "print", at \in DOMAIN file,
         \/ file[at].type = "variable" /\ lines = VariableLines(file[at], goalcol[at])
         \/ file[at].type = "command" /\ lines = CommandLines(file[at])
         \/ file[at].type = "for" /\ lines \in {ForLines(file[at]), RawLine}
         \/ file[at].type = "if" /\ lines \in {IfLines(file[at]), RawLine}
         \/ file[at].type \in {"comment", "other"} /\ lines = RawLine
      PROVE  ReadsInv'
  <2> DEFINE longer == Append(result, lines)
  <2>1. /\ DOMAIN longer = 1 .. (Len(result) + 1) /\ DOMAIN result = 1 .. Len(result)
        /\ Len(result) \in Nat
        /\ \A k \in DOMAIN result : longer[k] = result[k]
        /\ longer[Len(result) + 1] = lines
    BY AnyAppend DEF PrintedInv
  <2>2. Len(result) + 1 = at
    <3>1. Len(result) = at - 1 /\ at \in Nat
      BY <1>2 DEF PrintedInv, ColumnsInv
    <3> QED
      BY <3>1
  <2>3. IF IsPrinted(at) THEN PrintsOrRaw(lines, ExpectedWords(file[at])) ELSE lines = <<>>
    BY Zenon, <1>2, LinesRead
  <2>4. result' = longer
    BY <1>2
  <2> HIDE DEF longer
  <2> SUFFICES ASSUME NEW k \in DOMAIN longer
               PROVE  ReadsAt(k)'
    BY <2>4 DEF ReadsInv
  <2>5. CASE k \in DOMAIN result
    <3>1. ReadsAt(k) /\ longer[k] = result[k]
      BY <2>1, <2>5 DEF ReadsInv
    <3> QED
      BY <1>0, <2>4, <3>1, SameExpected DEF ReadsAt
  <2>6. CASE k = at
    <3>1. longer[k] = lines
      BY <2>1, <2>2, <2>6
    <3> QED
      BY <1>0, <2>3, <2>4, <2>6, <3>1, SameExpected
  <2> QED
    BY <2>1, <2>2, <2>5, <2>6
<1>3. CASE PrintVariable \/ PrintTargetCommand \/ PrintFor \/ PrintIf \/ PrintRaw
  <2>1. pc = "print" /\ at \in DOMAIN file
    BY <1>3 DEF PrintVariable, PrintTargetCommand, PrintFor, PrintIf, PrintRaw, Enqueue
  <2>2. CASE PrintVariable
    <3>1. /\ result' = Append(result, VariableLines(file[at], goalcol[at]))
          /\ file[at].type = "variable"
      BY <2>2 DEF PrintVariable, Enqueue
    <3> QED
      BY <1>2, <2>1, <3>1
  <2>3. CASE PrintTargetCommand
    <3>1. /\ result' = Append(result, CommandLines(file[at]))
          /\ file[at].type = "command"
      BY <2>3 DEF PrintTargetCommand, Enqueue
    <3> QED
      BY <1>2, <2>1, <3>1
  <2>4. CASE PrintFor
    <3> DEFINE lines == IF Formats(file[at]) THEN ForLines(file[at]) ELSE RawLine
    <3>1. result' = Append(result, lines) /\ file[at].type = "for"
      BY <2>4 DEF PrintFor, Enqueue
    <3>2. lines \in {ForLines(file[at]), RawLine}
      OBVIOUS
    <3> HIDE DEF lines
    <3> QED
      BY <1>2, <2>1, <3>1, <3>2
  <2>5. CASE PrintIf
    <3> DEFINE lines == IF Formats(file[at]) THEN IfLines(file[at]) ELSE RawLine
    <3>1. result' = Append(result, lines) /\ file[at].type = "if"
      BY <2>5 DEF PrintIf, Enqueue
    <3>2. lines \in {IfLines(file[at]), RawLine}
      OBVIOUS
    <3> HIDE DEF lines
    <3> QED
      BY <1>2, <2>1, <3>1, <3>2
  <2>6. CASE PrintRaw
    <3>1. result' = Append(result, RawLine) /\ file[at].type \in {"comment", "other"}
      BY <2>6 DEF PrintRaw, Enqueue
    <3> QED
      BY <1>2, <2>1, <3>1
  <2> QED
    BY <1>3, <2>2, <2>3, <2>4, <2>5, <2>6
<1>4. CASE VisitComment \/ VisitVariable \/ VisitOther \/ VisitEnd \/ PrintEnd \/ UNCHANGED vars
  <2>1. UNCHANGED result
    BY <1>4 DEF VisitComment, VisitVariable, VisitOther, Visit, VisitEnd, PrintEnd, vars
  <2> QED
    BY <1>1, <2>1
<1> QED
  BY <1>3, <1>4 DEF Next, Done

(* Whatever parser_output_reformatted_walker() prints of a tree is read    *)
(* back as its statements: each has its words in their order, none takes   *)
(* in the next and none falls apart into two, no word is joined to         *)
(* another, wherever the lines are broken.                                 *)
THEOREM PrintedReadsBack == Spec => []ReadsBack
<1>1. Init => ColumnsInv /\ PrintedInv /\ ReadsInv
  <2>1. Init => ColumnsInv /\ PrintedInv
    BY ColumnsInit, PrintedInit
  <2>2. Init => ReadsInv
    BY DEF Init, ReadsInv
  <2> QED
    BY <2>1, <2>2
<1>2. ColumnsInv /\ PrintedInv /\ ReadsInv /\ [Next]_vars =>
        ColumnsInv' /\ PrintedInv' /\ ReadsInv'
  BY ColumnsStep, PrintedStep, ReadsStep
<1>3. PrintedInv /\ ReadsInv => ReadsBack
  BY InvReads
<1> QED
  BY <1>1, <1>2, <1>3, PTL DEF Spec

-----------------------------------------------------------------------------
(* Lengths add up.                                                         *)
LengthSoFar(sum, n, c) ==
  LET length == Length(SubSeq(c.pieces, 1, n))
  IN length \in Nat /\ sum = c.base + length

LengthFold == INSTANCE FoldInduction WITH op <- AddLength, Holds <- LengthSoFar

LEMMA LengthIsFold ==
  ASSUME NEW pieces
  PROVE  Length(pieces) = LengthFold!Fold(0, pieces)
  BY Zenon DEF Length, LengthFold!Fold, LengthFold!Greatest,
     FoldLeft, MapThenFoldSet, Max

LEMMA LengthAppend ==
  ASSUME NEW s \in Seq(Pieces), NEW x \in Pieces
  PROVE  Length(Append(s, x)) = Length(s) + x.len
<1>1. LengthFold!Fold(0, Append(s, x)) = AddLength(LengthFold!Fold(0, s), x)
  BY LengthFold!FoldAppend
<1> QED
  BY <1>1, LengthIsFold DEF AddLength

LEMMA LengthNone == Length(<<>>) = 0
  BY LengthIsFold, LengthFold!FoldNone

LEMMA LengthFolds ==
  ASSUME NEW base \in Nat, NEW s \in Seq(Pieces)
  PROVE  Length(s) \in Nat /\ LengthFold!Fold(base, s) = base + Length(s)
<1> DEFINE c == [base |-> base, pieces |-> s]
           L(n) == Length(SubSeq(s, 1, n))
<1>0. \A n, sum : LengthSoFar(sum, n, c) <=> L(n) \in Nat /\ sum = base + L(n)
  BY DEF LengthSoFar
<1>1. L(0) = 0
  <2>1. SubSeq(s, 1, 0) = <<>>
    OBVIOUS
  <2> QED
    BY Zenon, <2>1, LengthNone
<1>2. \A k \in DOMAIN s : L(k) = L(k - 1) + s[k].len /\ s[k].len \in Nat /\ k - 1 \in Nat
  <2> SUFFICES ASSUME NEW k \in DOMAIN s
               PROVE  L(k) = L(k - 1) + s[k].len /\ s[k].len \in Nat /\ k - 1 \in Nat
    OBVIOUS
  <2> DEFINE x == s[k]
             before == SubSeq(s, 1, k - 1)
  <2>1. x \in Pieces /\ before \in Seq(Pieces) /\ SubSeq(s, 1, k) = Append(before, x)
    BY OneMore
  <2>3. k - 1 \in Nat
    OBVIOUS
  <2> HIDE DEF x, before
  <2>2. Length(Append(before, x)) = Length(before) + x.len /\ x.len \in Nat
    BY Zenon, <2>1, LengthAppend DEF Pieces
  <2>4. L(k) = Length(before) + x.len
    BY Zenon, <2>1, <2>2
  <2> QED
    BY <2>2, <2>3, <2>4 DEF before, x
<1> HIDE DEF L, c
<1>3. LengthSoFar(base, 0, c)
  BY <1>0, <1>1
<1>4. ASSUME NEW k \in DOMAIN s, NEW sum, LengthSoFar(sum, k - 1, c)
      PROVE  LengthSoFar(AddLength(sum, s[k]), k, c)
  <2>1. L(k - 1) \in Nat /\ sum = base + L(k - 1)
    BY <1>0, <1>4
  <2>2. AddLength(sum, s[k]) = sum + s[k].len
    BY DEF AddLength
  <2>3. L(k) \in Nat /\ AddLength(sum, s[k]) = base + L(k)
    BY <1>2, <2>1, <2>2
  <2> QED
    BY <1>0, <2>3
<1>5. LengthSoFar(LengthFold!Fold(base, s), Len(s), c)
  BY <1>3, <1>4, LengthFold!FoldHolds
<1>6. SubSeq(s, 1, Len(s)) = s
  OBVIOUS
<1> QED
  BY Zenon, <1>0, <1>5, <1>6 DEF L

LEMMA LengthIs ==
  ASSUME NEW s \in Seq(Pieces)
  PROVE  Length(s) \in Nat
  BY LengthFolds

LEMMA LengthConcat ==
  ASSUME NEW s \in Seq(Pieces), NEW t \in Seq(Pieces)
  PROVE  Length(s \o t) = Length(s) + Length(t)
<1>1. LengthFold!Fold(0, s \o t) = LengthFold!Fold(LengthFold!Fold(0, s), t)
  BY LengthFold!FoldConcat
<1>2. LengthFold!Fold(0, s) = Length(s) /\ LengthFold!Fold(0, s \o t) = Length(s \o t)
  BY LengthIsFold
<1>3. Length(s) \in Nat
  BY LengthIs
<1>4. LengthFold!Fold(Length(s), t) = Length(s) + Length(t)
  BY <1>3, LengthFolds
<1> QED
  BY <1>1, <1>2, <1>4

(* Words are pieces.                                                       *)
LEMMA WordsArePieces ==
  ASSUME NEW words \in Seq(WordPieces)
  PROVE  words \in Seq(Pieces)
  BY PiecesAre

(* Sorting moves words.                                                    *)
SameLength(words, n, c) ==
  LET so == SubSeq(c, 1, n)
  IN words \in Seq(WordPieces) /\ Length(words) = Length(so) /\ Len(words) = Len(so)

SortLengths == INSTANCE FoldInduction WITH op <- SortIn, Holds <- SameLength

LEMMA InsertedLength ==
  ASSUME NEW s \in Seq(WordPieces), NEW i \in 1 .. (Len(s) + 1), NEW x \in WordPieces
  PROVE  /\ Length(InsertAt(s, i, x)) = Length(s) + x.len
         /\ Len(InsertAt(s, i, x)) = Len(s) + 1
<1> DEFINE a == SubSeq(s, 1, i - 1)
           b == SubSeq(s, i, Len(s))
<1>1. a \in Seq(WordPieces) /\ b \in Seq(WordPieces) /\ Len(a) + Len(b) = Len(s) /\ s = a \o b
  <2>1. a \in Seq(WordPieces) /\ Len(a) = i - 1 /\ \A k \in 1 .. (i - 1) : a[k] = s[k]
    OBVIOUS
  <2>2. /\ b \in Seq(WordPieces) /\ Len(b) = Len(s) - (i - 1)
        /\ \A k \in 1 .. (Len(s) - (i - 1)) : b[k] = s[k + (i - 1)]
    OBVIOUS
  <2>3. s = a \o b
    <3>1. i - 1 \in 0 .. Len(s) /\ (i - 1) + 1 = i
      OBVIOUS
    <3>2. s = SubSeq(s, 1, i - 1) \o SubSeq(s, (i - 1) + 1, Len(s))
      BY Zenon, <3>1, CutAnywhere
    <3> QED
      BY Zenon, <3>1, <3>2
  <2> HIDE DEF a, b
  <2> QED
    BY <2>1, <2>2, <2>3
<1>2. InsertAt(s, i, x) = (a \o <<x>>) \o b
  BY Zenon DEF InsertAt
<1> HIDE DEF a, b
<1>3. a \o <<x>> = Append(a, x) /\ Append(a, x) \in Seq(WordPieces)
  BY <1>1
<1>4. x \in Pieces /\ x.len \in Nat /\ a \in Seq(Pieces) /\ b \in Seq(Pieces)
      /\ Append(a, x) \in Seq(Pieces)
  BY Zenon, <1>1, <1>3, PiecesAre, WordsArePieces DEF Pieces
<1>5. Length(a) \in Nat /\ Length(b) \in Nat
  BY <1>4, LengthIs
<1>6. Length(Append(a, x) \o b) = (Length(a) + x.len) + Length(b)
  BY Zenon, <1>4, LengthAppend, LengthConcat
<1>7. Length(s) = Length(a) + Length(b)
  BY <1>1, <1>4, LengthConcat
<1>8. Len(Append(a, x) \o b) = Len(s) + 1
  BY <1>1, <1>3
<1>9. InsertAt(s, i, x) = Append(a, x) \o b
  BY Zenon, <1>2, <1>3
<1> QED
  BY <1>4, <1>5, <1>6, <1>7, <1>8, <1>9

LEMMA SortedLength ==
  ASSUME NEW words \in Seq(WordPieces)
  PROVE  Length(Sorted(words)) = Length(words) /\ Len(Sorted(words)) = Len(words)
<1>1. Sorted(words) = SortLengths!Fold(<<>>, words)
  BY Zenon DEF Sorted, SortLengths!Fold, SortLengths!Greatest,
     FoldLeft, MapThenFoldSet, Max
<1>2. SameLength(<<>>, 0, words)
  <2>1. SubSeq(words, 1, 0) = <<>>
    OBVIOUS
  <2>2. <<>> \in Seq(WordPieces)
    OBVIOUS
  <2> QED
    BY Zenon, <2>1, <2>2 DEF SameLength
<1>3. ASSUME NEW k \in DOMAIN words, NEW sorted, SameLength(sorted, k - 1, words)
      PROVE  SameLength(SortIn(sorted, words[k]), k, words)
  <2> DEFINE x == words[k]
             before == SubSeq(words, 1, k - 1)
             I == {j \in 1 .. Len(sorted) : sorted[j].len <= x.len}
             i == (IF I # {} THEN Max(I) ELSE 0) + 1
  <2>1. x \in WordPieces /\ before \in Seq(WordPieces) /\ SubSeq(words, 1, k) = Append(before, x)
    BY OneMore
  <2>2. /\ sorted \in Seq(WordPieces) /\ Length(sorted) = Length(before)
        /\ Len(sorted) = Len(before)
    BY <1>3 DEF SameLength
  <2>3. i \in 1 .. (Len(sorted) + 1)
    <3>1. Len(sorted) \in Nat /\ I \in SUBSET (0 .. Len(sorted)) /\ I \in SUBSET (1 .. Len(sorted))
      BY <2>2
    <3> HIDE DEF I
    <3>2. CASE I = {}
      <4>1. i = 1
        BY <3>2
      <4> QED
        BY <3>1, <4>1
    <3>3. CASE I # {}
      <4>1. Max(I) \in I
        BY Zenon, <3>1, <3>3, MaxIs
      <4>2. i = Max(I) + 1 /\ Max(I) \in 1 .. Len(sorted)
        BY Zenon, <3>1, <3>3, <4>1
      <4> HIDE DEF i
      <4> QED
        BY <3>1, <4>2
    <3> QED
      BY <3>2, <3>3
  <2>4. SortIn(sorted, x) = InsertAt(sorted, i, x)
    BY DEF SortIn, SelectLastInSeq
  <2> HIDE DEF x, before, i
  <2>5. /\ Length(SortIn(sorted, x)) = Length(sorted) + x.len
        /\ Len(SortIn(sorted, x)) = Len(sorted) + 1
        /\ SortIn(sorted, x) \in Seq(WordPieces)
    BY Zenon, <2>1, <2>2, <2>3, <2>4, InsertedLength, InsertedIs
  <2>6. /\ Length(Append(before, x)) = Length(before) + x.len
        /\ Len(Append(before, x)) = Len(before) + 1
    BY <2>1, LengthAppend, WordsArePieces, PiecesAre
  <2>7. /\ Length(SortIn(sorted, x)) = Length(SubSeq(words, 1, k))
        /\ Len(SortIn(sorted, x)) = Len(SubSeq(words, 1, k))
    BY Zenon, <2>1, <2>2, <2>5, <2>6
  <2> QED
    BY <2>5, <2>7 DEF SameLength, x
<1>4. SameLength(SortLengths!Fold(<<>>, words), Len(words), words)
  BY <1>2, <1>3, SortLengths!FoldHolds
<1>5. SubSeq(words, 1, Len(words)) = words
  OBVIOUS
<1> QED
  BY Zenon, <1>1, <1>4, <1>5 DEF SameLength

-----------------------------------------------------------------------------
(* A line that str_join() has made starts with the first of its words and  *)
(* is as long as they are with a space between every two.                  *)
JoinedSize(line, n, c) ==
  LET length == Length(SubSeq(c, 1, n))
  IN /\ line \in Seq(Pieces)
     /\ \A i \in DOMAIN line : line[i] # Tab
     /\ IF n = 0 THEN line = <<>> ELSE line # <<>> /\ line[1] = c[1]
     /\ length <= Length(line) /\ Length(line) <= length + n

JoinSizes == INSTANCE FoldInduction WITH op <- JoinWord, Holds <- JoinedSize

LEMMA NoWordIsTab ==
  /\ \A word \in WordPieces : word # Tab /\ word \in Pieces /\ word.len \in Nat \ {0}
  /\ Space # Tab /\ Space \in Pieces /\ Space.len = 1
<1>1. \A word \in WordPieces : word \in Pieces /\ IsWord(word) /\ word.len \in Nat \ {0}
  BY PiecesAre DEF WordPieces
<1> QED
  BY <1>1, PiecesAre

LEMMA JoinedSizes ==
  ASSUME NEW words \in Seq(WordPieces)
  PROVE  /\ Joined(words) \in Seq(Pieces)
         /\ \A i \in DOMAIN Joined(words) : Joined(words)[i] # Tab
         /\ IF words = <<>> THEN Joined(words) = <<>>
            ELSE Joined(words) # <<>> /\ Joined(words)[1] = words[1]
         /\ Length(words) <= Length(Joined(words))
         /\ Length(Joined(words)) <= Length(words) + Len(words)
<1>1. Joined(words) = JoinSizes!Fold(<<>>, words)
  BY Zenon DEF Joined, JoinSizes!Fold, JoinSizes!Greatest,
     FoldLeft, MapThenFoldSet, Max
<1>2. JoinedSize(<<>>, 0, words)
  <2>1. SubSeq(words, 1, 0) = <<>> /\ <<>> \in Seq(Pieces)
    OBVIOUS
  <2>2. Length(SubSeq(words, 1, 0)) = 0 /\ Length(<<>>) = 0
    BY Zenon, <2>1, LengthNone
  <2> DEFINE none == <<>>
  <2>3. none = <<>> /\ none \in Seq(Pieces) /\ DOMAIN none = {} /\ Length(none) = 0
    BY <2>1, <2>2
  <2> HIDE DEF none
  <2>4. JoinedSize(none, 0, words)
    BY <2>2, <2>3 DEF JoinedSize
  <2> QED
    BY <2>4 DEF none
<1>3. ASSUME NEW k \in DOMAIN words, NEW line, JoinedSize(line, k - 1, words)
      PROVE  JoinedSize(JoinWord(line, words[k]), k, words)
  <2> DEFINE word == words[k]
             before == SubSeq(words, 1, k - 1)
             m == Length(before)
  <2>1. word \in WordPieces /\ before \in Seq(WordPieces) /\ SubSeq(words, 1, k) = Append(before, word)
    BY OneMore
  <2>2. /\ line \in Seq(Pieces) /\ \A i \in DOMAIN line : line[i] # Tab
        /\ IF k - 1 = 0 THEN line = <<>> ELSE line # <<>> /\ line[1] = words[1]
        /\ m <= Length(line) /\ Length(line) <= m + (k - 1)
    BY <1>3 DEF JoinedSize
  <2>3. k \in Nat /\ k >= 1
    OBVIOUS
  <2>w. word \in Pieces /\ word.len \in Nat /\ word # Tab
    BY <2>1, NoWordIsTab
  <2>x. k = 1 => word = words[1]
    OBVIOUS
  <2> HIDE DEF word, before
  <2>4. m \in Nat /\ Length(line) \in Nat /\ Length(SubSeq(words, 1, k)) = m + word.len
    <3>1. before \in Seq(Pieces)
      BY <2>1, WordsArePieces
    <3>2. Length(Append(before, word)) = m + word.len
      BY <2>w, <3>1, LengthAppend
    <3> QED
      BY Zenon, <2>1, <2>2, <3>1, <3>2, LengthIs
  <2> HIDE DEF m
  <2>5. CASE k = 1
    <3>1. JoinWord(line, word) = <<word>>
      BY <2>2, <2>5, <2>w DEF JoinWord, If
    <3>2. Length(<<word>>) = word.len
      <4>1. <<word>> = Append(<<>>, word) /\ <<>> \in Seq(Pieces)
        BY <2>w
      <4>2. Length(Append(<<>>, word)) = Length(<<>>) + word.len
        BY Zenon, <2>w, <4>1, LengthAppend
      <4> QED
        BY <2>w, <4>1, <4>2, LengthNone
    <3>3. m <= Length(line) /\ Length(line) = 0 /\ m = 0
      BY <2>2, <2>4, <2>5, LengthNone
    <3>4. <<word>> \in Seq(Pieces) /\ <<word>>[1] = words[1] /\ <<word>> # <<>>
          /\ \A i \in DOMAIN <<word>> : <<word>>[i] # Tab
      BY <2>w, <2>x, <2>5
    <3> DEFINE now == <<word>>
    <3>5. /\ now \in Seq(Pieces) /\ now[1] = words[1] /\ now # <<>>
          /\ (\A i \in DOMAIN now : now[i] # Tab) /\ Length(now) = word.len
      BY <3>2, <3>4
    <3> HIDE DEF now
    <3>6. JoinedSize(now, k, words)
      BY <2>w, <2>3, <2>4, <2>5, <3>3, <3>5 DEF JoinedSize
    <3> QED
      BY <3>1, <3>6 DEF now, word
  <2>6. CASE k # 1
    <3> DEFINE spaced == Append(line, Space)
               now == Append(spaced, word)
    <3>1. line # <<>> /\ line[1] = words[1]
      BY <2>2, <2>3, <2>6
    <3>2. JoinWord(line, word) = now
      <4>1. JoinWord(line, word) = (line \o <<Space>>) \o <<word>>
        BY <3>1 DEF JoinWord, If
      <4> QED
        BY <4>1, <2>w, <2>2, NoWordIsTab
    <3>9. /\ spaced \in Seq(Pieces) /\ spaced # <<>> /\ spaced[1] = words[1]
          /\ \A i \in DOMAIN spaced :
               spaced[i] = Space \/ (i \in DOMAIN line /\ spaced[i] = line[i])
      BY <2>2, <3>1, NoWordIsTab
    <3>3. /\ now \in Seq(Pieces) /\ now # <<>> /\ now[1] = words[1]
          /\ \A i \in DOMAIN now : now[i] = Space \/ now[i] = word \/
                                   (i \in DOMAIN line /\ now[i] = line[i])
      <4> HIDE DEF spaced
      <4> QED
        BY <2>w, <3>9
    <3>5. Length(now) = (Length(line) + 1) + word.len
      <4>1. Length(spaced) = Length(line) + 1
        BY <2>2, NoWordIsTab, LengthAppend
      <4> HIDE DEF spaced
      <4>2. Length(now) = Length(spaced) + word.len
        BY <2>w, <3>9, LengthAppend
      <4> QED
        BY <4>1, <4>2
    <3> HIDE DEF now, spaced
    <3>6. \A i \in DOMAIN now : now[i] # Tab
      BY <2>w, <2>2, <3>3, NoWordIsTab
    <3>7. /\ m + word.len <= Length(now) /\ Length(now) <= (m + word.len) + k
      BY <2>w, <2>2, <2>3, <2>4, <3>5
    <3>8. JoinedSize(now, k, words)
      BY <2>3, <2>4, <2>6, <3>3, <3>6, <3>7 DEF JoinedSize
    <3> QED
      BY <3>2, <3>8 DEF word
  <2> QED
    BY <2>5, <2>6
<1>4. JoinedSize(JoinSizes!Fold(<<>>, words), Len(words), words)
  BY <1>2, <1>3, JoinSizes!FoldHolds
<1>5. SubSeq(words, 1, Len(words)) = words /\ (words = <<>> <=> Len(words) = 0)
  OBVIOUS
<1> QED
  BY Zenon, <1>1, <1>4, <1>5 DEF JoinedSize

-----------------------------------------------------------------------------
(* A row ends where the first word of the next has no room.                *)
Full(row, word, width) == Length(Joined(row)) + word.len > width

FilledSoFar(acc, n, c) ==
  /\ acc = [width |-> acc.width, rows |-> acc.rows, row |-> acc.row]
  /\ acc.width = c
  /\ acc.rows \in Seq(Seq(WordPieces)) /\ acc.row \in Seq(WordPieces)
  /\ \A i \in DOMAIN acc.rows : acc.rows[i] # <<>>
  /\ \A i \in 1 .. (Len(acc.rows) - 1) : Full(acc.rows[i], acc.rows[i + 1][1], c)
  /\ acc.rows # <<>> =>
       \/ acc.row # <<>> /\ Full(acc.rows[Len(acc.rows)], acc.row[1], c)
       \/ acc.row = <<>> /\ Length(Joined(acc.rows[Len(acc.rows)])) > c

FillFold == INSTANCE FoldInduction WITH op <- TakeWord, Holds <- FilledSoFar

(* Another row.                                                            *)
LEMMA FullAppend ==
  ASSUME NEW c, NEW rows \in Seq(Seq(WordPieces)), NEW row \in Seq(WordPieces), row # <<>>,
         \A i \in DOMAIN rows : rows[i] # <<>>,
         \A i \in 1 .. (Len(rows) - 1) : Full(rows[i], rows[i + 1][1], c),
         rows # <<>> => Full(rows[Len(rows)], row[1], c)
  PROVE  LET more == Append(rows, row)
         IN /\ more \in Seq(Seq(WordPieces)) /\ more # <<>> /\ more[Len(more)] = row
            /\ \A i \in DOMAIN more : more[i] # <<>>
            /\ \A i \in 1 .. (Len(more) - 1) : Full(more[i], more[i + 1][1], c)
<1> DEFINE more == Append(rows, row)
           n == Len(rows)
           T == Seq(WordPieces)
<1>1. rows \in Seq(T) /\ row \in T
  OBVIOUS
<1> HIDE DEF T
<1>2. /\ more \in Seq(T) /\ Len(more) = n + 1 /\ more[n + 1] = row /\ n \in Nat
      /\ DOMAIN more = 1 .. (n + 1) /\ DOMAIN rows = 1 .. n
      /\ \A i \in 1 .. n : more[i] = rows[i]
  BY <1>1
<1>e. rows # <<>> <=> n # 0
  BY <1>1
<1> HIDE DEF more, n
<1>3. \A i \in DOMAIN more : more[i] # <<>>
  BY <1>2
<1>4. ASSUME NEW i \in 1 .. n
      PROVE  Full(more[i], more[i + 1][1], c)
  <2>1. CASE i = n
    <3>1. more[i] = rows[n] /\ more[i + 1] = row /\ rows # <<>>
      BY <1>2, <1>e, <2>1
    <3> QED
      BY <3>1 DEF n
  <2>2. CASE i # n
    <3>1. i \in 1 .. (n - 1) /\ more[i] = rows[i] /\ more[i + 1] = rows[i + 1]
      BY <1>2, <2>2
    <3> QED
      BY <3>1 DEF n
  <2> QED
    BY <2>1, <2>2
<1>5. more # <<>> /\ more[Len(more)] = row /\ Len(more) - 1 = n
  BY <1>2
<1> QED
  BY <1>2, <1>3, <1>4, <1>5 DEF more, T

LEMMA OneWord ==
  ASSUME NEW word \in WordPieces
  PROVE  /\ <<word>> \in Seq(WordPieces) /\ <<word>> # <<>> /\ <<word>>[1] = word
         /\ Length(Joined(<<word>>)) >= word.len
<1> DEFINE one == <<word>>
<1>1. one \in Seq(WordPieces) /\ one # <<>> /\ one[1] = word
  OBVIOUS
<1>2. Length(one) = word.len
  <2>1. one = Append(<<>>, word) /\ <<>> \in Seq(Pieces) /\ word \in Pieces /\ word.len \in Nat
    BY NoWordIsTab
  <2>2. Length(Append(<<>>, word)) = Length(<<>>) + word.len
    BY Zenon, <2>1, LengthAppend
  <2> QED
    BY <2>1, <2>2, LengthNone
<1> HIDE DEF one
<1>3. Length(one) <= Length(Joined(one))
  BY <1>1, JoinedSizes
<1>4. Length(Joined(one)) \in Nat /\ word.len \in Nat
  BY <1>1, JoinedSizes, LengthIs, NoWordIsTab
<1> QED
  BY <1>1, <1>2, <1>3, <1>4 DEF one

LEMMA JoinedLength ==
  ASSUME NEW words \in Seq(WordPieces)
  PROVE  Length(Joined(words)) \in Nat
  BY JoinedSizes, LengthIs

LEMMA AppendFirst ==
  ASSUME NEW T, NEW s \in Seq(T), NEW x \in T
  PROVE  /\ Append(s, x) \in Seq(T) /\ Append(s, x) # <<>>
         /\ Append(s, x)[1] = IF s = <<>> THEN x ELSE s[1]
<1>1. Append(s, x) \in Seq(T) /\ Len(Append(s, x)) # 0
  OBVIOUS
<1>2. Append(s, x) # <<>>
  <2> DEFINE t == Append(s, x)
  <2>1. t \in Seq(T) /\ Len(t) # 0
    BY <1>1
  <2> HIDE DEF t
  <2>2. t # <<>>
    BY <2>1
  <2> QED
    BY <2>2 DEF t
<1>3. s = <<>> => Append(s, x)[1] = x
  OBVIOUS
<1>4. s # <<>> => Append(s, x)[1] = s[1]
  OBVIOUS
<1> QED
  BY <1>1, <1>2, <1>3, <1>4

(* What TakeWord() makes of the width and the rows so far.                 *)
NextRows(width, rows, row, word) ==
  IF ~Full(row, word, width) THEN [width |-> width, rows |-> rows, row |-> Append(row, word)]
  ELSE IF row = <<>> THEN [width |-> width, rows |-> Append(rows, <<word>>), row |-> row]
  ELSE [width |-> width, rows |-> Append(rows, row), row |-> <<word>>]

LEMMA TakesWord ==
  ASSUME NEW acc, NEW width \in Nat, NEW rows, NEW row \in Seq(WordPieces), NEW word,
         word.len \in Nat, acc = [width |-> width, rows |-> rows, row |-> row]
  PROVE  TakeWord(acc, word) = NextRows(width, rows, row, word)
<1> DEFINE fits == Length(Joined(row)) + word.len <= width
<1>1. acc.width = width /\ acc.rows = rows /\ acc.row = row
  OBVIOUS
<1>2. ASSUME fits
      PROVE  TakeWord(acc, word) = [width |-> width, rows |-> rows, row |-> Append(row, word)]
  <2> DEFINE x == Append(acc.row, word)
  <2>1. TakeWord(acc, word) = [acc EXCEPT !.row = x]
    BY <1>1, <1>2 DEF TakeWord
  <2> HIDE DEF x
  <2>2. [acc EXCEPT !.row = x] = [width |-> width, rows |-> rows, row |-> x]
    OBVIOUS
  <2> QED
    BY Zenon, <1>1, <2>1, <2>2 DEF x
<1>3. ASSUME ~fits, row = <<>>
      PROVE  TakeWord(acc, word)
               = [width |-> width, rows |-> Append(rows, <<word>>), row |-> row]
  <2> DEFINE x == Append(acc.rows, <<word>>)
  <2>1. TakeWord(acc, word) = [acc EXCEPT !.rows = x]
    BY <1>1, <1>3 DEF TakeWord
  <2> HIDE DEF x
  <2>2. [acc EXCEPT !.rows = x] = [width |-> width, rows |-> x, row |-> row]
    OBVIOUS
  <2> QED
    BY Zenon, <1>1, <2>1, <2>2 DEF x
<1>4. ASSUME ~fits, row # <<>>
      PROVE  TakeWord(acc, word)
               = [width |-> width, rows |-> Append(rows, row), row |-> <<word>>]
  <2> DEFINE x == Append(acc.rows, acc.row)
             y == <<word>>
  <2>1. TakeWord(acc, word) = [acc EXCEPT !.rows = x, !.row = y]
    BY <1>1, <1>4 DEF TakeWord
  <2> HIDE DEF x, y
  <2>2. [acc EXCEPT !.rows = x, !.row = y] = [width |-> width, rows |-> x, row |-> y]
    <3> DEFINE both == [acc EXCEPT !.rows = x, !.row = y]
    <3>1. DOMAIN both = {"width", "rows", "row"}
      BY Z3
    <3>2. both.width = width
      OBVIOUS
    <3>3. both.rows = x
      OBVIOUS
    <3>4. both.row = y
      OBVIOUS
    <3>5. both = [i \in DOMAIN both |-> both[i]]
      BY Zenon
    <3> HIDE DEF both
    <3>6. both = [width |-> width, rows |-> x, row |-> y]
      BY <3>1, <3>2, <3>3, <3>4, <3>5
    <3> QED
      BY <3>6 DEF both
  <2> QED
    BY Zenon, <1>1, <2>1, <2>2 DEF x, y
<1>5. fits <=> ~Full(row, word, width)
  <2>1. Length(Joined(row)) \in Nat
    BY JoinedLength
  <2> QED
    BY <2>1 DEF Full
<1> HIDE DEF fits
<1> QED
  BY Zenon, <1>2, <1>3, <1>4, <1>5 DEF NextRows

(* What a row was filled with, or that it takes the next word.             *)
LEMMA FilledStep ==
  ASSUME NEW acc, NEW n, NEW m, NEW c \in Nat, FilledSoFar(acc, n, c), NEW word \in WordPieces
  PROVE  FilledSoFar(TakeWord(acc, word), m, c)
<1> DEFINE rows == acc.rows
           row == acc.row
           last == rows[Len(rows)]
           next == TakeWord(acc, word)
           T == Seq(WordPieces)
<1>1. /\ acc = [width |-> c, rows |-> rows, row |-> row]
      /\ rows \in Seq(Seq(WordPieces)) /\ row \in Seq(WordPieces)
      /\ \A i \in DOMAIN rows : rows[i] # <<>>
      /\ \A i \in 1 .. (Len(rows) - 1) : Full(rows[i], rows[i + 1][1], c)
      /\ rows # <<>> =>
           \/ row # <<>> /\ Full(last, row[1], c)
           \/ row = <<>> /\ Length(Joined(last)) > c
  BY DEF FilledSoFar
<1>2. word.len \in Nat
  BY NoWordIsTab
<1>3. rows # <<>> => Length(Joined(last)) \in Nat
  <2> SUFFICES ASSUME rows # <<>>
               PROVE  Length(Joined(last)) \in Nat
    OBVIOUS
  <2>1. rows \in Seq(T)
    BY <1>1
  <2> HIDE DEF T, rows
  <2>2. last \in T
    BY <2>1
  <2> QED
    BY <2>2, JoinedLength DEF T
<1>4. rows # <<>> /\ row = <<>> => Full(last, word, c)
  BY <1>1, <1>2, <1>3 DEF Full
<1> DEFINE fits == ~Full(row, word, c)
<1>5. next = NextRows(c, rows, row, word)
  <2>1. acc = [width |-> c, rows |-> rows, row |-> row] /\ row \in Seq(WordPieces)
    BY <1>1
  <2> HIDE DEF rows, row
  <2> QED
    BY <1>2, <2>1, TakesWord
<1>6. Length(Joined(row)) \in Nat
  BY <1>1, JoinedLength
<1>7. CASE fits
  <2> DEFINE longer == Append(row, word)
  <2>1. next = [width |-> c, rows |-> rows, row |-> longer]
    BY <1>5, <1>7 DEF NextRows
  <2>2. /\ longer \in Seq(WordPieces) /\ longer # <<>>
        /\ longer[1] = IF row = <<>> THEN word ELSE row[1]
    <3>1. row \in Seq(WordPieces)
      BY <1>1
    <3> HIDE DEF row
    <3> HIDE DEF rows
    <3> QED
      BY <3>1, AppendFirst
  <2> HIDE DEF longer
  <2>3. rows # <<>> => Full(last, longer[1], c)
    BY <1>1, <1>4, <2>2
  <2> HIDE DEF next
  <2>4. next.width = c /\ next.rows = rows /\ next.row = longer
    BY <2>1
  <2>5. next = [width |-> next.width, rows |-> next.rows, row |-> next.row]
    BY <2>1
  <2> HIDE DEF rows
  <2>6. FilledSoFar(next, m, c)
    BY <1>1, <2>2, <2>3, <2>4, <2>5 DEF FilledSoFar
  <2> QED
    BY <2>6 DEF next
<1>8. CASE ~fits /\ row = <<>>
  <2> DEFINE one == <<word>>
             more == Append(rows, one)
  <2>1. next = [width |-> c, rows |-> more, row |-> <<>>]
    BY <1>5, <1>8 DEF NextRows
  <2>2. one \in Seq(WordPieces) /\ one # <<>> /\ one[1] = word /\ Length(Joined(one)) >= word.len
    BY OneWord
  <2>3. Length(Joined(one)) > c
    <3>1. Joined(row) = <<>>
      BY Zenon, <1>1, <1>8, JoinedSizes
    <3>2. Length(Joined(row)) = 0
      BY Zenon, <3>1, LengthNone
    <3>3. Length(Joined(one)) \in Nat
      BY Zenon, <2>2, JoinedLength
    <3> HIDE DEF one
    <3> QED
      BY <1>2, <1>8, <2>2, <3>2, <3>3 DEF Full
  <2> HIDE DEF one
  <2>4. rows # <<>> => Full(last, one[1], c)
    BY <1>4, <1>8, <2>2
  <2> HIDE DEF rows, row
  <2>5. /\ more \in Seq(Seq(WordPieces)) /\ more # <<>> /\ more[Len(more)] = one
        /\ \A i \in DOMAIN more : more[i] # <<>>
        /\ \A i \in 1 .. (Len(more) - 1) : Full(more[i], more[i + 1][1], c)
    BY Zenon, <1>1, <2>2, <2>4, FullAppend
  <2> HIDE DEF more, next
  <2>6. /\ next.width = c /\ next.rows = more /\ next.row = <<>>
        /\ next = [width |-> next.width, rows |-> next.rows, row |-> next.row]
    BY <2>1
  <2>7. Length(Joined(more[Len(more)])) > c
    BY <2>3, <2>5
  <2>8. <<>> \in Seq(WordPieces)
    OBVIOUS
  <2>9. FilledSoFar(next, m, c)
    BY <2>5, <2>6, <2>7, <2>8 DEF FilledSoFar
  <2> QED
    BY <2>9 DEF next
<1>9. CASE ~fits /\ row # <<>>
  <2> DEFINE one == <<word>>
             more == Append(rows, row)
  <2>1. next = [width |-> c, rows |-> more, row |-> one]
    BY <1>5, <1>9 DEF NextRows
  <2>2. one \in Seq(WordPieces) /\ one # <<>> /\ one[1] = word
    BY OneWord
  <2> HIDE DEF one
  <2>3. Full(row, word, c)
    BY <1>2, <1>6, <1>9 DEF Full
  <2>4. rows # <<>> => Full(last, row[1], c)
    BY <1>1, <1>9
  <2> HIDE DEF rows, row
  <2>5. /\ more \in Seq(Seq(WordPieces)) /\ more # <<>> /\ more[Len(more)] = row
        /\ \A i \in DOMAIN more : more[i] # <<>>
        /\ \A i \in 1 .. (Len(more) - 1) : Full(more[i], more[i + 1][1], c)
    BY Zenon, <1>1, <1>9, <2>4, FullAppend
  <2> HIDE DEF more, next
  <2>6. /\ next.width = c /\ next.rows = more /\ next.row = one
        /\ next = [width |-> next.width, rows |-> next.rows, row |-> next.row]
    BY <2>1
  <2>7. Full(more[Len(more)], one[1], c)
    BY <2>2, <2>3, <2>5
  <2>9. FilledSoFar(next, m, c)
    BY <2>2, <2>5, <2>6, <2>7 DEF FilledSoFar
  <2> QED
    BY <2>9 DEF next
<1> QED
  BY <1>7, <1>8, <1>9

(* print_token_array() ends a row only where the next word has no room.    *)
LEMMA RowsFilled ==
  ASSUME NEW words \in Seq(WordPieces), NEW width \in Nat
  PROVE  LET rows == Rows(words, width)
         IN /\ \A i \in DOMAIN rows : rows[i] # <<>>
            /\ \A i \in 1 .. (Len(rows) - 1) : Full(rows[i], rows[i + 1][1], width)
<1> DEFINE base == [width |-> width, rows |-> <<>>, row |-> <<>>]
           end == FoldLeft(TakeWord, base, words)
<1>1. end = FillFold!Fold(base, words)
  BY Zenon DEF FillFold!Fold, FillFold!Greatest, FoldLeft, MapThenFoldSet, Max
<1>2. FilledSoFar(base, 0, width)
  <2>1. <<>> \in Seq(Seq(WordPieces)) /\ <<>> \in Seq(WordPieces) /\ Len(<<>>) = 0
    OBVIOUS
  <2>2. base.width = width /\ base.rows = <<>> /\ base.row = <<>>
    OBVIOUS
  <2>3. base = [width |-> base.width, rows |-> base.rows, row |-> base.row]
    OBVIOUS
  <2> HIDE DEF base
  <2> QED
    BY <2>1, <2>2, <2>3 DEF FilledSoFar
<1> HIDE DEF base
<1>3. \A k \in DOMAIN words : \A acc :
        FilledSoFar(acc, k - 1, width) => FilledSoFar(TakeWord(acc, words[k]), k, width)
  <2>1. \A k \in DOMAIN words : words[k] \in WordPieces
    OBVIOUS
  <2> QED
    BY <2>1, FilledStep
<1>4. FilledSoFar(end, Len(words), width)
  BY <1>1, <1>2, <1>3, FillFold!FoldHolds
<1>5. Rows(words, width) = end.rows \o If(end.row # <<>>, <<end.row>>)
  BY DEF Rows, base
<1> HIDE DEF end
<1>6. /\ end.rows \in Seq(Seq(WordPieces)) /\ end.row \in Seq(WordPieces)
      /\ \A i \in DOMAIN end.rows : end.rows[i] # <<>>
      /\ \A i \in 1 .. (Len(end.rows) - 1) : Full(end.rows[i], end.rows[i + 1][1], width)
      /\ end.rows # <<>> /\ end.row # <<>> => Full(end.rows[Len(end.rows)], end.row[1], width)
  BY <1>4 DEF FilledSoFar
<1>7. CASE end.row = <<>>
  <2>1. Rows(words, width) = end.rows
    BY <1>5, <1>6, <1>7 DEF If
  <2> QED
    BY <1>6, <2>1
<1>8. CASE end.row # <<>>
  <2>1. Rows(words, width) = Append(end.rows, end.row)
    BY <1>5, <1>6, <1>8 DEF If
  <2> QED
    BY <1>6, <1>8, <2>1, FullAppend
<1> QED
  BY <1>7, <1>8

-----------------------------------------------------------------------------
(* Words that have room in one row are in one.                             *)
WholeSoFar(acc, n, c) ==
  acc = [width |-> c.width, rows |-> <<>>, row |-> SubSeq(c.words, 1, n)]

WholeFold == INSTANCE FoldInduction WITH op <- TakeWord, Holds <- WholeSoFar

LEMMA RowsWhole ==
  ASSUME NEW words \in Seq(WordPieces), NEW width \in Nat, Length(words) + Len(words) <= width
  PROVE  Len(Rows(words, width)) <= 1
<1> DEFINE base == [width |-> width, rows |-> <<>>, row |-> <<>>]
           end == FoldLeft(TakeWord, base, words)
           c == [width |-> width, words |-> words]
<1>1. end = WholeFold!Fold(base, words)
  BY Zenon DEF WholeFold!Fold, WholeFold!Greatest, FoldLeft, MapThenFoldSet, Max
<1>2. WholeSoFar(base, 0, c)
  <2>1. SubSeq(words, 1, 0) = <<>>
    OBVIOUS
  <2> QED
    BY <2>1 DEF WholeSoFar
<1>3. ASSUME NEW k \in DOMAIN words, NEW acc, WholeSoFar(acc, k - 1, c)
      PROVE  WholeSoFar(TakeWord(acc, words[k]), k, c)
  <2> DEFINE word == words[k]
             before == SubSeq(words, 1, k - 1)
             rest == SubSeq(words, k + 1, Len(words))
  <2>1. word \in WordPieces /\ before \in Seq(WordPieces) /\ SubSeq(words, 1, k) = Append(before, word)
    BY OneMore
  <2>2. k \in 1 .. Len(words) /\ Len(words) \in Nat /\ Len(before) = k - 1
    OBVIOUS
  <2>3. /\ rest \in Seq(WordPieces) /\ words = SubSeq(words, 1, k) \o rest
    <3>1. k \in 0 .. Len(words)
      BY <2>2
    <3> QED
      BY Zenon, <3>1, CutAnywhere
  <2>4. acc = [width |-> width, rows |-> <<>>, row |-> before]
    BY <1>3 DEF WholeSoFar
  <2> HIDE DEF word, before, rest
  <2>5. /\ before \in Seq(Pieces) /\ rest \in Seq(Pieces) /\ word \in Pieces /\ word.len \in Nat
        /\ Append(before, word) \in Seq(Pieces)
    <3>1. before \in Seq(Pieces) /\ rest \in Seq(Pieces) /\ word \in Pieces /\ word.len \in Nat
      BY <2>1, <2>3, WordsArePieces, NoWordIsTab
    <3> QED
      BY <3>1
  <2>6. Length(words) = (Length(before) + word.len) + Length(rest)
    <3>1. words = Append(before, word) \o rest
      BY Zenon, <2>1, <2>3
    <3>2. Length(Append(before, word) \o rest) = Length(Append(before, word)) + Length(rest)
      BY Zenon, <2>5, LengthConcat
    <3>3. Length(Append(before, word)) = Length(before) + word.len
      BY <2>5, LengthAppend
    <3> QED
      BY Zenon, <3>1, <3>2, <3>3
  <2>7. Length(before) \in Nat /\ Length(rest) \in Nat /\ Length(Joined(before)) \in Nat
        /\ Length(Joined(before)) <= Length(before) + Len(before)
    BY <2>1, <2>5, LengthIs, JoinedLength, JoinedSizes
  <2>8. Length(Joined(before)) + word.len <= width
    <3> DEFINE a == Length(Joined(before))
               b == Length(before)
               d == Length(rest)
               e == word.len
               n == Len(words)
               m == Length(words)
    <3>1. /\ a \in Nat /\ b \in Nat /\ d \in Nat /\ e \in Nat /\ n \in Nat /\ a <= b + (k - 1)
          /\ m = (b + e) + d /\ m + n <= width /\ k <= n /\ k \in Nat
      BY <2>2, <2>5, <2>6, <2>7
    <3> HIDE DEF a, b, d, e, n, m
    <3>2. a + e <= width
      BY <3>1
    <3> QED
      BY <3>2 DEF a, e
  <2>9. TakeWord(acc, word) = [acc EXCEPT !.row = Append(@, word)]
    BY <2>4, <2>8 DEF TakeWord
  <2>10. TakeWord(acc, word) = [width |-> width, rows |-> <<>>, row |-> SubSeq(words, 1, k)]
    BY Zenon, <2>1, <2>4, <2>9
  <2> QED
    BY <2>10 DEF WholeSoFar, word
<1> HIDE DEF base, c
<1>4. WholeSoFar(end, Len(words), c)
  BY <1>1, <1>2, <1>3, WholeFold!FoldHolds
<1>5. Rows(words, width) = end.rows \o If(end.row # <<>>, <<end.row>>)
  BY DEF Rows, base
<1>6. end.rows = <<>>
  BY <1>4 DEF WholeSoFar
<1> HIDE DEF end
<1> DEFINE tail == If(end.row # <<>>, <<end.row>>)
<1>7. Rows(words, width) = <<>> \o tail
  BY Zenon, <1>5, <1>6
<1>8. CASE end.row = <<>>
  <2>1. tail = <<>>
    BY <1>8 DEF If
  <2>2. <<>> \o <<>> = <<>> /\ Len(<<>>) = 0
    OBVIOUS
  <2> QED
    BY <1>7, <2>1, <2>2
<1>9. CASE end.row # <<>>
  <2> DEFINE row == end.row
  <2>1. tail = <<row>>
    BY <1>9 DEF If
  <2> HIDE DEF row, tail
  <2>2. <<>> \o <<row>> = <<row>> /\ Len(<<row>>) = 1
    OBVIOUS
  <2> QED
    BY <1>7, <2>1, <2>2
<1> QED
  BY <1>8, <1>9

-----------------------------------------------------------------------------
(* The lines of rows, with what is in front of the first.                  *)
LineAt(head, bodies, i) == IF i = 1 THEN head \o bodies[i] ELSE bodies[i]

Continued == <<Space, Backslash>>

(* What was read after some of the rows.                                   *)
Ended(acc, k, head, bodies) ==
  /\ acc = [lines |-> acc.lines, line |-> acc.line]
  /\ acc.lines \in Seq(Seq(Pieces)) /\ acc.line \in Seq(Pieces)
  /\ Len(acc.lines) = IF k # 0 /\ k = Len(bodies) THEN k - 1 ELSE k
  /\ \A i \in DOMAIN acc.lines : acc.lines[i] = LineAt(head, bodies, i) \o Continued
  /\ acc.line = CASE k = 0 -> head
                  [] k # 0 /\ k = Len(bodies) -> LineAt(head, bodies, k)
                  [] k # 0 /\ k # Len(bodies) -> <<>>

BodyOf(body, more) == body \o If(more, <<Space, Backslash, Newline>>)

LEMMA ContinuedIs ==
  /\ Continued \in Seq(Pieces) /\ Len(Continued) = 2 /\ InLine(Continued)
  /\ <<Newline>> \in Seq(Pieces) /\ <<Space, Backslash, Newline>> = Continued \o <<Newline>>
<1>1. Continued \in Seq(Pieces) /\ Len(Continued) = 2 /\ InLine(Continued)
  BY PiecesAre DEF Continued, InLine
<1>2. <<Newline>> \in Seq(Pieces)
  BY PiecesAre
<1>3. <<Space, Backslash, Newline>> = Continued \o <<Newline>>
  BY PiecesAre, Three DEF Continued
<1> QED
  BY <1>1, <1>2, <1>3

LEMMA InLineBoth ==
  ASSUME NEW s \in Seq(Pieces), NEW t \in Seq(Pieces), InLine(s), InLine(t)
  PROVE  s \o t \in Seq(Pieces) /\ InLine(s \o t)
<1> DEFINE both == s \o t
<1>1. /\ both \in Seq(Pieces) /\ DOMAIN both = 1 .. (Len(s) + Len(t))
      /\ Len(s) \in Nat /\ Len(t) \in Nat
      /\ \A i \in 1 .. Len(s) : both[i] = s[i] /\ i \in DOMAIN s
      /\ \A i \in (Len(s) + 1) .. (Len(s) + Len(t)) :
           both[i] = t[i - Len(s)] /\ i - Len(s) \in DOMAIN t
  OBVIOUS
<1>2. \A i \in DOMAIN both : i \in 1 .. Len(s) \/ i \in (Len(s) + 1) .. (Len(s) + Len(t))
  BY <1>1
<1> HIDE DEF both
<1>3. InLine(both)
  BY <1>1, <1>2 DEF InLine
<1> QED
  BY <1>1, <1>3 DEF both

(* One row is a line, but for the last that goes on.                       *)
LEMMA OneLine ==
  ASSUME NEW head \in Seq(Pieces), NEW bodies \in Seq(Seq(Pieces)),
         NEW k \in Nat, k < Len(bodies), InLine(bodies[k + 1]),
         NEW acc, Ended(acc, k, head, bodies)
  PROVE  LET more == k + 1 < Len(bodies)
         IN Ended(PieceFold!Fold(acc, BodyOf(bodies[k + 1], more)), k + 1, head, bodies)
<1> DEFINE n == Len(bodies)
           body == bodies[k + 1]
           line == LineAt(head, bodies, k + 1)
           lines == acc.lines
           T == Seq(Pieces)
<1>1. n \in Nat /\ body \in Seq(Pieces) /\ k # n /\ k + 1 <= n
  <2>1. bodies \in Seq(T)
    OBVIOUS
  <2> HIDE DEF T
  <2>2. Len(bodies) \in Nat /\ k + 1 \in DOMAIN bodies
    BY <2>1
  <2> QED
    BY <2>1, <2>2 DEF T
<1>2. /\ acc = [lines |-> lines, line |-> acc.line]
      /\ lines \in Seq(Seq(Pieces)) /\ acc.line \in Seq(Pieces) /\ Len(lines) = k
      /\ \A i \in DOMAIN lines : lines[i] = LineAt(head, bodies, i) \o Continued
      /\ acc.line = IF k = 0 THEN head ELSE <<>>
  BY Zenon, <1>1 DEF Ended
<1>3. acc.line \o body = line /\ line \in Seq(Pieces)
  <2>1. CASE k = 0
    BY <1>1, <1>2, <2>1 DEF LineAt
  <2>2. CASE k # 0
    <3>1. acc.line = <<>> /\ line = body
      BY <1>2, <2>2 DEF LineAt
    <3> HIDE DEF body, line
    <3>2. <<>> \o body = body
      BY <1>1
    <3> QED
      BY <1>1, <3>1, <3>2
  <2> QED
    BY Zenon, <2>1, <2>2
<1>4. InLine(body)
  OBVIOUS
<1> HIDE DEF body, line, lines
<1>5. PieceFold!Fold(acc, body) = [lines |-> lines, line |-> line]
  BY Zenon, <1>1, <1>2, <1>3, <1>4, InLineTaken
<1>6. CASE k + 1 = n
  <2> DEFINE now == PieceFold!Fold(acc, body)
  <2>1. BodyOf(body, k + 1 < n) = body
    <3>1. body \o <<>> = body
      BY <1>1
    <3> QED
      BY <1>1, <1>6, <3>1 DEF BodyOf, If
  <2>2. now = [lines |-> now.lines, line |-> now.line] /\ now.lines = lines /\ now.line = line
    BY <1>5
  <2> HIDE DEF now, n
  <2>3. Ended(now, k + 1, head, bodies)
    BY <1>1, <1>2, <1>3, <1>6, <2>2 DEF Ended, n, line
  <2> QED
    BY <2>1, <2>3 DEF now, n, body
<1>7. CASE k + 1 # n
  <2> DEFINE whole == line \o Continued
             with == Append(lines, whole)
             now == PieceFold!Fold(acc, BodyOf(body, k + 1 < n))
  <2>1. k + 1 < n
    BY <1>1, <1>7
  <2>2. BodyOf(body, k + 1 < n) = body \o (Continued \o <<Newline>>)
    BY Zenon, <2>1, ContinuedIs DEF BodyOf, If
  <2>3. PieceFold!Fold([lines |-> lines, line |-> line], Continued) = [lines |-> lines, line |-> whole]
    BY Zenon, <1>3, ContinuedIs, InLineTaken
  <2>4. PieceFold!Fold([lines |-> lines, line |-> whole], <<Newline>>)
          = [lines |-> with, line |-> <<>>]
    <3> HIDE DEF whole
    <3> QED
      BY Zenon, NewlineTaken
  <2>5. Continued \o <<Newline>> \in Seq(Pieces)
    BY ContinuedIs
  <2>6. now = PieceFold!Fold(PieceFold!Fold(acc, body), Continued \o <<Newline>>)
    <3> DEFINE rest == Continued \o <<Newline>>
    <3> HIDE DEF rest
    <3>1. rest \in Seq(Pieces)
      BY <2>5 DEF rest
    <3>2. PieceFold!Fold(acc, body \o rest) = PieceFold!Fold(PieceFold!Fold(acc, body), rest)
      BY <1>1, <3>1, PieceFold!FoldConcat
    <3> QED
      BY Zenon, <2>2, <3>2 DEF rest
  <2>7. PieceFold!Fold([lines |-> lines, line |-> line], Continued \o <<Newline>>)
          = PieceFold!Fold(PieceFold!Fold([lines |-> lines, line |-> line], Continued), <<Newline>>)
    BY Zenon, ContinuedIs, PieceFold!FoldConcat
  <2>8. now = [lines |-> with, line |-> <<>>]
    BY Zenon, <1>5, <2>3, <2>4, <2>6, <2>7
  <2>9. whole \in Seq(Pieces)
    BY <1>3, ContinuedIs
  <2> HIDE DEF now, whole
  <2>10. /\ with \in Seq(T) /\ Len(with) = k + 1 /\ with[k + 1] = whole
         /\ DOMAIN with = 1 .. (k + 1) /\ DOMAIN lines = 1 .. k
         /\ \A i \in 1 .. k : with[i] = lines[i]
    <3>1. lines \in Seq(T) /\ whole \in T
      BY <1>2, <2>9
    <3> HIDE DEF T
    <3> QED
      BY <1>2, <3>1
  <2> HIDE DEF with
  <2>11. \A i \in DOMAIN with : with[i] = LineAt(head, bodies, i) \o Continued
    <3>1. \A i \in 1 .. k : with[i] = LineAt(head, bodies, i) \o Continued
      BY Zenon, <1>2, <2>10
    <3>2. with[k + 1] = LineAt(head, bodies, k + 1) \o Continued
      BY <2>10 DEF whole, line
    <3>3. \A i \in DOMAIN with : i \in 1 .. k \/ i = k + 1
      BY <2>10
    <3> QED
      BY Zenon, <3>1, <3>2, <3>3
  <2>12. /\ now = [lines |-> now.lines, line |-> now.line]
         /\ now.lines = with /\ now.line = <<>>
    BY <2>8
  <2> HIDE DEF n
  <2>13. Ended(now, k + 1, head, bodies)
    BY <1>1, <1>7, <2>10, <2>11, <2>12 DEF Ended, n, T
  <2> QED
    BY <2>13 DEF now, n, body
<1> QED
  BY <1>6, <1>7

(* The lines of rows, one behind the other.                                *)
LEMMA RowsBroken ==
  ASSUME NEW head \in Seq(Pieces), NEW bodies \in Seq(Seq(Pieces)),
         \A i \in DOMAIN bodies : InLine(bodies[i]),
         NEW printed,
         printed = [i \in DOMAIN bodies |-> BodyOf(bodies[i], i < Len(bodies))]
  PROVE  /\ FlattenSeq(printed) \in Seq(Pieces)
         /\ Ended(PieceFold!Fold([lines |-> <<>>, line |-> head], FlattenSeq(printed)),
                  Len(bodies), head, bodies)
<1> DEFINE n == Len(bodies)
           acc == [lines |-> <<>>, line |-> head]
           At(k) == PieceFold!Fold(acc, FlattenSeq(SubSeq(printed, 1, k)))
           So == {k \in Nat : k <= n => Ended(At(k), k, head, bodies)}
<1>1. n \in Nat /\ DOMAIN bodies = 1 .. n
  OBVIOUS
<1>2. \A i \in 1 .. n : bodies[i] \in Seq(Pieces) /\ printed[i] = BodyOf(bodies[i], i < n)
                        /\ printed[i] \in Seq(Pieces)
  <2>1. ASSUME NEW i \in 1 .. n
        PROVE  bodies[i] \in Seq(Pieces) /\ printed[i] = BodyOf(bodies[i], i < n)
    <3> DEFINE T == Seq(Pieces)
    <3>1. bodies \in Seq(T) /\ i \in DOMAIN bodies
      BY <1>1
    <3> HIDE DEF T
    <3>2. bodies[i] \in T
      BY <3>1
    <3> QED
      BY <3>1, <3>2 DEF T
  <2>2. <<>> \in Seq(Pieces) /\ <<Space, Backslash, Newline>> \in Seq(Pieces)
    BY PiecesAre
  <2>3. ASSUME NEW s \in Seq(Pieces), NEW more
        PROVE  BodyOf(s, more) \in Seq(Pieces)
    BY <2>2, <2>3 DEF BodyOf, If
  <2> QED
    BY <2>1, <2>3
<1>3. printed \in Seq(Seq(Pieces)) /\ Len(printed) = n /\ DOMAIN printed = 1 .. n
  <2> DEFINE T == Seq(Pieces)
             e == printed
  <2>1. \A k \in 1 .. n : e[k] \in T
    BY <1>2
  <2>2. e = [k \in 1 .. n |-> e[k]]
    BY <1>1
  <2> HIDE DEF T, n, e
  <2>3. e \in Seq(T) /\ Len(e) = n /\ DOMAIN e = 1 .. n
    BY Zenon, <1>1, <2>1, <2>2, FunctionSeq
  <2> QED
    BY <2>3 DEF T, e
<1>4. 0 \in So
  <2>1. SubSeq(printed, 1, 0) = <<>>
    BY <1>3, NoneAndAll
  <2>2. FlattenSeq(<<>>) = <<>>
    <3>1. <<>> \in Seq(Pieces) /\ \A i \in DOMAIN <<>> : <<>>[i] = <<>>
      OBVIOUS
    <3> QED
      BY Zenon, <3>1, FlattenNothing
  <2>3. At(0) = acc
    BY Zenon, <2>1, <2>2, PieceFold!FoldNone
  <2>4. Ended(acc, 0, head, bodies)
    <3>1. /\ acc = [lines |-> acc.lines, line |-> acc.line] /\ acc.lines = <<>> /\ acc.line = head
          /\ <<>> \in Seq(Seq(Pieces)) /\ Len(<<>>) = 0 /\ DOMAIN <<>> = {}
      OBVIOUS
    <3> HIDE DEF acc
    <3> QED
      BY <1>1, <3>1 DEF Ended
  <2> QED
    BY <2>3, <2>4
<1>5. ASSUME NEW k \in Nat, k \in So
      PROVE  k + 1 \in So
  <2> SUFFICES ASSUME k + 1 <= n
               PROVE  Ended(At(k + 1), k + 1, head, bodies)
    OBVIOUS
  <2>1. Ended(At(k), k, head, bodies) /\ k + 1 \in 1 .. n /\ k < n /\ (k + 1) - 1 = k
    BY <1>1, <1>5
  <2> DEFINE before == SubSeq(printed, 1, k)
             flat == FlattenSeq(before)
             row == printed[k + 1]
             now == PieceFold!Fold(acc, flat)
  <2>2. /\ before \in Seq(Seq(Pieces)) /\ row \in Seq(Pieces)
        /\ SubSeq(printed, 1, k + 1) = Append(before, row)
    <3> DEFINE T == Seq(Pieces)
    <3>1. printed \in Seq(T) /\ k + 1 \in DOMAIN printed
      BY <1>3, <2>1
    <3> HIDE DEF T
    <3>2. /\ SubSeq(printed, 1, (k + 1) - 1) \in Seq(T) /\ printed[k + 1] \in T
          /\ SubSeq(printed, 1, k + 1) = Append(SubSeq(printed, 1, (k + 1) - 1), printed[k + 1])
      BY Zenon, <3>1, OneMore
    <3> QED
      BY Zenon, <2>1, <3>2 DEF T
  <2> HIDE DEF before, row
  <2>3. FlattenSeq(Append(before, row)) = flat \o row
    <3>1. Append(before, row) \in Seq(Seq(Pieces)) /\ Len(Append(before, row)) = Len(before) + 1
          /\ (\A i \in 1 .. Len(before) : Append(before, row)[i] = before[i])
          /\ Append(before, row)[Len(before) + 1] = row
      BY <2>2
    <3> QED
      BY Zenon, <2>2, <3>1, FlattenNext
  <2>4. flat \in Seq(Pieces)
    BY <2>2, FlattenType
  <2> HIDE DEF flat
  <2>5. At(k + 1) = PieceFold!Fold(now, row)
    <3>1. At(k + 1) = PieceFold!Fold(acc, FlattenSeq(SubSeq(printed, 1, k + 1)))
      OBVIOUS
    <3>2. FlattenSeq(SubSeq(printed, 1, k + 1)) = flat \o row
      BY Zenon, <2>2, <2>3
    <3>3. PieceFold!Fold(acc, flat \o row) = PieceFold!Fold(now, row)
      BY <2>2, <2>4, PieceFold!FoldConcat
    <3> HIDE DEF At, now
    <3> QED
      BY Zenon, <3>1, <3>2, <3>3
  <2>6. Ended(now, k, head, bodies)
    BY <2>1 DEF flat, before
  <2>7. row = BodyOf(bodies[k + 1], k + 1 < n) /\ InLine(bodies[k + 1])
    BY Zenon, <1>1, <1>2, <2>1 DEF row
  <2> HIDE DEF now, acc, row
  <2>8. Ended(PieceFold!Fold(now, BodyOf(bodies[k + 1], k + 1 < n)), k + 1, head, bodies)
    BY <2>1, <2>6, <2>7, OneLine
  <2> HIDE DEF At
  <2> QED
    BY <2>5, <2>7, <2>8
<1> HIDE DEF So
<1>6. n \in So
  BY Zenon, <1>1, <1>4, <1>5, SetInduction
<1>7. Ended(At(n), n, head, bodies)
  BY <1>1, <1>6 DEF So
<1>8. SubSeq(printed, 1, n) = printed
  BY <1>3, NoneAndAll
<1>9. FlattenSeq(printed) \in Seq(Pieces)
  BY Zenon, <1>3, FlattenType
<1> QED
  BY Zenon, <1>7, <1>8, <1>9

(* All lines but the last go on.                                           *)
Broken(lines, head, bodies, tail) ==
  /\ Len(lines) = IF bodies = <<>> THEN 1 ELSE Len(bodies)
  /\ \A i \in 1 .. (Len(bodies) - 1) : lines[i] = LineAt(head, bodies, i) \o Continued
  /\ bodies # <<>> => lines[Len(bodies)] = LineAt(head, bodies, Len(bodies)) \o tail

(* The lines of what print_newline_array() prints.                         *)
LEMMA LinesBroken ==
  ASSUME NEW head \in Seq(Pieces), InLine(head), NEW bodies \in Seq(Seq(Pieces)),
         \A i \in DOMAIN bodies : InLine(bodies[i]),
         NEW printed,
         printed = [i \in DOMAIN bodies |-> BodyOf(bodies[i], i < Len(bodies))],
         NEW tail \in Seq(Pieces), InLine(tail)
  PROVE  Broken(PhysicalLines(((head \o FlattenSeq(printed)) \o tail) \o <<Newline>>),
                head, bodies, tail)
<1> DEFINE flat == FlattenSeq(printed)
           n == Len(bodies)
           base == [lines |-> <<>>, line |-> <<>>]
           begun == [lines |-> <<>>, line |-> head]
           end == PieceFold!Fold(begun, flat)
           tailed == PieceFold!Fold(end, tail)
           done == PieceFold!Fold(tailed, <<Newline>>)
           body == head \o flat
           more == body \o tail
           nl == <<Newline>>
<1>1. flat \in Seq(Pieces) /\ Ended(end, n, head, bodies)
  BY RowsBroken
<1>2. PieceFold!Fold(base, head) = begun
  <2>1. <<>> \in Seq(Pieces) /\ <<>> \o head = head
    OBVIOUS
  <2> QED
    BY Zenon, <2>1, InLineTaken
<1>3. nl \in Seq(Pieces)
  BY PiecesAre
<1> HIDE DEF flat
<1>4. body \in Seq(Pieces) /\ more \in Seq(Pieces)
  BY <1>1
<1>5. PieceFold!Fold(base, body) = PieceFold!Fold(PieceFold!Fold(base, head), flat)
  BY <1>1, PieceFold!FoldConcat
<1> HIDE DEF body, base, nl
<1>6. PieceFold!Fold(base, more) = PieceFold!Fold(PieceFold!Fold(base, body), tail)
  BY <1>4, PieceFold!FoldConcat
<1> HIDE DEF more
<1>7. PieceFold!Fold(base, more \o nl) = PieceFold!Fold(PieceFold!Fold(base, more), nl)
  BY <1>3, <1>4, PieceFold!FoldConcat
<1> HIDE DEF begun
<1>8. PieceFold!Fold(base, more \o nl) = done
  BY Zenon, <1>2, <1>5, <1>6, <1>7 DEF nl
<1> HIDE DEF end
<1> DEFINE lines == end.lines
           line == end.line
           whole == line \o tail
           all == Append(lines, whole)
<1>9. /\ end = [lines |-> lines, line |-> line]
      /\ lines \in Seq(Seq(Pieces)) /\ line \in Seq(Pieces)
      /\ n \in Nat
      /\ Len(lines) = IF n = 0 THEN 0 ELSE n - 1
      /\ \A i \in DOMAIN lines : lines[i] = LineAt(head, bodies, i) \o Continued
      /\ n # 0 => line = LineAt(head, bodies, n)
  BY <1>1, PieceFold!FoldNone DEF Ended
<1> HIDE DEF lines, line
<1>10. tailed = [lines |-> lines, line |-> whole]
  BY Zenon, <1>9, InLineTaken
<1> HIDE DEF whole, tailed
<1>11. done = [lines |-> all, line |-> <<>>]
  BY Zenon, <1>10, NewlineTaken
<1>12. PhysicalLines(more \o nl) = all
  <2> DEFINE printedAs == more \o nl
  <2> HIDE DEF printedAs, done
  <2>1. FoldLeft(TakePiece, base, printedAs) = PieceFold!Fold(base, printedAs)
    BY Zenon DEF PieceFold!Fold, PieceFold!Greatest, FoldLeft, MapThenFoldSet, Max
  <2>2. PhysicalLines(printedAs) = FoldLeft(TakePiece, base, printedAs).lines
    BY DEF PhysicalLines, base
  <2>3. done.lines = all
    BY <1>11
  <2> QED
    BY Zenon, <1>8, <2>1, <2>2, <2>3 DEF printedAs
<1>13. whole \in Seq(Pieces)
  BY <1>9 DEF whole
<1>14. /\ Len(all) = Len(lines) + 1 /\ DOMAIN lines = 1 .. Len(lines)
       /\ (\A i \in DOMAIN lines : all[i] = lines[i]) /\ all[Len(lines) + 1] = whole
  <2> DEFINE T == Seq(Pieces)
  <2>1. lines \in Seq(T) /\ whole \in T
    BY <1>9, <1>13
  <2> HIDE DEF T
  <2> QED
    BY <2>1
<1> HIDE DEF all
<1>15. bodies = <<>> <=> n = 0
  <2> DEFINE T == Seq(Pieces)
  <2>1. bodies \in Seq(T)
    OBVIOUS
  <2> HIDE DEF T
  <2> QED
    BY <2>1
<1> HIDE DEF n
<1>16. /\ Len(all) = IF bodies = <<>> THEN 1 ELSE n
       /\ \A i \in 1 .. (n - 1) : all[i] = LineAt(head, bodies, i) \o Continued
       /\ bodies # <<>> => all[n] = LineAt(head, bodies, n) \o tail
  <2>1. \A i \in 1 .. (n - 1) : i \in DOMAIN lines
    BY <1>9, <1>14
  <2>2. bodies # <<>> => n = Len(lines) + 1
    BY <1>9, <1>15
  <2>3. Len(all) = IF bodies = <<>> THEN 1 ELSE n
    BY <1>9, <1>14, <1>15
  <2>4. \A i \in 1 .. (n - 1) : all[i] = LineAt(head, bodies, i) \o Continued
    BY Zenon, <1>9, <1>14, <2>1
  <2>5. bodies # <<>> => all[n] = LineAt(head, bodies, n) \o tail
    <3>1. bodies # <<>> => all[n] = whole
      BY <1>14, <2>2
    <3>2. bodies # <<>> => whole = LineAt(head, bodies, n) \o tail
      BY <1>9, <1>15 DEF whole
    <3> QED
      BY Zenon, <3>1, <3>2
  <2> QED
    BY Zenon, <2>3, <2>4, <2>5
<1>17. ((head \o FlattenSeq(printed)) \o tail) \o <<Newline>> = more \o nl
  BY DEF more, nl, body, flat
<1> HIDE DEF more
<1>18. Broken(all, head, bodies, tail)
  BY Zenon, <1>16 DEF Broken, n
<1> QED
  BY Zenon, <1>12, <1>17, <1>18

-----------------------------------------------------------------------------
(* Where no tab is, the column moves by the length.                        *)
PlainSoFar(column, n, c) ==
  LET length == Length(SubSeq(c.pieces, 1, n))
  IN length \in Nat /\ column = c.base + length

PlainFold == INSTANCE FoldInduction WITH op <- NextColumn, Holds <- PlainSoFar

LEMMA PlainColumn ==
  ASSUME NEW base \in Nat, NEW s \in Seq(Pieces), \A i \in DOMAIN s : s[i] # Tab
  PROVE  ColumnFold!Fold(base, s) = base + Length(s)
<1> DEFINE c == [base |-> base, pieces |-> s]
           L(n) == Length(SubSeq(s, 1, n))
<1>0. \A n, column : PlainSoFar(column, n, c) <=> L(n) \in Nat /\ column = base + L(n)
  BY DEF PlainSoFar
<1>1. L(0) = 0
  <2>1. SubSeq(s, 1, 0) = <<>>
    OBVIOUS
  <2> QED
    BY Zenon, <2>1, LengthNone
<1>2. \A k \in DOMAIN s : L(k) = L(k - 1) + s[k].len /\ s[k].len \in Nat /\ k - 1 \in Nat
  <2> SUFFICES ASSUME NEW k \in DOMAIN s
               PROVE  L(k) = L(k - 1) + s[k].len /\ s[k].len \in Nat /\ k - 1 \in Nat
    OBVIOUS
  <2> DEFINE x == s[k]
             before == SubSeq(s, 1, k - 1)
  <2>1. x \in Pieces /\ before \in Seq(Pieces) /\ SubSeq(s, 1, k) = Append(before, x)
    BY OneMore
  <2>3. k - 1 \in Nat
    OBVIOUS
  <2> HIDE DEF x, before
  <2>2. Length(Append(before, x)) = Length(before) + x.len /\ x.len \in Nat
    BY Zenon, <2>1, LengthAppend DEF Pieces
  <2>4. L(k) = Length(before) + x.len
    BY Zenon, <2>1, <2>2
  <2> QED
    BY <2>2, <2>3, <2>4 DEF before, x
<1> HIDE DEF L, c
<1>3. PlainSoFar(base, 0, c)
  BY <1>0, <1>1
<1>4. ASSUME NEW k \in DOMAIN s, NEW column, PlainSoFar(column, k - 1, c)
      PROVE  PlainSoFar(NextColumn(column, s[k]), k, c)
  <2>1. L(k - 1) \in Nat /\ column = base + L(k - 1)
    BY <1>0, <1>4
  <2>2. NextColumn(column, s[k]) = column + s[k].len
    BY DEF NextColumn
  <2>3. L(k) \in Nat /\ NextColumn(column, s[k]) = base + L(k)
    BY <1>2, <2>1, <2>2
  <2> QED
    BY <1>0, <2>3
<1>5. PlainSoFar(PlainFold!Fold(base, s), Len(s), c)
  BY <1>3, <1>4, PlainFold!FoldHolds
<1>6. SubSeq(s, 1, Len(s)) = s
  OBVIOUS
<1>7. PlainFold!Fold(base, s) = ColumnFold!Fold(base, s)
  BY Zenon DEF PlainFold!Fold, PlainFold!Greatest, ColumnFold!Fold, ColumnFold!Greatest
<1> QED
  BY Zenon, <1>0, <1>5, <1>6, <1>7 DEF L

(* The column behind a row.                                                *)
LEMMA RowColumn ==
  ASSUME NEW column \in Nat, NEW pre, LeadsTo(pre, column), NEW words \in Seq(WordPieces)
  PROVE  ColumnAfter(pre \o Joined(words)) = column + Length(Joined(words))
<1> DEFINE row == Joined(words)
<1>1. row \in Seq(Pieces) /\ \A i \in DOMAIN row : row[i] # Tab
  BY JoinedSizes
<1> HIDE DEF row
<1>2. pre \in Seq(Pieces) /\ ColumnFold!Fold(0, pre) = column
  BY ColumnIsFold DEF LeadsTo
<1>3. ColumnFold!Fold(0, pre \o row) = ColumnFold!Fold(ColumnFold!Fold(0, pre), row)
  BY <1>1, <1>2, ColumnFold!FoldConcat
<1>4. ColumnFold!Fold(column, row) = column + Length(row)
  BY <1>1, PlainColumn
<1> QED
  BY <1>2, <1>3, <1>4, ColumnIsFold DEF row

(* The first word of a line is the first of its row.                       *)
LEMMA FirstOfRow ==
  ASSUME NEW pre \in Seq(Pieces), Wordless(pre), NEW body \in Seq(Pieces), body # <<>>,
         IsWord(body[1]), NEW tail \in Seq(Pieces)
  PROVE  LET line == (pre \o body) \o tail IN line[FirstWord(line)] = body[1]
<1> DEFINE line == (pre \o body) \o tail
           words == {k \in DOMAIN line : IsWord(line[k])}
           n == Len(pre)
<1>1. /\ n \in Nat /\ Len(line) \in Nat /\ DOMAIN line = 1 .. Len(line) /\ Len(line) >= n + 1
      /\ \A k \in 1 .. n : line[k] = pre[k] /\ k \in DOMAIN pre
      /\ line[n + 1] = body[1]
  <2> DEFINE start == pre \o body
  <2>1. /\ start \in Seq(Pieces) /\ n \in Nat /\ Len(start) = n + Len(body)
        /\ Len(body) \in Nat \ {0}
        /\ \A k \in 1 .. n : start[k] = pre[k] /\ k \in DOMAIN pre
        /\ start[n + 1] = body[1]
    OBVIOUS
  <2> HIDE DEF start
  <2>2. /\ Len(start \o tail) \in Nat /\ DOMAIN (start \o tail) = 1 .. Len(start \o tail)
        /\ Len(start \o tail) >= Len(start)
        /\ \A k \in 1 .. Len(start) : (start \o tail)[k] = start[k]
    BY <2>1
  <2> QED
    BY <2>1, <2>2 DEF start
<1> HIDE DEF line, n
<1>2. n + 1 \in words
  BY <1>1
<1>3. \A k \in words : n + 1 <= k
  <2> SUFFICES ASSUME NEW k \in words, k <= n
               PROVE  FALSE
    BY <1>1
  <2> QED
    BY <1>1 DEF Wordless
<1>4. words \in SUBSET Nat
  BY <1>1
<1>5. FirstWord(line) = Min(words)
  BY <1>2 DEF FirstWord
<1> HIDE DEF words
<1>6. Min(words) \in words /\ \A x \in words : Min(words) <= x
  BY <1>2, <1>4, MinIs
<1>7. Min(words) = n + 1
  <2> DEFINE m == Min(words)
  <2>1. m \in words /\ m <= n + 1
    BY <1>2, <1>6
  <2>2. m \in Nat /\ n + 1 <= m
    BY Zenon, <1>3, <1>4, <2>1
  <2> HIDE DEF m
  <2>3. m = n + 1
    BY <1>1, <2>1, <2>2
  <2> QED
    BY <2>3 DEF m
<1> QED
  BY <1>1, <1>5, <1>7 DEF line

(* Two sequences, one behind the other.                                    *)
LEMMA ConcatIs ==
  ASSUME NEW T, NEW s \in Seq(T), NEW t \in Seq(T)
  PROVE  /\ s \o t \in Seq(T) /\ Len(s \o t) = Len(s) + Len(t) /\ Len(s) \in Nat
         /\ \A i \in 1 .. Len(s) : (s \o t)[i] = s[i]
OBVIOUS

(* A line up to what continues it.                                         *)
LEMMA ContinuedLess ==
  ASSUME NEW line \in Seq(Pieces)
  PROVE  LET more == line \o Continued
         IN more \in Seq(Pieces) /\ SubSeq(more, 1, Len(more) - 2) = line
<1>1. Continued \in Seq(Pieces) /\ Len(Continued) = 2
  BY ContinuedIs
<1> DEFINE more == line \o Continued
           n == Len(line)
<1>2. more \in Seq(Pieces) /\ Len(more) = n + 2 /\ n \in Nat
      /\ \A i \in 1 .. n : more[i] = line[i]
  <2> DEFINE rest == Continued
  <2>1. rest \in Seq(Pieces) /\ Len(rest) = 2
    BY <1>1
  <2> HIDE DEF rest
  <2>2. /\ line \o rest \in Seq(Pieces) /\ Len(line \o rest) = n + 2 /\ n \in Nat
        /\ \A i \in 1 .. n : (line \o rest)[i] = line[i]
    <3> DEFINE both == line \o rest
    <3>1. /\ both \in Seq(Pieces) /\ Len(both) = Len(line) + Len(rest) /\ Len(line) \in Nat
          /\ \A i \in 1 .. Len(line) : both[i] = line[i]
      BY Zenon, <2>1, ConcatIs
    <3> HIDE DEF both
    <3> QED
      BY <2>1, <3>1 DEF both
  <2> QED
    BY <2>2 DEF rest
<1>3. (n + 2) - 2 = n
  BY <1>2
<1> HIDE DEF more
<1>4. SubSeq(more, 1, n) = line
  BY <1>2
<1> QED
  BY <1>2, <1>3, <1>4 DEF more

(* What three sequences are together.                                      *)
LEMMA ConcatThree ==
  ASSUME NEW T, NEW r \in Seq(T), NEW s \in Seq(T), NEW t \in Seq(T)
  PROVE  r \o (s \o t) = (r \o s) \o t
<1> DEFINE a == r \o (s \o t)
           b == (r \o s) \o t
           n == Len(r) + Len(s) + Len(t)
<1>1. a \in Seq(T) /\ b \in Seq(T) /\ Len(a) = n /\ Len(b) = n
  OBVIOUS
<1>2. ASSUME NEW i \in 1 .. n PROVE a[i] = b[i]
  OBVIOUS
<1> HIDE DEF a, b
<1>3. a = b
  BY <1>1, <1>2
<1> QED
  BY <1>3 DEF a, b

(* One row with what is in front of it.                                    *)
LEMMA BodyIs ==
  ASSUME NEW pre \in Seq(Pieces), InLine(pre), NEW words \in Seq(WordPieces)
  PROVE  pre \o Joined(words) \in Seq(Pieces) /\ InLine(pre \o Joined(words))
<1> DEFINE row == Joined(words)
<1>1. row \in Seq(Pieces) /\ InLine(row)
  BY JoinedIs DEF JoinedSoFar
<1> HIDE DEF row
<1>2. pre \o row \in Seq(Pieces) /\ InLine(pre \o row)
  BY <1>1, InLineBoth
<1> QED
  BY <1>2 DEF row

(* A comment stays in its line.                                            *)
LEMMA CommentIs ==
  ASSUME NEW node, NEW first \in Seq(Pieces), InLine(first), NEW rows
  PROVE  LET last == If(node.comment, IF rows = <<>> THEN first \o <<Comment>>
                                      ELSE <<Space, Comment>>)
         IN last \in Seq(Pieces) /\ InLine(last)
<1>1. /\ <<Comment>> \in Seq(Pieces) /\ InLine(<<Comment>>)
      /\ <<Space, Comment>> \in Seq(Pieces) /\ InLine(<<Space, Comment>>)
      /\ <<>> \in Seq(Pieces) /\ InLine(<<>>)
  BY PiecesAre DEF InLine
<1> DEFINE one == <<Comment>>
           two == <<Space, Comment>>
<1> HIDE DEF one
<1>2. first \o one \in Seq(Pieces) /\ InLine(first \o one)
  <2>1. one \in Seq(Pieces) /\ InLine(one)
    BY <1>1 DEF one
  <2> QED
    BY <2>1, InLineBoth
<1> DEFINE both == first \o one
           comment == IF rows = <<>> THEN both ELSE two
<1> HIDE DEF both
<1>3. comment \in Seq(Pieces) /\ InLine(comment)
  BY <1>1, <1>2 DEF both
<1> HIDE DEF comment
<1>4. If(node.comment, comment) \in Seq(Pieces) /\ InLine(If(node.comment, comment))
  BY <1>1, <1>3 DEF If
<1> QED
  BY <1>4 DEF comment, both, one

(* The lines of print_newline_array(), as rows: the columns where those    *)
(* that go on end, and the words the others start with.                    *)
IsOfRows(lines, rows, column) ==
  /\ Len(lines) = IF rows = <<>> THEN 1 ELSE Len(rows)
  /\ \A i \in 1 .. (Len(rows) - 1) :
       /\ ColumnAfter(SubSeq(lines[i], 1, Len(lines[i]) - 2)) = column + Length(Joined(rows[i]))
       /\ lines[i + 1][FirstWord(lines[i + 1])] = rows[i + 1][1]

LEMMA ArrayLines ==
  ASSUME NEW node, node.name \in Nat, node.modifier \in {1, 2}, NEW goal,
         Max({16, goal}) \in Nat, NEW rows \in Seq(Seq(WordPieces)), NEW column,
         \A i \in DOMAIN rows : rows[i] # <<>>,
         rows # <<>> =>
           /\ column = Max({16, goal}) /\ column \in Nat /\ column % 8 = 0
           /\ StartLen(node) < column
  PROVE  IsOfRows(PhysicalLines(PrintNewlineArray(node, goal, rows)), rows, column)
<1> DEFINE head == HeadOf(node)
           startlen == StartLen(node)
           margin == Max({16, goal})
           n == Tabstops(IF startlen > margin THEN startlen - margin ELSE margin - startlen)
           first == Tabs(n)
           others == Tabs(Tabstops(margin))
           pre(k) == IF k = 1 THEN first ELSE others
           bodies == [k \in DOMAIN rows |-> pre(k) \o Joined(rows[k])]
           printed == [k \in DOMAIN bodies |-> BodyOf(bodies[k], k < Len(bodies))]
           tail == If(node.comment, IF rows = <<>> THEN first \o <<Comment>>
                                    ELSE <<Space, Comment>>)
           m == Len(rows)
           lines == PhysicalLines(PrintNewlineArray(node, goal, rows))
<1>1. startlen \in Nat
  BY NeededIs
<1>2. n \in Nat /\ Tabstops(margin) \in Nat
  <2> DEFINE behind == IF startlen > margin THEN startlen - margin ELSE margin - startlen
  <2>1. behind \in Nat /\ margin \in Nat
    BY <1>1
  <2> HIDE DEF behind, margin
  <2> QED
    BY <2>1 DEF Tabstops, behind
<1>3. /\ first \in Seq(Pieces) /\ InLine(first) /\ Wordless(first)
      /\ others \in Seq(Pieces) /\ InLine(others) /\ Wordless(others)
  BY <1>2, TabsAre
<1>4. head \in Seq(Pieces) /\ InLine(head) /\ Wordless(head)
  BY HeadIs
<1>5. rows # <<>> => LeadsTo(head \o first, column) /\ LeadsTo(others, column)
  <2> SUFFICES ASSUME rows # <<>>
               PROVE  LeadsTo(head \o first, column) /\ LeadsTo(others, column)
    OBVIOUS
  <2>1. startlen < column /\ column \in Nat \ {0} /\ column = margin /\ column % 8 = 0
    BY <1>1
  <2>2. n = Tabstops(column - startlen)
    BY <1>1, <2>1
  <2>3. LeadsTo(head \o first, column)
    BY <2>1, <2>2, FirstLeads
  <2>4. LeadsTo(others, column)
    BY <2>1, OthersLead
  <2> QED
    BY <2>3, <2>4
<1>6. tail \in Seq(Pieces) /\ InLine(tail)
  <2> HIDE DEF first
  <2> QED
    BY Zenon, <1>3, CommentIs
<1> HIDE DEF head, first, others
<1>7. /\ m \in Nat /\ DOMAIN rows = 1 .. m
      /\ \A k \in 1 .. m : rows[k] \in Seq(WordPieces) /\ rows[k] # <<>>
  <2> DEFINE T == Seq(WordPieces)
  <2>1. rows \in Seq(T)
    OBVIOUS
  <2> HIDE DEF T
  <2>2. m \in Nat /\ DOMAIN rows = 1 .. m /\ \A k \in 1 .. m : rows[k] \in T
    BY <2>1
  <2> QED
    BY Zenon, <2>2 DEF T
<1>8. \A k \in 1 .. m : bodies[k] = pre(k) \o Joined(rows[k]) /\ bodies[k] \in Seq(Pieces)
                        /\ InLine(bodies[k])
  BY Zenon, <1>3, <1>7, BodyIs
<1>9. bodies \in Seq(Seq(Pieces)) /\ Len(bodies) = m /\ DOMAIN bodies = 1 .. m
  <2> DEFINE T == Seq(Pieces)
             e == bodies
  <2>1. \A k \in 1 .. m : e[k] \in T
    BY Zenon, <1>8
  <2>2. e = [k \in 1 .. m |-> e[k]]
    BY Zenon, <1>7
  <2> HIDE DEF T, m, e
  <2>3. e \in Seq(T) /\ Len(e) = m /\ DOMAIN e = 1 .. m
    BY Zenon, <1>7, <2>1, <2>2, FunctionSeq
  <2> QED
    BY <2>3 DEF T, e
<1>10. printed = [k \in DOMAIN rows |->
                    pre(k) \o Joined(rows[k]) \o If(k < Len(rows), <<Space, Backslash, Newline>>)]
  <2>1. DOMAIN bodies = DOMAIN rows /\ Len(bodies) = Len(rows)
    BY <1>7, <1>9
  <2>2. \A k \in DOMAIN rows : BodyOf(bodies[k], k < Len(bodies))
          = pre(k) \o Joined(rows[k]) \o If(k < Len(rows), <<Space, Backslash, Newline>>)
    BY Zenon, <1>7, <1>8, <2>1 DEF BodyOf
  <2> HIDE DEF bodies
  <2> QED
    BY Zenon, <2>1, <2>2
<1>11. PrintNewlineArray(node, goal, rows)
         = ((head \o FlattenSeq(printed)) \o tail) \o <<Newline>>
  BY Zenon, <1>10 DEF PrintNewlineArray, HeadOf, head, first, others
<1>12. bodies = <<>> <=> rows = <<>>
  <2> DEFINE e == bodies
             T == Seq(Pieces)
             U == Seq(WordPieces)
  <2>1. e \in Seq(T) /\ Len(e) = Len(rows) /\ rows \in Seq(U)
    BY <1>9
  <2> HIDE DEF e, T, U
  <2>2. e = <<>> <=> rows = <<>>
    BY <2>1
  <2> QED
    BY <2>2 DEF e
<1> HIDE DEF bodies, printed, tail, pre
<1>13. /\ Len(lines) = IF rows = <<>> THEN 1 ELSE m
       /\ \A i \in 1 .. (m - 1) : lines[i] = LineAt(head, bodies, i) \o Continued
       /\ rows # <<>> => lines[m] = LineAt(head, bodies, m) \o tail
  <2>1. \A i \in DOMAIN bodies : InLine(bodies[i])
    BY <1>8, <1>9
  <2>2. printed = [i \in DOMAIN bodies |-> BodyOf(bodies[i], i < Len(bodies))]
    BY DEF printed
  <2> DEFINE all == PhysicalLines(((head \o FlattenSeq(printed)) \o tail) \o <<Newline>>)
  <2>3. Broken(all, head, bodies, tail)
    BY Zenon, <1>4, <1>6, <1>9, <2>1, <2>2, LinesBroken
  <2>4. all = lines
    BY Zenon, <1>11
  <2> HIDE DEF all, lines
  <2> QED
    BY Zenon, <1>9, <1>12, <2>3, <2>4 DEF Broken
<1> HIDE DEF lines
<1>14. ASSUME NEW i \in 1 .. (m - 1)
       PROVE  /\ ColumnAfter(SubSeq(lines[i], 1, Len(lines[i]) - 2))
                   = column + Length(Joined(rows[i]))
              /\ lines[i + 1][FirstWord(lines[i + 1])] = rows[i + 1][1]
  <2>0. rows # <<>> /\ i \in 1 .. m /\ i + 1 \in 1 .. m /\ i + 1 # 1 /\ column \in Nat
        /\ (i + 1 \in 1 .. (m - 1) \/ i + 1 = m)
    <3>1. i \in 1 .. m /\ i + 1 \in 1 .. m /\ i + 1 # 1 /\ (i + 1 \in 1 .. (m - 1) \/ i + 1 = m)
      <4> HIDE DEF m
      <4> QED
        BY <1>7
    <3>2. rows # <<>>
      <4>1. DOMAIN <<>> = {}
        OBVIOUS
      <4> QED
        BY Zenon, <1>7, <3>1, <4>1
    <3> QED
      BY <3>1, <3>2
  <2> DEFINE lead == IF i = 1 THEN head \o first ELSE others
             row == rows[i]
             line == LineAt(head, bodies, i)
  <2>1. LeadsTo(lead, column)
    BY Zenon, <1>5, <2>0
  <2>2. line = lead \o Joined(row)
    <3>1. CASE i = 1
      <4> DEFINE j == Joined(row)
      <4>1. j \in Seq(Pieces) /\ bodies[1] = first \o j
        BY Zenon, <1>7, <1>8, <2>0, <3>1, JoinedSizes DEF pre
      <4> HIDE DEF j
      <4>2. head \o (first \o j) = (head \o first) \o j
        <5>1. head \in Seq(Pieces) /\ first \in Seq(Pieces) /\ j \in Seq(Pieces)
          BY <1>3, <1>4, <4>1
        <5> QED
          BY <5>1, ConcatThree, SMTT(30)
      <4> QED
        BY <3>1, <4>1, <4>2 DEF LineAt, j
    <3>2. CASE i # 1
      BY Zenon, <1>8, <2>0, <3>2 DEF LineAt, pre
    <3> QED
      BY Zenon, <3>1, <3>2
  <2> HIDE DEF lead
  <2>3. row \in Seq(WordPieces)
    BY Zenon, <1>7, <2>0
  <2>4. ColumnAfter(lead \o Joined(row)) = column + Length(Joined(row))
    BY <2>0, <2>1, <2>3, RowColumn
  <2>5. lead \o Joined(row) \in Seq(Pieces)
    <3> DEFINE j == Joined(row)
    <3>1. j \in Seq(Pieces) /\ lead \in Seq(Pieces)
      BY Zenon, <2>1, <2>3, JoinedSizes DEF LeadsTo
    <3> HIDE DEF j
    <3>2. lead \o j \in Seq(Pieces)
      BY <3>1
    <3> QED
      BY <3>2 DEF j
  <2>6. lines[i] = line \o Continued
    BY Zenon, <1>13
  <2>7. line \in Seq(Pieces) /\ ColumnAfter(line) = column + Length(Joined(row))
    BY <2>2, <2>4, <2>5
  <2> HIDE DEF line
  <2>8. SubSeq(lines[i], 1, Len(lines[i]) - 2) = line
    BY Zenon, <2>6, <2>7, ContinuedLess
  <2> DEFINE next == rows[i + 1]
             body == Joined(next)
             end == IF i + 1 = m THEN tail ELSE Continued
  <2>9. next \in Seq(WordPieces) /\ next # <<>>
    BY Zenon, <1>7, <2>0
  <2>10. body \in Seq(Pieces) /\ body # <<>> /\ body[1] = next[1]
    BY Zenon, <2>9, JoinedSizes
  <2>11. IsWord(body[1])
    BY <2>9, <2>10, NoWordIsTab, PiecesAre
  <2>12. end \in Seq(Pieces)
    BY <1>6, ContinuedIs
  <2> HIDE DEF body, next
  <2>13. lines[i + 1] = (others \o body) \o end
    <3>1. LineAt(head, bodies, i + 1) = others \o body
      BY Zenon, <1>8, <2>0 DEF LineAt, pre, body, next
    <3>2. lines[i + 1] = LineAt(head, bodies, i + 1) \o end
      BY Zenon, <1>13, <2>0
    <3> QED
      BY Zenon, <3>1, <3>2
  <2> HIDE DEF end
  <2> DEFINE following == (others \o body) \o end
  <2>14. following[FirstWord(following)] = body[1]
    BY Zenon, <1>3, <2>10, <2>11, <2>12, FirstOfRow
  <2> HIDE DEF following
  <2>15. lines[i + 1] = following
    BY <2>13 DEF following
  <2> QED
    BY Zenon, <2>7, <2>8, <2>10, <2>14, <2>15 DEF next
<1>15. IsOfRows(lines, rows, column)
  BY <1>13, <1>14 DEF IsOfRows
<1> QED
  BY <1>15 DEF lines

LEMMA RawIsOneLine == Len(PhysicalLines(RawLine)) = 1
<1> DEFINE base == [lines |-> <<>>, line |-> <<>>]
           one == <<Raw>>
           done == PieceFold!Fold([lines |-> <<>>, line |-> one], <<Newline>>)
<1>1. Raw \in Pieces /\ Raw # Newline
  BY DEF Raw, Newline, Piece, Pieces, Kinds, WordKinds
<1>2. one \in Seq(Pieces) /\ InLine(one) /\ <<>> \in Seq(Pieces) /\ <<>> \o one = one
  BY <1>1 DEF InLine
<1>3. PieceFold!Fold(base, one) = [lines |-> <<>>, line |-> one]
  BY Zenon, <1>2, InLineTaken
<1>4. done = [lines |-> Append(<<>>, one), line |-> <<>>]
  BY Zenon, NewlineTaken
<1>5. RawLine = one \o <<Newline>> /\ <<Newline>> \in Seq(Pieces)
  BY PiecesAre DEF RawLine
<1> HIDE DEF base, one
<1>6. PieceFold!Fold(base, RawLine) = done
  <2> DEFINE nl == <<Newline>>
  <2> HIDE DEF nl
  <2>1. PieceFold!Fold(base, one \o nl) = PieceFold!Fold(PieceFold!Fold(base, one), nl)
    BY Zenon, <1>2, <1>5, PieceFold!FoldConcat DEF nl
  <2> QED
    BY <1>3, <1>5, <2>1 DEF nl
<1>7. PhysicalLines(RawLine) = done.lines
  <2>1. FoldLeft(TakePiece, base, RawLine) = PieceFold!Fold(base, RawLine)
    BY Zenon DEF PieceFold!Fold, PieceFold!Greatest, FoldLeft, MapThenFoldSet, Max
  <2>2. PhysicalLines(RawLine) = FoldLeft(TakePiece, base, RawLine).lines
    BY DEF PhysicalLines, base
  <2> QED
    BY Zenon, <1>6, <2>1, <2>2
<1> HIDE DEF done
<1>8. done.lines = Append(<<>>, one)
  BY <1>4
<1>9. Len(Append(<<>>, one)) = 1
  OBVIOUS
<1> QED
  BY <1>7, <1>8, <1>9

-----------------------------------------------------------------------------
(* No goal column is much farther than the longest name.                   *)
LEMMA NeededIsNear ==
  ASSUME NEW node, node.name \in Nat, node.modifier \in {1, 2}
  PROVE  Needed(node) <= node.name + 11
<1>1. StartLen(node) \in Nat /\ StartLen(node) <= node.name + 3
  BY DEF StartLen
<1> DEFINE s == StartLen(node)
<1> HIDE DEF s
<1>2. s \in Nat /\ s <= node.name + 3
  BY <1>1 DEF s
<1>3. (s \div 8 + 1) * 8 <= s + 8
  BY <1>2
<1> QED
  BY <1>2, <1>3 DEF Needed, s

LEMMA GoalIsNear ==
  ASSUME BlocksInv, pc # "goalcols", NEW k \in DOMAIN file, file[k].type = "variable",
         file[k].words # <<>>
  PROVE  goalcol[k] \in Nat /\ goalcol[k] <= NoWrap + 16
<1>1. file \in Files /\ goalcol[k] \in Nat
  BY DEF BlocksInv, ColumnsInv
<1>2. HasItsColumn(k) /\ SkipsBlock(k)
  BY DEF BlocksInv, Met
<1>3. NoWrap \in Nat
  BY DEF NoWrap
<1>4. ASSUME NEW j \in DOMAIN file, file[j].type = "variable"
      PROVE  Needed(file[j]) <= NoWrap + 16
  <2> DEFINE node == file[j]
  <2>1. node.name \in Nat /\ node.modifier \in {1, 2} /\ node.words \in Seq(WordPieces)
    BY <1>1, <1>4, VariableIs
  <2>2. node.name + Length(node.words) + Len(node.words) < NoWrap
    BY <1>1, <1>4, LengthsAssumption
  <2> HIDE DEF node
  <2>3. Length(node.words) \in Nat /\ Len(node.words) \in Nat
    BY <2>1, WordsArePieces, LengthIs
  <2>4. Needed(node) \in Nat /\ Needed(node) <= node.name + 11
    BY <2>1, NeededIs, NeededIsNear
  <2>5. Needed(node) <= NoWrap + 16
    BY <1>3, <2>1, <2>2, <2>3, <2>4
  <2> QED
    BY <2>5 DEF node
<1>5. CASE file[k].skip
  BY <1>1, <1>2, <1>4, <1>5 DEF SkipsBlock
<1>6. CASE ~file[k].skip
  <2>1. IsAligned(k)
    BY <1>6 DEF IsAligned
  <2>2. IsColumnOf(goalcol[k], BlockOf(k))
    BY <1>2, <2>1 DEF HasItsColumn
  <2>3. \A j \in BlockOf(k) : j \in DOMAIN file /\ file[j].type = "variable"
    BY DEF BlockOf, IsAligned
  <2>4. goalcol[k] = 16 \/ \E j \in BlockOf(k) : goalcol[k] = Needed(file[j])
    BY <2>2 DEF IsColumnOf
  <2>5. 16 <= NoWrap + 16
    BY <1>3
  <2> QED
    BY <1>1, <1>4, <2>3, <2>4, <2>5
<1> QED
  BY <1>5, <1>6

-----------------------------------------------------------------------------
(* Without -w, and where it is ignored, a row takes any variable.          *)
LEMMA WideRows ==
  ASSUME NEW node, NEW goal \in Nat, goal <= NoWrap + 16,
         node.ignore_wrap_col \/ wrapcol = -1
  PROVE  VariableWidth(node, goal) \in Nat /\ NoWrap <= VariableWidth(node, goal)
<1> DEFINE M == SizeModulus
<1>1. M \in Nat /\ M > 4 * NoWrap /\ NoWrap = 99999999
  BY SizesAssumption DEF NoWrap
<1>2. CASE node.ignore_wrap_col
  BY <1>1, <1>2 DEF VariableWidth
<1>3. CASE ~node.ignore_wrap_col
  <2> HIDE DEF M
  <2>1. (-1) % M = M - 1
    BY <1>1
  <2> DEFINE room == (M - 1) - goal - 2
  <2>2. room \in Nat /\ room < M /\ NoWrap <= room
    BY <1>1
  <2>3. VariableWidth(node, goal) = room % M
    BY <1>3, <2>1 DEF VariableWidth, AsSize, M
  <2> HIDE DEF room
  <2>4. room % M = room
    BY <1>1, <2>2
  <2> QED
    BY <2>2, <2>3, <2>4
<1> QED
  BY <1>2, <1>3

(* Else it ends in front of ' \'.                                          *)
LEMMA NarrowRows ==
  ASSUME NEW node, NEW goal \in Nat, ~node.ignore_wrap_col,
         wrapcol \in Nat, wrapcol < SizeModulus
  PROVE  /\ VariableWidth(node, goal) \in Nat
         /\ wrapcol - 2 >= goal => VariableWidth(node, goal) = wrapcol - 2 - goal
<1> DEFINE M == SizeModulus
           room == wrapcol - goal - 2
<1>1. M \in Nat \ {0} /\ room \in Int
  BY SizesAssumption DEF NoWrap
<1>2. wrapcol % M = wrapcol
  BY <1>1
<1>3. VariableWidth(node, goal) = room % M
  BY <1>2 DEF VariableWidth, AsSize
<1>4. room % M \in Nat
  BY <1>1
<1>5. room \in Nat /\ room < M => room % M = room
  BY <1>1
<1>6. wrapcol - 2 >= goal => room \in Nat /\ room < M /\ room = wrapcol - 2 - goal
  BY <1>1
<1> QED
  BY <1>3, <1>4, <1>5, <1>6

(* A line of each row, and one that goes on has no room for a word more.   *)
Filled(lines, room) ==
  \A n \in 1 .. (Len(lines) - 1) :
    ~(ColumnAfter(SubSeq(lines[n], 1, Len(lines[n]) - 2))
        + lines[n + 1][FirstWord(lines[n + 1])].len <= room)

(* The words are sorted or not.                                            *)
LEMMA WordsAre ==
  ASSUME NEW node, node.words \in Seq(WordPieces)
  PROVE  /\ WordsOf(node) \in Seq(WordPieces)
         /\ Length(WordsOf(node)) = Length(node.words) /\ Len(WordsOf(node)) = Len(node.words)
  BY SortedIs, SortedLength DEF WordsOf

(* Where print_token_array() has a row for each word, there is one at most. *)
LEMMA FewRows ==
  ASSUME NEW words \in Seq(WordPieces), Len(words) < 2
  PROVE  LET rows == SingleRows(words)
         IN /\ rows \in Seq(Seq(WordPieces)) /\ Len(rows) <= 1
            /\ \A i \in DOMAIN rows : rows[i] # <<>>
            /\ rows # <<>> => words # <<>>
<1> DEFINE T == Seq(WordPieces)
           e == SingleRows(words)
           n == Len(words)
<1>1. n \in Nat /\ DOMAIN words = 1 .. n
  OBVIOUS
<1>2. e = [k \in 1 .. n |-> e[k]] /\ \A k \in 1 .. n : e[k] = <<words[k]>>
  BY <1>1 DEF SingleRows
<1>3. ASSUME NEW k \in 1 .. n
      PROVE  e[k] \in T /\ e[k] # <<>>
  <2> DEFINE word == words[k]
  <2>1. word \in WordPieces /\ e[k] = <<word>>
    BY <1>1, <1>2
  <2> HIDE DEF word, e
  <2>2. <<word>> \in Seq(WordPieces) /\ <<word>> # <<>>
    BY <2>1
  <2> QED
    BY <2>1, <2>2
<1>4. words = <<>> => e = <<>>
  BY DEF SingleRows
<1> HIDE DEF e, T, n
<1>5. e \in Seq(T) /\ Len(e) = n /\ DOMAIN e = 1 .. n
  BY <1>1, <1>2, <1>3, FunctionSeq
<1>6. n <= 1
  BY <1>1 DEF n
<1> QED
  BY <1>3, <1>4, <1>5, <1>6 DEF e, T

(* The lines of a variable that is not one line a word.                    *)
LEMMA VariableFilled ==
  ASSUME NEW node, node.name \in Nat, node.modifier \in {1, 2},
         node.words \in Seq(WordPieces), ~node.newlines,
         node.name + Length(node.words) + Len(node.words) < NoWrap,
         NEW goal \in Nat, wrapcol \in WrapColumns,
         node.words # <<>> => /\ goal <= NoWrap + 16 /\ StartLen(node) < Max({16, goal})
                              /\ Max({16, goal}) % 8 = 0
  PROVE  LET lines == PhysicalLines(VariableLines(node, goal))
         IN (wrapcol = -1 => Len(lines) = 1) /\ Filled(lines, wrapcol - 2)
<1> DEFINE words == WordsOf(node)
           width == VariableWidth(node, goal)
           rows == IF Len(words) < 2 THEN SingleRows(words) ELSE Rows(words, width)
           column == Max({16, goal})
           lines == PhysicalLines(VariableLines(node, goal))
<1>1. /\ words \in Seq(WordPieces) /\ Length(words) + Len(words) < NoWrap
      /\ Len(words) \in Nat /\ Length(words) \in Nat /\ (words # <<>> => node.words # <<>>)
  <2>1. /\ words \in Seq(WordPieces) /\ Length(words) = Length(node.words)
        /\ Len(words) = Len(node.words)
    BY WordsAre
  <2> HIDE DEF words
  <2>2. Len(words) \in Nat /\ Length(words) \in Nat
    BY <2>1, WordsArePieces, LengthIs
  <2>3. words # <<>> => node.words # <<>>
    BY <2>1
  <2> QED
    BY <2>1, <2>2, <2>3 DEF NoWrap
<1>2. VariableLines(node, goal) = IF IsRaw(node) THEN RawLine
                                  ELSE PrintNewlineArray(node, goal, rows)
  BY DEF VariableLines
<1>3. column \in Nat /\ column >= goal
  BY MaxOfTwo
<1>4. wrapcol = -1 \/ (wrapcol \in Nat /\ wrapcol < SizeModulus)
  BY SizesAssumption DEF NoWrap
<1> HIDE DEF words, width, column
<1>5. CASE IsRaw(node)
  <2>1. Len(lines) = 1
    BY <1>2, <1>5, RawIsOneLine
  <2> HIDE DEF lines
  <2> QED
    BY <2>1 DEF Filled, lines
<1>6. CASE ~IsRaw(node)
  <2>1. lines = PhysicalLines(PrintNewlineArray(node, goal, rows))
    BY <1>2, <1>6
  <2>2. width \in Nat
    <3>1. CASE node.ignore_wrap_col \/ wrapcol # -1
      <4>1. CASE node.ignore_wrap_col
        BY <4>1 DEF width, VariableWidth, NoWrap
      <4> QED
        BY <1>4, <3>1, <4>1, NarrowRows DEF width
    <3>2. CASE ~node.ignore_wrap_col /\ wrapcol = -1
      <4>1. SizeModulus \in Nat \ {0}
        BY SizesAssumption DEF NoWrap
      <4>2. \A x \in Int : x % SizeModulus \in Nat
        BY <4>1
      <4> DEFINE size == AsSize(wrapcol)
      <4>3. size \in Nat
        <5>1. wrapcol \in Int
          BY <1>4
        <5> QED
          BY <4>2, <5>1 DEF AsSize
      <4>4. width = (size - goal - 2) % SizeModulus
        BY <3>2 DEF width, VariableWidth, AsSize
      <4> HIDE DEF size
      <4>5. size - goal - 2 \in Int
        BY <4>3
      <4> QED
        BY <4>2, <4>4, <4>5
    <3> QED
      BY <3>1, <3>2
  <2>3. /\ rows \in Seq(Seq(WordPieces)) /\ (rows # <<>> => words # <<>>)
        /\ \A i \in DOMAIN rows : rows[i] # <<>>
        /\ \A i \in 1 .. (Len(rows) - 1) : Full(rows[i], rows[i + 1][1], width)
        /\ NoWrap <= width => Len(rows) <= 1
    <3>1. CASE Len(words) < 2
      <4> DEFINE e == SingleRows(words)
      <4>1. /\ e \in Seq(Seq(WordPieces)) /\ Len(e) <= 1
            /\ (\A i \in DOMAIN e : e[i] # <<>>) /\ (e # <<>> => words # <<>>)
        BY <1>1, <3>1, FewRows
      <4>2. rows = e
        BY <3>1
      <4> HIDE DEF e, rows
      <4>3. Len(e) \in Nat
        <5> DEFINE T == Seq(WordPieces)
        <5>1. e \in Seq(T)
          BY <4>1
        <5> HIDE DEF T
        <5> QED
          BY <5>1
      <4>4. \A i \in 1 .. (Len(e) - 1) : Full(e[i], e[i + 1][1], width)
        BY <4>1, <4>3
      <4> QED
        BY <4>1, <4>2, <4>4
    <3>2. CASE ~(Len(words) < 2)
      <4> DEFINE e == Rows(words, width)
      <4>1. rows = e
        BY <3>2
      <4>2. e \in Seq(Seq(WordPieces))
        BY <1>1, RowsAre
      <4>3. (\A i \in DOMAIN e : e[i] # <<>>)
            /\ \A i \in 1 .. (Len(e) - 1) : Full(e[i], e[i + 1][1], width)
        BY <1>1, <2>2, RowsFilled
      <4>4. NoWrap <= width => Len(e) <= 1
        <5> SUFFICES ASSUME NoWrap <= width
                     PROVE  Len(e) <= 1
          OBVIOUS
        <5>1. Length(words) + Len(words) <= width
          BY <1>1, <2>2 DEF NoWrap
        <5> QED
          BY <1>1, <2>2, <5>1, RowsWhole
      <4>5. words # <<>>
        BY <1>1, <3>2
      <4> HIDE DEF e, rows
      <4> QED
        BY <4>1, <4>2, <4>3, <4>4, <4>5
    <3> QED
      BY <3>1, <3>2
  <2> HIDE DEF rows, lines
  <2>4. rows # <<>> => /\ column = Max({16, goal}) /\ column \in Nat /\ column % 8 = 0
                       /\ StartLen(node) < column /\ goal <= NoWrap + 16
    BY <1>1, <1>3, <2>3 DEF column
  <2>5. /\ Len(lines) = IF rows = <<>> THEN 1 ELSE Len(rows)
        /\ \A i \in 1 .. (Len(rows) - 1) :
             /\ ColumnAfter(SubSeq(lines[i], 1, Len(lines[i]) - 2))
                  = column + Length(Joined(rows[i]))
             /\ lines[i + 1][FirstWord(lines[i + 1])] = rows[i + 1][1]
    <3>1. Max({16, goal}) \in Nat
      BY <1>3 DEF column
    <3>2. IsOfRows(PhysicalLines(PrintNewlineArray(node, goal, rows)), rows, column)
      BY Zenon, <2>3, <2>4, <3>1, ArrayLines
    <3> QED
      BY <2>1, <3>2 DEF IsOfRows
  <2>6. /\ Len(rows) \in Nat /\ (rows # <<>> => Len(rows) >= 1) /\ DOMAIN rows = 1 .. Len(rows)
        /\ \A i \in 1 .. Len(rows) : rows[i] \in Seq(WordPieces)
    <3> DEFINE T == Seq(WordPieces)
    <3>1. rows \in Seq(T)
      BY <2>3
    <3> HIDE DEF T
    <3>2. /\ Len(rows) \in Nat /\ (rows # <<>> => Len(rows) >= 1) /\ DOMAIN rows = 1 .. Len(rows)
          /\ \A i \in 1 .. Len(rows) : rows[i] \in T
      BY <3>1
    <3> QED
      BY <3>2 DEF T
  <2>7. CASE rows = <<>>
    <3>1. Len(lines) = 1
      BY <2>5, <2>7
    <3> QED
      BY <3>1 DEF Filled, lines
  <2>8. CASE rows # <<>> /\ (node.ignore_wrap_col \/ wrapcol = -1)
    <3>1. NoWrap <= width
      BY <2>4, <2>8, WideRows DEF width
    <3>2. Len(lines) = 1
      BY <2>3, <2>5, <2>6, <2>8, <3>1
    <3> QED
      BY <3>2 DEF Filled, lines
  <2>9. CASE rows # <<>> /\ ~node.ignore_wrap_col /\ wrapcol # -1
    <3>1. wrapcol \in Nat /\ wrapcol < SizeModulus
      BY <1>4, <2>9
    <3>2. wrapcol - 2 >= goal => width = wrapcol - 2 - goal
      BY <2>9, <3>1, NarrowRows DEF width
    <3>3. ASSUME NEW n \in 1 .. (Len(lines) - 1)
          PROVE  ~(ColumnAfter(SubSeq(lines[n], 1, Len(lines[n]) - 2))
                     + lines[n + 1][FirstWord(lines[n + 1])].len <= wrapcol - 2)
      <4>1. n \in 1 .. (Len(rows) - 1) /\ n \in 1 .. Len(rows) /\ n + 1 \in 1 .. Len(rows)
        BY <2>5, <2>6, <2>9
      <4> DEFINE length == Length(Joined(rows[n]))
                 word == rows[n + 1][1]
      <4>2. length \in Nat
        BY <2>6, <4>1, JoinedLength
      <4>3. word.len \in Nat
        <5> DEFINE row == rows[n + 1]
        <5>1. row \in Seq(WordPieces) /\ row # <<>>
          BY Zenon, <2>3, <2>6, <4>1
        <5> HIDE DEF row
        <5>2. row[1] \in WordPieces
          BY <5>1
        <5> QED
          BY <5>2, NoWordIsTab DEF row
      <4>4. length + word.len > width
        BY Zenon, <2>3, <4>1 DEF Full
      <4>5. /\ ColumnAfter(SubSeq(lines[n], 1, Len(lines[n]) - 2)) = column + length
            /\ lines[n + 1][FirstWord(lines[n + 1])] = word
        BY <2>5, <4>1
      <4> DEFINE len == word.len
      <4> HIDE DEF length
      <4>6. len \in Nat /\ length + len > width
        BY <4>3, <4>4
      <4> HIDE DEF len
      <4>7. ~(column + length + len <= wrapcol - 2)
        <5>1. CASE wrapcol - 2 >= goal
          BY <1>3, <2>2, <3>1, <3>2, <4>2, <4>6, <5>1
        <5>2. CASE ~(wrapcol - 2 >= goal)
          BY <1>3, <3>1, <4>2, <4>6, <5>2
        <5> QED
          BY <5>1, <5>2
      <4> QED
        BY <4>5, <4>7 DEF len
    <3> QED
      BY <2>9, <3>3 DEF Filled, lines
  <2> QED
    BY <2>7, <2>8, <2>9
<1> QED
  BY <1>5, <1>6

LEMMA LinesAreFilled ==
  ASSUME BlocksInv, PrintedInv, wrapcol \in WrapColumns
  PROVE  LinesFilled
<1> SUFFICES ASSUME NEW k \in DOMAIN result, file[k].type = "variable", ~file[k].newlines
             PROVE  LET lines == PhysicalLines(result[k])
                    IN (wrapcol = -1 => Len(lines) = 1) /\ Filled(lines, wrapcol - 2)
  BY DEF LinesFilled, Filled
<1> DEFINE goal == goalcol[k]
           node == file[k]
<1>1. Len(file) \in Nat /\ DOMAIN file = 1 .. Len(file) /\ file \in Files
  BY FileIsSequence DEF BlocksInv, ColumnsInv
<1>2. k \in DOMAIN file /\ pc # "goalcols"
  <2>1. DOMAIN result = 1 .. Len(result) /\ Len(result) \in Nat /\ Len(result) <= Len(file)
    BY DEF PrintedInv
  <2>2. pc # "goalcols"
    BY DEF PrintedInv
  <2> QED
    BY <1>1, <2>1, <2>2
<1>3. node.name \in Nat /\ node.modifier \in {1, 2} /\ node.words \in Seq(WordPieces)
  BY <1>1, <1>2, VariableIs
<1>4. result[k] = VariableLines(node, goal)
  BY DEF PrintedInv
<1>5. goal \in Nat
  BY <1>2 DEF BlocksInv, ColumnsInv
<1>6. node.name + Length(node.words) + Len(node.words) < NoWrap
  BY <1>1, <1>2, LengthsAssumption
<1>7. node.words # <<>> => /\ goal <= NoWrap + 16 /\ StartLen(node) < Max({16, goal})
                           /\ Max({16, goal}) % 8 = 0
  BY Zenon, <1>2, ColumnGiven, GoalIsNear
<1>8. ~node.newlines
  OBVIOUS
<1> HIDE DEF node, goal
<1>9. LET lines == PhysicalLines(VariableLines(node, goal))
      IN (wrapcol = -1 => Len(lines) = 1) /\ Filled(lines, wrapcol - 2)
  BY Zenon, <1>3, <1>5, <1>6, <1>7, <1>8, VariableFilled
<1> QED
  BY <1>4, <1>9

(* A variable that is not one word a line is broken by print_token_array() *)
(* only where the next word has no room in front of ' \', for all          *)
(* Makefiles and widths; with -w -1 it is one line.                        *)
THEOREM LinesStayFilled == Spec => []LinesFilled
<1> DEFINE Inv == BlocksInv /\ PrintedInv /\ wrapcol \in WrapColumns
<1>1. Inv => LinesFilled
  BY LinesAreFilled
<1>2. Init => Inv
  BY BlocksInit, PrintedInit DEF Init
<1>3. [Next]_vars => UNCHANGED wrapcol
  BY DEF Next, vars, Visit, VisitComment, VisitVariable, VisitOther, VisitEnd, Enqueue,
     PrintVariable, PrintTargetCommand, PrintFor, PrintIf, PrintRaw, PrintEnd, Done
<1>4. Inv /\ [Next]_vars => Inv'
  BY <1>3, BlocksStep, PrintedStep DEF BlocksInv
<1> QED
  BY <1>1, <1>2, <1>4, PTL DEF Spec
=============================================================================
