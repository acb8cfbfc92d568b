------------------------------ MODULE Printer ------------------------------
(***************************************************************************)
(* How a formatted statement is laid out: the goal columns of a block of   *)
(* variables, the rows their words are broken into, the lines of a target  *)
(* command and those of .if and .for.  What is printed as it was read is   *)
(* one Raw piece; RawOutput is about it.  The order the words are sorted   *)
(* in is that of their lengths, and opt_USE words are left as they are.    *)
(***************************************************************************)
EXTENDS Integers, SequencesExt

CONSTANTS
  Files,        (* the statements of a Makefile, as sequences             *)
  Behaviors,    (* subsets of {"edited", "commands", "unsorted"}          *)
  WrapColumns,  (* arguments of -w; -1 is none                            *)
  SizeModulus   (* of size_t                                              *)

(* A word of a statement, or another piece of its line.  "each" is a       *)
(* command whose words get lines of their own, sed one that also keeps -e  *)
(* and the word after it together; and is &&, ||, | or then, semi a word   *)
(* with a semicolon at its end and brackets one with five brackets; open   *)
(* is an opening parenthesis, !, or a function of .if, op a comparison,    *)
(* && or ||; escape has the $\ the tokenizer has marked.                   *)
Piece(kind, len) == [kind |-> kind, len |-> len]

WordKinds == {"word", "each", "sed", "-e", "and", "semi", "brackets", "open", "close", "op",
              "escape", "raw"}

(* No word is empty.                                                       *)
WordPieces == [kind : WordKinds, len : Nat \ {0}]

Tab == Piece("tab", 0)
Space == Piece("space", 1)
Backslash == Piece("backslash", 1)
Newline == Piece("newline", 0)
Comment == Piece("comment", 3)
Raw == Piece("raw", 0)
RawLine == <<Raw, Newline>>

ASSUME FilesAssumption ==
  \A f \in Files :
    /\ f \in Seq({f[k] : k \in DOMAIN f})
    /\ \A k \in DOMAIN f :
         /\ f[k].type \in {"variable", "comment", "command", "for", "if", "other"}
         /\ f[k].type \in {"variable", "command", "for", "if"} => f[k].words \in Seq(WordPieces)
         /\ f[k].type = "variable" => f[k].name \in Nat /\ f[k].modifier \in {1, 2}
         /\ f[k].type = "command" => f[k].flags \in Nat
         /\ f[k].type = "for" => f[k].bindings \in Seq(WordPieces)
         /\ f[k].type \in {"for", "if"} => f[k].indent \in Nat

ASSUME BehaviorsAssumption == \A b \in Behaviors : b \subseteq {"edited", "commands", "unsorted"}

(* The width of a row that ignore_wrap_col() gives a variable.             *)
NoWrap == 99999999

(* A size_t has more than 28 bits.                                         *)
ASSUME SizesAssumption ==
  /\ SizeModulus \in Nat /\ SizeModulus > 4 * NoWrap
  /\ WrapColumns \subseteq (-1 .. (SizeModulus - 1))

VARIABLES
  file,            (* the nodes under the root, and the settings          *)
  behavior,
  wrapcol,
  pc,              (* "goalcols", then "print", then "done"               *)
  at,              (* the node the walker is at                           *)
  nodes,           (* of the block: those that get the same goal column   *)
  moving_goalcol,
  goalcol,         (* node->meta.goalcol                                  *)
  result           (* what each node was printed as                       *)

vars == <<file, behavior, wrapcol, pc, at, nodes, moving_goalcol, goalcol, result>>

Init ==
  /\ file \in Files
  /\ behavior \in Behaviors
  /\ wrapcol \in WrapColumns
  /\ pc = "goalcols"
  /\ at = 1
  /\ nodes = {}
  /\ moving_goalcol = 0
  /\ goalcol = [k \in DOMAIN file |-> 0]
  /\ result = <<>>

(* Settings no option changes, and the size_t an option is turned into.    *)
target_command_format_wrapcol == 65
target_command_format_threshold == 8

AsSize(n) == n % SizeModulus

Tabs(n) == [k \in 1 .. n |-> Tab]

If(condition, pieces) == IF condition THEN pieces ELSE <<>>

(* str_join(words, " ")                                                    *)
JoinWord(line, word) == line \o If(line # <<>>, <<Space>>) \o <<word>>

Joined(words) == FoldLeft(JoinWord, <<>>, words)

AddLength(sum, piece) == sum + piece.len

Length(pieces) == FoldLeft(AddLength, 0, pieces)

(* No variable is as long as what NoWrap stands for.                       *)
ASSUME LengthsAssumption ==
  \A f \in Files : \A k \in DOMAIN f :
    f[k].type = "variable" => f[k].name + Length(f[k].words) + Len(f[k].words) < NoWrap

Tabstops(n) == (n + 7) \div 8

(* The name and the modifier.                                              *)
StartLen(node) == node.name + node.modifier + (IF node.plus THEN 1 ELSE 0)

-----------------------------------------------------------------------------
(* Faulty: the space in front of the modifier is forgotten.                *)
IndentGoalcolPlain(node) == Tabstops(node.name + 1 + node.modifier) * 8

(* indent_goalcol()                                                        *)
IndentGoalcol(node) ==
  LET varlength == node.name + 1 + (IF node.plus THEN 1 ELSE 0) + node.modifier
  IN Tabstops(IF (varlength + 1) % 8 = 0 THEN varlength + 1 ELSE varlength) * 8

(* parser_propagate_goalcol()                                              *)
Propagate ==
  /\ goalcol' = [k \in DOMAIN goalcol |->
                   IF k \in nodes THEN Max({16, moving_goalcol}) ELSE goalcol[k]]
  /\ moving_goalcol' = 0
  /\ nodes' = {}

Visit(types) ==
  /\ pc = "goalcols"
  /\ at \in DOMAIN file
  /\ file[at].type \in types
  /\ at' = at + 1
  /\ UNCHANGED <<file, behavior, wrapcol, pc, result>>

(* A line that is no comment ends the block.                               *)
VisitComment ==
  /\ Visit({"comment"})
  /\ IF file[at].blank /\ nodes # {} THEN Propagate ELSE UNCHANGED <<goalcol, moving_goalcol, nodes>>

VisitVariable ==
  /\ Visit({"variable"})
  /\ LET indent == IndentGoalcol(file[at])
     IN CASE file[at].words = <<>> -> UNCHANGED <<goalcol, moving_goalcol, nodes>>
          [] file[at].words # <<>> /\ file[at].skip ->
               goalcol' = [goalcol EXCEPT ![at] = indent] /\ UNCHANGED <<moving_goalcol, nodes>>
          [] OTHER ->
               /\ nodes' = nodes \cup {at}
               /\ moving_goalcol' = Max({indent, moving_goalcol})
               /\ UNCHANGED goalcol

VisitOther == Visit({"command", "for", "if", "other"}) /\ UNCHANGED <<goalcol, moving_goalcol, nodes>>

VisitEnd ==
  /\ pc = "goalcols"
  /\ at \notin DOMAIN file
  /\ Propagate
  /\ pc' = "print"
  /\ at' = 1
  /\ UNCHANGED <<file, behavior, wrapcol, result>>

-----------------------------------------------------------------------------
(* Faulty: the length of a row is not reset.                               *)
RowsNeverReset(words, width) ==
  LET Take(acc, word) ==
        IF acc.len + word.len <= width
        THEN [acc EXCEPT !.row = Append(@, word), !.len = @ + word.len + 1]
        ELSE [rows |-> acc.rows \o If(acc.row # <<>>, <<acc.row>>), row |-> <<word>>,
              len |-> acc.len + word.len]
      end == FoldLeft(Take, [rows |-> <<>>, row |-> <<>>, len |-> 0], words)
  IN end.rows \o If(end.row # <<>>, <<end.row>>)

(* Each row of print_token_array(); a word that is too long for any is a   *)
(* row, unless there is something in front of it.                          *)
TakeWord(acc, word) ==
  LET fits == Length(Joined(acc.row)) + word.len <= acc.width
  IN CASE fits                       -> [acc EXCEPT !.row = Append(@, word)]
       [] ~fits /\ acc.row = <<>>    -> [acc EXCEPT !.rows = Append(@, <<word>>)]
       [] ~fits /\ acc.row # <<>>    -> [acc EXCEPT !.rows = Append(@, acc.row), !.row = <<word>>]

Rows(words, width) ==
  LET end == FoldLeft(TakeWord, [width |-> width, rows |-> <<>>, row |-> <<>>], words)
  IN end.rows \o If(end.row # <<>>, <<end.row>>)

SingleRows(words) == [k \in DOMAIN words |-> <<words[k]>>]

(* print_newline_array(): the first row starts after the modifier.         *)
PrintNewlineArray(node, goal, rows) ==
  LET startlen == StartLen(node)
      column == Max({16, goal})
      head == <<Piece("name", node.name)>> \o If(node.plus, <<Space>>)
              \o <<Piece("modifier", node.modifier)>>
      first == Tabs(Tabstops(IF startlen > column THEN startlen - column ELSE column - startlen))
      Row(k) == (IF k = 1 THEN first ELSE Tabs(Tabstops(column))) \o Joined(rows[k])
                \o If(k < Len(rows), <<Space, Backslash, Newline>>)
      comment == IF rows = <<>> THEN first \o <<Comment>> ELSE <<Space, Comment>>
  IN head \o FlattenSeq([k \in DOMAIN rows |-> Row(k)]) \o If(node.comment, comment) \o <<Newline>>

(* Faulty: there is no room for ' \'.                                      *)
VariableWidthWhole(node, goal) ==
  IF node.ignore_wrap_col THEN NoWrap ELSE AsSize(AsSize(wrapcol) - goal)

(* ' \' is at the end of the line.                                         *)
VariableWidth(node, goal) ==
  IF node.ignore_wrap_col THEN NoWrap ELSE AsSize(AsSize(wrapcol) - goal - 2)

IsRaw(node) ==
  \/ Len(node.words) = 1 /\ node.words[1].kind = "escape"
  \/ ~node.edited /\ (node.leave_unformatted \/ "edited" \in behavior)

(* array_sort()                                                            *)
SortIn(sorted, word) ==
  InsertAt(sorted, SelectLastInSeq(sorted, LAMBDA w : w.len <= word.len) + 1, word)

Sorted(words) == FoldLeft(SortIn, <<>>, words)

WordsOf(node) ==
  IF node.sort /\ "unsorted" \notin behavior THEN Sorted(node.words) ELSE node.words

(* parser_output_print_variable()                                          *)
VariableLines(node, goal) ==
  LET words == WordsOf(node)
      rows == IF node.newlines \/ Len(words) < 2 THEN SingleRows(words)
              ELSE Rows(words, VariableWidth(node, goal))
  IN IF IsRaw(node) THEN RawLine ELSE PrintNewlineArray(node, goal, rows)

-----------------------------------------------------------------------------
(* A command is what is between two && or the like; a chunk of it is a     *)
(* word, or -e with the word after it, and after that an empty chunk that  *)
(* wants a line break.                                                     *)
NoCommand == <<Piece("none", 0)>>

(* target_command_should_wrap()                                            *)
ShouldWrap(chunk) ==
  /\ chunk # <<>>
  /\ \/ Last(chunk).kind = "semi"
     \/ Len(chunk) = 1 /\ chunk[1].kind = "and"

(* target_command_wrap_after_each_token()                                  *)
WrapAfterEach(chunk) == Len(chunk) = 1 /\ chunk[1].kind \in {"each", "sed"}

(* The command after a chunk, as both loops keep it.                       *)
CommandAt(command, chunk) ==
  CASE ShouldWrap(chunk)                            -> NoCommand
    [] ~ShouldWrap(chunk) /\ command = NoCommand    -> chunk
    [] OTHER                                        -> command

TakeToken(acc, word) ==
  LET command == CommandAt(acc.command, <<word>>)
      merged == Append(acc.merge, word)
  IN IF command[1].kind = "sed" /\ word.kind = "-e"
     THEN [acc EXCEPT !.command = command, !.merge = merged, !.wrap_after = TRUE]
     ELSE [command |-> command, merge |-> <<>>, wrap_after |-> FALSE,
           chunks |-> acc.chunks \o <<merged>> \o If(acc.wrap_after, <<<<>>>>)]

Chunks(words) ==
  LET end == FoldLeft(TakeToken, [command |-> NoCommand, merge |-> <<>>, wrap_after |-> FALSE,
                                  chunks |-> <<>>], words)
  IN [command |-> end.command,
      chunks |-> end.chunks \o If(end.merge # <<>>, <<end.merge, <<>>>>)]

(* The chunks a line ends after.  The second loop starts with the command  *)
(* the first one has ended with.                                           *)
Wraps(chunks, command, flags) ==
  LET Next1(acc, k) ==
        LET chunk == chunks[k]
            now == CommandAt(acc.command, chunk)
            from == CASE ShouldWrap(chunk) -> 1
                      [] ~ShouldWrap(chunk) /\ acc.command = NoCommand -> k
                      [] OTHER -> acc.from
            column == acc.column + Length(Joined(chunk)) + (IF k = 1 THEN flags ELSE 0)
            wanted == \/ column > target_command_format_wrapcol
                      \/ chunk = <<>>
                      \/ ShouldWrap(chunk)
                      \/ now # NoCommand /\ k > from /\ WrapAfterEach(now)
            later == k < Len(chunks) /\ (chunks[k + 1] = <<>> \/ ShouldWrap(chunks[k + 1]))
        IN [command |-> now, from |-> from,
            column |-> IF wanted /\ ~later THEN 16 ELSE column,
            wraps |-> IF wanted /\ ~later THEN acc.wraps \cup {k} ELSE acc.wraps]
  IN FoldLeft(Next1, [command |-> command, from |-> 1, column |-> 8, wraps |-> {}],
              [k \in DOMAIN chunks |-> k]).wraps

Complexity(words) ==
  FoldLeft(LAMBDA sum, word : sum + (CASE word.kind = "brackets" -> 5
                                       [] word.kind = "semi" -> 1
                                       [] OTHER -> 0), 0, words)

(* Faulty: the last word but one is taken for the last.                    *)
EndOfChunkBefore(node, chunk, k, wraps) ==
  CASE k >= Len(node.words) - 1 -> <<>>
    [] k < Len(node.words) - 1 /\ k \in wraps -> If(chunk # <<>>, <<Space>>) \o <<Backslash, Newline>>
    [] OTHER -> <<Space>>

(* What follows a chunk: there may be more words than chunks, and then     *)
(* also something after the last.                                          *)
EndOfChunk(node, chunk, k, wraps) ==
  CASE k >= Len(node.words) -> <<>>
    [] k < Len(node.words) /\ k \in wraps -> If(chunk # <<>>, <<Space>>) \o <<Backslash, Newline>>
    [] OTHER -> <<Space>>

(* parser_output_print_target_command()                                    *)
CommandLines(node) ==
  LET built == Chunks(node.words)
      chunks == built.chunks
      wraps == Wraps(chunks, built.command, node.flags)
      Line(k) == If(k - 1 \in wraps, Tabs(2))
                 \o If(k = 1 /\ node.flags > 0, <<Piece("flags", node.flags)>>)
                 \o Joined(chunks[k]) \o EndOfChunk(node, chunks[k], k, wraps)
  IN CASE node.words = <<>> -> <<>>
       [] /\ node.words # <<>>
          /\ ~node.edited
          /\ "commands" \notin behavior \/ Complexity(node.words) > target_command_format_threshold
            -> RawLine
       [] OTHER -> <<Tab>> \o FlattenSeq([k \in DOMAIN chunks |-> Line(k)])
                   \o If(node.comment, <<Space, Comment>>) \o <<Newline>>

-----------------------------------------------------------------------------
(* parser_output_print_for_helper(), and the loop of                       *)
(* parser_output_print_if(): a group is printed without spaces, and a line *)
(* does not start with an operator.                                        *)
TakeGroup(acc, k) ==
  LET group == acc.groups[k]
      len == Length(group)
      breaks == acc.linelen + len > acc.wrapcol /\ ~(Len(group) = 1 /\ group[1].kind = "op")
      space == k < Len(acc.groups)
  IN [acc EXCEPT
        !.linelen = (IF breaks THEN 8 ELSE @) + len + (IF space THEN 1 ELSE 0),
        !.line = @ \o If(breaks, <<Backslash, Newline, Tab>>) \o group \o If(space, <<Space>>)]

PrintGroups(groups, start) ==
  FoldLeft(TakeGroup,
           [groups |-> groups, wrapcol |-> AsSize(wrapcol), linelen |-> start, line |-> <<>>],
           [k \in DOMAIN groups |-> k])

(* parser_output_print_for()                                               *)
ForLines(node) ==
  LET start == Piece("for", node.indent + 5)
      in == Piece("in", 4)
      bindings == PrintGroups(SingleRows(node.bindings), start.len)
      words == PrintGroups(SingleRows(node.words), bindings.linelen + in.len)
  IN <<start>> \o bindings.line \o <<in>> \o words.line
     \o If(node.comment, <<Space, Comment>>) \o <<Newline>>

(* "!", "defined(", "foo" and ")" are one group.                           *)
TakeTest(groups, word) ==
  IF groups = <<>> \/ (Last(Last(groups)).kind # "open" /\ word.kind # "close")
  THEN Append(groups, <<word>>)
  ELSE Append(Front(groups), Append(Last(groups), word))

Groups(test) == FoldLeft(TakeTest, <<>>, test)

(* parser_output_print_if(); the el of .elif is part of the indentation.   *)
IfLines(node) ==
  LET start == Piece("if", node.indent + 4)
  IN <<start>> \o PrintGroups(Groups(node.words), start.len).line
     \o If(node.comment, <<Space, Comment>>) \o <<Newline>>

-----------------------------------------------------------------------------
(* parser_output_reformatted_walker()                                      *)
Formats(node) == node.edited \/ "edited" \notin behavior

Enqueue(types, lines) ==
  /\ pc = "print"
  /\ at \in DOMAIN file
  /\ file[at].type \in types
  /\ result' = Append(result, lines)
  /\ at' = at + 1
  /\ UNCHANGED <<file, behavior, wrapcol, pc, nodes, moving_goalcol, goalcol>>

PrintVariable == Enqueue({"variable"}, VariableLines(file[at], goalcol[at]))

PrintTargetCommand == Enqueue({"command"}, CommandLines(file[at]))

PrintFor == Enqueue({"for"}, IF Formats(file[at]) THEN ForLines(file[at]) ELSE RawLine)

PrintIf == Enqueue({"if"}, IF Formats(file[at]) THEN IfLines(file[at]) ELSE RawLine)

PrintRaw == Enqueue({"comment", "other"}, RawLine)

PrintEnd ==
  /\ pc = "print"
  /\ at \notin DOMAIN file
  /\ pc' = "done"
  /\ UNCHANGED <<file, behavior, wrapcol, at, nodes, moving_goalcol, goalcol, result>>

Done == pc = "done" /\ UNCHANGED vars

Next ==
  \/ VisitComment \/ VisitVariable \/ VisitOther \/ VisitEnd
  \/ PrintVariable \/ PrintTargetCommand \/ PrintFor \/ PrintIf \/ PrintRaw \/ PrintEnd
  \/ Done

Spec == Init /\ [][Next]_vars

-----------------------------------------------------------------------------
(* Reading it back.                                                        *)
TakePiece(acc, piece) ==
  IF piece = Newline THEN [lines |-> Append(acc.lines, acc.line), line |-> <<>>]
  ELSE [acc EXCEPT !.line = Append(@, piece)]

PhysicalLines(pieces) == FoldLeft(TakePiece, [lines |-> <<>>, line |-> <<>>], pieces).lines

IsWord(piece) == piece.kind \in WordKinds

(* The words of a statement up to its comment, and those of the lines it   *)
(* is continued by; two without anything between them are one, unless it   *)
(* is a parenthesis.                                                       *)
ReadPiece(acc, piece) ==
  LET glued == IsWord(acc.last) /\ acc.last.kind # "open" /\ piece.kind # "close"
      word == IF glued THEN Piece("glued", piece.len) ELSE piece
  IN CASE piece = Newline /\ acc.last # Backslash ->
            [done |-> Append(acc.done, acc.words), words |-> <<>>, last |-> piece,
             commented |-> FALSE]
       [] IsWord(piece) /\ ~acc.commented ->
            [acc EXCEPT !.words = Append(@, word), !.last = piece]
       [] OTHER -> [acc EXCEPT !.last = piece, !.commented = @ \/ piece = Comment]

Statements(pieces) ==
  FoldLeft(ReadPiece, [done |-> <<>>, words |-> <<>>, last |-> Newline, commented |-> FALSE],
           pieces).done

ExpectedWords(node) ==
  CASE node.type = "variable" -> WordsOf(node)
    [] node.type = "for" -> node.bindings \o node.words
    [] node.type \in {"command", "if"} -> node.words
    [] OTHER -> <<Raw>>

Expected(k) == IF result[k] = RawLine THEN <<Raw>> ELSE ExpectedWords(file[k])

(* Faulty lines would run into each other: a backslash too many takes in   *)
(* the next statement, one too few makes a statement of its own, a space   *)
(* too few one word of two.  What was printed has each statement with its  *)
(* words in their order, but for a command that has none.                  *)
ReadsBack ==
  Statements(FlattenSeq(result)) =
    FlattenSeq([k \in DOMAIN result |->
      If(file[k].type = "command" => file[k].words # <<>>, <<Expected(k)>>)])

(* tests/parser/ast0012.t has a command of no words and its comment in the *)
(* tree: it is a line of the Makefile.                                     *)
EachCommandPrinted == \A k \in DOMAIN result : result[k] # <<>>

-----------------------------------------------------------------------------
(* The column after some pieces.                                           *)
NextColumn(column, piece) ==
  IF piece = Tab THEN (column \div 8 + 1) * 8 ELSE column + piece.len

ColumnAfter(pieces) == FoldLeft(NextColumn, 0, pieces)

FirstWord(line) ==
  LET words == {k \in DOMAIN line : IsWord(line[k])}
  IN IF words = {} THEN 0 ELSE Min(words)

(* Where the first word of each line starts.                               *)
StartColumns(pieces) ==
  {ColumnAfter(SubSeq(line, 1, FirstWord(line) - 1)) :
     line \in {l \in ToSet(PhysicalLines(pieces)) : FirstWord(l) # 0}}

IsAligned(k) == file[k].type = "variable" /\ file[k].words # <<>> /\ ~file[k].skip

(* The variables with no empty line between them.                          *)
BlockOf(k) ==
  IF ~IsAligned(k) THEN {k}
  ELSE {j \in DOMAIN file :
          /\ IsAligned(j)
          /\ ~\E i \in Min({j, k}) .. Max({j, k}) : file[i].type = "comment" /\ file[i].blank}

(* The first tabstop after the modifier.                                   *)
Needed(node) == (StartLen(node) \div 8 + 1) * 8

(* A variable with words never has a name that reaches to its goal column, *)
(* once the columns are found: print_newline_array() has at least one tab  *)
(* to put in front of the first row, and its way out for longer names is   *)
(* never taken.                                                            *)
NamesHaveRoom ==
  pc # "goalcols" =>
    \A k \in DOMAIN file :
      file[k].type = "variable" /\ file[k].words # <<>> => StartLen(file[k]) < goalcol[k]

(* Every row of every variable of a block starts in the same column, the   *)
(* first that has room for all their names, and none is in front of 16.    *)
BlocksAligned ==
  \A k \in DOMAIN result :
    file[k].type = "variable" /\ result[k] # RawLine =>
      StartColumns(result[k]) \subseteq {Max({16} \cup {Needed(file[j]) : j \in BlockOf(k)})}

Fits(line, room) ==
  \/ ColumnAfter(line) <= room
  \/ Cardinality({k \in DOMAIN line : IsWord(line[k]) /\ line[k].kind # "op"}) <= 1

(* No line of a variable is longer than one column more than -w says, the  *)
(* joining space the loop does not count, if it has two words; that of .if *)
(* and .for may have an operator, its space and the backslash behind it,   *)
(* or in.  But where the goal column leaves no room for ' \' the           *)
(* difference of two sizes is as good as infinite.                         *)
RoomOf(k) ==
  CASE file[k].type \in {"for", "if"} -> wrapcol + 5
    [] /\ file[k].type = "variable"
       /\ ~file[k].ignore_wrap_col
       /\ wrapcol >= goalcol[k] + 2 -> wrapcol + 1
    [] OTHER -> SizeModulus

LinesFit ==
  wrapcol # -1 =>
    \A k \in DOMAIN result :
      \A line \in ToSet(PhysicalLines(result[k])) :
        Fits(SelectSeq(line, LAMBDA piece : piece # Comment), RoomOf(k))

(* A variable is broken only where the next word has no room in front of   *)
(* ' \', and with -w -1 nowhere (man/portfmt.1: "Variables with wrapped    *)
(* tokens over multiple lines will be concatenated onto a single line").   *)
LinesFilled ==
  \A k \in DOMAIN result :
    LET lines == PhysicalLines(result[k])
        HasRoom(n) == ColumnAfter(SubSeq(lines[n], 1, Len(lines[n]) - 2))
                        + lines[n + 1][FirstWord(lines[n + 1])].len <= wrapcol - 2
    IN file[k].type = "variable" /\ ~file[k].newlines =>
         /\ wrapcol = -1 => Len(lines) = 1
         /\ \A n \in 1 .. (Len(lines) - 1) : ~HasRoom(n)
=============================================================================
