----------------------------- MODULE MCPrinter -----------------------------
(* Blocks of variables with names and words of all lengths that matter to  *)
(* the columns, and all target commands, .if and .for of a few words.      *)
EXTENDS Printer

Words(kinds, lens) == {Piece(kind, len) : kind \in kinds, len \in lens}

SeqsUpTo(S, n) == UNION {[1 .. k -> S] : k \in 0 .. n}

Variable(name, words) ==
  [type |-> "variable", name |-> name, plus |-> FALSE, modifier |-> 1, words |-> words,
   comment |-> FALSE, skip |-> FALSE, newlines |-> FALSE, ignore_wrap_col |-> FALSE,
   leave_unformatted |-> FALSE, sort |-> FALSE, edited |-> FALSE]

Simple(name) == Variable(name, <<Piece("word", 5)>>)

Variables ==
  {Simple(name) : name \in {5, 6, 15, 23}}
  \cup {[Simple(name) EXCEPT !.plus = TRUE, !.modifier = 2] : name \in {5, 12, 13, 21}}
  \cup {[Simple(20) EXCEPT !.skip = TRUE], [Simple(8) EXCEPT !.edited = TRUE],
        [Variable(30, <<>>) EXCEPT !.comment = TRUE],
        [Simple(14) EXCEPT !.leave_unformatted = TRUE],
        [Simple(7) EXCEPT !.words = <<Piece("escape", 2)>>],
        Variable(39, <<Piece("word", 10), Piece("word", 9)>>)}

Comments == {[type |-> "comment", blank |-> blank] : blank \in BOOLEAN}

Other == [type |-> "other"]

Blocks == [1 .. 3 -> Variables \cup Comments]

Long ==
  {[Variable(6, words) EXCEPT !.newlines = kind = "newlines", !.ignore_wrap_col = kind = "one",
                              !.sort = kind = "sorted", !.comment = kind = "comment"] :
     words \in SeqsUpTo(Words({"word"}, {4, 11, 18, 13, 70}), 4),
     kind \in {"newlines", "one", "sorted", "comment"}}

Command(words, flags, edited) ==
  [type |-> "command", words |-> words, flags |-> flags, comment |-> edited, edited |-> edited]

CommandWords ==
  Words({"word"}, {1, 50}) \cup Words({"each", "sed", "-e", "and", "semi", "brackets"}, {5})

TargetCommands ==
  {Command(words, flags, edited) :
     words \in SeqsUpTo(CommandWords, 4), flags \in {0, 2}, edited \in BOOLEAN}

TestWords ==
  Words({"word"}, {6, 28}) \cup Words({"open", "close"}, {1}) \cup Words({"op"}, {2})

(* Two operators do not follow each other.                                 *)
Tests ==
  {[type |-> "if", indent |-> 1, words |-> words, comment |-> TRUE, edited |-> FALSE] :
     words \in {test \in SeqsUpTo(TestWords, 4) :
                  /\ test # <<>>
                  /\ \A k \in 2 .. Len(test) : test[k].kind # "op" \/ test[k - 1].kind # "op"}}

Loops ==
  {[type |-> "for", indent |-> 0, bindings |-> bindings, words |-> words, comment |-> FALSE,
    edited |-> FALSE] :
     bindings \in SeqsUpTo(Words({"word"}, {5, 29}), 2) \ {<<>>},
     words \in SeqsUpTo(Words({"word"}, {5, 29}), 3)}

MCFiles == Blocks \cup {<<node, Other>> : node \in Long \cup TargetCommands \cup Tests \cup Loops}

MCBehaviors == {{"commands"}, {"edited", "unsorted"}}

MCWrapColumns == {-1, 40}
=============================================================================
