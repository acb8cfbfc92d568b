--------------------------- MODULE CommandsProofs ---------------------------
(***************************************************************************)
(* A command that fails before it writes has not touched the Makefile, one *)
(* that succeeds has all of it in its file, and whenever it ends or is     *)
(* killed there is nothing else in the file than the first lines of the    *)
(* Makefile: for all Makefiles, options and sizes of the buffer.           *)
(*                                                                         *)
(* CommandsInv says in which order parser_output_write_to_file() and       *)
(* main() do what they do; LinesInv follows the lines of the Makefile      *)
(* through rawlines, the tree, the result and the buffer back to the file. *)
(***************************************************************************)
EXTENDS Commands, SequenceInduction, TLAPS

Places == {"arguments", "open", "read", "finish", "edit", "prepare", "seek", "truncate",
           "write", "exit"}

(* The kinds of edits whose commands print a report.                       *)
Reporters == {"get", "targets", "variables", "clippy", "output"}

(* What goes into the Makefile is a Makefile.                              *)
SettingsAgree ==
  /\ command \in Commands
  /\ InPlace => behavior \cap {"dump", "diff", "raw"} = {}
  /\ command.edit \in Reporters => "raw" \in behavior
  /\ error = "differences" => "diff" \in behavior

(* Nothing is written before the parser has ended without an error.        *)
WrittenLast ==
  /\ pc \in Places
  /\ pc \notin {"write", "exit"} => file = makefile /\ buffer = <<>> /\ error = "ok"
  /\ pc \in {"seek", "truncate"} => InPlace
  /\ pc = "write" => error \in {"ok", "differences"}
  /\ ~InPlace => file = makefile

(* At the end nothing is left to be written to a Makefile that was kept.   *)
EndsAgree ==
  /\ pc = "exit" /\ InPlace /\ error # "io" /\ code # 0 => file = makefile /\ buffer = <<>>
  /\ status \in {1, 2, Usage} => pc = "exit" /\ code = status

CommandsInv == SettingsAgree /\ WrittenLast /\ EndsAgree

-----------------------------------------------------------------------------
(* read_common_args() only ever takes -i back.                             *)
LEMMA CommonSettingsAgree ==
  ASSUME NEW flags, NEW letters
  PROVE  /\ "inplace" \in CommonSettings(flags, letters) =>
              CommonSettings(flags, letters) \cap {"dump", "diff", "raw"} = {}
         /\ "raw" \in flags => "raw" \in CommonSettings(flags, letters)
BY DEF CommonSettings

(* The commands that print a report do not print the Makefile.             *)
LEMMA ReportersAreRaw ==
  ASSUME NEW c \in Commands, c.edit \in Reporters
  PROVE  "raw" \in c.behavior
BY DEF Commands, Reporters, Portfmt, Portclippy, ApplyRefactor, ApplyOutput, BumpRevision,
       GetVariable, MergeExpression, SanitizeAppend, SetVersion, UnknownTargets, UnknownVars,
       Portedit

LEMMA NoneStartsInPlace ==
  ASSUME NEW c \in Commands
  PROVE  "inplace" \notin c.behavior
BY DEF Commands, Portfmt, Portclippy, ApplyRefactor, ApplyOutput, BumpRevision,
       GetVariable, MergeExpression, SanitizeAppend, SetVersion, UnknownTargets, UnknownVars,
       Portedit

LEMMA CommandsInit == Init => CommandsInv
BY ReportersAreRaw, NoneStartsInPlace
   DEF Init, CommandsInv, SettingsAgree, WrittenLast, EndsAgree, Places, InPlace, Running,
       Usage

(* Nothing is written from an empty buffer.                                *)
LEMMA EmptyWrite ==
  ASSUME NEW lines, NEW at
  PROVE  WriteAt(lines, at, <<>>) = lines
BY DEF WriteAt

-----------------------------------------------------------------------------
LEMMA CommandsStep ==
  ASSUME CommandsInv, [Next]_vars
  PROVE  CommandsInv'
<1> USE DEF CommandsInv, SettingsAgree, WrittenLast, EndsAgree, Places, InPlace
<1>1. CASE ReadArguments
  <2>1. UNCHANGED command /\ UNCHANGED <<file, makefile, buffer, error, status>>
    BY <1>1 DEF ReadArguments, given, disk, parser
  <2>2. CASE behavior' = CommonSettings(command.behavior, ToSet(options))
    BY <1>1, <2>1, <2>2, CommonSettingsAgree, ReportersAreRaw DEF ReadArguments, At, Leave, Running, Usage
  <2>3. CASE UNCHANGED behavior
    BY <1>1, <2>1, <2>3 DEF ReadArguments, At, Leave, Running, Usage
  <2>q. QED BY <1>1, <2>2, <2>3 DEF ReadArguments
<1>2. CASE OpenFile \/ ReadLine \/ ReadEnd \/ ReadFails \/ ReadFinish
  BY <1>2 DEF OpenFile, ReadLine, ReadEnd, ReadFails, ReadFinish, At, Leave, Running, Usage,
              given, disk, parser
<1>3. CASE EditNone \/ EditRefactor \/ EditBumpRevision \/ EditMerge \/ EditSetVersion
  BY <1>3 DEF EditNone, EditRefactor, EditBumpRevision, EditMerge, EditSetVersion, Edit,
              EditDone, At, Running, Usage, given, disk, parser
<1>4. CASE \/ EditOutput \/ EditGet \/ EditUnknownTargets \/ EditUnknownVars \/ EditClippy
           \/ BumpRevisionFails \/ ExpressionFails \/ NotAPort
  BY <1>4 DEF EditOutput, EditGet, EditUnknownTargets, EditUnknownVars, EditClippy, Edit,
              BumpRevisionFails, ExpressionFails, NotAPort, EditFailed, ReportIf,
              EditDone, At, Leave, Running, Usage, given, disk, parser
<1>5. CASE Prepare
  BY <1>5 DEF Prepare, MayWrite, At, Leave, Running, Usage, given, disk
<1>6. CASE Seek \/ Truncate
  BY <1>6 DEF Seek, Truncate, IOFails, At, Leave, Running, Usage, given
<1>7. CASE PutLine \/ PutFails
  BY <1>7 DEF PutLine, PutFails, WriteOut, IOFails, At, Leave, Running, Usage, given
<1>8. CASE Return
  BY <1>8 DEF Return, ReturnValues, StatusOfClippy, Reporters, At, Running, Usage, given, disk, parser
<1>9. CASE Exit
  <2>0. PICK n \in 0 .. Len(buffer) : WriteOut(SubSeq(buffer, 1, n))
    BY <1>9 DEF Exit
  <2>1. CASE InPlace /\ error # "io" /\ code # 0
    <3>1. SubSeq(buffer, 1, n) = <<>>
      BY <1>9, <2>1 DEF Exit, At
    <3>2. file' = WriteAt(file, offset, <<>>)
      BY <2>0, <2>1, <3>1 DEF WriteOut
    <3>3. file' = file
      BY <3>2, EmptyWrite
    <3>q. QED BY <1>9, <2>1, <3>3 DEF Exit, At, Running, Usage, given, parser
  <2>2. CASE ~(InPlace /\ error # "io" /\ code # 0)
    BY <1>9, <2>0, <2>2 DEF Exit, WriteOut, At, Running, Usage, given, parser
  <2>q. QED BY <2>1, <2>2
<1>10. CASE Kill
  BY <1>10 DEF Kill, Killed, Running, Usage, given, disk, parser
<1>11. CASE UNCHANGED vars
  BY <1>11 DEF vars, given, disk, parser
<1>q. QED
  BY <1>1, <1>2, <1>3, <1>4, <1>5, <1>6, <1>7, <1>8, <1>9, <1>10, <1>11 DEF Next, Ended

(* A run that ends with an error, with a difference or with its usage has  *)
(* left the Makefile as it was, unless it is the writing that has failed:  *)
(* parser_output_write_to_file() does not touch the file before the parser *)
(* is through and without an error.                                        *)
THEOREM FailuresLeaveMakefile == Spec => []FailureLeavesMakefile
<1>1. CommandsInv => FailureLeavesMakefile
  BY DEF CommandsInv, SettingsAgree, WrittenLast, EndsAgree, FailureLeavesMakefile, Usage
<1>q. QED BY <1>1, CommandsInit, CommandsStep, PTL DEF Spec

(* Only -i may change the file, and not with -d, -D or a command that      *)
(* prints a report.                                                        *)
OnlyInPlaceWrites ==
  file # makefile => InPlace /\ behavior \cap {"dump", "diff", "raw"} = {}

(* What is dumped, compared or reported never goes into the Makefile:      *)
(* read_common_args() takes -i back.                                       *)
THEOREM ReportsLeaveMakefile == Spec => []OnlyInPlaceWrites
<1>1. CommandsInv => OnlyInPlaceWrites
  BY DEF CommandsInv, SettingsAgree, WrittenLast, OnlyInPlaceWrites
<1>q. QED BY <1>1, CommandsInit, CommandsStep, PTL DEF Spec

-----------------------------------------------------------------------------
(* What is in the file, in the buffer and still to be printed.             *)
Texts == Lines \cup Edited \cup Foreign

OwnOf(line) == Unless(line \in {"blank", "added"}, Origin(line))
Own == [line \in Texts |-> OwnOf(line)]
Others == [line \in Texts |-> Unless(line = "include", line)]

(* Both are filters of lines.                                              *)
LEMMA FiltersMap ==
  /\ Maps(Own, Texts, Texts)
  /\ Maps(Others, Texts, Texts)
<1>1. \A line \in Texts : Origin(line) \in Texts
  BY DEF Origin, Texts, Lines
<1>2. \A line \in Texts : OwnOf(line) \in Seq(Texts)
  BY <1>1 DEF OwnOf, Unless
<1>3. \A line \in Texts : Unless(line = "include", line) \in Seq(Texts)
  BY DEF Unless
<1> QED
  BY <1>2, <1>3 DEF Maps, Own, Others

(* Content and WithoutIncludes map their lines with them.                  *)
LEMMA ContentMapped ==
  ASSUME NEW s \in Seq(Texts)
  PROVE  /\ Content(s) = Mapped(Own, s) /\ Content(s) \in Seq(Texts)
         /\ WithoutIncludes(s) = Mapped(Others, s) /\ WithoutIncludes(s) \in Seq(Texts)
<1>1. \A k \in DOMAIN s : s[k] \in Texts
  OBVIOUS
<1>2. [k \in DOMAIN s |-> Unless(s[k] \in {"blank", "added"}, Origin(s[k]))] = Each(Own, s)
  BY <1>1 DEF Each, Own, OwnOf
<1>3. [k \in DOMAIN s |-> Unless(s[k] = "include", s[k])] = Each(Others, s)
  BY <1>1 DEF Each, Others
<1>4. Content(s) = Mapped(Own, s) /\ WithoutIncludes(s) = Mapped(Others, s)
  BY <1>2, <1>3 DEF Content, WithoutIncludes, Mapped
<1> QED
  BY <1>4, FiltersMap, MappedType

(* The content of lines in a row is that of each.                          *)
LEMMA ContentConcat ==
  ASSUME NEW s \in Seq(Texts), NEW t \in Seq(Texts)
  PROVE  /\ s \o t \in Seq(Texts)
         /\ Content(s \o t) = Content(s) \o Content(t)
         /\ WithoutIncludes(s \o t) = WithoutIncludes(s) \o WithoutIncludes(t)
<1> DEFINE st == s \o t
<1>1. st \in Seq(Texts)
  OBVIOUS
<1>2. Mapped(Own, st) = Mapped(Own, s) \o Mapped(Own, t)
  BY FiltersMap, MappedConcat
<1>3. Mapped(Others, st) = Mapped(Others, s) \o Mapped(Others, t)
  BY FiltersMap, MappedConcat
<1> HIDE DEF st
<1>4. Content(st) = Mapped(Own, st) /\ WithoutIncludes(st) = Mapped(Others, st)
  BY <1>1, ContentMapped
<1> QED
  BY <1>1, <1>2, <1>3, <1>4, ContentMapped DEF st

LEMMA ContentNone == Content(<<>>) = <<>> /\ WithoutIncludes(<<>>) = <<>>
<1>1. <<>> \in Seq(Texts)
  OBVIOUS
<1> QED
  BY <1>1, ContentMapped, MappedNone

(* One line has one line of content at most.                               *)
LEMMA ContentOne ==
  ASSUME NEW line \in Texts
  PROVE  /\ <<line>> \in Seq(Texts) /\ Content(<<line>>) = OwnOf(line)
         /\ WithoutIncludes(<<line>>) = Unless(line = "include", line)
<1> DEFINE one == <<line>>
<1>1. one \in Seq(Texts)
  OBVIOUS
<1>2. Mapped(Own, one) = Own[line] /\ Mapped(Others, one) = Others[line]
  BY FiltersMap, MappedOne
<1> HIDE DEF one
<1>3. Content(one) = Mapped(Own, one) /\ WithoutIncludes(one) = Mapped(Others, one)
  BY <1>1, ContentMapped
<1> QED
  BY <1>1, <1>2, <1>3 DEF Own, Others, one

(* The content of lines each of which is made of some others is what the   *)
(* others have, one by one.                                                *)
LEMMA ContentFlatten ==
  ASSUME NEW F \in Seq(Seq(Texts))
  PROVE  /\ FlattenSeq(F) \in Seq(Texts)
         /\ Content(FlattenSeq(F)) = FlattenSeq([k \in DOMAIN F |-> Content(F[k])])
<1>1. FlattenSeq(F) \in Seq(Texts)
  BY FlattenType
<1>2. Mapped(Own, FlattenSeq(F)) = FlattenSeq([k \in DOMAIN F |-> Mapped(Own, F[k])])
  BY FiltersMap, MappedFlatten
<1>3. \A k \in DOMAIN F : F[k] \in Seq(Texts)
  OBVIOUS
<1>4. [k \in DOMAIN F |-> Mapped(Own, F[k])] = [k \in DOMAIN F |-> Content(F[k])]
  BY <1>3, ContentMapped
<1> QED
  BY <1>1, <1>2, <1>4, ContentMapped

(* Blank lines are no content: the edit takes nothing else.                *)
LEMMA RemovedLinesAreBlank ==
  ASSUME NEW lines \in Seq(Texts)
  PROVE  /\ RemoveEmptyLines(lines) \in Seq(Texts)
         /\ \A S : lines \in Seq(S) => RemoveEmptyLines(lines) \in Seq(S)
         /\ Content(RemoveEmptyLines(lines)) = Content(lines)
<1> DEFINE F == [k \in DOMAIN lines |->
                   Unless(lines[k] = "blank" /\ (k = 1 \/ lines[k - 1] = "blank"), lines[k])]
<1>1. DOMAIN lines = 1 .. Len(lines) /\ Len(lines) \in Nat /\ \A k \in DOMAIN lines : lines[k] \in Texts
  OBVIOUS
<1>2. DOMAIN F = DOMAIN lines /\ F = [k \in 1 .. Len(lines) |-> F[k]]
  BY <1>1
<1>3. \A k \in DOMAIN lines :
        F[k] = <<lines[k]>> \/ (F[k] = <<>> /\ lines[k] = "blank")
  BY DEF Unless
<1> HIDE DEF F
<1>4. ASSUME NEW S, lines \in Seq(S)
      PROVE  F \in Seq(Seq(S)) /\ FlattenSeq(F) \in Seq(S)
  <2>1. \A k \in 1 .. Len(lines) : F[k] \in Seq(S)
    <3> TAKE k \in 1 .. Len(lines)
    <3>1. lines[k] \in S
      BY <1>4
    <3>2. <<lines[k]>> \in Seq(S) /\ <<>> \in Seq(S)
      BY <3>1
    <3> QED
      BY <1>1, <1>3, <3>2
  <2>2. F \in Seq(Seq(S))
    BY <1>1, <1>2, <2>1, FunctionSeq
  <2> QED
    BY <2>2, FlattenType
<1>5. \A k \in DOMAIN lines : Content(F[k]) = OwnOf(lines[k])
  <2> TAKE k \in DOMAIN lines
  <2>1. CASE F[k] = <<lines[k]>>
    BY <1>1, <2>1, ContentOne
  <2>2. CASE F[k] = <<>> /\ lines[k] = "blank"
    BY <2>2, ContentNone DEF OwnOf, Unless
  <2> QED
    BY <1>3, <2>1, <2>2
<1>6. [k \in DOMAIN F |-> Content(F[k])] = Each(Own, lines)
  BY <1>1, <1>2, <1>5 DEF Each, Own
<1>7. Content(FlattenSeq(F)) = Mapped(Own, lines)
  BY <1>4, <1>6, ContentFlatten DEF Mapped
<1>8. RemoveEmptyLines(lines) = FlattenSeq(F)
  BY DEF RemoveEmptyLines, F
<1> QED
  BY <1>4, <1>7, <1>8, ContentMapped

-----------------------------------------------------------------------------
(* The way of the Makefile through the parser: what is in the rawlines, in *)
(* the tree and in the result is the Makefile, or the first lines of it.   *)
Nodes == [text : Lines \cup Edited, edited : BOOLEAN]
TextsOf(s) == [k \in DOMAIN s |-> s[k].text]

(* Lines with all that was read, and those that may have lost the includes *)
(* of a category Makefile.                                                 *)
Whole(lines) ==
  \/ Content(lines) = Content(rawlines)
  \/ /\ "subdir" \in ToSet(makefile)
     /\ Content(lines) = WithoutIncludes(Content(rawlines))

(* The first of them.                                                      *)
Begun(lines) ==
  \/ IsPrefix(Content(lines), Content(rawlines))
  \/ /\ "subdir" \in ToSet(makefile)
     /\ IsPrefix(Content(lines), WithoutIncludes(Content(rawlines)))

TextsTyped ==
  /\ makefile \in Seq(Lines)
  /\ rawlines \in Seq(Lines)
  /\ nodes \in Seq(Nodes)
  /\ file \in Seq(Texts)
  /\ buffer \in Seq(Texts)
  /\ result \in Seq(Texts)
  /\ offset \in Nat
  /\ code \in {0, 1, 2, Usage}

(* What is in rawlines when the file was read to its end or to a failure.  *)
ReadSound ==
  /\ IsPrefix(Content(rawlines), Content(makefile))
  /\ "read" \notin faults => Content(rawlines) = Content(makefile)

(* What has still to be written goes to the end of the file, and it is all *)
(* there until the last buffer cannot be written.                          *)
Written ==
  /\ InPlace
  /\ ReadSound
  /\ offset = Len(file)
  /\ IF "flush" \in faults THEN Begun(file) ELSE Whole(file \o (buffer \o result))

ReadingAgrees ==
  /\ pc \in {"arguments", "open"} => offset = 0 /\ rawlines = <<>>
  /\ pc = "read" => /\ offset <= Len(makefile)
                    /\ Content(rawlines) = Content(SubSeq(makefile, 1, offset))
  /\ pc \in {"finish", "edit", "prepare", "seek", "truncate", "write"} => ReadSound
  /\ "subdir" \in ToSet(rawlines) => "subdir" \in ToSet(makefile)

TreeAgrees ==
  pc \in {"edit", "prepare"} =>
    /\ Content(TextsOf(nodes)) = Content(rawlines)
    /\ IsCategory => "subdir" \in ToSet(makefile)

ResultAgrees ==
  /\ pc \in {"arguments", "open", "read", "finish", "edit"} => result = <<>>
  /\ pc = "prepare" /\ InPlace => result = <<>>
  /\ pc \in {"seek", "truncate"} => Whole(result)
  /\ pc = "truncate" => offset = 0
  /\ pc = "exit" /\ code = 0 => result = <<>>

FileAgrees ==
  /\ pc = "write" /\ InPlace => Written
  /\ (file = makefile /\ (InPlace => buffer = <<>>)) \/ Written
  /\ status \notin {Running, Killed} => pc = "exit" /\ code = status /\ buffer = <<>>
  /\ "flush" \in faults => status # Running

LinesInv ==
  /\ CommandsInv
  /\ TextsTyped
  /\ ReadingAgrees
  /\ TreeAgrees
  /\ ResultAgrees
  /\ FileAgrees

-----------------------------------------------------------------------------
(* The larger of two numbers.                                              *)
LEMMA LargerOfTwo ==
  ASSUME NEW a \in Nat, NEW b \in Nat, a <= b
  PROVE  Max({a, b}) = b
<1>1. \E x \in {a, b} : \A y \in {a, b} : x >= y
  OBVIOUS
<1>2. Max({a, b}) \in {a, b} /\ \A y \in {a, b} : Max({a, b}) >= y
  BY <1>1 DEF Max
<1> QED
  BY <1>2

(* What is written at the end of a file is behind what was in it.          *)
LEMMA WrittenAtEnd ==
  ASSUME NEW lines \in Seq(Texts), NEW new \in Seq(Texts)
  PROVE  WriteAt(lines, Len(lines), new) = lines \o new
<1>1. CASE new = <<>>
  BY <1>1, EmptyWrite, ConcatEmptySeq
<1>2. CASE new # <<>>
  <2> DEFINE n == Len(lines)
             m == Len(new)
             w == WriteAt(lines, n, new)
             both == lines \o new
  <2>1. n \in Nat /\ m \in Nat /\ n <= n + m /\ n + m \in Nat
    OBVIOUS
  <2>2. Max({n, n + m}) = n + m
    BY <2>1, LargerOfTwo
  <2>3. w = [k \in 1 .. (n + m) |->
               CASE k \in (n + 1) .. (n + m) -> new[k - n]
                 [] k \notin (n + 1) .. (n + m) /\ k <= n -> lines[k]
                 [] OTHER -> "hole"]
    BY <1>2, <2>2 DEF WriteAt
  <2>4. /\ both \in Seq(Texts) /\ Len(both) = n + m
        /\ \A i \in 1 .. n + m : both[i] = IF i <= n THEN lines[i] ELSE new[i - n]
    BY ConcatProperties
  <2> HIDE DEF w, both, n, m
  <2>5. ASSUME NEW k \in 1 .. (n + m)
        PROVE  w[k] = both[k]
    <3>1. CASE k <= n
      <4>1. k \notin (n + 1) .. (n + m)
        BY <2>1, <3>1
      <4> QED
        BY <2>3, <2>4, <3>1, <4>1
    <3>2. CASE ~(k <= n)
      <4>1. k \in (n + 1) .. (n + m)
        BY <2>1, <3>2
      <4> QED
        BY <2>3, <2>4, <3>2, <4>1
    <3> QED
      BY <3>1, <3>2
  <2>6. w = [k \in 1 .. (n + m) |-> w[k]]
    BY <2>3
  <2>7. both = [k \in 1 .. (n + m) |-> both[k]]
    BY <2>4
  <2>8. w = both
    BY <2>5, <2>6, <2>7
  <2> QED
    BY <2>8 DEF w, both, n
<1> QED
  BY <1>1, <1>2

(* What is in front of other lines is their prefix.                        *)
LEMMA FrontIsPrefix ==
  ASSUME NEW S, NEW s \in Seq(S), NEW t \in Seq(S)
  PROVE  IsPrefix(s, s \o t)
<1> DEFINE both == s \o t
<1>1. /\ both \in Seq(S) /\ Len(both) = Len(s) + Len(t)
      /\ \A i \in 1 .. Len(s) + Len(t) : both[i] = IF i <= Len(s) THEN s[i] ELSE t[i - Len(s)]
  BY ConcatProperties
<1> HIDE DEF both
<1>2. Len(s) \in Nat /\ Len(t) \in Nat
  OBVIOUS
<1>3. \A i \in 1 .. Len(s) : both[i] = s[i] /\ i \in 1 .. Len(both)
  BY <1>1, <1>2
<1>4. SubSeq(s, 1, Len(s)) = SubSeq(both, 1, Len(s))
  BY <1>1, <1>2, <1>3
<1>5. Len(s) <= Len(both)
  BY <1>1, <1>2
<1> QED
  BY <1>4, <1>5 DEF IsPrefix, both

(* A prefix has the rest behind it.                                        *)
LEMMA PrefixHasRest ==
  ASSUME NEW S, NEW s \in Seq(S), NEW t \in Seq(S), IsPrefix(s, t)
  PROVE  \E u \in Seq(S) : t = s \o u
<1>1. Len(s) \in 0 .. Len(t) /\ SubSeq(s, 1, Len(s)) = s
  BY DEF IsPrefix
<1>2. SubSeq(t, 1, Len(s)) = s
  BY <1>1 DEF IsPrefix
<1>3. /\ SubSeq(t, Len(s) + 1, Len(t)) \in Seq(S)
      /\ t = SubSeq(t, 1, Len(s)) \o SubSeq(t, Len(s) + 1, Len(t))
  BY <1>1, CutAnywhere
<1> QED
  BY <1>2, <1>3

LEMMA PrefixOfItself ==
  ASSUME NEW S, NEW s \in Seq(S)
  PROVE  IsPrefix(s, s)
BY DEF IsPrefix

LEMMA PrefixOfPrefix ==
  ASSUME NEW S, NEW s \in Seq(S), NEW t \in Seq(S), NEW u \in Seq(S),
         IsPrefix(s, t), IsPrefix(t, u)
  PROVE  IsPrefix(s, u)
<1>1. PICK x \in Seq(S) : t = s \o x
  BY PrefixHasRest
<1>2. PICK y \in Seq(S) : u = t \o y
  BY PrefixHasRest
<1> DEFINE z == x \o y
<1>3. u = s \o z
  BY <1>1, <1>2, ConcatAssociative
<1>4. z \in Seq(S)
  OBVIOUS
<1> HIDE DEF z
<1> QED
  BY <1>3, <1>4, FrontIsPrefix

(* The content of the first lines is the first of the content.             *)
LEMMA ContentOfFront ==
  ASSUME NEW s \in Seq(Texts), NEW t \in Seq(Texts)
  PROVE  IsPrefix(Content(s), Content(s \o t))
<1>1. Content(s) \in Seq(Texts) /\ Content(t) \in Seq(Texts)
  BY ContentMapped
<1>2. Content(s \o t) = Content(s) \o Content(t)
  BY ContentConcat
<1> QED
  BY <1>1, <1>2, FrontIsPrefix

LEMMA OthersOfPrefix ==
  ASSUME NEW s \in Seq(Texts), NEW t \in Seq(Texts), IsPrefix(s, t)
  PROVE  IsPrefix(WithoutIncludes(s), WithoutIncludes(t))
<1>1. PICK u \in Seq(Texts) : t = s \o u
  BY PrefixHasRest
<1>2. WithoutIncludes(s) \in Seq(Texts) /\ WithoutIncludes(u) \in Seq(Texts)
  BY ContentMapped
<1>3. WithoutIncludes(t) = WithoutIncludes(s) \o WithoutIncludes(u)
  BY <1>1, ContentConcat
<1> QED
  BY <1>2, <1>3, FrontIsPrefix

(* What is left of lines that have all is the first of them.               *)
LEMMA FrontOfWhole ==
  ASSUME NEW s \in Seq(Texts), NEW t \in Seq(Texts), Whole(s \o t)
  PROVE  Begun(s)
BY ContentOfFront DEF Whole, Begun

(* Nothing of a Makefile is lost with its includes when it has none.       *)
LEMMA NothingElseIsLost ==
  ASSUME NEW lines \in Seq(Lines), "include" \notin ToSet(lines)
  PROVE  WithoutIncludes(Content(lines)) = Content(lines)
<1> DEFINE both == [x \in Texts |-> Mapped(Others, Own[x])]
<1>1. lines \in Seq(Texts) /\ \A k \in DOMAIN lines : lines[k] \in Lines /\ lines[k] # "include"
  BY DEF ToSet, Texts
<1>2. ASSUME NEW x \in Lines, x # "include"
      PROVE  both[x] = Own[x]
  <2>1. x \in Texts /\ Own[x] = OwnOf(x)
    BY DEF Own, Texts
  <2>2. CASE OwnOf(x) = <<>>
    BY <2>1, <2>2, MappedNone
  <2>3. CASE OwnOf(x) # <<>>
    <3>1. OwnOf(x) = <<Origin(x)>> /\ Origin(x) \in Texts /\ Origin(x) # "include"
      BY <1>2, <2>1, <2>3 DEF OwnOf, Unless, Origin, Texts, Lines
    <3>2. Mapped(Others, <<Origin(x)>>) = Others[Origin(x)]
      BY <3>1, FiltersMap, MappedOne
    <3> QED
      BY <2>1, <3>1, <3>2 DEF Others, Unless
  <2> QED
    BY <2>2, <2>3
<1>3. Mapped(Others, Mapped(Own, lines)) = Mapped(both, lines)
  BY <1>1, FiltersMap, MappedTwice
<1> HIDE DEF both
<1>4. Mapped(both, lines) = Mapped(Own, lines)
  BY <1>1, <1>2, MappedSame
<1>5. Content(lines) = Mapped(Own, lines) /\ Content(lines) \in Seq(Texts)
  BY <1>1, ContentMapped
<1>6. WithoutIncludes(Content(lines)) = Mapped(Others, Content(lines))
  BY <1>5, ContentMapped
<1> QED
  BY <1>3, <1>4, <1>5, <1>6

(* The texts of the tree.                                                  *)
LEMMA TextsOfNodes ==
  ASSUME NEW s \in Seq(Nodes)
  PROVE  /\ TextsOf(s) \in Seq(Texts) /\ DOMAIN TextsOf(s) = DOMAIN s
         /\ \A k \in DOMAIN s : TextsOf(s)[k] = s[k].text /\ s[k].text \in Lines \cup Edited
<1>1. \A k \in DOMAIN s : s[k].text \in Lines \cup Edited
  <2> TAKE k \in DOMAIN s
  <2>1. s[k] \in Nodes
    OBVIOUS
  <2> QED
    BY <2>1 DEF Nodes
<1>2. DOMAIN s = 1 .. Len(s) /\ Len(s) \in Nat
  OBVIOUS
<1>3. \A k \in DOMAIN s : TextsOf(s)[k] \in Texts
  BY <1>1 DEF TextsOf, Texts
<1>4. TextsOf(s) = [k \in 1 .. Len(s) |-> TextsOf(s)[k]]
  BY <1>2 DEF TextsOf
<1>5. TextsOf(s) \in Seq(Texts) /\ DOMAIN TextsOf(s) = DOMAIN s
  BY <1>2, <1>3, <1>4, FunctionSeq
<1> QED
  BY <1>1, <1>5 DEF TextsOf

(* parser_output_reformatted() prints what is in the tree, without the     *)
(* includes of a category Makefile.                                        *)
LEMMA FormattedIsWhole ==
  ASSUME nodes \in Seq(Nodes), ~NotSupported
  PROVE  /\ Formatted \in Seq(Texts)
         /\ ~IsCategory => Content(Formatted) = Content(TextsOf(nodes))
         /\ IsCategory => Content(Formatted) = WithoutIncludes(Content(TextsOf(nodes)))
<1> DEFINE texts == TextsOf(nodes)
           F == [k \in DOMAIN nodes |->
                   Unless(IsCategory /\ nodes[k].text = "include", LineOf(nodes[k]))]
           both == [x \in Texts |-> Mapped(Others, Own[x])]
<1>1. Formatted = FlattenSeq(F)
  BY DEF Formatted, PrintedNodes
<1>2. /\ texts \in Seq(Texts) /\ DOMAIN texts = DOMAIN nodes
      /\ DOMAIN nodes = 1 .. Len(nodes) /\ Len(nodes) \in Nat
      /\ \A k \in DOMAIN nodes : texts[k] = nodes[k].text /\ nodes[k].text \in Lines \cup Edited
  <2>1. DOMAIN nodes = 1 .. Len(nodes) /\ Len(nodes) \in Nat
    OBVIOUS
  <2> QED
    BY <2>1, TextsOfNodes
<1>3. \A k \in DOMAIN nodes :
        /\ LineOf(nodes[k]) \in Texts /\ OwnOf(LineOf(nodes[k])) = Own[texts[k]]
        /\ LineOf(nodes[k]) # "include" \/ texts[k] = "include"
  BY <1>2 DEF LineOf, Texts, Lines, Own, OwnOf, Origin
<1>4. \A k \in DOMAIN nodes :
        F[k] = IF IsCategory /\ texts[k] = "include" THEN <<>> ELSE <<LineOf(nodes[k])>>
  BY <1>2 DEF Unless
<1>5. DOMAIN F = DOMAIN nodes /\ F = [k \in 1 .. Len(nodes) |-> F[k]]
  BY <1>2
<1> HIDE DEF F, texts
<1>6. F \in Seq(Seq(Texts))
  <2>1. \A k \in 1 .. Len(nodes) : F[k] \in Seq(Texts)
    <3> TAKE k \in 1 .. Len(nodes)
    <3>1. <<LineOf(nodes[k])>> \in Seq(Texts) /\ <<>> \in Seq(Texts)
      BY <1>2, <1>3
    <3> QED
      BY <1>2, <1>4, <3>1
  <2> QED
    BY <1>2, <1>5, <2>1, FunctionSeq
<1>7. /\ FlattenSeq(F) \in Seq(Texts)
      /\ Content(FlattenSeq(F)) = FlattenSeq([k \in DOMAIN F |-> Content(F[k])])
  BY <1>6, ContentFlatten
<1>8. Content(texts) = Mapped(Own, texts) /\ Content(texts) \in Seq(Texts)
  BY <1>2, ContentMapped
<1>9. ASSUME ~IsCategory
      PROVE  Content(FlattenSeq(F)) = Content(texts)
  <2>1. \A k \in DOMAIN nodes : Content(F[k]) = Own[texts[k]]
    BY <1>3, <1>4, <1>9, ContentOne
  <2>2. [k \in DOMAIN F |-> Content(F[k])] = Each(Own, texts)
    BY <1>2, <1>5, <2>1 DEF Each
  <2> QED
    BY <1>7, <1>8, <2>2 DEF Mapped
<1>10. ASSUME IsCategory
       PROVE  Content(FlattenSeq(F)) = WithoutIncludes(Content(texts))
  <2>1. ASSUME NEW k \in DOMAIN nodes
        PROVE  Content(F[k]) = both[texts[k]]
    <3>1. texts[k] \in Texts /\ both[texts[k]] = Mapped(Others, Own[texts[k]])
      BY <1>2 DEF Texts
    <3>2. CASE texts[k] = "include"
      <4>1. Own[texts[k]] = <<"include">>
        BY <3>1, <3>2 DEF Own, OwnOf, Unless, Origin
      <4>2. Mapped(Others, <<"include">>) = Others["include"]
        BY <3>1, <3>2, FiltersMap, MappedOne
      <4>3. Others["include"] = <<>>
        BY <3>1, <3>2 DEF Others, Unless
      <4> QED
        BY <1>4, <1>10, <3>1, <3>2, <4>1, <4>2, <4>3, ContentNone
    <3>3. CASE texts[k] # "include"
      <4>1. Content(F[k]) = Own[texts[k]]
        BY <1>3, <1>4, <3>3, ContentOne
      <4>2. Own[texts[k]] = OwnOf(texts[k])
        BY <3>1 DEF Own
      <4>3. CASE OwnOf(texts[k]) = <<>>
        BY <3>1, <4>1, <4>2, <4>3, MappedNone
      <4>4. CASE OwnOf(texts[k]) # <<>>
        <5>1. /\ OwnOf(texts[k]) = <<Origin(texts[k])>>
              /\ Origin(texts[k]) \in Texts /\ Origin(texts[k]) # "include"
          BY <3>1, <3>3, <4>4 DEF OwnOf, Unless, Origin, Texts, Lines
        <5>2. Mapped(Others, <<Origin(texts[k])>>) = Others[Origin(texts[k])]
          BY <5>1, FiltersMap, MappedOne
        <5> QED
          BY <3>1, <4>1, <4>2, <5>1, <5>2 DEF Others, Unless
      <4> QED
        BY <4>3, <4>4
    <3> QED
      BY <3>2, <3>3
  <2>2. [k \in DOMAIN F |-> Content(F[k])] = Each(both, texts)
    BY <1>2, <1>5, <2>1 DEF Each
  <2>3. Mapped(Others, Mapped(Own, texts)) = Mapped(both, texts)
    BY <1>2, FiltersMap, MappedTwice
  <2>4. WithoutIncludes(Content(texts)) = Mapped(Others, Content(texts))
    BY <1>8, ContentMapped
  <2> HIDE DEF both
  <2> QED
    BY <1>7, <1>8, <2>2, <2>3, <2>4 DEF Mapped
<1> QED
  BY <1>1, <1>7, <1>9, <1>10 DEF texts

-----------------------------------------------------------------------------
LEMMA LinesInit == Init => LinesInv
<1> SUFFICES ASSUME Init
             PROVE  LinesInv
  OBVIOUS
<1>1. makefile \in Seq(Lines) /\ file = makefile /\ makefile \in Seq(Texts)
  <2>1. makefile \in Seq(Lines)
    BY MakefilesAssumption DEF Init
  <2>2. makefile \in Seq(Texts)
    BY <2>1 DEF Texts
  <2> QED
    BY <2>1, <2>2 DEF Init
<1>2. TextsTyped
  BY <1>1 DEF Init, TextsTyped
<1>3. ReadingAgrees
  BY DEF Init, ReadingAgrees, ToSet
<1>4. TreeAgrees /\ ResultAgrees
  BY DEF Init, TreeAgrees, ResultAgrees
<1>5. FileAgrees
  BY DEF Init, FileAgrees, Running
<1> QED
  BY <1>2, <1>3, <1>4, <1>5, CommandsInit DEF LinesInv

(* What is read is put behind what was.                                    *)
LEMMA ReadLineKeeps ==
  ASSUME makefile \in Seq(Lines), rawlines \in Seq(Lines), offset \in Nat,
         offset < Len(makefile), Content(rawlines) = Content(SubSeq(makefile, 1, offset)),
         NEW line, line = makefile[offset + 1], NEW more, more = Append(rawlines, RawLine(line))
  PROVE  /\ more \in Seq(Lines)
         /\ Content(more) = Content(SubSeq(makefile, 1, offset + 1))
<1> DEFINE front == SubSeq(makefile, 1, offset)
           till == SubSeq(makefile, 1, offset + 1)
<1>1. offset + 1 \in DOMAIN makefile /\ line \in Lines /\ RawLine(line) \in Lines
  BY DEF RawLine, Lines
<1>2. front \in Seq(Lines) /\ till = front \o <<line>>
  <2>1. /\ front \in Seq(Lines) /\ Len(front) = offset
        /\ \A i \in 1 .. offset : front[i] = makefile[i]
    OBVIOUS
  <2>2. /\ till \in Seq(Lines) /\ Len(till) = offset + 1
        /\ \A i \in 1 .. (offset + 1) : till[i] = makefile[i]
    OBVIOUS
  <2> HIDE DEF front, till
  <2>3. till = Append(front, line)
    BY <2>1, <2>2
  <2> QED
    BY <2>1, <2>3
<1> HIDE DEF front, till
<1>3. /\ front \in Seq(Texts) /\ rawlines \in Seq(Texts)
      /\ line \in Texts /\ RawLine(line) \in Texts
  BY <1>1, <1>2 DEF Texts
<1>4. OwnOf(RawLine(line)) = OwnOf(line)
  BY DEF RawLine, OwnOf, Origin
<1>5. <<line>> \in Seq(Texts) /\ Content(<<line>>) = OwnOf(line)
  BY <1>3, ContentOne
<1>6. <<RawLine(line)>> \in Seq(Texts) /\ Content(<<RawLine(line)>>) = OwnOf(RawLine(line))
  BY <1>3, ContentOne
<1>7. Content(till) = Content(front) \o Content(<<line>>)
  BY <1>2, <1>3, <1>5, ContentConcat
<1> DEFINE one == <<RawLine(line)>>
<1>8. more = rawlines \o one /\ more \in Seq(Lines)
  BY <1>1
<1>9. one \in Seq(Texts) /\ Content(one) = Content(<<RawLine(line)>>)
  BY <1>6
<1> HIDE DEF one
<1>10. Content(rawlines \o one) = Content(rawlines) \o Content(one)
  BY <1>3, <1>9, ContentConcat
<1> QED
  BY <1>4, <1>5, <1>6, <1>7, <1>8, <1>9, <1>10 DEF front, till

(* The arguments and the file that is opened: nothing is read yet.         *)
LEMMA LinesBeforeRead ==
  ASSUME LinesInv, ReadArguments \/ OpenFile, CommandsInv'
  PROVE  LinesInv'
<1>1. /\ UNCHANGED <<makefile, file, offset, buffer, rawlines, nodes, result, status, faults>>
      /\ pc \in {"arguments", "open"} /\ status = Running
      /\ pc' \in {"open", "read", "exit"} /\ code' \in {0, 1, 2, Usage}
      /\ pc' = "exit" => code' # 0
      /\ pc' = "read" => pc = "open"
  BY DEF ReadArguments, OpenFile, At, Leave, given, disk, parser, LinesInv, TextsTyped, Usage
<1>2. file = makefile /\ buffer = <<>> /\ offset = 0 /\ rawlines = <<>>
  BY <1>1 DEF LinesInv, CommandsInv, WrittenLast, ReadingAgrees
<1>3. TextsTyped'
  BY <1>1 DEF LinesInv, TextsTyped
<1>4. ReadingAgrees'
  <2>1. makefile \in Seq(Lines)
    BY DEF LinesInv, TextsTyped
  <2>2. SubSeq(makefile, 1, 0) = <<>> /\ 0 <= Len(makefile)
    BY <2>1
  <2> QED
    BY <1>1, <1>2, <2>2 DEF LinesInv, ReadingAgrees
<1>5. TreeAgrees' /\ ResultAgrees'
  BY <1>1 DEF LinesInv, TreeAgrees, ResultAgrees
<1>6. FileAgrees'
  BY <1>1, <1>2 DEF LinesInv, FileAgrees, Running
<1> QED
  BY <1>3, <1>4, <1>5, <1>6 DEF LinesInv

(* parser_read_from_file()                                                 *)
LEMMA LinesRead ==
  ASSUME LinesInv, ReadLine \/ ReadEnd \/ ReadFails, CommandsInv'
  PROVE  LinesInv'
<1>1. /\ UNCHANGED <<makefile, file, buffer, nodes, result, status>>
      /\ pc = "read" /\ status = Running
      /\ pc' \in {"read", "finish", "exit"} /\ code' \in {0, 1, 2, Usage}
      /\ pc' = "exit" => code' # 0
      /\ "flush" \notin faults'
  BY DEF ReadLine, ReadEnd, ReadFails, At, Leave, given, disk, parser, LinesInv, TextsTyped,
         FileAgrees, Usage
<1>2. /\ file = makefile /\ buffer = <<>> /\ makefile \in Seq(Lines) /\ rawlines \in Seq(Lines)
      /\ offset \in Nat /\ offset <= Len(makefile)
      /\ Content(rawlines) = Content(SubSeq(makefile, 1, offset))
      /\ "subdir" \in ToSet(rawlines) => "subdir" \in ToSet(makefile)
  BY <1>1 DEF LinesInv, CommandsInv, WrittenLast, TextsTyped, ReadingAgrees
<1>3. CASE ReadLine /\ pc' = "read"
  <2> DEFINE line == makefile[offset + 1]
  <2>1. /\ offset < Len(makefile) /\ rawlines' = Append(rawlines, RawLine(line))
        /\ offset' = offset + 1
    BY <1>3 DEF ReadLine, Leave
  <2>2. rawlines' \in Seq(Lines) /\ Content(rawlines') = Content(SubSeq(makefile, 1, offset + 1))
    BY <1>2, <2>1, ReadLineKeeps
  <2>3. "subdir" \in ToSet(rawlines)' => "subdir" \in ToSet(makefile)
    <3>1. RawLine(line) = "subdir" => line = "subdir"
      BY DEF RawLine
    <3>2. offset + 1 \in DOMAIN makefile
      BY <1>2, <2>1
    <3>3. ToSet(rawlines') = ToSet(rawlines) \cup {RawLine(line)}
      BY <1>2, <2>1 DEF ToSet
    <3>4. line \in ToSet(makefile)
      BY <3>2 DEF ToSet
    <3> QED
      BY <1>2, <3>1, <3>3, <3>4
  <2>4. offset' \in Nat /\ offset' <= Len(makefile)
    BY <1>2, <2>1
  <2> HIDE DEF line
  <2>5. TextsTyped'
    BY <1>1, <2>2, <2>4 DEF LinesInv, TextsTyped
  <2>6. ReadingAgrees'
    BY <1>1, <1>3, <2>1, <2>2, <2>3, <2>4 DEF ReadingAgrees
  <2>7. TreeAgrees' /\ ResultAgrees' /\ FileAgrees'
    BY <1>1, <1>2, <1>3 DEF LinesInv, TreeAgrees, ResultAgrees, FileAgrees, Running
  <2> QED
    BY <2>5, <2>6, <2>7 DEF LinesInv
<1>4. CASE ~(ReadLine /\ pc' = "read")
  <2>1. /\ UNCHANGED rawlines /\ offset' \in Nat /\ pc' \in {"finish", "exit"}
        /\ pc' = "finish" => offset = Len(makefile) \/ "read" \in faults'
    BY <1>1, <1>2, <1>4 DEF ReadLine, ReadEnd, ReadFails, At, Leave, disk, parser
  <2>2. pc' = "finish" => ReadSound'
    <3> DEFINE front == SubSeq(makefile, 1, offset)
               rest == SubSeq(makefile, offset + 1, Len(makefile))
    <3>1. offset \in 0 .. Len(makefile)
      BY <1>2
    <3>2. front \in Seq(Lines) /\ rest \in Seq(Lines) /\ makefile = front \o rest
      BY <1>2, <3>1, CutAnywhere
    <3>3. front \in Seq(Texts) /\ rest \in Seq(Texts)
      BY <3>2 DEF Texts
    <3>4. offset = Len(makefile) => front = makefile
      BY <1>2
    <3> HIDE DEF front, rest
    <3>5. IsPrefix(Content(front), Content(makefile))
      BY <3>2, <3>3, ContentOfFront
    <3>q. QED
      BY <1>1, <1>2, <2>1, <3>4, <3>5 DEF ReadSound, front
  <2>3. TextsTyped'
    BY <1>1, <2>1 DEF LinesInv, TextsTyped
  <2>4. ReadingAgrees'
    BY <1>1, <1>2, <2>1, <2>2 DEF ReadingAgrees
  <2>5. TreeAgrees' /\ ResultAgrees' /\ FileAgrees'
    BY <1>1, <1>2, <2>1 DEF LinesInv, TreeAgrees, ResultAgrees, FileAgrees, Running
  <2> QED
    BY <2>3, <2>4, <2>5 DEF LinesInv
<1> QED
  BY <1>3, <1>4

(* The tree that is built of lines.                                        *)
LEMMA BuiltKeeps ==
  ASSUME NEW lines \in Seq(Lines)
  PROVE  /\ Built(lines) \in Seq(Nodes)
         /\ Content(TextsOf(Built(lines))) = Content(lines)
         /\ \A k \in DOMAIN Built(lines) : Built(lines)[k].text \in ToSet(lines)
<1> DEFINE kept == IF "dump" \in behavior /\ DebugLevel > 2 THEN lines
                   ELSE RemoveEmptyLines(lines)
           S == ToSet(lines)
<1>1. lines \in Seq(Texts) /\ S \subseteq Lines /\ lines \in Seq(S)
  BY DEF ToSet, Texts
<1>2. kept \in Seq(S) /\ Content(kept) = Content(lines)
  <2> HIDE DEF S
  <2> QED
    BY <1>1, RemovedLinesAreBlank
<1> HIDE DEF kept, S
<1>3. Built(lines) = [k \in DOMAIN kept |-> Node(kept[k])]
  BY DEF Built, kept
<1>4. /\ DOMAIN kept = 1 .. Len(kept) /\ Len(kept) \in Nat
      /\ \A k \in DOMAIN kept : kept[k] \in S /\ kept[k] \in Lines
      /\ kept = [k \in 1 .. Len(kept) |-> kept[k]]
  BY <1>1, <1>2
<1>5. \A k \in 1 .. Len(kept) : Node(kept[k]) \in Nodes /\ Node(kept[k]).text = kept[k]
  BY <1>4 DEF Node, Nodes
<1>6. Built(lines) = [k \in 1 .. Len(kept) |-> Built(lines)[k]]
  BY <1>3, <1>4
<1>7. /\ DOMAIN Built(lines) = DOMAIN kept
      /\ \A k \in 1 .. Len(kept) : Built(lines)[k] \in Nodes /\ Built(lines)[k].text = kept[k]
  BY <1>3, <1>4, <1>5
<1>8. Built(lines) \in Seq(Nodes)
  BY <1>4, <1>6, <1>7, FunctionSeq
<1>9. TextsOf(Built(lines)) = kept
  <2>1. TextsOf(Built(lines)) = [k \in 1 .. Len(kept) |-> kept[k]]
    BY <1>4, <1>7 DEF TextsOf
  <2> QED
    BY <1>4, <2>1
<1> QED
  BY <1>2, <1>4, <1>7, <1>8, <1>9 DEF S

(* parser_read_finish()                                                    *)
LEMMA LinesReadFinish ==
  ASSUME LinesInv, ReadFinish, CommandsInv'
  PROVE  LinesInv'
<1>1. /\ UNCHANGED <<makefile, file, offset, buffer, rawlines, result, status, faults>>
      /\ pc = "finish" /\ status = Running
      /\ pc' \in {"edit", "exit"} /\ code' \in {0, 1, 2, Usage}
      /\ pc' = "exit" => code' # 0 /\ nodes' = nodes
      /\ pc' = "edit" => nodes' = Built(rawlines)
  BY DEF ReadFinish, At, Leave, given, disk, LinesInv, TextsTyped, Usage
<1>2. /\ file = makefile /\ buffer = <<>> /\ rawlines \in Seq(Lines)
      /\ ReadSound /\ result = <<>>
      /\ "subdir" \in ToSet(rawlines) => "subdir" \in ToSet(makefile)
  BY <1>1 DEF LinesInv, CommandsInv, WrittenLast, TextsTyped, ReadingAgrees, ResultAgrees
<1>3. /\ Built(rawlines) \in Seq(Nodes)
      /\ Content(TextsOf(Built(rawlines))) = Content(rawlines)
      /\ \A k \in DOMAIN Built(rawlines) : Built(rawlines)[k].text \in ToSet(rawlines)
  BY <1>2, BuiltKeeps
<1>4. TextsTyped'
  BY <1>1, <1>3 DEF LinesInv, TextsTyped
<1>5. ReadingAgrees'
  BY <1>1, <1>2 DEF LinesInv, ReadingAgrees, ReadSound
<1>6. TreeAgrees'
  BY <1>1, <1>2, <1>3 DEF TreeAgrees, IsCategory, Has
<1>7. ResultAgrees' /\ FileAgrees'
  BY <1>1, <1>2 DEF LinesInv, ResultAgrees, FileAgrees, Running
<1> QED
  BY <1>4, <1>5, <1>6, <1>7 DEF LinesInv

-----------------------------------------------------------------------------
(* An edit that changes, in its place, no content of any line.             *)
LEMMA TreeInPlace ==
  ASSUME NEW s \in Seq(Nodes), NEW t, DOMAIN t = DOMAIN s, t = [k \in DOMAIN t |-> t[k]],
         \A k \in DOMAIN s : /\ t[k] \in Nodes /\ OwnOf(t[k].text) = OwnOf(s[k].text)
                             /\ t[k].text = "subdir" => s[k].text = "subdir"
  PROVE  /\ t \in Seq(Nodes) /\ DOMAIN t = DOMAIN s
         /\ Content(TextsOf(t)) = Content(TextsOf(s))
         /\ \A k \in DOMAIN t : t[k].text = "subdir" => s[k].text = "subdir"
<1>1. DOMAIN s = 1 .. Len(s) /\ Len(s) \in Nat
  OBVIOUS
<1>2. t = [k \in 1 .. Len(s) |-> t[k]] /\ \A k \in 1 .. Len(s) : t[k] \in Nodes
  BY <1>1
<1>3. t \in Seq(Nodes) /\ DOMAIN t = DOMAIN s
  BY <1>1, <1>2, FunctionSeq
<1> DEFINE x == TextsOf(s)
           y == TextsOf(t)
<1>4. /\ x \in Seq(Texts) /\ DOMAIN x = DOMAIN s
      /\ \A k \in DOMAIN s : x[k] = s[k].text
  BY TextsOfNodes
<1>5. /\ y \in Seq(Texts) /\ DOMAIN y = DOMAIN t
      /\ \A k \in DOMAIN t : y[k] = t[k].text
  BY <1>3, TextsOfNodes
<1> HIDE DEF x, y
<1>6. \A k \in DOMAIN x : x[k] \in Texts /\ y[k] \in Texts
  BY <1>3, <1>4, <1>5
<1>7. \A k \in DOMAIN x : Own[x[k]] = Own[y[k]]
  BY <1>3, <1>4, <1>5, <1>6 DEF Own
<1>8. Mapped(Own, x) = Mapped(Own, y)
  BY <1>3, <1>4, <1>5, <1>7, MappedSame
<1>9. Content(x) = Content(y)
  BY <1>4, <1>5, <1>8, ContentMapped
<1> QED
  BY <1>3, <1>9 DEF x, y

(* A line that is added is no content of the Makefile.                     *)
LEMMA TreeAppended ==
  ASSUME NEW s \in Seq(Nodes)
  PROVE  /\ Append(s, New("added")) \in Seq(Nodes)
         /\ Content(TextsOf(Append(s, New("added")))) = Content(TextsOf(s))
         /\ \A k \in DOMAIN Append(s, New("added")) :
              Append(s, New("added"))[k].text = "subdir" =>
                k \in DOMAIN s /\ s[k].text = "subdir"
<1> DEFINE t == Append(s, New("added"))
           x == TextsOf(s)
           y == TextsOf(t)
           one == <<"added">>
           both == x \o one
<1>1. New("added") \in Nodes /\ New("added").text = "added"
  BY DEF New, Nodes, Edited
<1>2. /\ t \in Seq(Nodes) /\ DOMAIN s = 1 .. Len(s) /\ DOMAIN t = 1 .. (Len(s) + 1)
      /\ Len(s) \in Nat /\ t[Len(s) + 1] = New("added")
      /\ \A k \in DOMAIN s : t[k] = s[k]
  BY <1>1
<1> HIDE DEF t
<1>3. /\ x \in Seq(Texts) /\ DOMAIN x = DOMAIN s
      /\ \A k \in DOMAIN s : x[k] = s[k].text
  BY TextsOfNodes
<1>4. /\ y \in Seq(Texts) /\ DOMAIN y = DOMAIN t
      /\ \A k \in DOMAIN t : y[k] = t[k].text
  BY <1>2, TextsOfNodes
<1>5. one \in Seq(Texts) /\ Len(one) = 1 /\ one[1] = "added" /\ Content(one) = <<>>
  <2>1. "added" \in Texts
    BY DEF Texts, Edited
  <2>2. OwnOf("added") = <<>>
    BY DEF OwnOf, Unless
  <2> QED
    BY <2>1, <2>2, ContentOne
<1> HIDE DEF x, y, one
<1>6. Len(x) = Len(s) /\ Len(y) = Len(s) + 1
  BY <1>2, <1>3, <1>4
<1>7. /\ both \in Seq(Texts) /\ Len(both) = Len(x) + Len(one)
      /\ \A i \in 1 .. Len(x) + Len(one) :
           both[i] = IF i <= Len(x) THEN x[i] ELSE one[i - Len(x)]
  BY <1>3, <1>5, ConcatProperties
<1> HIDE DEF both
<1>8. ASSUME NEW i \in 1 .. Len(y)
      PROVE  y[i] = both[i]
  <2>1. CASE i <= Len(s)
    <3>1. i \in DOMAIN s /\ i \in DOMAIN t /\ i \in 1 .. Len(x) + Len(one) /\ i <= Len(x)
      BY <1>2, <1>5, <1>6, <2>1
    <3>2. y[i] = s[i].text /\ both[i] = s[i].text
      <4>1. y[i] = t[i].text /\ t[i] = s[i] /\ x[i] = s[i].text
        BY <1>2, <1>3, <1>4, <3>1
      <4>2. both[i] = x[i]
        BY <1>7, <3>1
      <4> QED
        BY <4>1, <4>2
    <3> QED
      BY <3>2
  <2>2. CASE ~(i <= Len(s))
    <3>1. i = Len(s) + 1
      BY <1>2, <1>6, <2>2
    <3> QED
      BY <1>1, <1>2, <1>4, <1>5, <1>6, <1>7, <3>1
  <2> QED
    BY <2>1, <2>2
<1>9. y = both
  BY <1>4, <1>5, <1>6, <1>7, <1>8, SeqEqual
<1>10. Content(both) = Content(x) \o Content(one) /\ Content(x) \in Seq(Texts)
  BY <1>3, <1>5, ContentConcat, ContentMapped DEF both
<1>11. Content(y) = Content(x)
  BY <1>5, <1>9, <1>10, ConcatEmptySeq
<1>12. \A k \in DOMAIN t : t[k].text = "subdir" => k \in DOMAIN s /\ s[k].text = "subdir"
  BY <1>1, <1>2
<1> QED
  BY <1>2, <1>11, <1>12 DEF t, x, y

(* The edits: what they make of the tree is the same Makefile.             *)
LEMMA LinesEdit ==
  ASSUME LinesInv, CommandsInv', At("edit"),
         UNCHANGED <<given, behavior, disk, rawlines, code, status>>,
         pc' = "prepare", "flush" \in faults' => "flush" \in faults,
         "read" \in faults' <=> "read" \in faults,
         nodes' \in Seq(Nodes), Content(TextsOf(nodes')) = Content(TextsOf(nodes)),
         IsCategory' => IsCategory,
         result' \in Seq(Texts), InPlace => result' = result
  PROVE  LinesInv'
<1>1. UNCHANGED <<makefile, file, offset, buffer, rawlines, behavior, code, status>>
  BY DEF given, disk
<1>2. /\ pc = "edit" /\ status = Running /\ file = makefile /\ buffer = <<>> /\ ReadSound
      /\ result = <<>> /\ Content(TextsOf(nodes)) = Content(rawlines)
      /\ IsCategory => "subdir" \in ToSet(makefile)
      /\ "flush" \notin faults
  BY DEF At, LinesInv, CommandsInv, WrittenLast, ReadingAgrees, ResultAgrees, TreeAgrees,
         FileAgrees
<1>3. TextsTyped'
  BY <1>1 DEF LinesInv, TextsTyped
<1>4. ReadingAgrees'
  BY <1>1, <1>2 DEF LinesInv, ReadingAgrees, ReadSound
<1>5. TreeAgrees'
  BY <1>1, <1>2 DEF TreeAgrees
<1>6. ResultAgrees' /\ FileAgrees'
  BY <1>1, <1>2 DEF ResultAgrees, FileAgrees, InPlace
<1> QED
  BY <1>3, <1>4, <1>5, <1>6 DEF LinesInv

(* An edit that fails ends the program.                                    *)
LEMMA LinesFail ==
  ASSUME LinesInv, CommandsInv', At("edit"),
         UNCHANGED <<given, disk, rawlines, nodes, result, status, faults>>,
         pc' = "exit", code' = 1
  PROVE  LinesInv'
<1>1. UNCHANGED <<makefile, file, offset, buffer>> /\ pc = "edit" /\ status = Running
  BY DEF At, given, disk
<1>2. file = makefile /\ buffer = <<>>
  BY <1>1 DEF LinesInv, CommandsInv, WrittenLast
<1>3. TextsTyped' /\ ReadingAgrees' /\ TreeAgrees' /\ ResultAgrees' /\ FileAgrees'
  BY <1>1, <1>2 DEF LinesInv, TextsTyped, ReadingAgrees, TreeAgrees, ResultAgrees, FileAgrees,
                    Running
<1> QED
  BY <1>3 DEF LinesInv

(* The edits that change a line, add one or do nothing.                    *)
LEMMA LinesChanged ==
  ASSUME LinesInv, CommandsInv',
         EditNone \/ EditRefactor \/ EditBumpRevision \/ EditMerge \/ EditSetVersion
  PROVE  LinesInv'
<1>1. /\ At("edit") /\ UNCHANGED <<given, behavior, disk, rawlines, code, status, result>>
      /\ pc' = "prepare"
      /\ "flush" \in faults' => "flush" \in faults
      /\ "read" \in faults' <=> "read" \in faults
  BY DEF EditNone, EditRefactor, EditBumpRevision, EditMerge, EditSetVersion, Edit, EditDone
<1>2. nodes \in Seq(Nodes) /\ result \in Seq(Texts)
  BY DEF LinesInv, TextsTyped
<1>3. SUFFICES /\ nodes' \in Seq(Nodes) /\ Content(TextsOf(nodes')) = Content(TextsOf(nodes))
               /\ \A k \in DOMAIN nodes' :
                    nodes'[k].text = "subdir" => k \in DOMAIN nodes /\ nodes[k].text = "subdir"
  <2>1. IsCategory' => IsCategory
    BY <1>3 DEF IsCategory, Has
  <2> QED
    BY <1>1, <1>2, <1>3, <2>1, LinesEdit
<1>4. CASE UNCHANGED nodes
  BY <1>2, <1>4
<1>5. CASE nodes' = Append(nodes, New("added"))
  BY <1>2, <1>5, TreeAppended
<1>6. \A k \in DOMAIN nodes : nodes[k] \in Nodes
  BY <1>2
<1>7. CASE EditRefactor
  <2>1. nodes' = [k \in DOMAIN nodes |-> [nodes[k] EXCEPT !.edited = nodes[k].text = "messy"]]
    BY <1>7 DEF EditRefactor
  <2>2. DOMAIN nodes' = DOMAIN nodes /\ nodes' = [k \in DOMAIN nodes' |-> nodes'[k]]
    BY <2>1
  <2>3. \A k \in DOMAIN nodes : nodes'[k] \in Nodes /\ nodes'[k].text = nodes[k].text
    BY <1>6, <2>1 DEF Nodes
  <2> QED
    BY <1>2, <2>2, <2>3, TreeInPlace
<1>8. CASE EditBumpRevision /\ Has("rev")
  <2>1. nodes' = [k \in DOMAIN nodes |->
                    IF nodes[k].text = "rev" THEN New("bumped") ELSE nodes[k]]
    BY <1>8 DEF EditBumpRevision
  <2>2. /\ New("bumped") \in Nodes /\ New("bumped").text = "bumped"
        /\ OwnOf("bumped") = OwnOf("rev")
    BY DEF New, Nodes, Edited, OwnOf, Origin
  <2>3. DOMAIN nodes' = DOMAIN nodes /\ nodes' = [k \in DOMAIN nodes' |-> nodes'[k]]
    BY <2>1
  <2>4. \A k \in DOMAIN nodes :
          /\ nodes'[k] \in Nodes /\ OwnOf(nodes'[k].text) = OwnOf(nodes[k].text)
          /\ nodes'[k].text = "subdir" => nodes[k].text = "subdir"
    BY <1>6, <2>1, <2>2
  <2> QED
    BY <1>2, <2>3, <2>4, TreeInPlace
<1> QED
  BY <1>4, <1>5, <1>7, <1>8 DEF EditNone, EditBumpRevision, EditMerge, EditSetVersion

(* The commands that report something do not touch the Makefile.           *)
LEMMA LinesReported ==
  ASSUME LinesInv, CommandsInv',
         EditOutput \/ EditGet \/ EditUnknownTargets \/ EditUnknownVars \/ EditClippy
  PROVE  LinesInv'
<1>1. /\ At("edit") /\ UNCHANGED <<given, behavior, disk, rawlines, code, status, nodes, faults>>
      /\ pc' = "prepare" /\ command.edit \in Reporters
      /\ result' \in {result, Append(result, "report")}
  BY DEF EditOutput, EditGet, EditUnknownTargets, EditUnknownVars, EditClippy, Edit, EditDone,
         ReportIf, Reporters
<1>2. nodes \in Seq(Nodes) /\ result \in Seq(Texts)
  BY DEF LinesInv, TextsTyped
<1>3. "report" \in Texts
  BY DEF Texts, Foreign
<1>4. result' \in Seq(Texts)
  BY <1>1, <1>2, <1>3
<1>5. ~InPlace
  BY <1>1 DEF LinesInv, CommandsInv, SettingsAgree
<1>6. IsCategory' => IsCategory
  BY <1>1 DEF IsCategory, Has
<1> QED
  BY <1>1, <1>2, <1>4, <1>5, <1>6, LinesEdit

LEMMA LinesEditFails ==
  ASSUME LinesInv, CommandsInv', BumpRevisionFails \/ ExpressionFails \/ NotAPort
  PROVE  LinesInv'
<1>1. /\ At("edit") /\ UNCHANGED <<given, disk, rawlines, nodes, result, status, faults>>
      /\ pc' = "exit" /\ code' = 1
  BY DEF BumpRevisionFails, ExpressionFails, NotAPort, EditFailed, Edit, Leave, parser
<1> QED
  BY <1>1, LinesFail

-----------------------------------------------------------------------------
(* What is printed are lines, also when the printing ends at a variable    *)
(* that a category Makefile cannot have.                                   *)
LEMMA FormattedType ==
  ASSUME nodes \in Seq(Nodes)
  PROVE  Formatted \in Seq(Texts)
<1>1. PrintedNodes \in Seq(Nodes)
  <2>1. CASE NotSupported
    <3> DEFINE I == {k \in 1 .. Len(nodes) : nodes[k].text \in Unsupported}
               n == SelectInSeq(nodes, LAMBDA node : node.text \in Unsupported)
    <3>1. DOMAIN nodes = 1 .. Len(nodes) /\ Len(nodes) \in Nat
      OBVIOUS
    <3>2. I # {} /\ I \subseteq Nat
      BY <2>1, <3>1 DEF NotSupported, Has
    <3>3. \E k \in I : \A l \in I : k <= l
      <4> HIDE DEF I
      <4>1. PICK k \in I : \A l \in I : ~(l < k)
        BY <3>2, LeastNatural
      <4> QED
        BY <3>2, <4>1
    <3>4. n = Min(I)
      BY <3>2 DEF SelectInSeq
    <3>5. n \in I
      <4> HIDE DEF I
      <4> QED
        BY <3>3, <3>4 DEF Min
    <3> HIDE DEF n
    <3>6. SubSeq(nodes, 1, n - 1) \in Seq(Nodes)
      BY <3>5
    <3> QED
      BY <2>1, <3>6 DEF PrintedNodes, n
  <2>2. CASE ~NotSupported
    BY <2>2 DEF PrintedNodes
  <2> QED
    BY <2>1, <2>2
<1> DEFINE p == PrintedNodes
           F == [k \in DOMAIN p |-> Unless(IsCategory /\ p[k].text = "include", LineOf(p[k]))]
<1> HIDE DEF p
<1>2. /\ DOMAIN p = 1 .. Len(p) /\ Len(p) \in Nat
      /\ \A k \in 1 .. Len(p) : p[k] \in Nodes
  BY <1>1 DEF p
<1>3. \A k \in 1 .. Len(p) : LineOf(p[k]) \in Texts
  BY <1>2 DEF Nodes, LineOf, Texts, Lines
<1>4. F = [k \in 1 .. Len(p) |-> F[k]]
  BY <1>2
<1>5. \A k \in 1 .. Len(p) : F[k] = <<>> \/ F[k] = <<LineOf(p[k])>>
  BY <1>2 DEF Unless
<1> HIDE DEF F
<1>6. \A k \in 1 .. Len(p) : F[k] \in Seq(Texts)
  <2> TAKE k \in 1 .. Len(p)
  <2>1. <<LineOf(p[k])>> \in Seq(Texts) /\ <<>> \in Seq(Texts)
    BY <1>3
  <2> QED
    BY <1>5, <2>1
<1>7. FlattenSeq(F) \in Seq(Texts)
  BY <1>2, <1>4, <1>6, FunctionSeq, FlattenType
<1> QED
  BY <1>7 DEF Formatted, F, p

(* parser_output_prepare() and what it puts into the result.               *)
LEMMA LinesPrepare ==
  ASSUME LinesInv, Prepare, CommandsInv'
  PROVE  LinesInv'
<1>1. /\ UNCHANGED <<makefile, file, offset, buffer, rawlines, nodes, behavior, status, faults>>
      /\ pc = "prepare" /\ status = Running
      /\ pc' \in {"seek", "write", "exit"} /\ code' \in {0, 1, 2, Usage}
      /\ pc' = "exit" => code' # 0
      /\ result' \in {Printed, <<"patch">>, <<>>}
  BY DEF Prepare, At, Leave, given, disk, LinesInv, TextsTyped, Usage
<1>2. /\ file = makefile /\ buffer = <<>> /\ nodes \in Seq(Nodes) /\ result \in Seq(Texts)
      /\ ReadSound /\ Content(TextsOf(nodes)) = Content(rawlines)
      /\ IsCategory => "subdir" \in ToSet(makefile)
      /\ InPlace => result = <<>>
  BY <1>1 DEF LinesInv, CommandsInv, WrittenLast, TextsTyped, ReadingAgrees, TreeAgrees,
              ResultAgrees
<1>3. Formatted \in Seq(Texts)
  BY <1>2, FormattedType
<1>4. result' \in Seq(Texts)
  <2>1. {"dump", "patch"} \subseteq Texts
    BY DEF Texts, Foreign
  <2>2. Append(result, "dump") \in Seq(Texts) /\ <<"patch">> \in Seq(Texts) /\ <<>> \in Seq(Texts)
    BY <1>2, <2>1
  <2>3. result \o Formatted \in Seq(Texts)
    BY <1>2, <1>3
  <2>4. Printed \in Seq(Texts)
    BY <1>2, <2>2, <2>3 DEF Printed
  <2> QED
    BY <1>1, <2>2, <2>4
<1>5. CASE pc' = "seek"
  <2>1. InPlace
    BY <1>1, <1>5 DEF LinesInv, CommandsInv, WrittenLast, InPlace
  <2>2. behavior \cap {"dump", "diff", "raw"} = {}
    BY <2>1 DEF LinesInv, CommandsInv, SettingsAgree
  <2>3. Formats /\ ~NotSupported /\ result' = Printed
    BY <1>5, <2>2 DEF Prepare, Formats, MayWrite, Leave
  <2>4. result' = Formatted
    BY <1>2, <1>3, <2>1, <2>2, <2>3, ConcatEmptySeq DEF Printed
  <2>5. Whole(Formatted)
    BY <1>2, <2>3, FormattedIsWhole DEF Whole
  <2>6. Whole(result)'
    BY <1>1, <2>4, <2>5 DEF Whole
  <2>7. TextsTyped' /\ ReadingAgrees' /\ TreeAgrees' /\ ResultAgrees' /\ FileAgrees'
    BY <1>1, <1>2, <1>4, <1>5, <2>6
       DEF LinesInv, TextsTyped, ReadingAgrees, ReadSound, TreeAgrees, ResultAgrees, FileAgrees,
           Running
  <2> QED
    BY <2>7 DEF LinesInv
<1>6. CASE pc' # "seek"
  <2>1. pc' = "write" => ~InPlace
    BY <1>6 DEF Prepare, Leave
  <2>2. TextsTyped' /\ ReadingAgrees' /\ TreeAgrees' /\ ResultAgrees' /\ FileAgrees'
    BY <1>1, <1>2, <1>4, <1>6, <2>1
       DEF LinesInv, TextsTyped, ReadingAgrees, ReadSound, TreeAgrees, ResultAgrees, FileAgrees,
           Running, InPlace
  <2> QED
    BY <2>2 DEF LinesInv
<1> QED
  BY <1>5, <1>6

(* lseek(2) and ftruncate(2): the file is empty and its offset 0.          *)
LEMMA LinesTruncate ==
  ASSUME LinesInv, Seek \/ Truncate, CommandsInv'
  PROVE  LinesInv'
<1>1. /\ UNCHANGED <<makefile, buffer, rawlines, nodes, result, behavior, status, faults>>
      /\ pc \in {"seek", "truncate"} /\ status = Running
      /\ pc' \in {"truncate", "write", "exit"} /\ code' \in {0, 1, 2, Usage}
      /\ pc' = "exit" => code' # 0 /\ file' = file /\ offset' = offset
      /\ pc' = "truncate" => file' = file /\ offset' = 0
      /\ pc' = "write" => pc = "truncate" /\ file' = <<>> /\ offset' = offset
  BY DEF Seek, Truncate, IOFails, At, Leave, given, LinesInv, TextsTyped, Usage
<1>2. /\ file = makefile /\ buffer = <<>> /\ InPlace /\ ReadSound /\ Whole(result)
      /\ pc = "truncate" => offset = 0
      /\ "flush" \notin faults /\ result \in Seq(Texts)
  BY <1>1 DEF LinesInv, CommandsInv, WrittenLast, TextsTyped, ReadingAgrees, ResultAgrees,
              FileAgrees
<1>3. TextsTyped'
  <2>1. <<>> \in Seq(Texts) /\ 0 \in Nat
    OBVIOUS
  <2> QED
    BY <1>1, <2>1 DEF LinesInv, TextsTyped
<1>4. Whole(result)' /\ ReadSound' /\ InPlace'
  BY <1>1, <1>2 DEF Whole, ReadSound, InPlace
<1>5. pc' = "write" => Written'
  <2> SUFFICES ASSUME pc' = "write"
               PROVE  Written'
    OBVIOUS
  <2>1. file' \o (buffer' \o result') = result'
    BY <1>1, <1>2, ConcatEmptySeq
  <2>2. offset' = Len(file')
    BY <1>1, <1>2
  <2>3. "flush" \notin faults'
    BY <1>1, <1>2
  <2> QED
    BY <1>4, <2>1, <2>2, <2>3 DEF Written, Whole
<1>6. ReadingAgrees' /\ TreeAgrees' /\ ResultAgrees' /\ FileAgrees'
  BY <1>1, <1>2, <1>4, <1>5 DEF LinesInv, ReadingAgrees, TreeAgrees, ResultAgrees, FileAgrees,
                                Running
<1> QED
  BY <1>3, <1>6 DEF LinesInv

(* The buffer is written behind what is in the file.                       *)
LEMMA WrittenOut ==
  ASSUME LinesInv, Written, NEW new \in Seq(Texts), WriteOut(new)
  PROVE  file' = file \o new /\ offset' = Len(file') /\ file' \in Seq(Texts) /\ offset' \in Nat
<1>1. InPlace /\ offset = Len(file) /\ file \in Seq(Texts)
  BY DEF LinesInv, TextsTyped, Written
<1>2. file' = WriteAt(file, Len(file), new) /\ offset' = Len(file) + Len(new)
  BY <1>1 DEF WriteOut
<1>3. file' = file \o new
  BY <1>1, <1>2, WrittenAtEnd
<1>4. file \o new \in Seq(Texts) /\ Len(file \o new) = Len(file) + Len(new) /\ Len(file \o new) \in Nat
  BY <1>1, ConcatProperties
<1> QED
  BY <1>2, <1>3, <1>4

(* Texts are joined in any order.                                          *)
LEMMA JoinedInOrder ==
  \A s, t, u \in Seq(Texts) : (s \o t) \o u = s \o (t \o u)
BY ConcatAssociative

(* What moves from the result to the buffer and from there to the file is  *)
(* still there, in its place.                                              *)
LEMMA WrittenOn ==
  ASSUME LinesInv, Written, "flush" \notin faults, UNCHANGED <<makefile, rawlines, behavior, faults>>,
         NEW new \in Seq(Texts), file' = file \o new, offset' = Len(file'),
         buffer' \in Seq(Texts), result' \in Seq(Texts),
         buffer \o result = new \o (buffer' \o result')
  PROVE  Written'
<1> DEFINE rest == buffer' \o result'
           last == buffer \o result
<1>1. file \in Seq(Texts) /\ rest \in Seq(Texts)
  BY DEF LinesInv, TextsTyped
<1>2. Whole(file \o last)
  BY DEF Written
<1>3. last = new \o rest
  OBVIOUS
<1> HIDE DEF rest, last
<1>4. (file \o new) \o rest = file \o (new \o rest)
  <2>1. new \in Seq(Texts)
    OBVIOUS
  <2> QED
    BY <1>1, <2>1, JoinedInOrder, Zenon
<1>5. file' \o rest = file \o last
  BY <1>3, <1>4
<1>6. Whole(file \o (buffer \o result))'
  <2>1. file' \o (buffer' \o result') = file \o last
    BY <1>5 DEF rest
  <2> QED
    BY <1>2, <2>1 DEF Whole
<1>7. ReadSound' /\ InPlace'
  BY DEF Written, ReadSound, InPlace
<1> QED
  BY <1>6, <1>7 DEF Written

(* What is not written in place never reaches the Makefile.                *)
LEMMA LinesElsewhere ==
  ASSUME LinesInv, CommandsInv', ~InPlace, pc = "write", pc' \in {"write", "exit"},
         pc' = "exit" => code' # 0, code' \in {0, 1, 2, Usage},
         UNCHANGED <<given, behavior, rawlines, nodes, faults, file, offset>>,
         status = Running, status' = status,
         buffer' \in Seq(Texts), result' \in Seq(Texts)
  PROVE  LinesInv'
<1>1. file = makefile /\ ReadSound /\ "flush" \notin faults /\ makefile' = makefile
  BY DEF LinesInv, CommandsInv, WrittenLast, ReadingAgrees, FileAgrees, given
<1>2. TextsTyped'
  BY <1>1 DEF LinesInv, TextsTyped
<1>3. ReadingAgrees' /\ TreeAgrees' /\ ResultAgrees' /\ FileAgrees'
  BY <1>1 DEF LinesInv, ReadingAgrees, ReadSound, TreeAgrees, ResultAgrees, FileAgrees, InPlace
<1> QED
  BY <1>2, <1>3 DEF LinesInv

(* What is written in place.                                               *)
LEMMA LinesInPlace ==
  ASSUME LinesInv, CommandsInv', Written', pc = "write", pc' \in {"write", "exit"},
         pc' = "exit" => code' # 0, code' \in {0, 1, 2, Usage},
         UNCHANGED <<given, behavior, rawlines, nodes, faults>>,
         status = Running, status' = status, file' \in Seq(Texts), offset' \in Nat,
         buffer' \in Seq(Texts), result' \in Seq(Texts)
  PROVE  LinesInv'
<1>1. "flush" \notin faults /\ makefile' = makefile
  BY DEF LinesInv, FileAgrees, given
<1>2. TextsTyped'
  BY <1>1 DEF LinesInv, TextsTyped
<1>3. ReadingAgrees' /\ TreeAgrees' /\ ResultAgrees' /\ FileAgrees'
  BY <1>1 DEF LinesInv, ReadingAgrees, Written, TreeAgrees, ResultAgrees, FileAgrees, Running
<1> QED
  BY <1>2, <1>3 DEF LinesInv

(* fputs() into the stream.                                                *)
LEMMA LinesPut ==
  ASSUME LinesInv, PutLine, CommandsInv'
  PROVE  LinesInv'
<1> DEFINE first == <<Head(result)>>
           rest == Tail(result)
<1>1. /\ UNCHANGED <<given, behavior, rawlines, nodes, code, status, faults>>
      /\ pc = "write" /\ pc' = "write" /\ status = Running /\ result # <<>>
      /\ result' = Tail(result)
  BY DEF PutLine, At
<1>2. /\ result \in Seq(Texts) /\ buffer \in Seq(Texts) /\ file \in Seq(Texts) /\ offset \in Nat
      /\ code \in {0, 1, 2, Usage} /\ "flush" \notin faults
      /\ UNCHANGED <<makefile, rawlines, behavior, faults>>
  BY <1>1 DEF LinesInv, TextsTyped, FileAgrees, given
<1>3. /\ Head(result) \in Texts /\ rest \in Seq(Texts) /\ first \in Seq(Texts)
      /\ result = first \o rest
  BY <1>1, <1>2, TakeHead
<1>4. buffer' \in {buffer \o first, first} /\ buffer \o first \in Seq(Texts)
  <2>1. Append(buffer, Head(result)) = buffer \o first /\ buffer \o first \in Seq(Texts)
    BY <1>2, <1>3
  <2> QED
    BY <2>1 DEF PutLine, BufferedAfter
<1> HIDE DEF first, rest
<1>5. buffer' \in Seq(Texts) /\ result' \in Seq(Texts)
  BY <1>1, <1>2, <1>3, <1>4 DEF rest
<1>6. CASE ~InPlace
  <2>1. UNCHANGED <<file, offset>>
    BY <1>6 DEF PutLine, WriteOut
  <2> QED
    BY <1>1, <1>2, <1>5, <1>6, <2>1, LinesElsewhere
<1>7. CASE InPlace
  <2>1. Written
    BY <1>1, <1>7 DEF LinesInv, FileAgrees
  <2>2. CASE Len(buffer) < MaxBuffered
    <3>1. UNCHANGED <<file, offset>> /\ buffer' = buffer \o first
      <4>1. Append(buffer, Head(result)) = buffer \o first
        BY <1>2, <1>3 DEF first
      <4> QED
        BY <2>2, <4>1 DEF PutLine
    <3>2. buffer \o result = <<>> \o (buffer' \o result')
      <4>1. (buffer \o first) \o rest = buffer \o (first \o rest)
        <5>1. buffer \in Seq(Texts) /\ first \in Seq(Texts) /\ rest \in Seq(Texts)
          BY <1>2, <1>3
        <5> QED
          BY <5>1, JoinedInOrder
      <4>2. buffer' \o result' = buffer \o result
        BY <1>1, <1>3, <3>1, <4>1 DEF rest
      <4>3. buffer' \o result' \in Seq(Texts)
        BY <1>5
      <4> QED
        BY <4>2, <4>3, ConcatEmptySeq
    <3>3. <<>> \in Seq(Texts) /\ file' = file \o <<>>
      BY <1>2, <3>1, ConcatEmptySeq
    <3>4. offset' = Len(file')
      BY <2>1, <3>1 DEF Written
    <3>5. Written'
      BY <1>2, <1>5, <2>1, <3>2, <3>3, <3>4, WrittenOn
    <3> QED
      BY <1>1, <1>2, <1>5, <3>1, <3>5, LinesInPlace
  <2>3. CASE ~(Len(buffer) < MaxBuffered)
    <3>1. WriteOut(buffer) /\ buffer' = first
      BY <2>3 DEF PutLine, BufferedAfter, first
    <3>2. file' = file \o buffer /\ offset' = Len(file') /\ file' \in Seq(Texts) /\ offset' \in Nat
      BY <1>2, <2>1, <3>1, WrittenOut
    <3>3. buffer \o result = buffer \o (buffer' \o result')
      BY <1>1, <1>3, <3>1 DEF rest
    <3>4. Written'
      BY <1>2, <1>5, <2>1, <3>2, <3>3, WrittenOn
    <3> QED
      BY <1>1, <1>2, <1>5, <3>2, <3>4, LinesInPlace
  <2> QED
    BY <2>2, <2>3
<1> QED
  BY <1>6, <1>7

(* fputs() on a full disk.                                                 *)
LEMMA LinesPutFails ==
  ASSUME LinesInv, PutFails, CommandsInv'
  PROVE  LinesInv'
<1>1. /\ UNCHANGED <<given, behavior, rawlines, nodes, result, status, faults>>
      /\ pc = "write" /\ pc' = "exit" /\ status = Running /\ code' = 1
  BY DEF PutFails, At, IOFails, Leave
<1>2. /\ result \in Seq(Texts) /\ buffer \in Seq(Texts) /\ file \in Seq(Texts) /\ offset \in Nat
      /\ "flush" \notin faults /\ UNCHANGED <<makefile, rawlines, behavior, faults>>
  BY <1>1 DEF LinesInv, TextsTyped, FileAgrees, given
<1>3. PICK n \in 0 .. (Len(buffer) - 1) :
        WriteOut(SubSeq(buffer, 1, n)) /\ buffer' = SubSeq(buffer, n + 1, Len(buffer))
  BY DEF PutFails
<1> DEFINE new == SubSeq(buffer, 1, n)
<1>4. n \in 0 .. Len(buffer)
  BY <1>2
<1>5. new \in Seq(Texts) /\ buffer' \in Seq(Texts) /\ buffer = new \o buffer'
  BY <1>2, <1>3, <1>4, CutAnywhere
<1> HIDE DEF new
<1>6. WriteOut(new)
  BY <1>3 DEF new
<1>7. CASE ~InPlace
  <2>1. UNCHANGED <<file, offset>>
    BY <1>6, <1>7 DEF WriteOut
  <2> QED
    BY <1>1, <1>2, <1>5, <1>7, <2>1, LinesElsewhere
<1>8. CASE InPlace
  <2>1. Written
    BY <1>1, <1>8 DEF LinesInv, FileAgrees
  <2>2. file' = file \o new /\ offset' = Len(file') /\ file' \in Seq(Texts) /\ offset' \in Nat
    BY <1>5, <1>6, <2>1, WrittenOut
  <2>3. buffer \o result = new \o (buffer' \o result')
    <3>1. new \in Seq(Texts) /\ result \in Seq(Texts)
      BY <1>2, <1>5
    <3>2. \A rest \in Seq(Texts) : (new \o rest) \o result = new \o (rest \o result)
      BY <3>1, JoinedInOrder
    <3> QED
      BY <1>1, <1>5, <3>2
  <2>4. Written'
    BY <1>1, <1>2, <1>5, <2>1, <2>2, <2>3, WrittenOn
  <2> QED
    BY <1>1, <1>2, <1>5, <2>2, <2>4, LinesInPlace
<1> QED
  BY <1>7, <1>8

(* The end of main() and a signal change nothing of this.                  *)
LEMMA LinesReturn ==
  ASSUME LinesInv, Return \/ Kill, CommandsInv'
  PROVE  LinesInv'
<1>1. /\ UNCHANGED <<makefile, file, offset, buffer, rawlines, nodes, behavior, result>>
      /\ status = Running /\ status' \in {Running, Killed}
      /\ code' \in {0, 1, 2, Usage}
      /\ "flush" \in faults' <=> "flush" \in faults
      /\ "read" \in faults' <=> "read" \in faults
      /\ \/ pc' = pc /\ code' = code
         \/ pc = "write" /\ pc' = "exit" /\ result = <<>>
  BY DEF Return, Kill, At, ReturnValues, StatusOfClippy, given, disk, parser, LinesInv, TextsTyped
<1>2. TextsTyped'
  BY <1>1 DEF LinesInv, TextsTyped
<1>3. ReadSound' <=> ReadSound
  BY <1>1 DEF ReadSound
<1>4. ReadingAgrees'
  BY <1>1, <1>3 DEF LinesInv, ReadingAgrees
<1>5. TreeAgrees' /\ ResultAgrees'
  BY <1>1 DEF LinesInv, TreeAgrees, ResultAgrees, IsCategory, Has, Whole, InPlace
<1>6. Written => Written'
  BY <1>1, <1>3 DEF Written, InPlace, Whole, Begun
<1>7. FileAgrees'
  <2>1. Running # Killed
    BY DEF Running, Killed
  <2> QED
    BY <1>1, <1>6, <2>1 DEF LinesInv, FileAgrees, InPlace
<1> QED
  BY <1>2, <1>4, <1>5, <1>7 DEF LinesInv

(* exit() and fclose(): what cannot be written of the last buffer is lost. *)
LEMMA LinesExit ==
  ASSUME LinesInv, Exit, CommandsInv'
  PROVE  LinesInv'
<1>1. /\ UNCHANGED <<makefile, rawlines, nodes, behavior, result, pc, code>>
      /\ pc = "exit" /\ status = Running /\ status' = code /\ buffer' = <<>>
  BY DEF Exit, At, given, parser
<1>2. /\ result \in Seq(Texts) /\ buffer \in Seq(Texts) /\ file \in Seq(Texts) /\ offset \in Nat
      /\ "flush" \notin faults /\ code \in {0, 1, 2, Usage}
  BY <1>1 DEF LinesInv, TextsTyped, FileAgrees
<1>3. PICK n \in 0 .. Len(buffer) :
        /\ WriteOut(SubSeq(buffer, 1, n))
        /\ faults' = IF n < Len(buffer) THEN faults \cup {"flush"} ELSE faults
  BY DEF Exit
<1> DEFINE new == SubSeq(buffer, 1, n)
           lost == SubSeq(buffer, n + 1, Len(buffer))
<1>4. new \in Seq(Texts) /\ lost \in Seq(Texts) /\ buffer = new \o lost
  BY <1>2, <1>3, CutAnywhere
<1>5. n = Len(buffer) => new = buffer
  BY <1>2
<1> HIDE DEF new, lost
<1>6. /\ WriteOut(new)
      /\ n = Len(buffer) => "flush" \notin faults' /\ new = buffer
      /\ n # Len(buffer) => "flush" \in faults'
      /\ "read" \in faults' <=> "read" \in faults
  BY <1>2, <1>3, <1>5 DEF new
<1>7. /\ ReadingAgrees' /\ TreeAgrees' /\ ResultAgrees' /\ buffer' \in Seq(Texts)
      /\ status' \notin {Running, Killed}
  BY <1>1, <1>2 DEF LinesInv, ReadingAgrees, TreeAgrees, ResultAgrees, Running, Killed, Usage
<1>8. CASE file = makefile /\ (InPlace => buffer = <<>>)
  <2>1. UNCHANGED <<file, offset>>
    <3>1. CASE ~InPlace
      BY <1>6, <3>1 DEF WriteOut
    <3>2. CASE InPlace
      <4>1. n = Len(buffer) /\ Len(buffer) = 0
        BY <1>2, <1>8, <3>2
      <4>2. new = <<>> /\ Len(new) = 0
        BY <1>6, <1>8, <3>2, <4>1
      <4>3. file' = WriteAt(file, offset, <<>>) /\ offset' = offset + 0
        BY <1>6, <3>2, <4>2 DEF WriteOut
      <4> QED
        BY <1>2, <4>3, EmptyWrite
    <3> QED
      BY <3>1, <3>2
  <2>2. TextsTyped'
    BY <1>1, <1>7, <2>1 DEF LinesInv, TextsTyped
  <2>3. FileAgrees'
    BY <1>1, <1>7, <1>8, <2>1 DEF FileAgrees
  <2> QED
    BY <1>7, <2>2, <2>3 DEF LinesInv
<1>9. CASE Written
  <2>1. file' = file \o new /\ offset' = Len(file') /\ file' \in Seq(Texts) /\ offset' \in Nat
    BY <1>4, <1>6, <1>9, WrittenOut
  <2>2. ReadSound' /\ InPlace'
    BY <1>1, <1>6, <1>9 DEF Written, ReadSound, InPlace
  <2>3. ASSUME n = Len(buffer) PROVE Written'
    <3>1. UNCHANGED faults
      BY <1>3, <2>3
    <3>2. buffer \o result = new \o (buffer' \o result')
      <4>1. buffer' \o result' = result
        BY <1>1, <1>2, ConcatEmptySeq
      <4> QED
        BY <1>6, <2>3, <4>1
    <3>3. UNCHANGED <<makefile, rawlines, behavior, faults>> /\ result' \in Seq(Texts)
      BY <1>1, <1>2, <3>1
    <3> QED
      BY <1>2, <1>4, <1>7, <1>9, <2>1, <3>2, <3>3, WrittenOn
  <2>4. ASSUME n # Len(buffer) PROVE Written'
    <3> DEFINE rest == lost \o result
    <3>1. rest \in Seq(Texts) /\ new \o rest \in Seq(Texts)
      BY <1>2, <1>4
    <3>2. buffer \o result = new \o rest
      <4>1. (new \o lost) \o result = new \o (lost \o result)
        <5>1. new \in Seq(Texts) /\ lost \in Seq(Texts) /\ result \in Seq(Texts)
          BY <1>2, <1>4
        <5> QED
          BY <5>1, JoinedInOrder
      <4> QED
        BY <1>4, <4>1
    <3> HIDE DEF rest
    <3>3. (file \o new) \o rest = file \o (new \o rest)
      <4>1. file \in Seq(Texts) /\ new \in Seq(Texts)
        BY <1>2, <1>4
      <4> QED
        BY <3>1, <4>1, JoinedInOrder
    <3>4. Whole(file \o (buffer \o result))
      BY <1>2, <1>9 DEF Written
    <3>5. Whole(file' \o rest)
      BY <2>1, <3>2, <3>3, <3>4
    <3>6. Begun(file')
      BY <2>1, <3>1, <3>5, FrontOfWhole
    <3>7. Begun(file)'
      BY <1>1, <3>6 DEF Begun
    <3> QED
      BY <1>6, <2>1, <2>2, <2>4, <3>7 DEF Written
  <2>5. Written'
    BY <2>3, <2>4
  <2>6. TextsTyped'
    BY <1>1, <1>7, <2>1 DEF LinesInv, TextsTyped
  <2>7. FileAgrees'
    BY <1>1, <1>7, <2>5 DEF FileAgrees
  <2> QED
    BY <1>7, <2>6, <2>7 DEF LinesInv
<1> QED
  BY <1>8, <1>9 DEF LinesInv, FileAgrees

LEMMA LinesStep ==
  ASSUME LinesInv, [Next]_vars
  PROVE  LinesInv'
<1>0. CommandsInv'
  BY CommandsStep DEF LinesInv
<1>1. CASE ReadArguments \/ OpenFile
  BY <1>0, <1>1, LinesBeforeRead
<1>2. CASE ReadLine \/ ReadEnd \/ ReadFails
  BY <1>0, <1>2, LinesRead
<1>3. CASE ReadFinish
  BY <1>0, <1>3, LinesReadFinish
<1>4. CASE EditNone \/ EditRefactor \/ EditBumpRevision \/ EditMerge \/ EditSetVersion
  BY <1>0, <1>4, LinesChanged
<1>5. CASE EditOutput \/ EditGet \/ EditUnknownTargets \/ EditUnknownVars \/ EditClippy
  BY <1>0, <1>5, LinesReported
<1>6. CASE BumpRevisionFails \/ ExpressionFails \/ NotAPort
  BY <1>0, <1>6, LinesEditFails
<1>7. CASE Prepare
  BY <1>0, <1>7, LinesPrepare
<1>8. CASE Seek \/ Truncate
  BY <1>0, <1>8, LinesTruncate
<1>9. CASE PutLine
  BY <1>0, <1>9, LinesPut
<1>10. CASE PutFails
  BY <1>0, <1>10, LinesPutFails
<1>11. CASE Return \/ Kill
  BY <1>0, <1>11, LinesReturn
<1>12. CASE Exit
  BY <1>0, <1>12, LinesExit
<1>13. CASE UNCHANGED vars
  <2>1. /\ UNCHANGED <<makefile, file, offset, buffer, rawlines, nodes, behavior, result>>
        /\ UNCHANGED <<pc, code, status, faults>>
    BY <1>13 DEF vars, given, disk, parser
  <2>2. TextsTyped' /\ (ReadSound' <=> ReadSound)
    BY <2>1 DEF LinesInv, TextsTyped, ReadSound
  <2>3. ReadingAgrees' /\ TreeAgrees' /\ ResultAgrees'
    BY <2>1, <2>2 DEF LinesInv, ReadingAgrees, TreeAgrees, ResultAgrees, IsCategory, Has, Whole,
                      InPlace
  <2>4. Written => Written'
    BY <2>1, <2>2 DEF Written, InPlace, Whole, Begun
  <2>5. FileAgrees'
    BY <2>1, <2>4 DEF LinesInv, FileAgrees, InPlace
  <2> QED
    BY <1>0, <2>2, <2>3, <2>5 DEF LinesInv
<1> QED
  BY <1>1, <1>2, <1>3, <1>4, <1>5, <1>6, <1>7, <1>8, <1>9, <1>10, <1>11, <1>12, <1>13
     DEF Next, Ended

LEMMA LinesAlways == Spec => []LinesInv
BY LinesInit, LinesStep, PTL DEF Spec

-----------------------------------------------------------------------------
(* What was read of the Makefile is in front of the rest of it, also when  *)
(* the includes of a category Makefile are left out.                       *)
LEMMA WrittenIsMakefile ==
  ASSUME TextsTyped, Written
  PROVE  MakefileOnly
<1>1. /\ makefile \in Seq(Texts) /\ rawlines \in Seq(Texts) /\ file \in Seq(Texts)
      /\ buffer \o result \in Seq(Texts)
  BY DEF TextsTyped, Texts
<1>2. Begun(file)
  BY <1>1, FrontOfWhole DEF Written
<1>3. /\ Content(makefile) \in Seq(Texts) /\ Content(rawlines) \in Seq(Texts)
      /\ Content(file) \in Seq(Texts)
      /\ WithoutIncludes(Content(makefile)) \in Seq(Texts)
      /\ WithoutIncludes(Content(rawlines)) \in Seq(Texts)
  BY <1>1, ContentMapped
<1>4. IsPrefix(Content(rawlines), Content(makefile))
  BY DEF Written, ReadSound
<1>5. IsPrefix(WithoutIncludes(Content(rawlines)), WithoutIncludes(Content(makefile)))
  BY <1>3, <1>4, OthersOfPrefix
<1> QED
  BY <1>2, <1>3, <1>4, <1>5, PrefixOfPrefix DEF Begun, MakefileOnly

(* The file has the first lines of the Makefile and nothing else, whenever *)
(* the program ends, is killed or meets a full disk: what portedit         *)
(* reports, -d dumps or -D compares never gets into it, no line is written *)
(* twice or in front of another, and ftruncate(2) leaves none behind the   *)
(* last.                                                                   *)
THEOREM FileKeepsToMakefile == Spec => []MakefileOnly
<1>1. LinesInv => MakefileOnly
  <2> SUFFICES ASSUME LinesInv
               PROVE  MakefileOnly
    OBVIOUS
  <2>1. CASE file = makefile
    <3>1. file \in Seq(Texts)
      BY DEF LinesInv, TextsTyped
    <3>2. IsPrefix(Content(file), Content(file))
      BY <3>1, ContentMapped, PrefixOfItself
    <3> QED
      BY <2>1, <3>2 DEF MakefileOnly
  <2>2. CASE Written
    BY <2>2, WrittenIsMakefile DEF LinesInv
  <2> QED
    BY <2>1, <2>2 DEF LinesInv, FileAgrees
<1> QED
  BY <1>1, LinesAlways, PTL

(* A command that ends with success has the whole Makefile in its file, if *)
(* read(2) and the last write(2), of which it is not told, have not failed *)
(* and no include of a category Makefile is left out: nothing is lost      *)
(* between parser_read_from_file(), the edits, the buffer of the stream    *)
(* and exit(3).                                                            *)
THEOREM SuccessKeepsMakefile == Spec => []SuccessKeepsAll
<1>1. LinesInv => SuccessKeepsAll
  <2> SUFFICES ASSUME LinesInv, status = 0, faults \cap {"read", "flush"} = {},
                      ~({"subdir", "include"} \subseteq ToSet(makefile)), file # makefile
               PROVE  Content(file) = Content(makefile)
    BY DEF SuccessKeepsAll
  <2>1. Written /\ pc = "exit" /\ code = 0 /\ buffer = <<>> /\ result = <<>>
    BY DEF LinesInv, FileAgrees, ResultAgrees, Running, Killed
  <2>2. makefile \in Seq(Lines) /\ file \in Seq(Texts)
    BY DEF LinesInv, TextsTyped
  <2>3. file \o (buffer \o result) = file
    BY <2>1, <2>2, ConcatEmptySeq
  <2>4. Whole(file) /\ Content(rawlines) = Content(makefile)
    BY <2>1, <2>3 DEF Written, ReadSound
  <2>5. CASE Content(file) = Content(rawlines)
    BY <2>4, <2>5
  <2>6. CASE /\ "subdir" \in ToSet(makefile)
             /\ Content(file) = WithoutIncludes(Content(rawlines))
    <3>1. "include" \notin ToSet(makefile)
      BY <2>6
    <3> QED
      BY <2>2, <2>4, <2>6, <3>1, NothingElseIsLost
  <2> QED
    BY <2>4, <2>5, <2>6 DEF Whole
<1> QED
  BY <1>1, LinesAlways, PTL
=============================================================================
