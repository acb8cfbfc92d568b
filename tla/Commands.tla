------------------------------ MODULE Commands ------------------------------
(***************************************************************************)
(* One run of portfmt, portclippy or a command of portedit: the options,   *)
(* the file that is opened, the way of the Makefile through one parser     *)
(* and back into the file, and the exit status.  What the edits do to the  *)
(* tree is the subject of Edits; here an edit either changes a line, adds  *)
(* one, reports something or fails.                                        *)
(***************************************************************************)
EXTENDS Naturals, SequencesExt

CONSTANTS
  Makefiles,   (* what there may be in the file, as sequences of Lines   *)
  Options,     (* the options that may be given, as sequences of letters *)
  MaxBuffered  (* lines stdio keeps before it writes them                *)

(* tidy is a variable that is formatted, messy one that is not, out of     *)
(* order and unknown; rev is the one bump-revision, bump-epoch and get are *)
(* about, badrev the same without an integer; cut is a last line without   *)
(* its newline.  broken is not tokenized, open is an .if without an        *)
(* .endif, subdir the include that makes a category Makefile and include   *)
(* any other.                                                              *)
Lines == {"tidy", "messy", "blank", "cut", "rev", "badrev", "broken", "open",
          "subdir", "include", "target"}

(* Lines the edits leave: a formatted messy is tidy, a bumped rev bumped.  *)
Edited == {"bumped", "added"}

(* What is printed that is no part of a Makefile; a hole is what is in a   *)
(* file before the first byte that was written.                            *)
Foreign == {"report", "dump", "patch", "hole"}

ASSUME MakefilesAssumption ==
  /\ Makefiles \subseteq Seq(Lines)
  /\ \A m \in Makefiles : \A i \in DOMAIN m : m[i] = "cut" => i = Len(m)

ASSUME OptionsAssumption == Options \subseteq Seq({"D", "d", "e", "i"})

ASSUME MaxBufferedAssumption == MaxBuffered \in Nat

-----------------------------------------------------------------------------
(* The commands: settings.behavior as main() has it, what read_common_args *)
(* is called with, what the argument is checked for, and the edit.         *)
Portedit == {"collapse", "dedup", "reformat", "edited"}

Portfmt ==
  [behavior |-> {"collapse", "dedup", "reformat", "fuzzy", "comments", "cmake"},
   options |-> {"D", "d", "i"}, edit |-> "none"]

Portclippy == [behavior |-> {"raw", "references"}, options |-> {}, edit |-> "clippy"]

ApplyRefactor ==
  [behavior |-> Portedit \cup {"fuzzy"}, options |-> {"D", "d", "i"}, edit |-> "refactor"]

(* kakoune., lint. and output.                                             *)
ApplyOutput ==
  [behavior |-> Portedit \cup {"fuzzy", "raw"}, options |-> {"D", "d", "i"}, edit |-> "output"]

BumpRevision == [behavior |-> Portedit, options |-> {"D", "d", "i"}, edit |-> "bump"]

GetVariable == [behavior |-> Portedit \cup {"raw"}, options |-> {}, edit |-> "get"]

MergeExpression ==
  [behavior |-> Portedit \cup {"fuzzy", "cmake"}, options |-> {"D", "d", "e", "i"},
   edit |-> "merge"]

SanitizeAppend ==
  [behavior |-> Portedit \cup {"append"}, options |-> {"D", "d", "i"}, edit |-> "refactor"]

SetVersion == [behavior |-> Portedit, options |-> {"D", "d", "i"}, edit |-> "version"]

UnknownTargets == [behavior |-> Portedit \cup {"raw"}, options |-> {}, edit |-> "targets"]

UnknownVars == [behavior |-> Portedit \cup {"raw"}, options |-> {}, edit |-> "variables"]

Commands ==
  {Portfmt, Portclippy, ApplyRefactor, ApplyOutput, BumpRevision, GetVariable,
   MergeExpression, SanitizeAppend, SetVersion, UnknownTargets, UnknownVars}

-----------------------------------------------------------------------------
VARIABLES
  command,   (* one of Commands                                          *)
  options,   (* its options                                              *)
  named,     (* the arguments left: one that can be opened, one that     *)
             (* cannot, more than one, or none                           *)
  valid,     (* its expression, version or regular expression can be     *)
             (* parsed                                                   *)
  pc,        (* what the program does next                               *)
  behavior,  (* settings.behavior                                        *)
  makefile,  (* what was in the file at first                            *)
  file,      (* what is in it now                                        *)
  offset,    (* of its descriptor                                        *)
  out,       (* what was written to stdout                               *)
  rawlines,  (* parser->rawlines                                         *)
  nodes,     (* the lines of parser->ast, and which are edited           *)
  error,     (* parser->error                                            *)
  result,    (* parser->result                                           *)
  found,     (* an edit has found what it looked for                     *)
  buffer,    (* of the stream that is written                            *)
  code,      (* what main() returns or exit() is called with             *)
  status,    (* Running, Killed or the exit status                       *)
  faults     (* the failures no call has told the program of             *)

(* No exit status has more than eight bits.                                *)
Running == 256
Killed == 257

(* The environment's choices.                                              *)
given == <<command, options, named, valid, makefile>>
disk == <<file, offset, out, buffer>>
parser == <<rawlines, nodes, error, result, found>>
vars == <<given, pc, behavior, disk, parser, code, status, faults>>

Init ==
  /\ command \in Commands
  /\ options \in Options
  /\ command.options = {} => options = <<>>
  /\ named \in {"one", "missing", "many", "none"}
  /\ valid \in BOOLEAN
  /\ command.edit \notin {"merge", "version", "get"} => valid
  /\ makefile \in Makefiles
  /\ pc = "arguments"
  /\ behavior = command.behavior
  /\ file = makefile
  /\ offset = 0
  /\ out = <<>>
  /\ rawlines = <<>>
  /\ nodes = <<>>
  /\ error = "ok"
  /\ result = <<>>
  /\ found = FALSE
  /\ buffer = <<>>
  /\ code = 0
  /\ status = Running
  /\ faults = {}

At(place) == pc = place /\ status = Running

(* err(), errx() and usage(): stdio is flushed on the way out.             *)
Leave(with) == code' = with /\ pc' = "exit"

Usage == 64

Given(letter) == \E k \in DOMAIN options : options[k] = letter

DebugLevel == Len(SelectSeq(options, LAMBDA letter : letter = "d"))

InPlace == "inplace" \in behavior

-----------------------------------------------------------------------------
(* Faulty: -d and -D do not take -i back.                                  *)
CommonSettingsKept(flags, letters) ==
  flags \cup (IF "D" \in letters THEN {"diff"} ELSE {})
        \cup (IF "d" \in letters THEN {"dump"} ELSE {})
        \cup (IF "i" \in letters THEN {"inplace"} ELSE {})

(* read_common_args(): -i is only for the Makefile itself.                 *)
CommonSettings(flags, letters) ==
  LET all == flags \cup (IF "D" \in letters THEN {"diff"} ELSE {})
                   \cup (IF "d" \in letters THEN {"dump"} ELSE {})
                   \cup (IF "i" \in letters THEN {"inplace"} ELSE {})
  IN IF all \cap {"dump", "diff", "raw"} # {} THEN all \ {"inplace"} ELSE all

(* portedit merge wants an expression or a file, and takes the expression  *)
(* from stdin if there is a file only.                                     *)
ReadArguments ==
  /\ At("arguments")
  /\ IF ToSet(options) \subseteq command.options
        /\ (command.edit = "merge" => Given("e") \/ named # "none")
     THEN /\ behavior' = CommonSettings(command.behavior, ToSet(options))
          /\ pc' = "open"
          /\ UNCHANGED code
     ELSE Leave(Usage) /\ UNCHANGED behavior
  /\ UNCHANGED <<given, disk, parser, status, faults>>

(* open_file(): without a name it is stdin, which cannot be written back.  *)
OpenFile ==
  /\ At("open")
  /\ CASE named = "many" \/ (InPlace /\ named = "none") -> Leave(Usage)
       [] named = "missing"                             -> Leave(1)
       [] OTHER                                         -> pc' = "read" /\ UNCHANGED code
  /\ UNCHANGED <<given, behavior, disk, parser, status, faults>>

-----------------------------------------------------------------------------
(* The newline is no part of a raw line.                                   *)
RawLine(line) == IF line = "cut" THEN "tidy" ELSE line

(* parser_read_from_file(): a line that is not tokenized is not kept.      *)
ReadLine ==
  /\ At("read")
  /\ offset < Len(makefile)
  /\ LET line == makefile[offset + 1]
     IN IF line = "broken"
        THEN /\ error' = "expected"
             /\ Leave(1)
             /\ UNCHANGED rawlines
        ELSE /\ rawlines' = Append(rawlines, RawLine(line))
             /\ UNCHANGED <<error, pc, code>>
  /\ offset' = offset + 1
  /\ UNCHANGED <<given, behavior, file, out, buffer, nodes, result, found, status, faults>>

ReadEnd ==
  /\ At("read")
  /\ offset = Len(makefile)
  /\ pc' = "finish"
  /\ UNCHANGED <<given, behavior, disk, parser, code, status, faults>>

(* LINE_FOREACH ends at the end of the file and at a failure of read(2)    *)
(* alike; neither it nor its caller asks ferror().                         *)
ReadFails ==
  /\ At("read")
  /\ offset < Len(makefile)
  /\ faults' = faults \cup {"read"}
  /\ pc' = "finish"
  /\ UNCHANGED <<given, behavior, disk, parser, code, status>>

-----------------------------------------------------------------------------
Node(line) == [text |-> line, edited |-> FALSE]
New(line) == [text |-> line, edited |-> TRUE]

Has(line) == \E k \in DOMAIN nodes : nodes[k].text = line

Unless(condition, line) == IF condition THEN <<>> ELSE <<line>>

(* The edits of parser_read_finish() that matter to these lines: a blank   *)
(* line at the top or behind another is removed.                           *)
RemoveEmptyLines(lines) ==
  FlattenSeq([k \in DOMAIN lines |->
                Unless(lines[k] = "blank" /\ (k = 1 \/ lines[k - 1] = "blank"), lines[k])])

Built(lines) ==
  LET kept == IF "dump" \in behavior /\ DebugLevel > 2 THEN lines
              ELSE RemoveEmptyLines(lines)
  IN [k \in DOMAIN kept |-> Node(kept[k])]

(* parser_read_finish()                                                    *)
ReadFinish ==
  /\ At("finish")
  /\ IF "open" \in ToSet(rawlines)
     THEN error' = "ast" /\ Leave(1) /\ UNCHANGED nodes
     ELSE nodes' = Built(rawlines) /\ pc' = "edit" /\ UNCHANGED <<error, code>>
  /\ UNCHANGED <<given, behavior, disk, rawlines, result, found, status, faults>>

-----------------------------------------------------------------------------
(* parser_edit() of the command, and what main() does when it fails.       *)
Edit(kind) == At("edit") /\ command.edit = kind

EditDone ==
  /\ pc' = "prepare"
  /\ UNCHANGED <<given, behavior, disk, rawlines, error, code, status>>

EditFailed ==
  /\ error' = "edit_failed"
  /\ Leave(1)
  /\ UNCHANGED <<given, behavior, disk, rawlines, nodes, result, found, status, faults>>

ReportIf(condition) ==
  /\ found' = condition
  /\ result' = IF condition THEN Append(result, "report") ELSE result
  /\ UNCHANGED <<nodes, faults>>

EditNone == Edit("none") /\ EditDone /\ UNCHANGED <<nodes, result, found, faults>>

EditRefactor ==
  /\ Edit("refactor")
  /\ nodes' = [k \in DOMAIN nodes |->
                 [nodes[k] EXCEPT !.edited = nodes[k].text = "messy"]]
  /\ EditDone
  /\ UNCHANGED <<result, found, faults>>

(* edit_bump_revision(): the sub-parser's assignment is merged.            *)
EditBumpRevision ==
  /\ Edit("bump")
  /\ ~Has("badrev")
  /\ nodes' = IF Has("rev")
               THEN [k \in DOMAIN nodes |->
                       IF nodes[k].text = "rev" THEN New("bumped") ELSE nodes[k]]
               ELSE Append(nodes, New("added"))
  /\ EditDone
  /\ UNCHANGED <<result, found, faults>>

BumpRevisionFails == Edit("bump") /\ Has("badrev") /\ EditFailed

EditMerge ==
  /\ Edit("merge")
  /\ valid
  /\ nodes' = Append(nodes, New("added"))
  /\ EditDone
  /\ UNCHANGED <<result, found, faults>>

(* The error is that of the other parser.                                  *)
ExpressionFails ==
  /\ Edit("merge") \/ Edit("get")
  /\ ~valid
  /\ Leave(1)
  /\ UNCHANGED <<given, behavior, disk, parser, status, faults>>

(* edit_set_version(): when its sub-parser cannot parse the version        *)
(* nothing is merged and nothing said.                                     *)
EditSetVersion ==
  /\ Edit("version")
  /\ nodes' = IF valid THEN Append(nodes, New("added")) ELSE nodes
  /\ faults' = IF valid THEN faults ELSE faults \cup {"version"}
  /\ EditDone
  /\ UNCHANGED <<result, found>>

EditOutput == Edit("output") /\ ReportIf(Has("messy")) /\ EditDone

EditGet == Edit("get") /\ valid /\ ReportIf(Has("rev") \/ Has("badrev")) /\ EditDone

EditUnknownTargets == Edit("targets") /\ ReportIf(Has("target")) /\ EditDone

EditUnknownVars == Edit("variables") /\ ReportIf(Has("messy")) /\ EditDone

(* lint_bsd_port() and lint_order()                                        *)
EditClippy == Edit("clippy") /\ ~Has("subdir") /\ ReportIf(Has("messy")) /\ EditDone

NotAPort == Edit("clippy") /\ Has("subdir") /\ EditFailed

-----------------------------------------------------------------------------
(* A category Makefile has SUBDIR, COMMENT and comments only.              *)
Unsupported == {"rev", "badrev", "bumped", "added", "target"}

IsCategory == Has("subdir")

NotSupported == IsCategory /\ \E line \in Unsupported : Has(line)

(* parser_output_category_makefile_reformatted() prints nothing more after *)
(* what it does not support.                                               *)
PrintedNodes ==
  IF NotSupported
  THEN SubSeq(nodes, 1, SelectInSeq(nodes, LAMBDA node : node.text \in Unsupported) - 1)
  ELSE nodes

(* parser_output_reformatted_walker(): with PARSER_OUTPUT_EDITED only what *)
(* is edited is formatted.  A category Makefile is always formatted, and   *)
(* its other includes are not printed.                                     *)
LineOf(node) ==
  IF node.text = "messy" /\ (node.edited \/ IsCategory \/ "edited" \notin behavior) THEN "tidy"
  ELSE node.text

Formatted ==
  FlattenSeq([k \in DOMAIN PrintedNodes |->
                Unless(IsCategory /\ PrintedNodes[k].text = "include", LineOf(PrintedNodes[k]))])

Printed ==
  CASE "dump" \in behavior -> Append(result, "dump")
    [] "dump" \notin behavior /\ "raw" \in behavior -> result
    [] OTHER -> result \o Formatted

Formats == behavior \cap {"dump", "raw"} = {}

(* Faulty: whatever the error is.                                          *)
MayWriteAlways(condition) == TRUE

MayWrite(condition) == condition \in {"ok", "differences"}

(* parser_output_prepare(), parser_output_diff() and the first test of     *)
(* parser_output_write_to_file().                                          *)
Prepare ==
  /\ At("prepare")
  /\ CASE Formats /\ NotSupported ->
            error' = "unspecified" /\ result' = Printed
       [] ~(Formats /\ NotSupported) /\ "diff" \in behavior /\ Printed # rawlines ->
            error' = "differences" /\ result' = <<"patch">>
       [] ~(Formats /\ NotSupported) /\ "diff" \in behavior /\ Printed = rawlines ->
            result' = <<>> /\ UNCHANGED error
       [] OTHER -> result' = Printed /\ UNCHANGED error
  /\ IF MayWrite(error')
     THEN pc' = (IF InPlace THEN "seek" ELSE "write") /\ UNCHANGED code
     ELSE Leave(1)
  /\ UNCHANGED <<given, behavior, disk, rawlines, nodes, found, status, faults>>

-----------------------------------------------------------------------------
IOFails == error' = "io" /\ Leave(1)

Seek ==
  /\ At("seek")
  /\ \/ offset' = 0 /\ pc' = "truncate" /\ UNCHANGED <<error, code>>
     \/ IOFails /\ UNCHANGED offset
  /\ UNCHANGED <<given, behavior, file, out, buffer, rawlines, nodes, result, found,
                 status, faults>>

Truncate ==
  /\ At("truncate")
  /\ \/ file' = <<>> /\ pc' = "write" /\ UNCHANGED <<error, code>>
     \/ IOFails /\ UNCHANGED file
  /\ UNCHANGED <<given, behavior, offset, out, buffer, rawlines, nodes, result, found,
                 status, faults>>

(* Lines written from an offset of a file on.                              *)
WriteAt(lines, at, new) ==
  IF new = <<>> THEN lines
  ELSE [k \in 1 .. Max({Len(lines), at + Len(new)}) |->
          CASE k \in (at + 1) .. (at + Len(new))                    -> new[k - at]
            [] k \notin (at + 1) .. (at + Len(new)) /\ k <= Len(lines) -> lines[k]
            [] OTHER                                                 -> "hole"]

(* write(2) of some lines of the buffer.                                   *)
WriteOut(lines) ==
  IF InPlace
  THEN /\ file' = WriteAt(file, offset, lines)
       /\ offset' = offset + Len(lines)
       /\ UNCHANGED out
  ELSE out' = out \o lines /\ UNCHANGED <<file, offset>>

(* Faulty: the line that did not fit is gone.                              *)
BufferedOnly(line) == <<>>

BufferedAfter(line) == <<line>>

(* fputs(): the buffer is written when it is full.                         *)
PutLine ==
  /\ At("write")
  /\ result # <<>>
  /\ IF Len(buffer) < MaxBuffered
     THEN buffer' = Append(buffer, Head(result)) /\ UNCHANGED <<file, offset, out>>
     ELSE WriteOut(buffer) /\ buffer' = BufferedAfter(Head(result))
  /\ result' = Tail(result)
  /\ UNCHANGED <<given, pc, behavior, rawlines, nodes, error, found, code, status, faults>>

(* The disk is full: a part of the buffer is written.                      *)
PutFails ==
  /\ At("write")
  /\ result # <<>>
  /\ Len(buffer) = MaxBuffered
  /\ \E n \in 0 .. (Len(buffer) - 1) :
       /\ WriteOut(SubSeq(buffer, 1, n))
       /\ buffer' = SubSeq(buffer, n + 1, Len(buffer))
  /\ IOFails
  /\ UNCHANGED <<given, behavior, rawlines, nodes, result, found, status, faults>>

(* lint_order() stores a bool through a pointer to the int that main()     *)
(* returns: where its first byte is the highest, the status is 1 << 24,    *)
(* of which exit() keeps nothing.                                          *)
StatusOfClippy == IF found THEN {1, 0} ELSE {0}

ReturnValues ==
  CASE error = "differences" -> {2}
    [] error \notin {"ok", "differences"} -> {1}
    [] error = "ok" /\ command.edit = "get" -> {IF found THEN 0 ELSE 1}
    [] error = "ok" /\ command.edit \in {"targets", "variables"} -> {IF found THEN 1 ELSE 0}
    [] error = "ok" /\ command.edit = "clippy" -> StatusOfClippy
    [] OTHER -> {0}

(* The end of main().                                                      *)
Return ==
  /\ At("write")
  /\ result = <<>>
  /\ code' \in ReturnValues
  /\ faults' = IF command.edit = "clippy" /\ found /\ code' = 0
               THEN faults \cup {"status"} ELSE faults
  /\ pc' = "exit"
  /\ UNCHANGED <<given, behavior, disk, parser, status>>

(* exit() or fclose() writes what is left; nobody asks them whether it     *)
(* could be written.                                                       *)
Exit ==
  /\ At("exit")
  /\ \E n \in 0 .. Len(buffer) :
       /\ WriteOut(SubSeq(buffer, 1, n))
       /\ faults' = IF n < Len(buffer) THEN faults \cup {"flush"} ELSE faults
  /\ buffer' = <<>>
  /\ status' = code
  /\ UNCHANGED <<given, pc, behavior, parser, code>>

Kill ==
  /\ status = Running
  /\ status' = Killed
  /\ UNCHANGED <<given, pc, behavior, disk, parser, code, faults>>

Ended == status # Running /\ UNCHANGED vars

Next ==
  \/ ReadArguments \/ OpenFile \/ ReadLine \/ ReadEnd \/ ReadFails \/ ReadFinish
  \/ EditNone \/ EditRefactor \/ EditBumpRevision \/ BumpRevisionFails
  \/ EditMerge \/ ExpressionFails \/ EditSetVersion \/ EditOutput \/ EditGet
  \/ EditUnknownTargets \/ EditUnknownVars \/ EditClippy \/ NotAPort
  \/ Prepare \/ Seek \/ Truncate \/ PutLine \/ PutFails \/ Return \/ Exit
  \/ Kill \/ Ended

Spec == Init /\ [][Next]_vars

-----------------------------------------------------------------------------
(* What lines have of the Makefile they come from.                         *)
Origin(line) ==
  CASE line \in {"messy", "cut"} -> "tidy"
    [] line = "bumped"           -> "rev"
    [] OTHER                     -> line

Content(lines) ==
  FlattenSeq([k \in DOMAIN lines |-> Unless(lines[k] \in {"blank", "added"}, Origin(lines[k]))])

WithoutIncludes(lines) ==
  FlattenSeq([k \in DOMAIN lines |-> Unless(lines[k] = "include", lines[k])])

(* Whenever the program ends or is killed, the file has the first lines of *)
(* the Makefile and nothing else: no report, dump or patch, no line twice, *)
(* none in front of another and none left over behind the last.  Only a    *)
(* category Makefile may have lost its includes.                           *)
MakefileOnly ==
  \/ IsPrefix(Content(file), Content(makefile))
  \/ /\ "subdir" \in ToSet(makefile)
     /\ IsPrefix(Content(file), WithoutIncludes(Content(makefile)))

(* A program that fails leaves the file as it was, unless it is the        *)
(* writing of it that fails.                                               *)
FailureLeavesMakefile ==
  status \in {1, 2, Usage} /\ error # "io" => file = makefile

(* A program that succeeds has lost no line, if all calls have told it of  *)
(* their failures and the Makefile has nothing that is not printed.        *)
SuccessKeepsAll ==
  status = 0 /\ faults \cap {"read", "flush"} = {} /\ ~{"subdir", "include"} \subseteq ToSet(makefile)
    => Content(file) = Content(makefile)

(* Exit status 0 is success (man/portfmt.1): no line that was read is lost *)
(* when the writing of the last buffer fails.                              *)
ZeroIsSuccess ==
  status = 0 /\ "read" \notin faults /\ "include" \notin ToSet(makefile)
    => Content(file) = Content(makefile)
=============================================================================
