# A verification project for portfmt

portfmt is a set of command line tools for FreeBSD Ports Makefiles: `portfmt`
formats them, `portedit` edits them, `portclippy` checks the order of variables
and targets, and `portscan` scans a whole ports tree with a pool of threads.
This directory models its core in TLA+: what is checked on small instances with
TLC, and what is proved for all of them with TLAPS.

Contents: [inventory](#inventory), [modules](#modules), [runs](#runs),
[proofs](#proofs), [findings](#findings), [not modelled](#what-is-not-modelled),
[plan](#plan).

## Inventory

    file --lines--> tokenizer --tokens--> AST builder --tree--> edits --tree--> printer --> file
                    (parser/tokenizer.c)  (parser/astbuilder.c) (parser/edits)  (parser.c)
                              \___________________ parser lifecycle (parser.c) ___________/

    portscan: main thread --jobs--> work queue --> workers (each with parsers of its own)
                  \                                  /
                   scan status (portscan/status.c), signals        main thread --> scan log (portscan/log.c)

| component | its state | its operations | what makes it correct |
|---|---|---|---|
| Tokenizer (`parser/tokenizer.c`, `parser_read_from_file`) | `inbuf`, `continued`, `in_target`, `builder->lines`, `builder->tokens`, `error`, `rawlines` | feed a line, finish | every physical line gets into exactly one logical line; ranges stay inside the input; targets open and close in turn; errors are sticky |
| AST builder (`parser/astbuilder.c`, `ast.c`) | the tree, `nodestack`, `ifstack`, `current_comments` | one step per token, finish | the two stacks agree; the tree nests as the file does; no pop from an empty stack; an unbalanced file is refused |
| Printer (`parser.c`) | goal columns, the output array | find goal columns, reformat a node, wrap words, print unedited lines | unedited parts are printed as they were read; what is formatted is read back as the same statements; blocks are aligned; lines are as long as they may be |
| Parser lifecycle (`parser.c`) | sticky `error`, `settings`, `metadata` and its valid bits, `read_finished` | read, finish, edit, merge, metadata, diff, write | no operation after an error; settings of one mode exclude those of others |
| Programs (`portfmt.c`, `portclippy.c`, `portedit.c`, `mainutils.c`) | options, the open file and its offset, the buffer of its stream, the exit status | read options, open, read, edit, write in place, end | a Makefile is never mixed with something else; a run that fails early leaves it alone; 0 means that all went well |
| Refactoring edits (`parser/edits/refactor`) | none; transform the tree | run in a fixed order by `parser_read_finish` and by `portedit` | the values of the variables do not change; running twice changes nothing |
| Editing commands (`parser/edits/edit`) | none; transform the tree, by way of a script that is merged | merge, set-version, bump-revision, bump-epoch | the variable asked for has the value asked for, and is defined once |
| Lint and output edits (`parser/edits/lint`, `.../output`) | none; collect from the tree | clones, order, unknown variables, ... | report what is there |
| portscan (`portscan.c`) | the jobs of a round, the results of each, the log | two rounds of jobs: categories, then ports; collect | the log does not depend on the order the workers finish in; the program ends |
| Scan status (`portscan/status.c`) | an atomic request word, an alarm, counters, a ring of current paths | request by SIGALRM, SIGUSR2, SIGINFO; report; reset | reports go on; counts are right; a reset meets no worker |
| Scan log (`portscan/log.c`) | a directory of logs, the symlinks `latest` and `previous` | sort, write, read, compare, move the links | a log read back is the log written; the links name the last two logs |
| Rules, tables, regular expressions, I/O wrappers, editor integration, build scripts | constant data or none | | left out, see [below](#what-is-not-modelled) |

How they interact. The parser owns the tokenizer and the builder and calls them
in order; the builder starts only after the tokenizer has finished without an
error. Edits are callbacks `f(parser, root, extpool, userdata)` that
`parser_edit` runs on the tree and whose error it translates. In `portscan` the
workers share nothing but the scan status and the work queue; the main thread
reads their results after `workqueue_wait()`. Signals interrupt any thread and
write the request word.

What is hard here: the interleaving of workers, main thread and signal handler
in the scan status, which uses atomics and no lock; the protocol of the two
stacks, whose pops rely on one another; line ranges, which are indices into an
array that is read without a bounds check much later; crashes between the steps
that update the scan log and between truncating and writing a Makefile; what
stdio still has in its buffer when the exit status is already decided; the
`seen` and `in_target` flags, which outlive the line that set them; differences
of sizes that may be negative. There are no retries, no messages and no timeouts
in this program. `PROJECT.json` lists every
hazard at its line with the properties that cover it.

## Modules

**Parser**

- `Tokenizer`: `parser_read_from_file()` and `tokenizer.c`. A physical line is
  one of the kinds in `TextKinds` (what the `consume_*()` functions see in its
  first words) and does or does not end in a backslash. `FeedContinued`,
  `FeedLine`, `FeedNul` and `TokenizerFinish` are the paths through
  `parser_tokenizer_feed_line()` and `parser_tokenizer_finish()`. `Join` says
  what a logical line may turn out to be when a continuation is appended, which
  is nondeterministic where it depends on the words: a command that loses its
  tab may read as anything. The `START`, `TOKEN`, `END` tokens of one line are
  appended by one call and are one token here.
- `ASTBuilder`: `ast_from_token_stream()` and what it calls in `ast.c`, one
  action per type of token. Nodes are appended only as a last child, so the tree
  is the sequence of nodes in the order of their creation, each naming its
  parent. Comments are kept in `current_comments` and flushed by the next token.
- `RawOutput`: the walk of `parser.c` over unedited nodes, as a sequence of the
  line numbers it prints.
- `Printer`: `parser.c` from a statement to its lines: `parser_find_goalcols()`,
  one action per node the walker visits, and then one per statement that is
  printed: the rows of a variable (`print_newline_array()`,
  `print_token_array()`), the lines of a target command with its word that opens
  a line of its own, the `.if` and `.for` lines. A word is a kind (what makes the
  layout differ: `&&`, a word that ends in a semicolon, a command in
  `target_command_should_wrap()`, a function of `.if`) and a length. A printed
  line is a sequence of pieces, and `Statements` reads the pieces back as the
  tokenizer would.
- `BlockNesting`: what the parser promises of the block structure, without
  tokens, targets, comments or ranges: a stack of open blocks and a verdict.
- `BlockRefinement`: `ASTBuilder` implements `BlockNesting`; the mapping flattens
  the tokens to the block lines they stand for, one or none each, and `nodestack`
  to the blocks its nodes open.

**Edits**

- `MakefileTree`: the tree of `ast.h` as the edits see it. All walks of the edits
  visit a node before its children and the children in order, so a tree is the
  sequence of its nodes in that order, and a node has the path of blocks it is in
  (for an `.if`, which of its two lists). `Balance` is `ast_balance()`, which
  follows every edit. `Value` is external: what make(1) makes of a tree, given
  what the environment has and which conditions hold.
- `Refactorings`: each edit of `parser/edits/refactor` as an operator on trees.
- `Merging`: `parser/edits/edit/merge.c`, with the order of variables of
  `rules.c` as two constant functions, `Rank` and `Block`, that agree.
- `Versions` (extends `Merging`): `bump_revision.c` and `set_version.c`. Each
  looks at what is assigned, writes a script, and merges it. A version is a
  sequence of parts; numerals are given, up to the largest `strtonum()` takes.
- `Edits` (extends all of these): `Read...` build every tree the builder may return
  (comments are flushed together, a target ends where the next begins, one
  `.else` for an `.if`); `ReadFinish` picks a command, and one action per edit
  runs what `parser_read_finish()`, `parser_merge()` and the command ask for, in
  their order. `read` is what was read, for the properties.

  Words are not looked into except for what an edit splits them at: the colon in
  `USES`, and `-D`. Left out: `.elif` (an `.else` with an `.if` in it has its
  shape), the bodies of includes that were loaded (portclippy's and portscan's
  mode), the `!=` of variables that are deduplicated though not sorted
  (`VAR_DEDUP`), and what is not a word of a variable or a line of a comment.
  `sanitize_eol_comments.c` adds to the list it walks over; libias'
  `ARRAY_FOREACH`, whose source is not here, is taken to go on to the end of the
  longer list, which the edit relies on.

**Programs**

- `Commands`: one run of `portfmt`, `portclippy` or one of the commands of
  `portedit`, from its options to its exit status. A Makefile is a sequence of
  lines of the kinds a run treats differently (formatted or not, blank, one that
  cannot be tokenized, an `.if` without an end, without a newline at the end of
  the file, the lines of a category Makefile). Reading is one action per line,
  `parser_read_finish()` one, each edit one, writing one per call: `lseek()`,
  `ftruncate()`, each line into the buffer of the stream, each buffer into the
  file, and the rest at the end of the program. Each of these may fail (`IOFails`,
  `PutFails`, `ReadFails`, the flush in `Exit`), and `Kill` ends the program
  between any two. `faults` is a history of the failures no call reports to the
  program. What edits do to a tree is the subject of `Edits`; here a line is
  changed or added.

**portscan**

- `ScanStatus`: `portscan/status.c`. The request word is one variable, and each
  of the two compare-and-exchange operations of `portscan_status_print()` is an
  action, so that signals and other threads get in between. Copying a path into
  a slot is two actions; when two workers copy into one slot at the same time
  (a data race), the slot ends with any mix of the two.
- `PortScan` (extends `ScanStatus`): `portscan.c` from the start of the scan to
  the end. The main thread has one action per stretch of code between two
  operations others can see (push, wait, collect, report); a worker takes a job,
  reports its path, and counts the job when it is done. The work queue of libias
  (a git submodule that is empty here) is modelled from its use: a pushed job is
  taken by some worker once, and `workqueue_wait()` returns when all have
  returned. The tree that is scanned does not change during the scan, so what a
  job finds is a function of its name. Error paths are part of that function: a
  Makefile that cannot be read yields an entry and no origins.

- `ScanLog`: `portscan/log.c` and the end of `main()` with `-l`. Every call on
  the log directory is an action: making the links that are missing, emptying a
  log, one `write()` per entry, and the two halves (remove, create) of moving
  each link. `Abort` is a call that fails or a process that is killed, between
  any two of them. A log is named after a second and the commit of the ports
  tree, here a stamp. Entries are sequences of words as they are split at their
  blanks when they are read back. The directory outlives the scan; one scan runs
  at a time. `symlink_update()` is libias', modelled from its use: the rights
  asked for the directory (`capsicum_helpers.h:74`) are those of reading,
  removing and making a link. A `write()` that writes a part of a line is not
  modelled. The variables `meant` and `reused` are history, for the properties.

`ASTBuilderProofs` (with those of the tokenizer), `TreeProofs`, `EditsProofs`,
`PrinterProofs`, `CommandsProofs` and `ScanProofs` (with those of the log
directory) hold the theorems, `SequenceInduction` the lemmas about `FlattenSeq`
that they need, and `FoldInduction` those about `FoldLeft`. Each fold of a model has an
instance of `FoldInduction`; so that proofs with many instances stay small for the provers, it
writes `FoldLeft` out as `Fold` and extends nothing of the community modules.
Modules named `MC...` give the constants values for TLC. Definitions under a
comment that starts with "Faulty:" are plausible bugs of the definition that
follows them. The models do not use them. Each shows that a property notices the
bug.

## Runs

| run | shows | bounds |
|---|---|---|
| `tree` | the tokenizer: `RangesWithinInput`, `LinesTokenizedOnce`, `TargetsBracketed`: whatever is continued and wherever the file ends, no physical line is lost or tokenized twice. The builder: `NodeStackRooted`, `StacksAgree`, `BranchesLinked`, `OneAlternative`, `ConditionalsClosed`, `SpansNest`. The unedited output: `RoundTrip`, `WalkInSourceOrder`. The refinement: `BlockNestingImplemented` | every file of up to three lines of every kind, continued or not, and of up to five lines of every structure: an `.if` with two branches and an `.endif` has one line left, two blocks nest, and a block may open inside of a target and close outside. Every flag of the tokenizer that outlives a line is set by one line and used by the next, and a line to continue, its continuation and the line behind them fit into three |
| `missing_endfor` | a finding, see below | 3 lines |
| `scan` | `CountsEveryJob`, `PathsOfThisRound`, `LogAsSequential`, `ReportsContinue`, `ResetAlone`, and `ScanTerminates` under fairness | 2 workers, 2 slots in the ring, 2 user signals; six trees with errors in the root, in a category, in `bsd.options.desc.mk`, in a port, with origins on the command line and with no check asked for |
| `finished_line` | a finding, see below | as `scan`, 1 user signal |
| `scan_log` | `LinkedLogsComplete`, `LinksInOrder`, `LogPublished`, `ExitStatus`: scans that are killed at any call leave links to complete logs, in order, and the next scan goes on from there | 3 scans, which is one after a scan that follows another; 3 stamps; results that grow, shrink and come back, an empty one, and one with an origin of two words |
| `links_differ` | a finding, see below | as `scan_log` |
| `edits` | `CollapseKeepsValues`, `AppendSanitized`, `MergeTakesEffect`, `MergeKeepsOthers`, `MergeKeepsOrder` of single edits; `BumpIncrements`, `SetVersionTakesEffect`, `CommentsKept`, `UneditedAsRead` and `SecondRunChangesNothing` of whole commands | every Makefile of 4 nodes (3 for `merge` and `bump-epoch`): two assignments to one variable with a block and what is in it between them, or three and an include. Three variables: one of the top block whose words have a colon, one of the flags with a comment at the end, and one of the last block with a `-D` and another comment at the end. Numbers up to 2, the largest that can be read, and a text that is none; versions with a prefix, with a suffix, of a git description and of a plain number |
| `merge_cut_short` | a finding, see below | 2 nodes |
| `commands` | `MakefileOnly`, `FailureLeavesMakefile`, `SuccessKeepsAll`: whatever fails and wherever the program is killed, a Makefile keeps its lines or the first of them, and a run that fails before it writes has not touched it | ten Makefiles with every kind of line, good and broken; a buffer of two lines, so that a Makefile is written in up to three calls; all options that matter to each other |
| `flush_ignored` | a finding, see below | as `commands` |
| `printer` | `ReadsBack`, `BlocksAligned`, `LinesFit`, `LinesFilled` | `-w 40` and `-w -1`. Blocks of three variables and comments with names around each tab stop; variables of up to four words that just fit and just do not; all target commands, `.if` and `.for` of up to four words of every kind. Four words are a word in front of an operator, the operator, a word behind it and what is left for the next line |
| `empty_command` | a finding, see below | as `printer` |

Two workers are enough for each pair of operations to interleave, and three
ports for one worker to take two jobs while another is in the middle of its
report. With two slots a worker can be overtaken by the other around the whole
ring, which is when two copies meet in a slot. The alarm is not counted: it goes
off again whenever it was set.

`CHECK_DEADLOCK` is not switched off anywhere. A model that has stopped (a file
that was read or refused, a program that has returned) stutters by an action of
its own, so a deadlock would be one.

*Fairness.* `FairScanSpec` assumes weak fairness of the main thread and of each
worker: the operating system runs every thread that can go on. Neither the
signals of the user nor the alarm are assumed to arrive. Weak fairness is of a
thread's whole next step, not of single actions, as a thread does one thing at a
time. `LogAsSequential` and `CountsEveryJob` are safety properties and do not
depend on it.

*RoundTrip* is an equivalence: the unedited output is the input unless the file
has one of five shapes, and with each of them it never is:

1. a command of nothing but flags and a comment (`\t@# ...`) is not printed
   (`parser.c:447`);
2. a command under a conditional that no target precedes makes the builder
   create a target without a name at the command's line, and the line is printed
   for both (`astbuilder.c:631`, `parser.c:1138`);
3. a branch after an `.else` is not printed (`parser.c:1096`);
4. a last line of nothing but a backslash is dropped (`tokenizer.c:648`);
5. a `.for` that an `.endif` closed prints its line twice (`parser.c:1061`).

It is about trees that no edit has touched, in the modes that copy such nodes
(what `portedit` uses).

*The value of a variable.* `CollapseKeepsValues` and `AppendSanitized` compare
what make(1) would have for a variable at the end of the file before the edit
and after it, for every choice of the conditions and with and without a value in
the environment. Conditions are free: no assignment changes whether they hold.
The body of a `.for` runs twice or not at all. `CollapseKeepsValues` has two
exceptions, both of what the code does on purpose or without a promise:

1. an assignment with `=` is joined to the one before it, whose words it would
   have thrown away (`collapse_duplicate_vars_2.t` wants it);
2. "adjacent" assignments may have blocks between them, which are not in the
   list `process_siblings()` gets. `A=x`, an `.if` with `A=y`, and `A+=z` end
   with `y` and not with `y z` where the condition holds.

`AppendSanitized` says two things of the variables of a Makefile: without a value
in the environment they have what they had, and with one they have the same as
without it. Its exceptions:

1. a variable that is set, and set again, counts as one that was not seen
   (`sanitize_append_modifier.c:68`), and the next `+=` loses what it has. An `=`
   in both branches of an `.if` is enough;
2. only the parent of an assignment is looked at (line 77): in a target in a
   `.for`, or behind it, as a target ends with the next, earlier rounds are lost;
3. where the first assignment is in a conditional it keeps its `+=`.

*portedit merge.* `MergeTakesEffect` is about variables that are assigned at most
once, at the top and before the includes of `bsd.port.mk`. `=` keeps the
modifier it finds. An assignment behind a block is not found (`merge.c:331`) and
another one is added, and `+=` to an assignment with a comment at its end is
added too; then there are two. The case `INSERT_VARIABLE_NO_POINT_FOUND` of
`insert_variable()` (`merge.c:278`) is never taken, as
`find_insert_point_generic()` has a place or prepends.

*Versions.* A revision, epoch or version that is assigned at most once has the
value asked for and stays assigned once. `BumpIncrements` and
`SetVersionTakesEffect` leave out a variable whose assignment is behind a block
and stays there (`StaysBehind`): it is not deleted when a comment stands above
it or the port is a slave port, and it is not found by the merge, which then
puts a second one in front of it that the old one overrides. `set-version`
compares the whole argument with the version that is there and not what it makes
of it (`set_version.c`), so that setting the same version again resets the
revision if the version has a suffix or is a git description; `portedit.1` makes
no promise here. `merge.c` does not read the settings
`PARSER_MERGE_OPTIONAL_LIKE_ASSIGN`, `PARSER_MERGE_AFTER_LAST_IN_GROUP`,
`PARSER_MERGE_COMMENTS` and `PARSER_MERGE_IGNORE_VARIABLES_IN_CONDITIONALS`, so
the model has none of them.

*The Makefile on disk.* `MakefileOnly` is of every state, and so of every crash:
what is in the file is the beginning of what was in it, except for formatting, or
all of it. That the file may be cut short by a crash is the price of writing in
place, which `parser_output_write_to_file()` does without a temporary file. A
failing `read()` is taken for the end of the file (`parser.c:1252`) and
`portfmt -i` then truncates the Makefile behind it; `SuccessKeepsAll` excludes
it, and the failed flush of the finding below. `portclippy` stores a `bool`
through a pointer to the `int` it exits with, so the exit status for a finding
is 1 or 0, which depends on the order of bytes of the machine.

*Layout.* `ReadsBack` is the property that a formatted file has the same
statements with the same words. The reader it is stated with (`ReadPiece`) goes over
the output once: a newline ends a statement unless a backslash is in front of it, a comment lasts to
the end of its statement, and two words with nothing between them are one, but for parentheses. `LinesFit` allows one column more than `-w` says:
the test whether the next word has room leaves out the space in front of it
(`portfmt.1` calls the column a goal). The room is a difference of two `size_t`
and as good as infinite where the goal column is not left of the wrap column by
two; the words are then on one line, as with `-w -1`.

`UneditedAsRead` has one exception: `-D` and its word are joined without a mark,
which a comment in the code wants (`sanitize_cmake_args.c:82`).

## Proofs

All theorems hold for every value of the constants that satisfies the named
assumptions: any kinds of lines and number of lines for the parser, any set of
workers, number of slots, number of signals and set of trees for the scan, any
Makefiles, options and size of the buffer for the programs.

- `ASTBuilderProofs`, the tokenizer. `TokenizerTyped` (types), `TokenRangesWithinInput`,
  `TargetsAreBracketed` and `LinesAreTokenizedOnce`. The inductive invariant of the second adds what the
  range of the pending line is: it ends behind the last line kept, and it is not
  empty while `inbuf` has text or a line was continued; without it nothing is
  known of the token the next line appends. That of the third relates
  `in_target` to the last target token. That of the fourth, `LinesIInv`, says what is
  pending: without a continued line nothing, with one and no text exactly one line;
  and that each line before the pending ones was taken by one token. The second
  is not inductive without the first: a line that is only a backslash adds no text,
  and the line it continues decides how many lines are pending.
- `ASTBuilderProofs`, the builder. `StacksStaySound` is the inductive invariant: types, the
  root at the bottom of `nodestack` and nowhere else, both stacks increasing and
  with the same conditionals, branches linked to the entry below them, and who
  may have an alternative. The parts need one another: that `.endif` does not
  run off a stack follows from the agreement of the two, which `.endif` keeps
  only because the branches are linked. `NodeStackStaysRooted`,
  `StacksAlwaysAgree`, `BranchesStayLinked`, `AtMostOneAlternative` and
  `BuilderTyped` follow. `ConditionalsAreClosed`, that no conditional of a tree
  that is returned was left open, has an invariant of its own on top: a
  conditional begins with a token that was taken, and it is a branch, or has an
  end behind its beginning, or is still on `ifstack`. That an end is behind the
  beginning needs `LinesIInv` of the tokenizer, by which the lines of any two
  tokens that become nodes are apart.
  `SpansStayNested`, that a block and its end hold between them exactly the nodes
  that are below the block, follows from `SpansInv`. Parents are older than their
  children (`ParentsBelow`), and a block begins behind the lines of the
  nodes before it and in front of those after it (`BlocksStart`). A block that is closed is
  the nodes from one number to another: they are closed under children, nothing
  on `nodestack` is below them, and the end is behind all of their lines
  (`BlocksSpanned`). What was created after a block that is still open is
  below it (`OpenSpans`), unless a branch has left it, after which only an `.endif` can
  take it off the stack (`Unbroken`). Comments that wait for their parent and the
  tokens still to come are behind everything in the tree. `Ancestors` is chosen among the
  functions that satisfy its equation, as `HasTarget` is below; that there is one
  is shown from the smallest sets that are closed upwards, and what is in it by
  the least node for which it would be wrong.
  `NodesStayLaid` is the invariant behind the unedited output, `LaidInv`: nodes are in the
  order of their lines and share none, but for a target that is put in
  for a command; ends of blocks are apart from all nodes; and every token that was
  taken is in a node, ends one, or is a comment that waits for its parent (`TokensPlaced`).
  It needs `LinesIInv` for the tokens still to come and `SpansInv` for the blocks.
  `CommandsStayTaken`, `KindsStaySound` and `NothingBuiltAfterError` say the rest of
  what the printer needs of the tree.
- `TreeProofs`. `BlocksAreNested`: the tokenizer and the builder
  implement `BlockNesting`, for every input. There is one lemma for each action
  that says which step of `BlockNesting` it takes, if any. The inductive invariant is
  the one of the builder, the bracketing of targets, and `NestSound`: every parent
  is a node; until the end of the input the builder has done nothing; no
  target is right above another on `nodestack`, and the others are blocks; and a
  target is on `nodestack` only while the tokens are inside of one or right behind
  its end, and there not on top. Without the last part an `.endfor`, which looks past one target on the top,
  could close a `.for` that is not the innermost block, and the end of the file could
  reject a file for a target that was left. `HasTarget` is chosen among
  the functions that satisfy its equation; that there is one is shown from the
  largest set of nodes that only climb to the same set or to a target.
  `WalkKeepsSourceOrder`, that a walk over the tree meets the nodes in the order they
  were read, follows from `TreeOrdered` (`TreeStaysOrdered`): a node between another and its parent hangs
  in that parent or in something behind it, so that what was left is not come back to
  (`Preordered`), and a branch is behind all of the body of its conditional
  (`BranchesLast`). It is inductive on top of `SpansInv` and the links between
  conditionals: a node is appended to the top of the stack, which is open and
  has no branch yet, as its branch would be above it, or as a branch to the
  top of `ifstack`, which nothing has left. In such a tree the nodes below a node are the ones
  from it to some last one, and the children divide them without a gap; from that,
  and from the last node back, the walk is the only function that satisfies its equation.
  `AcceptedFilesRoundTrip` is the equivalence `RoundTrip`, from all of the above
  (`TreeRead`). `Output` is chosen among the functions that satisfy the equation
  of the walker; one exists, and outside of a branch after an `.else` it
  prints a node as its start, its children in order and its end (`OutPlain`). In the one
  direction each shape has a lemma of its own: a line that no printed node has is missing
  (`LoneMissing`, `NoOpMissing`, `BranchMissing`), and a line that two have is printed
  twice, so that the output does not grow (`UnclosedTwice`, `CommandTwice`). In the other
  the output grows, from the last node back, because `LaidInv` puts what is below a
  node between its start and its end and `TreeOrdered` one child behind another; and it
  has every line that was read, as each has a token (`LinesOnce`), each token a
  place in the tree, and only commands without words print nothing.
- `ScanProofs`, the scan. `WorkersStayAtJobs` is the inductive invariant: no two workers
  are at one job, a job taken was pushed and has not returned, and between the
  rounds there is none. `ResetsAlone` follows: the unsynchronised assignments of
  a reset never meet a worker. `ReportsAlwaysContinue` is inductive with the
  types of the status alone. `RoundsStaySound` is the inductive invariant on top of
  `WorkersStayAtJobs`: what is counted is the number of jobs done; the ring, and
  every copy that is on its way into it, have names of this round; and the log is
  the part of the sequential one that belongs to the results collected so far.
  `EveryJobCounted`, `PathsAreOfThisRound` and `LogIsSequential` follow. The last
  is the statement that makes `portscan` a function of the ports tree: it holds
  because the results are collected in the order of the jobs and only after the
  last worker has returned. It needs what `Sorted` and `FlattenSeq` return for a
  sequence of any length. `SequenceInduction` has induction for sets of naturals,
  proved from the well-foundedness of `<`, and with it that a sequence that is
  flattened in two parts is flattened as a whole; the ordered
  names are shown to exist from the least number with enough names below it.
- `CommandsProofs`. `CommandsInv` says which settings exclude which, that nothing
  is written before the parser has ended without an error, and what the exit
  status means at each place. `FailuresLeaveMakefile` and `ReportsLeaveMakefile`
  follow. `LinesInv` is the inductive invariant on top of it, with one part for
  each place the lines of the Makefile pass through: what has been read and what
  is still in the file make the Makefile (`ReadingAgrees`); the tree has the lines
  that were read, edited as the options say (`TreeAgrees`); the calls of the
  output have its lines in order, and unless one was too long for the buffer,
  all of them (`ResultAgrees`); and the file has what was written, in front of
  what is in the buffer and what is left of the calls, or the Makefile while it is
  not yet truncated (`FileAgrees`). `FileKeepsToMakefile` and
  `SuccessKeepsMakefile` are the first and the last end of this chain; neither is
  inductive without the links in the middle.
- `EditsProofs`. `UneditedStaysAsRead`: a node that is printed from the lines it
  was read from is one that was read, after any number of edits of any Makefile. An
  edit that forgot to mark a node would have its work dropped by the output without
  a word. Each edit has a lemma that it gives a tree that is `Kept` (whose unmarked
  variables and comments are as they were read) if it gets one, and so does
  `ast_balance()`. That alone is not inductive. Joining `-D` does not mark the
  node, so `AsReadInv` says where in the list of edits it still may come.
  Collapsing takes the first node of a group for the one whose words are replaced, and
  finds it by its id: it needs that ids are places in the tree (`Numbered`), which
  holds while it is read and until nodes are taken out, and that no two groups begin
  with one node. TLC checks `AsReadInv` over the states of `edits`. Most edits are folds
  with what was seen so far; `FoldInduction` proves, for any operator and any
  statement about what was made of the first elements, that a fold keeps what its
  steps keep, and `EditsProofs` instantiates it once for each walk. What is taken for
  granted of the constants is that the trees to merge are trees
  (`MergeTreesAssumption`) and that the comments read have lines
  (`InputsAssumption`).
  `CommentsStayKept`: the lines of the comments of a Makefile and the comments at
  the ends of its assignments are the same and in the same order after every edit
  that portfmt makes of its own, for all Makefiles. They are read off the tree as one sequence (`Texts`); an
  edit that takes a node out must take one without a comment, and the one that moves
  a comment from the end of a line to above it must put it where it was
  in the sequence. The lemmas say for each edit that it leaves `Texts` as it
  was: those that rewrite nodes in place by comparing them node by node, those that drop nodes as the
  dropped ones have no texts, and the merge of adjacent comments and the move of a comment
  with the folds of `FoldInduction`, as what was made of the first nodes has their texts.
  `ast_balance()` and `Trim` (which the moved comment has applied) are part of it.
- `PrinterProofs`. `ColumnsHaveRoom`: a goal column is always right of the name,
  the modifier and one tab, for names of any length and blocks of any size. So
  the branch of `print_newline_array()` for a name longer than its column is
  never taken. The invariant has the columns that are still to be moved with
  their block.
  `BlocksStayAligned`: in the output, every row of the variables of a block starts in
  the same column, for any words, any wrap column and any options. `BlocksInv` is
  about the walker: `nodes` is what stands behind the last empty line, and whatever was
  met and is not in `nodes` has the greatest column of its block, or its own when
  `skip_goalcol()` excludes it. `PrintedInv` says that what is printed of a variable are
  the lines for the column it had. The rest is about the output of one variable. Its rows are
  not empty and no word is a newline (`RowsAre`), so the lines read back are the rows
  (`LinesStart`); the pieces in front of the first word are read back to the goal
  column, in the first row behind the name and in the others from the start. Reading is
  a fold, and a fold over two sequences one after the other is taken up where it was
  left (`PieceFold`). The proof needs of the constants that a Makefile has no empty
  words (`FilesAssumption`), which the tokenizer does not make (`tokenizer.c:320`, `:433`). TLC checks
  the parts of `BlocksInv` and `PrintedInv` over the states of `printer`.
  `PrintedReadsBack`: all that is printed is read back as its statements, each with its
  words in their order. `ReadsInv` says of every statement printed that a reader who
  begins it at the start of a line ends it at the start of a line, with its words and nothing else
  (`Prints`); the output is then read statement by statement (`InvReads`). What
  is behind it is a lemma for each printer of words: the rows of variables (`VariableRows`),
  the chunks of commands (`ChunksSoFar`), the groups of `.for` and `.if` (`GroupsReads`,
  `TestGroups`). Each says of every stretch of the output what its words are, that
  what is between two words sets them apart, and that a newline inside of a statement
  has a backslash in front of it. Of the sizes the proof uses nothing: where a line breaks does not matter.
  It needs of the constants that the words of a statement are words
  (`FilesAssumption` again).
  `LinesStayFilled`: a variable goes on in another line only where the next word
  had no room, and with `-w -1` it is one line. `RowsFilled` says that a row ends only where the
  first word of the next is too long for the width, `LinesBroken` which lines the rows are read
  back as, and `ArrayLines` that the line of a row ends as far behind the goal column as the row is
  long (`PlainColumn`). `NarrowRows` and `WideRows` are about the width, a difference
  of two `size_t`: it is what `-w` leaves behind the goal column where it leaves anything, and else the
  column alone is farther than `-w`. With `-w -1`, and for a variable that
  `ignore_wrap_col()` excludes, the code has no limit but one that is large: the proof needs
  that no variable is longer than the 99999999 of the code (`LengthsAssumption`), and
  that a `size_t` holds a few times as much (`SizesAssumption`).
- `ScanProofs`, the log directory. `LogDirectorySound` is the inductive invariant: types, what
  this scan has written of its log so far and that no link names this log before
  it is complete, that the links name complete logs in the order of their
  stamps, and what the two links are while they are moved. `LinkedLogsComplete`
  is not inductive without the second, and `LinksInOrder` not without the fourth.
  `LogTyped`, `LinkedLogsStayComplete`, `LinksStayInOrder` and
  `LogsArePublished` follow. `StatusInv` follows the results of a scan from the
  entries it writes to the exit status of a later one: the log a link names has the entries its scan found
  (`MeantFound`), and what was read back from the link differs from this scan's
  results whenever the scan writes a log of its own (`StatusAgrees`).
  `ExitStatusTellsChange` follows. The proof needs what `compare` is asked to tell: counting
  the entries of one log in another of the same length decides whether the
  two are the same bag, for any logs. `EntriesAssumption` is what it needs of
  the entries: all have a value, and an entry that is read back as another one is not
  one that a scan may find too. Only an origin with a blank is not read back as it was
  written, and those entries are directories without a port, all with the value
  "unhooked port" (`portscan.c:554`), while the words of the origin would be
  in front of it.

Model-checked only: the other properties of `Edits`, and `LinesFit` of the layout. Those of
`Edits` that are left compare values make(1) would give, numbers that are read from
texts, and a second run with the first. `LinesFit` counts the words of a line, and a group of
`.if`, such as `defined(`, a word and `)`, is not broken however long it is, nor are
operators in a row: the property holds of the conditionals the run has, but not of all a
Makefile could have.
`ScanTerminates` is a liveness property under fairness, which is TLC's.

## Findings

- *An `.endif` swallows an open `.for`* (run `missing_endfor`). `.if`, `.for`,
  `.endif` is accepted although the builder has an error for it, "node stack not
  exhausted: missing .endif/.endfor?" (`astbuilder.c:709`), as `.endif` pops
  everything down to its `.if` (`astbuilder.c:570`). The unedited output then
  has the line of the `.for` twice.
- *The last report of portscan may be missing* (run `finished_line`). The main
  thread leaves a request for the last report, whose line is to end the output
  with a newline (`status.c:146`), and then looks for SIGUSR2 before it looks for
  its own request. A SIGUSR2 that arrives in between overwrites the request and
  is not answered.
- *Both links may name one log* (run `links_differ`). The manual and a test
  (`tests/portscan/0002.sh`) have two links to two logs. Two scans within one
  second write to a log of one name: the second empties the log of the first
  (`log.c:331`), and `latest` and `previous` both point to it.
- *`portedit merge` stops at a conditional* (run `merge_cut_short`). The manual
  says that conditionals and targets of the input are ignored. `edit_merge_walker()`
  returns `AST_WALK_STOP` at the first node inside a block (`merge.c:367`), which
  ends the walk: all assignments behind the block are ignored with it.

- *A Makefile cut short with exit status 0* (run `flush_ignored`).
  `parser_output_write_to_file()` leaves the last lines in the buffer of the
  stream and returns success (`parser.c:1373-1384`). They are written by
  `fclose()`, which nobody asks whether it could (`mainutils.c:178`). On a full
  disk the end of the Makefile is gone and `main()` returns 0, "Success."
  (`man/portfmt.1:145`).
- *A command without words is dropped* (run `empty_command`). A line of a target
  that has flags and a comment only, `@# nothing to do`, is in the tree
  (`tests/parser/ast0012.t:5`) and not in the output (`parser.c:447`).

Two exceptions to the exit status are part of `ExitStatus`: a scan that finds
nothing always ends with 0 and leaves the links alone, and a log that has an
origin with a blank never equals the scan it was written from.

Not pursued as findings, as the documentation does not promise otherwise: a
report may show a mix of two current paths; a late SIGUSR2 is not answered; an
unreadable version makes `portedit set-version` do nothing and say nothing
(`set_version.c:246`). `man/portedit.1` still says that tokens are not
deduplicated, which `refactor.dedup-tokens` does.

## What is not modelled

- Constant data and its lookups (`rules.c`, `constants.c`): there is no behaviour
  to model. `Rank` and `Block` of `Merging` stand for the order of variables.
- The metadata of the parser (`parser_metadata()`), which is computed on first use
  and not again. It answers what the lint edits and the order of variables ask;
  a `merge` that changes what it depends on is listed as a hazard without a
  property.
- The lint and output edits beyond whether they find something: they collect from
  the tree, and what they look for is in the tables.
- The loading of includes (`parser_load_includes()`), a mode of `portclippy` and
  `portscan`.
- `ast_clone()` and `parser_astbuilder_from_ast()`, which copy.
- Wrappers of library calls (`regexp.c`, `io/`), the Capsicum sandbox, colours
  and other option letters that change nothing but a number or the looks, the
  output for the Kakoune editor, and the scripts that generate tables.
- libias is not part of the tree; its arrays, stacks and work queue are modelled
  from their use.
- What a check of `portscan` looks for in one port is the data of a job here.
- A `write()` of a part of a line, and which characters make a version
  unreadable.

## Plan

1. *Done:* the parser up to the tree (`Tokenizer`, `ASTBuilder`,
   `BlockNesting`), the output of unedited trees (`RawOutput`), the scan
   (`ScanStatus`, `PortScan`), and the proofs of their stacks, ranges and rounds.
2. *Done:* `ScanLog`, the log directory with a failure at every call, and the
   proofs that the links name complete logs in order.
3. *Done:* the edits (`MakefileTree`, `Refactorings`, `Merging`, `Versions`,
   `Edits`) against the value make(1) would give a variable, for idempotence, and
   for what they must not touch.
4. *Done:* `Commands`, a run from its options to its exit status with a failure at
   every call and a crash at any point, and `Printer`, the layout.
5. *Done:* the proofs that the log of a parallel scan is the sequential one, for any
   number of workers, and that the builder implements `BlockNesting`, for any input.
6. *Done:* the proofs that a command keeps the lines of its Makefile, from
   reading to `exit()`, that the exit status of a scan says whether anything changed,
   that the blocks of a tree are the nodes between their ends, that a walk over
   the tree keeps the order of the file and the output of an unedited tree is what was
   read, and that no edit changes a node without marking it.
7. *Done:* the proofs that no edit of portfmt loses or reorders a comment and that the
   blocks of the layout align (`BlocksAligned`), and that what is printed reads back as its
   words (`ReadsBack`), and that no line of a variable ends before it has to (`LinesFilled`).
   *Left:* that its lines fit (`LinesFit`).
8. *Left:* the metadata and the order of variables it decides; `lint.clones`; the
   loading of includes.
