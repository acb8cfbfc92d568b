------------------------------- MODULE ScanLog -------------------------------
(***************************************************************************)
(* portscan/log.c and the end of main() of portscan.c with -l: the         *)
(* directory with the logs of all scans and the links to the latest and    *)
(* the previous one.  One portscan runs at a time; every call on the       *)
(* directory may fail, and the process may be killed between any two.      *)
(***************************************************************************)
EXTENDS Integers, FiniteSets, SequencesExt

CONSTANTS
  Results,   (* what scans may find, sorted as portscan_log_sort() does   *)
  MaxStamp,  (* bound on the names of logs                                *)
  MaxScans   (* bound on the number of scans                              *)

(* An entry is split at its blanks where it is written to a line and read  *)
(* back: origin and value are sequences of words, here numbers.  An origin *)
(* has more than one when a directory of the ports tree has a blank in its *)
(* name (lookup_subdirs() reports it as unhooked).                         *)
Types == {"V", "T", "Vc", "OD", "OG", "O", "Ce", "Cu", "C", "E", "Vv", "#"}
Words == Seq(Nat)
Entry == [type : Types, origin : Words, value : Words]

ASSUME ResultsAssumption == Results \subseteq Seq(Entry)
ASSUME MaxStampAssumption == MaxStamp \in Nat \ {0}
ASSUME MaxScansAssumption == MaxScans \in Nat

(* A log is named after the second it is written in and the commit of the  *)
(* ports tree; the stamp stands for both.                                  *)
Stamps == 1 .. MaxStamp
DevNull == 0
Absent == -1
Links == Stamps \cup {DevNull, Absent}

VARIABLES
  stamp,     (* what log_filename() returns now                          *)
  files,     (* the contents of the logs, <<>> for one that is not there *)
  latest,    (* where portscan-latest.log points to                      *)
  previous,  (* where portscan-previous.log points to                    *)
  pc,        (* where the scan is, "idle" between two                    *)
  scans,     (* the number of scans                                      *)
  result,    (* what this scan, or the last, has found                   *)
  log_path,  (* the log this scan writes, DevNull before it does         *)
  prev,      (* what the latest link was before this scan moved it       *)
  exit,      (* how the scan ended: 0, 1 also if killed, 2, or NotYet    *)
  meant,     (* what was to be written to each log, for the properties   *)
  reused     (* two scans have used one stamp, for the properties        *)

dirVars == <<files, latest, previous>>
ghosts == <<meant, reused>>
logvars == <<stamp, dirVars, pc, scans, result, log_path, prev, exit, ghosts>>

NotYet == 3
LogPlaces == {"idle", "open", "repair", "scan", "create", "write", "link_latest",
           "unlink_previous", "link_previous"}

-----------------------------------------------------------------------------
(* log_entry_tostring() and log_entry_parse(): the words of a line after   *)
(* its type; the first is read back as the origin, and a line without any  *)
(* other is dropped with a warning.                                        *)
LineWords(entry) == entry.origin \o entry.value
Parsable(entry) == Len(LineWords(entry)) > 1
ReadBack(entry) ==
  [type |-> entry.type, origin |-> <<Head(LineWords(entry))>>,
   value |-> Tail(LineWords(entry))]
ReadLog(file) ==
  FlattenSeq([i \in DOMAIN file |->
                IF Parsable(file[i]) THEN <<ReadBack(file[i])>> ELSE <<>>])

(* Every entry has an origin and a value, and one that is not read back as *)
(* it was written is not read as another that a scan may find: it is of a  *)
(* directory with a blank in its name, and all of those have one value     *)
(* ("unhooked port").                                                      *)
ASSUME EntriesAssumption ==
  \A log1, log2 \in Results : \A i \in DOMAIN log1, j \in DOMAIN log2 :
    /\ Parsable(log1[i])
    /\ ReadBack(log1[i]) = log2[j] => log1[i] = log2[j]

(* portscan_log_read_all(): nothing of a link that was never moved.        *)
ReadAll(link) == IF link \in Stamps THEN ReadLog(files[link]) ELSE <<>>

(* Faulty: the counts are compared and not the entries.                    *)
SameLength(log1, log2) == Len(log1) = Len(log2)

(* How often an entry is in a log.                                         *)
Occurrences(log, e) == Cardinality({i \in DOMAIN log : log[i] = e})

(* portscan_log_compare(): array_diff() finds no difference between the    *)
(* sorted logs.                                                            *)
SameEntries(log1, log2) ==
  /\ Len(log1) = Len(log2)
  /\ \A i \in DOMAIN log1 : Occurrences(log1, log1[i]) = Occurrences(log2, log1[i])

-----------------------------------------------------------------------------
(* A logdir that does not exist yet, and one that has no links, are the    *)
(* same to portscan_log_dir_open().                                        *)
LogInit ==
  /\ stamp = 1
  /\ files = [s \in Stamps |-> <<>>]
  /\ latest = Absent
  /\ previous = Absent
  /\ pc = "idle"
  /\ scans = 0
  /\ result = <<>>
  /\ log_path = DevNull
  /\ prev = Absent
  /\ exit = NotYet
  /\ meant = [s \in Stamps |-> <<>>]
  /\ reused = FALSE

Start ==
  /\ pc = "idle" /\ scans < MaxScans
  /\ scans' = scans + 1
  /\ pc' = "open"
  /\ exit' = NotYet
  /\ log_path' = DevNull
  /\ result' = <<>>
  /\ UNCHANGED <<stamp, dirVars, prev, ghosts>>

(* portscan_log_dir_open() makes the links that are missing.               *)
OpenPrevious ==
  /\ pc = "open"
  /\ previous' = IF previous = Absent THEN DevNull ELSE previous
  /\ pc' = "repair"
  /\ UNCHANGED <<stamp, files, latest, scans, result, log_path, prev, exit, ghosts>>

OpenLatest ==
  /\ pc = "repair"
  /\ latest' = IF latest = Absent THEN DevNull ELSE latest
  /\ pc' = "scan"
  /\ UNCHANGED <<stamp, files, previous, scans, result, log_path, prev, exit, ghosts>>

EndScan(status) == pc' = "idle" /\ exit' = status

(* The scan, and what main() makes of its result: an empty one is neither  *)
(* compared nor written, and one that is that of the latest log only ends  *)
(* the program with another status.                                        *)
Scan ==
  /\ pc = "scan"
  /\ result' \in Results
  /\ \/ result' = <<>> /\ EndScan(0)
     \/ /\ result' # <<>>
        /\ IF SameEntries(ReadAll(latest), result') THEN EndScan(2)
           ELSE pc' = "create" /\ UNCHANGED exit
  /\ UNCHANGED <<stamp, dirVars, scans, log_path, prev, ghosts>>

(* portscan_log_serialize_to_dir(): fopenat(log_path, "w") also empties a  *)
(* log of that name.                                                       *)
CreateLog ==
  /\ pc = "create"
  /\ log_path' = stamp
  /\ files' = [files EXCEPT ![stamp] = <<>>]
  /\ meant' = [meant EXCEPT ![stamp] = result]
  /\ reused' = (reused \/ meant[stamp] # <<>>)
  /\ pc' = "write"
  /\ UNCHANGED <<stamp, latest, previous, scans, result, prev, exit>>

Written == Len(files[log_path])

(* One write() for every entry.                                            *)
WriteEntry ==
  /\ pc = "write"
  /\ Written < Len(result)
  /\ files' = [files EXCEPT ![log_path] = Append(@, result[Written + 1])]
  /\ UNCHANGED <<stamp, latest, previous, pc, scans, result, log_path, prev, exit, ghosts>>

(* Faulty: the links are moved first.                                      *)
AnythingWritten == Written > 0

AllWritten == Written = Len(result)

(* log_update_latest(): symlink_update() of libias reads a link, removes   *)
(* it and makes it anew, for the latest and then for the previous log.     *)
UnlinkLatest ==
  /\ pc = "write"
  /\ AllWritten
  /\ prev' = latest
  /\ latest' = Absent
  /\ pc' = "link_latest"
  /\ UNCHANGED <<stamp, files, previous, scans, result, log_path, exit, ghosts>>

(* Faulty: the previous link is left alone.                                *)
LinkLatestOnly ==
  /\ pc = "link_latest"
  /\ latest' = log_path
  /\ EndScan(0)
  /\ UNCHANGED <<stamp, files, previous, scans, result, log_path, prev, ghosts>>

LinkLatest ==
  /\ pc = "link_latest"
  /\ latest' = log_path
  /\ IF prev = Absent THEN EndScan(0)
     ELSE pc' = "unlink_previous" /\ UNCHANGED exit
  /\ UNCHANGED <<stamp, files, previous, scans, result, log_path, prev, ghosts>>

UnlinkPrevious ==
  /\ pc = "unlink_previous"
  /\ previous' = Absent
  /\ pc' = "link_previous"
  /\ UNCHANGED <<stamp, files, latest, scans, result, log_path, prev, exit, ghosts>>

(* Faulty: the previous link is moved to the new log.                      *)
LinkPreviousToNew ==
  /\ pc = "link_previous"
  /\ previous' = log_path
  /\ EndScan(0)
  /\ UNCHANGED <<stamp, files, latest, scans, result, log_path, prev, ghosts>>

LinkPrevious ==
  /\ pc = "link_previous"
  /\ previous' = prev
  /\ EndScan(0)
  /\ UNCHANGED <<stamp, files, latest, scans, result, log_path, prev, ghosts>>

(* A call fails and main() exits with err(), or the process is killed.     *)
Abort ==
  /\ pc # "idle"
  /\ EndScan(1)
  /\ UNCHANGED <<stamp, dirVars, scans, result, log_path, prev, ghosts>>

(* Time passes, or the ports tree is updated.                              *)
Tick ==
  /\ stamp < MaxStamp
  /\ stamp' = stamp + 1
  /\ UNCHANGED <<dirVars, pc, scans, result, log_path, prev, exit, ghosts>>

Rest == pc = "idle" /\ scans = MaxScans /\ UNCHANGED logvars

LogNext ==
  \/ Start \/ OpenPrevious \/ OpenLatest \/ Scan
  \/ CreateLog \/ WriteEntry
  \/ UnlinkLatest \/ LinkLatest \/ UnlinkPrevious \/ LinkPrevious
  \/ Abort \/ Tick \/ Rest

LogSpec == LogInit /\ [][LogNext]_logvars

-----------------------------------------------------------------------------
LogTypeOK ==
  /\ stamp \in Stamps
  /\ files \in [Stamps -> Seq(Entry)]
  /\ latest \in Links
  /\ previous \in Links
  /\ pc \in LogPlaces
  /\ scans \in 0 .. MaxScans
  /\ result \in Results \cup {<<>>}
  /\ log_path \in Stamps \cup {DevNull}
  /\ prev \in Links
  /\ exit \in 0 .. NotYet
  /\ meant \in [Stamps -> Seq(Entry)]
  /\ reused \in BOOLEAN

(* Whenever a scan is killed or fails, what the two links point to are     *)
(* complete logs: the entries of one scan, all of them, never the half of  *)
(* a log that was being written.                                           *)
LinkedLogsComplete ==
  ~reused => \A link \in {latest, previous} \cap Stamps :
               meant[link] # <<>> /\ files[link] = meant[link]

(* The previous log is older than the latest one, whatever link a scan     *)
(* that was killed has not moved.                                          *)
LinksInOrder ==
  ~reused /\ latest \in Stamps /\ previous \in Stamps => previous < latest

(* A scan that has written its log leaves the links at it and at the log   *)
(* that it was compared with, whatever scans before it have left behind.   *)
LogPublished ==
  exit = 0 /\ result # <<>> =>
    latest = log_path /\ previous = prev /\ (~reused => files[latest] = result)

(* No entry changes on its way through the file.                           *)
Readable(log) == \A i \in DOMAIN log : Len(log[i].origin) = 1

(* The log this scan was compared with.                                    *)
ComparedWith == IF exit = 2 THEN latest ELSE prev

(* The exit status says whether something has changed since the scan whose *)
(* log the latest link names, except that a scan of nothing always ends    *)
(* with 0 and one with an origin of several words never with 2.            *)
ExitStatus ==
  ~reused /\ pc = "idle" /\ exit \in {0, 2} =>
    (exit = 2 <=> /\ result # <<>>
                  /\ Readable(result)
                  /\ ComparedWith \in Stamps
                  /\ SameEntries(meant[ComparedWith], result))

(* The links point to the latest and to the previous log: two logs, once   *)
(* there are any.                                                          *)
LinksDiffer ==
  pc = "idle" /\ exit = 0 /\ latest \in Stamps => latest # previous
=============================================================================
