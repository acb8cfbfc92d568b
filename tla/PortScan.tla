------------------------------ MODULE PortScan ------------------------------
(***************************************************************************)
(* portscan.c from the start of the scan to the end of the program.  The   *)
(* main thread pushes one job per category on the work queue of libias,    *)
(* waits for all of them, collects the origins they found, and does the    *)
(* same with one job per origin.  Every job reports its path, does its     *)
(* work on data of its own, and counts itself.                             *)
(*                                                                         *)
(* The ports tree does not change while it is scanned, so what a job finds *)
(* is a function of its name: the tree is one of the records of Trees.     *)
(***************************************************************************)
EXTENDS ScanStatus, SequencesExt

CONSTANTS
  Trees  (* what may be scanned, and how                                  *)

(* given: the origins on the command line, or <<>> for the whole tree;     *)
(* root: what Makefile of the ports tree yields; category: what the        *)
(* Makefile of a category yields, the origins of its SUBDIR in order and   *)
(* the log entries it causes (an error leaves no origins; nonexistent,     *)
(* unhooked and unsorted ports); checks: any check of ports is asked for;  *)
(* defaults: what Mk/bsd.options.desc.mk yields, <<>> if it can be read;   *)
(* port: the entries of an origin, those of the checks up to the first     *)
(* one that fails.                                                         *)
Entries == {"error", "category", "finding"}
Listing == [origins : Seq(Names), entries : Seq(Entries)]
Tree == [given : Seq(Names), root : Listing, category : [Names -> Listing],
         checks : BOOLEAN, defaults : Seq(Entries), port : [Names -> Seq(Entries)]]

ASSUME TreesAssumption == Trees \subseteq Tree

VARIABLES
  tree,       (* the tree that is scanned                                *)
  phase,      (* where the main thread is: start, categories, scan,      *)
              (* ports, finish, ending or ended                          *)
  jobs,       (* the names of the jobs of this round                     *)
  pushed,     (* how many of them are in the work queue                  *)
  job,        (* the job a worker is at, 0 if it is idle                 *)
  done,       (* the jobs that have returned                             *)
  collected,  (* how many of the results of the ports are in the log     *)
  origins,    (* the ports to be scanned, sorted                         *)
  log         (* Seq of <<name, entry>>                                  *)

scanVars == <<tree, phase, jobs, pushed, job, done, collected, origins, log>>
vars == <<statusVars, scanVars>>

Idle == [t \in Workers |-> 0]
LogOf(name, entries) == [e \in DOMAIN entries |-> <<name, entries[e]>>]

(* The names in order: the i-th has fewer than i of them below it, and at  *)
(* least i that are not above it.                                          *)
Sorted(names) ==
  [i \in DOMAIN names |-> CHOOSE n \in ToSet(names) :
     /\ Cardinality({k \in DOMAIN names : names[k] < n}) < i
     /\ i <= Cardinality({k \in DOMAIN names : names[k] <= n})]

(* The root Makefile and Mk/bsd.options.desc.mk are named 0 in the log.    *)
TopLevel == NoName

ScanInit ==
  /\ StatusInit
  /\ tree \in Trees
  /\ phase = "start"
  /\ jobs = <<>>
  /\ pushed = 0
  /\ job = Idle
  /\ done = {}
  /\ collected = 0
  /\ origins = <<>>
  /\ log = <<>>

NewRound(names) ==
  /\ jobs' = names
  /\ pushed' = 0
  /\ done' = {}

-----------------------------------------------------------------------------
(* The main thread.                                                        *)

(* main() with origins on the command line.                                *)
TakeOrigins ==
  /\ phase = "start" /\ tree.given # <<>>
  /\ origins' = tree.given
  /\ Reset("ports", Len(origins')) /\ UNCHANGED at
  /\ phase' = "scan"
  /\ UNCHANGED <<tree, jobs, pushed, job, done, collected, log>>

(* lookup_origins() up to its loop.                                        *)
LookupCategories ==
  /\ phase = "start" /\ tree.given = <<>>
  /\ log' = LogOf(TopLevel, tree.root.entries)
  /\ NewRound(tree.root.origins)
  /\ Reset("categories", Len(jobs')) /\ UNCHANGED at
  /\ phase' = "categories"
  /\ UNCHANGED <<tree, job, collected, origins>>

(* workqueue_push(): a worker may take the job at once.                    *)
Push ==
  /\ phase \in {"categories", "ports"}
  /\ pushed < Len(jobs)
  /\ pushed' = pushed + 1
  /\ UNCHANGED <<statusVars, tree, phase, jobs, job, done, collected, origins, log>>

(* Faulty: the main thread does not wait.                                  *)
RoundPushed == pushed = Len(jobs)

(* workqueue_wait() returns.                                               *)
RoundOver == pushed = Len(jobs) /\ done = 1 .. pushed

(* What the main thread finds in the data of job k.                        *)
Listed(k) ==
  IF k \in done THEN tree.category[jobs[k]] ELSE [origins |-> <<>>, entries |-> <<>>]
Found(k) == IF k \in done THEN tree.port[jobs[k]] ELSE <<>>

(* The rest of lookup_origins(), and the reset for the next round.         *)
CollectCategories ==
  /\ phase = "categories" /\ RoundOver
  /\ log' = log \o FlattenSeq([k \in DOMAIN jobs |-> LogOf(jobs[k], Listed(k).entries)])
  /\ origins' = Sorted(FlattenSeq([k \in DOMAIN jobs |-> Listed(k).origins]))
  /\ Reset("ports", Len(origins')) /\ UNCHANGED at
  /\ phase' = "scan"
  /\ UNCHANGED <<tree, jobs, pushed, job, done, collected>>

(* scan_ports() up to its loop.                                            *)
ScanPorts ==
  /\ phase = "scan"
  /\ IF tree.checks
     THEN /\ log' = log \o LogOf(TopLevel, tree.defaults)
          /\ phase' = IF tree.defaults = <<>> THEN "ports" ELSE "finish"
     ELSE log' = log /\ phase' = "finish"
  /\ NewRound(IF phase' = "ports" THEN origins ELSE <<>>)
  /\ UNCHANGED <<statusVars, tree, job, collected, origins>>

(* One turn of the loop over the results: portscan_status_print(NULL) and  *)
(* the entries of one port.                                                *)
CollectPort ==
  /\ phase = "ports" /\ RoundOver
  /\ collected < Len(jobs)
  /\ at[Main] = "out"
  /\ at' = [at EXCEPT ![Main] = "usr2"]
  /\ collected' = collected + 1
  /\ log' = log \o LogOf(jobs[collected + 1], Found(collected + 1))
  /\ UNCHANGED <<roundVars, status_requested, alarm, pathVars, stderr, requests>>
  /\ UNCHANGED <<tree, phase, jobs, pushed, job, done, origins>>

ScanOver ==
  /\ phase = "ports" /\ RoundOver
  /\ collected = Len(jobs)
  /\ at[Main] = "out"
  /\ phase' = "finish"
  /\ UNCHANGED <<statusVars, tree, jobs, pushed, job, done, collected, origins, log>>

(* The end of main(): whatever becomes of the log, the last report is      *)
(* asked for and printed if reports are wanted regularly.                  *)
Finish ==
  /\ phase = "finish"
  /\ IF interval
     THEN /\ Reset("finished", 0)
          /\ at' = [at EXCEPT ![Main] = "usr2"]
          /\ phase' = "ending"
     ELSE phase' = "ended" /\ UNCHANGED statusVars
  /\ UNCHANGED <<tree, jobs, pushed, job, done, collected, origins, log>>

Return ==
  /\ phase = "ending" /\ at[Main] = "out"
  /\ phase' = "ended"
  /\ UNCHANGED <<statusVars, tree, jobs, pushed, job, done, collected, origins, log>>

MainPrints == PrintStep(Main) /\ UNCHANGED scanVars

MainStep ==
  \/ TakeOrigins \/ LookupCategories \/ Push \/ CollectCategories
  \/ ScanPorts \/ CollectPort \/ ScanOver \/ Finish \/ Return
  \/ MainPrints

-----------------------------------------------------------------------------
(* The workers.                                                            *)

(* lookup_origins_worker() or scan_port_worker() is called with a job of   *)
(* the queue, and reports its name.                                        *)
TakeJob(t) ==
  /\ job[t] = 0
  /\ \E k \in (1 .. pushed) \ done :
       /\ \A u \in Workers : job[u] # k
       /\ job' = [job EXCEPT ![t] = k]
       /\ TakeSlot(t, jobs[k])
  /\ UNCHANGED <<tree, phase, jobs, pushed, done, collected, origins, log>>

WorkerPrints(t) ==
  /\ job[t] # 0
  /\ CopyPath(t) \/ PrintStep(t)
  /\ UNCHANGED scanVars

(* Faulty: the early return of a port that cannot be read forgets to count. *)
CountUnlessError(k) ==
  scanned' = IF phase = "ports" /\ "error" \in ToSet(tree.port[jobs[k]])
             THEN scanned ELSE scanned + 1

(* portscan_status_inc(), which every return of the workers is behind.     *)
Count(k) == scanned' = scanned + 1

(* The work itself touches nothing another thread reads.                   *)
FinishJob(t) ==
  /\ job[t] # 0
  /\ at[t] = "out"
  /\ Count(job[t])
  /\ done' = done \cup {job[t]}
  /\ job' = [job EXCEPT ![t] = 0]
  /\ UNCHANGED <<interval, state, max_scanned, status_requested, alarm, pathVars,
                 at, stderr, requests>>
  /\ UNCHANGED <<tree, phase, jobs, pushed, collected, origins, log>>

WorkerStep(t) == TakeJob(t) \/ WorkerPrints(t) \/ FinishJob(t)

(* Signals reach the process until it has returned.                        *)
Signals == phase # "ended" /\ (AlarmGoesOff \/ UserAsks) /\ UNCHANGED scanVars

Ended == phase = "ended" /\ UNCHANGED vars

ScanNext ==
  \/ MainStep
  \/ \E t \in Workers : WorkerStep(t)
  \/ Signals
  \/ Ended

(* Threads are scheduled by the system: none that can go on waits forever. *)
ScanFairness == WF_vars(MainStep) /\ \A t \in Workers : WF_vars(WorkerStep(t))

ScanSpec == ScanInit /\ [][ScanNext]_vars
FairScanSpec == ScanSpec /\ ScanFairness

-----------------------------------------------------------------------------
(* A report never shows more than all of the jobs, and all of them once    *)
(* the round is over, whichever way out of its work a worker took.         *)
CountsEveryJob ==
  /\ scanned <= max_scanned
  /\ phase \in {"categories", "ports"} /\ RoundOver => scanned = max_scanned

(* The current paths are those of this round: no category is listed among  *)
(* the ports.                                                              *)
PathsOfThisRound ==
  phase \in {"categories", "ports"} =>
    \A s \in DOMAIN current_paths : current_paths[s] \subseteq ToSet(jobs)

(* state, max_scanned and the ring are written without synchronisation: no *)
(* worker is at a job when the main thread starts another round.           *)
ResetAlone ==
  [][state' # state => \A t \in Workers : job[t] = 0 /\ at[t] = "out"]_vars

(* What one thread would have found, port after port.                      *)
SequentialOrigins ==
  IF tree.given # <<>> THEN tree.given
  ELSE Sorted(FlattenSeq([c \in DOMAIN tree.root.origins |->
                            tree.category[tree.root.origins[c]].origins]))

CategoriesLog ==
  IF tree.given # <<>> THEN <<>>
  ELSE LogOf(TopLevel, tree.root.entries)
         \o FlattenSeq([c \in DOMAIN tree.root.origins |->
              LogOf(tree.root.origins[c], tree.category[tree.root.origins[c]].entries)])

PortsLog(n) ==
  FlattenSeq([p \in 1 .. n |-> LogOf(SequentialOrigins[p], tree.port[SequentialOrigins[p]])])

SequentialLog ==
  CategoriesLog \o
    IF ~tree.checks THEN <<>>
    ELSE IF tree.defaults # <<>> THEN LogOf(TopLevel, tree.defaults)
    ELSE PortsLog(Len(SequentialOrigins))

(* The log does not depend on the order in which the workers took and      *)
(* finished their jobs: comparing it with the log of the last scan makes   *)
(* sense.                                                                  *)
LogAsSequential == phase \in {"finish", "ending", "ended"} => log = SequentialLog

(* The scan ends: no thread waits for one that waits for it.               *)
ScanTerminates == <>(phase = "ended")

(* With regular reports the output ends with the line of the finished scan *)
(* and its newline ("End output with newline").                            *)
FinishedLineLast == phase = "ended" /\ interval => stderr = "finished"
=============================================================================
