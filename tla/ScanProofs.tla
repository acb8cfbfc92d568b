----------------------------- MODULE ScanProofs -----------------------------
(***************************************************************************)
(* What holds of the scan for every number of workers, slots, jobs and     *)
(* signals, and for every ports tree: which job a worker is at and when a  *)
(* report is due; in the second part, what a round counts, whose paths it  *)
(* shows and what it logs; and, in the third, which logs there are.        *)
(***************************************************************************)
EXTENDS PortScan, ScanLog, SequenceInduction, FiniteSetTheorems, SequenceTheorems

(* A worker that has a job is at one that was pushed and has not returned; *)
(* a worker without is not in the middle of a report.                      *)
AtJob(t) ==
  /\ job[t] # 0 => job[t] \in (1 .. pushed) \ done
  /\ job[t] = 0 => at[t] = "out"

(* No two workers are at the same job.                                     *)
JobsApart == \A t, u \in Workers : job[t] = job[u] /\ job[t] # 0 => t = u

(* Between the rounds no job is left.                                      *)
NoJobLeft == phase \notin {"categories", "ports"} => done = 1 .. pushed

ScanIInv ==
  /\ at \in [Threads -> Places]
  /\ job \in [Workers -> Nat]
  /\ \A t \in Workers : AtJob(t)
  /\ JobsApart
  /\ pushed \in Nat
  /\ NoJobLeft
  /\ ReportsContinue

-----------------------------------------------------------------------------
(* A step inside of a report moves one thread that was in one, and keeps   *)
(* the chain of the reports.                                               *)
LEMMA PrintStepSafe ==
  ASSUME at \in [Threads -> Places], ReportsContinue, NEW t \in Threads,
         PrintStep(t) \/ (t \in Workers /\ CopyPath(t))
  PROVE  /\ at' \in [Threads -> Places]
         /\ ReportsContinue'
         /\ at[t] # "out"
         /\ \A u \in Threads \ {t} : at'[u] = at[u]
         /\ state' = state
<1>1. CASE TakeUsr2(t)
  <2>1. PICK place \in {"paths", "alrm"} : at' = [at EXCEPT ![t] = place]
    BY <1>1 DEF TakeUsr2
  <2>2. /\ at' \in [Threads -> Places] /\ at[t] = "usr2" /\ state' = state
        /\ \A u \in Threads \ {t} : at'[u] = at[u]
    BY <1>1, <2>1 DEF TakeUsr2, Places, roundVars
  <2>3. ReportsContinue'
    <3>1. CASE status_requested = "usr2"
      BY <1>1, <3>1 DEF TakeUsr2, ReportsContinue
    <3>2. CASE status_requested # "usr2"
      BY <1>1, <2>2, <3>2 DEF TakeUsr2, ReportsContinue, roundVars
    <3> QED
      BY <3>1, <3>2
  <2> QED
    BY <2>2, <2>3
<1>2. CASE TakeAlrm(t)
  <2>1. PICK place \in {"report", "out"} : at' = [at EXCEPT ![t] = place]
    BY <1>2 DEF TakeAlrm
  <2>2. /\ at' \in [Threads -> Places] /\ at[t] = "alrm" /\ state' = state
        /\ \A u \in Threads \ {t} : at'[u] = at[u]
    BY <1>2, <2>1 DEF TakeAlrm, Places, roundVars
  <2>3. ReportsContinue'
    <3>1. CASE status_requested = "alrm"
      BY <1>2, <3>1 DEF TakeAlrm, ReportsContinue
    <3>2. CASE status_requested # "alrm"
      BY <1>2, <2>2, <3>2 DEF TakeAlrm, ReportsContinue, roundVars
    <3> QED
      BY <3>1, <3>2
  <2> QED
    BY <2>2, <2>3
<1>3. CASE PrintPaths(t)
  BY <1>3 DEF PrintPaths, ReportsContinue, Places, roundVars
<1>4. CASE PrintProgress(t)
  BY <1>4 DEF PrintProgress, ReportsContinue, Places, roundVars
<1>5. CASE t \in Workers /\ CopyPath(t)
  <2>1. /\ at' = [at EXCEPT ![t] = "usr2"] /\ at[t] = "copy"
        /\ UNCHANGED <<interval, state, alarm, status_requested>>
    BY <1>5 DEF CopyPath, roundVars
  <2> QED
    BY <2>1 DEF ReportsContinue, Places
<1> QED
  BY <1>1, <1>2, <1>3, <1>4, <1>5 DEF PrintStep

(* A reset asks for a report if reports are wanted regularly.              *)
LEMMA ResetContinues ==
  ASSUME NEW new_state, NEW max, Reset(new_state, max), ReportsContinue,
         UNCHANGED at \/ interval
  PROVE  ReportsContinue'
<1>1. CASE interval
  BY <1>1 DEF Reset, ReportsContinue
<1>2. CASE ~interval
  BY <1>2 DEF Reset, ReportsContinue
<1> QED
  BY <1>1, <1>2

(* Once all jobs of a round have returned the workers are idle.            *)
LEMMA IdleWhenDone ==
  ASSUME ScanIInv, done = 1 .. pushed
  PROVE  \A t \in Workers : job[t] = 0 /\ at[t] = "out"
  BY DEF ScanIInv, AtJob

-----------------------------------------------------------------------------
LEMMA ScanInitSafe == ScanInit => ScanIInv
<1> SUFFICES ASSUME ScanInit
             PROVE  ScanIInv
  OBVIOUS
<1>1. at \in [Threads -> Places] /\ ReportsContinue
  BY DEF ScanInit, StatusInit, Places, ReportsContinue
<1>2. job \in [Workers -> Nat] /\ pushed \in Nat /\ \A t \in Workers : AtJob(t)
  BY DEF ScanInit, StatusInit, Idle, AtJob, Threads
<1>3. NoJobLeft /\ JobsApart
  BY DEF ScanInit, NoJobLeft, JobsApart, Idle
<1> QED
  BY <1>1, <1>2, <1>3 DEF ScanIInv

(* The main thread opens a round: no worker has a job, then or now.        *)
LEMMA NewRoundSafe ==
  ASSUME ScanIInv, done = 1 .. pushed, NEW names, NewRound(names),
         UNCHANGED <<at, job>>
  PROVE  /\ \A t \in Workers : AtJob(t)'
         /\ pushed' \in Nat
         /\ NoJobLeft'
<1>1. \A t \in Workers : job[t] = 0 /\ at[t] = "out"
  BY IdleWhenDone
<1> QED
  BY <1>1 DEF NewRound, AtJob, NoJobLeft

LEMMA MainStepSafe ==
  ASSUME ScanIInv, MainStep
  PROVE  ScanIInv'
<1> USE DEF ScanIInv, JobsApart
<1>1. CASE TakeOrigins
  <2>1. UNCHANGED <<at, job, pushed, done>> /\ phase = "start" /\ phase' = "scan"
    BY <1>1 DEF TakeOrigins
  <2>2. ReportsContinue'
    BY <1>1, <2>1, ResetContinues DEF TakeOrigins
  <2> QED
    BY <2>1, <2>2 DEF AtJob, NoJobLeft
<1>2. CASE LookupCategories
  <2>1. UNCHANGED <<at, job>> /\ phase = "start" /\ NewRound(tree.root.origins)
    BY <1>2 DEF LookupCategories
  <2>2. ReportsContinue'
    BY <1>2, <2>1, ResetContinues DEF LookupCategories
  <2>3. done = 1 .. pushed
    BY <2>1 DEF NoJobLeft
  <2> QED
    BY <2>1, <2>2, <2>3, NewRoundSafe
<1>3. CASE Push
  <2>1. /\ UNCHANGED <<statusVars, phase, job, done>> /\ pushed' = pushed + 1
        /\ phase \in {"categories", "ports"}
    BY <1>3 DEF Push
  <2>2. 1 .. pushed \subseteq 1 .. (pushed + 1) /\ pushed' \in Nat
    BY <2>1
  <2>3. \A t \in Workers : AtJob(t)'
    BY <2>1, <2>2 DEF AtJob, statusVars
  <2> QED
    BY <2>1, <2>2, <2>3 DEF NoJobLeft, ReportsContinue, statusVars
<1>4. CASE CollectCategories
  <2>1. UNCHANGED <<at, job, pushed, done>> /\ done = 1 .. pushed
    BY <1>4 DEF CollectCategories, RoundOver
  <2>2. ReportsContinue'
    BY <1>4, <2>1, ResetContinues DEF CollectCategories
  <2> QED
    BY <2>1, <2>2 DEF AtJob, NoJobLeft
<1>5. CASE ScanPorts
  <2>1. UNCHANGED <<at, job, statusVars>> /\ phase = "scan"
    BY <1>5 DEF ScanPorts, statusVars
  <2>2. PICK names : NewRound(names)
    BY <1>5 DEF ScanPorts
  <2>3. done = 1 .. pushed
    BY <2>1 DEF NoJobLeft
  <2>4. ReportsContinue'
    BY <2>1 DEF ReportsContinue, statusVars
  <2> QED
    BY <2>1, <2>2, <2>3, <2>4, NewRoundSafe
<1>6. CASE CollectPort
  <2>1. /\ UNCHANGED <<job, pushed, done, phase, interval, alarm, status_requested>>
        /\ at' = [at EXCEPT ![Main] = "usr2"] /\ at[Main] = "out"
    BY <1>6 DEF CollectPort, roundVars
  <2>2. \A t \in Workers : at'[t] = at[t]
    BY <2>1, MainAssumption DEF Threads
  <2>3. \A t \in Workers : AtJob(t)'
    BY <2>1, <2>2 DEF AtJob
  <2>4. at' \in [Threads -> Places]
    BY <2>1 DEF Places
  <2>5. ReportsContinue'
    BY <2>1 DEF ReportsContinue
  <2> QED
    BY <2>1, <2>3, <2>4, <2>5 DEF NoJobLeft
<1>7. CASE ScanOver
  <2>1. UNCHANGED <<statusVars, job, pushed, done>> /\ done = 1 .. pushed
    BY <1>7 DEF ScanOver, RoundOver
  <2> QED
    BY <2>1 DEF AtJob, NoJobLeft, ReportsContinue, statusVars
<1>8. CASE Finish
  <2>1. /\ UNCHANGED <<job, pushed, done>>
        /\ phase = "finish" /\ phase' \in {"ending", "ended"}
    BY <1>8 DEF Finish
  <2>2. NoJobLeft'
    BY <2>1 DEF NoJobLeft
  <2>3. CASE interval
    <3>1. Reset("finished", 0) /\ at' = [at EXCEPT ![Main] = "usr2"]
      BY <1>8, <2>3 DEF Finish
    <3>2. at' \in [Threads -> Places] /\ \A t \in Workers : at'[t] = at[t]
      BY <3>1, MainAssumption DEF Threads, Places
    <3>3. ReportsContinue'
      BY <2>3, <3>1, ResetContinues
    <3> QED
      BY <2>1, <2>2, <3>2, <3>3 DEF AtJob
  <2>4. CASE ~interval
    <3>1. UNCHANGED statusVars
      BY <1>8, <2>4 DEF Finish
    <3> QED
      BY <2>1, <2>2, <3>1 DEF AtJob, ReportsContinue, statusVars
  <2> QED
    BY <2>3, <2>4
<1>9. CASE Return
  <2>1. UNCHANGED <<statusVars, job, pushed, done>> /\ phase = "ending"
    BY <1>9 DEF Return
  <2> QED
    BY <2>1 DEF AtJob, NoJobLeft, ReportsContinue, statusVars
<1>10. CASE MainPrints
  <2>1. PrintStep(Main) /\ UNCHANGED scanVars /\ Main \in Threads
    BY <1>10 DEF MainPrints, Threads
  <2>2. /\ at' \in [Threads -> Places] /\ ReportsContinue'
        /\ \A u \in Threads \ {Main} : at'[u] = at[u]
    BY <2>1, PrintStepSafe
  <2>3. \A t \in Workers : AtJob(t)'
    BY <2>1, <2>2, MainAssumption DEF AtJob, Threads, scanVars
  <2> QED
    BY <2>1, <2>2, <2>3 DEF NoJobLeft, scanVars
<1> QED
  BY <1>1, <1>2, <1>3, <1>4, <1>5, <1>6, <1>7, <1>8, <1>9, <1>10 DEF MainStep

LEMMA WorkerStepSafe ==
  ASSUME ScanIInv, NEW t \in Workers, WorkerStep(t)
  PROVE  ScanIInv' /\ state' = state
<1> USE DEF ScanIInv
<1>1. CASE TakeJob(t)
  <2>1. PICK k \in (1 .. pushed) \ done :
          job' = [job EXCEPT ![t] = k] /\ TakeSlot(t, jobs[k])
    BY <1>1 DEF TakeJob
  <2>2. /\ UNCHANGED <<pushed, done, phase, state, interval, alarm, status_requested>>
        /\ at' = [at EXCEPT ![t] = "copy"] /\ at[t] = "out"
    BY <1>1, <2>1 DEF TakeJob, TakeSlot, roundVars
  <2>3. at' \in [Threads -> Places] /\ job' \in [Workers -> Nat]
    <3>1. k \in Nat
      BY <2>1
    <3> QED
      BY <2>1, <2>2, <3>1 DEF Places
  <2>4. \A u \in Workers : AtJob(u)'
    BY <2>1, <2>2, <2>3 DEF AtJob, Threads
  <2>5. ReportsContinue'
    BY <2>2 DEF ReportsContinue
  <2>6. JobsApart'
    <3>1. \A u \in Workers : job[u] # k
      BY <1>1, <2>1 DEF TakeJob
    <3> QED
      BY <2>1, <3>1 DEF JobsApart
  <2> QED
    BY <2>2, <2>3, <2>4, <2>5, <2>6 DEF NoJobLeft
<1>2. CASE WorkerPrints(t)
  <2>1. /\ PrintStep(t) \/ (t \in Workers /\ CopyPath(t))
        /\ UNCHANGED scanVars /\ t \in Threads
    BY <1>2 DEF WorkerPrints, Threads
  <2>2. /\ at' \in [Threads -> Places] /\ ReportsContinue' /\ state' = state
        /\ at[t] # "out" /\ \A u \in Threads \ {t} : at'[u] = at[u]
    BY <2>1, PrintStepSafe
  <2>3. \A u \in Workers : AtJob(u)'
    BY <2>1, <2>2 DEF AtJob, Threads, scanVars
  <2> QED
    BY <2>1, <2>2, <2>3 DEF NoJobLeft, JobsApart, scanVars
<1>3. CASE FinishJob(t)
  <2>1. /\ job[t] # 0 /\ at[t] = "out" /\ done' = done \cup {job[t]}
        /\ job' = [job EXCEPT ![t] = 0]
        /\ UNCHANGED <<state, at, interval, alarm, status_requested, pushed, phase>>
    BY <1>3 DEF FinishJob
  <2>2. job' \in [Workers -> Nat] /\ JobsApart'
    BY <2>1 DEF JobsApart
  <2>3. ASSUME NEW u \in Workers
        PROVE  AtJob(u)'
    <3>1. u # t /\ job[u] # 0 => job[u] # job[t]
      BY <2>1 DEF JobsApart
    <3> QED
      BY <2>1, <3>1 DEF AtJob
  <2>4. NoJobLeft' /\ ReportsContinue'
    <3>1. job[t] \in 1 .. pushed
      BY <2>1 DEF AtJob
    <3> QED
      BY <2>1, <3>1 DEF NoJobLeft, ReportsContinue
  <2> QED
    BY <2>1, <2>2, <2>3, <2>4
<1> QED
  BY <1>1, <1>2, <1>3 DEF WorkerStep

LEMMA ScanNextSafe == ScanIInv /\ [ScanNext]_vars => ScanIInv'
<1> SUFFICES ASSUME ScanIInv, [ScanNext]_vars
             PROVE  ScanIInv'
  OBVIOUS
<1>1. CASE MainStep
  BY <1>1, MainStepSafe
<1>2. CASE \E t \in Workers : WorkerStep(t)
  BY <1>2, WorkerStepSafe
<1>3. CASE Signals
  <2>1. UNCHANGED <<at, job, pushed, done, phase>> /\ status_requested' # "none"
    BY <1>3 DEF Signals, scanVars, AlarmGoesOff, UserAsks
  <2> QED
    BY <2>1 DEF ScanIInv, AtJob, JobsApart, NoJobLeft, ReportsContinue
<1>4. CASE UNCHANGED vars
  BY <1>4 DEF vars, statusVars, scanVars, ScanIInv, AtJob, JobsApart, NoJobLeft,
              ReportsContinue
<1> QED
  BY <1>1, <1>2, <1>3, <1>4 DEF ScanNext, Ended

(* What workers and main thread know of each other is kept by every step.  *)
THEOREM WorkersStayAtJobs == ScanSpec => []ScanIInv
<1>1. ScanInit => ScanIInv
  BY ScanInitSafe
<1>2. ScanIInv /\ [ScanNext]_vars => ScanIInv'
  BY ScanNextSafe
<1> QED
  BY <1>1, <1>2, PTL DEF ScanSpec

-----------------------------------------------------------------------------
(* The chain of the regular reports never breaks, with any number of       *)
(* workers and of signals.                                                 *)
THEOREM ReportsAlwaysContinue == ScanSpec => []ReportsContinue
<1>1. ScanIInv => ReportsContinue
  BY DEF ScanIInv
<1> QED
  BY <1>1, WorkersStayAtJobs, PTL

(* A round of portscan is opened with every worker idle: the unguarded     *)
(* assignments of portscan_status_reset() race with nothing.               *)
THEOREM ResetsAlone == ScanSpec => ResetAlone
<1> DEFINE Alone == state' # state => \A t \in Workers : job[t] = 0 /\ at[t] = "out"
<1>1. ScanIInv /\ [ScanNext]_vars => [Alone]_vars
  <2> SUFFICES ASSUME ScanIInv, [ScanNext]_vars, state' # state
               PROVE  \A t \in Workers : job[t] = 0 /\ at[t] = "out"
    OBVIOUS
  <2>1. done = 1 .. pushed
    <3>1. MainStep
      <4>1. ~Signals /\ ~UNCHANGED vars
        BY DEF Signals, AlarmGoesOff, UserAsks, roundVars, vars, statusVars
      <4>2. ~\E t \in Workers : WorkerStep(t)
        BY WorkerStepSafe
      <4> QED
        BY <4>1, <4>2 DEF ScanNext, Ended
    <3>2. ~Push /\ ~ScanPorts /\ ~CollectPort /\ ~ScanOver /\ ~Return
      BY DEF Push, ScanPorts, CollectPort, ScanOver, Return, statusVars, roundVars
    <3>3. ~MainPrints
      BY PrintStepSafe DEF MainPrints, ScanIInv, Threads
    <3>4. \/ phase \in {"start", "finish"}
          \/ RoundOver
      BY <3>1, <3>2, <3>3 DEF MainStep, TakeOrigins, LookupCategories,
                              CollectCategories, Finish
    <3> QED
      BY <3>4 DEF ScanIInv, NoJobLeft, RoundOver
  <2> QED
    BY <2>1, IdleWhenDone
<1> QED
  BY <1>1, WorkersStayAtJobs, PTL DEF ScanSpec, ResetAlone

-----------------------------------------------------------------------------
(* What a listing adds to the log.                                         *)
LogEntry == Nat \X Entries

Round == {"categories", "ports"}
Over == {"finish", "ending", "ended"}

RoundTyped ==
  /\ tree \in Tree
  /\ phase \in Round \cup Over \cup {"start", "scan"}
  /\ jobs \in Seq(Names)
  /\ origins \in Seq(Names)
  /\ done \subseteq 1 .. pushed
  /\ pushed <= Len(jobs)

(* A job is counted when it is done.                                       *)
Counted ==
  /\ scanned \in Nat /\ max_scanned \in Nat
  /\ scanned <= max_scanned
  /\ phase \in Round => scanned = Cardinality(done) /\ max_scanned = Len(jobs)
  /\ phase = "scan" => scanned = 0 /\ max_scanned = Len(origins)

(* What is in the ring, or on its way there, is a job of this round.       *)
Current ==
  /\ next_slot \in Nat
  /\ copy \in [Workers -> [slot : Nat, name : Nat, mixed : SUBSET Nat]]
  /\ phase = "scan" => \A s \in DOMAIN current_paths : current_paths[s] = {}
  /\ phase \in Round =>
       /\ \A s \in DOMAIN current_paths : current_paths[s] \subseteq ToSet(jobs)
       /\ \A t \in Workers : at[t] = "copy" =>
            copy[t].name \in ToSet(jobs) /\ copy[t].mixed \subseteq ToSet(jobs)

(* The log so far is the beginning of the sequential one.                  *)
Logged ==
  /\ phase = "start" => log = <<>>
  /\ phase \in {"start", "categories", "scan"} => collected = 0
  /\ phase = "categories" =>
       /\ tree.given = <<>>
       /\ jobs = tree.root.origins
       /\ log = LogOf(TopLevel, tree.root.entries)
  /\ phase = "scan" => log = CategoriesLog /\ origins = SequentialOrigins
  /\ phase = "ports" =>
       /\ tree.checks /\ tree.defaults = <<>>
       /\ jobs = SequentialOrigins
       /\ collected \in 0 .. Len(jobs)
       /\ log = CategoriesLog \o PortsLog(collected)
  /\ phase \in Over => log = SequentialLog

RoundIInv == RoundTyped /\ Counted /\ Current /\ Logged

-----------------------------------------------------------------------------
(* No name of a sequence is above some number.                             *)
LEMMA NamesBounded ==
  ASSUME NEW names \in Seq(Nat)
  PROVE  \E max \in Nat : \A k \in DOMAIN names : names[k] <= max
<1> DEFINE S == {l \in Nat : l <= Len(names) =>
                   \E max \in Nat : \A k \in 1 .. l : names[k] <= max}
<1>1. 0 \in S
  OBVIOUS
<1>2. ASSUME NEW l \in Nat, l \in S
      PROVE  l + 1 \in S
  <2> SUFFICES ASSUME l + 1 <= Len(names)
               PROVE  \E max \in Nat : \A k \in 1 .. (l + 1) : names[k] <= max
    OBVIOUS
  <2>1. PICK max \in Nat : \A k \in 1 .. l : names[k] <= max
    BY <1>2
  <2>2. names[l + 1] \in Nat /\ \A k \in 1 .. l : names[k] \in Nat
    OBVIOUS
  <2>3. \A k \in 1 .. (l + 1) : names[k] <= max + names[l + 1]
    <3> TAKE k \in 1 .. (l + 1)
    <3>1. CASE k = l + 1
      BY <2>2, <3>1
    <3>2. CASE k # l + 1
      <4>1. k \in 1 .. l
        BY <3>2
      <4>2. names[k] <= max /\ names[k] \in Nat
        BY <2>1, <2>2, <4>1
      <4> QED
        BY <2>2, <4>2
    <3> QED
      BY <3>1, <3>2
  <2>4. max + names[l + 1] \in Nat
    BY <2>2
  <2> QED
    BY <2>3, <2>4
<1>3. \A l \in Nat : l \in S
  <2> HIDE DEF S
  <2> QED
    BY <1>1, <1>2, SetInduction
<1>4. Len(names) \in Nat /\ DOMAIN names = 1 .. Len(names)
  OBVIOUS
<1>5. \E max \in Nat : \A k \in 1 .. Len(names) : names[k] <= max
  <2> DEFINE l == Len(names)
  <2>1. l \in Nat /\ l <= Len(names)
    BY <1>4
  <2> HIDE DEF l
  <2>2. \E max \in Nat : \A k \in 1 .. l : names[k] <= max
    BY <1>3, <2>1
  <2> QED
    BY <2>2 DEF l
<1> QED
  BY <1>4, <1>5

(* The first n indices are n.                                              *)
LEMMA IndicesCounted ==
  ASSUME NEW n \in Nat
  PROVE  Cardinality(1 .. n) = n
  BY FS_Interval

(* The jobs that are done can be counted.                                  *)
LEMMA IndicesFinite ==
  ASSUME NEW n \in Nat, NEW S, S \subseteq 1 .. n
  PROVE  IsFiniteSet(S) /\ Cardinality(S) \in Nat /\ Cardinality(S) <= n
<1>1. IsFiniteSet(1 .. n) /\ Cardinality(1 .. n) = n
  BY FS_Interval, IndicesCounted
<1> QED
  BY <1>1, FS_Subset, FS_CardinalityType

(* Some name has its place at i: fewer than i names are below it.          *)
LEMMA RankTaken ==
  ASSUME NEW names \in Seq(Nat), NEW i \in DOMAIN names
  PROVE  \E n \in ToSet(names) :
           /\ Cardinality({k \in DOMAIN names : names[k] < n}) < i
           /\ i <= Cardinality({k \in DOMAIN names : names[k] <= n})
<1> DEFINE UpTo(n) == {k \in DOMAIN names : names[k] <= n}
           Below1(n) == {k \in DOMAIN names : names[k] < n}
           High == {n \in Nat : i <= Cardinality(UpTo(n))}
<1>1. /\ DOMAIN names = 1 .. Len(names) /\ Len(names) \in Nat
      /\ \A k \in DOMAIN names : names[k] \in Nat
      /\ i \in Nat /\ 0 < i /\ i <= Len(names)
  OBVIOUS
<1>2. \A n \in Nat : Cardinality(UpTo(n)) \in Nat /\ Cardinality(Below1(n)) \in Nat
  BY <1>1, IndicesFinite
<1>3. PICK max \in Nat : \A k \in DOMAIN names : names[k] <= max
  BY NamesBounded
<1>4. UpTo(max) = 1 .. Len(names)
  BY <1>1, <1>3
<1>5. max \in High
  <2>1. Cardinality(1 .. Len(names)) = Len(names)
    BY <1>1, IndicesCounted
  <2> QED
    BY <1>1, <1>4, <2>1
<1>6. PICK n \in High : \A m \in High : ~(m < n)
  <2>1. High \subseteq Nat /\ High # {}
    BY <1>5
  <2> HIDE DEF High
  <2> QED
    BY <2>1, LeastNatural
<1>7. Cardinality(Below1(n)) < i
  <2>1. CASE n = 0
    <3>1. Below1(n) = {}
      BY <1>1, <2>1
    <3>2. Cardinality({}) = 0
      BY FS_EmptySet
    <3> QED
      BY <1>1, <3>1, <3>2
  <2>2. CASE n # 0
    <3>1. n - 1 \in Nat /\ n - 1 < n
      BY <2>2
    <3>2. n - 1 \notin High
      BY <1>6, <3>1
    <3>3. Below1(n) = UpTo(n - 1)
      BY <1>1, <3>1
    <3>4. ~(i <= Cardinality(UpTo(n - 1))) /\ Cardinality(UpTo(n - 1)) \in Nat
      BY <1>2, <3>1, <3>2
    <3> HIDE DEF UpTo, Below1, High
    <3> QED
      BY <1>1, <3>3, <3>4
  <2> QED
    BY <2>1, <2>2
<1>8. i <= Cardinality(UpTo(n)) /\ n \in Nat
  OBVIOUS
<1>9. n \in ToSet(names)
  <2>1. ASSUME \A k \in DOMAIN names : names[k] # n
        PROVE  FALSE
    <3>1. UpTo(n) = Below1(n)
      BY <1>1, <1>8, <2>1
    <3> HIDE DEF UpTo, Below1, High
    <3> QED
      BY <1>1, <1>2, <1>7, <1>8, <3>1
  <2> QED
    BY <2>1 DEF ToSet
<1> QED
  BY <1>7, <1>8, <1>9

(* What is sorted is a sequence of the same length over the same names.    *)
LEMMA SortedType ==
  ASSUME NEW names \in Seq(Names)
  PROVE  Sorted(names) \in Seq(Names) /\ Len(Sorted(names)) = Len(names)
<1>1. names \in Seq(Nat)
  <2>1. Names \subseteq Nat
    BY NamesAssumption
  <2> QED
    BY <2>1, SeqMonotonic
<1>2. ToSet(names) \subseteq Names
  BY DEF ToSet
<1>3. \A i \in DOMAIN names :
        (CHOOSE n \in ToSet(names) :
           /\ Cardinality({k \in DOMAIN names : names[k] < n}) < i
           /\ i <= Cardinality({k \in DOMAIN names : names[k] <= n})) \in Names
  <2> TAKE i \in DOMAIN names
  <2>1. \E n \in ToSet(names) :
           /\ Cardinality({k \in DOMAIN names : names[k] < n}) < i
           /\ i <= Cardinality({k \in DOMAIN names : names[k] <= n})
    BY <1>1, RankTaken
  <2> QED
    BY <1>2, <2>1
<1>4. Sorted(names) \in [DOMAIN names -> Names]
  BY <1>3 DEF Sorted
<1>5. DOMAIN names = 1 .. Len(names) /\ Len(names) \in Nat
  OBVIOUS
<1> QED
  BY <1>4, <1>5

-----------------------------------------------------------------------------
(* The listings of a tree are sequences of names and of entries.           *)
LEMMA TreeTyped ==
  ASSUME tree \in Tree
  PROVE  /\ tree.given \in Seq(Names)
         /\ tree.root.origins \in Seq(Names) /\ tree.root.entries \in Seq(Entries)
         /\ tree.defaults \in Seq(Entries) /\ tree.checks \in BOOLEAN
         /\ \A n \in Names : /\ tree.category[n].origins \in Seq(Names)
                            /\ tree.category[n].entries \in Seq(Entries)
                            /\ tree.port[n] \in Seq(Entries)
  BY DEF Tree, Listing

(* What a listing logs is a sequence of log entries.                       *)
LEMMA LogOfType ==
  ASSUME NEW name \in Nat, NEW entries \in Seq(Entries)
  PROVE  /\ LogOf(name, entries) \in Seq(LogEntry)
         /\ entries = <<>> => LogOf(name, entries) = <<>>
  BY DEF LogOf, LogEntry

(* Ports and categories are numbered, so they have an order.               *)
LEMMA NameIsNat ==
  /\ \A n \in Names : n \in Nat
  /\ TopLevel \in Nat
  BY NamesAssumption DEF TopLevel, NoName

(* A function of the jobs of a sequence is a sequence.                     *)
LEMMA MappedOrigins ==
  ASSUME tree \in Tree, NEW names \in Seq(Names)
  PROVE  [k \in DOMAIN names |-> tree.category[names[k]].origins] \in Seq(Seq(Names))
<1>1. \A k \in DOMAIN names : tree.category[names[k]].origins \in Seq(Names)
  BY TreeTyped
<1> QED
  BY <1>1

(* What is logged for each job of a sequence is a sequence.                *)
LEMMA MappedEntries ==
  ASSUME tree \in Tree, NEW names \in Seq(Names)
  PROVE  [k \in DOMAIN names |-> LogOf(names[k], tree.category[names[k]].entries)]
           \in Seq(Seq(LogEntry))
<1>1. \A k \in DOMAIN names : LogOf(names[k], tree.category[names[k]].entries) \in Seq(LogEntry)
  <2> TAKE k \in DOMAIN names
  <2>1. names[k] \in Names /\ names[k] \in Nat
    BY NameIsNat
  <2>2. tree.category[names[k]].entries \in Seq(Entries)
    BY <2>1, TreeTyped
  <2> QED
    BY <2>1, <2>2, LogOfType
<1> QED
  BY <1>1

(* What a single thread finds is a sequence of names, and its log a        *)
(* sequence.                                                               *)
LEMMA SequentialType ==
  ASSUME tree \in Tree
  PROVE  SequentialOrigins \in Seq(Names) /\ CategoriesLog \in Seq(LogEntry)
<1> DEFINE found == [c \in DOMAIN tree.root.origins |->
                       tree.category[tree.root.origins[c]].origins]
           listed == [c \in DOMAIN tree.root.origins |->
                        LogOf(tree.root.origins[c], tree.category[tree.root.origins[c]].entries)]
<1>1. /\ tree.given \in Seq(Names)
      /\ found \in Seq(Seq(Names)) /\ listed \in Seq(Seq(LogEntry))
      /\ LogOf(TopLevel, tree.root.entries) \in Seq(LogEntry)
  BY TreeTyped, MappedOrigins, MappedEntries, LogOfType, NameIsNat
<1> HIDE DEF found, listed
<1>2. Sorted(FlattenSeq(found)) \in Seq(Names) /\ FlattenSeq(listed) \in Seq(LogEntry)
  BY <1>1, FlattenType, SortedType
<1>3. SequentialOrigins \in Seq(Names)
  BY <1>1, <1>2 DEF SequentialOrigins, found
<1>4. CategoriesLog \in Seq(LogEntry)
  <2>1. CASE tree.given # <<>>
    BY <2>1 DEF CategoriesLog
  <2>2. CASE tree.given = <<>>
    <3>1. CategoriesLog = LogOf(TopLevel, tree.root.entries) \o FlattenSeq(listed)
      BY <2>2 DEF CategoriesLog, listed
    <3> QED
      BY <1>1, <1>2, <3>1, ConcatProperties
  <2> QED
    BY <2>1, <2>2
<1> QED
  BY <1>3, <1>4

(* The log of one more port is appended behind the ports before it.        *)
LEMMA PortsLogNext ==
  ASSUME tree \in Tree
  PROVE  /\ PortsLog(0) = <<>>
         /\ \A n \in 0 .. Len(SequentialOrigins) : PortsLog(n) \in Seq(LogEntry)
         /\ \A n \in 0 .. (Len(SequentialOrigins) - 1) :
              PortsLog(n + 1) =
                PortsLog(n) \o LogOf(SequentialOrigins[n + 1],
                                     tree.port[SequentialOrigins[n + 1]])
<1> DEFINE ports == SequentialOrigins
           F(n) == [p \in 1 .. n |-> LogOf(ports[p], tree.port[ports[p]])]
<1>1. ports \in Seq(Names) /\ Len(ports) \in Nat
  BY SequentialType
<1> HIDE DEF ports
<1>2. \A p \in 1 .. Len(ports) : LogOf(ports[p], tree.port[ports[p]]) \in Seq(LogEntry)
  <2> TAKE p \in 1 .. Len(ports)
  <2>1. ports[p] \in Names /\ ports[p] \in Nat
    BY <1>1, NameIsNat
  <2>2. tree.port[ports[p]] \in Seq(Entries)
    BY <2>1, TreeTyped
  <2> QED
    BY <2>1, <2>2, LogOfType
<1>3. \A n \in 0 .. Len(ports) :
        /\ F(n) \in Seq(Seq(LogEntry)) /\ Len(F(n)) = n
        /\ \A p \in 1 .. n : F(n)[p] = LogOf(ports[p], tree.port[ports[p]])
  BY <1>1, <1>2
<1>4. \A n : PortsLog(n) = FlattenSeq(F(n))
  BY DEF PortsLog, ports
<1> HIDE DEF F
<1>5. PortsLog(0) = <<>>
  <2>1. 0 \in 0 .. Len(ports)
    BY <1>1
  <2>2. F(0) = <<>> /\ Len(F(0)) = 0
    BY <1>3, <2>1
  <2> QED
    BY <1>4, <2>2 DEF FlattenSeq
<1>6. \A n \in 0 .. Len(ports) : PortsLog(n) \in Seq(LogEntry)
  BY <1>3, <1>4, FlattenType
<1>7. ASSUME NEW n \in 0 .. (Len(ports) - 1)
      PROVE  PortsLog(n + 1) = PortsLog(n) \o LogOf(ports[n + 1], tree.port[ports[n + 1]])
  <2>1. /\ n \in 0 .. Len(ports) /\ n + 1 \in 0 .. Len(ports) /\ n + 1 \in 1 .. (n + 1)
        /\ \A p \in 1 .. n : p \in 1 .. (n + 1)
    BY <1>1
  <2>2. /\ F(n) \in Seq(Seq(LogEntry)) /\ F(n + 1) \in Seq(Seq(LogEntry))
        /\ Len(F(n + 1)) = n + 1 /\ Len(F(n)) = n
        /\ \A p \in 1 .. n : F(n + 1)[p] = F(n)[p]
        /\ F(n + 1)[n + 1] = LogOf(ports[n + 1], tree.port[ports[n + 1]])
    BY <1>3, <2>1
  <2>3. FlattenSeq(F(n + 1)) = FlattenSeq(F(n)) \o F(n + 1)[n + 1]
    BY <2>2, FlattenNext
  <2> QED
    BY <1>4, <2>2, <2>3
<1> QED
  BY <1>5, <1>6, <1>7 DEF ports

-----------------------------------------------------------------------------
(* At the start nothing is counted, shown or logged.                       *)
LEMMA RoundInitSafe == ScanInit => RoundIInv
<1> SUFFICES ASSUME ScanInit
             PROVE  RoundIInv
  OBVIOUS
<1>1. RoundTyped
  BY TreesAssumption DEF ScanInit, RoundTyped, Round, Over
<1>2. Counted /\ Logged
  BY DEF ScanInit, StatusInit, Counted, Logged, Round, Over
<1>3. Current
  BY DEF ScanInit, StatusInit, Current, Round, NoName
<1> QED
  BY <1>1, <1>2, <1>3 DEF RoundIInv

(* What prints reports, and what signals do, is of no consequence.         *)
LEMMA QuietSafe ==
  ASSUME RoundIInv, UNCHANGED <<scanned, max_scanned, pathVars, scanVars>>,
         \A t \in Workers : at'[t] = "copy" => at[t] = "copy"
  PROVE  RoundIInv'
<1>1. RoundTyped'
  BY DEF RoundIInv, RoundTyped, scanVars
<1>2. Counted'
  BY DEF RoundIInv, Counted, scanVars
<1>3. Current'
  BY DEF RoundIInv, Current, scanVars, pathVars
<1>4. Logged'
  BY DEF RoundIInv, Logged, scanVars, SequentialLog, CategoriesLog, PortsLog, SequentialOrigins
<1> QED
  BY <1>1, <1>2, <1>3, <1>4 DEF RoundIInv

(* A step of a report counts nothing and logs nothing.                     *)
LEMMA PrintStepQuiet ==
  ASSUME ScanIInv, NEW t \in Threads, PrintStep(t)
  PROVE  /\ UNCHANGED <<scanned, max_scanned, pathVars>>
         /\ \A u \in Workers : at'[u] = "copy" => at[u] = "copy"
<1>1. UNCHANGED <<scanned, max_scanned, pathVars>>
  BY DEF PrintStep, TakeUsr2, TakeAlrm, PrintPaths, PrintProgress, roundVars
<1>2. \E place \in {"paths", "alrm", "report", "out"} : at' = [at EXCEPT ![t] = place]
  BY DEF PrintStep, TakeUsr2, TakeAlrm, PrintPaths, PrintProgress
<1> QED
  BY <1>1, <1>2 DEF ScanIInv, Threads

(* The log and the tree that were looked at stay.                          *)
LEMMA SequentialStays ==
  ASSUME UNCHANGED tree
  PROVE  /\ SequentialLog' = SequentialLog
         /\ CategoriesLog' = CategoriesLog
         /\ SequentialOrigins' = SequentialOrigins
         /\ \A n : PortsLog(n)' = PortsLog(n)
  BY DEF SequentialLog, CategoriesLog, SequentialOrigins, PortsLog

(* Ports given as arguments are taken as they are, nothing is logged.      *)
LEMMA TakeOriginsSafe ==
  ASSUME ScanIInv, RoundIInv, TakeOrigins
  PROVE  RoundIInv'
<1>1. /\ phase = "start" /\ phase' = "scan" /\ tree.given # <<>>
      /\ origins' = tree.given
      /\ UNCHANGED <<tree, jobs, pushed, done, collected, log, at, next_slot, copy>>
      /\ scanned' = 0 /\ max_scanned' = Len(origins')
      /\ current_paths' = [s \in DOMAIN current_paths |-> {}]
  BY DEF TakeOrigins, Reset
<1>2. tree.given \in Seq(Names)
  BY TreeTyped DEF RoundIInv, RoundTyped
<1>3. RoundTyped'
  BY <1>1, <1>2 DEF RoundIInv, RoundTyped
<1>4. Counted'
  BY <1>1, <1>2 DEF Counted, Round
<1>5. Current'
  BY <1>1 DEF RoundIInv, Current, Round
<1>6. CategoriesLog = <<>> /\ SequentialOrigins = tree.given
  BY <1>1 DEF CategoriesLog, SequentialOrigins
<1>7. Logged'
  BY <1>1, <1>6, SequentialStays DEF RoundIInv, Logged, Over
<1> QED
  BY <1>3, <1>4, <1>5, <1>7 DEF RoundIInv

(* The categories of the root are the jobs of the first round.             *)
LEMMA LookupCategoriesSafe ==
  ASSUME ScanIInv, RoundIInv, LookupCategories
  PROVE  RoundIInv'
<1>1. /\ phase = "start" /\ phase' = "categories" /\ tree.given = <<>>
      /\ UNCHANGED <<tree, collected, origins, at, next_slot, copy>>
      /\ log' = LogOf(TopLevel, tree.root.entries)
      /\ jobs' = tree.root.origins /\ pushed' = 0 /\ done' = {}
      /\ scanned' = 0 /\ max_scanned' = Len(jobs')
      /\ current_paths' = [s \in DOMAIN current_paths |-> {}]
  BY DEF LookupCategories, Reset, NewRound
<1>2. tree.root.origins \in Seq(Names)
  BY TreeTyped DEF RoundIInv, RoundTyped
<1>3. RoundTyped'
  BY <1>1, <1>2 DEF RoundIInv, RoundTyped, Round, Over
<1>4. Counted'
  BY <1>1, <1>2, FS_EmptySet DEF Counted, Round
<1>5. Current'
  <2>1. \A t \in Workers : at[t] = "out"
    BY <1>1, IdleWhenDone DEF ScanIInv, NoJobLeft
  <2> QED
    BY <1>1, <2>1 DEF RoundIInv, Current
<1>6. Logged'
  BY <1>1 DEF RoundIInv, Logged, Over
<1> QED
  BY <1>3, <1>4, <1>5, <1>6 DEF RoundIInv

(* A job is pushed, but not counted before it is done.                     *)
LEMMA PushSafe ==
  ASSUME ScanIInv, RoundIInv, Push
  PROVE  RoundIInv'
<1>1. /\ phase \in Round /\ pushed < Len(jobs) /\ pushed' = pushed + 1
      /\ UNCHANGED <<statusVars, tree, phase, jobs, done, collected, origins, log>>
  BY DEF Push, Round
<1>2. jobs \in Seq(Names) /\ pushed \in Nat /\ Len(jobs) \in Nat
  BY DEF RoundIInv, RoundTyped, ScanIInv
<1>3. RoundTyped'
  <2>1. 1 .. pushed \subseteq 1 .. (pushed + 1) /\ pushed + 1 <= Len(jobs)
    BY <1>1, <1>2
  <2> QED
    BY <1>1, <2>1 DEF RoundIInv, RoundTyped
<1>4. Counted' /\ Current'
  BY <1>1 DEF RoundIInv, Counted, Current, statusVars
<1>5. Logged'
  BY <1>1, SequentialStays DEF RoundIInv, Logged
<1> QED
  BY <1>3, <1>4, <1>5 DEF RoundIInv

(* The round is over: all of its jobs are counted.                         *)
LEMMA RoundOverCounted ==
  ASSUME ScanIInv, RoundIInv, RoundOver
  PROVE  /\ done = DOMAIN jobs /\ Cardinality(done) = Len(jobs)
         /\ \A t \in Workers : at[t] = "out"
<1>1. /\ jobs \in Seq(Names) /\ Len(jobs) \in Nat /\ DOMAIN jobs = 1 .. Len(jobs)
      /\ pushed = Len(jobs) /\ done = 1 .. pushed
  BY DEF RoundIInv, RoundTyped, RoundOver
<1> QED
  BY <1>1, IndicesCounted, IdleWhenDone

(* The ports and entries of the categories are taken in their order.       *)
LEMMA CollectCategoriesSafe ==
  ASSUME ScanIInv, RoundIInv, CollectCategories
  PROVE  RoundIInv'
<1> DEFINE found == [k \in DOMAIN jobs |-> tree.category[jobs[k]].origins]
           listed == [k \in DOMAIN jobs |-> LogOf(jobs[k], tree.category[jobs[k]].entries)]
<1>1. /\ phase = "categories" /\ phase' = "scan" /\ RoundOver
      /\ UNCHANGED <<tree, jobs, pushed, done, collected, at, next_slot, copy>>
      /\ scanned' = 0 /\ max_scanned' = Len(origins')
      /\ current_paths' = [s \in DOMAIN current_paths |-> {}]
  BY DEF CollectCategories, Reset
<1>2. /\ tree \in Tree /\ jobs \in Seq(Names) /\ done = DOMAIN jobs
      /\ tree.given = <<>> /\ jobs = tree.root.origins
      /\ log = LogOf(TopLevel, tree.root.entries)
  BY <1>1, RoundOverCounted DEF RoundIInv, RoundTyped, Logged
<1>3. /\ origins' = Sorted(FlattenSeq(found))
      /\ log' = log \o FlattenSeq(listed)
  <2>1. \A k \in DOMAIN jobs : Listed(k) = tree.category[jobs[k]]
    BY <1>2 DEF Listed
  <2> QED
    BY <2>1 DEF CollectCategories
<1>4. origins' = SequentialOrigins /\ log' = CategoriesLog
  BY <1>2, <1>3 DEF SequentialOrigins, CategoriesLog
<1>5. origins' \in Seq(Names)
  BY <1>2, <1>4, SequentialType
<1>6. RoundTyped'
  BY <1>1, <1>5 DEF RoundIInv, RoundTyped
<1>7. Counted'
  BY <1>1, <1>5 DEF Counted, Round
<1>8. Current'
  BY <1>1 DEF RoundIInv, Current, Round
<1>9. Logged'
  <2>1. log' = CategoriesLog' /\ origins' = SequentialOrigins'
    BY <1>1, <1>4, SequentialStays
  <2> QED
    BY <1>1, <2>1 DEF RoundIInv, Logged, Over
<1> QED
  BY <1>6, <1>7, <1>8, <1>9 DEF RoundIInv

(* The second round starts with all of the ports, with nothing counted.    *)
LEMMA ScanPortsSafe ==
  ASSUME ScanIInv, RoundIInv, ScanPorts
  PROVE  RoundIInv'
<1>1. /\ phase = "scan" /\ UNCHANGED <<statusVars, tree, job, collected, origins>>
      /\ pushed' = 0 /\ done' = {} /\ phase' \in {"ports", "finish"}
      /\ jobs' = IF phase' = "ports" THEN origins ELSE <<>>
  BY DEF ScanPorts, NewRound
<1>2. /\ tree \in Tree /\ origins \in Seq(Names) /\ log = CategoriesLog
      /\ origins = SequentialOrigins /\ collected = 0
  BY <1>1 DEF RoundIInv, RoundTyped, Logged
<1>3. /\ CategoriesLog \in Seq(LogEntry)
      /\ tree.defaults \in Seq(Entries) /\ tree.checks \in BOOLEAN
  BY <1>2, SequentialType, TreeTyped
<1>4. RoundTyped'
  <2>1. jobs' \in Seq(Names)
    BY <1>1, <1>2
  <2> QED
    BY <1>1, <1>2, <2>1 DEF RoundIInv, RoundTyped, Round, Over
<1>5. Counted'
  BY <1>1, <1>2, FS_EmptySet DEF RoundIInv, Counted, Round, statusVars
<1>6. Current'
  <2>1. \A t \in Workers : at[t] = "out"
    BY <1>1, IdleWhenDone DEF ScanIInv, NoJobLeft
  <2> QED
    BY <1>1, <2>1 DEF RoundIInv, Current, Round, statusVars
<1>7. Logged'
  <2>1. CASE tree.checks /\ tree.defaults = <<>>
    <3>1. phase' = "ports" /\ log' = log \o LogOf(TopLevel, tree.defaults)
      BY <2>1 DEF ScanPorts
    <3>2. LogOf(TopLevel, tree.defaults) = <<>>
      BY <2>1, <1>3, LogOfType, NameIsNat
    <3>3. log' = CategoriesLog \o PortsLog(0)
      BY <1>2, <3>1, <3>2, PortsLogNext
    <3>4. jobs' = SequentialOrigins /\ collected' \in 0 .. Len(jobs')
      BY <1>1, <1>2, <3>1
    <3>5. /\ log' = CategoriesLog' \o PortsLog(collected)'
          /\ jobs' = SequentialOrigins'
      BY <1>1, <1>2, <3>3, <3>4, SequentialStays
    <3> QED
      BY <1>1, <2>1, <3>1, <3>4, <3>5 DEF Logged, Over
  <2>2. CASE ~(tree.checks /\ tree.defaults = <<>>)
    <3>1. phase' = "finish"
      BY <2>2 DEF ScanPorts
    <3>2. log' = SequentialLog
      <4>1. CASE ~tree.checks
        <5>1. log' = log /\ SequentialLog = CategoriesLog \o <<>>
          BY <4>1 DEF ScanPorts, SequentialLog
        <5> QED
          BY <1>2, <1>3, <5>1, ConcatEmptySeq
      <4>2. CASE tree.checks
        <5>1. log' = log \o LogOf(TopLevel, tree.defaults)
          BY <4>2 DEF ScanPorts
        <5>2. SequentialLog = CategoriesLog \o LogOf(TopLevel, tree.defaults)
          BY <2>2, <4>2 DEF SequentialLog
        <5> QED
          BY <1>2, <5>1, <5>2
      <4> QED
        BY <4>1, <4>2
    <3>3. log' = SequentialLog'
      BY <1>1, <3>2, SequentialStays
    <3> QED
      BY <3>1, <3>3 DEF Logged, Over
  <2> QED
    BY <2>1, <2>2
<1> QED
  BY <1>4, <1>5, <1>6, <1>7 DEF RoundIInv

(* The results are taken in the order of the jobs, not in that they        *)
(* finish.                                                                 *)
LEMMA CollectPortSafe ==
  ASSUME ScanIInv, RoundIInv, CollectPort
  PROVE  RoundIInv'
<1>1. /\ phase = "ports" /\ RoundOver /\ collected < Len(jobs)
      /\ at' = [at EXCEPT ![Main] = "usr2"]
      /\ collected' = collected + 1
      /\ log' = log \o LogOf(jobs[collected + 1], Found(collected + 1))
      /\ UNCHANGED <<scanned, max_scanned, pathVars, tree, phase, jobs, pushed, done, origins>>
  BY DEF CollectPort, roundVars
<1>2. /\ tree \in Tree /\ jobs \in Seq(Names) /\ done = DOMAIN jobs
      /\ tree.checks /\ tree.defaults = <<>> /\ jobs = SequentialOrigins
      /\ collected \in 0 .. Len(jobs)
      /\ log = CategoriesLog \o PortsLog(collected)
  BY <1>1, RoundOverCounted DEF RoundIInv, RoundTyped, Logged
<1>3. RoundTyped'
  BY <1>1 DEF RoundIInv, RoundTyped
<1>4. Counted'
  BY <1>1 DEF RoundIInv, Counted
<1>5. Current'
  <2>1. \A t \in Workers : at'[t] = at[t]
    BY <1>1, MainAssumption DEF ScanIInv, Threads
  <2> QED
    BY <1>1, <2>1 DEF RoundIInv, Current, pathVars
<1>6. Logged'
  <2>1. collected + 1 \in DOMAIN jobs /\ collected \in 0 .. (Len(jobs) - 1)
    BY <1>1, <1>2
  <2>2. Found(collected + 1) = tree.port[jobs[collected + 1]]
    BY <1>2, <2>1 DEF Found
  <2> DEFINE next == LogOf(jobs[collected + 1], tree.port[jobs[collected + 1]])
  <2>3. PortsLog(collected + 1) = PortsLog(collected) \o next
    BY <1>2, <2>1, PortsLogNext
  <2>4. next \in Seq(LogEntry) /\ CategoriesLog \in Seq(LogEntry)
        /\ PortsLog(collected) \in Seq(LogEntry)
    <3>1. jobs[collected + 1] \in Names /\ jobs[collected + 1] \in Nat
      BY <1>2, <2>1, NameIsNat
    <3>2. tree.port[jobs[collected + 1]] \in Seq(Entries)
      BY <1>2, <3>1, TreeTyped
    <3> QED
      BY <1>2, <3>1, <3>2, LogOfType, SequentialType, PortsLogNext
  <2>5. log' = (CategoriesLog \o PortsLog(collected)) \o next
    BY <1>1, <1>2, <2>2
  <2> HIDE DEF next
  <2>6. log' = CategoriesLog \o PortsLog(collected + 1)
    <3> DEFINE a == CategoriesLog
               b == PortsLog(collected)
    <3>1. a \in Seq(LogEntry) /\ b \in Seq(LogEntry) /\ next \in Seq(LogEntry)
      BY <2>4
    <3> HIDE DEF a, b
    <3>2. (a \o b) \o next = a \o (b \o next)
      BY <3>1, ConcatAssociative
    <3> QED
      BY <2>3, <2>5, <3>2 DEF a, b
  <2>7. /\ log' = CategoriesLog' \o PortsLog(collected)'
        /\ jobs' = SequentialOrigins'
    <3>1. PortsLog(collected)' = PortsLog(collected + 1)
      BY <1>1 DEF PortsLog, SequentialOrigins
    <3> QED
      BY <1>1, <1>2, <2>6, <3>1, SequentialStays
  <2>8. collected' \in 0 .. Len(jobs')
    BY <1>1, <2>1
  <2> QED
    BY <1>1, <1>2, <2>7, <2>8 DEF Logged, Over
<1> QED
  BY <1>3, <1>4, <1>5, <1>6 DEF RoundIInv

(* With all results taken, the log is the sequential one.                  *)
LEMMA ScanOverSafe ==
  ASSUME ScanIInv, RoundIInv, ScanOver
  PROVE  RoundIInv'
<1>1. /\ phase = "ports" /\ phase' = "finish" /\ RoundOver /\ collected = Len(jobs)
      /\ UNCHANGED <<statusVars, tree, jobs, pushed, job, done, collected, origins, log>>
  BY DEF ScanOver
<1>2. RoundTyped' /\ Counted' /\ Current'
  BY <1>1 DEF RoundIInv, RoundTyped, Counted, Current, Round, Over, statusVars
<1>3. log = SequentialLog
  BY <1>1 DEF RoundIInv, Logged, SequentialLog
<1>4. log' = SequentialLog'
  BY <1>1, <1>3, SequentialStays
<1>5. Logged'
  BY <1>1, <1>4 DEF Logged, Over
<1> QED
  BY <1>2, <1>5 DEF RoundIInv

(* After the rounds nothing is logged any more.                            *)
LEMMA FinishSafe ==
  ASSUME ScanIInv, RoundIInv, Finish \/ Return
  PROVE  RoundIInv'
<1>1. /\ phase \in {"finish", "ending"} /\ phase' \in Over
      /\ UNCHANGED <<tree, jobs, pushed, done, collected, origins, log, copy, next_slot>>
      /\ \/ UNCHANGED <<scanned, max_scanned>>
         \/ scanned' = 0 /\ max_scanned' = 0
  BY DEF Finish, Return, Reset, Over, statusVars
<1>2. RoundTyped'
  BY <1>1 DEF RoundIInv, RoundTyped
<1>3. Counted' /\ Current'
  BY <1>1 DEF RoundIInv, Counted, Current, Round, Over
<1>4. log' = SequentialLog'
  BY <1>1, SequentialStays DEF RoundIInv, Logged, Over
<1>5. Logged'
  BY <1>1, <1>4 DEF Logged, Over
<1> QED
  BY <1>2, <1>3, <1>5 DEF RoundIInv

-----------------------------------------------------------------------------
(* A copy into the ring, or one it meets there, is of jobs of this round.  *)
LEMMA TakeJobSafe ==
  ASSUME ScanIInv, RoundIInv, NEW t \in Workers, TakeJob(t)
  PROVE  RoundIInv'
<1>1. PICK k \in (1 .. pushed) \ done : TakeSlot(t, jobs[k])
  BY DEF TakeJob
<1>2. /\ UNCHANGED <<scanned, max_scanned, current_paths>>
      /\ UNCHANGED <<tree, phase, jobs, pushed, done, collected, origins, log>>
      /\ at' = [at EXCEPT ![t] = "copy"]
      /\ next_slot' = (next_slot + 1) % Slots
      /\ copy' = [u \in Workers |->
           CASE u = t -> [slot |-> next_slot, name |-> jobs[k],
                          mixed |-> {copy[v].name : v \in Beside(t)}]
             [] u \in Beside(t) -> [copy[u] EXCEPT !.mixed = @ \cup {jobs[k]}]
             [] OTHER -> copy[u]]
  BY <1>1 DEF TakeJob, TakeSlot, roundVars
<1>3. /\ jobs \in Seq(Names) /\ k \in DOMAIN jobs /\ jobs[k] \in Nat
      /\ jobs[k] \in ToSet(jobs) /\ phase \in Round
  <2>1. jobs \in Seq(Names) /\ pushed <= Len(jobs) /\ pushed \in Nat
    BY DEF RoundIInv, RoundTyped, ScanIInv
  <2>2. k \in DOMAIN jobs
    BY <2>1
  <2>3. jobs[k] \in Names /\ jobs[k] \in Nat
    BY <2>1, <2>2, NameIsNat
  <2> QED
    BY <2>1, <2>2, <2>3 DEF ToSet, ScanIInv, NoJobLeft, Round
<1>4. RoundTyped' /\ Counted'
  BY <1>2 DEF RoundIInv, RoundTyped, Counted
<1>5. Logged'
  BY <1>2, SequentialStays DEF RoundIInv, Logged
<1>6. Current'
  <2>1. /\ Slots \in Nat \ {0} /\ next_slot \in Nat
        /\ copy \in [Workers -> [slot : Nat, name : Nat, mixed : SUBSET Nat]]
    BY SlotsAssumption DEF RoundIInv, Current
  <2>2. next_slot' \in Nat
    BY <1>2, <2>1
  <2>3. \A v \in Beside(t) : v \in Workers /\ v # t /\ at[v] = "copy"
    BY DEF Beside
  <2>4. \A v \in Beside(t) : copy[v].name \in ToSet(jobs) /\ copy[v].name \in Nat
    BY <1>3, <2>1, <2>3 DEF RoundIInv, Current
  <2>5. ASSUME NEW u \in Workers
        PROVE  /\ copy'[u] \in [slot : Nat, name : Nat, mixed : SUBSET Nat]
               /\ at'[u] = "copy" =>
                    copy'[u].name \in ToSet(jobs) /\ copy'[u].mixed \subseteq ToSet(jobs)
    <3>1. CASE u = t
      <4> DEFINE names == {copy[v].name : v \in Beside(t)}
      <4>1. u \notin Beside(t)
        BY <2>3, <3>1
      <4>2. names \subseteq ToSet(jobs) /\ names \subseteq Nat
        BY <2>4
      <4> HIDE DEF names
      <4>3. copy' = [w \in Workers |->
                 CASE w = t -> [slot |-> next_slot, name |-> jobs[k], mixed |-> names]
                   [] w \in Beside(t) -> [copy[w] EXCEPT !.mixed = @ \cup {jobs[k]}]
                   [] OTHER -> copy[w]]
        BY <1>2 DEF names
      <4>4. copy'[u] = [slot |-> next_slot, name |-> jobs[k], mixed |-> names]
        BY <3>1, <4>1, <4>3
      <4> QED
        BY <1>3, <2>1, <4>2, <4>4
    <3>2. CASE u \in Beside(t)
      <4>1. copy'[u] = [copy[u] EXCEPT !.mixed = @ \cup {jobs[k]}]
        BY <1>2, <2>3, <3>2
      <4>2. /\ copy[u] \in [slot : Nat, name : Nat, mixed : SUBSET Nat]
            /\ copy[u].name \in ToSet(jobs) /\ copy[u].mixed \subseteq ToSet(jobs)
        BY <1>3, <2>1, <2>3, <3>2 DEF RoundIInv, Current
      <4> QED
        BY <1>3, <4>1, <4>2
    <3>3. CASE u # t /\ u \notin Beside(t)
      <4>1. copy'[u] = copy[u] /\ at'[u] = at[u]
        BY <1>2, <3>3 DEF ScanIInv, Threads
      <4> QED
        BY <1>3, <2>1, <4>1 DEF RoundIInv, Current
    <3> QED
      BY <3>1, <3>2, <3>3
  <2>6. copy' \in [Workers -> [slot : Nat, name : Nat, mixed : SUBSET Nat]]
    BY <1>2, <2>5
  <2>7. \A s \in DOMAIN current_paths : current_paths[s] \subseteq ToSet(jobs)
    BY <1>3 DEF RoundIInv, Current
  <2> QED
    BY <1>2, <1>3, <2>2, <2>5, <2>6, <2>7 DEF Current, Round
<1> QED
  BY <1>4, <1>5, <1>6 DEF RoundIInv

(* What is copied into the ring is of this round.                          *)
LEMMA CopyPathSafe ==
  ASSUME ScanIInv, RoundIInv, NEW t \in Workers, job[t] # 0, CopyPath(t), UNCHANGED scanVars
  PROVE  RoundIInv'
<1>1. PICK mixed \in SUBSET copy[t].mixed :
        current_paths' = [current_paths EXCEPT ![copy[t].slot] = {copy[t].name} \cup mixed]
  BY DEF CopyPath
<1>2. /\ UNCHANGED <<scanned, max_scanned, next_slot, copy>>
      /\ at[t] = "copy" /\ at' = [at EXCEPT ![t] = "usr2"]
  BY DEF CopyPath, roundVars
<1>3. phase \in Round
  <2>1. job[t] \in (1 .. pushed) \ done
    BY DEF ScanIInv, AtJob
  <2> QED
    BY <2>1 DEF ScanIInv, NoJobLeft, Round
<1>4. RoundTyped' /\ Counted'
  BY <1>2 DEF RoundIInv, RoundTyped, Counted, scanVars
<1>5. Logged'
  BY SequentialStays DEF RoundIInv, Logged, scanVars
<1>6. Current'
  <2>1. copy[t].name \in ToSet(jobs) /\ copy[t].mixed \subseteq ToSet(jobs)
    BY <1>2, <1>3 DEF RoundIInv, Current
  <2>2. \A s \in DOMAIN current_paths' : current_paths'[s] \subseteq ToSet(jobs)
    BY <1>1, <1>3, <2>1 DEF RoundIInv, Current
  <2>3. \A u \in Workers : at'[u] = "copy" => at[u] = "copy"
    BY <1>2 DEF ScanIInv, Threads
  <2> QED
    BY <1>2, <1>3, <2>2, <2>3 DEF RoundIInv, Current, Round, scanVars
<1> QED
  BY <1>4, <1>5, <1>6 DEF RoundIInv

(* The counter follows the jobs that are done.                             *)
LEMMA FinishJobSafe ==
  ASSUME ScanIInv, RoundIInv, NEW t \in Workers, FinishJob(t)
  PROVE  RoundIInv'
<1>1. /\ scanned' = scanned + 1 /\ done' = done \cup {job[t]}
      /\ UNCHANGED <<max_scanned, pathVars, at>>
      /\ UNCHANGED <<tree, phase, jobs, pushed, collected, origins, log>>
  BY DEF FinishJob, Count
<1>2. job[t] \in 1 .. pushed /\ job[t] \notin done /\ phase \in Round
  <2>1. job[t] \in (1 .. pushed) \ done
    BY DEF FinishJob, ScanIInv, AtJob
  <2> QED
    BY <2>1 DEF ScanIInv, NoJobLeft, Round
<1>3. RoundTyped'
  BY <1>1, <1>2 DEF RoundIInv, RoundTyped
<1>4. Counted'
  <2>1. /\ pushed \in Nat /\ done \subseteq 1 .. pushed /\ done' \subseteq 1 .. pushed
        /\ pushed <= Len(jobs) /\ Len(jobs) \in Nat
    <3>1. jobs \in Seq(Names) /\ pushed \in Nat /\ pushed <= Len(jobs)
      BY DEF ScanIInv, RoundIInv, RoundTyped
    <3>2. done \subseteq 1 .. pushed
      BY DEF RoundIInv, RoundTyped
    <3>3. done' \subseteq 1 .. pushed
      BY <1>1, <1>2, <3>2
    <3> QED
      BY <3>1, <3>2, <3>3, LenProperties
  <2>2. /\ IsFiniteSet(done) /\ Cardinality(done) \in Nat
        /\ Cardinality(done') <= pushed /\ Cardinality(done') \in Nat
    BY <2>1, IndicesFinite
  <2>3. Cardinality(done') = Cardinality(done) + 1
    BY <1>1, <1>2, <2>2, FS_AddElement
  <2>4. scanned = Cardinality(done) /\ max_scanned = Len(jobs)
    BY <1>2 DEF RoundIInv, Counted
  <2> QED
    BY <1>1, <1>2, <2>1, <2>2, <2>3, <2>4 DEF Counted, Round
<1>5. Current'
  BY <1>1 DEF RoundIInv, Current, pathVars
<1>6. Logged'
  BY <1>1, SequentialStays DEF RoundIInv, Logged
<1> QED
  BY <1>3, <1>4, <1>5, <1>6 DEF RoundIInv

(* Every step of every thread keeps the invariant.                         *)
LEMMA RoundNextSafe ==
  ASSUME ScanIInv, RoundIInv, [ScanNext]_vars
  PROVE  RoundIInv'
<1>1. CASE MainStep
  <2>1. CASE MainPrints
    BY <2>1, PrintStepQuiet, QuietSafe DEF MainPrints, Threads
  <2> QED
    BY <1>1, <2>1, TakeOriginsSafe, LookupCategoriesSafe, PushSafe, CollectCategoriesSafe,
       ScanPortsSafe, CollectPortSafe, ScanOverSafe, FinishSafe DEF MainStep
<1>2. ASSUME NEW t \in Workers, WorkerStep(t)
      PROVE  RoundIInv'
  <2>1. CASE WorkerPrints(t)
    <3>1. CASE CopyPath(t)
      BY <2>1, <3>1, CopyPathSafe DEF WorkerPrints
    <3>2. CASE PrintStep(t)
      BY <2>1, <3>2, PrintStepQuiet, QuietSafe DEF WorkerPrints, Threads
    <3> QED
      BY <2>1, <3>1, <3>2 DEF WorkerPrints
  <2> QED
    BY <1>2, <2>1, TakeJobSafe, FinishJobSafe DEF WorkerStep
<1>3. CASE Signals
  BY <1>3, QuietSafe DEF Signals, AlarmGoesOff, UserAsks, roundVars
<1>4. CASE UNCHANGED vars
  BY <1>4, QuietSafe DEF vars, statusVars, pathVars
<1> QED
  BY <1>1, <1>2, <1>3, <1>4 DEF ScanNext, Ended

(* What is counted, shown and logged is kept in step with the jobs that    *)
(* are done, by every step of every thread.                                *)
THEOREM RoundsStaySound == ScanSpec => []RoundIInv
<1>1. ScanInit => RoundIInv
  BY RoundInitSafe
<1>2. ScanIInv /\ RoundIInv /\ [ScanNext]_vars => RoundIInv'
  BY RoundNextSafe
<1> QED
  BY <1>1, <1>2, WorkersStayAtJobs, PTL DEF ScanSpec

-----------------------------------------------------------------------------
(* A report never shows more than all of the jobs, and all of them once    *)
(* the round is over.                                                      *)
THEOREM EveryJobCounted == ScanSpec => []CountsEveryJob
<1>1. ScanIInv /\ RoundIInv => CountsEveryJob
  BY RoundOverCounted DEF RoundIInv, Counted, CountsEveryJob, Round
<1> QED
  BY <1>1, RoundsStaySound, WorkersStayAtJobs, PTL

(* A report of the current paths shows jobs of this round only, however    *)
(* the copies into the ring meet.                                          *)
THEOREM PathsAreOfThisRound == ScanSpec => []PathsOfThisRound
<1>1. RoundIInv => PathsOfThisRound
  BY DEF RoundIInv, Current, PathsOfThisRound, Round
<1> QED
  BY <1>1, RoundsStaySound, PTL

(* The log is the one a single thread would have written, whatever the     *)
(* workers do in which order.                                              *)
THEOREM LogIsSequential == ScanSpec => []LogAsSequential
<1>1. RoundIInv => LogAsSequential
  BY DEF RoundIInv, Logged, LogAsSequential, Over
<1> QED
  BY <1>1, RoundsStaySound, PTL

-----------------------------------------------------------------------------
(* The third part: what holds of the log directory for every number of     *)
(* scans, whatever they find and wherever they are killed.                 *)
Linking == {"link_latest", "unlink_previous", "link_previous"}
Writing == {"write"} \cup Linking

(* The log link names, if any, is complete.                                *)
Complete(link) == link \in Stamps => meant[link] # <<>> /\ files[link] = meant[link]

(* The log of this scan holds the first entries of the result.             *)
PartlyWritten ==
  /\ Len(files[log_path]) <= Len(result)
  /\ \A i \in 1 .. Len(files[log_path]) : files[log_path][i] = result[i]

(* What is known of the log of this scan and of the link to be moved.      *)
ThisLog ==
  /\ pc = "create" => result # <<>>
  /\ pc \in Writing => log_path \in Stamps /\ result # <<>> /\ meant[log_path] = result
  /\ pc = "write" => PartlyWritten
  /\ pc \in Linking => files[log_path] = result

Older(link) == link \in Stamps => link < log_path

(* Without a stamp used twice: where the links are at each step, and that  *)
(* no log is newer than the clock.                                         *)
LinksSound ==
  /\ Complete(latest)
  /\ Complete(previous)
  /\ \A s \in Stamps : meant[s] # <<>> => s <= stamp
  /\ latest \in Stamps /\ previous \in Stamps => previous < latest
  /\ pc = "write" => Older(latest) /\ Older(previous)
  /\ pc \in Linking => Complete(prev) /\ Older(prev)
  /\ pc = "link_latest" => Older(previous)

(* Where the links are while they are moved and after.                     *)
Moved ==
  /\ pc = "link_latest" => latest = Absent
  /\ pc \in {"unlink_previous", "link_previous"} => latest = log_path
  /\ pc = "link_previous" => previous = Absent
  /\ pc \in {"scan", "create", "write"} => latest # Absent
  /\ pc \in Linking => prev # Absent
  /\ pc # "idle" => exit = NotYet
  /\ exit = 0 /\ result # <<>> =>
       /\ latest = log_path /\ previous = prev
       /\ log_path \in Stamps /\ files[log_path] = result

LogIInv ==
  /\ LogTypeOK
  /\ ThisLog
  /\ ~reused => LinksSound
  /\ Moved

-----------------------------------------------------------------------------
(* A result is a sequence of entries.                                      *)
LEMMA ResultTyped ==
  ASSUME result \in Results \cup {<<>>}
  PROVE  result \in Seq(Entry)
<1>1. CASE result \in Results
  BY <1>1, ResultsAssumption
<1>2. CASE result = <<>>
  BY <1>2, EmptySeq
<1> QED
  BY <1>1, <1>2

(* Every variable keeps its type.                                          *)
LEMMA LogTypePreserved ==
  ASSUME LogTypeOK, ThisLog, [LogNext]_logvars
  PROVE  LogTypeOK'
<1> USE DEF LogTypeOK, Links, Stamps, DevNull, Absent, LogPlaces, NotYet
<1>r. result \in Seq(Entry)
  BY ResultTyped
<1>1. CASE Start
  <2>1. scans' \in 0 .. MaxScans
    BY <1>1, MaxScansAssumption DEF Start
  <2>2. result' \in Results \cup {<<>>} /\ exit' = 3 /\ log_path' = 0 /\ pc' = "open"
    BY <1>1 DEF Start
  <2>3. UNCHANGED <<stamp, files, latest, previous, prev, meant, reused>>
    BY <1>1 DEF Start, dirVars, ghosts
  <2> QED
    BY <2>1, <2>2, <2>3
<1>2. CASE OpenPrevious
  BY <1>2 DEF OpenPrevious, ghosts
<1>3. CASE OpenLatest
  BY <1>3 DEF OpenLatest, ghosts
<1>4. CASE Scan
  <2>1. pc' \in LogPlaces /\ exit' \in 0 .. NotYet
    BY <1>4 DEF Scan, EndScan
  <2>2. UNCHANGED <<stamp, dirVars, scans, log_path, prev, ghosts>> /\ result' \in Results
    BY <1>4 DEF Scan
  <2> QED
    BY <2>1, <2>2 DEF dirVars, ghosts
<1>5. CASE CreateLog
  <2>1. files' \in [Stamps -> Seq(Entry)] /\ meant' \in [Stamps -> Seq(Entry)]
    BY <1>5, <1>r DEF CreateLog
  <2> QED
    BY <1>5, <2>1 DEF CreateLog
<1>6. CASE WriteEntry
  <2>1. log_path \in Stamps
    BY <1>6 DEF WriteEntry, ThisLog, Writing
  <2>2. result[Written + 1] \in Entry
    BY <1>6, <1>r, <2>1 DEF WriteEntry, Written
  <2>3. files' \in [Stamps -> Seq(Entry)]
    BY <1>6, <2>1, <2>2 DEF WriteEntry
  <2> QED
    BY <1>6, <2>3 DEF WriteEntry, ghosts
<1>7. CASE UnlinkLatest
  BY <1>7 DEF UnlinkLatest, ghosts
<1>8. CASE LinkLatest
  BY <1>8 DEF LinkLatest, EndScan, ghosts
<1>9. CASE UnlinkPrevious
  BY <1>9 DEF UnlinkPrevious, ghosts
<1>10. CASE LinkPrevious
  BY <1>10 DEF LinkPrevious, EndScan, ghosts
<1>11. CASE Abort
  BY <1>11 DEF Abort, EndScan, dirVars, ghosts
<1>12. CASE Tick
  BY <1>12, MaxStampAssumption DEF Tick, dirVars, ghosts
<1>13. CASE Rest \/ UNCHANGED logvars
  BY <1>13 DEF Rest, logvars, dirVars, ghosts
<1> QED
  BY <1>1, <1>2, <1>3, <1>4, <1>5, <1>6, <1>7, <1>8, <1>9, <1>10, <1>11,
     <1>12, <1>13 DEF LogNext

(* Appending the next entry of the result keeps the log a beginning of it. *)
LEMMA AppendNext ==
  ASSUME NEW file \in Seq(Entry), NEW entries \in Seq(Entry),
         Len(file) < Len(entries),
         \A i \in 1 .. Len(file) : file[i] = entries[i]
  PROVE  LET longer == Append(file, entries[Len(file) + 1])
         IN /\ Len(longer) <= Len(entries)
            /\ \A i \in 1 .. Len(longer) : longer[i] = entries[i]
<1> DEFINE e == entries[Len(file) + 1]
<1>1. e \in Entry
  OBVIOUS
<1>2. /\ Len(Append(file, e)) = Len(file) + 1
      /\ \A i \in 1 .. Len(file) : Append(file, e)[i] = file[i]
      /\ Append(file, e)[Len(file) + 1] = e
  BY <1>1
<1> QED
  BY <1>2

(* Where the log of this scan is complete it is the result.                *)
LEMMA WrittenInFull ==
  ASSUME NEW file \in Seq(Entry), NEW entries \in Seq(Entry),
         Len(file) = Len(entries),
         \A i \in 1 .. Len(file) : file[i] = entries[i]
  PROVE  file = entries
BY SeqEqual

-----------------------------------------------------------------------------
(* The log of this scan: a step of each action.                            *)
LEMMA ThisLogPreserved ==
  ASSUME LogTypeOK, ThisLog, [LogNext]_logvars
  PROVE  ThisLog'
<1> USE DEF ThisLog, Writing, Linking
<1>r. result \in Seq(Entry)
  BY ResultTyped DEF LogTypeOK
<1>1. CASE Start \/ OpenPrevious \/ OpenLatest \/ Abort
  BY <1>1 DEF Start, OpenPrevious, OpenLatest, Abort, EndScan
<1>2. CASE Scan
  BY <1>2 DEF Scan, EndScan
<1>3. CASE CreateLog
  <2>1. log_path' \in Stamps /\ files'[log_path'] = <<>> /\ meant'[log_path'] = result
    BY <1>3 DEF CreateLog, LogTypeOK
  <2>2. PartlyWritten'
    BY <1>3, <1>r, <2>1 DEF CreateLog, PartlyWritten
  <2> QED
    BY <1>3, <2>1, <2>2 DEF CreateLog
<1>4. CASE WriteEntry
  <2>1. files[log_path] \in Seq(Entry) /\ log_path \in Stamps /\ PartlyWritten
    BY <1>4 DEF WriteEntry, LogTypeOK
  <2>2. files'[log_path] = Append(files[log_path], result[Len(files[log_path]) + 1])
    BY <1>4, <2>1 DEF WriteEntry, Written, LogTypeOK
  <2>3. Len(files[log_path]) < Len(result)
    BY <1>4 DEF WriteEntry, Written
  <2>4. PartlyWritten'
    BY <1>4, <1>r, <2>1, <2>2, <2>3, AppendNext DEF WriteEntry, PartlyWritten
  <2> QED
    BY <1>4, <2>4 DEF WriteEntry, ghosts
<1>5. CASE UnlinkLatest
  <2>1. files[log_path] = result
    BY <1>5, <1>r, WrittenInFull DEF UnlinkLatest, AllWritten, Written, PartlyWritten, LogTypeOK
  <2> QED
    BY <1>5, <2>1 DEF UnlinkLatest, ghosts
<1>6. CASE LinkLatest \/ UnlinkPrevious \/ LinkPrevious
  BY <1>6 DEF LinkLatest, UnlinkPrevious, LinkPrevious, EndScan, ghosts
<1>7. CASE Tick \/ Rest \/ UNCHANGED logvars
  BY <1>7 DEF Tick, Rest, logvars, dirVars, ghosts, PartlyWritten
<1> QED
  BY <1>1, <1>2, <1>3, <1>4, <1>5, <1>6, <1>7 DEF LogNext

(* The links, as long as no stamp was used twice.                          *)
LEMMA LinksPreserved ==
  ASSUME LogTypeOK, ThisLog, Moved, ~reused => LinksSound, [LogNext]_logvars, ~reused'
  PROVE  LinksSound'
<1> USE DEF LinksSound, Complete, Older, Writing, Linking
<1>a. LogTypeOK'
  BY LogTypePreserved
<1>s. DevNull \notin Stamps /\ Absent \notin Stamps /\ Stamps \subseteq Int
  BY DEF DevNull, Absent, Stamps
<1>u. ~reused
  BY DEF LogNext, Start, OpenPrevious, OpenLatest, Scan, CreateLog, WriteEntry,
         UnlinkLatest, LinkLatest, UnlinkPrevious, LinkPrevious, Abort, Tick, Rest,
         logvars, ghosts
<1>1. CASE Start \/ Abort
  BY <1>1, <1>u DEF Start, Abort, EndScan, dirVars, ghosts
<1>2. CASE OpenPrevious
  BY <1>2, <1>u, <1>s DEF OpenPrevious, ghosts
<1>3. CASE OpenLatest
  BY <1>3, <1>u, <1>s DEF OpenLatest, ghosts
<1>4. CASE Scan
  BY <1>4, <1>u DEF Scan, EndScan, dirVars, ghosts
<1>5. CASE CreateLog
  <2>1. meant[stamp] = <<>> /\ stamp \in Stamps
    BY <1>5, <1>u DEF CreateLog, LogTypeOK
  <2>2. latest # stamp /\ previous # stamp
    BY <1>u, <2>1
  <2>3. /\ \A s \in Stamps : s # stamp => meant'[s] = meant[s] /\ files'[s] = files[s]
        /\ log_path' = stamp /\ pc' = "write"
        /\ UNCHANGED <<stamp, latest, previous>>
    BY <1>5 DEF CreateLog, LogTypeOK
  <2>4. Complete(latest)' /\ Complete(previous)'
    BY <1>u, <2>2, <2>3
  <2>5. \A s \in Stamps : meant'[s] # <<>> => s <= stamp
    BY <1>u, <2>1, <2>3, <1>s
  <2>6. /\ latest \in Stamps => latest < stamp
        /\ previous \in Stamps => previous < stamp
    <3>1. /\ latest \in Stamps => latest <= stamp
          /\ previous \in Stamps => previous <= stamp
      BY <1>u
    <3> QED
      <4>1. stamp \in Int /\ Stamps \subseteq Int
        BY <1>s, <2>1
      <4>2. ASSUME NEW link, link \in Stamps, link <= stamp, link # stamp
            PROVE  link < stamp
        BY <4>1, <4>2
      <4> QED
        BY <2>2, <3>1, <4>2
  <2> QED
    BY <1>u, <2>3, <2>4, <2>5, <2>6
<1>6. CASE WriteEntry
  <2>1. \A s \in Stamps : s # log_path => files'[s] = files[s]
    BY <1>6 DEF WriteEntry, LogTypeOK
  <2>2. latest # log_path /\ previous # log_path
    <3>1. pc = "write" /\ log_path \in Stamps /\ Older(latest) /\ Older(previous)
      BY <1>6, <1>u DEF WriteEntry, ThisLog
    <3>2. log_path \in Int /\ ~(log_path < log_path)
      BY <1>s, <3>1
    <3> QED
      BY <3>1, <3>2
  <2> QED
    BY <1>6, <1>u, <2>1, <2>2 DEF WriteEntry, ghosts
<1>7. CASE UnlinkLatest
  BY <1>7, <1>u, <1>s DEF UnlinkLatest, ghosts
<1>8. CASE LinkLatest
  <2>1. log_path \in Stamps /\ meant[log_path] # <<>> /\ files[log_path] = meant[log_path]
    BY <1>8 DEF LinkLatest, ThisLog
  <2>2. pc' = "unlink_previous" /\ latest' = log_path
        /\ UNCHANGED <<stamp, files, previous, prev, log_path, meant>>
    BY <1>8 DEF LinkLatest, Moved, ghosts
  <2>3. Complete(prev) /\ Older(prev) /\ Older(previous) /\ Complete(previous)
    BY <1>8, <1>u DEF LinkLatest
  <2> QED
    BY <1>u, <2>1, <2>2, <2>3
<1>9. CASE UnlinkPrevious
  BY <1>9, <1>u, <1>s DEF UnlinkPrevious, ghosts
<1>10. CASE LinkPrevious
  <2>1. latest = log_path /\ Complete(prev) /\ Older(prev)
    BY <1>10, <1>u DEF LinkPrevious, Moved
  <2> QED
    BY <1>10, <1>u, <2>1 DEF LinkPrevious, EndScan, ghosts
<1>11. CASE Tick
  <2>1. stamp <= stamp' /\ stamp \in Int /\ stamp' \in Int
    BY <1>11 DEF Tick, LogTypeOK, Stamps
  <2> QED
    BY <1>11, <1>u, <1>s, <2>1 DEF Tick, dirVars, ghosts
<1>12. CASE Rest \/ UNCHANGED logvars
  BY <1>12, <1>u DEF Rest, logvars, dirVars, ghosts
<1> QED
  BY <1>1, <1>2, <1>3, <1>4, <1>5, <1>6, <1>7, <1>8, <1>9, <1>10, <1>11, <1>12
     DEF LogNext

(* What a scan has done to the links.                                      *)
LEMMA MovedPreserved ==
  ASSUME LogTypeOK, ThisLog, Moved, [LogNext]_logvars
  PROVE  Moved'
<1> USE DEF Moved, Writing, Linking
<1>s. DevNull # Absent /\ Absent \notin Stamps /\ 0 # NotYet /\ 1 # 0 /\ 2 # 0
  BY DEF DevNull, Absent, Stamps, NotYet
<1>1. CASE Start
  BY <1>1, <1>s DEF Start, dirVars, ghosts
<1>2. CASE OpenPrevious \/ OpenLatest
  BY <1>2, <1>s DEF OpenPrevious, OpenLatest
<1>3. CASE Scan
  BY <1>3, <1>s DEF Scan, EndScan, dirVars
<1>4. CASE CreateLog
  BY <1>4, <1>s DEF CreateLog
<1>5. CASE WriteEntry
  BY <1>5, <1>s DEF WriteEntry
<1>6. CASE UnlinkLatest
  BY <1>6, <1>s DEF UnlinkLatest
<1>7. CASE LinkLatest
  BY <1>7, <1>s DEF LinkLatest
<1>8. CASE UnlinkPrevious
  BY <1>8, <1>s DEF UnlinkPrevious
<1>9. CASE LinkPrevious
  BY <1>9, <1>s DEF LinkPrevious, EndScan, ThisLog
<1>10. CASE Abort
  BY <1>10, <1>s DEF Abort, EndScan
<1>11. CASE Tick \/ Rest \/ UNCHANGED logvars
  BY <1>11, <1>s DEF Tick, Rest, logvars, dirVars, ghosts
<1> QED
  BY <1>1, <1>2, <1>3, <1>4, <1>5, <1>6, <1>7, <1>8, <1>9, <1>10, <1>11 DEF LogNext

-----------------------------------------------------------------------------
(* The inductive invariant of the log directory: at every point where a    *)
(* scan may be killed it says which logs are complete and what the links   *)
(* name.                                                                   *)
THEOREM LogDirectorySound == LogSpec => []LogIInv
<1>1. LogInit => LogIInv
  <2> SUFFICES ASSUME LogInit PROVE LogIInv
    OBVIOUS
  <2>1. LogTypeOK
    <3>1. stamp \in Stamps /\ scans \in 0 .. MaxScans
      BY MaxStampAssumption, MaxScansAssumption DEF LogInit, Stamps
    <3>2. files \in [Stamps -> Seq(Entry)] /\ meant \in [Stamps -> Seq(Entry)]
      BY EmptySeq DEF LogInit
    <3>3. latest \in Links /\ previous \in Links /\ prev \in Links /\ pc \in LogPlaces
      BY DEF LogInit, Links, LogPlaces
    <3>4. result \in Results \cup {<<>>} /\ log_path \in Stamps \cup {DevNull}
          /\ reused \in BOOLEAN
      BY DEF LogInit
    <3>5. exit \in 0 .. NotYet
      BY DEF LogInit, NotYet
    <3> QED
      BY <3>1, <3>2, <3>3, <3>4, <3>5 DEF LogTypeOK
  <2>2. ThisLog /\ Moved
    BY DEF LogInit, ThisLog, Moved, Writing, Linking, NotYet
  <2>3. LinksSound
    BY DEF LogInit, LinksSound, Complete, Older, Linking, Stamps, Absent
  <2> QED
    BY <2>1, <2>2, <2>3 DEF LogIInv
<1>2. LogIInv /\ [LogNext]_logvars => LogIInv'
  <2> SUFFICES ASSUME LogIInv, [LogNext]_logvars PROVE LogIInv'
    OBVIOUS
  <2>1. LogTypeOK /\ ThisLog /\ Moved /\ (~reused => LinksSound)
    BY DEF LogIInv
  <2>2. LogTypeOK'
    BY <2>1, LogTypePreserved
  <2>3. ThisLog'
    BY <2>1, ThisLogPreserved
  <2>4. Moved'
    BY <2>1, MovedPreserved
  <2>5. ~reused' => LinksSound'
    BY <2>1, LinksPreserved
  <2> QED
    BY <2>2, <2>3, <2>4, <2>5 DEF LogIInv
<1> QED
  BY <1>1, <1>2, PTL DEF LogSpec

(* The variables keep their types.                                         *)
THEOREM LogTyped == LogSpec => []LogTypeOK
<1>1. LogIInv => LogTypeOK
  BY DEF LogIInv
<1> QED
  BY <1>1, LogDirectorySound, PTL

(* Unless two scans use one name, the links name complete logs, wherever a *)
(* scan is killed.                                                         *)
THEOREM LinkedLogsStayComplete == LogSpec => []LinkedLogsComplete
<1>1. LogIInv => LinkedLogsComplete
  BY DEF LogIInv, LinksSound, Complete, LinkedLogsComplete
<1> QED
  BY <1>1, LogDirectorySound, PTL

(* And the previous log is older than the latest.                          *)
THEOREM LinksStayInOrder == LogSpec => []LinksInOrder
<1>1. LogIInv => LinksInOrder
  BY DEF LogIInv, LinksSound, LinksInOrder
<1> QED
  BY <1>1, LogDirectorySound, PTL

(* A scan that has written its log has moved both links.                   *)
THEOREM LogsArePublished == LogSpec => []LogPublished
<1>1. LogIInv => LogPublished
  BY DEF LogIInv, Moved, LogPublished
<1> QED
  BY <1>1, LogDirectorySound, PTL

-----------------------------------------------------------------------------
(* The places of a sequence.                                               *)
LEMMA PlacesOf ==
  ASSUME NEW n \in Nat
  PROVE  IsFiniteSet(1 .. n) /\ Cardinality(1 .. n) = n
<1>1. IsFiniteSet(1 .. n) /\ Cardinality(1 .. n) = IF 1 > n THEN 0 ELSE n - 1 + 1
  BY FS_Interval
<1> QED
  BY <1>1

(* portscan_log_compare(): logs of the same length that have every entry   *)
(* of the first as often have no other entry.                              *)
LEMMA SameEntriesHaveAll ==
  ASSUME NEW S, NEW log1 \in Seq(S), NEW log2 \in Seq(S), SameEntries(log1, log2),
         NEW j \in DOMAIN log2
  PROVE  \E i \in DOMAIN log1 : log1[i] = log2[j]
<1> SUFFICES ASSUME \A i \in DOMAIN log1 : log1[i] # log2[j]
             PROVE  FALSE
  OBVIOUS
<1> DEFINE In(lines, e) == {i \in DOMAIN lines : lines[i] = e}
           b(e) == CHOOSE f : f \in Bijection(In(log1, e), In(log2, e))
           D == DOMAIN log1
           R == DOMAIN log2 \ {j}
           g == [i \in D |-> b(log1[i])[i]]
<1>1. /\ D = 1 .. Len(log1) /\ DOMAIN log2 = 1 .. Len(log2)
      /\ Len(log1) \in Nat /\ Len(log2) \in Nat /\ Len(log1) = Len(log2)
  BY DEF SameEntries
<1>2. /\ IsFiniteSet(D) /\ IsFiniteSet(DOMAIN log2)
      /\ Cardinality(D) = Len(log1) /\ Cardinality(DOMAIN log2) = Len(log2)
  BY <1>1, PlacesOf
<1>3. \A e : IsFiniteSet(In(log1, e)) /\ IsFiniteSet(In(log2, e))
  BY <1>2, FS_Subset
<1>4. ASSUME NEW i \in D
      PROVE  b(log1[i]) \in Bijection(In(log1, log1[i]), In(log2, log1[i]))
  <2>1. Cardinality(In(log1, log1[i])) = Cardinality(In(log2, log1[i]))
    BY DEF SameEntries, Occurrences
  <2>2. ExistsBijection(In(log1, log1[i]), In(log2, log1[i]))
    BY <1>3, <2>1, FS_SameCardinalityBij
  <2> QED
    BY <2>2 DEF ExistsBijection
<1> HIDE DEF b
<1>5. \A i \in D : g[i] \in In(log2, log1[i])
  BY <1>4 DEF Bijection, Injection
<1>6. g \in [D -> R]
  <2>1. \A i \in D : g[i] \in R
    BY <1>5
  <2> QED
    BY <2>1
<1>7. ASSUME NEW i \in D, NEW k \in D, g[i] = g[k]
      PROVE  i = k
  <2>1. log1[i] = log1[k]
    BY <1>5, <1>7
  <2>2. b(log1[i])[i] = b(log1[i])[k]
    BY <1>7, <2>1
  <2>3. i \in In(log1, log1[i]) /\ k \in In(log1, log1[i])
    BY <2>1
  <2> QED
    BY <1>4, <2>2, <2>3 DEF Bijection, Injection, IsInjective
<1>8. g \in Injection(D, R)
  BY <1>6, <1>7 DEF Injection, IsInjective
<1>9. IsFiniteSet(R) /\ Cardinality(R) = Len(log2) - 1
  BY <1>2, FS_RemoveElement
<1> HIDE DEF g, D, R
<1>10. Cardinality(D) <= Cardinality(R)
  BY <1>8, <1>9, FS_Injection
<1> QED
  BY <1>1, <1>2, <1>9, <1>10 DEF D

(* And the first has no entry that the second has not.                     *)
LEMMA SameEntriesAreIn ==
  ASSUME NEW S, NEW log1 \in Seq(S), NEW log2 \in Seq(S), SameEntries(log1, log2),
         NEW i \in DOMAIN log1
  PROVE  \E j \in DOMAIN log2 : log2[j] = log1[i]
<1> DEFINE In(lines) == {k \in DOMAIN lines : lines[k] = log1[i]}
<1>1. DOMAIN log1 = 1 .. Len(log1) /\ Len(log1) \in Nat
  OBVIOUS
<1>2. IsFiniteSet(In(log1)) /\ i \in In(log1)
  BY <1>1, PlacesOf, FS_Subset
<1>3. Cardinality(In(log1)) # 0
  BY <1>2, FS_EmptySet
<1>4. Cardinality(In(log2)) # 0
  BY <1>3 DEF SameEntries, Occurrences
<1>5. In(log2) # {}
  BY <1>4, FS_EmptySet
<1> QED
  BY <1>5

(* What a log is read back as when each of its lines can be parsed.        *)
LEMMA ReadLogOf ==
  ASSUME NEW lines \in Seq(Entry), \A i \in DOMAIN lines : Parsable(lines[i])
  PROVE  /\ ReadLog(lines) \in Seq(Entry) /\ DOMAIN ReadLog(lines) = DOMAIN lines
         /\ Len(ReadLog(lines)) = Len(lines)
         /\ \A i \in DOMAIN lines : ReadLog(lines)[i] = ReadBack(lines[i])
<1> DEFINE back == [i \in DOMAIN lines |-> ReadBack(lines[i])]
<1>1. DOMAIN lines = 1 .. Len(lines) /\ Len(lines) \in Nat /\ \A i \in 1 .. Len(lines) : lines[i] \in Entry
  OBVIOUS
<1>2. ASSUME NEW i \in 1 .. Len(lines)
      PROVE  ReadBack(lines[i]) \in Entry
  <2> DEFINE words == lines[i].origin \o lines[i].value
  <2>1. lines[i].origin \in Words /\ lines[i].value \in Words /\ lines[i].type \in Types
    BY <1>1 DEF Entry
  <2>2. words \in Seq(Nat)
    BY <2>1 DEF Words
  <2>3. Len(words) > 1
    BY <1>1 DEF Parsable, LineWords
  <2> HIDE DEF words
  <2>4. Head(words) \in Nat /\ Tail(words) \in Seq(Nat)
    BY <2>2, <2>3
  <2>5. <<Head(words)>> \in Seq(Nat)
    BY <2>4
  <2>6. ReadBack(lines[i]) = [type |-> lines[i].type, origin |-> <<Head(words)>>, value |-> Tail(words)]
    BY DEF ReadBack, LineWords, words
  <2> QED
    BY <2>1, <2>4, <2>5, <2>6 DEF Entry, Words
<1>3. back = [i \in 1 .. Len(lines) |-> back[i]] /\ \A i \in 1 .. Len(lines) : back[i] \in Entry
  BY <1>1, <1>2
<1>4. back \in Seq(Entry) /\ Len(back) = Len(lines) /\ DOMAIN back = DOMAIN lines
  BY <1>1, <1>3, FunctionSeq
<1>5. [i \in DOMAIN lines |-> IF Parsable(lines[i]) THEN <<ReadBack(lines[i])>> ELSE <<>>]
        = [i \in DOMAIN back |-> <<back[i]>>]
  BY <1>4
<1>6. ReadLog(lines) = back
  BY <1>4, <1>5, FlattenSingles DEF ReadLog
<1>7. \A i \in DOMAIN lines : back[i] = ReadBack(lines[i])
  OBVIOUS
<1> HIDE DEF back
<1> QED
  BY <1>4, <1>6, <1>7

(* An entry whose origin is one word is read back as it was written.       *)
LEMMA ReadBackOf ==
  ASSUME NEW e \in Entry, Len(e.origin) = 1
  PROVE  ReadBack(e) = e
<1>1. e = [type |-> e.type, origin |-> e.origin, value |-> e.value]
  BY DEF Entry
<1> DEFINE o == e.origin
           v == e.value
           words == o \o v
<1>2. o \in Seq(Nat) /\ v \in Seq(Nat) /\ Len(o) = 1
  BY DEF Entry, Words
<1> HIDE DEF o, v
<1>3. /\ words \in Seq(Nat) /\ Len(words) = Len(o) + Len(v)
      /\ \A i \in 1 .. Len(o) + Len(v) : words[i] = IF i <= Len(o) THEN o[i] ELSE v[i - Len(o)]
  BY <1>2, ConcatProperties
<1> HIDE DEF words
<1>4. Len(v) \in Nat /\ Len(words) = Len(v) + 1 /\ words # <<>>
  BY <1>2, <1>3
<1>5. <<Head(words)>> = o
  <2>1. Head(words) = o[1]
    BY <1>2, <1>3, <1>4
  <2> QED
    BY <1>2, <2>1
<1>6. Tail(words) = v
  <2> DEFINE t == Tail(words)
  <2>1. /\ t \in Seq(Nat) /\ Len(t) = Len(v)
        /\ \A i \in 1 .. Len(v) : t[i] = words[i + 1]
    BY <1>3, <1>4
  <2>2. \A i \in 1 .. Len(v) : words[i + 1] = v[i]
    BY <1>2, <1>3, <1>4
  <2> HIDE DEF t
  <2>3. t = v
    BY <1>2, <2>1, <2>2, SeqEqual
  <2> QED
    BY <2>3 DEF t
<1> QED
  BY <1>1, <1>5, <1>6 DEF ReadBack, LineWords, o, v, words

(* A log whose origins are one word each is read back as it was written.   *)
LEMMA ReadableIsRead ==
  ASSUME NEW lines \in Seq(Entry), \A i \in DOMAIN lines : Parsable(lines[i]), Readable(lines)
  PROVE  ReadLog(lines) = lines
<1>1. /\ ReadLog(lines) \in Seq(Entry) /\ Len(ReadLog(lines)) = Len(lines)
      /\ \A i \in DOMAIN lines : ReadLog(lines)[i] = ReadBack(lines[i])
  BY ReadLogOf
<1>2. \A i \in DOMAIN lines : ReadBack(lines[i]) = lines[i]
  <2> TAKE i \in DOMAIN lines
  <2>1. lines[i] \in Entry
    OBVIOUS
  <2> QED
    BY <2>1, ReadBackOf DEF Readable
<1>3. \A i \in 1 .. Len(ReadLog(lines)) : ReadLog(lines)[i] = lines[i]
  BY <1>1, <1>2
<1> QED
  BY <1>1, <1>3, SeqEqual

(* The log that is read back has the entries of a result if and only if    *)
(* the result that was written has, and all of them can be read.           *)
LEMMA ComparedAsWritten ==
  ASSUME NEW lines \in Results, NEW found \in Results
  PROVE  SameEntries(ReadLog(lines), found) <=> Readable(found) /\ SameEntries(lines, found)
<1>1. lines \in Seq(Entry) /\ found \in Seq(Entry) /\ \A i \in DOMAIN lines : Parsable(lines[i])
  <2>1. lines \in Seq(Entry) /\ found \in Seq(Entry)
    BY ResultsAssumption
  <2>2. \A i \in DOMAIN lines : Parsable(lines[i])
    BY EntriesAssumption
  <2> QED
    BY <2>1, <2>2
<1>2. /\ ReadLog(lines) \in Seq(Entry) /\ DOMAIN ReadLog(lines) = DOMAIN lines
      /\ Len(ReadLog(lines)) = Len(lines)
      /\ \A i \in DOMAIN lines : ReadLog(lines)[i] = ReadBack(lines[i])
  BY <1>1, ReadLogOf
<1>3. ASSUME SameEntries(ReadLog(lines), found)
      PROVE  Readable(found) /\ SameEntries(lines, found)
  <2>1. ASSUME NEW i \in DOMAIN lines
        PROVE  ReadLog(lines)[i] = lines[i] /\ Len(lines[i].origin) = 1
    <3>1. PICK j \in DOMAIN found : found[j] = ReadLog(lines)[i]
      <4> DEFINE back == ReadLog(lines)
      <4>1. i \in DOMAIN back /\ back \in Seq(Entry) /\ found \in Seq(Entry)
        BY <1>1, <1>2
      <4>2. SameEntries(back, found)
        BY <1>3
      <4> HIDE DEF back
      <4>3. \E j \in DOMAIN found : found[j] = back[i]
        BY <4>1, <4>2, SameEntriesAreIn
      <4> QED
        BY <4>3 DEF back
    <3>2. ReadBack(lines[i]) = found[j]
      BY <1>2, <3>1
    <3>3. lines[i] = found[j]
      BY <3>2, EntriesAssumption
    <3>4. Len(ReadBack(lines[i]).origin) = 1
      BY DEF ReadBack
    <3> QED
      BY <1>2, <3>2, <3>3, <3>4
  <2>2. \A i \in 1 .. Len(ReadLog(lines)) : ReadLog(lines)[i] = lines[i]
    BY <1>1, <1>2, <2>1
  <2>3. ReadLog(lines) = lines
    BY <1>1, <1>2, <2>2, SeqEqual
  <2>4. SameEntries(lines, found)
    BY <1>3, <2>3
  <2>5. \A j \in DOMAIN found : Len(found[j].origin) = 1
    <3> TAKE j \in DOMAIN found
    <3>1. PICK i \in DOMAIN lines : lines[i] = found[j]
      BY <1>1, <2>4, SameEntriesHaveAll
    <3> QED
      BY <2>1, <3>1
  <2> QED
    BY <2>4, <2>5 DEF Readable
<1>4. ASSUME Readable(found), SameEntries(lines, found)
      PROVE  SameEntries(ReadLog(lines), found)
  <2>1. \A i \in DOMAIN lines : Len(lines[i].origin) = 1
    <3> TAKE i \in DOMAIN lines
    <3>1. PICK j \in DOMAIN found : found[j] = lines[i]
      BY <1>1, <1>4, SameEntriesAreIn
    <3> QED
      BY <1>4, <3>1 DEF Readable
  <2>2. ReadLog(lines) = lines
    BY <1>1, <2>1, ReadableIsRead DEF Readable
  <2> QED
    BY <1>4, <2>2
<1> QED
  BY <1>3, <1>4

-----------------------------------------------------------------------------
(* The result is not that of the scan whose log the link names.            *)
Unlike(link) ==
  ~(Readable(result) /\ link \in Stamps /\ SameEntries(meant[link], result))

(* While the log is written the latest link is at the one the result was   *)
(* compared with; then that is the one the previous link is moved to.      *)
StatusAgrees ==
  /\ pc \in {"create", "write"} => Unlike(latest)
  /\ pc \in Linking => Unlike(prev)
  /\ ExitStatus

(* What was to be written is what a scan has found.                        *)
MeantFound == \A s \in Stamps : meant[s] \in Results \cup {<<>>}

StatusInv == MeantFound /\ (~reused => StatusAgrees)

LEMMA MeantPreserved ==
  ASSUME LogIInv, MeantFound, [LogNext]_logvars
  PROVE  MeantFound'
<1>1. CASE CreateLog
  <2>1. result \in Results \cup {<<>>} /\ meant \in [Stamps -> Seq(Entry)]
    BY DEF LogIInv, LogTypeOK
  <2> QED
    BY <1>1, <2>1 DEF CreateLog, MeantFound
<1>2. CASE ~CreateLog
  <2>1. UNCHANGED meant
    BY <1>2 DEF LogNext, Start, OpenPrevious, OpenLatest, Scan, WriteEntry, UnlinkLatest,
                LinkLatest, UnlinkPrevious, LinkPrevious, Abort, Tick, Rest, logvars, ghosts
  <2> QED
    BY <2>1 DEF MeantFound
<1> QED
  BY <1>1, <1>2

(* main(): what was found is compared with what the latest link names.     *)
LEMMA ScanStatusAgrees ==
  ASSUME LogIInv, MeantFound, ~reused, StatusAgrees, Scan
  PROVE  StatusAgrees'
<1>1. /\ pc = "scan" /\ result' \in Results
      /\ UNCHANGED <<stamp, files, latest, previous, scans, log_path, prev, meant, reused>>
  BY DEF Scan, dirVars, ghosts
<1>2. CASE result' = <<>>
  <2>1. pc' = "idle" /\ exit' = 0
    <3>1. result' = <<>> /\ EndScan(0)
      BY <1>2 DEF Scan
    <3> QED
      BY <3>1 DEF EndScan
  <2> QED
    BY <1>2, <2>1 DEF StatusAgrees, ExitStatus, Linking
<1>3. CASE result' # <<>>
  <2>1. ASSUME latest \in Stamps
        PROVE  SameEntries(ReadAll(latest), result') <=>
                 Readable(result') /\ SameEntries(meant[latest], result')
    <3>1. meant[latest] # <<>> /\ files[latest] = meant[latest]
      BY <2>1 DEF LogIInv, LinksSound, Complete
    <3>2. meant[latest] \in Results
      BY <2>1, <3>1 DEF MeantFound
    <3>3. ReadAll(latest) = ReadLog(meant[latest])
      BY <2>1, <3>1 DEF ReadAll
    <3> QED
      BY <1>1, <3>2, <3>3, ComparedAsWritten
  <2>2. ASSUME latest \notin Stamps
        PROVE  ~SameEntries(ReadAll(latest), result')
    <3>1. ReadAll(latest) = <<>>
      BY <2>2 DEF ReadAll
    <3>2. result' \in Seq(Entry)
      BY <1>1, ResultsAssumption
    <3>3. Len(result') # 0
      BY <1>3, <3>2
    <3> QED
      BY <3>1, <3>3 DEF SameEntries
  <2>3. SameEntries(ReadAll(latest), result') <=> ~Unlike(latest)'
    BY <1>1, <2>1, <2>2 DEF Unlike, Readable
  <2>4. CASE SameEntries(ReadAll(latest), result')
    <3>1. pc' = "idle" /\ exit' = 2
      BY <1>3, <2>4 DEF Scan, EndScan
    <3>2. ~Unlike(latest)'
      BY <2>3, <2>4
    <3> QED
      BY <1>3, <3>1, <3>2 DEF StatusAgrees, ExitStatus, ComparedWith, Unlike, Linking
  <2>5. CASE ~SameEntries(ReadAll(latest), result')
    <3>1. pc' = "create"
      BY <1>3, <2>5 DEF Scan
    <3>2. Unlike(latest)'
      BY <2>3, <2>5
    <3> QED
      BY <3>1, <3>2 DEF StatusAgrees, ExitStatus, Linking
  <2> QED
    BY <2>4, <2>5
<1> QED
  BY <1>2, <1>3

LEMMA StatusPreserved ==
  ASSUME LogIInv, MeantFound, ~reused => StatusAgrees, [LogNext]_logvars, ~reused'
  PROVE  StatusAgrees'
<1> USE DEF StatusAgrees, Linking
<1>u. ~reused
  BY DEF LogNext, Start, OpenPrevious, OpenLatest, Scan, CreateLog, WriteEntry,
         UnlinkLatest, LinkLatest, UnlinkPrevious, LinkPrevious, Abort, Tick, Rest,
         logvars, ghosts
<1>1. CASE Start \/ OpenPrevious \/ OpenLatest
  BY <1>1 DEF Start, OpenPrevious, OpenLatest, ExitStatus
<1>2. CASE Scan
  BY <1>2, <1>u, ScanStatusAgrees
<1>3. CASE CreateLog
  <2>1. latest # stamp \/ latest \notin Stamps
    <3>1. meant[stamp] = <<>>
      BY <1>3 DEF CreateLog
    <3> QED
      BY <1>u, <3>1 DEF LogIInv, LinksSound, Complete
  <2>2. latest \in Stamps => meant'[latest] = meant[latest]
    BY <1>3, <2>1 DEF CreateLog, LogIInv, LogTypeOK
  <2>3. pc = "create" /\ pc' = "write" /\ UNCHANGED <<latest, result>>
    BY <1>3 DEF CreateLog
  <2>4. Unlike(latest)'
    BY <1>u, <2>2, <2>3 DEF Unlike, Readable
  <2> QED
    BY <2>3, <2>4 DEF ExitStatus
<1>4. CASE WriteEntry
  BY <1>4, <1>u DEF WriteEntry, ghosts, Unlike, Readable, ExitStatus
<1>5. CASE UnlinkLatest
  BY <1>5, <1>u DEF UnlinkLatest, ghosts, Unlike, Readable, ExitStatus
<1>6. CASE LinkLatest
  <2>1. pc' = "unlink_previous" /\ pc = "link_latest" /\ UNCHANGED <<result, prev, meant>>
    BY <1>6 DEF LinkLatest, LogIInv, Moved, ghosts
  <2> QED
    BY <1>u, <2>1 DEF Unlike, Readable, ExitStatus
<1>7. CASE UnlinkPrevious
  BY <1>7, <1>u DEF UnlinkPrevious, ghosts, Unlike, Readable, ExitStatus
<1>8. CASE LinkPrevious
  <2>1. /\ pc = "link_previous" /\ pc' = "idle" /\ exit' = 0
        /\ UNCHANGED <<result, prev, meant>>
    BY <1>8 DEF LinkPrevious, EndScan, ghosts
  <2>2. Unlike(prev)'
    BY <1>u, <2>1 DEF Unlike, Readable
  <2> QED
    BY <2>1, <2>2 DEF ExitStatus, ComparedWith, Unlike
<1>9. CASE Abort
  BY <1>9 DEF Abort, EndScan, ExitStatus
<1>10. CASE Tick \/ Rest \/ UNCHANGED logvars
  <2>1. UNCHANGED <<pc, latest, prev, result, exit, meant, reused>>
    BY <1>10 DEF Tick, Rest, logvars, dirVars, ghosts
  <2> QED
    BY <1>u, <2>1 DEF Unlike, Readable, ExitStatus, ComparedWith
<1> QED
  BY <1>1, <1>2, <1>3, <1>4, <1>5, <1>6, <1>7, <1>8, <1>9, <1>10 DEF LogNext

(* The exit status of portscan -l is 2 if and only if nothing has changed  *)
(* since the scan whose log the latest link names: what is read back from  *)
(* that log compares as what that scan had found, however many scans were  *)
(* killed or have failed in between.                                       *)
THEOREM ExitStatusTellsChange == LogSpec => []ExitStatus
<1>1. LogInit => StatusInv
  BY DEF LogInit, StatusInv, MeantFound, StatusAgrees, ExitStatus, NotYet, Linking
<1>2. LogIInv /\ StatusInv /\ [LogNext]_logvars => StatusInv'
  BY MeantPreserved, StatusPreserved DEF StatusInv
<1>3. StatusInv => ExitStatus
  BY DEF StatusInv, StatusAgrees, ExitStatus
<1> QED
  BY <1>1, <1>2, <1>3, LogDirectorySound, PTL DEF LogSpec
=============================================================================
