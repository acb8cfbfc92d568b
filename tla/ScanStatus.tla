----------------------------- MODULE ScanStatus -----------------------------
(***************************************************************************)
(* portscan/status.c: the progress reports of portscan.  The workers and   *)
(* the main thread share a status word that signal handlers set and        *)
(* portscan_status_print() takes, a counter, and a ring of the paths that  *)
(* were started last.  One report is a few atomic operations of one thread *)
(* with those of the others and the signals in between.                    *)
(***************************************************************************)
EXTENDS Naturals, Sequences

CONSTANTS
  Workers,      (* the threads of the work queue                         *)
  Main,         (* the main thread                                       *)
  Slots,        (* current_paths.len                                     *)
  MaxRequests,  (* bound on the SIGUSR2 and SIGINFO the user sends       *)
  Names         (* the categories and origins there can be               *)

ASSUME MainAssumption == Main \notin Workers
ASSUME SlotsAssumption == Slots \in Nat \ {0}
ASSUME MaxRequestsAssumption == MaxRequests \in Nat
ASSUME NamesAssumption == Names \subseteq Nat \ {0}

Threads == Workers \cup {Main}
NoName == 0

VARIABLES
  interval,          (* interval > 0: reports are wanted regularly       *)
  state,             (* start, categories, ports or finished             *)
  scanned,           (* jobs done in this round                          *)
  max_scanned,       (* jobs in this round                               *)
  status_requested,  (* the pending request: "none", "alrm" or "usr2"    *)
  alarm,             (* alarm(interval) has not gone off yet             *)
  current_paths,     (* current_paths.buf: the names mixed in each slot  *)
  next_slot,         (* current_paths.i % current_paths.len              *)
  copy,              (* what a worker copies where, and what may mix in  *)
  at,                (* where a thread is in portscan_status_print()     *)
  stderr,            (* the last line that was printed                   *)
  requests           (* the number of requests the user has sent         *)

statusVars == <<interval, state, scanned, max_scanned, status_requested, alarm,
                current_paths, next_slot, copy, at, stderr, requests>>
roundVars == <<interval, state, scanned, max_scanned>>
pathVars == <<current_paths, next_slot, copy>>

Places == {"out", "copy", "usr2", "alrm", "paths", "report"}

-----------------------------------------------------------------------------
(* portscan_status_init()                                                  *)
StatusInit ==
  /\ interval \in BOOLEAN
  /\ state = "start"
  /\ scanned = 0
  /\ max_scanned = 0
  /\ status_requested = "none"
  /\ alarm = interval
  /\ current_paths = [s \in 0 .. (Slots - 1) |-> {}]
  /\ next_slot = 0
  /\ copy = [t \in Workers |-> [slot |-> 0, name |-> NoName, mixed |-> {}]]
  /\ at = [t \in Threads |-> "out"]
  /\ stderr = "none"
  /\ requests = 0

(* portscan_status_signal_handler(), on whatever thread it interrupts.     *)
AlarmGoesOff ==
  /\ alarm
  /\ alarm' = FALSE
  /\ status_requested' = "alrm"
  /\ UNCHANGED <<roundVars, pathVars, at, stderr, requests>>

UserAsks ==
  /\ requests < MaxRequests
  /\ requests' = requests + 1
  /\ status_requested' = "usr2"
  /\ UNCHANGED <<roundVars, alarm, pathVars, at, stderr>>

(* Faulty: the paths of the last round stay.                               *)
ResetKeepingPaths(new_state, max) ==
  /\ state' = new_state
  /\ scanned' = 0
  /\ max_scanned' = max
  /\ status_requested' = IF interval THEN "alrm" ELSE status_requested
  /\ UNCHANGED <<interval, alarm, pathVars, stderr, requests>>

(* portscan_status_reset(): none of its assignments but the one of the     *)
(* status word is safe against another thread (ResetAlone), and that one   *)
(* overwrites a pending request of the user.                               *)
Reset(new_state, max) ==
  /\ state' = new_state
  /\ scanned' = 0
  /\ max_scanned' = max
  /\ status_requested' = IF interval THEN "alrm" ELSE status_requested
  /\ current_paths' = [s \in DOMAIN current_paths |-> {}]
  /\ UNCHANGED <<interval, alarm, next_slot, copy, stderr, requests>>

-----------------------------------------------------------------------------
(* portscan_status_print(): a worker takes the next slot for its path and  *)
(* copies it there, the main thread has none.  Nothing keeps two workers   *)
(* from copying into the same slot, one of them overtaken by as many       *)
(* others as there are slots; the copies then mix.                         *)
Beside(t) ==
  {u \in Workers \ {t} : at[u] = "copy" /\ copy[u].slot = next_slot}

TakeSlot(t, name) ==
  /\ at[t] = "out"
  /\ copy' = [u \in Workers |->
       CASE u = t -> [slot |-> next_slot, name |-> name,
                      mixed |-> {copy[v].name : v \in Beside(t)}]
         [] u \in Beside(t) -> [copy[u] EXCEPT !.mixed = @ \cup {name}]
         [] OTHER -> copy[u]]
  /\ next_slot' = (next_slot + 1) % Slots
  /\ at' = [at EXCEPT ![t] = "copy"]
  /\ UNCHANGED <<roundVars, status_requested, alarm, current_paths, stderr, requests>>

CopyPath(t) ==
  /\ at[t] = "copy"
  /\ \E mixed \in SUBSET copy[t].mixed :
       current_paths' = [current_paths EXCEPT ![copy[t].slot] = {copy[t].name} \cup mixed]
  /\ at' = [at EXCEPT ![t] = "usr2"]
  /\ UNCHANGED <<roundVars, status_requested, alarm, next_slot, copy, stderr, requests>>

(* The first compare and exchange.                                         *)
TakeUsr2(t) ==
  /\ at[t] = "usr2"
  /\ \/ /\ status_requested = "usr2"
        /\ status_requested' = "none"
        /\ at' = [at EXCEPT ![t] = "paths"]
     \/ /\ status_requested # "usr2"
        /\ at' = [at EXCEPT ![t] = "alrm"]
        /\ UNCHANGED status_requested
  /\ UNCHANGED <<roundVars, alarm, pathVars, stderr, requests>>

(* Faulty: without a request the thread looks again.                       *)
TakeAlrmRetrying(t) ==
  /\ at[t] = "alrm"
  /\ \/ /\ status_requested = "alrm"
        /\ status_requested' = "none"
        /\ at' = [at EXCEPT ![t] = "report"]
     \/ /\ status_requested # "alrm"
        /\ at' = [at EXCEPT ![t] = "usr2"]
        /\ UNCHANGED status_requested
  /\ UNCHANGED <<roundVars, alarm, pathVars, stderr, requests>>

(* The second compare and exchange.                                        *)
TakeAlrm(t) ==
  /\ at[t] = "alrm"
  /\ \/ /\ status_requested = "alrm"
        /\ status_requested' = "none"
        /\ at' = [at EXCEPT ![t] = "report"]
     \/ /\ status_requested # "alrm"
        /\ at' = [at EXCEPT ![t] = "out"]
        /\ UNCHANGED status_requested
  /\ UNCHANGED <<roundVars, alarm, pathVars, stderr, requests>>

(* The line of the current paths, which is followed by a progress report.  *)
PrintPaths(t) ==
  /\ at[t] = "paths"
  /\ at' = [at EXCEPT ![t] = "report"]
  /\ UNCHANGED <<roundVars, status_requested, alarm, pathVars, stderr, requests>>

(* Faulty: the alarm is not set again.                                     *)
PrintProgressOnce(t) ==
  /\ at[t] = "report"
  /\ stderr' = IF state = "finished" THEN "finished" ELSE "progress"
  /\ at' = [at EXCEPT ![t] = "out"]
  /\ UNCHANGED <<roundVars, status_requested, alarm, pathVars, requests>>

(* portscan_status_print_progress()                                        *)
PrintProgress(t) ==
  /\ at[t] = "report"
  /\ stderr' = IF state = "finished" THEN "finished" ELSE "progress"
  /\ alarm' = interval
  /\ at' = [at EXCEPT ![t] = "out"]
  /\ UNCHANGED <<roundVars, status_requested, pathVars, requests>>

PrintStep(t) == TakeUsr2(t) \/ TakeAlrm(t) \/ PrintPaths(t) \/ PrintProgress(t)

-----------------------------------------------------------------------------
(* When reports are wanted regularly the next one is always on its way:    *)
(* the alarm is set, or its signal has left a request, or a thread has     *)
(* taken the request and sets the alarm when it has reported.  Whatever    *)
(* signals and threads do to the word in between, the chain never breaks.  *)
ReportsContinue ==
  interval =>
    \/ alarm
    \/ status_requested # "none"
    \/ \E t \in Threads : at[t] \in {"paths", "report"}
=============================================================================
