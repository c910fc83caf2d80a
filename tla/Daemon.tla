------------------------------- MODULE Daemon -------------------------------
(***************************************************************************)
(* The processes around the orchestrator: `daemon start` and its           *)
(* supervisor, the `quikode run` processes that the supervisor, the TUI or *)
(* a shell starts, `daemon stop`, and the four files they communicate by:  *)
(* daemon.pid, orchestrator.pid, the heartbeat and the flock.  Signals are *)
(* delivered some time after they are sent; any process may be killed.     *)
(*                                                                         *)
(* There is no clock.  A run is `old` once it has been up for longer than  *)
(* the watchdog's threshold, a heartbeat is stale once it is older than    *)
(* that, and a pid file is fresh for a while after it was written.         *)
(***************************************************************************)
EXTENDS FiniteSets, Naturals

CONSTANTS
  Sups,     \* processes that `daemon start` may create
  Runs,     \* processes that run `quikode run`
  None,     \* no process
  WatchOn   \* cfg.daemon_heartbeat_stale_kill_s > 0

ASSUME ProcessAssumption ==
  /\ None \notin Sups \cup Runs
  /\ WatchOn \in BOOLEAN

VARIABLES
  sup,    \* the supervisors, see SupRecord
  run,    \* the orchestrator processes, see RunRecord
  pidf,   \* daemon.pid: the supervisor it names, or None
  opid,   \* orchestrator.pid: the run it names, and whether it is under a minute old
  hb,     \* orchestrator.heartbeat: absent, fresh or stale
  lock,   \* who holds the flock on orchestrator.lock
  stop    \* the one `daemon stop` in progress, see StopRecord

vars == <<sup, run, pidf, opid, hb, lock, stop>>
files == <<pidf, opid, hb>>

(***************************************************************************)
(* shut: state.shutdown.  child: the process Popen returned.  stale:       *)
(* consecutive stale reads.  sig: a SIGTERM is on its way.  fuse: the      *)
(* failsafe timer runs.  dead: exited, not reaped by whoever started it.   *)
(***************************************************************************)
SupRecord ==
  [pc : {"off", "start", "loop", "spawn", "spawned", "wait", "drain", "term",
         "backoff", "exit", "dead"},
   shut : BOOLEAN, child : Runs \cup {None}, stale : 0..2, sig : BOOLEAN,
   fuse : BOOLEAN]

(***************************************************************************)
(* dead: exited, not reaped by its parent.  par: the living supervisor     *)
(* that spawned it; born: the same, kept after that one died.  old: up for *)
(* longer than the threshold.  seen: the heartbeat file was written since  *)
(* this process started.  late: spawned after `daemon stop` listed /proc.  *)
(* ok: the exit code is 0.                                                 *)
(***************************************************************************)
RunRecord ==
  [pc : {"none", "boot", "prep", "pid", "run", "stopping", "dead"},
   par : Sups \cup {None}, born : Sups \cup {None}, sig : BOOLEAN,
   hung : BOOLEAN, old : BOOLEAN, seen : BOOLEAN, late : BOOLEAN, ok : BOOLEAN]

(***************************************************************************)
(* todo: processes that are listed and not yet looked at, and later those  *)
(* still to be signalled.  snap: the descendants found.  reached, which    *)
(* the program does not keep: the supervisor still ran when SIGTERM was    *)
(* sent to it.                                                             *)
(***************************************************************************)
StopRecord ==
  [pc : {"idle", "look", "scan", "wait", "kill", "clean"}, pid : Sups \cup {None},
   todo : SUBSET Runs, snap : SUBSET Runs, reached : BOOLEAN]

NoSup ==
  [pc |-> "off", shut |-> FALSE, child |-> None, stale |-> 0, sig |-> FALSE, fuse |-> FALSE]

NoRun ==
  [pc |-> "none", par |-> None, born |-> None, sig |-> FALSE, hung |-> FALSE,
   old |-> FALSE, seen |-> FALSE, late |-> FALSE, ok |-> FALSE]

NoPid == [pid |-> None, fresh |-> FALSE]

NoStop == [pc |-> "idle", pid |-> None, todo |-> {}, snap |-> {}, reached |-> FALSE]

(* Every process record, file and the stop command keep their types.       *)
TypeOK ==
  /\ sup \in [Sups -> SupRecord]
  /\ run \in [Runs -> RunRecord]
  /\ pidf \in Sups \cup {None}
  /\ opid \in [pid : Runs \cup {None}, fresh : BOOLEAN]
  /\ hb \in {"none", "fresh", "stale"}
  /\ lock \in Runs \cup {None}
  /\ stop \in StopRecord

Init ==
  /\ sup = [s \in Sups |-> NoSup]
  /\ run = [r \in Runs |-> NoRun]
  /\ pidf = None
  /\ opid = NoPid
  /\ hb = "none"
  /\ lock = None
  /\ stop = NoStop

-----------------------------------------------------------------------------
(* Processes and signals.                                                  *)

(* process_alive, for which a zombie is dead.                              *)
SupAlive(s) == sup[s].pc \notin {"off", "dead"}

RunAlive(r) == run[r].pc \notin {"none", "dead"}

(* kill(pid, 0) also succeeds for a zombie.                                *)
Signalable(s) == sup[s].pc # "off"

(* Whether daemon.pid names a process, as `start` and `stop` test it.      *)
NamesLiving(p) == p # None /\ Signalable(p)

(* A pid that nobody remembers can be given to a new process.              *)
FreshRun(r) == run[r].pc = "none" /\ r # opid.pid /\ r \notin stop.snap \cup stop.todo

(* The process is gone; a living parent still has to reap it, and the      *)
(* kernel drops its flock.                                                 *)
Gone(r, ok) ==
  IF run[r].par = None THEN NoRun ELSE [NoRun EXCEPT !.pc = "dead", !.par = run[r].par,
                                                     !.ok = ok]

Unlock(r) == lock' = IF lock = r THEN None ELSE lock

Dies(r) ==
  /\ run' = [run EXCEPT ![r] = Gone(r, FALSE)]
  /\ Unlock(r)

(* run() returns or raises inside its try: pid file and lock are released. *)
Exits(r, ok) ==
  /\ run' = [run EXCEPT ![r] = Gone(r, ok)]
  /\ opid' = NoPid
  /\ Unlock(r)
  /\ UNCHANGED <<sup, pidf, hb, stop>>

SigtermSup(s) == sup' = IF SupAlive(s) THEN [sup EXCEPT ![s].sig = TRUE] ELSE sup

SigtermRun(rs) == run' = [r \in Runs |-> IF r \in rs /\ RunAlive(r)
                                         THEN [run[r] EXCEPT !.sig = TRUE] ELSE run[r]]

NewRun(parent) ==
  [NoRun EXCEPT !.pc = "boot", !.par = parent, !.born = parent,
                !.late = stop.pc \notin {"idle", "look"}]

-----------------------------------------------------------------------------
(* `daemon start` and supervise.                                           *)

(* The pid file is only looked at here and written in the next step.       *)
StartDaemon(s) ==
  /\ ~Signalable(s) /\ s \notin {pidf, stop.pid}
  /\ \A r \in Runs : run[r].born # s
  /\ ~NamesLiving(pidf)
  /\ sup' = [sup EXCEPT ![s] = [NoSup EXCEPT !.pc = "start"]]
  /\ UNCHANGED <<run, files, lock, stop>>

WritePidFile(s) ==
  /\ sup[s].pc = "start"
  /\ pidf' = s
  /\ sup' = [sup EXCEPT ![s].pc = "loop"]
  /\ UNCHANGED <<run, opid, hb, lock, stop>>

LoopTop(s) ==
  /\ sup[s].pc = "loop"
  /\ sup' = [sup EXCEPT ![s].pc = IF sup[s].shut THEN "exit" ELSE "spawn"]
  /\ UNCHANGED <<run, files, lock, stop>>

(* The old heartbeat is unlinked, if that succeeds, and Popen returns.     *)
SpawnChild(s, r) ==
  /\ sup[s].pc = "spawn" /\ FreshRun(r)
  /\ hb' \in {"none", hb}
  /\ run' = [run EXCEPT ![r] = NewRun(s)]
  /\ sup' = [sup EXCEPT ![s].pc = "spawned", ![s].child = r, ![s].stale = 0]
  /\ UNCHANGED <<pidf, opid, lock, stop>>

(* state.current_child = child.                                            *)
AdoptChild(s) ==
  /\ sup[s].pc = "spawned"
  /\ sup' = [sup EXCEPT ![s].pc = IF WatchOn THEN "wait" ELSE "drain"]
  /\ UNCHANGED <<run, files, lock, stop>>

Adopted(s) == sup[s].pc \in {"wait", "drain", "term"}

(* Mutant: a heartbeat of an earlier generation counts against the child.  *)
ChildStaleAnyHeartbeat(r) ==
  IF hb = "none" THEN run[r].old ELSE hb = "stale"

(* ts_age > threshold: a heartbeat from before the child started counts as *)
(* no heartbeat, and then the child's own age is what is compared.         *)
ChildStale(r) ==
  IF hb = "none" \/ ~run[r].seen THEN run[r].old ELSE hb = "stale"

(* Mutant: the watchdog only counts.                                       *)
WatchStaleCounts(s) ==
  /\ sup[s].pc = "wait" /\ ~sup[s].shut
  /\ RunAlive(sup[s].child) /\ ChildStale(sup[s].child)
  /\ sup' = [sup EXCEPT ![s].stale = @ + 1]
  /\ UNCHANGED <<run, files, lock, stop>>

(* The second stale read in a row sends SIGTERM.                           *)
WatchStale(s) ==
  /\ sup[s].pc = "wait" /\ ~sup[s].shut
  /\ RunAlive(sup[s].child) /\ ChildStale(sup[s].child)
  /\ IF sup[s].stale = 0
     THEN /\ sup' = [sup EXCEPT ![s].stale = 1]
          /\ UNCHANGED run
     ELSE /\ sup' = [sup EXCEPT ![s].stale = 2, ![s].pc = "term"]
          /\ SigtermRun({sup[s].child})
  /\ UNCHANGED <<files, lock, stop>>

WatchFresh(s) ==
  /\ sup[s].pc = "wait" /\ ~sup[s].shut /\ sup[s].stale = 1
  /\ RunAlive(sup[s].child) /\ ~ChildStale(sup[s].child)
  /\ sup' = [sup EXCEPT ![s].stale = 0]
  /\ UNCHANGED <<run, files, lock, stop>>

(* A shutdown ends the watchdog: child.wait() without a timeout.           *)
WatchShutdown(s) ==
  /\ sup[s].pc = "wait" /\ sup[s].shut
  /\ sup' = [sup EXCEPT ![s].pc = "drain"]
  /\ UNCHANGED <<run, files, lock, stop>>

(* _terminate_child: SIGKILL when the child outlives its SIGTERM.          *)
TermTimeout(s) ==
  /\ sup[s].pc = "term" /\ RunAlive(sup[s].child)
  /\ Dies(sup[s].child)
  /\ UNCHANGED <<sup, files, stop>>

(* The child is reaped: a shutdown or exit code 0 ends the supervisor,     *)
(* anything else is a crash and leads to a restart after a pause.          *)
Reap(s) ==
  /\ Adopted(s) /\ run[sup[s].child].pc = "dead"
  /\ run' = [run EXCEPT ![sup[s].child] = NoRun]
  /\ sup' = [sup EXCEPT ![s].pc = IF sup[s].shut \/ run[sup[s].child].ok
                                  THEN "exit" ELSE "backoff",
                        ![s].child = None, ![s].stale = 0, ![s].fuse = FALSE]
  /\ UNCHANGED <<files, lock, stop>>

BackoffOver(s) ==
  /\ sup[s].pc = "backoff"
  /\ sup' = [sup EXCEPT ![s].pc = IF sup[s].shut THEN "exit" ELSE "loop"]
  /\ UNCHANGED <<run, files, lock, stop>>

(* The process is a zombie; children that still run become orphans.        *)
SupGone(s) ==
  /\ sup' = [sup EXCEPT ![s] = [NoSup EXCEPT !.pc = "dead"]]
  /\ run' = [r \in Runs |->
       IF run[r].par # s THEN run[r]
       ELSE IF run[r].pc = "dead" THEN NoRun ELSE [run[r] EXCEPT !.par = None]]

(* supervise's finally unlinks the pid file, whosever it is by now.        *)
SupExit(s) ==
  /\ sup[s].pc = "exit"
  /\ SupGone(s)
  /\ pidf' = None
  /\ UNCHANGED <<opid, hb, lock, stop>>

(* The handler; before supervise has installed it the signal kills.        *)
SupSignal(s) ==
  /\ SupAlive(s) /\ sup[s].sig
  /\ IF sup[s].pc = "start"
     THEN SupGone(s)
     ELSE LET told == Adopted(s) /\ RunAlive(sup[s].child)
          IN  /\ sup' = [sup EXCEPT ![s].sig = FALSE, ![s].shut = TRUE,
                                    ![s].fuse = @ \/ told]
              /\ SigtermRun(IF told THEN {sup[s].child} ELSE {})
  /\ UNCHANGED <<files, lock, stop>>

FailsafeKill(s) ==
  /\ sup[s].fuse /\ Adopted(s) /\ RunAlive(sup[s].child)
  /\ Dies(sup[s].child)
  /\ UNCHANGED <<sup, files, stop>>

-----------------------------------------------------------------------------
(* `quikode run`.                                                          *)

(* kill(pid, 0) once more: a zombie that a supervisor has yet to reap runs. *)
TuiRunning == opid.pid # None /\ run[opid.pid].pc # "none"

(* Started from a shell.                                                   *)
StartRun(r) ==
  /\ FreshRun(r)
  /\ run' = [run EXCEPT ![r] = NewRun(None)]
  /\ UNCHANGED <<sup, files, lock, stop>>

(* orchestrator_control.spawn: the TUI writes the pid file of the child.   *)
TuiSpawn(r) ==
  /\ FreshRun(r)
  /\ ~TuiRunning
  /\ run' = [run EXCEPT ![r] = NewRun(None)]
  /\ opid' = [pid |-> r, fresh |-> TRUE]
  /\ UNCHANGED <<sup, pidf, hb, lock, stop>>

(* Mutant: containers are cleaned up and rows recovered before the flock.  *)
AcquireLockLate(r) ==
  /\ run[r].pc = "boot"
  /\ run' = [run EXCEPT ![r].pc = "prep"]
  /\ lock' = IF lock = None THEN r ELSE lock
  /\ UNCHANGED <<sup, files, stop>>

(* The flock comes before container cleanup and orphan recovery.           *)
AcquireLock(r) ==
  /\ run[r].pc = "boot"
  /\ IF lock = None
     THEN lock' = r /\ run' = [run EXCEPT ![r].pc = "prep"]
     ELSE Dies(r)
  /\ UNCHANGED <<sup, files, stop>>

Prepare(r) ==
  /\ run[r].pc = "prep"
  /\ run' = [run EXCEPT ![r].pc = "pid"]
  /\ UNCHANGED <<sup, files, lock, stop>>

(* A fresh orchestrator.pid is refused, whoever it names; no clean-up is   *)
(* registered yet.                                                         *)
WriteOrchestratorPid(r) ==
  /\ run[r].pc = "pid"
  /\ IF opid.fresh
     THEN Dies(r) /\ UNCHANGED opid
     ELSE /\ opid' = [pid |-> r, fresh |-> TRUE]
          /\ run' = [run EXCEPT ![r].pc = "run"]
          /\ UNCHANGED lock
  /\ UNCHANGED <<sup, pidf, hb, stop>>

Heartbeat(r) ==
  /\ run[r].pc = "run" /\ ~run[r].hung
  /\ hb' = "fresh"
  /\ run' = [q \in Runs |-> IF RunAlive(q) THEN [run[q] EXCEPT !.seen = TRUE] ELSE run[q]]
  /\ UNCHANGED <<sup, pidf, opid, lock, stop>>

(* The main loop is blocked in a call, and may come back from it.          *)
Hang(r) ==
  /\ run[r].pc \in {"run", "stopping"}
  /\ run' = [run EXCEPT ![r].hung = ~@]
  /\ UNCHANGED <<sup, files, lock, stop>>

(* The stop handler; until it is installed the signal kills.               *)
RunSignal(r) ==
  /\ RunAlive(r) /\ run[r].sig
  /\ IF run[r].pc \in {"run", "stopping"}
     THEN run' = [run EXCEPT ![r].sig = FALSE, ![r].pc = "stopping"] /\ UNCHANGED lock
     ELSE Dies(r)
  /\ UNCHANGED <<sup, files, stop>>

(* All tasks are terminal.                                                 *)
Finish(r) == run[r].pc = "run" /\ ~run[r].hung /\ Exits(r, TRUE)

(* An exception leaves orch.run.                                           *)
Crash(r) == run[r].pc = "run" /\ ~run[r].hung /\ Exits(r, FALSE)

(* The loop saw the stop flag and the pool's threads are done.             *)
WindDown(r) == run[r].pc = "stopping" /\ ~run[r].hung /\ Exits(r, TRUE)

-----------------------------------------------------------------------------
(* Time, and what kills processes without asking them.                     *)

GrowOld(r) ==
  /\ RunAlive(r) /\ ~run[r].old
  /\ run' = [run EXCEPT ![r].old = TRUE]
  /\ UNCHANGED <<sup, files, lock, stop>>

(* A heartbeat is younger than every process that saw it being written.    *)
HeartbeatAges ==
  /\ hb = "fresh"
  /\ \A r \in Runs : RunAlive(r) /\ run[r].seen => run[r].old
  /\ hb' = "stale"
  /\ UNCHANGED <<sup, run, pidf, opid, lock, stop>>

PidFileAges ==
  /\ opid.fresh
  /\ opid' = [opid EXCEPT !.fresh = FALSE]
  /\ UNCHANGED <<sup, run, pidf, hb, lock, stop>>

KillRun(r) ==
  /\ RunAlive(r)
  /\ Dies(r)
  /\ UNCHANGED <<sup, files, stop>>

KillSup(s) ==
  /\ SupAlive(s)
  /\ SupGone(s)
  /\ UNCHANGED <<files, lock, stop>>

(* The shell, or init, waits for the supervisor it had started.            *)
SupReaped(s) ==
  /\ sup[s].pc = "dead"
  /\ sup' = [sup EXCEPT ![s] = NoSup]
  /\ UNCHANGED <<run, files, lock, stop>>

-----------------------------------------------------------------------------
(* `daemon stop`, plain signals, and the TUI's stop commands.              *)

CleanFiles == pidf' = None /\ hb' = "none" /\ UNCHANGED opid

(* The pid file names no process.                                          *)
StopStale ==
  /\ stop.pc = "idle"
  /\ pidf # None /\ ~Signalable(pidf)
  /\ CleanFiles
  /\ UNCHANGED <<sup, run, lock, stop>>

(* The pid file names a process, running or a zombie.                      *)
StopBegin ==
  /\ stop.pc = "idle"
  /\ NamesLiving(pidf)
  /\ stop' = [NoStop EXCEPT !.pc = "look", !.pid = pidf]
  /\ UNCHANGED <<sup, run, files, lock>>

(* Mutant: only the supervisor is looked at.                               *)
StopListsNothing ==
  /\ stop.pc = "look"
  /\ stop' = [stop EXCEPT !.pc = "scan", !.todo = {}]
  /\ UNCHANGED <<sup, run, files, lock>>

(* /proc is listed once, before anything is signalled ...                  *)
StopLists ==
  /\ stop.pc = "look"
  /\ stop' = [stop EXCEPT !.pc = "scan", !.todo = {r \in Runs : run[r].pc # "none"}]
  /\ UNCHANGED <<sup, run, files, lock>>

(* ... and who is a child of the supervisor is read process by process.    *)
StopReads(r) ==
  /\ stop.pc = "scan" /\ r \in stop.todo
  /\ stop' = [stop EXCEPT !.todo = @ \ {r},
                          !.snap = IF run[r].par = stop.pid THEN @ \cup {r} ELSE @]
  /\ UNCHANGED <<sup, run, files, lock>>

(* A signal that reaches nobody is not an error.                           *)
StopSignalsSup ==
  /\ stop.pc = "scan" /\ stop.todo = {}
  /\ SigtermSup(stop.pid)
  /\ stop' = [stop EXCEPT !.pc = "wait", !.todo = stop.snap, !.reached = SupAlive(stop.pid)]
  /\ UNCHANGED <<run, files, lock>>

StopSignalsRun(r) ==
  /\ stop.pc = "wait" /\ r \in stop.todo
  /\ SigtermRun({r})
  /\ stop' = [stop EXCEPT !.todo = @ \ {r}]
  /\ UNCHANGED <<sup, files, lock>>

StopAlive == SupAlive(stop.pid) \/ \E r \in stop.snap : RunAlive(r)

StopClean ==
  /\ stop.pc \in {"wait", "kill"} /\ stop.todo = {} /\ ~StopAlive
  /\ CleanFiles
  /\ stop' = [stop EXCEPT !.pc = "clean"]
  /\ UNCHANGED <<sup, run, lock>>

StopTimeout ==
  /\ stop.pc = "wait" /\ stop.todo = {} /\ StopAlive
  /\ CleanFiles
  /\ stop' = [stop EXCEPT !.pc = "kill"]
  /\ UNCHANGED <<sup, run, lock>>

(* SIGKILL reaches the supervisor first, then its descendants.             *)
StopKillsSup ==
  /\ stop.pc = "kill" /\ SupAlive(stop.pid)
  /\ SupGone(stop.pid)
  /\ UNCHANGED <<files, lock, stop>>

StopKillsRun(r) ==
  /\ stop.pc = "kill" /\ ~SupAlive(stop.pid) /\ r \in stop.snap /\ RunAlive(r)
  /\ Dies(r)
  /\ UNCHANGED <<sup, files, stop>>

(* The command has printed its verdict.                                    *)
StopReturns ==
  /\ stop.pc = "clean"
  /\ stop' = NoStop
  /\ run' = [r \in Runs |-> [run[r] EXCEPT !.late = FALSE]]
  /\ UNCHANGED <<sup, files, lock>>

(* `kill <pid>`, or a session that ends.                                   *)
SignalSup(s) ==
  /\ SupAlive(s) /\ ~sup[s].sig
  /\ SigtermSup(s)
  /\ UNCHANGED <<run, files, lock, stop>>

TuiStop ==
  /\ TuiRunning
  /\ SigtermRun({opid.pid})
  /\ UNCHANGED <<sup, files, lock, stop>>

(* A zombie cannot be killed again.                                        *)
TuiForceQuit ==
  /\ TuiRunning
  /\ IF RunAlive(opid.pid) THEN Dies(opid.pid) ELSE UNCHANGED <<run, lock>>
  /\ opid' = NoPid
  /\ UNCHANGED <<sup, pidf, hb, stop>>

(* status() unlinks a pid file whose process is gone.                      *)
TuiStatus ==
  /\ opid.pid # None /\ ~TuiRunning
  /\ opid' = NoPid
  /\ UNCHANGED <<sup, run, pidf, hb, lock, stop>>

-----------------------------------------------------------------------------
SupStep(s) ==
  \/ WritePidFile(s) \/ LoopTop(s) \/ (\E r \in Runs : SpawnChild(s, r)) \/ AdoptChild(s)
  \/ WatchStale(s) \/ WatchFresh(s) \/ WatchShutdown(s) \/ TermTimeout(s) \/ Reap(s)
  \/ BackoffOver(s) \/ SupExit(s) \/ SupSignal(s) \/ FailsafeKill(s)

RunStep(r) ==
  \/ AcquireLock(r) \/ Prepare(r) \/ WriteOrchestratorPid(r) \/ Heartbeat(r) \/ Hang(r)
  \/ RunSignal(r) \/ Finish(r) \/ Crash(r) \/ WindDown(r)

StopStep ==
  \/ StopStale \/ StopBegin \/ StopLists \/ StopSignalsSup \/ StopClean \/ StopTimeout
  \/ StopKillsSup \/ StopReturns
  \/ \E r \in Runs : StopReads(r) \/ StopSignalsRun(r) \/ StopKillsRun(r)

OperatorStep ==
  \/ \E s \in Sups : StartDaemon(s) \/ SignalSup(s)
  \/ \E r \in Runs : StartRun(r) \/ TuiSpawn(r)
  \/ TuiStop \/ TuiForceQuit \/ TuiStatus

FateStep ==
  \/ HeartbeatAges \/ PidFileAges
  \/ \E r \in Runs : GrowOld(r) \/ KillRun(r)
  \/ \E s \in Sups : KillSup(s) \/ SupReaped(s)

Next ==
  \/ \E s \in Sups : SupStep(s)
  \/ \E r \in Runs : RunStep(r)
  \/ StopStep \/ OperatorStep \/ FateStep

Spec == Init /\ [][Next]_vars

-----------------------------------------------------------------------------
(* Properties.                                                             *)

(***************************************************************************)
(* Container clean-up and orphan recovery, which `run` does on its way in, *)
(* never meet another run's living workers: between taking the flock and   *)
(* exiting there is one orchestrator, however many starts, orphans and     *)
(* kills there are.                                                        *)
(***************************************************************************)
OneOrchestrator ==
  \A q, r \in Runs :
    {run[q].pc, run[r].pc} \subseteq {"prep", "pid", "run", "stopping"} => q = r

(***************************************************************************)
(* The watchdog gives a fresh child its grace: it gives up only on a child *)
(* that was up for longer than the threshold, even when the heartbeat file *)
(* of an earlier generation could not be removed.                          *)
(***************************************************************************)
WatchdogSparesYoung ==
  \A s \in Sups :
    sup[s].pc = "term" /\ RunAlive(sup[s].child) => run[sup[s].child].old

(***************************************************************************)
(* When `daemon stop` says it is clean and its SIGTERM found the           *)
(* supervisor running, nothing of that daemon is left: no supervisor, and  *)
(* no run it spawned before /proc was listed, not even one that lost its   *)
(* parent since.  A supervisor that lives that long cannot orphan a run    *)
(* while parents are still being read.                                     *)
(***************************************************************************)
StopIsComplete ==
  stop.pc = "clean" =>
    /\ ~SupAlive(stop.pid)
    /\ stop.reached =>
         \A r \in Runs : RunAlive(r) /\ run[r].born = stop.pid => run[r].late

=============================================================================
