---------------------------- MODULE DaemonProofs ----------------------------
(***************************************************************************)
(* Theorems about Daemon, for any number of supervisors and runs, with the *)
(* watchdog on or off.                                                     *)
(***************************************************************************)
EXTENDS Daemon, TLAPS

-----------------------------------------------------------------------------
(* The inductive invariant.                                                *)

Holding  == {"prep", "pid", "run", "stopping"}
HasChild == {"spawned", "wait", "drain", "term"}

(* Who is between taking the flock and exiting holds it.                   *)
HolderInv == \A r \in Runs : run[r].pc \in Holding => lock = r

(* The process a supervisor waits for is its own and not yet reaped, so    *)
(* its pid cannot have been given to another process.                      *)
ChildInv ==
  \A s \in Sups : sup[s].pc \in HasChild =>
    /\ sup[s].child \in Runs
    /\ run[sup[s].child].par = s
    /\ run[sup[s].child].pc # "none"

(* A heartbeat older than the threshold was only seen by old runs.         *)
HeartbeatInv ==
  hb = "stale" => \A r \in Runs : RunAlive(r) /\ run[r].seen => run[r].old

(* A run is orphaned only by the death of its supervisor.                  *)
ParentInv ==
  \A r \in Runs : RunAlive(r) /\ run[r].born # None /\ SupAlive(run[r].born)
                  => run[r].par = run[r].born

(* As long as the supervisor lives, whatever it spawned before /proc was   *)
(* listed is found or still to be looked at; when SIGTERM reaches it       *)
(* alive, all of that has been found.                                      *)
SnapInv ==
  stop.pc # "idle" =>
    /\ stop.pid \in Sups
    /\ stop.pc = "scan" /\ SupAlive(stop.pid) =>
         \A r \in Runs : RunAlive(r) /\ run[r].born = stop.pid
                         => r \in stop.snap \cup stop.todo \/ run[r].late
    /\ stop.reached =>
         /\ stop.pc \in {"wait", "kill", "clean"}
         /\ \A r \in Runs : RunAlive(r) /\ run[r].born = stop.pid
                            => r \in stop.snap \/ run[r].late

ProcInv ==
  /\ HolderInv /\ ChildInv /\ HeartbeatInv /\ WatchdogSparesYoung
  /\ ParentInv /\ SnapInv /\ StopIsComplete

IndInv == TypeOK /\ ProcInv

-----------------------------------------------------------------------------
(* Types.                                                                  *)

LEMMA RecordTypes ==
  /\ NoRun \in RunRecord
  /\ NoSup \in SupRecord
  /\ TypeOK => /\ \A r \in Runs, ok \in BOOLEAN : Gone(r, ok) \in RunRecord
               /\ \A p \in Sups \cup {None} : NewRun(p) \in RunRecord
<1>1. NoRun \in RunRecord /\ NoSup \in SupRecord
  BY DEF NoRun, NoSup, RunRecord, SupRecord
<1>2. ASSUME TypeOK, NEW r \in Runs, NEW ok \in BOOLEAN PROVE Gone(r, ok) \in RunRecord
  BY <1>1, <1>2 DEF TypeOK, Gone, RunRecord
<1>3. ASSUME NEW p \in Sups \cup {None} PROVE NewRun(p) \in RunRecord
  <2>1. ASSUME NEW b \in BOOLEAN
        PROVE  [NoRun EXCEPT !.pc = "boot", !.par = p, !.born = p, !.late = b] \in RunRecord
    BY <1>1 DEF RunRecord
  <2> QED BY <2>1 DEF NewRun
<1> QED BY <1>1, <1>2, <1>3

(* The updates of several fields at once.                                  *)
LEMMA SpawnUpdate ==
  ASSUME NEW x \in SupRecord, NEW c \in Runs
  PROVE  [x EXCEPT !.pc = "spawned", !.child = c, !.stale = 0] \in SupRecord
<1>1. ASSUME NEW n \in 0..2
      PROVE  [x EXCEPT !.pc = "spawned", !.child = c, !.stale = n] \in SupRecord
  BY DEF SupRecord
<1> QED BY <1>1

LEMMA ReapUpdate ==
  ASSUME NEW x \in SupRecord, NEW p \in {"exit", "backoff"}
  PROVE  [x EXCEPT !.pc = p, !.child = None, !.stale = 0, !.fuse = FALSE] \in SupRecord
<1>1. ASSUME NEW n \in 0..2, NEW b \in BOOLEAN
      PROVE  [x EXCEPT !.pc = p, !.child = None, !.stale = n, !.fuse = b] \in SupRecord
  BY DEF SupRecord
<1>2. 0 \in 0..2
  OBVIOUS
<1> QED BY <1>1, <1>2, Zenon

LEMMA SignalUpdate ==
  ASSUME NEW x \in SupRecord, NEW b \in BOOLEAN
  PROVE  [x EXCEPT !.sig = FALSE, !.shut = TRUE, !.fuse = b] \in SupRecord
  BY DEF SupRecord

LEMMA StoppingUpdate ==
  ASSUME NEW y \in RunRecord
  PROVE  [y EXCEPT !.sig = FALSE, !.pc = "stopping"] \in RunRecord
  BY DEF RunRecord

LEMMA DiesType ==
  ASSUME TypeOK, NEW r \in Runs, NEW ok \in BOOLEAN,
         run' = [run EXCEPT ![r] = Gone(r, ok)], Unlock(r)
  PROVE  run' \in [Runs -> RunRecord] /\ lock' \in Runs \cup {None}
  BY RecordTypes DEF TypeOK, Unlock

LEMMA SupGoneType ==
  ASSUME TypeOK, NEW s, SupGone(s)
  PROVE  run' \in [Runs -> RunRecord] /\ sup' \in [Sups -> SupRecord]
<1>1. \A r \in Runs : [run[r] EXCEPT !.par = None] \in RunRecord
  BY DEF TypeOK, RunRecord
<1>2. [NoSup EXCEPT !.pc = "dead"] \in SupRecord
  BY RecordTypes DEF SupRecord
<1> QED BY <1>1, <1>2, RecordTypes DEF TypeOK, SupGone

LEMMA SigtermSupType ==
  ASSUME TypeOK, NEW s \in Sups, SigtermSup(s)
  PROVE  /\ sup' \in [Sups -> SupRecord]
         /\ \A t \in Sups : sup'[t].pc = sup[t].pc /\ sup'[t].child = sup[t].child
<1>1. [sup[s] EXCEPT !.sig = TRUE] \in SupRecord
  BY DEF TypeOK, SupRecord
<1>2. /\ [sup[s] EXCEPT !.sig = TRUE].pc = sup[s].pc
      /\ [sup[s] EXCEPT !.sig = TRUE].child = sup[s].child
  BY DEF TypeOK, SupRecord
<1> QED BY <1>1, <1>2 DEF TypeOK, SigtermSup

LEMMA SigtermType ==
  ASSUME TypeOK, NEW rs, SigtermRun(rs)
  PROVE  run' \in [Runs -> RunRecord]
<1>1. \A r \in Runs : [run[r] EXCEPT !.sig = TRUE] \in RunRecord
  BY DEF TypeOK, RunRecord
<1> QED BY <1>1 DEF TypeOK, SigtermRun

LEMMA SupType ==
  ASSUME TypeOK, ChildInv, NEW s \in Sups, SupStep(s)
  PROVE  TypeOK'
<1> USE DEF TypeOK, files
<1>0. Adopted(s) => sup[s].child \in Runs
  BY DEF ChildInv, HasChild, Adopted
<1>1. CASE WritePidFile(s)
  BY <1>1 DEF WritePidFile, SupRecord
<1>2. CASE LoopTop(s)
  BY <1>2 DEF LoopTop, SupRecord
<1>3. ASSUME NEW r \in Runs, SpawnChild(s, r) PROVE TypeOK'
  <2>1. sup' \in [Sups -> SupRecord]
    <3>1. [sup[s] EXCEPT !.pc = "spawned", !.child = r, !.stale = 0] \in SupRecord
      BY SpawnUpdate
    <3>2. sup' = [sup EXCEPT ![s] = [sup[s] EXCEPT !.pc = "spawned", !.child = r, !.stale = 0]]
      BY <1>3 DEF SpawnChild
    <3> QED BY <3>1, <3>2
  <2>2. run' \in [Runs -> RunRecord]
    BY <1>3, RecordTypes DEF SpawnChild
  <2> QED BY <1>3, <2>1, <2>2 DEF SpawnChild
<1>4. CASE AdoptChild(s)
  BY <1>4 DEF AdoptChild, SupRecord
<1>5. CASE WatchStale(s)
  <2>1. sup' \in [Sups -> SupRecord]
    BY <1>5 DEF WatchStale, SupRecord
  <2>2. run' \in [Runs -> RunRecord]
    BY <1>5, SigtermType DEF WatchStale
  <2> QED BY <1>5, <2>1, <2>2 DEF WatchStale
<1>6. CASE WatchFresh(s)
  BY <1>6 DEF WatchFresh, SupRecord
<1>7. CASE WatchShutdown(s)
  BY <1>7 DEF WatchShutdown, SupRecord
<1>8. CASE TermTimeout(s)
  BY <1>0, <1>8, DiesType DEF TermTimeout, Dies, Adopted
<1>9. CASE Reap(s)
  <2>1. sup' \in [Sups -> SupRecord]
    <3> DEFINE p == IF sup[s].shut \/ run[sup[s].child].ok THEN "exit" ELSE "backoff"
    <3>1. [sup[s] EXCEPT !.pc = p, !.child = None, !.stale = 0, !.fuse = FALSE] \in SupRecord
      BY ReapUpdate
    <3>2. sup' = [sup EXCEPT ![s] = [sup[s] EXCEPT !.pc = p, !.child = None, !.stale = 0,
                                                   !.fuse = FALSE]]
      BY <1>9 DEF Reap
    <3> QED BY <3>1, <3>2
  <2>2. run' \in [Runs -> RunRecord]
    BY <1>9, RecordTypes DEF Reap
  <2> QED BY <1>9, <2>1, <2>2 DEF Reap
<1>10. CASE BackoffOver(s)
  BY <1>10 DEF BackoffOver, SupRecord
<1>11. CASE SupExit(s)
  BY <1>11, SupGoneType DEF SupExit
<1>12. CASE SupSignal(s)
  <2>1. CASE sup[s].pc = "start"
    BY <1>12, <2>1, SupGoneType DEF SupSignal
  <2>2. CASE sup[s].pc # "start"
    <3> DEFINE told == Adopted(s) /\ RunAlive(sup[s].child)
    <3>1. sup' \in [Sups -> SupRecord]
      <4>1. [sup[s] EXCEPT !.sig = FALSE, !.shut = TRUE, !.fuse = sup[s].fuse \/ told]
              \in SupRecord
        BY SignalUpdate
      <4>2. sup' = [sup EXCEPT ![s] = [sup[s] EXCEPT !.sig = FALSE, !.shut = TRUE,
                                                     !.fuse = sup[s].fuse \/ told]]
        BY <1>12, <2>2 DEF SupSignal
      <4> QED BY <4>1, <4>2
    <3>2. run' \in [Runs -> RunRecord]
      <4>1. SigtermRun(IF told THEN {sup[s].child} ELSE {})
        BY <1>12, <2>2 DEF SupSignal
      <4> QED BY <4>1, SigtermType
    <3> QED BY <1>12, <3>1, <3>2 DEF SupSignal
  <2> QED BY <2>1, <2>2
<1>13. CASE FailsafeKill(s)
  BY <1>0, <1>13, DiesType DEF FailsafeKill, Dies
<1> QED BY <1>1, <1>2, <1>3, <1>4, <1>5, <1>6, <1>7, <1>8, <1>9, <1>10, <1>11, <1>12, <1>13
        DEF SupStep

LEMMA RunType ==
  ASSUME TypeOK, NEW r \in Runs, RunStep(r)
  PROVE  TypeOK'
<1> USE DEF TypeOK, files
<1>0. ASSUME NEW ok \in BOOLEAN, Exits(r, ok) PROVE TypeOK'
  BY <1>0, DiesType DEF Exits, NoPid
<1>1. CASE AcquireLock(r)
  <2>1. CASE lock = None
    BY <1>1, <2>1 DEF AcquireLock, RunRecord
  <2>2. CASE lock # None
    BY <1>1, <2>2, DiesType DEF AcquireLock, Dies
  <2> QED BY <2>1, <2>2
<1>2. CASE Prepare(r)
  BY <1>2 DEF Prepare, RunRecord
<1>3. CASE WriteOrchestratorPid(r)
  <2>1. CASE opid.fresh
    BY <1>3, <2>1, DiesType DEF WriteOrchestratorPid, Dies
  <2>2. CASE ~opid.fresh
    <3>1. run' \in [Runs -> RunRecord]
      BY <1>3, <2>2 DEF WriteOrchestratorPid, RunRecord
    <3>2. [pid |-> r, fresh |-> TRUE] \in [pid : Runs \cup {None}, fresh : BOOLEAN]
      OBVIOUS
    <3> QED BY <1>3, <2>2, <3>1, <3>2 DEF WriteOrchestratorPid
  <2> QED BY <2>1, <2>2
<1>4. CASE Heartbeat(r)
  <2>1. \A q \in Runs : [run[q] EXCEPT !.seen = TRUE] \in RunRecord
    BY DEF RunRecord
  <2> QED BY <1>4, <2>1 DEF Heartbeat
<1>5. CASE Hang(r)
  <2>1. ASSUME NEW b \in BOOLEAN PROVE [run[r] EXCEPT !.hung = b] \in RunRecord
    BY DEF RunRecord
  <2>2. [run[r] EXCEPT !.hung = ~run[r].hung] \in RunRecord
    BY <2>1
  <2> QED BY <1>5, <2>2 DEF Hang
<1>6. CASE RunSignal(r)
  <2>1. CASE run[r].pc \in {"run", "stopping"}
    <3>1. [run[r] EXCEPT !.sig = FALSE, !.pc = "stopping"] \in RunRecord
      BY StoppingUpdate
    <3>2. run' = [run EXCEPT ![r] = [run[r] EXCEPT !.sig = FALSE, !.pc = "stopping"]]
      BY <1>6, <2>1 DEF RunSignal
    <3> QED BY <1>6, <2>1, <3>1, <3>2 DEF RunSignal
  <2>2. CASE run[r].pc \notin {"run", "stopping"}
    BY <1>6, <2>2, DiesType DEF RunSignal, Dies
  <2> QED BY <2>1, <2>2
<1> QED BY <1>0, <1>1, <1>2, <1>3, <1>4, <1>5, <1>6 DEF RunStep, Finish, Crash, WindDown

LEMMA OtherType ==
  ASSUME TypeOK, SnapInv, StopStep \/ OperatorStep \/ FateStep
  PROVE  TypeOK'
<1> USE DEF TypeOK, files
<1>1. CASE StopStale
  BY <1>1 DEF StopStale, CleanFiles
<1>2. CASE StopBegin
  BY <1>2 DEF StopBegin, NamesLiving, NoStop, StopRecord
<1>20. CASE StopLists
  BY <1>20 DEF StopLists, StopRecord
<1>21. ASSUME NEW r \in Runs, StopReads(r) PROVE TypeOK'
  <2>1. stop' \in StopRecord
    BY <1>21 DEF StopReads, StopRecord
  <2> QED BY <1>21, <2>1 DEF StopReads
<1>22. CASE StopSignalsSup
  <2>1. stop.pid \in Sups
    BY <1>22 DEF StopSignalsSup, SnapInv
  <2>2. SupAlive(stop.pid) \in BOOLEAN
    BY DEF SupAlive
  <2>3. stop' \in StopRecord
    BY <1>22, <2>2 DEF StopSignalsSup, StopRecord
  <2>4. sup' \in [Sups -> SupRecord]
    BY <1>22, <2>1, SigtermSupType DEF StopSignalsSup
  <2> QED BY <1>22, <2>3, <2>4 DEF StopSignalsSup
<1>23. ASSUME NEW r \in Runs, StopSignalsRun(r) PROVE TypeOK'
  <2>1. stop' \in StopRecord
    BY <1>23 DEF StopSignalsRun, StopRecord
  <2> QED BY <1>23, <2>1, SigtermType DEF StopSignalsRun
<1>3. CASE StopClean
  BY <1>3 DEF StopClean, CleanFiles, StopRecord
<1>4. CASE StopTimeout
  BY <1>4 DEF StopTimeout, CleanFiles, StopRecord
<1>5. CASE StopKillsSup
  BY <1>5, SupGoneType DEF StopKillsSup
<1>6. CASE StopReturns
  <2>1. \A r \in Runs : [run[r] EXCEPT !.late = FALSE] \in RunRecord
    BY DEF RunRecord
  <2> QED BY <1>6, <2>1 DEF StopReturns, NoStop, StopRecord
<1>7. ASSUME NEW r \in Runs, StopKillsRun(r) PROVE TypeOK'
  BY <1>7, DiesType DEF StopKillsRun, Dies
<1>8. ASSUME NEW s \in Sups, StartDaemon(s) PROVE TypeOK'
  <2>1. [NoSup EXCEPT !.pc = "start"] \in SupRecord
    BY RecordTypes DEF SupRecord
  <2> QED BY <1>8, <2>1 DEF StartDaemon
<1>9. ASSUME NEW s \in Sups, SignalSup(s) PROVE TypeOK'
  BY <1>9, SigtermSupType DEF SignalSup
<1>10. ASSUME NEW r \in Runs, StartRun(r) PROVE TypeOK'
  BY <1>10, RecordTypes DEF StartRun
<1>11. ASSUME NEW r \in Runs, TuiSpawn(r) PROVE TypeOK'
  BY <1>11, RecordTypes DEF TuiSpawn
<1>12. CASE TuiStop
  BY <1>12, SigtermType DEF TuiStop
<1>13. CASE TuiForceQuit
  BY <1>13, DiesType DEF TuiForceQuit, TuiRunning, Dies, NoPid
<1>14. CASE TuiStatus
  BY <1>14 DEF TuiStatus, NoPid
<1>15. CASE HeartbeatAges
  BY <1>15 DEF HeartbeatAges
<1>16. CASE PidFileAges
  BY <1>16 DEF PidFileAges
<1>17. ASSUME NEW r \in Runs, GrowOld(r) PROVE TypeOK'
  BY <1>17 DEF GrowOld, RunRecord
<1>18. ASSUME NEW r \in Runs, KillRun(r) PROVE TypeOK'
  BY <1>18, DiesType DEF KillRun, Dies
<1>19. ASSUME NEW s \in Sups, KillSup(s) PROVE TypeOK'
  BY <1>19, SupGoneType DEF KillSup
<1>24. ASSUME NEW s \in Sups, SupReaped(s) PROVE TypeOK'
  BY <1>24, RecordTypes DEF SupReaped
<1> QED BY <1>1, <1>2, <1>3, <1>4, <1>5, <1>6, <1>7, <1>8, <1>9, <1>10, <1>11, <1>12,
           <1>13, <1>14, <1>15, <1>16, <1>17, <1>18, <1>19, <1>20, <1>21, <1>22, <1>23, <1>24
        DEF StopStep, OperatorStep, FateStep

-----------------------------------------------------------------------------
(* What the shared operations preserve.                                    *)

LEMMA GoneFacts ==
  ASSUME TypeOK, NEW r \in Runs, NEW ok \in BOOLEAN
  PROVE  /\ Gone(r, ok).pc \in {"none", "dead"}
         /\ Gone(r, ok).par = run[r].par
         /\ run[r].par # None => Gone(r, ok).pc = "dead"
  BY DEF TypeOK, Gone, NoRun, RunRecord

(* A process that is gone leaves its lock, and its parent a zombie.        *)
LEMMA GoneKeeps ==
  ASSUME IndInv, NEW r \in Runs, NEW ok \in BOOLEAN,
         run' = [run EXCEPT ![r] = Gone(r, ok)], Unlock(r), UNCHANGED <<sup, hb, stop>>
  PROVE  ProcInv'
<1> USE DEF IndInv, ProcInv
<1>1. \A q \in Runs : q # r => run'[q] = run[q]
  BY DEF TypeOK
<1>2. run'[r] = Gone(r, ok)
  BY DEF TypeOK
<1>3. \A q \in Runs : RunAlive(q)' => q # r /\ RunAlive(q)
  BY <1>1, <1>2, GoneFacts DEF RunAlive
<1>4. \A s \in Sups : SupAlive(s)' = SupAlive(s)
  BY DEF SupAlive
<1>5. HolderInv'
  BY <1>1, <1>2, GoneFacts DEF HolderInv, Holding, Unlock
<1>6. ChildInv'
  BY <1>1, <1>2, GoneFacts, ProcessAssumption DEF ChildInv
<1>7. HeartbeatInv'
  BY <1>1, <1>3 DEF HeartbeatInv
<1>8. WatchdogSparesYoung'
  BY <1>1, <1>3 DEF WatchdogSparesYoung, ChildInv, HasChild
<1>9. ParentInv'
  BY <1>1, <1>3, <1>4 DEF ParentInv, TypeOK, RunRecord
<1>10. SnapInv'
  BY <1>1, <1>3 DEF SnapInv, SupAlive
<1>11. StopIsComplete'
  BY <1>1, <1>3, <1>4 DEF StopIsComplete, SnapInv
<1> QED BY <1>5, <1>6, <1>7, <1>8, <1>9, <1>10, <1>11

(* A supervisor's death only orphans.                                      *)
LEMMA SupGoneKeeps ==
  ASSUME IndInv, NEW s \in Sups, SupGone(s), UNCHANGED <<hb, lock, stop>>
  PROVE  ProcInv'
<1> USE DEF IndInv, ProcInv
<1>1. \A q \in Runs : run[q].par # s => run'[q] = run[q]
  BY DEF SupGone
<1>2. \A q \in Runs : RunAlive(q)' => /\ RunAlive(q)
                                      /\ run'[q] \in {run[q], [run[q] EXCEPT !.par = None]}
  BY DEF SupGone, RunAlive, NoRun
<1>3. \A q \in Runs : RunAlive(q)' => /\ RunAlive(q)
                                      /\ run'[q].pc = run[q].pc
                                      /\ run'[q].born = run[q].born
                                      /\ run'[q].seen = run[q].seen
                                      /\ run'[q].old = run[q].old
                                      /\ run'[q].late = run[q].late
  BY <1>2 DEF TypeOK, RunRecord
<1>4. /\ ~SupAlive(s)'
      /\ \A t \in Sups : t # s => sup'[t] = sup[t]
  BY DEF SupGone, SupAlive, NoSup, TypeOK
<1>5. sup'[s].pc \notin HasChild
  BY DEF SupGone, NoSup, TypeOK, HasChild
<1>6. HolderInv'
  <2>1. \A q \in Runs : run'[q].pc \in Holding => RunAlive(q)'
    BY DEF Holding, RunAlive
  <2> QED BY <1>3, <2>1 DEF HolderInv
<1>7. ChildInv'
  BY <1>1, <1>4, <1>5 DEF ChildInv
<1>8. HeartbeatInv'
  BY <1>3 DEF HeartbeatInv
<1>9. WatchdogSparesYoung'
  BY <1>3, <1>4, <1>5 DEF WatchdogSparesYoung, ChildInv, HasChild
<1>10. ParentInv'
  BY <1>1, <1>3, <1>4 DEF ParentInv, SupAlive, TypeOK, RunRecord
<1>11. SnapInv'
  BY <1>3, <1>4 DEF SnapInv, SupAlive
<1>12. StopIsComplete'
  BY <1>3, <1>4 DEF StopIsComplete, SnapInv, SupAlive
<1> QED BY <1>6, <1>7, <1>8, <1>9, <1>10, <1>11, <1>12

(* A step that keeps who lives, whose child it is, and how old it is: the  *)
(* signals, the hangs, and most steps of a supervisor.                     *)
Calm ==
  /\ \A r \in Runs :
       /\ run'[r].pc = run[r].pc
       /\ run'[r].par = run[r].par
       /\ run'[r].born = run[r].born
       /\ run[r].old => run'[r].old
       /\ hb' = "stale" => run'[r].seen = run[r].seen
  /\ hb' = "stale" => hb = "stale"
  /\ lock' = lock
  /\ \A s \in Sups :
       /\ SupAlive(s)' = SupAlive(s)
       /\ sup'[s].pc \in HasChild => sup[s].pc \in HasChild /\ sup'[s].child = sup[s].child

LEMMA CalmCore ==
  ASSUME IndInv, Calm,
         \A s \in Sups : sup'[s].pc = "term" /\ sup[s].pc # "term" => run[sup[s].child].old
  PROVE  HolderInv' /\ ChildInv' /\ HeartbeatInv' /\ WatchdogSparesYoung' /\ ParentInv'
<1> USE DEF IndInv, ProcInv
<1>1. \A r \in Runs : RunAlive(r)' = RunAlive(r)
  BY DEF Calm, RunAlive
<1>2. HolderInv'
  BY DEF HolderInv, Calm
<1>3. ChildInv'
  BY DEF ChildInv, Calm
<1>4. HeartbeatInv'
  BY <1>1 DEF HeartbeatInv, Calm
<1>5. WatchdogSparesYoung'
  BY <1>1, <1>3 DEF WatchdogSparesYoung, Calm, ChildInv, HasChild
<1>6. ParentInv'
  BY <1>1 DEF ParentInv, Calm, TypeOK, RunRecord
<1> QED BY <1>2, <1>3, <1>4, <1>5, <1>6

LEMMA CalmKeeps ==
  ASSUME IndInv, Calm,
         \A s \in Sups : sup'[s].pc = "term" /\ sup[s].pc # "term" => run[sup[s].child].old,
         \A r \in Runs : run'[r].late = run[r].late,
         stop' = stop
  PROVE  ProcInv'
<1>1. \A r \in Runs : RunAlive(r)' = RunAlive(r)
  BY DEF Calm, RunAlive
<1>2. SnapInv'
  BY <1>1 DEF SnapInv, Calm, IndInv, ProcInv
<1>3. StopIsComplete'
  BY <1>1 DEF StopIsComplete, SnapInv, Calm, IndInv, ProcInv
<1> QED BY <1>2, <1>3, CalmCore DEF ProcInv

LEMMA SigtermCalm ==
  ASSUME TypeOK, NEW rs, SigtermRun(rs), NEW r \in Runs
  PROVE  /\ run'[r].pc = run[r].pc
         /\ run'[r].par = run[r].par
         /\ run'[r].born = run[r].born
         /\ run'[r].seen = run[r].seen
         /\ run'[r].old = run[r].old
         /\ run'[r].late = run[r].late
  BY DEF SigtermRun, TypeOK, RunRecord

(* A process that is started gets a pid nobody waits for.                  *)
LEMMA NewRunKeeps ==
  ASSUME IndInv, NEW r \in Runs, FreshRun(r), NEW p \in Sups \cup {None},
         run' = [run EXCEPT ![r] = NewRun(p)],
         hb' \in {"none", hb}, UNCHANGED <<lock, stop>>,
         \/ p = None /\ sup' = sup
         \/ /\ p # None /\ sup[p].pc = "spawn"
            /\ sup' = [sup EXCEPT ![p].pc = "spawned", ![p].child = r, ![p].stale = 0]
  PROVE  ProcInv'
<1> USE DEF IndInv, ProcInv
<1>1. \A q \in Runs : q # r => run'[q] = run[q]
  BY DEF TypeOK
<1>2. /\ run'[r].pc = "boot" /\ run'[r].par = p /\ run'[r].born = p
      /\ ~run'[r].seen /\ (run'[r].late <=> stop.pc \notin {"idle", "look"})
  BY DEF TypeOK, NewRun, NoRun
<1>3. run[r].pc = "none"
  BY DEF FreshRun
<1>4. \A s \in Sups : s # p => sup'[s] = sup[s]
  BY DEF TypeOK
<1>5. p # None => sup'[p].pc = "spawned" /\ sup'[p].child = r
  BY ProcessAssumption DEF TypeOK, SupRecord
<1>6. \A s \in Sups : SupAlive(s)' = SupAlive(s)
  BY <1>4, <1>5, ProcessAssumption DEF SupAlive
<1>7. \A q \in Runs : q # r => RunAlive(q)' = RunAlive(q)
  BY <1>1 DEF RunAlive
<1>8. HolderInv'
  BY <1>1, <1>2 DEF HolderInv, Holding
<1>9. ChildInv'
  BY <1>1, <1>2, <1>3, <1>4, <1>5, ProcessAssumption DEF ChildInv, HasChild
<1>10. HeartbeatInv'
  BY <1>1, <1>2, <1>7 DEF HeartbeatInv
<1>11. WatchdogSparesYoung'
  BY <1>1, <1>3, <1>4, <1>5, <1>7 DEF WatchdogSparesYoung, ChildInv, HasChild
<1>12. ParentInv'
  BY <1>1, <1>2, <1>6, <1>7 DEF ParentInv, TypeOK, RunRecord
<1>13. SnapInv'
  <2>1. SupAlive(stop.pid)' = SupAlive(stop.pid) \/ stop.pid \notin Sups
    BY <1>6
  <2> QED BY <1>1, <1>2, <1>7, <2>1 DEF SnapInv
<1>14. StopIsComplete'
  BY <1>1, <1>2, <1>6, <1>7 DEF StopIsComplete, SnapInv
<1> QED BY <1>8, <1>9, <1>10, <1>11, <1>12, <1>13, <1>14

-----------------------------------------------------------------------------
(* Every step keeps the invariant.                                         *)

LEMMA SupKeeps ==
  ASSUME IndInv, NEW s \in Sups, SupStep(s)
  PROVE  ProcInv'
<1> USE DEF files
<1>0. TypeOK /\ ChildInv /\ HeartbeatInv
  BY DEF IndInv, ProcInv
<1>a. Adopted(s) => sup[s].child \in Runs
  BY <1>0 DEF ChildInv, HasChild, Adopted
<1>1. CASE WritePidFile(s)
  BY <1>0, <1>1, CalmKeeps DEF WritePidFile, Calm, HasChild, SupAlive, TypeOK, SupRecord
<1>2. CASE LoopTop(s)
  BY <1>0, <1>2, CalmKeeps DEF LoopTop, Calm, HasChild, SupAlive, TypeOK, SupRecord
<1>3. ASSUME NEW r \in Runs, SpawnChild(s, r) PROVE ProcInv'
  BY <1>3, NewRunKeeps, ProcessAssumption DEF SpawnChild
<1>4. CASE AdoptChild(s)
  BY <1>0, <1>4, CalmKeeps DEF AdoptChild, Calm, HasChild, SupAlive, TypeOK, SupRecord
<1>5. CASE WatchStale(s)
  <2>1. run[sup[s].child].old
    BY <1>0, <1>a, <1>5 DEF WatchStale, Adopted, ChildStale, HeartbeatInv
  <2>2. ASSUME NEW r \in Runs
        PROVE  /\ run'[r].pc = run[r].pc /\ run'[r].par = run[r].par
               /\ run'[r].born = run[r].born /\ run'[r].seen = run[r].seen
               /\ run'[r].old = run[r].old /\ run'[r].late = run[r].late
    BY <1>0, <1>5, SigtermCalm DEF WatchStale
  <2>3. ASSUME NEW t \in Sups
        PROVE  /\ SupAlive(t)' = SupAlive(t)
               /\ sup'[t].pc \in HasChild
                    => sup[t].pc \in HasChild /\ sup'[t].child = sup[t].child
               /\ sup'[t].pc = "term" /\ sup[t].pc # "term" => t = s
    BY <1>0, <1>5 DEF WatchStale, HasChild, SupAlive, TypeOK, SupRecord
  <2>4. Calm
    BY <1>5, <2>2, <2>3 DEF WatchStale, Calm
  <2> QED BY <1>5, <2>1, <2>2, <2>3, <2>4, CalmKeeps DEF WatchStale
<1>6. CASE WatchFresh(s)
  BY <1>0, <1>6, CalmKeeps DEF WatchFresh, Calm, HasChild, SupAlive, TypeOK, SupRecord
<1>7. CASE WatchShutdown(s)
  BY <1>0, <1>7, CalmKeeps DEF WatchShutdown, Calm, HasChild, SupAlive, TypeOK, SupRecord
<1>8. CASE TermTimeout(s)
  BY <1>a, <1>8, GoneKeeps DEF TermTimeout, Dies, Adopted
<1>9. CASE Reap(s)
  <2> DEFINE c == sup[s].child
  <2> USE <1>0 DEF IndInv, ProcInv
  <2>1. c \in Runs /\ run[c].pc = "dead" /\ run[c].par = s
    BY <1>a, <1>9 DEF Reap, Adopted, ChildInv, HasChild
  <2>2. /\ run'[c] = NoRun
        /\ \A q \in Runs : q # c => run'[q] = run[q]
    BY <1>9, <2>1 DEF Reap, TypeOK
  <2>3. \A q \in Runs : RunAlive(q)' => q # c /\ RunAlive(q)
    BY <2>2 DEF RunAlive, NoRun
  <2>4. \A t \in Sups : t # s => sup'[t] = sup[t]
    BY <1>9 DEF Reap, TypeOK
  <2>5. sup'[s].pc \in {"exit", "backoff"}
    BY <1>9 DEF Reap, TypeOK, SupRecord
  <2>6. \A t \in Sups : SupAlive(t)' = SupAlive(t)
    BY <1>9, <2>4, <2>5 DEF SupAlive, Reap, Adopted
  <2> HIDE DEF c
  <2>7. HolderInv'
    BY <1>9, <2>2 DEF HolderInv, Holding, NoRun, Reap
  <2>8. ChildInv'
    BY <2>1, <2>2, <2>4, <2>5 DEF ChildInv, HasChild
  <2>9. HeartbeatInv'
    BY <1>9, <2>2, <2>3 DEF HeartbeatInv, Reap
  <2>10. WatchdogSparesYoung'
    BY <2>2, <2>3, <2>4, <2>5 DEF WatchdogSparesYoung, ChildInv, HasChild
  <2>11. ParentInv'
    BY <2>2, <2>3, <2>6 DEF ParentInv, TypeOK, RunRecord
  <2>12. SnapInv'
    BY <1>9, <2>2, <2>3, <2>6 DEF SnapInv, Reap
  <2>13. StopIsComplete'
    BY <1>9, <2>2, <2>3, <2>6 DEF StopIsComplete, SnapInv, Reap
  <2> QED BY <2>7, <2>8, <2>9, <2>10, <2>11, <2>12, <2>13
<1>10. CASE BackoffOver(s)
  BY <1>0, <1>10, CalmKeeps DEF BackoffOver, Calm, HasChild, SupAlive, TypeOK, SupRecord
<1>11. CASE SupExit(s)
  BY <1>11, SupGoneKeeps DEF SupExit
<1>12. CASE SupSignal(s)
  <2>1. CASE sup[s].pc = "start"
    BY <1>12, <2>1, SupGoneKeeps DEF SupSignal
  <2>2. CASE sup[s].pc # "start"
    <3> DEFINE told == Adopted(s) /\ RunAlive(sup[s].child)
    <3>1. SigtermRun(IF told THEN {sup[s].child} ELSE {})
      BY <1>12, <2>2 DEF SupSignal
    <3>2. \A t \in Sups : sup'[t].pc = sup[t].pc /\ sup'[t].child = sup[t].child
      BY <1>0, <1>12, <2>2 DEF SupSignal, TypeOK, SupRecord
    <3>3. Calm
      BY <1>0, <1>12, <3>1, <3>2, SigtermCalm DEF SupSignal, Calm, SupAlive
    <3>4. \A r \in Runs : run'[r].late = run[r].late
      BY <1>0, <3>1, SigtermCalm
    <3> QED BY <1>12, <3>2, <3>3, <3>4, CalmKeeps DEF SupSignal
  <2> QED BY <2>1, <2>2
<1>13. CASE FailsafeKill(s)
  BY <1>a, <1>13, GoneKeeps DEF FailsafeKill, Dies
<1> QED BY <1>1, <1>2, <1>3, <1>4, <1>5, <1>6, <1>7, <1>8, <1>9, <1>10, <1>11, <1>12, <1>13
        DEF SupStep

(* A run that moves on, inside what the flock protects.                    *)
LEMMA MovesKeeps ==
  ASSUME IndInv, NEW r \in Runs, RunAlive(r), run'[r].pc \in Holding,
         \A q \in Runs : /\ q # r => run'[q].pc = run[q].pc
                         /\ run'[q].par = run[q].par /\ run'[q].born = run[q].born
                         /\ run'[q].seen = run[q].seen /\ run'[q].old = run[q].old
                         /\ run'[q].late = run[q].late,
         lock = r \/ lock = None, lock' = r, UNCHANGED <<sup, hb, stop>>
  PROVE  ProcInv'
<1> USE DEF IndInv, ProcInv
<1>1. \A q \in Runs : RunAlive(q)' = RunAlive(q)
  BY DEF RunAlive, Holding
<1>2. HolderInv'
  BY ProcessAssumption DEF HolderInv
<1>3. ChildInv'
  BY DEF ChildInv, Holding
<1>4. HeartbeatInv'
  BY <1>1 DEF HeartbeatInv
<1>5. WatchdogSparesYoung'
  BY <1>1 DEF WatchdogSparesYoung, ChildInv, HasChild
<1>6. ParentInv'
  BY <1>1 DEF ParentInv, SupAlive
<1>7. SnapInv'
  BY <1>1 DEF SnapInv, SupAlive
<1>8. StopIsComplete'
  BY <1>1 DEF StopIsComplete, SupAlive
<1> QED BY <1>2, <1>3, <1>4, <1>5, <1>6, <1>7, <1>8

LEMMA RunKeeps ==
  ASSUME IndInv, NEW r \in Runs, RunStep(r)
  PROVE  ProcInv'
<1> USE DEF files
<1>0. TypeOK /\ HolderInv
  BY DEF IndInv, ProcInv
<1>a. run[r].pc \in Holding => lock = r
  BY <1>0 DEF HolderInv
<1>b. ASSUME NEW ok \in BOOLEAN, Exits(r, ok) PROVE ProcInv'
  BY <1>b, GoneKeeps DEF Exits
<1>1. CASE AcquireLock(r)
  <2>1. CASE lock = None
    BY <1>0, <1>1, <2>1, MovesKeeps DEF AcquireLock, RunAlive, Holding, TypeOK, RunRecord
  <2>2. CASE lock # None
    BY <1>1, <2>2, GoneKeeps DEF AcquireLock, Dies
  <2> QED BY <2>1, <2>2
<1>2. CASE Prepare(r)
  BY <1>0, <1>a, <1>2, MovesKeeps DEF Prepare, RunAlive, Holding, TypeOK, RunRecord
<1>3. CASE WriteOrchestratorPid(r)
  <2>1. CASE opid.fresh
    BY <1>3, <2>1, GoneKeeps DEF WriteOrchestratorPid, Dies
  <2>2. CASE ~opid.fresh
    BY <1>0, <1>a, <1>3, <2>2, MovesKeeps
       DEF WriteOrchestratorPid, RunAlive, Holding, TypeOK, RunRecord
  <2> QED BY <2>1, <2>2
<1>4. CASE Heartbeat(r)
  <2>1. Calm
    BY <1>0, <1>4 DEF Heartbeat, Calm, TypeOK, RunRecord, SupAlive
  <2>2. \A q \in Runs : run'[q].late = run[q].late
    BY <1>0, <1>4 DEF Heartbeat, TypeOK, RunRecord
  <2> QED BY <1>4, <2>1, <2>2, CalmKeeps DEF Heartbeat
<1>5. CASE Hang(r)
  BY <1>0, <1>5, CalmKeeps DEF Hang, Calm, TypeOK, RunRecord, SupAlive
<1>6. CASE RunSignal(r)
  <2>1. CASE run[r].pc \in {"run", "stopping"}
    BY <1>0, <1>a, <1>6, <2>1, MovesKeeps DEF RunSignal, Holding, TypeOK, RunRecord
  <2>2. CASE run[r].pc \notin {"run", "stopping"}
    BY <1>6, <2>2, GoneKeeps DEF RunSignal, Dies
  <2> QED BY <2>1, <2>2
<1> QED BY <1>b, <1>1, <1>2, <1>3, <1>4, <1>5, <1>6 DEF RunStep, Finish, Crash, WindDown

LEMMA StopKeeps ==
  ASSUME IndInv, StopStep
  PROVE  ProcInv'
<1> USE DEF files
<1>0. TypeOK /\ ParentInv /\ SnapInv
  BY DEF IndInv, ProcInv
<1>1. CASE StopStale
  BY <1>1, CalmKeeps DEF StopStale, CleanFiles, Calm, SupAlive
<1>2. CASE StopBegin
  <2>1. Calm
    BY <1>2 DEF StopBegin, Calm, SupAlive
  <2>2. stop'.pc = "look" /\ stop'.pid \in Sups /\ stop'.reached = FALSE
    BY <1>0, <1>2 DEF StopBegin, NamesLiving, NoStop, TypeOK
  <2>3. SnapInv' /\ StopIsComplete'
    BY <2>2 DEF SnapInv, StopIsComplete
  <2>4. sup' = sup
    BY <1>2 DEF StopBegin
  <2> QED BY <2>1, <2>3, <2>4, CalmCore DEF ProcInv
<1>8. CASE StopLists
  <2>1. Calm /\ sup' = sup /\ run' = run
    BY <1>8 DEF StopLists, Calm, SupAlive
  <2>2. /\ stop'.pc = "scan" /\ stop'.pid = stop.pid /\ stop'.reached = stop.reached
        /\ stop'.todo = {r \in Runs : run[r].pc # "none"}
        /\ stop.pc = "look"
    BY <1>0, <1>8 DEF StopLists, TypeOK, StopRecord
  <2>3. \A r \in Runs : RunAlive(r)' => r \in stop'.todo
    BY <2>1, <2>2 DEF RunAlive
  <2>4. SnapInv' /\ StopIsComplete'
    BY <1>0, <2>2, <2>3 DEF SnapInv, StopIsComplete
  <2> QED BY <2>1, <2>4, CalmCore DEF ProcInv
<1>9. ASSUME NEW r \in Runs, StopReads(r) PROVE ProcInv'
  <2>1. Calm /\ sup' = sup /\ run' = run
    BY <1>9 DEF StopReads, Calm, SupAlive
  <2>2. /\ stop.pc = "scan"
        /\ stop'.pc = stop.pc /\ stop'.pid = stop.pid /\ stop'.reached = stop.reached
        /\ stop'.todo = stop.todo \ {r}
        /\ stop'.snap = IF run[r].par = stop.pid THEN stop.snap \cup {r} ELSE stop.snap
    BY <1>0, <1>9 DEF StopReads, TypeOK, StopRecord
  <2>3. RunAlive(r) /\ run[r].born = stop.pid /\ SupAlive(stop.pid) => r \in stop'.snap
    BY <1>0, <2>2, ProcessAssumption DEF ParentInv, SnapInv
  <2>4. \A q \in Runs : q \in stop.snap \cup stop.todo
                         => q = r \/ q \in stop'.snap \cup stop'.todo
    BY <2>2
  <2>5. SnapInv'
    BY <1>0, <2>1, <2>2, <2>3, <2>4 DEF SnapInv, RunAlive, SupAlive
  <2>6. StopIsComplete'
    BY <2>2 DEF StopIsComplete
  <2> QED BY <2>1, <2>5, <2>6, CalmCore DEF ProcInv
<1>10. CASE StopSignalsSup
  <2>1. stop.pid \in Sups
    BY <1>0, <1>10 DEF StopSignalsSup, SnapInv
  <2>2. \A t \in Sups : sup'[t].pc = sup[t].pc /\ sup'[t].child = sup[t].child
    BY <1>0, <1>10, <2>1, SigtermSupType DEF StopSignalsSup
  <2>3. Calm /\ run' = run
    BY <1>10, <2>2 DEF StopSignalsSup, Calm, SupAlive
  <2>4. /\ stop.pc = "scan" /\ stop.todo = {}
        /\ stop'.pc = "wait" /\ stop'.pid = stop.pid /\ stop'.snap = stop.snap
        /\ stop'.reached = SupAlive(stop.pid)
    BY <1>0, <1>10 DEF StopSignalsSup, TypeOK, StopRecord
  <2>5. SnapInv'
    BY <1>0, <2>1, <2>3, <2>4 DEF SnapInv, RunAlive
  <2>6. StopIsComplete'
    BY <2>4 DEF StopIsComplete
  <2> QED BY <2>2, <2>3, <2>5, <2>6, CalmCore DEF ProcInv
<1>11. ASSUME NEW r \in Runs, StopSignalsRun(r) PROVE ProcInv'
  <2>1. Calm /\ sup' = sup /\ \A q \in Runs : run'[q].late = run[q].late
    BY <1>0, <1>11, SigtermCalm DEF StopSignalsRun, Calm, SupAlive
  <2>2. \A q \in Runs : RunAlive(q)' = RunAlive(q) /\ run'[q].born = run[q].born
    BY <2>1 DEF Calm, RunAlive
  <2>3. /\ stop.pc = "wait"
        /\ stop'.pc = stop.pc /\ stop'.pid = stop.pid /\ stop'.snap = stop.snap
        /\ stop'.reached = stop.reached
    BY <1>0, <1>11 DEF StopSignalsRun, TypeOK, StopRecord
  <2>4. SnapInv' /\ StopIsComplete'
    BY <1>0, <2>1, <2>2, <2>3 DEF SnapInv, StopIsComplete
  <2> QED BY <2>1, <2>4, CalmCore DEF ProcInv
<1>3. CASE StopClean
  <2>1. Calm
    BY <1>3 DEF StopClean, CleanFiles, Calm, SupAlive
  <2>2. /\ run' = run /\ sup' = sup
        /\ stop'.pid = stop.pid /\ stop'.snap = stop.snap /\ stop.pc # "idle"
        /\ stop'.reached = stop.reached /\ stop'.pc = "clean"
    BY <1>0, <1>3 DEF StopClean, TypeOK, StopRecord
  <2>3. SnapInv'
    BY <1>0, <2>2 DEF SnapInv, RunAlive
  <2>4. StopIsComplete'
    BY <1>0, <1>3, <2>2 DEF StopIsComplete, StopClean, StopAlive, SnapInv, RunAlive, SupAlive
  <2> QED BY <2>1, <2>2, <2>3, <2>4, CalmCore DEF ProcInv
<1>4. CASE StopTimeout
  <2>1. Calm
    BY <1>4 DEF StopTimeout, CleanFiles, Calm, SupAlive
  <2>2. /\ run' = run /\ sup' = sup
        /\ stop'.pid = stop.pid /\ stop'.snap = stop.snap /\ stop.pc # "idle"
        /\ stop'.reached = stop.reached /\ stop'.pc = "kill"
    BY <1>0, <1>4 DEF StopTimeout, TypeOK, StopRecord
  <2>3. SnapInv' /\ StopIsComplete'
    BY <1>0, <2>2 DEF SnapInv, StopIsComplete, RunAlive
  <2> QED BY <2>1, <2>2, <2>3, CalmCore DEF ProcInv
<1>5. CASE StopKillsSup
  BY <1>0, <1>5, SupGoneKeeps DEF StopKillsSup, SnapInv
<1>6. CASE StopReturns
  <2>1. Calm
    BY <1>0, <1>6 DEF StopReturns, Calm, TypeOK, RunRecord, SupAlive
  <2>2. stop'.pc = "idle" /\ sup' = sup
    BY <1>6 DEF StopReturns, NoStop
  <2>3. SnapInv' /\ StopIsComplete'
    BY <2>2 DEF SnapInv, StopIsComplete
  <2> QED BY <2>1, <2>2, <2>3, CalmCore DEF ProcInv
<1>7. ASSUME NEW r \in Runs, StopKillsRun(r) PROVE ProcInv'
  BY <1>7, GoneKeeps DEF StopKillsRun, Dies
<1> QED BY <1>1, <1>2, <1>3, <1>4, <1>5, <1>6, <1>7, <1>8, <1>9, <1>10, <1>11 DEF StopStep

LEMMA OperatorKeeps ==
  ASSUME IndInv, OperatorStep
  PROVE  ProcInv'
<1> USE DEF files
<1>0. TypeOK
  BY DEF IndInv
<1>1. ASSUME NEW s \in Sups, StartDaemon(s) PROVE ProcInv'
  <2> USE <1>0 DEF IndInv, ProcInv
  <2>1. /\ sup'[s].pc = "start" /\ ~Signalable(s)
        /\ \A t \in Sups : t # s => sup'[t] = sup[t]
        /\ \A r \in Runs : RunAlive(r)' = RunAlive(r)
    BY <1>1 DEF StartDaemon, NoSup, TypeOK, RunAlive
  <2>2. UNCHANGED <<run, lock, hb, stop>> /\ s # stop.pid /\ \A r \in Runs : run[r].born # s
    BY <1>1 DEF StartDaemon
  <2>3. HolderInv' /\ HeartbeatInv' /\ SnapInv'
    BY <2>1, <2>2 DEF HolderInv, HeartbeatInv, SnapInv, SupAlive
  <2>4. ChildInv'
    BY <2>1, <2>2 DEF ChildInv, HasChild
  <2>5. WatchdogSparesYoung'
    BY <2>1, <2>2 DEF WatchdogSparesYoung, ChildInv, HasChild
  <2>6. ParentInv'
    BY <2>1, <2>2 DEF ParentInv, SupAlive, TypeOK, RunRecord
  <2>7. StopIsComplete'
    BY <2>1, <2>2 DEF StopIsComplete, SnapInv, SupAlive
  <2> QED BY <2>3, <2>4, <2>5, <2>6, <2>7
<1>2. ASSUME NEW s \in Sups, SignalSup(s) PROVE ProcInv'
  <2>1. \A t \in Sups : sup'[t].pc = sup[t].pc /\ sup'[t].child = sup[t].child
    BY <1>0, <1>2, SigtermSupType DEF SignalSup
  <2> QED BY <1>2, <2>1, CalmKeeps DEF SignalSup, Calm, SupAlive
<1>3. ASSUME NEW r \in Runs, StartRun(r) PROVE ProcInv'
  BY <1>3, NewRunKeeps DEF StartRun
<1>4. ASSUME NEW r \in Runs, TuiSpawn(r) PROVE ProcInv'
  BY <1>4, NewRunKeeps DEF TuiSpawn
<1>5. CASE TuiStop
  <2>1. Calm /\ \A r \in Runs : run'[r].late = run[r].late
    BY <1>0, <1>5, SigtermCalm DEF TuiStop, Calm, SupAlive
  <2> QED BY <1>5, <2>1, CalmKeeps DEF TuiStop
<1>6. CASE TuiForceQuit
  <2>1. opid.pid \in Runs
    BY <1>0, <1>6 DEF TuiForceQuit, TuiRunning, TypeOK
  <2>2. CASE RunAlive(opid.pid)
    BY <1>6, <2>1, <2>2, GoneKeeps DEF TuiForceQuit, Dies
  <2>3. CASE ~RunAlive(opid.pid)
    BY <1>6, <2>3, CalmKeeps DEF TuiForceQuit, Calm, SupAlive
  <2> QED BY <2>2, <2>3
<1>7. CASE TuiStatus
  BY <1>7, CalmKeeps DEF TuiStatus, Calm, SupAlive
<1> QED BY <1>1, <1>2, <1>3, <1>4, <1>5, <1>6, <1>7 DEF OperatorStep

LEMMA FateKeeps ==
  ASSUME IndInv, FateStep
  PROVE  ProcInv'
<1> USE DEF files
<1>0. TypeOK
  BY DEF IndInv
<1>1. CASE HeartbeatAges
  <2> USE DEF IndInv, ProcInv
  <2>1. UNCHANGED <<sup, run, lock, stop>>
    BY <1>1 DEF HeartbeatAges
  <2>2. \A r \in Runs : RunAlive(r)' = RunAlive(r)
    BY <2>1 DEF RunAlive
  <2>3. HeartbeatInv'
    BY <1>1, <2>2 DEF HeartbeatAges, HeartbeatInv
  <2>4. HolderInv' /\ ChildInv' /\ WatchdogSparesYoung'
    BY <2>1, <2>2 DEF HolderInv, ChildInv, WatchdogSparesYoung, HasChild
  <2>5. ParentInv' /\ SnapInv' /\ StopIsComplete'
    BY <2>1, <2>2 DEF ParentInv, SnapInv, StopIsComplete, SupAlive
  <2> QED BY <2>3, <2>4, <2>5
<1>2. CASE PidFileAges
  BY <1>2, CalmKeeps DEF PidFileAges, Calm, SupAlive
<1>3. ASSUME NEW r \in Runs, GrowOld(r) PROVE ProcInv'
  BY <1>0, <1>3, CalmKeeps DEF GrowOld, Calm, TypeOK, RunRecord, SupAlive
<1>4. ASSUME NEW r \in Runs, KillRun(r) PROVE ProcInv'
  BY <1>4, GoneKeeps DEF KillRun, Dies
<1>5. ASSUME NEW s \in Sups, KillSup(s) PROVE ProcInv'
  BY <1>5, SupGoneKeeps DEF KillSup
<1>6. ASSUME NEW s \in Sups, SupReaped(s) PROVE ProcInv'
  <2>1. sup'[s].pc = "off" /\ \A t \in Sups : t # s => sup'[t] = sup[t]
    BY <1>0, <1>6 DEF SupReaped, NoSup, TypeOK
  <2>2. Calm
    BY <1>6, <2>1 DEF SupReaped, Calm, SupAlive, HasChild
  <2> QED BY <1>6, <2>1, <2>2, CalmKeeps DEF SupReaped
<1> QED BY <1>1, <1>2, <1>3, <1>4, <1>5, <1>6 DEF FateStep

LEMMA Inductive == Spec => []IndInv
<1>1. Init => IndInv
  <2> SUFFICES ASSUME Init PROVE IndInv
    OBVIOUS
  <2>1. TypeOK
    BY RecordTypes DEF Init, TypeOK, NoPid, NoStop, StopRecord
  <2>2. ProcInv
    BY DEF Init, ProcInv, HolderInv, ChildInv, HeartbeatInv, WatchdogSparesYoung, ParentInv,
           SnapInv, StopIsComplete, NoRun, NoSup, NoStop, Holding, HasChild, RunAlive
  <2> QED BY <2>1, <2>2 DEF IndInv
<1>2. IndInv /\ [Next]_vars => IndInv'
  <2> SUFFICES ASSUME IndInv, [Next]_vars PROVE IndInv'
    OBVIOUS
  <2>1. TypeOK /\ ChildInv /\ SnapInv
    BY DEF IndInv, ProcInv
  <2>2. CASE Next
    BY <2>1, <2>2, SupType, RunType, OtherType, SupKeeps, RunKeeps, StopKeeps, OperatorKeeps,
       FateKeeps DEF Next, IndInv
  <2>3. CASE UNCHANGED vars
    <3>1. TypeOK'
      BY <2>1, <2>3 DEF TypeOK, vars
    <3>2. ProcInv'
      BY <2>3, CalmKeeps DEF vars, Calm, SupAlive
    <3> QED BY <3>1, <3>2 DEF IndInv
  <2> QED BY <2>2, <2>3
<1> QED BY <1>1, <1>2, PTL DEF Spec

-----------------------------------------------------------------------------
(***************************************************************************)
(* The records of supervisors, runs and files, and the stop command in     *)
(* progress, keep their types, however many processes are started and      *)
(* killed.                                                                 *)
(***************************************************************************)
THEOREM ProcessTypes == Spec => []TypeOK
  BY Inductive, PTL DEF IndInv

(***************************************************************************)
(* Between acquire_orchestrator_lock and its exit there is one run, for    *)
(* any number of supervisors, shells and TUIs that start runs: container   *)
(* clean-up and orphan recovery never meet another run's workers.          *)
(***************************************************************************)
THEOREM FlockExcludes == Spec => []OneOrchestrator
<1>1. IndInv => OneOrchestrator
  BY DEF IndInv, ProcInv, HolderInv, Holding, OneOrchestrator
<1> QED BY <1>1, Inductive, PTL

(***************************************************************************)
(* _watch_child sends SIGTERM and SIGKILL only to a child that has been up *)
(* for longer than the threshold, whatever heartbeat file it finds.        *)
(***************************************************************************)
THEOREM GracePeriod == Spec => []WatchdogSparesYoung
  BY Inductive, PTL DEF IndInv, ProcInv

(***************************************************************************)
(* When stop_daemon reports a clean stop, the supervisor is gone, and when *)
(* its SIGTERM found that one running, so is every run that was spawned    *)
(* before discover_descendants listed /proc, orphaned since or not.        *)
(***************************************************************************)
THEOREM CleanStop == Spec => []StopIsComplete
  BY Inductive, PTL DEF IndInv, ProcInv

=============================================================================
