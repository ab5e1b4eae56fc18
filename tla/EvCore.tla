------------------------------- MODULE EvCore -------------------------------
(***************************************************************************)
(* The event engine of g_schedule/ev_core.c and ev_action.c.  push_job     *)
(* starts a thread for a trigger; the thread checks the engine, the rule   *)
(* of its trigger and the cooldown, then runs the rule's actions one after *)
(* the other (next_job and the actions call each other) and cleans up.     *)
(* event_stop closes the engine and opens it again.  The engine has no     *)
(* lock: every job and event_stop share ev, jobStatus and gEventAlive.     *)
(*                                                                         *)
(* One action is one run of a thread between two accesses to that state.   *)
(* An update ++ or -- that another thread can race with may be lost.  The  *)
(* schedule threads that event_init starts and sche_stop joins are those   *)
(* of ScheThreads, and EvReopen composes them with the callers of this     *)
(* module; here sche_stop just may return.  What is only printed is        *)
(* left out, and so is bRecordStarted, which is raised and lowered between *)
(* two points nobody looks at it.  The pictures and recordings themselves   *)
(* are written by a recorder outside this code; a file here is one that    *)
(* exists under the time a job noted for it in tvJpg or tvMp4.             *)
(***************************************************************************)
EXTENDS Integers, SequencesExt

CONSTANTS
  Jobs,                      \* the job threads of one run
  Stoppers,                  \* the threads that call event_stop
  MaxOverlap,                \* how many job threads the triggers keep going at once
  RAM_JPG_MAX, RAM_MP4_MAX,  \* 3 and 3 in the code
  COOLDOWN,                  \* tTriggerCooldownPeriod: 3 in the code
  MaxClock,                  \* a bound on the clock
  Types, TRIGGER_MOTION,     \* the triggers; event_init gives only this one actions
  None                       \* no thread

Rule    == <<"ram_jpg", "ram_mp4", "ftp">>
Threads == Jobs \cup Stoppers

ASSUME EventAssumption ==
  /\ Jobs \cap Stoppers = {} /\ None \notin Jobs /\ TRIGGER_MOTION \in Types
  /\ COOLDOWN \in Nat /\ MaxClock \in Nat /\ MaxOverlap \in Nat

VARIABLES
  gEventAlive,      \* 0 before the first start, 1 running, -1 reopening
  jobStatus,        \* iRamJpgCounter, iRamMp4Counter, iRunningJobs
  iActCount,        \* per trigger: ev[].iActCount
  tLastRun, pt,     \* per trigger: ev[].tLastRun and ev[].pt
  tTriggerCooldownPeriod,  \* per trigger: the field of ev[]
  pc, home,         \* per thread: where it is, where its clean-up returns
  trigger, iActCnt, \* per job: its trigger, the actions it has left
  cur,              \* per job: the place of its next action in the table
  now,              \* per job: the time it read
  cancelled,        \* per job: pthread_cancel is pending
  clock,            \* time(NULL)
  files,            \* the temporary files: <<job, kind>>
  process,          \* "running" or "undefined" behaviour
  launched, hasty,  \* history: when a job was last launched, whether one was too soon
  ran, late,        \* history, per job: actions begun, how many of them while reopening
  crossed           \* history: whether two threads ever shared the engine

rule    == <<iActCount, tTriggerCooldownPeriod, tLastRun, pt>>
engine  == <<gEventAlive, jobStatus, rule>>
job     == <<trigger, iActCnt, cur, now, cancelled>>
history == <<launched, hasty, ran, late, crossed>>
vars    == <<engine, pc, home, job, clock, files, process, history>>

Cleared == [iRamJpgCounter |-> 0, iRamMp4Counter |-> 0, iRunningJobs |-> 0]

Init ==
  /\ gEventAlive = 0 /\ jobStatus = Cleared
  /\ iActCount = [y \in Types |-> 0] /\ tLastRun = [y \in Types |-> 0]
  /\ pt = [y \in Types |-> None] /\ tTriggerCooldownPeriod = [y \in Types |-> 0]
  /\ pc = [t \in Threads |-> "off"] /\ home = [t \in Threads |-> "off"]
  /\ trigger = [j \in Jobs |-> TRIGGER_MOTION] /\ iActCnt = [j \in Jobs |-> 0]
  /\ cur = [j \in Jobs |-> 0] /\ now = [j \in Jobs |-> 0] /\ cancelled = [j \in Jobs |-> FALSE]
  /\ clock = COOLDOWN + 1 /\ files = {} /\ process = "running"
  /\ launched = 0 /\ hasty = FALSE /\ ran = [j \in Jobs |-> <<>>]
  /\ late = [j \in Jobs |-> 0] /\ crossed = FALSE

Goto(t, label) == pc' = [pc EXCEPT ![t] = label]
InFlight       == {j \in Jobs : pc[j] \notin {"off", "done"}}
Busy           == {t \in Threads : pc[t] \notin {"off", "done"}}

\* Where a thread changes the counters.
Updates == [iRamJpgCounter |-> {"count_jpg", "snap_shot", "drop_jpg", "init_clear"},
            iRamMp4Counter |-> {"record", "drop_mp4", "init_clear"},
            iRunningJobs   |-> {"count", "uncount", "init_clear"}]

\* A ++ or -- of a counter by thread t; it may be lost when another thread changes the
\* counter at the same time.
Update(t, counter, by) ==
  \/ jobStatus' = [jobStatus EXCEPT ![counter] = @ + by]
  \/ /\ \E u \in Threads \ {t} : pc[u] \in Updates[counter]
     /\ UNCHANGED jobStatus

CleanUp(t, back) == pc' = [pc EXCEPT ![t] = "clean_jpg"] /\ home' = [home EXCEPT ![t] = back]

Tick ==
  /\ clock < MaxClock /\ clock' = clock + 1
  /\ UNCHANGED <<engine, pc, home, job, files, process, history>>

-----------------------------------------------------------------------------
(* event_init, called by a job or by event_stop *)

InitClear(t) ==
  /\ pc[t] = "init_clear" /\ Goto(t, "init_rules")
  /\ jobStatus' = Cleared
  /\ iActCount' = [y \in Types |-> 0] /\ tLastRun' = [y \in Types |-> 0]
  /\ pt' = [y \in Types |-> None] /\ tTriggerCooldownPeriod' = [y \in Types |-> 0]
  /\ UNCHANGED <<gEventAlive, home, job, clock, files, process, history>>

\* The actions are there when their count is.
InitRules(t) ==
  /\ pc[t] = "init_rules" /\ Goto(t, "init_cool")
  /\ iActCount' = [iActCount EXCEPT ![TRIGGER_MOTION] = Len(Rule)]
  /\ UNCHANGED <<gEventAlive, jobStatus, tTriggerCooldownPeriod, tLastRun, pt, home, job, clock,
                 files, process, history>>

InitCool(t) ==
  /\ pc[t] = "init_cool" /\ Goto(t, "init_open")
  /\ tTriggerCooldownPeriod' = [tTriggerCooldownPeriod EXCEPT ![TRIGGER_MOTION] = COOLDOWN]
  /\ pt' = [pt EXCEPT ![TRIGGER_MOTION] = None]
  /\ UNCHANGED <<gEventAlive, jobStatus, iActCount, tLastRun, home, job, clock, files, process,
                 history>>

InitOpen(t) ==
  /\ pc[t] = "init_open" /\ Goto(t, IF t \in Jobs THEN "rule" ELSE "done")
  /\ gEventAlive' = 1 /\ late' = [j \in Jobs |-> 0]
  /\ UNCHANGED <<jobStatus, rule, home, job, clock, files, process,
                 launched, hasty, ran, crossed>>

-----------------------------------------------------------------------------
(* _push_job *)

\* push_job creates a thread for a trigger.
Push(j) ==
  /\ pc[j] = "off" /\ Cardinality(InFlight) < MaxOverlap /\ Goto(j, "push")
  /\ \E y \in Types : trigger' = [trigger EXCEPT ![j] = y] /\ pt' = [pt EXCEPT ![y] = j]
  /\ crossed' = (crossed \/ Busy # {})
  /\ UNCHANGED <<gEventAlive, jobStatus, iActCount, tTriggerCooldownPeriod, tLastRun, home,
                 iActCnt, cur, now, cancelled, clock, files, process, launched, hasty, ran,
                 late>>

\* checkExit of a new job: the first one initialises the engine, one that finds it
\* reopening cleans up.
PushCheck(j) ==
  /\ pc[j] = "push"
  /\ \/ gEventAlive = 1  /\ Goto(j, "rule") /\ UNCHANGED home
     \/ gEventAlive = 0  /\ Goto(j, "init_clear") /\ UNCHANGED home
     \/ gEventAlive = -1 /\ CleanUp(j, "reopen")
  /\ UNCHANGED <<engine, job, clock, files, process, history>>

\* The job reopens the engine itself when no job runs.
PushReopen(j) ==
  /\ pc[j] = "reopen"
  /\ Goto(j, IF jobStatus.iRunningJobs = 0 THEN "init_clear" ELSE "done")
  /\ UNCHANGED <<engine, home, job, clock, files, process, history>>

\* The thread ends when its trigger has no actions or the time is outside the
\* trigger's mask, which it tests after it has read the clock.
PushRule(j) ==
  /\ pc[j] = "rule"
  /\ \/ iActCount[trigger[j]] # 0 /\ Goto(j, "cool") /\ now' = [now EXCEPT ![j] = clock]
     \/ Goto(j, "done") /\ UNCHANGED now
  /\ UNCHANGED <<engine, home, trigger, iActCnt, cur, cancelled, clock, files, process, history>>

Cooled(j) == now[j] - tLastRun[trigger[j]] > tTriggerCooldownPeriod[trigger[j]]

\* The thread ends as well when its trigger ran not long ago.
PushCool(j) ==
  /\ pc[j] = "cool" /\ Goto(j, IF Cooled(j) THEN "launch" ELSE "done")
  /\ UNCHANGED <<engine, home, job, clock, files, process, history>>

PushLaunch(j) ==
  /\ pc[j] = "launch" /\ Goto(j, "count")
  /\ iActCnt' = [iActCnt EXCEPT ![j] = iActCount[trigger[j]]]
  /\ tLastRun' = [tLastRun EXCEPT ![trigger[j]] = now[j]] /\ now' = [now EXCEPT ![j] = 0]
  /\ launched' = now[j] /\ hasty' = (hasty \/ now[j] - launched <= COOLDOWN)
  /\ UNCHANGED <<gEventAlive, jobStatus, iActCount, tTriggerCooldownPeriod, pt, home, trigger,
                 cur, cancelled, clock, files, process, ran, late, crossed>>

PushCount(j) ==
  /\ pc[j] = "count" /\ Goto(j, "next") /\ Update(j, "iRunningJobs", 1)
  /\ UNCHANGED <<gEventAlive, rule, home, job, clock, files, process,
                 history>>

-----------------------------------------------------------------------------
(* next_job and the actions *)

\* Mutant: the job does not look at the engine.
ClosedNever == FALSE

Closed == gEventAlive = -1

\* checkExit: a job that finds the engine reopening just leaves.  (gEventAlive is
\* never 0 again.)
NextJob(j) ==
  /\ pc[j] = "next"
  /\ \/ Closed /\ Goto(j, "done") /\ UNCHANGED home
     \/ ~Closed /\ iActCnt[j] # 0 /\ Goto(j, "pick") /\ UNCHANGED home
     \/ ~Closed /\ iActCnt[j] = 0 /\ CleanUp(j, "uncount")
  /\ UNCHANGED <<engine, job, clock, files, process, history>>

\* Mutants: an action is not counted, or counted twice.
TakeNone(n)  == n
TakeTwice(n) == n - 2

Take(n) == n - 1

\* The next action is found by its distance from the end of the rule.
PickAction(j) ==
  /\ pc[j] = "pick" /\ Goto(j, "call")
  /\ cur' = [cur EXCEPT ![j] = iActCount[trigger[j]] - iActCnt[j]]
  /\ iActCnt' = [iActCnt EXCEPT ![j] = Take(@)]
  /\ UNCHANGED <<engine, home, trigger, now, cancelled, clock, files, process, history>>

\* If the rule was cleared before the distance was taken, that is outside the table; if it is
\* cleared now, there is no action.
RunAction(j) ==
  /\ pc[j] = "call"
  /\ IF cur[j] \in 0 .. Len(Rule) - 1 /\ iActCount[trigger[j]] # 0
     THEN /\ Goto(j, Rule[cur[j] + 1]) /\ UNCHANGED process
          /\ ran' = [ran EXCEPT ![j] = Append(@, Rule[cur[j] + 1])]
     ELSE process' = "undefined" /\ UNCHANGED <<pc, ran>>
  /\ cur' = [cur EXCEPT ![j] = 0]
  /\ late' = [late EXCEPT ![j] = IF gEventAlive = -1 /\ @ < 2 THEN @ + 1 ELSE @]
  /\ UNCHANGED <<engine, home, trigger, iActCnt, now, cancelled, clock, files, launched, hasty,
                 crossed>>

RamJpg(j) ==
  /\ pc[j] = "ram_jpg"
  /\ Goto(j, IF jobStatus.iRamJpgCounter < RAM_JPG_MAX THEN "count_jpg" ELSE "next")
  /\ UNCHANGED <<engine, home, job, clock, files, process, history>>

\* ram_jpg counts the picture, and snap_shot, which takes it, counts it again.
CountJpg(j) ==
  /\ pc[j] = "count_jpg" /\ Goto(j, "snap_shot") /\ Update(j, "iRamJpgCounter", 1)
  /\ UNCHANGED <<gEventAlive, rule, home, job, clock, files, process,
                 history>>

SnapShot(j) ==
  /\ pc[j] = "snap_shot" /\ Goto(j, "next") /\ Update(j, "iRamJpgCounter", 1)
  /\ files' = files \cup {<<j, "jpg">>}
  /\ UNCHANGED <<gEventAlive, rule, home, job, clock, process, history>>

RamMp4(j) ==
  /\ pc[j] = "ram_mp4"
  /\ Goto(j, IF jobStatus.iRamMp4Counter < RAM_MP4_MAX THEN "record" ELSE "next")
  /\ UNCHANGED <<engine, home, job, clock, files, process, history>>

Record(j) ==
  /\ pc[j] = "record" /\ Goto(j, "next") /\ Update(j, "iRamMp4Counter", 1)
  /\ files' = files \cup {<<j, "mp4">>}
  /\ UNCHANGED <<gEventAlive, rule, home, job, clock, process, history>>

\* ftp sleeps or not, and goes on.
Ftp(j) ==
  /\ pc[j] = "ftp" /\ Goto(j, "next")
  /\ UNCHANGED <<engine, home, job, clock, files, process, history>>

-----------------------------------------------------------------------------
(* remove_tmp_file and the end of a job *)

\* A counter that is not 0 is lowered and the job's file of that kind removed.
Clean(j, at, counter, drop, next) ==
  /\ pc[j] = at /\ Goto(j, IF jobStatus[counter] # 0 THEN drop ELSE next)
  /\ UNCHANGED <<engine, home, job, clock, files, process, history>>

Drop(j, at, counter, kind, next) ==
  /\ pc[j] = at /\ Goto(j, next) /\ Update(j, counter, -1)
  /\ files' = files \ {<<j, kind>>}
  /\ UNCHANGED <<gEventAlive, rule, home, job, clock, process, history>>

CleanJpg(j) == Clean(j, "clean_jpg", "iRamJpgCounter", "drop_jpg", "clean_mp4")

\* Mutant: the wrong counter is lowered.
DropJpgWrong(j) == Drop(j, "drop_jpg", "iRamMp4Counter", "jpg", "clean_mp4")

DropJpg(j) == Drop(j, "drop_jpg", "iRamJpgCounter", "jpg", "clean_mp4")

CleanMp4(j) == Clean(j, "clean_mp4", "iRamMp4Counter", "drop_mp4", home[j])

DropMp4(j) == Drop(j, "drop_mp4", "iRamMp4Counter", "mp4", home[j])

Uncount(j) ==
  /\ pc[j] = "uncount" /\ Goto(j, "done") /\ Update(j, "iRunningJobs", -1)
  /\ UNCHANGED <<gEventAlive, rule, home, job, clock, files, process,
                 history>>

\* A cancelled job dies in one of its printfs, in sleep or in unlink.
Die(j) ==
  /\ cancelled[j] /\ pc[j] \notin {"off", "done"} /\ Goto(j, "done")
  /\ UNCHANGED <<engine, home, job, clock, files, process, history>>

-----------------------------------------------------------------------------
(* event_stop *)

StopClose(s) ==
  /\ pc[s] = "off" /\ Goto(s, "sche_stop")
  /\ gEventAlive' = -1 /\ crossed' = TRUE
  /\ UNCHANGED <<jobStatus, rule, home, job, clock, files, process,
                 launched, hasty, ran, late>>

\* sche_stop returns, if it does.
StopSchedules(s) ==
  /\ pc[s] = "sche_stop" /\ Goto(s, "cancel")
  /\ UNCHANGED <<engine, home, job, clock, files, process, history>>

\* The last job of every trigger with actions is cancelled, and the engine reopened.
StopCancel(s) ==
  /\ pc[s] = "cancel" /\ Goto(s, "init_clear")
  /\ cancelled' = [j \in Jobs |-> cancelled[j]
                                  \/ \E y \in Types : iActCount[y] # 0 /\ pt[y] = j]
  /\ UNCHANGED <<engine, home, trigger, iActCnt, cur, now, clock, files, process, history>>

-----------------------------------------------------------------------------
(* The specification *)

InitStep(t) == InitClear(t) \/ InitRules(t) \/ InitCool(t) \/ InitOpen(t)

JobStep(j) ==
  \/ PushCheck(j) \/ PushReopen(j) \/ PushRule(j) \/ PushCool(j)
  \/ PushLaunch(j) \/ PushCount(j)
  \/ NextJob(j) \/ PickAction(j) \/ RunAction(j)
  \/ RamJpg(j) \/ CountJpg(j) \/ SnapShot(j) \/ RamMp4(j) \/ Record(j) \/ Ftp(j)
  \/ CleanJpg(j) \/ DropJpg(j) \/ CleanMp4(j) \/ DropMp4(j) \/ Uncount(j)

Next ==
  /\ process = "running"
  /\ \/ Tick
     \/ \E t \in Threads : InitStep(t)
     \/ \E j \in Jobs : Push(j) \/ JobStep(j) \/ Die(j)
     \/ \E s \in Stoppers : StopClose(s) \/ StopSchedules(s) \/ StopCancel(s)

Spec == Init /\ [][Next]_vars

-----------------------------------------------------------------------------
(* Properties *)

Labels ==
  {"off", "done", "init_clear", "init_rules", "init_cool", "init_open", "push", "reopen", "rule",
   "cool", "launch", "count", "next", "pick", "call", "ram_jpg", "count_jpg", "snap_shot", "ram_mp4",
   "record", "ftp", "clean_jpg", "drop_jpg", "clean_mp4", "drop_mp4", "uncount",
   "sche_stop", "cancel"}

\* Every variable keeps its type; a job's index into its rule is off by the rule's length at most.
TypeOK ==
  /\ gEventAlive \in {0, 1, -1}
  /\ jobStatus \in [{"iRamJpgCounter", "iRamMp4Counter", "iRunningJobs"} -> Int]
  /\ iActCount \in [Types -> 0 .. Len(Rule)] /\ tLastRun \in [Types -> Nat]
  /\ tTriggerCooldownPeriod \in [Types -> {0, COOLDOWN}]
  /\ pt \in [Types -> Jobs \cup {None}]
  /\ pc \in [Threads -> Labels] /\ home \in [Threads -> Labels]
  /\ trigger \in [Jobs -> Types] /\ iActCnt \in [Jobs -> 0 .. Len(Rule)]
  /\ cur \in [Jobs -> -Len(Rule) .. Len(Rule)]
  /\ now \in [Jobs -> Nat] /\ cancelled \in [Jobs -> BOOLEAN]
  /\ clock \in Nat /\ files \subseteq Jobs \X {"jpg", "mp4"}
  /\ process \in {"running", "undefined"}
  /\ ran \in [Jobs -> Seq({"ram_jpg", "ram_mp4", "ftp"})]
  /\ launched \in Nat /\ hasty \in BOOLEAN /\ late \in [Jobs -> 0 .. 2]
  /\ crossed \in BOOLEAN

\* Once event_stop has closed the engine, a job begins at most the one action it had
\* already decided on, until the engine is open again.
StopCutsJobs == \A j \in Jobs : late[j] <= 1

\* A job runs the actions of its rule in their order and each of them once, and one
\* that comes to its regular end ran all of them, or none if the rule was cleared just
\* before it was launched, whatever event_init does to the rule meanwhile.
ActionsInOrder ==
  \A j \in Jobs :
    /\ IsPrefix(ran[j], Rule)
    /\ pc[j] = "uncount" => ran[j] \in {<<>>, Rule}

\* iRunningJobs counts the launched job.
RunningCounts ==
  jobStatus.iRunningJobs =
    Cardinality({j \in InFlight : pc[j] \notin {"init_clear", "init_rules", "init_cool",
                                               "init_open", "push", "rule", "cool", "launch", "count"}})

\* A finished job leaves no temporary file.
FilesRemoved == \A file \in files : pc[file[1]] # "done"

\* iRamMp4Counter counts the recordings on the RAM disk.
RecordingsCounted ==
  jobStatus.iRamMp4Counter = Cardinality({file \in files : file[2] = "mp4"})

\* Until two threads are in the engine at once (the second one exempts the rest of the run:
\* another job, or event_stop), two launches are more than the cooldown apart
\* (ev_core.c:133), iRunningJobs counts the job and iRamMp4Counter its recording, and
\* remove_tmp_file, which goes by the counters of all jobs, leaves none of this job's files.
\* iRamJpgCounter is not among them: ram_jpg and snap_shot raise it for one picture, and
\* remove_tmp_file lowers it once (ev_action.c:9, :36, ev_core.c:28).
SequentialJobs == ~crossed => ~hasty /\ RunningCounts /\ FilesRemoved /\ RecordingsCounted
=============================================================================
