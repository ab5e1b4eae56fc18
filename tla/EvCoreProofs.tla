---------------------------- MODULE EvCoreProofs ----------------------------
(***************************************************************************)
(* Proofs about the event engine, for every number of jobs and of threads  *)
(* that call event_stop, every cooldown and every limit: the types, what   *)
(* a closed engine still begins, the order of a job's actions, and what    *)
(* holds as long as the jobs come one after the other.                     *)
(***************************************************************************)
EXTENDS EvCore, FiniteSetTheorems, TLAPS

-----------------------------------------------------------------------------
(* Where a job is *)

Opening  == {"init_clear", "init_rules", "init_cool", "init_open"}
Cleaning == {"clean_jpg", "drop_jpg", "clean_mp4", "drop_mp4"}

\* A job that has not been launched.
Fresh(j) ==
  \/ pc[j] \in Opening \cup {"off", "push", "reopen", "rule", "cool", "launch"}
  \/ pc[j] \in Cleaning /\ home[j] = "reopen"

\* A job that has run the actions of its rule.
Finished(j) == pc[j] = "uncount" \/ (pc[j] \in Cleaning /\ home[j] = "uncount")

\* Only TRIGGER_MOTION has a rule, and it has it whole or not at all.
RuleOK ==
  \A y \in Types : iActCount[y] \in {0, Len(Rule)} /\ (iActCount[y] # 0 => y = TRIGGER_MOTION)

\* What the label of a job says about it.
PlaceOK ==
  \A j \in Jobs :
    /\ pc[j] \in Cleaning => home[j] \in {"reopen", "uncount"}
    /\ pc[j] \in {"cool", "launch"} => trigger[j] = TRIGGER_MOTION
    /\ pc[j] \in {"rule", "cool", "launch"} => gEventAlive # 0
    /\ pc[j] = "pick" => iActCnt[j] # 0
    /\ process = "running" /\ pc[j] = "call" =>
         cur[j] \in {Len(Rule) - 1 - iActCnt[j], -1 - iActCnt[j]} /\ iActCnt[j] < Len(Rule)

\* The types and the places.
IInv == TypeOK /\ RuleOK /\ PlaceOK

-----------------------------------------------------------------------------
(* event_stop *)

\* An open engine has no late action, and a job that has yet to begin one has none either.
CloseInv ==
  /\ gEventAlive # -1 => \A j \in Jobs : late[j] = 0
  /\ \A j \in Jobs : process = "running" /\ pc[j] \in {"pick", "call"} => late[j] = 0
  /\ StopCutsJobs

-----------------------------------------------------------------------------
(* The actions of a rule *)

\* The first k actions of the rule.
Begun(k) == [i \in 1 .. k |-> Rule[i]]

\* A job has begun so many actions and has the others left; one that is about to begin an
\* action has counted it already.
Progress(j) ==
  \E k \in 0 .. Len(Rule) :
    /\ ran[j] = Begun(k)
    /\ pc[j] = "call" => iActCnt[j] = Len(Rule) - (k + 1)
    /\ pc[j] \notin {"call", "done"} =>
         iActCnt[j] \in (IF k = 0 THEN {0, Len(Rule)} ELSE {Len(Rule) - k})

\* What every job has run fits to where it is.
OrderInv ==
  \A j \in Jobs :
    /\ Progress(j)
    /\ Fresh(j) => ran[j] = <<>>
    /\ Finished(j) => iActCnt[j] = 0 /\ ran[j] \in {<<>>, Rule}

-----------------------------------------------------------------------------
(* Jobs one after the other *)

\* A job that iRunningJobs counts.
Counted(j) ==
  pc[j] \notin Opening \cup {"off", "done", "push", "rule", "cool", "launch", "count"}

\* One job at a time, the engine opens once, nobody stops it or is cancelled.
Alone ==
  /\ \A t, u \in Busy : t = u
  /\ \A s \in Stoppers : pc[s] = "off"
  /\ \A j \in Jobs : /\ ~cancelled[j] /\ pc[j] # "reopen"
                     /\ pc[j] \in Opening => gEventAlive = 0
                     /\ pc[j] \in Cleaning => home[j] = "uncount"
  /\ gEventAlive # -1

\* The trigger remembers the last launch.
Paced ==
  /\ ~hasty /\ launched = tLastRun[TRIGGER_MOTION] /\ (gEventAlive = 0 => launched = 0)
  /\ \A j \in Jobs : pc[j] = "launch" => Cooled(j)

\* The rule has its cooldown when the engine opens.
Cooling ==
  gEventAlive # 0 \/ (\E j \in Jobs : pc[j] = "init_open") =>
    tTriggerCooldownPeriod[TRIGGER_MOTION] = COOLDOWN

\* The kinds of files.
Kinds == {"jpg", "mp4"}

\* A job has a file of a kind.
Has(j, kind) == <<j, kind>> \in files

\* A job has a picture only between taking it and removing it, and it is counted.
PictureOK(j) ==
  /\ pc[j] \in {"ram_jpg", "count_jpg", "snap_shot"} => ran[j] # <<>>
  /\ pc[j] = "drop_jpg" => jobStatus.iRamJpgCounter > 0
  /\ Has(j, "jpg") =>
       /\ jobStatus.iRamJpgCounter > 0 /\ ran[j] # <<>>
       /\ pc[j] \notin {"clean_mp4", "drop_mp4", "uncount", "done"}

\* The pictures never outnumber their counter, which ram_jpg and snap_shot both raise.
Pictures == jobStatus.iRamJpgCounter >= 0 /\ \A j \in Jobs : PictureOK(j)

\* A job has a recording only between its second action and its removal.
RecordingOK(j) ==
  /\ pc[j] = "drop_mp4" => jobStatus.iRamMp4Counter # 0
  /\ pc[j] \in {"ram_mp4", "record"} => ran[j] = Begun(2)
  /\ Has(j, "mp4") =>
       /\ ran[j] \in {Begun(2), Begun(3)}
       /\ pc[j] \notin {"ram_mp4", "record", "uncount", "done"}

\* The recording on the RAM disk is counted.
Recordings ==
  /\ jobStatus.iRamMp4Counter = IF \E j \in Jobs : Has(j, "mp4") THEN 1 ELSE 0
  /\ \A j \in Jobs : RecordingOK(j)

\* The one job in the engine is counted.
Running == jobStatus.iRunningJobs = IF \E j \in Jobs : Counted(j) THEN 1 ELSE 0

\* All that holds until two threads share the engine.
SequenceInv == ~crossed => Alone /\ Cooling /\ Paced /\ Pictures /\ Recordings /\ Running

-----------------------------------------------------------------------------
(* Types and places *)

\* The values of jobStatus and the actions of the rule.
Counters == [{"iRamJpgCounter", "iRamMp4Counter", "iRunningJobs"} -> Int]

Actions  == {"ram_jpg", "ram_mp4", "ftp"}

\* The rule has three actions.
LEMMA RuleActions ==
  Len(Rule) = 3 /\ \A k \in 1 .. 3 : Rule[k] \in Actions
BY DEF Rule, Actions

\* A counter that is changed, or not, remains an integer.
LEMMA Updated ==
  ASSUME TypeOK, NEW t \in Threads, NEW by \in Int,
         NEW counter \in {"iRamJpgCounter", "iRamMp4Counter", "iRunningJobs"},
         Update(t, counter, by)
  PROVE  jobStatus' \in Counters
BY DEF TypeOK, Update, Counters

\* A job begins an action of the rule, or is outside the table, or the rule is cleared.
LEMMA Runs ==
  ASSUME TypeOK, NEW j \in Jobs, RunAction(j)
  PROVE  \/ process' = "undefined" /\ UNCHANGED <<pc, ran>>
         \/ \E k \in 0 .. 2 :
              /\ k = cur[j] /\ UNCHANGED process
              /\ Rule[k + 1] \in Actions /\ Goto(j, Rule[k + 1])
              /\ ran' = [ran EXCEPT ![j] = Append(ran[j], Rule[k + 1])]
<1> DEFINE k == cur[j]
<1>1. CASE k \in 0 .. Len(Rule) - 1 /\ iActCount[trigger[j]] # 0
  <2>1. k \in 0 .. 2 /\ Rule[k + 1] \in Actions
    BY <1>1, RuleActions
  <2>2. /\ Goto(j, Rule[k + 1]) /\ UNCHANGED process
        /\ ran' = [ran EXCEPT ![j] = Append(ran[j], Rule[k + 1])]
    BY <1>1 DEF RunAction
  <2> QED BY <2>1, <2>2
<1>2. CASE ~(k \in 0 .. Len(Rule) - 1 /\ iActCount[trigger[j]] # 0)
  BY <1>2 DEF RunAction
<1> QED BY <1>1, <1>2

\* A step keeps the types.
LEMMA TypeStep ==
  ASSUME IInv, process = "running", Next
  PROVE  TypeOK'
<1>0. TypeOK /\ PlaceOK /\ process = "running" /\ Len(Rule) = 3
  BY RuleActions DEF IInv
<1> USE <1>0, EventAssumption DEF TypeOK, Goto, engine, rule, job, history, Labels, Threads,
        Counters
<1>Tick. ASSUME Tick PROVE TypeOK'
  BY <1>Tick DEF Tick
<1>InitClear. ASSUME NEW t \in Threads, InitClear(t) PROVE TypeOK'
  <2>1. Cleared \in Counters
    BY DEF Cleared, Counters
  <2> QED BY <1>InitClear, <2>1 DEF InitClear, Counters
<1>InitRules. ASSUME NEW t \in Threads, InitRules(t) PROVE TypeOK'
  BY <1>InitRules DEF InitRules
<1>InitCool. ASSUME NEW t \in Threads, InitCool(t) PROVE TypeOK'
  BY <1>InitCool DEF InitCool
<1>InitOpen. ASSUME NEW t \in Threads, InitOpen(t) PROVE TypeOK'
  BY <1>InitOpen DEF InitOpen
<1>Push. ASSUME NEW j \in Jobs, Push(j) PROVE TypeOK'
  <2>1. PICK y \in Types : trigger' = [trigger EXCEPT ![j] = y] /\ pt' = [pt EXCEPT ![y] = j]
    BY <1>Push DEF Push
  <2>2. trigger' \in [Jobs -> Types] /\ pt' \in [Types -> Jobs \cup {None}]
    BY <2>1
  <2>3. pc' \in [Threads -> Labels] /\ crossed' \in BOOLEAN
    BY <1>Push DEF Push
  <2> QED BY <1>Push, <2>2, <2>3 DEF Push
<1>PushCheck. ASSUME NEW j \in Jobs, PushCheck(j) PROVE TypeOK'
  <2>1. pc' \in [Threads -> Labels] /\ home' \in [Threads -> Labels]
    <3>1. ASSUME NEW label \in Labels, Goto(j, label) PROVE pc' \in [Threads -> Labels]
      BY <3>1
    <3>2. pc' \in [Threads -> Labels]
      BY <1>PushCheck, <3>1 DEF PushCheck, CleanUp
    <3>3. ASSUME NEW back \in Labels, home' = [home EXCEPT ![j] = back]
          PROVE  home' \in [Threads -> Labels]
      BY <3>3
    <3>4. home' \in [Threads -> Labels]
      BY <1>PushCheck, <3>3 DEF PushCheck, CleanUp
    <3> QED BY <3>2, <3>4
  <2> QED BY <1>PushCheck, <2>1 DEF PushCheck
<1>PushReopen. ASSUME NEW j \in Jobs, PushReopen(j) PROVE TypeOK'
  BY <1>PushReopen DEF PushReopen
<1>PushRule. ASSUME NEW j \in Jobs, PushRule(j) PROVE TypeOK'
  <2>1. pc' \in [Threads -> Labels] /\ now' \in [Jobs -> Nat]
    <3>1. CASE Goto(j, "done") /\ UNCHANGED now
      BY <3>1
    <3>2. CASE Goto(j, "cool") /\ now' = [now EXCEPT ![j] = clock]
      BY <3>2
    <3> QED BY <1>PushRule, <3>1, <3>2 DEF PushRule
  <2> QED BY <1>PushRule, <2>1 DEF PushRule
<1>PushCool. ASSUME NEW j \in Jobs, PushCool(j) PROVE TypeOK'
  BY <1>PushCool DEF PushCool
<1>PushLaunch. ASSUME NEW j \in Jobs, PushLaunch(j) PROVE TypeOK'
  BY <1>PushLaunch DEF PushLaunch
<1>PushCount. ASSUME NEW j \in Jobs, PushCount(j) PROVE TypeOK'
  <2>1. jobStatus' \in Counters
    BY <1>PushCount, <1>0, Updated DEF PushCount, Threads
  <2> QED BY <1>PushCount, <2>1 DEF PushCount
<1>NextJob. ASSUME NEW j \in Jobs, NextJob(j) PROVE TypeOK'
  <2>1. pc' \in [Threads -> Labels] /\ home' \in [Threads -> Labels]
    <3>1. ASSUME NEW label \in Labels, Goto(j, label) PROVE pc' \in [Threads -> Labels]
      BY <3>1
    <3>2. pc' \in [Threads -> Labels]
      BY <1>NextJob, <3>1 DEF NextJob, CleanUp
    <3>3. ASSUME NEW back \in Labels, home' = [home EXCEPT ![j] = back]
          PROVE  home' \in [Threads -> Labels]
      BY <3>3
    <3>4. home' \in [Threads -> Labels]
      BY <1>NextJob, <3>3 DEF NextJob, CleanUp
    <3> QED BY <3>2, <3>4
  <2> QED BY <1>NextJob, <2>1 DEF NextJob
<1>PickAction. ASSUME NEW j \in Jobs, PickAction(j) PROVE TypeOK'
  <2>1. iActCount[trigger[j]] \in 0 .. 3 /\ iActCnt[j] \in 1 .. 3
    BY <1>PickAction DEF PickAction, PlaceOK
  <2>2. iActCnt[j] - 1 \in 0 .. 3 /\ iActCount[trigger[j]] - iActCnt[j] \in -3 .. 3
    BY <2>1
  <2>3. iActCnt' = [iActCnt EXCEPT ![j] = iActCnt[j] - 1]
    BY <1>PickAction DEF PickAction, Take
  <2>4. cur' = [cur EXCEPT ![j] = iActCount[trigger[j]] - iActCnt[j]]
    BY <1>PickAction DEF PickAction
  <2>5. iActCnt' \in [Jobs -> 0 .. 3]
    BY <2>2, <2>3
  <2>6. cur' \in [Jobs -> -3 .. 3]
    BY <2>2, <2>4
  <2> QED BY <1>PickAction, <2>5, <2>6 DEF PickAction
<1>RunAction. ASSUME NEW j \in Jobs, RunAction(j) PROVE TypeOK'
  <2>1. /\ pc' \in [Threads -> Labels] /\ process' \in {"running", "undefined"}
        /\ ran' \in [Jobs -> Seq(Actions)]
    <3>1. ASSUME NEW a \in Actions, pc' = [pc EXCEPT ![j] = a], UNCHANGED process,
                 ran' = [ran EXCEPT ![j] = Append(ran[j], a)]
          PROVE  /\ pc' \in [Threads -> Labels]
                 /\ ran' \in [Jobs -> Seq(Actions)]
      BY <3>1 DEF Actions
    <3>2. ran \in [Jobs -> Seq(Actions)]
      BY DEF Actions
    <3>3. CASE process' = "undefined" /\ UNCHANGED <<pc, ran>>
      BY <3>2, <3>3
    <3> QED BY <1>RunAction, <3>1, <3>3, Runs
  <2>2. cur' \in [Jobs -> -Len(Rule) .. Len(Rule)] /\ late' \in [Jobs -> 0 .. 2]
    BY <1>RunAction, <1>0 DEF RunAction
  <2> QED BY <1>RunAction, <2>1, <2>2 DEF RunAction, Actions
<1>RamJpg. ASSUME NEW j \in Jobs, RamJpg(j) PROVE TypeOK'
  BY <1>RamJpg DEF RamJpg
<1>CountJpg. ASSUME NEW j \in Jobs, CountJpg(j) PROVE TypeOK'
  <2>1. jobStatus' \in Counters
    BY <1>CountJpg, <1>0, Updated DEF CountJpg, Threads
  <2> QED BY <1>CountJpg, <2>1 DEF CountJpg
<1>SnapShot. ASSUME NEW j \in Jobs, SnapShot(j) PROVE TypeOK'
  <2>1. jobStatus' \in Counters
    BY <1>SnapShot, <1>0, Updated DEF SnapShot, Threads
  <2>2. files' \subseteq Jobs \X {"jpg", "mp4"}
    BY <1>SnapShot DEF SnapShot
  <2> QED BY <1>SnapShot, <2>1, <2>2 DEF SnapShot
<1>RamMp4. ASSUME NEW j \in Jobs, RamMp4(j) PROVE TypeOK'
  BY <1>RamMp4 DEF RamMp4
<1>Record. ASSUME NEW j \in Jobs, Record(j) PROVE TypeOK'
  <2>1. jobStatus' \in Counters
    BY <1>Record, <1>0, Updated DEF Record, Threads
  <2>2. files' \subseteq Jobs \X {"jpg", "mp4"}
    BY <1>Record DEF Record
  <2> QED BY <1>Record, <2>1, <2>2 DEF Record
<1>Ftp. ASSUME NEW j \in Jobs, Ftp(j) PROVE TypeOK'
  BY <1>Ftp DEF Ftp
<1>CleanJpg. ASSUME NEW j \in Jobs, CleanJpg(j) PROVE TypeOK'
  BY <1>CleanJpg DEF CleanJpg, Clean
<1>DropJpg. ASSUME NEW j \in Jobs, DropJpg(j) PROVE TypeOK'
  <2>1. jobStatus' \in Counters
    BY <1>DropJpg, <1>0, Updated DEF DropJpg, Drop, Threads
  <2> QED BY <1>DropJpg, <2>1 DEF DropJpg, Drop
<1>CleanMp4. ASSUME NEW j \in Jobs, CleanMp4(j) PROVE TypeOK'
  BY <1>CleanMp4 DEF CleanMp4, Clean
<1>DropMp4. ASSUME NEW j \in Jobs, DropMp4(j) PROVE TypeOK'
  <2>1. jobStatus' \in Counters
    BY <1>DropMp4, <1>0, Updated DEF DropMp4, Drop, Threads
  <2> QED BY <1>DropMp4, <2>1 DEF DropMp4, Drop
<1>Uncount. ASSUME NEW j \in Jobs, Uncount(j) PROVE TypeOK'
  <2>1. jobStatus' \in Counters
    BY <1>Uncount, <1>0, Updated DEF Uncount, Threads
  <2> QED BY <1>Uncount, <2>1 DEF Uncount
<1>Die. ASSUME NEW j \in Jobs, Die(j) PROVE TypeOK'
  BY <1>Die DEF Die
<1>StopClose. ASSUME NEW s \in Stoppers, StopClose(s) PROVE TypeOK'
  BY <1>StopClose DEF StopClose
<1>StopSchedules. ASSUME NEW s \in Stoppers, StopSchedules(s) PROVE TypeOK'
  BY <1>StopSchedules DEF StopSchedules
<1>StopCancel. ASSUME NEW s \in Stoppers, StopCancel(s) PROVE TypeOK'
  BY <1>StopCancel DEF StopCancel
<1> QED BY <1>Tick, <1>InitClear, <1>InitRules, <1>InitCool, <1>InitOpen, <1>Push, <1>PushCheck,
     <1>PushReopen, <1>PushRule, <1>PushCool, <1>PushLaunch, <1>PushCount, <1>NextJob,
     <1>PickAction, <1>RunAction, <1>RamJpg, <1>CountJpg, <1>SnapShot, <1>RamMp4, <1>Record, <1>Ftp,
     <1>CleanJpg, <1>DropJpg, <1>CleanMp4, <1>DropMp4, <1>Uncount, <1>Die, <1>StopClose,
     <1>StopSchedules, <1>StopCancel DEF Next, InitStep, JobStep

\* A step keeps what is known of the rule and of the places of the jobs.
LEMMA PlaceStep ==
  ASSUME IInv, process = "running", Next
  PROVE  RuleOK' /\ PlaceOK'
<1>0. TypeOK /\ RuleOK /\ PlaceOK /\ process = "running" /\ Len(Rule) = 3
  BY RuleActions DEF IInv
<1> USE <1>0, EventAssumption DEF TypeOK, RuleOK, PlaceOK, Goto, CleanUp, engine, rule, job,
        history, Threads, Cleaning
<1>Tick. ASSUME Tick PROVE RuleOK' /\ PlaceOK'
  BY <1>Tick DEF Tick
<1>InitClear. ASSUME NEW t \in Threads, InitClear(t) PROVE RuleOK' /\ PlaceOK'
  BY <1>InitClear DEF InitClear
<1>InitRules. ASSUME NEW t \in Threads, InitRules(t) PROVE RuleOK' /\ PlaceOK'
  BY <1>InitRules DEF InitRules
<1>InitCool. ASSUME NEW t \in Threads, InitCool(t) PROVE RuleOK' /\ PlaceOK'
  BY <1>InitCool DEF InitCool
<1>InitOpen. ASSUME NEW t \in Threads, InitOpen(t) PROVE RuleOK' /\ PlaceOK'
  BY <1>InitOpen DEF InitOpen
<1>Push. ASSUME NEW j \in Jobs, Push(j) PROVE RuleOK' /\ PlaceOK'
  BY <1>Push DEF Push
<1>PushCheck. ASSUME NEW j \in Jobs, PushCheck(j) PROVE RuleOK' /\ PlaceOK'
  BY <1>PushCheck DEF PushCheck
<1>PushReopen. ASSUME NEW j \in Jobs, PushReopen(j) PROVE RuleOK' /\ PlaceOK'
  BY <1>PushReopen DEF PushReopen
<1>PushRule. ASSUME NEW j \in Jobs, PushRule(j) PROVE RuleOK' /\ PlaceOK'
  BY <1>PushRule DEF PushRule
<1>PushCool. ASSUME NEW j \in Jobs, PushCool(j) PROVE RuleOK' /\ PlaceOK'
  BY <1>PushCool DEF PushCool
<1>PushLaunch. ASSUME NEW j \in Jobs, PushLaunch(j) PROVE RuleOK' /\ PlaceOK'
  BY <1>PushLaunch DEF PushLaunch
<1>PushCount. ASSUME NEW j \in Jobs, PushCount(j) PROVE RuleOK' /\ PlaceOK'
  BY <1>PushCount DEF PushCount
<1>NextJob. ASSUME NEW j \in Jobs, NextJob(j) PROVE RuleOK' /\ PlaceOK'
  BY <1>NextJob DEF NextJob
<1>PickAction. ASSUME NEW j \in Jobs, PickAction(j) PROVE RuleOK' /\ PlaceOK'
  <2>1. /\ iActCount[trigger[j]] \in {0, 3} /\ iActCnt[j] \in 1 .. 3
        /\ cur'[j] = iActCount[trigger[j]] - iActCnt[j] /\ iActCnt'[j] = iActCnt[j] - 1
    BY <1>PickAction DEF PickAction, Take
  <2>2. iActCnt'[j] < 3 /\ cur'[j] \in {2 - iActCnt'[j], -1 - iActCnt'[j]}
    BY <2>1
  <2>3. \A i \in Jobs \ {j} : cur'[i] = cur[i] /\ iActCnt'[i] = iActCnt[i] /\ pc'[i] = pc[i]
    BY <1>PickAction DEF PickAction
  <2>4. pc'[j] = "call" /\ UNCHANGED <<home, trigger, gEventAlive, process, iActCount>>
    BY <1>PickAction DEF PickAction
  <2>5. RuleOK'
    BY <2>4
  <2> DEFINE Place(i) ==
        /\ pc[i] \in Cleaning => home[i] \in {"reopen", "uncount"}
        /\ pc[i] \in {"cool", "launch"} => trigger[i] = TRIGGER_MOTION
        /\ pc[i] \in {"rule", "cool", "launch"} => gEventAlive # 0
        /\ pc[i] = "pick" => iActCnt[i] # 0
        /\ process = "running" /\ pc[i] = "call" =>
             cur[i] \in {3 - 1 - iActCnt[i], -1 - iActCnt[i]} /\ iActCnt[i] < 3
  <2>6. \A i \in Jobs : Place(i)
    BY DEF PlaceOK
  <2>7. Place(j)'
    BY <2>2, <2>4
  <2>8. ASSUME NEW i \in Jobs \ {j} PROVE Place(i)'
    BY <2>3, <2>4, <2>6
  <2>9. \A i \in Jobs : Place(i)'
    BY <2>7, <2>8
  <2>10. (Len(Rule) = 3)'
    BY DEF Rule
  <2> HIDE DEF Goto
  <2> QED BY <2>5, <2>9, <2>10 DEF PlaceOK
<1>RunAction. ASSUME NEW j \in Jobs, RunAction(j) PROVE RuleOK' /\ PlaceOK'
  <2>1. \/ process' = "undefined" /\ UNCHANGED pc
        \/ \E a \in Actions : pc' = [pc EXCEPT ![j] = a]
    BY <1>RunAction, Runs
  <2>2. CASE process' = "undefined" /\ UNCHANGED pc
    BY <1>RunAction, <2>2 DEF RunAction
  <2>3. ASSUME NEW a \in Actions, pc' = [pc EXCEPT ![j] = a] PROVE PlaceOK'
    BY <1>RunAction, <2>3 DEF RunAction, Actions
  <2> QED BY <1>RunAction, <2>1, <2>2, <2>3 DEF RunAction
<1>RamJpg. ASSUME NEW j \in Jobs, RamJpg(j) PROVE RuleOK' /\ PlaceOK'
  BY <1>RamJpg DEF RamJpg
<1>CountJpg. ASSUME NEW j \in Jobs, CountJpg(j) PROVE RuleOK' /\ PlaceOK'
  BY <1>CountJpg DEF CountJpg
<1>SnapShot. ASSUME NEW j \in Jobs, SnapShot(j) PROVE RuleOK' /\ PlaceOK'
  BY <1>SnapShot DEF SnapShot
<1>RamMp4. ASSUME NEW j \in Jobs, RamMp4(j) PROVE RuleOK' /\ PlaceOK'
  BY <1>RamMp4 DEF RamMp4
<1>Record. ASSUME NEW j \in Jobs, Record(j) PROVE RuleOK' /\ PlaceOK'
  BY <1>Record DEF Record
<1>Ftp. ASSUME NEW j \in Jobs, Ftp(j) PROVE RuleOK' /\ PlaceOK'
  BY <1>Ftp DEF Ftp
<1>CleanJpg. ASSUME NEW j \in Jobs, CleanJpg(j) PROVE RuleOK' /\ PlaceOK'
  BY <1>CleanJpg DEF CleanJpg, Clean
<1>DropJpg. ASSUME NEW j \in Jobs, DropJpg(j) PROVE RuleOK' /\ PlaceOK'
  BY <1>DropJpg DEF DropJpg, Drop
<1>CleanMp4. ASSUME NEW j \in Jobs, CleanMp4(j) PROVE RuleOK' /\ PlaceOK'
  BY <1>CleanMp4 DEF CleanMp4, Clean
<1>DropMp4. ASSUME NEW j \in Jobs, DropMp4(j) PROVE RuleOK' /\ PlaceOK'
  BY <1>DropMp4 DEF DropMp4, Drop
<1>Uncount. ASSUME NEW j \in Jobs, Uncount(j) PROVE RuleOK' /\ PlaceOK'
  BY <1>Uncount DEF Uncount
<1>Die. ASSUME NEW j \in Jobs, Die(j) PROVE RuleOK' /\ PlaceOK'
  BY <1>Die DEF Die
<1>StopClose. ASSUME NEW s \in Stoppers, StopClose(s) PROVE RuleOK' /\ PlaceOK'
  BY <1>StopClose DEF StopClose
<1>StopSchedules. ASSUME NEW s \in Stoppers, StopSchedules(s) PROVE RuleOK' /\ PlaceOK'
  BY <1>StopSchedules DEF StopSchedules
<1>StopCancel. ASSUME NEW s \in Stoppers, StopCancel(s) PROVE RuleOK' /\ PlaceOK'
  BY <1>StopCancel DEF StopCancel
<1> QED BY <1>Tick, <1>InitClear, <1>InitRules, <1>InitCool, <1>InitOpen, <1>Push, <1>PushCheck,
     <1>PushReopen, <1>PushRule, <1>PushCool, <1>PushLaunch, <1>PushCount, <1>NextJob,
     <1>PickAction, <1>RunAction, <1>RamJpg, <1>CountJpg, <1>SnapShot, <1>RamMp4, <1>Record, <1>Ftp,
     <1>CleanJpg, <1>DropJpg, <1>CleanMp4, <1>DropMp4, <1>Uncount, <1>Die, <1>StopClose,
     <1>StopSchedules, <1>StopCancel DEF Next, InitStep, JobStep

-----------------------------------------------------------------------------
(* event_stop closes the engine *)

\* A step keeps what is known of a closed engine: a job that has decided on an action
\* begins no other before the engine is open.
LEMMA CloseStep ==
  ASSUME IInv, CloseInv, process = "running", Next
  PROVE  CloseInv'
<1>0. TypeOK /\ PlaceOK /\ CloseInv /\ process = "running"
  BY DEF IInv
<1> USE <1>0, EventAssumption DEF TypeOK, CloseInv, StopCutsJobs, Goto, CleanUp, engine, rule, job,
        history, Threads
<1>Tick. ASSUME Tick PROVE CloseInv'
  BY <1>Tick DEF Tick
<1>InitClear. ASSUME NEW t \in Threads, InitClear(t) PROVE CloseInv'
  BY <1>InitClear DEF InitClear
<1>InitRules. ASSUME NEW t \in Threads, InitRules(t) PROVE CloseInv'
  BY <1>InitRules DEF InitRules
<1>InitCool. ASSUME NEW t \in Threads, InitCool(t) PROVE CloseInv'
  BY <1>InitCool DEF InitCool
<1>InitOpen. ASSUME NEW t \in Threads, InitOpen(t) PROVE CloseInv'
  BY <1>InitOpen DEF InitOpen
<1>Push. ASSUME NEW j \in Jobs, Push(j) PROVE CloseInv'
  BY <1>Push DEF Push
<1>PushCheck. ASSUME NEW j \in Jobs, PushCheck(j) PROVE CloseInv'
  BY <1>PushCheck DEF PushCheck
<1>PushReopen. ASSUME NEW j \in Jobs, PushReopen(j) PROVE CloseInv'
  BY <1>PushReopen DEF PushReopen
<1>PushRule. ASSUME NEW j \in Jobs, PushRule(j) PROVE CloseInv'
  BY <1>PushRule DEF PushRule
<1>PushCool. ASSUME NEW j \in Jobs, PushCool(j) PROVE CloseInv'
  BY <1>PushCool DEF PushCool
<1>PushLaunch. ASSUME NEW j \in Jobs, PushLaunch(j) PROVE CloseInv'
  BY <1>PushLaunch DEF PushLaunch
<1>PushCount. ASSUME NEW j \in Jobs, PushCount(j) PROVE CloseInv'
  BY <1>PushCount DEF PushCount
<1>NextJob. ASSUME NEW j \in Jobs, NextJob(j) PROVE CloseInv'
  BY <1>NextJob DEF NextJob, Closed
<1>PickAction. ASSUME NEW j \in Jobs, PickAction(j) PROVE CloseInv'
  BY <1>PickAction DEF PickAction
<1>RunAction. ASSUME NEW j \in Jobs, RunAction(j) PROVE CloseInv'
  <2>1. late' \in [Jobs -> 0 .. 2] /\ late[j] = 0
    BY <1>RunAction, <1>0 DEF RunAction
  <2>2. \/ process' = "undefined" /\ UNCHANGED pc
        \/ \E a \in Actions : pc' = [pc EXCEPT ![j] = a]
    BY <1>RunAction, Runs
  <2>3. CASE process' = "undefined" /\ UNCHANGED pc
    BY <1>RunAction, <2>1, <2>3 DEF RunAction
  <2>4. ASSUME NEW a \in Actions, pc' = [pc EXCEPT ![j] = a] PROVE CloseInv'
    <3>1. a \notin {"pick", "call"}
      BY DEF Actions
    <3>2. \A i \in Jobs : pc'[i] = IF i = j THEN a ELSE pc[i]
      BY <2>4
    <3>3. /\ \A i \in Jobs \ {j} : late'[i] = late[i]
          /\ late'[j] <= 1 /\ (gEventAlive # -1 => late'[j] = 0)
      BY <1>RunAction, <2>1 DEF RunAction
    <3> QED BY <1>RunAction, <2>1, <3>1, <3>2, <3>3 DEF RunAction
  <2> QED BY <2>2, <2>3, <2>4
<1>RamJpg. ASSUME NEW j \in Jobs, RamJpg(j) PROVE CloseInv'
  BY <1>RamJpg DEF RamJpg
<1>CountJpg. ASSUME NEW j \in Jobs, CountJpg(j) PROVE CloseInv'
  BY <1>CountJpg DEF CountJpg
<1>SnapShot. ASSUME NEW j \in Jobs, SnapShot(j) PROVE CloseInv'
  BY <1>SnapShot DEF SnapShot
<1>RamMp4. ASSUME NEW j \in Jobs, RamMp4(j) PROVE CloseInv'
  BY <1>RamMp4 DEF RamMp4
<1>Record. ASSUME NEW j \in Jobs, Record(j) PROVE CloseInv'
  BY <1>Record DEF Record
<1>Ftp. ASSUME NEW j \in Jobs, Ftp(j) PROVE CloseInv'
  BY <1>Ftp DEF Ftp
<1>CleanJpg. ASSUME NEW j \in Jobs, CleanJpg(j) PROVE CloseInv'
  BY <1>CleanJpg DEF CleanJpg, Clean
<1>DropJpg. ASSUME NEW j \in Jobs, DropJpg(j) PROVE CloseInv'
  BY <1>DropJpg DEF DropJpg, Drop
<1>CleanMp4. ASSUME NEW j \in Jobs, CleanMp4(j) PROVE CloseInv'
  BY <1>CleanMp4 DEF CleanMp4, Clean, PlaceOK, Cleaning
<1>DropMp4. ASSUME NEW j \in Jobs, DropMp4(j) PROVE CloseInv'
  BY <1>DropMp4 DEF DropMp4, Drop, PlaceOK, Cleaning
<1>Uncount. ASSUME NEW j \in Jobs, Uncount(j) PROVE CloseInv'
  BY <1>Uncount DEF Uncount
<1>Die. ASSUME NEW j \in Jobs, Die(j) PROVE CloseInv'
  BY <1>Die DEF Die
<1>StopClose. ASSUME NEW s \in Stoppers, StopClose(s) PROVE CloseInv'
  BY <1>StopClose DEF StopClose
<1>StopSchedules. ASSUME NEW s \in Stoppers, StopSchedules(s) PROVE CloseInv'
  BY <1>StopSchedules DEF StopSchedules
<1>StopCancel. ASSUME NEW s \in Stoppers, StopCancel(s) PROVE CloseInv'
  BY <1>StopCancel DEF StopCancel
<1> QED BY <1>Tick, <1>InitClear, <1>InitRules, <1>InitCool, <1>InitOpen, <1>Push, <1>PushCheck,
     <1>PushReopen, <1>PushRule, <1>PushCool, <1>PushLaunch, <1>PushCount, <1>NextJob,
     <1>PickAction, <1>RunAction, <1>RamJpg, <1>CountJpg, <1>SnapShot, <1>RamMp4, <1>Record, <1>Ftp,
     <1>CleanJpg, <1>DropJpg, <1>CleanMp4, <1>DropMp4, <1>Uncount, <1>Die, <1>StopClose,
     <1>StopSchedules, <1>StopCancel DEF Next, InitStep, JobStep

-----------------------------------------------------------------------------
(* The order of the actions *)

\* The stages of a rule, in numbers and as sequences.
LEMMA Stages ==
  /\ Begun(0) = <<>> /\ Begun(3) = Rule /\ Len(Rule) = 3
  /\ \A k \in 0 .. 2 : Append(Begun(k), Rule[k + 1]) = Begun(k + 1) /\ Begun(k + 1) # <<>>
  /\ \A k \in 0 .. 3 : Len(Begun(k)) = k /\ IsPrefix(Begun(k), Rule)
<1>1. Begun(0) = <<>> /\ Begun(3) = Rule /\ Len(Rule) = 3
  BY DEF Begun, Rule
<1>2. \A k \in 0 .. 2 : Append(Begun(k), Rule[k + 1]) = Begun(k + 1)
  BY DEF Begun, Rule
<1>3. \A k \in 0 .. 3 : Len(Begun(k)) = k
  BY DEF Begun
<1>4. ASSUME NEW k \in 0 .. 3 PROVE IsPrefix(Begun(k), Rule)
  <2>1. Len(Rule) = 3
    BY <1>1
  <2> QED BY <2>1 DEF Begun, IsPrefix
<1>5. \A k \in 0 .. 2 : Begun(k + 1) # <<>>
  BY <1>3
<1> QED BY <1>1, <1>2, <1>3, <1>4, <1>5

\* A step that leaves the lists and counts of the jobs alone.
OrderSame ==
  /\ UNCHANGED <<ran, iActCnt>>
  /\ \A j \in Jobs :
       /\ pc'[j] # "done" => pc[j] # "done" /\ (pc'[j] = "call" <=> pc[j] = "call")
       /\ Fresh(j)' => Fresh(j)
       /\ Finished(j)' => Finished(j) \/ (iActCnt[j] = 0 /\ pc[j] = "next")

\* Such a step keeps OrderInv.
LEMMA OrderKept ==
  ASSUME OrderInv, OrderSame PROVE OrderInv'
<1>1. ASSUME NEW j \in Jobs, pc[j] = "next", iActCnt[j] = 0
      PROVE  ran[j] \in {<<>>, Rule}
  <2>1. PICK k \in 0 .. 3 :
          /\ ran[j] = Begun(k)
          /\ iActCnt[j] \in (IF k = 0 THEN {0, Len(Rule)} ELSE {Len(Rule) - k})
    BY <1>1, Stages DEF OrderInv, Progress
  <2>2. k \in {0, 3}
    BY <1>1, <2>1, Stages
  <2> QED BY <2>1, <2>2, Stages
<1>2. ASSUME NEW j \in Jobs PROVE Progress(j)'
  <2>1. Progress(j)
    BY DEF OrderInv
  <2>2. ran'[j] = ran[j] /\ iActCnt'[j] = iActCnt[j]
    BY DEF OrderSame
  <2>3. pc'[j] # "done" => pc[j] # "done" /\ (pc'[j] = "call" <=> pc[j] = "call")
    BY DEF OrderSame
  <2> QED BY <2>1, <2>2, <2>3 DEF Progress
<1> SUFFICES ASSUME NEW j \in Jobs
             PROVE  /\ Progress(j)'
                    /\ Fresh(j)' => ran'[j] = <<>>
                    /\ Finished(j)' => iActCnt'[j] = 0 /\ ran'[j] \in {<<>>, Rule}
  BY DEF OrderInv
<1>4. Fresh(j)' => ran'[j] = <<>>
  BY DEF OrderInv, OrderSame
<1>5. Finished(j)' => iActCnt'[j] = 0 /\ ran'[j] \in {<<>>, Rule}
  BY <1>1 DEF OrderInv, OrderSame
<1> QED BY <1>2, <1>4, <1>5

\* A step of job j that leaves the others alone.
LEMMA OrderOne ==
  ASSUME OrderInv, NEW j \in Jobs, Progress(j)', ~Fresh(j)', ~Finished(j)',
         \A i \in Jobs \ {j} : /\ pc'[i] = pc[i] /\ home'[i] = home[i]
                               /\ iActCnt'[i] = iActCnt[i] /\ ran'[i] = ran[i]
  PROVE  OrderInv'
<1>1. ASSUME NEW i \in Jobs \ {j}
      PROVE  /\ Progress(i)' <=> Progress(i)
             /\ Fresh(i)' <=> Fresh(i)
             /\ Finished(i)' <=> Finished(i)
  BY DEF Progress, Fresh, Finished
<1> QED BY <1>1 DEF OrderInv

\* A launched job has the whole rule before it, or nothing.
LEMMA LaunchOrder ==
  ASSUME IInv, OrderInv, process = "running", NEW j \in Jobs, PushLaunch(j)
  PROVE  OrderInv'
<1>0. TypeOK /\ RuleOK /\ PlaceOK /\ OrderInv /\ PushLaunch(j)
  BY DEF IInv
<1> USE <1>0, EventAssumption
<1>1. /\ ran' = ran /\ ran[j] = Begun(0)
      /\ iActCnt' = [iActCnt EXCEPT ![j] = iActCount[trigger[j]]]
  BY Stages DEF PushLaunch, OrderInv, Fresh
<1>2. iActCnt'[j] \in {0, Len(Rule)}
  BY <1>1 DEF TypeOK, RuleOK
<1>3. pc' = [pc EXCEPT ![j] = "count"] /\ pc'[j] = "count" /\ UNCHANGED home
  BY DEF PushLaunch, Goto, TypeOK, Threads
<1>4. Progress(j)' /\ ~Fresh(j)' /\ ~Finished(j)'
  BY <1>1, <1>2, <1>3, Stages DEF Progress, Fresh, Finished, Opening, Cleaning
<1>5. \A i \in Jobs \ {j} : /\ pc'[i] = pc[i] /\ home'[i] = home[i]
                            /\ iActCnt'[i] = iActCnt[i] /\ ran'[i] = ran[i]
  BY <1>1, <1>3 DEF TypeOK, Threads
<1> QED BY <1>4, <1>5, OrderOne

\* The action a job picks is counted.
LEMMA PickOrder ==
  ASSUME IInv, OrderInv, process = "running", NEW j \in Jobs, PickAction(j)
  PROVE  OrderInv'
<1>0. TypeOK /\ PlaceOK /\ OrderInv /\ PickAction(j)
  BY DEF IInv
<1> USE <1>0, EventAssumption
<1>1. PICK k \in 0 .. 3 :
        /\ ran[j] = Begun(k)
        /\ iActCnt[j] \in (IF k = 0 THEN {0, Len(Rule)} ELSE {Len(Rule) - k})
  BY Stages DEF OrderInv, Progress, PickAction
<1>2. iActCnt[j] # 0 /\ iActCnt'[j] = iActCnt[j] - 1
  BY DEF PickAction, PlaceOK, TypeOK, Take
<1>3. iActCnt'[j] = 3 - (k + 1)
  BY <1>1, <1>2, Stages
<1>4. pc' = [pc EXCEPT ![j] = "call"] /\ pc'[j] = "call" /\ UNCHANGED <<home, ran>>
  BY DEF PickAction, Goto, TypeOK, Threads, history
<1>5. Progress(j)' /\ ~Fresh(j)' /\ ~Finished(j)'
  BY <1>1, <1>3, <1>4, Stages DEF Progress, Fresh, Finished, Opening, Cleaning
<1>6. \A i \in Jobs \ {j} : /\ pc'[i] = pc[i] /\ home'[i] = home[i]
                            /\ iActCnt'[i] = iActCnt[i] /\ ran'[i] = ran[i]
  BY <1>4 DEF TypeOK, Threads, PickAction
<1> QED BY <1>5, <1>6, OrderOne

\* The place a job has picked, if it is in the table, is the one after the actions it has begun.
LEMMA NextOfRule ==
  ASSUME IInv, OrderInv, process = "running", NEW j \in Jobs, pc[j] = "call", cur[j] \in 0 .. 2
  PROVE  ran[j] = Begun(cur[j]) /\ iActCnt[j] = 3 - (cur[j] + 1)
<1>1. cur[j] \in {2 - iActCnt[j], -1 - iActCnt[j]} /\ iActCnt[j] \in 0 .. 3
  BY RuleActions DEF IInv, PlaceOK, TypeOK
<1>2. PICK k \in 0 .. 3 : ran[j] = Begun(k) /\ iActCnt[j] = 3 - (k + 1)
  BY RuleActions DEF OrderInv, Progress
<1>3. k = cur[j]
  BY <1>1, <1>2
<1> QED BY <1>2, <1>3

\* The action a job begins is the next one of its rule.
LEMMA RunOrder ==
  ASSUME IInv, OrderInv, process = "running", NEW j \in Jobs, RunAction(j)
  PROVE  OrderInv'
<1>0. TypeOK /\ PlaceOK /\ OrderInv /\ process = "running" /\ RunAction(j)
  BY DEF IInv
<1> USE <1>0, EventAssumption
<1>1. pc[j] = "call" /\ IInv
  BY DEF RunAction
<1>2. UNCHANGED <<iActCnt, home>>
  BY DEF RunAction
<1>3. CASE process' = "undefined" /\ UNCHANGED <<pc, ran>>
  <2>1. OrderSame
    BY <1>2, <1>3 DEF OrderSame, Fresh, Finished
  <2> QED BY <2>1, OrderKept
<1>4. ASSUME NEW n \in 0 .. 2, n = cur[j], Goto(j, Rule[n + 1]), Rule[n + 1] \in Actions,
             ran' = [ran EXCEPT ![j] = Append(ran[j], Rule[n + 1])]
      PROVE  OrderInv'
  <2>1. ran[j] = Begun(n) /\ iActCnt[j] = 3 - (n + 1)
    BY <1>1, <1>4, NextOfRule
  <2>2. ran'[j] = Begun(n + 1) /\ n + 1 \in 1 .. 3
    <3>1. ran'[j] = Append(ran[j], Rule[n + 1])
      BY <1>4 DEF TypeOK
    <3> QED BY <2>1, <3>1, Stages
  <2>3. pc'[j] = Rule[n + 1] /\ pc'[j] \in Actions
    BY <1>4 DEF Goto, TypeOK, Threads
  <2>4. Progress(j)'
    BY <1>2, <2>1, <2>2, <2>3, Stages DEF Progress, Actions
  <2>5. ~Fresh(j)' /\ ~Finished(j)'
    BY <2>3 DEF Fresh, Finished, Actions, Opening, Cleaning
  <2>6. \A i \in Jobs \ {j} : /\ pc'[i] = pc[i] /\ home'[i] = home[i]
                              /\ iActCnt'[i] = iActCnt[i] /\ ran'[i] = ran[i]
    BY <1>2, <1>4 DEF Goto, TypeOK, Threads
  <2> QED BY <2>4, <2>5, <2>6, OrderOne
<1> QED BY <1>3, <1>4, Runs

\* No other step touches the lists of the jobs.
LEMMA OrderStep ==
  ASSUME IInv, OrderInv, process = "running", Next
  PROVE  OrderInv'
<1>0. TypeOK /\ RuleOK /\ PlaceOK /\ OrderInv /\ process = "running"
  BY DEF IInv
<1> USE <1>0, EventAssumption DEF OrderSame, Fresh, Finished, Goto, CleanUp, engine, rule, job,
        history, Opening, Cleaning, TypeOK, Threads
<1>Tick. ASSUME Tick PROVE OrderSame
  BY <1>Tick DEF Tick
<1>InitClear. ASSUME NEW t \in Threads, InitClear(t) PROVE OrderSame
  BY <1>InitClear DEF InitClear
<1>InitRules. ASSUME NEW t \in Threads, InitRules(t) PROVE OrderSame
  BY <1>InitRules DEF InitRules
<1>InitCool. ASSUME NEW t \in Threads, InitCool(t) PROVE OrderSame
  BY <1>InitCool DEF InitCool
<1>InitOpen. ASSUME NEW t \in Threads, InitOpen(t) PROVE OrderSame
  BY <1>InitOpen DEF InitOpen
<1>Push. ASSUME NEW j \in Jobs, Push(j) PROVE OrderSame
  BY <1>Push DEF Push
<1>PushCheck. ASSUME NEW j \in Jobs, PushCheck(j) PROVE OrderSame
  BY <1>PushCheck DEF PushCheck
<1>PushReopen. ASSUME NEW j \in Jobs, PushReopen(j) PROVE OrderSame
  BY <1>PushReopen DEF PushReopen
<1>PushRule. ASSUME NEW j \in Jobs, PushRule(j) PROVE OrderSame
  BY <1>PushRule DEF PushRule
<1>PushCool. ASSUME NEW j \in Jobs, PushCool(j) PROVE OrderSame
  BY <1>PushCool DEF PushCool
<1>PushLaunch. ASSUME NEW j \in Jobs, PushLaunch(j) PROVE OrderInv'
  BY <1>PushLaunch, LaunchOrder
<1>PushCount. ASSUME NEW j \in Jobs, PushCount(j) PROVE OrderSame
  BY <1>PushCount DEF PushCount
<1>NextJob. ASSUME NEW j \in Jobs, NextJob(j) PROVE OrderSame
  BY <1>NextJob, SMTT(60) DEF NextJob, Closed
<1>PickAction. ASSUME NEW j \in Jobs, PickAction(j) PROVE OrderInv'
  BY <1>PickAction, PickOrder
<1>RunAction. ASSUME NEW j \in Jobs, RunAction(j) PROVE OrderInv'
  BY <1>RunAction, RunOrder
<1>RamJpg. ASSUME NEW j \in Jobs, RamJpg(j) PROVE OrderSame
  BY <1>RamJpg DEF RamJpg
<1>CountJpg. ASSUME NEW j \in Jobs, CountJpg(j) PROVE OrderSame
  BY <1>CountJpg DEF CountJpg
<1>SnapShot. ASSUME NEW j \in Jobs, SnapShot(j) PROVE OrderSame
  BY <1>SnapShot DEF SnapShot
<1>RamMp4. ASSUME NEW j \in Jobs, RamMp4(j) PROVE OrderSame
  BY <1>RamMp4 DEF RamMp4
<1>Record. ASSUME NEW j \in Jobs, Record(j) PROVE OrderSame
  BY <1>Record DEF Record
<1>Ftp. ASSUME NEW j \in Jobs, Ftp(j) PROVE OrderSame
  BY <1>Ftp DEF Ftp
<1>CleanJpg. ASSUME NEW j \in Jobs, CleanJpg(j) PROVE OrderSame
  BY <1>CleanJpg DEF CleanJpg, Clean
<1>DropJpg. ASSUME NEW j \in Jobs, DropJpg(j) PROVE OrderSame
  BY <1>DropJpg DEF DropJpg, Drop
<1>CleanMp4. ASSUME NEW j \in Jobs, CleanMp4(j) PROVE OrderSame
  BY <1>CleanMp4 DEF CleanMp4, Clean, PlaceOK
<1>DropMp4. ASSUME NEW j \in Jobs, DropMp4(j) PROVE OrderSame
  BY <1>DropMp4 DEF DropMp4, Drop, PlaceOK
<1>Uncount. ASSUME NEW j \in Jobs, Uncount(j) PROVE OrderSame
  BY <1>Uncount DEF Uncount
<1>Die. ASSUME NEW j \in Jobs, Die(j) PROVE OrderSame
  BY <1>Die DEF Die
<1>StopClose. ASSUME NEW s \in Stoppers, StopClose(s) PROVE OrderSame
  BY <1>StopClose DEF StopClose
<1>StopSchedules. ASSUME NEW s \in Stoppers, StopSchedules(s) PROVE OrderSame
  BY <1>StopSchedules DEF StopSchedules
<1>StopCancel. ASSUME NEW s \in Stoppers, StopCancel(s) PROVE OrderSame
  BY <1>StopCancel DEF StopCancel
<1> QED BY OrderKept, <1>Tick, <1>InitClear, <1>InitRules, <1>InitCool, <1>InitOpen, <1>Push, <1>PushCheck,
     <1>PushReopen, <1>PushRule, <1>PushCool, <1>PushLaunch, <1>PushCount, <1>NextJob,
     <1>PickAction, <1>RunAction, <1>RamJpg, <1>CountJpg, <1>SnapShot, <1>RamMp4, <1>Record, <1>Ftp,
     <1>CleanJpg, <1>DropJpg, <1>CleanMp4, <1>DropMp4, <1>Uncount, <1>Die, <1>StopClose,
     <1>StopSchedules, <1>StopCancel DEF Next, InitStep, JobStep

-----------------------------------------------------------------------------
(* Jobs one after the other *)

\* Where the one thread in the engine may go.
LEMMA Moves ==
  ASSUME TypeOK, Alone, NEW j \in Jobs, NEW label \in Labels \ {"reopen"},
         \A u \in Threads \ {j} : pc[u] \in {"off", "done"},
         Goto(j, label), UNCHANGED cancelled, gEventAlive' # -1,
         label \in Opening => gEventAlive' = 0,
         label \in Cleaning => home'[j] = "uncount"
  PROVE  Alone'
<1>1. \A u \in Threads : pc'[u] = IF u = j THEN label ELSE pc[u]
  BY DEF Goto, TypeOK, Threads
<1>2. \A u \in Threads \ {j} : pc'[u] \in {"off", "done"}
  BY <1>1
<1>3. \A t, u \in Busy' : t = u
  BY <1>2 DEF Busy
<1>4. \A s \in Stoppers : pc'[s] = "off"
  BY <1>1, EventAssumption DEF Alone, Threads
<1>5. ASSUME NEW i \in Jobs
      PROVE  /\ ~cancelled'[i] /\ pc'[i] # "reopen"
             /\ pc'[i] \in Opening => gEventAlive' = 0
             /\ pc'[i] \in Cleaning => home'[i] = "uncount"
  BY <1>1, <1>2 DEF Alone, Threads, Opening, Cleaning
<1> QED BY <1>3, <1>4, <1>5 DEF Alone

\* When a job is in the engine, the other threads are not.
LEMMA Others ==
  ASSUME Alone, NEW j \in Jobs, pc[j] \notin {"off", "done"}
  PROVE  \A u \in Threads \ {j} : pc[u] \in {"off", "done"}
BY DEF Alone, Busy, Threads

\* While the jobs come one after the other, an update is never lost.
LEMMA Exact ==
  ASSUME TypeOK, Alone, NEW j \in Jobs, pc[j] \notin {"off", "done"}, NEW by \in {1, -1},
         NEW counter \in {"iRamJpgCounter", "iRamMp4Counter", "iRunningJobs"},
         Update(j, counter, by)
  PROVE  jobStatus' = [jobStatus EXCEPT ![counter] = jobStatus[counter] + by]
<1>1. \A u \in Threads \ {j} : pc[u] \in {"off", "done"}
  BY Others
<1>2. \A u \in Threads \ {j} : pc[u] \notin Updates[counter]
  BY <1>1 DEF Updates
<1> QED BY <1>2 DEF Update

\* Then no step is one of event_stop, no job is cancelled, and a job is pushed only when
\* nobody is in the engine.
LEMMA Sole ==
  ASSUME IInv, SequenceInv, Next, ~crossed'
  PROVE  /\ ~crossed
         /\ Tick \/ \E j \in Jobs : InitStep(j) \/ (Push(j) /\ Busy = {}) \/ JobStep(j)
<1>0. TypeOK
  BY DEF IInv
<1>1. ~crossed
  <2>1. CASE UNCHANGED crossed
    BY <2>1
  <2>2. ASSUME NEW j \in Jobs, Push(j) PROVE ~crossed
    BY <2>2 DEF Push
  <2>3. ASSUME NEW s \in Stoppers, StopClose(s) PROVE FALSE
    BY <2>3 DEF StopClose
  <2> QED BY <2>1, <2>2, <2>3 DEF Next, InitStep, JobStep, Tick, InitClear, InitRules,
       InitCool, InitOpen, PushCheck, PushReopen, PushRule, PushCool, PushLaunch, PushCount, NextJob,
       PickAction, RunAction, RamJpg, CountJpg, SnapShot, RamMp4, Record, Ftp, CleanJpg, DropJpg, CleanMp4,
       DropMp4, Uncount, Clean, Drop, Die, StopSchedules, StopCancel, history
<1>2. Alone
  BY <1>1 DEF SequenceInv
<1>3. ASSUME NEW s \in Stoppers,
             StopClose(s) \/ StopSchedules(s) \/ StopCancel(s) \/ InitStep(s)
      PROVE  FALSE
  BY <1>2, <1>3 DEF Alone, StopClose, StopSchedules, StopCancel, InitStep, InitClear,
     InitRules, InitCool, InitOpen
<1>4. ASSUME NEW j \in Jobs, Die(j) PROVE FALSE
  BY <1>2, <1>4 DEF Alone, Die
<1>5. ASSUME NEW j \in Jobs, Push(j) PROVE Busy = {}
  BY <1>0, <1>5 DEF Push, TypeOK
<1> QED BY <1>1, <1>3, <1>4, <1>5 DEF Next, Threads

\* While nobody shared the engine, a step keeps the one thread in it alone.
LEMMA AloneStep ==
  ASSUME IInv, OrderInv, SequenceInv, process = "running", Next, ~crossed'
  PROVE  Alone'
<1>0. TypeOK /\ RuleOK /\ PlaceOK /\ OrderInv /\ process = "running"
      /\ SequenceInv /\ ~crossed /\ Alone /\ Paced /\ Pictures /\ Recordings /\ Running
  BY Sole DEF IInv, SequenceInv
<1> USE <1>0, EventAssumption DEF TypeOK, Goto, CleanUp, engine, rule, job, history, Threads,
        Opening, Cleaning, Alone, Busy
<1>Tick. ASSUME Tick PROVE Alone'
  BY <1>Tick DEF Tick
<1>InitClear. ASSUME NEW j \in Jobs, InitClear(j) PROVE Alone'
  BY <1>InitClear DEF InitClear
<1>InitRules. ASSUME NEW j \in Jobs, InitRules(j) PROVE Alone'
  BY <1>InitRules DEF InitRules
<1>InitCool. ASSUME NEW j \in Jobs, InitCool(j) PROVE Alone'
  BY <1>InitCool DEF InitCool
<1>InitOpen. ASSUME NEW j \in Jobs, InitOpen(j) PROVE Alone'
  <2>1. \A u \in Threads \ {j} : pc[u] \in {"off", "done"}
    BY <1>InitOpen, Others DEF InitOpen
  <2>2. Goto(j, "rule") /\ gEventAlive' # -1 /\ UNCHANGED cancelled
    BY <1>InitOpen DEF InitOpen
  <2> QED BY <2>1, <2>2, Moves DEF Labels
<1>Push. ASSUME NEW j \in Jobs, Push(j), Busy = {} PROVE Alone'
  <2>1. \A u \in Threads \ {j} : pc[u] \in {"off", "done"}
    BY <1>Push DEF Busy
  <2> QED BY <1>Push, <2>1, Moves DEF Push, Labels
<1>PushCheck. ASSUME NEW j \in Jobs, PushCheck(j) PROVE Alone'
  <2>1. \A u \in Threads \ {j} : pc[u] \in {"off", "done"}
    BY <1>PushCheck, Others DEF PushCheck
  <2>2. CASE gEventAlive = 1 /\ Goto(j, "rule")
    BY <1>PushCheck, <2>1, <2>2, Moves DEF PushCheck, Labels
  <2>3. CASE gEventAlive = 0 /\ Goto(j, "init_clear")
    BY <1>PushCheck, <2>1, <2>3, Moves DEF PushCheck, Labels
  <2> QED BY <1>PushCheck, <2>2, <2>3 DEF PushCheck
<1>PushReopen. ASSUME NEW j \in Jobs, PushReopen(j) PROVE Alone'
  BY <1>PushReopen DEF PushReopen
<1>PushRule. ASSUME NEW j \in Jobs, PushRule(j) PROVE Alone'
  <2>1. \A u \in Threads \ {j} : pc[u] \in {"off", "done"}
    BY <1>PushRule, Others DEF PushRule
  <2>2. ASSUME NEW label \in {"cool", "done"}, Goto(j, label) PROVE Alone'
    BY <1>PushRule, <2>1, <2>2, Moves DEF PushRule, Labels
  <2> QED BY <1>PushRule, <2>2 DEF PushRule
<1>PushCool. ASSUME NEW j \in Jobs, PushCool(j) PROVE Alone'
  BY <1>PushCool DEF PushCool
<1>PushLaunch. ASSUME NEW j \in Jobs, PushLaunch(j) PROVE Alone'
  BY <1>PushLaunch DEF PushLaunch
<1>PushCount. ASSUME NEW j \in Jobs, PushCount(j) PROVE Alone'
  BY <1>PushCount DEF PushCount
<1>NextJob. ASSUME NEW j \in Jobs, NextJob(j) PROVE Alone'
  <2>1. \A u \in Threads \ {j} : pc[u] \in {"off", "done"}
    BY <1>NextJob, Others DEF NextJob
  <2>2. CASE Goto(j, "pick")
    BY <1>NextJob, <2>1, <2>2, Moves DEF NextJob, Labels
  <2>3. CASE Goto(j, "clean_jpg") /\ home' = [home EXCEPT ![j] = "uncount"]
    BY <1>NextJob, <2>1, <2>3, Moves DEF NextJob, Labels
  <2> QED BY <1>NextJob, <2>2, <2>3 DEF NextJob, Closed
<1>PickAction. ASSUME NEW j \in Jobs, PickAction(j) PROVE Alone'
  BY <1>PickAction DEF PickAction
<1>RunAction. ASSUME NEW j \in Jobs, RunAction(j) PROVE Alone'
  <2>1. \A u \in Threads \ {j} : pc[u] \in {"off", "done"}
    BY <1>RunAction, Others DEF RunAction
  <2>2. CASE UNCHANGED pc
    BY <1>RunAction, <2>2 DEF RunAction
  <2>3. ASSUME NEW a \in Actions, Goto(j, a) PROVE Alone'
    BY <1>RunAction, <2>1, <2>3, Moves DEF RunAction, Labels, Actions
  <2>4. UNCHANGED pc \/ \E a \in Actions : Goto(j, a)
    BY <1>RunAction, Runs
  <2> QED BY <2>2, <2>3, <2>4
<1>RamJpg. ASSUME NEW j \in Jobs, RamJpg(j) PROVE Alone'
  BY <1>RamJpg DEF RamJpg
<1>CountJpg. ASSUME NEW j \in Jobs, CountJpg(j) PROVE Alone'
  BY <1>CountJpg DEF CountJpg
<1>SnapShot. ASSUME NEW j \in Jobs, SnapShot(j) PROVE Alone'
  BY <1>SnapShot DEF SnapShot
<1>RamMp4. ASSUME NEW j \in Jobs, RamMp4(j) PROVE Alone'
  BY <1>RamMp4 DEF RamMp4
<1>Record. ASSUME NEW j \in Jobs, Record(j) PROVE Alone'
  BY <1>Record DEF Record
<1>Ftp. ASSUME NEW j \in Jobs, Ftp(j) PROVE Alone'
  BY <1>Ftp DEF Ftp
<1>CleanJpg. ASSUME NEW j \in Jobs, CleanJpg(j) PROVE Alone'
  BY <1>CleanJpg DEF CleanJpg, Clean
<1>DropJpg. ASSUME NEW j \in Jobs, DropJpg(j) PROVE Alone'
  BY <1>DropJpg DEF DropJpg, Drop
<1>CleanMp4. ASSUME NEW j \in Jobs, CleanMp4(j) PROVE Alone'
  BY <1>CleanMp4 DEF CleanMp4, Clean
<1>DropMp4. ASSUME NEW j \in Jobs, DropMp4(j) PROVE Alone'
  BY <1>DropMp4 DEF DropMp4, Drop
<1>Uncount. ASSUME NEW j \in Jobs, Uncount(j) PROVE Alone'
  BY <1>Uncount DEF Uncount
<1> QED BY <1>0, Sole, <1>Tick, <1>InitClear, <1>InitRules, <1>InitCool, <1>InitOpen, <1>Push,
     <1>PushCheck, <1>PushReopen, <1>PushRule, <1>PushCool, <1>PushLaunch, <1>PushCount,
     <1>NextJob, <1>PickAction, <1>RunAction, <1>RamJpg, <1>CountJpg, <1>SnapShot, <1>RamMp4, <1>Record,
     <1>Ftp, <1>CleanJpg, <1>DropJpg, <1>CleanMp4, <1>DropMp4, <1>Uncount DEF InitStep,
     JobStep

\* It keeps the cooldown of the open engine.
LEMMA CoolingStep ==
  ASSUME IInv, SequenceInv, process = "running", Next, ~crossed'
  PROVE  Cooling'
<1>0. TypeOK /\ PlaceOK /\ process = "running" /\ ~crossed /\ Alone /\ Cooling
  BY Sole DEF IInv, SequenceInv
<1> USE <1>0, EventAssumption DEF TypeOK, Goto, CleanUp, engine, rule, job, history, Threads
<1> DEFINE Quiet == /\ UNCHANGED <<gEventAlive, tTriggerCooldownPeriod>>
                    /\ \A i \in Jobs : pc'[i] = "init_open" => pc[i] = "init_open"
<1>1. ASSUME Quiet PROVE Cooling'
  BY <1>1 DEF Cooling
<1>2. ASSUME NEW j \in Jobs, pc[j] \notin {"off", "done"}
      PROVE  \A i \in Jobs \ {j} : pc[i] # "init_open"
  BY <1>2, Others
<1>Tick. ASSUME Tick PROVE Quiet
  BY <1>Tick DEF Tick
<1>InitClear. ASSUME NEW j \in Jobs, InitClear(j) PROVE Cooling'
  <2>1. gEventAlive' = 0
    BY <1>InitClear DEF InitClear, Alone, Opening
  <2>2. \A i \in Jobs : pc'[i] # "init_open"
    BY <1>InitClear, <1>2 DEF InitClear
  <2> QED BY <2>1, <2>2 DEF Cooling
<1>InitRules. ASSUME NEW j \in Jobs, InitRules(j) PROVE Quiet
  BY <1>InitRules DEF InitRules
<1>InitCool. ASSUME NEW j \in Jobs, InitCool(j) PROVE Cooling'
  BY <1>InitCool DEF InitCool, Cooling
<1>InitOpen. ASSUME NEW j \in Jobs, InitOpen(j) PROVE Cooling'
  BY <1>InitOpen DEF InitOpen, Cooling
<1>Push. ASSUME NEW j \in Jobs, Push(j) PROVE Quiet
  BY <1>Push DEF Push
<1>PushCheck. ASSUME NEW j \in Jobs, PushCheck(j) PROVE Quiet
  BY <1>PushCheck DEF PushCheck
<1>PushReopen. ASSUME NEW j \in Jobs, PushReopen(j) PROVE Quiet
  BY <1>PushReopen DEF PushReopen
<1>PushRule. ASSUME NEW j \in Jobs, PushRule(j) PROVE Quiet
  BY <1>PushRule DEF PushRule
<1>PushCool. ASSUME NEW j \in Jobs, PushCool(j) PROVE Quiet
  BY <1>PushCool DEF PushCool
<1>PushLaunch. ASSUME NEW j \in Jobs, PushLaunch(j) PROVE Quiet
  BY <1>PushLaunch DEF PushLaunch
<1>PushCount. ASSUME NEW j \in Jobs, PushCount(j) PROVE Quiet
  BY <1>PushCount DEF PushCount
<1>NextJob. ASSUME NEW j \in Jobs, NextJob(j) PROVE Quiet
  BY <1>NextJob DEF NextJob, Closed
<1>PickAction. ASSUME NEW j \in Jobs, PickAction(j) PROVE Quiet
  BY <1>PickAction DEF PickAction
<1>RunAction. ASSUME NEW j \in Jobs, RunAction(j) PROVE Quiet
  <2>1. UNCHANGED pc \/ \E a \in Actions : Goto(j, a)
    BY <1>RunAction, Runs
  <2>2. \A i \in Jobs : pc'[i] = "init_open" => pc[i] = "init_open"
    BY <2>1 DEF Actions
  <2> QED BY <1>RunAction, <2>2 DEF RunAction
<1>RamJpg. ASSUME NEW j \in Jobs, RamJpg(j) PROVE Quiet
  BY <1>RamJpg DEF RamJpg
<1>CountJpg. ASSUME NEW j \in Jobs, CountJpg(j) PROVE Quiet
  BY <1>CountJpg DEF CountJpg
<1>SnapShot. ASSUME NEW j \in Jobs, SnapShot(j) PROVE Quiet
  BY <1>SnapShot DEF SnapShot
<1>RamMp4. ASSUME NEW j \in Jobs, RamMp4(j) PROVE Quiet
  BY <1>RamMp4 DEF RamMp4
<1>Record. ASSUME NEW j \in Jobs, Record(j) PROVE Quiet
  BY <1>Record DEF Record
<1>Ftp. ASSUME NEW j \in Jobs, Ftp(j) PROVE Quiet
  BY <1>Ftp DEF Ftp
<1>CleanJpg. ASSUME NEW j \in Jobs, CleanJpg(j) PROVE Quiet
  BY <1>CleanJpg DEF CleanJpg, Clean
<1>DropJpg. ASSUME NEW j \in Jobs, DropJpg(j) PROVE Quiet
  BY <1>DropJpg DEF DropJpg, Drop
<1>CleanMp4. ASSUME NEW j \in Jobs, CleanMp4(j) PROVE Quiet
  BY <1>CleanMp4 DEF CleanMp4, Clean, Alone, Opening, Cleaning
<1>DropMp4. ASSUME NEW j \in Jobs, DropMp4(j) PROVE Quiet
  BY <1>DropMp4 DEF DropMp4, Drop, Alone, Opening, Cleaning
<1>Uncount. ASSUME NEW j \in Jobs, Uncount(j) PROVE Quiet
  BY <1>Uncount DEF Uncount
<1> QED BY <1>0, <1>1, Sole, <1>Tick, <1>InitClear, <1>InitRules, <1>InitCool, <1>InitOpen,
     <1>Push, <1>PushCheck, <1>PushReopen, <1>PushRule, <1>PushCool, <1>PushLaunch, <1>PushCount,
     <1>NextJob, <1>PickAction, <1>RunAction, <1>RamJpg, <1>CountJpg, <1>SnapShot, <1>RamMp4, <1>Record,
     <1>Ftp, <1>CleanJpg, <1>DropJpg, <1>CleanMp4, <1>DropMp4, <1>Uncount DEF InitStep,
     JobStep

\* It keeps tLastRun the time of the last launch.
LEMMA PacedStep ==
  ASSUME IInv, OrderInv, SequenceInv, process = "running", Next, ~crossed'
  PROVE  Paced'
<1>0. TypeOK /\ RuleOK /\ PlaceOK /\ OrderInv /\ process = "running"
      /\ SequenceInv /\ ~crossed /\ Alone /\ Cooling /\ Paced
  BY Sole DEF IInv, SequenceInv
<1> USE <1>0, EventAssumption DEF TypeOK, Goto, CleanUp, engine, rule, job, history, Threads,
        Opening, Cleaning, Alone, Paced, Cooled
<1>Tick. ASSUME Tick PROVE Paced'
  BY <1>Tick DEF Tick
<1>InitClear. ASSUME NEW j \in Jobs, InitClear(j) PROVE Paced'
  <2>1. \A u \in Threads \ {j} : pc[u] \in {"off", "done"}
    BY <1>InitClear, Others DEF InitClear
  <2>2. \A i \in Jobs : pc'[i] # "launch"
    BY <1>InitClear, <2>1 DEF InitClear
  <2>3. launched = 0 /\ tLastRun'[TRIGGER_MOTION] = 0
    BY <1>InitClear DEF InitClear
  <2> QED BY <1>InitClear, <2>2, <2>3 DEF InitClear
<1>InitRules. ASSUME NEW j \in Jobs, InitRules(j) PROVE Paced'
  BY <1>InitRules DEF InitRules
<1>InitCool. ASSUME NEW j \in Jobs, InitCool(j) PROVE Paced'
  <2>1. \A u \in Threads \ {j} : pc[u] \in {"off", "done"}
    BY <1>InitCool, Others DEF InitCool
  <2>2. \A i \in Jobs : pc'[i] # "launch"
    BY <1>InitCool, <2>1 DEF InitCool
  <2> QED BY <1>InitCool, <2>2 DEF InitCool
<1>InitOpen. ASSUME NEW j \in Jobs, InitOpen(j) PROVE Paced'
  BY <1>InitOpen DEF InitOpen
<1>Push. ASSUME NEW j \in Jobs, Push(j), Busy = {} PROVE Paced'
  BY <1>Push DEF Push
<1>PushCheck. ASSUME NEW j \in Jobs, PushCheck(j) PROVE Paced'
  BY <1>PushCheck DEF PushCheck
<1>PushReopen. ASSUME NEW j \in Jobs, PushReopen(j) PROVE Paced'
  BY <1>PushReopen DEF PushReopen
<1>PushRule. ASSUME NEW j \in Jobs, PushRule(j) PROVE Paced'
  BY <1>PushRule DEF PushRule
<1>PushCool. ASSUME NEW j \in Jobs, PushCool(j) PROVE Paced'
  BY <1>PushCool DEF PushCool
<1>PushLaunch. ASSUME NEW j \in Jobs, PushLaunch(j) PROVE Paced'
  <2>0. tTriggerCooldownPeriod[TRIGGER_MOTION] = COOLDOWN
    BY <1>PushLaunch DEF PushLaunch, PlaceOK, Cooling
  <2>1. \A u \in Threads \ {j} : pc[u] \in {"off", "done"}
    BY <1>PushLaunch, Others DEF PushLaunch
  <2>2. trigger[j] = TRIGGER_MOTION /\ now[j] - launched > COOLDOWN
    BY <1>PushLaunch, <2>0 DEF PushLaunch, PlaceOK
  <2>3. ~hasty' /\ launched' = tLastRun'[TRIGGER_MOTION]
    BY <1>PushLaunch, <2>2 DEF PushLaunch
  <2>4. gEventAlive # 0 /\ UNCHANGED gEventAlive
    BY <1>PushLaunch DEF PushLaunch, PlaceOK
  <2>5. \A i \in Jobs : pc'[i] # "launch"
    BY <1>PushLaunch, <2>1 DEF PushLaunch
  <2> QED BY <2>3, <2>4, <2>5
<1>PushCount. ASSUME NEW j \in Jobs, PushCount(j) PROVE Paced'
  BY <1>PushCount DEF PushCount
<1>NextJob. ASSUME NEW j \in Jobs, NextJob(j) PROVE Paced'
  BY <1>NextJob DEF NextJob
<1>PickAction. ASSUME NEW j \in Jobs, PickAction(j) PROVE Paced'
  BY <1>PickAction DEF PickAction
<1>RunAction. ASSUME NEW j \in Jobs, RunAction(j) PROVE Paced'
  <2>1. UNCHANGED pc \/ \E a \in Actions : Goto(j, a)
    BY <1>RunAction, Runs
  <2>2. \A i \in Jobs : pc'[i] = "launch" => pc[i] = "launch"
    BY <2>1 DEF Actions
  <2> QED BY <1>RunAction, <2>2 DEF RunAction
<1>RamJpg. ASSUME NEW j \in Jobs, RamJpg(j) PROVE Paced'
  BY <1>RamJpg DEF RamJpg
<1>CountJpg. ASSUME NEW j \in Jobs, CountJpg(j) PROVE Paced'
  BY <1>CountJpg DEF CountJpg
<1>SnapShot. ASSUME NEW j \in Jobs, SnapShot(j) PROVE Paced'
  BY <1>SnapShot DEF SnapShot
<1>RamMp4. ASSUME NEW j \in Jobs, RamMp4(j) PROVE Paced'
  BY <1>RamMp4 DEF RamMp4
<1>Record. ASSUME NEW j \in Jobs, Record(j) PROVE Paced'
  BY <1>Record DEF Record
<1>Ftp. ASSUME NEW j \in Jobs, Ftp(j) PROVE Paced'
  BY <1>Ftp DEF Ftp
<1>CleanJpg. ASSUME NEW j \in Jobs, CleanJpg(j) PROVE Paced'
  BY <1>CleanJpg DEF CleanJpg, Clean
<1>DropJpg. ASSUME NEW j \in Jobs, DropJpg(j) PROVE Paced'
  BY <1>DropJpg DEF DropJpg, Drop
<1>CleanMp4. ASSUME NEW j \in Jobs, CleanMp4(j) PROVE Paced'
  BY <1>CleanMp4 DEF CleanMp4, Clean
<1>DropMp4. ASSUME NEW j \in Jobs, DropMp4(j) PROVE Paced'
  BY <1>DropMp4 DEF DropMp4, Drop
<1>Uncount. ASSUME NEW j \in Jobs, Uncount(j) PROVE Paced'
  BY <1>Uncount DEF Uncount
<1> QED BY <1>0, Sole, <1>Tick, <1>InitClear, <1>InitRules, <1>InitCool, <1>InitOpen, <1>Push,
     <1>PushCheck, <1>PushReopen, <1>PushRule, <1>PushCool, <1>PushLaunch, <1>PushCount,
     <1>NextJob, <1>PickAction, <1>RunAction, <1>RamJpg, <1>CountJpg, <1>SnapShot, <1>RamMp4, <1>Record,
     <1>Ftp, <1>CleanJpg, <1>DropJpg, <1>CleanMp4, <1>DropMp4, <1>Uncount DEF InitStep,
     JobStep

\* Only the thread in the engine has files.
LEMMA Mine ==
  ASSUME TypeOK, OrderInv, Pictures, Recordings, NEW j \in Jobs,
         \A u \in Threads \ {j} : pc[u] \in {"off", "done"}
  PROVE  \A i \in Jobs \ {j} : ~Has(i, "jpg") /\ ~Has(i, "mp4")
<1> SUFFICES ASSUME NEW i \in Jobs \ {j}, Has(i, "jpg") \/ Has(i, "mp4")
             PROVE  FALSE
  OBVIOUS
<1>1. pc[i] = "off"
  BY DEF Pictures, PictureOK, Recordings, RecordingOK, Threads
<1>2. ran[i] = <<>>
  BY <1>1 DEF OrderInv, Fresh
<1>3. Begun(2) # <<>> /\ Begun(3) # <<>>
  BY Stages DEF Begun
<1> QED BY <1>2, <1>3 DEF Pictures, PictureOK, Recordings, RecordingOK

\* A thread that sees to its own files and to its own share in the counters sees to all.
LEMMA Kept ==
  ASSUME TypeOK, OrderInv, Pictures, Recordings, Running, NEW j \in Jobs,
         \A u \in Threads \ {j} : pc[u] \in {"off", "done"},
         \A u \in Jobs \ {j} : pc'[u] = pc[u],
         \A u \in Jobs \ {j}, kind \in Kinds : Has(u, kind)' => Has(u, kind),
         jobStatus'.iRamJpgCounter >= 0, PictureOK(j)',
         jobStatus'.iRamMp4Counter = (IF Has(j, "mp4")' THEN 1 ELSE 0), RecordingOK(j)',
         \/ jobStatus'.iRunningJobs = jobStatus.iRunningJobs /\ (Counted(j)' <=> Counted(j))
         \/ jobStatus'.iRunningJobs = jobStatus.iRunningJobs + 1 /\ ~Counted(j) /\ Counted(j)'
         \/ jobStatus'.iRunningJobs = jobStatus.iRunningJobs - 1 /\ Counted(j) /\ ~Counted(j)'
  PROVE  Pictures' /\ Recordings' /\ Running'
<1>1. \A i \in Jobs \ {j} : ~Has(i, "jpg")' /\ ~Has(i, "mp4")'
  BY Mine DEF Kinds
<1>2. \A i \in Jobs \ {j} : pc'[i] \in {"off", "done"}
  BY DEF Threads
<1>3. \A i \in Jobs \ {j} : PictureOK(i)' /\ RecordingOK(i)'
  BY <1>1, <1>2 DEF PictureOK, RecordingOK
<1>4. (\E i \in Jobs : Has(i, "mp4")') <=> Has(j, "mp4")'
  BY <1>1
<1>5. Pictures' /\ Recordings'
  BY <1>3, <1>4 DEF Pictures, Recordings
<1>6. \A i \in Jobs \ {j} : ~Counted(i) /\ ~Counted(i)'
  BY <1>2 DEF Counted, Threads
<1>7. (\E i \in Jobs : Counted(i)) <=> Counted(j)
  BY <1>6
<1>8. (\E i \in Jobs : Counted(i)') <=> Counted(j)'
  BY <1>6
<1>9. Running'
  <2>1. CASE Counted(j)
    <3>1. jobStatus.iRunningJobs = 1
      BY <1>7, <2>1 DEF Running
    <3>2. jobStatus'.iRunningJobs = (IF Counted(j)' THEN 1 ELSE 0)
      BY <2>1, <3>1
    <3> QED BY <1>8, <3>2 DEF Running
  <2>2. CASE ~Counted(j)
    <3>1. jobStatus.iRunningJobs = 0
      BY <1>7, <2>2 DEF Running
    <3>2. jobStatus'.iRunningJobs = (IF Counted(j)' THEN 1 ELSE 0)
      BY <2>2, <3>1
    <3> QED BY <1>8, <3>2 DEF Running
  <2> QED BY <2>1, <2>2
<1> QED BY <1>5, <1>9

\* The files and the counters.
LEMMA CountersStep ==
  ASSUME IInv, OrderInv, SequenceInv, process = "running", Next, ~crossed'
  PROVE  Pictures' /\ Recordings' /\ Running'
<1> DEFINE Goal == Pictures' /\ Recordings' /\ Running'
<1>0. TypeOK /\ RuleOK /\ PlaceOK /\ OrderInv /\ process = "running" /\ ~crossed
      /\ Alone /\ Pictures /\ Recordings /\ Running
  BY Sole DEF IInv, SequenceInv
<1>1. ASSUME NEW j \in Jobs, pc[j] = "call", cur[j] \in 0 .. 2 PROVE ran[j] = Begun(cur[j])
  BY <1>1, NextOfRule
<1> USE <1>0, EventAssumption DEF TypeOK, Goto, CleanUp, engine, rule, job, history, Threads,
        Opening, Cleaning
<1>Tick. ASSUME Tick PROVE Goal
  BY <1>Tick DEF Tick, Pictures, PictureOK, Recordings, RecordingOK, Running, Counted, Has
<1>InitClear. ASSUME NEW j \in Jobs, InitClear(j) PROVE Goal
  <2>1. \A u \in Threads \ {j} : pc[u] \in {"off", "done"}
    BY <1>InitClear, Others DEF InitClear
  <2>2. \A u \in Jobs \ {j} : pc'[u] = pc[u]
    BY <1>InitClear DEF InitClear
  <2>3. \A u \in Jobs, kind \in Kinds : Has(u, kind)' <=> Has(u, kind)
    BY <1>InitClear DEF InitClear, Has
  <2>5. ~Has(j, "jpg") /\ ~Has(j, "mp4")
    <3>1. ran[j] = <<>>
      BY <1>InitClear DEF InitClear, OrderInv, Fresh
    <3> QED BY <3>1, Stages DEF Pictures, PictureOK, Recordings, RecordingOK
  <2>6. jobStatus'.iRamJpgCounter >= 0 /\ PictureOK(j)'
    BY <1>InitClear, <2>3, <2>5 DEF InitClear, Cleared, Pictures, PictureOK, Kinds
  <2>7. \A i \in Jobs \ {j} : ~Has(i, "mp4")
    BY <2>1, Mine
  <2>8. /\ jobStatus'.iRamMp4Counter = (IF Has(j, "mp4")' THEN 1 ELSE 0)
        /\ RecordingOK(j)'
    BY <1>InitClear, <2>3, <2>5, <2>7 DEF InitClear, Cleared, Recordings, RecordingOK,
       Kinds
  <2>9. jobStatus.iRunningJobs = 0 /\ ~Counted(j) /\ ~Counted(j)'
    BY <1>InitClear, <2>1 DEF InitClear, Counted, Running
  <2> QED BY <1>InitClear, <2>1, <2>2, <2>3, <2>6, <2>8, <2>9, Kept DEF InitClear, Cleared
<1>InitRules. ASSUME NEW j \in Jobs, InitRules(j) PROVE Goal
  <2>1. \A u \in Threads \ {j} : pc[u] \in {"off", "done"}
    BY <1>InitRules, Others DEF InitRules
  <2>2. \A u \in Jobs \ {j} : pc'[u] = pc[u]
    BY <1>InitRules DEF InitRules
  <2>3. \A u \in Jobs, kind \in Kinds : Has(u, kind)' <=> Has(u, kind)
    BY <1>InitRules DEF InitRules, Has
  <2>6. jobStatus'.iRamJpgCounter >= 0 /\ PictureOK(j)'
    BY <1>InitRules, <2>3 DEF InitRules, Pictures, PictureOK, Kinds
  <2>7. \A i \in Jobs \ {j} : ~Has(i, "mp4")
    BY <2>1, Mine
  <2>8. /\ jobStatus'.iRamMp4Counter = (IF Has(j, "mp4")' THEN 1 ELSE 0)
        /\ RecordingOK(j)'
    BY <1>InitRules, <2>3, <2>7 DEF InitRules, Recordings, RecordingOK, Kinds
  <2>9. jobStatus'.iRunningJobs = jobStatus.iRunningJobs /\ (Counted(j)' <=> Counted(j))
    BY <1>InitRules DEF InitRules, Counted
  <2> QED BY <2>1, <2>2, <2>3, <2>6, <2>8, <2>9, Kept
<1>InitCool. ASSUME NEW j \in Jobs, InitCool(j) PROVE Goal
  <2>1. \A u \in Threads \ {j} : pc[u] \in {"off", "done"}
    BY <1>InitCool, Others DEF InitCool
  <2>2. \A u \in Jobs \ {j} : pc'[u] = pc[u]
    BY <1>InitCool DEF InitCool
  <2>3. \A u \in Jobs, kind \in Kinds : Has(u, kind)' <=> Has(u, kind)
    BY <1>InitCool DEF InitCool, Has
  <2>6. jobStatus'.iRamJpgCounter >= 0 /\ PictureOK(j)'
    BY <1>InitCool, <2>3 DEF InitCool, Pictures, PictureOK, Kinds
  <2>7. \A i \in Jobs \ {j} : ~Has(i, "mp4")
    BY <2>1, Mine
  <2>8. /\ jobStatus'.iRamMp4Counter = (IF Has(j, "mp4")' THEN 1 ELSE 0)
        /\ RecordingOK(j)'
    BY <1>InitCool, <2>3, <2>7 DEF InitCool, Recordings, RecordingOK, Kinds
  <2>9. jobStatus'.iRunningJobs = jobStatus.iRunningJobs /\ (Counted(j)' <=> Counted(j))
    BY <1>InitCool DEF InitCool, Counted
  <2> QED BY <2>1, <2>2, <2>3, <2>6, <2>8, <2>9, Kept
<1>InitOpen. ASSUME NEW j \in Jobs, InitOpen(j) PROVE Goal
  <2>1. \A u \in Threads \ {j} : pc[u] \in {"off", "done"}
    BY <1>InitOpen, Others DEF InitOpen
  <2>2. \A u \in Jobs \ {j} : pc'[u] = pc[u]
    BY <1>InitOpen DEF InitOpen
  <2>3. \A u \in Jobs, kind \in Kinds : Has(u, kind)' <=> Has(u, kind)
    BY <1>InitOpen DEF InitOpen, Has
  <2>6. jobStatus'.iRamJpgCounter >= 0 /\ PictureOK(j)'
    BY <1>InitOpen, <2>3 DEF InitOpen, Pictures, PictureOK, Kinds
  <2>7. \A i \in Jobs \ {j} : ~Has(i, "mp4")
    BY <2>1, Mine
  <2>8. /\ jobStatus'.iRamMp4Counter = (IF Has(j, "mp4")' THEN 1 ELSE 0)
        /\ RecordingOK(j)'
    BY <1>InitOpen, <2>3, <2>7 DEF InitOpen, Recordings, RecordingOK, Kinds
  <2>9. jobStatus'.iRunningJobs = jobStatus.iRunningJobs /\ (Counted(j)' <=> Counted(j))
    BY <1>InitOpen DEF InitOpen, Counted
  <2> QED BY <2>1, <2>2, <2>3, <2>6, <2>8, <2>9, Kept
<1>Push. ASSUME NEW j \in Jobs, Push(j), Busy = {} PROVE Goal
  <2>1. \A u \in Threads \ {j} : pc[u] \in {"off", "done"}
    BY <1>Push DEF Busy
  <2>2. \A u \in Jobs \ {j} : pc'[u] = pc[u]
    BY <1>Push DEF Push
  <2>3. \A u \in Jobs, kind \in Kinds : Has(u, kind)' <=> Has(u, kind)
    BY <1>Push DEF Push, Has
  <2>6. jobStatus'.iRamJpgCounter >= 0 /\ PictureOK(j)'
    BY <1>Push, <2>3 DEF Push, Pictures, PictureOK, Kinds
  <2>7. \A i \in Jobs \ {j} : ~Has(i, "mp4")
    BY <2>1, Mine
  <2>8. /\ jobStatus'.iRamMp4Counter = (IF Has(j, "mp4")' THEN 1 ELSE 0)
        /\ RecordingOK(j)'
    BY <1>Push, <2>3, <2>7 DEF Push, Recordings, RecordingOK, Kinds
  <2>9. jobStatus'.iRunningJobs = jobStatus.iRunningJobs /\ (Counted(j)' <=> Counted(j))
    BY <1>Push DEF Push, Counted
  <2> QED BY <2>1, <2>2, <2>3, <2>6, <2>8, <2>9, Kept
<1>PushCheck. ASSUME NEW j \in Jobs, PushCheck(j) PROVE Goal
  <2>1. \A u \in Threads \ {j} : pc[u] \in {"off", "done"}
    BY <1>PushCheck, Others DEF PushCheck
  <2>2. \A u \in Jobs \ {j} : pc'[u] = pc[u]
    BY <1>PushCheck DEF PushCheck
  <2>3. \A u \in Jobs, kind \in Kinds : Has(u, kind)' <=> Has(u, kind)
    BY <1>PushCheck DEF PushCheck, Has
  <2>6. jobStatus'.iRamJpgCounter >= 0 /\ PictureOK(j)'
    BY <1>PushCheck, <2>3 DEF PushCheck, Alone, Pictures, PictureOK, Kinds
  <2>7. \A i \in Jobs \ {j} : ~Has(i, "mp4")
    BY <2>1, Mine
  <2>8. /\ jobStatus'.iRamMp4Counter = (IF Has(j, "mp4")' THEN 1 ELSE 0)
        /\ RecordingOK(j)'
    BY <1>PushCheck, <2>3, <2>7 DEF PushCheck, Alone, Recordings, RecordingOK, Kinds
  <2>9. jobStatus'.iRunningJobs = jobStatus.iRunningJobs /\ (Counted(j)' <=> Counted(j))
    BY <1>PushCheck DEF PushCheck, Alone, Counted
  <2> QED BY <2>1, <2>2, <2>3, <2>6, <2>8, <2>9, Kept
<1>PushReopen. ASSUME NEW j \in Jobs, PushReopen(j) PROVE Goal
  <2>1. \A u \in Threads \ {j} : pc[u] \in {"off", "done"}
    BY <1>PushReopen, Others DEF PushReopen
  <2>2. \A u \in Jobs \ {j} : pc'[u] = pc[u]
    BY <1>PushReopen DEF PushReopen
  <2>3. \A u \in Jobs, kind \in Kinds : Has(u, kind)' <=> Has(u, kind)
    BY <1>PushReopen DEF PushReopen, Has
  <2>6. jobStatus'.iRamJpgCounter >= 0 /\ PictureOK(j)'
    BY <1>PushReopen, <2>3 DEF PushReopen, Alone, Pictures, PictureOK, Kinds
  <2>7. \A i \in Jobs \ {j} : ~Has(i, "mp4")
    BY <2>1, Mine
  <2>8. /\ jobStatus'.iRamMp4Counter = (IF Has(j, "mp4")' THEN 1 ELSE 0)
        /\ RecordingOK(j)'
    BY <1>PushReopen, <2>3, <2>7 DEF PushReopen, Alone, Recordings, RecordingOK, Kinds
  <2>9. jobStatus'.iRunningJobs = jobStatus.iRunningJobs /\ (Counted(j)' <=> Counted(j))
    BY <1>PushReopen DEF PushReopen, Alone, Counted
  <2> QED BY <2>1, <2>2, <2>3, <2>6, <2>8, <2>9, Kept
<1>PushRule. ASSUME NEW j \in Jobs, PushRule(j) PROVE Goal
  <2>1. \A u \in Threads \ {j} : pc[u] \in {"off", "done"}
    BY <1>PushRule, Others DEF PushRule
  <2>2. \A u \in Jobs \ {j} : pc'[u] = pc[u]
    BY <1>PushRule DEF PushRule
  <2>3. \A u \in Jobs, kind \in Kinds : Has(u, kind)' <=> Has(u, kind)
    BY <1>PushRule DEF PushRule, Has
  <2>5. ~Has(j, "jpg") /\ ~Has(j, "mp4")
    <3>1. ran[j] = <<>>
      BY <1>PushRule DEF PushRule, OrderInv, Fresh
    <3> QED BY <3>1, Stages DEF Pictures, PictureOK, Recordings, RecordingOK
  <2>6. jobStatus'.iRamJpgCounter >= 0 /\ PictureOK(j)'
    BY <1>PushRule, <2>3, <2>5 DEF PushRule, Pictures, PictureOK, Kinds
  <2>7. \A i \in Jobs \ {j} : ~Has(i, "mp4")
    BY <2>1, Mine
  <2>8. /\ jobStatus'.iRamMp4Counter = (IF Has(j, "mp4")' THEN 1 ELSE 0)
        /\ RecordingOK(j)'
    BY <1>PushRule, <2>3, <2>5, <2>7 DEF PushRule, Recordings, RecordingOK, Kinds
  <2>9. jobStatus'.iRunningJobs = jobStatus.iRunningJobs /\ (Counted(j)' <=> Counted(j))
    BY <1>PushRule DEF PushRule, Counted
  <2> QED BY <2>1, <2>2, <2>3, <2>6, <2>8, <2>9, Kept
<1>PushCool. ASSUME NEW j \in Jobs, PushCool(j) PROVE Goal
  <2>1. \A u \in Threads \ {j} : pc[u] \in {"off", "done"}
    BY <1>PushCool, Others DEF PushCool
  <2>2. \A u \in Jobs \ {j} : pc'[u] = pc[u]
    BY <1>PushCool DEF PushCool
  <2>3. \A u \in Jobs, kind \in Kinds : Has(u, kind)' <=> Has(u, kind)
    BY <1>PushCool DEF PushCool, Has
  <2>5. ~Has(j, "jpg") /\ ~Has(j, "mp4")
    <3>1. ran[j] = <<>>
      BY <1>PushCool DEF PushCool, OrderInv, Fresh
    <3> QED BY <3>1, Stages DEF Pictures, PictureOK, Recordings, RecordingOK
  <2>6. jobStatus'.iRamJpgCounter >= 0 /\ PictureOK(j)'
    BY <1>PushCool, <2>3, <2>5 DEF PushCool, Pictures, PictureOK, Kinds
  <2>7. \A i \in Jobs \ {j} : ~Has(i, "mp4")
    BY <2>1, Mine
  <2>8. /\ jobStatus'.iRamMp4Counter = (IF Has(j, "mp4")' THEN 1 ELSE 0)
        /\ RecordingOK(j)'
    BY <1>PushCool, <2>3, <2>5, <2>7 DEF PushCool, Recordings, RecordingOK, Kinds
  <2>9. jobStatus'.iRunningJobs = jobStatus.iRunningJobs /\ (Counted(j)' <=> Counted(j))
    BY <1>PushCool DEF PushCool, Counted
  <2> QED BY <2>1, <2>2, <2>3, <2>6, <2>8, <2>9, Kept
<1>PushLaunch. ASSUME NEW j \in Jobs, PushLaunch(j) PROVE Goal
  <2>1. \A u \in Threads \ {j} : pc[u] \in {"off", "done"}
    BY <1>PushLaunch, Others DEF PushLaunch
  <2>2. \A u \in Jobs \ {j} : pc'[u] = pc[u]
    BY <1>PushLaunch DEF PushLaunch
  <2>3. \A u \in Jobs, kind \in Kinds : Has(u, kind)' <=> Has(u, kind)
    BY <1>PushLaunch DEF PushLaunch, Has
  <2>6. jobStatus'.iRamJpgCounter >= 0 /\ PictureOK(j)'
    BY <1>PushLaunch, <2>3 DEF PushLaunch, Pictures, PictureOK, Kinds
  <2>7. \A i \in Jobs \ {j} : ~Has(i, "mp4")
    BY <2>1, Mine
  <2>8. /\ jobStatus'.iRamMp4Counter = (IF Has(j, "mp4")' THEN 1 ELSE 0)
        /\ RecordingOK(j)'
    BY <1>PushLaunch, <2>3, <2>7 DEF PushLaunch, Recordings, RecordingOK, Kinds
  <2>9. jobStatus'.iRunningJobs = jobStatus.iRunningJobs /\ (Counted(j)' <=> Counted(j))
    BY <1>PushLaunch DEF PushLaunch, Counted
  <2> QED BY <2>1, <2>2, <2>3, <2>6, <2>8, <2>9, Kept
<1>PushCount. ASSUME NEW j \in Jobs, PushCount(j) PROVE Goal
  <2>1. \A u \in Threads \ {j} : pc[u] \in {"off", "done"}
    BY <1>PushCount, Others DEF PushCount
  <2>2. \A u \in Jobs \ {j} : pc'[u] = pc[u]
    BY <1>PushCount DEF PushCount
  <2>3. \A u \in Jobs, kind \in Kinds : Has(u, kind)' <=> Has(u, kind)
    BY <1>PushCount DEF PushCount, Has
  <2>4. jobStatus' = [jobStatus EXCEPT !["iRunningJobs"] = jobStatus["iRunningJobs"] + 1]
    <3>1. pc[j] \notin {"off", "done"} /\ Update(j, "iRunningJobs", 1)
      BY <1>PushCount DEF PushCount
    <3> QED BY <3>1, Exact
  <2>6. jobStatus'.iRamJpgCounter >= 0 /\ PictureOK(j)'
    BY <1>PushCount, <2>3, <2>4 DEF PushCount, Pictures, PictureOK, Kinds
  <2>7. \A i \in Jobs \ {j} : ~Has(i, "mp4")
    BY <2>1, Mine
  <2>8. /\ jobStatus'.iRamMp4Counter = (IF Has(j, "mp4")' THEN 1 ELSE 0)
        /\ RecordingOK(j)'
    BY <1>PushCount, <2>3, <2>4, <2>7 DEF PushCount, Recordings, RecordingOK, Kinds
  <2>9. jobStatus'.iRunningJobs = jobStatus.iRunningJobs + 1 /\ ~Counted(j) /\ Counted(j)'
    BY <1>PushCount, <2>4 DEF PushCount, Counted
  <2> QED BY <2>1, <2>2, <2>3, <2>6, <2>8, <2>9, Kept
<1>NextJob. ASSUME NEW j \in Jobs, NextJob(j) PROVE Goal
  <2>1. \A u \in Threads \ {j} : pc[u] \in {"off", "done"}
    BY <1>NextJob, Others DEF NextJob
  <2>2. \A u \in Jobs \ {j} : pc'[u] = pc[u]
    BY <1>NextJob DEF NextJob, Closed
  <2>3. \A u \in Jobs, kind \in Kinds : Has(u, kind)' <=> Has(u, kind)
    BY <1>NextJob DEF NextJob, Has
  <2>6. jobStatus'.iRamJpgCounter >= 0 /\ PictureOK(j)'
    BY <1>NextJob, <2>3 DEF NextJob, Closed, Alone, Pictures, PictureOK, Kinds
  <2>7. \A i \in Jobs \ {j} : ~Has(i, "mp4")
    BY <2>1, Mine
  <2>8. /\ jobStatus'.iRamMp4Counter = (IF Has(j, "mp4")' THEN 1 ELSE 0)
        /\ RecordingOK(j)'
    BY <1>NextJob, <2>3, <2>7 DEF NextJob, Closed, Alone, Recordings, RecordingOK, Kinds
  <2>9. jobStatus'.iRunningJobs = jobStatus.iRunningJobs /\ (Counted(j)' <=> Counted(j))
    BY <1>NextJob DEF NextJob, Closed, Alone, Counted
  <2> QED BY <2>1, <2>2, <2>3, <2>6, <2>8, <2>9, Kept
<1>PickAction. ASSUME NEW j \in Jobs, PickAction(j) PROVE Goal
  <2>1. \A u \in Threads \ {j} : pc[u] \in {"off", "done"}
    BY <1>PickAction, Others DEF PickAction
  <2>2. \A u \in Jobs \ {j} : pc'[u] = pc[u]
    BY <1>PickAction DEF PickAction
  <2>3. \A u \in Jobs, kind \in Kinds : Has(u, kind)' <=> Has(u, kind)
    BY <1>PickAction DEF PickAction, Has
  <2>6. jobStatus'.iRamJpgCounter >= 0 /\ PictureOK(j)'
    BY <1>PickAction, <2>3 DEF PickAction, Pictures, PictureOK, Kinds
  <2>7. \A i \in Jobs \ {j} : ~Has(i, "mp4")
    BY <2>1, Mine
  <2>8. /\ jobStatus'.iRamMp4Counter = (IF Has(j, "mp4")' THEN 1 ELSE 0)
        /\ RecordingOK(j)'
    BY <1>PickAction, <2>3, <2>7 DEF PickAction, Recordings, RecordingOK, Kinds
  <2>9. jobStatus'.iRunningJobs = jobStatus.iRunningJobs /\ (Counted(j)' <=> Counted(j))
    BY <1>PickAction DEF PickAction, Counted
  <2> QED BY <2>1, <2>2, <2>3, <2>6, <2>8, <2>9, Kept
<1>RunAction. ASSUME NEW j \in Jobs, RunAction(j) PROVE Goal
  <2>1. \A u \in Threads \ {j} : pc[u] \in {"off", "done"}
    BY <1>RunAction, Others DEF RunAction
  <2>2. \A u \in Jobs \ {j} : pc'[u] = pc[u]
    <3>1. UNCHANGED pc \/ \E a \in Actions : Goto(j, a)
      BY <1>RunAction, Runs
    <3> QED BY <3>1
  <2>3. \A u \in Jobs, kind \in Kinds : Has(u, kind)' <=> Has(u, kind)
    BY <1>RunAction DEF RunAction, Has
  <2>4. UNCHANGED jobStatus /\ (Counted(j)' <=> Counted(j))
    <3>1. UNCHANGED pc \/ \E a \in Actions : Goto(j, a)
      BY <1>RunAction, Runs
    <3> QED BY <1>RunAction, <3>1 DEF RunAction, Actions, Counted
  <2>5. \A i \in Jobs \ {j} : ~Has(i, "mp4")
    BY <2>1, Mine
  <2>6. (Has(j, "jpg")' <=> Has(j, "jpg")) /\ (Has(j, "mp4")' <=> Has(j, "mp4"))
    BY <2>3 DEF Kinds
  <2>7. jobStatus'.iRamMp4Counter = (IF Has(j, "mp4")' THEN 1 ELSE 0)
    BY <2>4, <2>5, <2>6 DEF Recordings
  <2>8. CASE UNCHANGED <<pc, ran>>
    <3>1. PictureOK(j)' /\ RecordingOK(j)'
      BY <2>4, <2>6, <2>8 DEF Pictures, PictureOK, Recordings, RecordingOK
    <3> QED BY <2>1, <2>2, <2>3, <2>4, <2>7, <3>1, Kept DEF Pictures
  <2>9. ASSUME NEW k \in 0 .. 2, k = cur[j], Goto(j, Rule[k + 1]),
               ran' = [ran EXCEPT ![j] = Append(ran[j], Rule[k + 1])]
        PROVE  Goal
    <3>1. pc'[j] = Rule[k + 1] /\ ran[j] = Begun(k) /\ ran'[j] = Begun(k + 1)
      <4>1. pc[j] = "call" /\ cur[j] \in 0 .. 2 /\ cur[j] = k
        BY <1>RunAction, <2>9 DEF RunAction
      <4>2. ran[j] = Begun(k)
        BY <1>1, <4>1
      <4> QED BY <2>9, <4>2, Stages
    <3>2. Rule[1] = "ram_jpg" /\ Rule[2] = "ram_mp4" /\ Rule[3] = "ftp"
      BY DEF Rule
    <3>3. PictureOK(j)'
      <4>1. ran'[j] # <<>> /\ pc'[j] \in {"ram_jpg", "ram_mp4", "ftp"}
        BY <3>1, <3>2, Stages
      <4> QED BY <2>4, <2>6, <4>1 DEF Pictures, PictureOK
    <3>4. Has(j, "mp4") => k = 2
      <4>1. Len(ran[j]) = k /\ (ran[j] \in {Begun(2), Begun(3)} => Len(ran[j]) \in {2, 3})
        BY <3>1, Stages
      <4> QED BY <4>1 DEF Recordings, RecordingOK
    <3>5. RecordingOK(j)'
      <4>1. CASE k = 2
        <5>1. pc'[j] = "ftp" /\ ran'[j] = Begun(3)
          BY <3>1, <3>2, <4>1
        <5> QED BY <5>1 DEF RecordingOK
      <4>2. CASE k = 1
        <5>1. ~Has(j, "mp4")' /\ pc'[j] = "ram_mp4" /\ ran'[j] = Begun(2)
          BY <2>6, <3>1, <3>2, <3>4, <4>2
        <5> QED BY <5>1 DEF RecordingOK
      <4>3. CASE k = 0
        <5>1. ~Has(j, "mp4")' /\ pc'[j] = "ram_jpg"
          BY <2>6, <3>1, <3>2, <3>4, <4>3
        <5> QED BY <5>1 DEF RecordingOK
      <4> QED BY <4>1, <4>2, <4>3
    <3> QED BY <2>1, <2>2, <2>3, <2>4, <2>7, <3>3, <3>5, Kept DEF Pictures
  <2> QED BY <1>RunAction, <2>8, <2>9, Runs
<1>RamJpg. ASSUME NEW j \in Jobs, RamJpg(j) PROVE Goal
  <2>1. \A u \in Threads \ {j} : pc[u] \in {"off", "done"}
    BY <1>RamJpg, Others DEF RamJpg
  <2>2. \A u \in Jobs \ {j} : pc'[u] = pc[u]
    BY <1>RamJpg DEF RamJpg
  <2>3. \A u \in Jobs, kind \in Kinds : Has(u, kind)' <=> Has(u, kind)
    BY <1>RamJpg DEF RamJpg, Has
  <2>6. jobStatus'.iRamJpgCounter >= 0 /\ PictureOK(j)'
    BY <1>RamJpg, <2>3 DEF RamJpg, Pictures, PictureOK, Kinds
  <2>7. \A i \in Jobs \ {j} : ~Has(i, "mp4")
    BY <2>1, Mine
  <2>8. /\ jobStatus'.iRamMp4Counter = (IF Has(j, "mp4")' THEN 1 ELSE 0)
        /\ RecordingOK(j)'
    BY <1>RamJpg, <2>3, <2>7 DEF RamJpg, Recordings, RecordingOK, Kinds
  <2>9. jobStatus'.iRunningJobs = jobStatus.iRunningJobs /\ (Counted(j)' <=> Counted(j))
    BY <1>RamJpg DEF RamJpg, Counted
  <2> QED BY <2>1, <2>2, <2>3, <2>6, <2>8, <2>9, Kept
<1>CountJpg. ASSUME NEW j \in Jobs, CountJpg(j) PROVE Goal
  <2>1. \A u \in Threads \ {j} : pc[u] \in {"off", "done"}
    BY <1>CountJpg, Others DEF CountJpg
  <2>2. \A u \in Jobs \ {j} : pc'[u] = pc[u]
    BY <1>CountJpg DEF CountJpg
  <2>3. \A u \in Jobs, kind \in Kinds : Has(u, kind)' <=> Has(u, kind)
    BY <1>CountJpg DEF CountJpg, Has
  <2>4. jobStatus' = [jobStatus EXCEPT !["iRamJpgCounter"] = jobStatus["iRamJpgCounter"] + 1]
    <3>1. pc[j] \notin {"off", "done"} /\ Update(j, "iRamJpgCounter", 1)
      BY <1>CountJpg DEF CountJpg
    <3> QED BY <3>1, Exact
  <2>6. jobStatus'.iRamJpgCounter >= 0 /\ PictureOK(j)'
    BY <1>CountJpg, <2>3, <2>4 DEF CountJpg, Pictures, PictureOK, Kinds
  <2>7. \A i \in Jobs \ {j} : ~Has(i, "mp4")
    BY <2>1, Mine
  <2>8. /\ jobStatus'.iRamMp4Counter = (IF Has(j, "mp4")' THEN 1 ELSE 0)
        /\ RecordingOK(j)'
    BY <1>CountJpg, <2>3, <2>4, <2>7 DEF CountJpg, Recordings, RecordingOK, Kinds
  <2>9. jobStatus'.iRunningJobs = jobStatus.iRunningJobs /\ (Counted(j)' <=> Counted(j))
    BY <1>CountJpg, <2>4 DEF CountJpg, Counted
  <2> QED BY <2>1, <2>2, <2>3, <2>6, <2>8, <2>9, Kept
<1>SnapShot. ASSUME NEW j \in Jobs, SnapShot(j) PROVE Goal
  <2>1. \A u \in Threads \ {j} : pc[u] \in {"off", "done"}
    BY <1>SnapShot, Others DEF SnapShot
  <2>2. \A u \in Jobs \ {j} : pc'[u] = pc[u]
    BY <1>SnapShot DEF SnapShot
  <2>3. ASSUME NEW u \in Jobs, NEW kind \in Kinds
        PROVE  Has(u, kind)' <=> Has(u, kind) \/ (u = j /\ kind = "jpg")
    <3>1. files' = files \cup {<<j, "jpg">>}
      BY <1>SnapShot DEF SnapShot
    <3> QED BY <3>1 DEF Has
  <2>4. jobStatus' = [jobStatus EXCEPT !["iRamJpgCounter"] = jobStatus["iRamJpgCounter"] + 1]
    <3>1. pc[j] \notin {"off", "done"} /\ Update(j, "iRamJpgCounter", 1)
      BY <1>SnapShot DEF SnapShot
    <3> QED BY <3>1, Exact
  <2>6. jobStatus'.iRamJpgCounter >= 0 /\ PictureOK(j)'
    BY <1>SnapShot, <2>3, <2>4 DEF SnapShot, Pictures, PictureOK, Kinds
  <2>7. \A i \in Jobs \ {j} : ~Has(i, "mp4")
    BY <2>1, Mine
  <2>8. /\ jobStatus'.iRamMp4Counter = (IF Has(j, "mp4")' THEN 1 ELSE 0)
        /\ RecordingOK(j)'
    BY <1>SnapShot, <2>3, <2>4, <2>7 DEF SnapShot, Recordings, RecordingOK, Kinds
  <2>9. jobStatus'.iRunningJobs = jobStatus.iRunningJobs /\ (Counted(j)' <=> Counted(j))
    BY <1>SnapShot, <2>4 DEF SnapShot, Counted
  <2> QED BY <2>1, <2>2, <2>3, <2>6, <2>8, <2>9, Kept
<1>RamMp4. ASSUME NEW j \in Jobs, RamMp4(j) PROVE Goal
  <2>1. \A u \in Threads \ {j} : pc[u] \in {"off", "done"}
    BY <1>RamMp4, Others DEF RamMp4
  <2>2. \A u \in Jobs \ {j} : pc'[u] = pc[u]
    BY <1>RamMp4 DEF RamMp4
  <2>3. \A u \in Jobs, kind \in Kinds : Has(u, kind)' <=> Has(u, kind)
    BY <1>RamMp4 DEF RamMp4, Has
  <2>6. jobStatus'.iRamJpgCounter >= 0 /\ PictureOK(j)'
    BY <1>RamMp4, <2>3 DEF RamMp4, Pictures, PictureOK, Kinds
  <2>7. \A i \in Jobs \ {j} : ~Has(i, "mp4")
    BY <2>1, Mine
  <2>8. /\ jobStatus'.iRamMp4Counter = (IF Has(j, "mp4")' THEN 1 ELSE 0)
        /\ RecordingOK(j)'
    BY <1>RamMp4, <2>3, <2>7 DEF RamMp4, Recordings, RecordingOK, Kinds
  <2>9. jobStatus'.iRunningJobs = jobStatus.iRunningJobs /\ (Counted(j)' <=> Counted(j))
    BY <1>RamMp4 DEF RamMp4, Counted
  <2> QED BY <2>1, <2>2, <2>3, <2>6, <2>8, <2>9, Kept
<1>Record. ASSUME NEW j \in Jobs, Record(j) PROVE Goal
  <2>1. \A u \in Threads \ {j} : pc[u] \in {"off", "done"}
    BY <1>Record, Others DEF Record
  <2>2. \A u \in Jobs \ {j} : pc'[u] = pc[u]
    BY <1>Record DEF Record
  <2>3. ASSUME NEW u \in Jobs, NEW kind \in Kinds
        PROVE  Has(u, kind)' <=> Has(u, kind) \/ (u = j /\ kind = "mp4")
    <3>1. files' = files \cup {<<j, "mp4">>}
      BY <1>Record DEF Record
    <3> QED BY <3>1 DEF Has
  <2>4. jobStatus' = [jobStatus EXCEPT !["iRamMp4Counter"] = jobStatus["iRamMp4Counter"] + 1]
    <3>1. pc[j] \notin {"off", "done"} /\ Update(j, "iRamMp4Counter", 1)
      BY <1>Record DEF Record
    <3> QED BY <3>1, Exact
  <2>6. jobStatus'.iRamJpgCounter >= 0 /\ PictureOK(j)'
    BY <1>Record, <2>3, <2>4 DEF Record, Pictures, PictureOK, Kinds
  <2>7. \A i \in Jobs \ {j} : ~Has(i, "mp4")
    BY <2>1, Mine
  <2>8. /\ jobStatus'.iRamMp4Counter = (IF Has(j, "mp4")' THEN 1 ELSE 0)
        /\ RecordingOK(j)'
    BY <1>Record, <2>3, <2>4, <2>7 DEF Record, Recordings, RecordingOK, Kinds
  <2>9. jobStatus'.iRunningJobs = jobStatus.iRunningJobs /\ (Counted(j)' <=> Counted(j))
    BY <1>Record, <2>4 DEF Record, Counted
  <2> QED BY <2>1, <2>2, <2>3, <2>6, <2>8, <2>9, Kept
<1>Ftp. ASSUME NEW j \in Jobs, Ftp(j) PROVE Goal
  <2>1. \A u \in Threads \ {j} : pc[u] \in {"off", "done"}
    BY <1>Ftp, Others DEF Ftp
  <2>2. \A u \in Jobs \ {j} : pc'[u] = pc[u]
    BY <1>Ftp DEF Ftp
  <2>3. \A u \in Jobs, kind \in Kinds : Has(u, kind)' <=> Has(u, kind)
    BY <1>Ftp DEF Ftp, Has
  <2>6. jobStatus'.iRamJpgCounter >= 0 /\ PictureOK(j)'
    BY <1>Ftp, <2>3 DEF Ftp, Pictures, PictureOK, Kinds
  <2>7. \A i \in Jobs \ {j} : ~Has(i, "mp4")
    BY <2>1, Mine
  <2>8. /\ jobStatus'.iRamMp4Counter = (IF Has(j, "mp4")' THEN 1 ELSE 0)
        /\ RecordingOK(j)'
    BY <1>Ftp, <2>3, <2>7 DEF Ftp, Recordings, RecordingOK, Kinds
  <2>9. jobStatus'.iRunningJobs = jobStatus.iRunningJobs /\ (Counted(j)' <=> Counted(j))
    BY <1>Ftp DEF Ftp, Counted
  <2> QED BY <2>1, <2>2, <2>3, <2>6, <2>8, <2>9, Kept
<1>CleanJpg. ASSUME NEW j \in Jobs, CleanJpg(j) PROVE Goal
  <2>1. \A u \in Threads \ {j} : pc[u] \in {"off", "done"}
    BY <1>CleanJpg, Others DEF CleanJpg, Clean
  <2>2. \A u \in Jobs \ {j} : pc'[u] = pc[u]
    BY <1>CleanJpg DEF CleanJpg, Clean
  <2>3. \A u \in Jobs, kind \in Kinds : Has(u, kind)' <=> Has(u, kind)
    BY <1>CleanJpg DEF CleanJpg, Clean, Has
  <2>6. jobStatus'.iRamJpgCounter >= 0 /\ PictureOK(j)'
    BY <1>CleanJpg, <2>3 DEF CleanJpg, Clean, Pictures, PictureOK, Kinds
  <2>7. \A i \in Jobs \ {j} : ~Has(i, "mp4")
    BY <2>1, Mine
  <2>8. /\ jobStatus'.iRamMp4Counter = (IF Has(j, "mp4")' THEN 1 ELSE 0)
        /\ RecordingOK(j)'
    BY <1>CleanJpg, <2>3, <2>7 DEF CleanJpg, Clean, Recordings, RecordingOK, Kinds
  <2>9. jobStatus'.iRunningJobs = jobStatus.iRunningJobs /\ (Counted(j)' <=> Counted(j))
    BY <1>CleanJpg DEF CleanJpg, Clean, Counted
  <2> QED BY <2>1, <2>2, <2>3, <2>6, <2>8, <2>9, Kept
<1>DropJpg. ASSUME NEW j \in Jobs, DropJpg(j) PROVE Goal
  <2>1. \A u \in Threads \ {j} : pc[u] \in {"off", "done"}
    BY <1>DropJpg, Others DEF DropJpg, Drop
  <2>2. \A u \in Jobs \ {j} : pc'[u] = pc[u]
    BY <1>DropJpg DEF DropJpg, Drop
  <2>3. ASSUME NEW u \in Jobs, NEW kind \in Kinds
        PROVE  Has(u, kind)' <=> Has(u, kind) /\ ~(u = j /\ kind = "jpg")
    <3>1. files' = files \ {<<j, "jpg">>}
      BY <1>DropJpg DEF DropJpg, Drop
    <3> QED BY <3>1 DEF Has
  <2>4. jobStatus' =
          [jobStatus EXCEPT !["iRamJpgCounter"] = jobStatus["iRamJpgCounter"] + (-1)]
    <3>1. pc[j] \notin {"off", "done"} /\ Update(j, "iRamJpgCounter", -1)
      BY <1>DropJpg DEF DropJpg, Drop
    <3> QED BY <3>1, Exact
  <2>6. jobStatus'.iRamJpgCounter >= 0 /\ PictureOK(j)'
    BY <1>DropJpg, <2>3, <2>4 DEF DropJpg, Drop, Pictures, PictureOK, Kinds
  <2>7. \A i \in Jobs \ {j} : ~Has(i, "mp4")
    BY <2>1, Mine
  <2>8. /\ jobStatus'.iRamMp4Counter = (IF Has(j, "mp4")' THEN 1 ELSE 0)
        /\ RecordingOK(j)'
    BY <1>DropJpg, <2>3, <2>4, <2>7 DEF DropJpg, Drop, Recordings, RecordingOK, Kinds
  <2>9. jobStatus'.iRunningJobs = jobStatus.iRunningJobs /\ (Counted(j)' <=> Counted(j))
    BY <1>DropJpg, <2>4 DEF DropJpg, Drop, Counted
  <2> QED BY <2>1, <2>2, <2>3, <2>6, <2>8, <2>9, Kept
<1>CleanMp4. ASSUME NEW j \in Jobs, CleanMp4(j) PROVE Goal
  <2>1. \A u \in Threads \ {j} : pc[u] \in {"off", "done"}
    BY <1>CleanMp4, Others DEF CleanMp4, Clean
  <2>2. \A u \in Jobs \ {j} : pc'[u] = pc[u]
    BY <1>CleanMp4 DEF CleanMp4, Clean
  <2>3. \A u \in Jobs, kind \in Kinds : Has(u, kind)' <=> Has(u, kind)
    BY <1>CleanMp4 DEF CleanMp4, Clean, Has
  <2>6. jobStatus'.iRamJpgCounter >= 0 /\ PictureOK(j)'
    BY <1>CleanMp4, <2>3 DEF CleanMp4, Clean, Alone, Pictures, PictureOK, Kinds
  <2>7. \A i \in Jobs \ {j} : ~Has(i, "mp4")
    BY <2>1, Mine
  <2>8. /\ jobStatus'.iRamMp4Counter = (IF Has(j, "mp4")' THEN 1 ELSE 0)
        /\ RecordingOK(j)'
    BY <1>CleanMp4, <2>3, <2>7 DEF CleanMp4, Clean, Alone, Recordings, RecordingOK, Kinds
  <2>9. jobStatus'.iRunningJobs = jobStatus.iRunningJobs /\ (Counted(j)' <=> Counted(j))
    BY <1>CleanMp4 DEF CleanMp4, Clean, Alone, Counted
  <2> QED BY <2>1, <2>2, <2>3, <2>6, <2>8, <2>9, Kept
<1>DropMp4. ASSUME NEW j \in Jobs, DropMp4(j) PROVE Goal
  <2>1. \A u \in Threads \ {j} : pc[u] \in {"off", "done"}
    BY <1>DropMp4, Others DEF DropMp4, Drop
  <2>2. \A u \in Jobs \ {j} : pc'[u] = pc[u]
    BY <1>DropMp4 DEF DropMp4, Drop
  <2>3. ASSUME NEW u \in Jobs, NEW kind \in Kinds
        PROVE  Has(u, kind)' <=> Has(u, kind) /\ ~(u = j /\ kind = "mp4")
    <3>1. files' = files \ {<<j, "mp4">>}
      BY <1>DropMp4 DEF DropMp4, Drop
    <3> QED BY <3>1 DEF Has
  <2>4. jobStatus' =
          [jobStatus EXCEPT !["iRamMp4Counter"] = jobStatus["iRamMp4Counter"] + (-1)]
    <3>1. pc[j] \notin {"off", "done"} /\ Update(j, "iRamMp4Counter", -1)
      BY <1>DropMp4 DEF DropMp4, Drop
    <3> QED BY <3>1, Exact
  <2>6. jobStatus'.iRamJpgCounter >= 0 /\ PictureOK(j)'
    BY <1>DropMp4, <2>3, <2>4 DEF DropMp4, Drop, Alone, Pictures, PictureOK, Kinds
  <2>7. \A i \in Jobs \ {j} : ~Has(i, "mp4")
    BY <2>1, Mine
  <2>8. /\ jobStatus'.iRamMp4Counter = (IF Has(j, "mp4")' THEN 1 ELSE 0)
        /\ RecordingOK(j)'
    BY <1>DropMp4, <2>3, <2>4, <2>7 DEF DropMp4, Drop, Alone, Recordings, RecordingOK,
       Kinds
  <2>9. jobStatus'.iRunningJobs = jobStatus.iRunningJobs /\ (Counted(j)' <=> Counted(j))
    BY <1>DropMp4, <2>4 DEF DropMp4, Drop, Alone, Counted
  <2> QED BY <2>1, <2>2, <2>3, <2>6, <2>8, <2>9, Kept
<1>Uncount. ASSUME NEW j \in Jobs, Uncount(j) PROVE Goal
  <2>1. \A u \in Threads \ {j} : pc[u] \in {"off", "done"}
    BY <1>Uncount, Others DEF Uncount
  <2>2. \A u \in Jobs \ {j} : pc'[u] = pc[u]
    BY <1>Uncount DEF Uncount
  <2>3. \A u \in Jobs, kind \in Kinds : Has(u, kind)' <=> Has(u, kind)
    BY <1>Uncount DEF Uncount, Has
  <2>4. jobStatus' = [jobStatus EXCEPT !["iRunningJobs"] = jobStatus["iRunningJobs"] + (-1)]
    <3>1. pc[j] \notin {"off", "done"} /\ Update(j, "iRunningJobs", -1)
      BY <1>Uncount DEF Uncount
    <3> QED BY <3>1, Exact
  <2>6. jobStatus'.iRamJpgCounter >= 0 /\ PictureOK(j)'
    BY <1>Uncount, <2>3, <2>4 DEF Uncount, Pictures, PictureOK, Kinds
  <2>7. \A i \in Jobs \ {j} : ~Has(i, "mp4")
    BY <2>1, Mine
  <2>8. /\ jobStatus'.iRamMp4Counter = (IF Has(j, "mp4")' THEN 1 ELSE 0)
        /\ RecordingOK(j)'
    BY <1>Uncount, <2>3, <2>4, <2>7 DEF Uncount, Recordings, RecordingOK, Kinds
  <2>9. jobStatus'.iRunningJobs = jobStatus.iRunningJobs - 1 /\ Counted(j) /\ ~Counted(j)'
    BY <1>Uncount, <2>4 DEF Uncount, Counted
  <2> QED BY <2>1, <2>2, <2>3, <2>6, <2>8, <2>9, Kept
<1> QED BY <1>0, Sole, <1>Tick, <1>InitClear, <1>InitRules, <1>InitCool, <1>InitOpen, <1>Push,
     <1>PushCheck, <1>PushReopen, <1>PushRule, <1>PushCool, <1>PushLaunch, <1>PushCount,
     <1>NextJob, <1>PickAction, <1>RunAction, <1>RamJpg, <1>CountJpg, <1>SnapShot, <1>RamMp4, <1>Record,
     <1>Ftp, <1>CleanJpg, <1>DropJpg, <1>CleanMp4, <1>DropMp4, <1>Uncount DEF InitStep,
     JobStep

\* The parts together.
LEMMA SequenceStep ==
  ASSUME IInv, OrderInv, SequenceInv, Next
  PROVE  SequenceInv'
<1>1. process = "running"
  BY DEF Next
<1>2. CASE ~crossed'
  BY <1>1, <1>2, AloneStep, CoolingStep, PacedStep, CountersStep
     DEF SequenceInv
<1> QED BY <1>2 DEF SequenceInv

-----------------------------------------------------------------------------
(* The whole invariant *)

\* What every reachable state satisfies.
Inv == IInv /\ CloseInv /\ OrderInv /\ SequenceInv

\* The invariant holds initially.
LEMMA InitInv == Init => Inv
<1> SUFFICES ASSUME Init PROVE Inv
  OBVIOUS
<1>0. \A t \in Threads : pc[t] = "off" /\ home[t] = "off"
  BY DEF Init
<1>1. TypeOK
  <2>1. Cleared \in Counters
    BY DEF Cleared, Counters
  <2>2. <<>> \in Seq(Actions) /\ Len(Rule) = 3
    BY RuleActions
  <2>3. jobStatus \in [{"iRamJpgCounter", "iRamMp4Counter", "iRunningJobs"} -> Int]
    BY <2>1 DEF Init, Counters
  <2>4. ran \in [Jobs -> Seq({"ram_jpg", "ram_mp4", "ftp"})]
    BY <2>2 DEF Init, Actions
  <2>5. /\ iActCount \in [Types -> 0 .. Len(Rule)] /\ iActCnt \in [Jobs -> 0 .. Len(Rule)]
        /\ tLastRun \in [Types -> Nat] /\ pt \in [Types -> Jobs \cup {None}]
        /\ late \in [Jobs -> 0 .. 2] /\ clock \in Nat /\ launched \in Nat
    BY <2>2, EventAssumption DEF Init
  <2>6. /\ pc \in [Threads -> Labels] /\ home \in [Threads -> Labels]
        /\ trigger \in [Jobs -> Types] /\ now \in [Jobs -> Nat]
        /\ cancelled \in [Jobs -> BOOLEAN] /\ files \subseteq Jobs \X {"jpg", "mp4"}
    BY EventAssumption DEF Init, Labels
  <2>7. /\ tTriggerCooldownPeriod \in [Types -> {0, COOLDOWN}]
        /\ cur \in [Jobs -> -Len(Rule) .. Len(Rule)]
    BY <2>2 DEF Init
  <2>8. /\ gEventAlive \in {0, 1, -1} /\ process \in {"running", "undefined"}
        /\ hasty \in BOOLEAN /\ crossed \in BOOLEAN
    BY DEF Init
  <2> QED BY <2>3, <2>4, <2>5, <2>6, <2>7, <2>8 DEF TypeOK
<1>2. RuleOK /\ PlaceOK
  BY <1>0, EventAssumption DEF Init, RuleOK, PlaceOK, Threads, Cleaning
<1>3. CloseInv
  BY <1>0 DEF Init, CloseInv, StopCutsJobs
<1>4. OrderInv
  <2>1. \A j \in Jobs : Progress(j) /\ ran[j] = <<>> /\ iActCnt[j] = 0
    <3> SUFFICES ASSUME NEW j \in Jobs
                 PROVE  Progress(j) /\ ran[j] = <<>> /\ iActCnt[j] = 0
      OBVIOUS
    <3>1. ran[j] = <<>> /\ ran[j] = Begun(0) /\ iActCnt[j] = 0 /\ Len(Rule) = 3
      BY Stages DEF Init
    <3>2. pc[j] = "off"
      BY <1>0 DEF Threads
    <3>3. Progress(j)
      <4> USE <3>1, <3>2 DEF Progress
      <4> WITNESS 0 \in 0 .. Len(Rule)
      <4> QED OBVIOUS
    <3> QED BY <3>1, <3>3
  <2> QED BY <2>1 DEF OrderInv, Init
<1>5. SequenceInv
  <2>1. Alone
    BY <1>0, EventAssumption DEF Init, Alone, Busy, Threads, Opening, Cleaning
  <2>2. Cooling /\ Paced
    BY <1>0, EventAssumption DEF Init, Cooling, Paced, Threads
  <2>3. \A j \in Jobs : ~Has(j, "jpg") /\ ~Has(j, "mp4") /\ ~Counted(j)
    BY <1>0 DEF Init, Has, Counted, Threads
  <2>4. Pictures
    BY <1>0, <2>3 DEF Init, Pictures, PictureOK, Cleared, Threads
  <2>5. Recordings
    BY <1>0, <2>3 DEF Init, Recordings, RecordingOK, Cleared, Threads
  <2>6. Running
    BY <2>3 DEF Init, Running, Cleared
  <2> QED BY <2>1, <2>2, <2>4, <2>5, <2>6 DEF SequenceInv
<1> QED BY <1>1, <1>2, <1>3, <1>4, <1>5 DEF Inv, IInv

\* Every step keeps it.
LEMMA NextInv == Inv /\ [Next]_vars => Inv'
<1> SUFFICES ASSUME Inv, [Next]_vars PROVE Inv'
  OBVIOUS
<1>1. CASE Next
  <2>1. process = "running"
    BY <1>1 DEF Next
  <2>2. IInv'
    BY <1>1, <2>1, TypeStep, PlaceStep DEF Inv, IInv
  <2>3. CloseInv' /\ OrderInv' /\ SequenceInv'
    BY <1>1, <2>1, CloseStep, OrderStep, SequenceStep DEF Inv
  <2> QED BY <2>2, <2>3 DEF Inv
<1>2. CASE UNCHANGED vars
  <2> USE <1>2 DEF Inv, vars, engine, rule, job, history
  <2>1. TypeOK'
    BY DEF IInv, TypeOK
  <2>2. RuleOK' /\ PlaceOK'
    BY DEF IInv, RuleOK, PlaceOK
  <2>3. CloseInv'
    BY DEF CloseInv, StopCutsJobs
  <2>4. OrderInv'
    <3>1. OrderSame
      BY DEF OrderSame, Fresh, Finished
    <3> QED BY <3>1, OrderKept
  <2>5. SequenceInv'
    <3>1. Alone => Alone'
      BY DEF Alone, Busy
    <3>2. (Cooling => Cooling') /\ (Paced => Paced')
      BY DEF Cooling, Paced, Cooled
    <3>3. (Pictures => Pictures') /\ (Recordings => Recordings')
      BY DEF Pictures, PictureOK, Recordings, RecordingOK, Has
    <3>4. Running => Running'
      BY DEF Running, Counted
    <3> QED BY <3>1, <3>2, <3>3, <3>4 DEF SequenceInv
  <2> QED BY <2>1, <2>2, <2>3, <2>4, <2>5 DEF IInv
<1> QED BY <1>1, <1>2

\* The invariant holds.
THEOREM Invariant == Spec => []Inv
BY InitInv, NextInv, PTL DEF Spec

-----------------------------------------------------------------------------
(* The theorems *)

\* The state has its types: iActCnt and iActCount stay between 0 and the length of the
\* rule, whatever event_init, push_job and event_stop do to each other.
THEOREM TypeCorrect == Spec => []TypeOK
<1>1. Inv => TypeOK
  BY DEF Inv, IInv
<1> QED BY <1>1, Invariant, PTL

\* Once event_stop has closed the engine, a job begins at most the action it had already
\* decided on (next_job), for every number of jobs and of callers of event_stop.
THEOREM StopCutsOff == Spec => []StopCutsJobs
<1>1. Inv => StopCutsJobs
  BY DEF Inv, CloseInv
<1> QED BY <1>1, Invariant, PTL

\* Every job runs the actions of its rule in order and each once, and one that ends
\* regularly ran them all or none, though event_init may clear the rule under it.
THEOREM RuleInOrder == Spec => []ActionsInOrder
<1>1. ASSUME OrderInv PROVE ActionsInOrder
  <2> SUFFICES ASSUME NEW j \in Jobs
               PROVE  /\ IsPrefix(ran[j], Rule)
                      /\ pc[j] = "uncount" => ran[j] \in {<<>>, Rule}
    BY DEF ActionsInOrder
  <2>1. \E k \in 0 .. 3 : ran[j] = Begun(k)
    BY <1>1, Stages DEF OrderInv, Progress
  <2>2. IsPrefix(ran[j], Rule)
    BY <2>1, Stages
  <2> QED BY <1>1, <2>2 DEF OrderInv, Finished
<1>2. Inv => ActionsInOrder
  BY <1>1 DEF Inv
<1> QED BY <1>2, Invariant, PTL

\* Until a second thread is in the engine with a first one, two launches are more than the
\* cooldown apart, iRunningJobs and iRamMp4Counter count, and a finished job leaves no file.
\* iRamJpgCounter is not among them, and of jobs that overlap nothing is said.
THEOREM JobsInSequence == Spec => []SequentialJobs
<1>1. ASSUME Inv, ~crossed
      PROVE  ~hasty /\ RunningCounts /\ FilesRemoved /\ RecordingsCounted
  <2>1. TypeOK /\ OrderInv /\ Alone /\ Paced /\ Pictures /\ Recordings /\ Running
    BY <1>1 DEF Inv, IInv, SequenceInv
  <2>2. \A i, j \in Jobs :
          pc[i] \notin {"off", "done"} /\ pc[j] \notin {"off", "done"} => i = j
    BY <2>1 DEF Alone, Busy, Threads
  <2>3. ASSUME NEW file \in files
        PROVE  /\ file[1] \in Jobs /\ file[2] \in Kinds /\ file = <<file[1], file[2]>>
               /\ pc[file[1]] \notin {"off", "done"}
    <3>1. file \in Jobs \X {"jpg", "mp4"}
      BY <2>1 DEF TypeOK
    <3>2. file[1] \in Jobs /\ file[2] \in Kinds /\ file = <<file[1], file[2]>>
      BY <3>1 DEF Kinds
    <3>3. Has(file[1], file[2])
      BY <3>2 DEF Has
    <3>4. pc[file[1]] # "done"
      BY <2>1, <3>2, <3>3 DEF Pictures, PictureOK, Recordings, RecordingOK, Kinds
    <3>5. ran[file[1]] # <<>>
      BY <2>1, <3>2, <3>3, Stages DEF Pictures, PictureOK, Recordings, RecordingOK, Kinds
    <3>6. pc[file[1]] # "off"
      BY <2>1, <3>2, <3>5 DEF OrderInv, Fresh
    <3> QED BY <3>2, <3>4, <3>6
  <2>4. FilesRemoved
    BY <2>3 DEF FilesRemoved
  <2>5. RunningCounts
    <3> DEFINE S == {j \in InFlight : pc[j] \notin {"init_clear", "init_rules", "init_cool",
                                               "init_open", "push", "rule", "cool", "launch", "count"}}
    <3>1. \A j : j \in S <=> j \in Jobs /\ Counted(j)
      BY DEF InFlight, Counted, Opening
    <3>2. CASE \E j \in Jobs : Counted(j)
      <4>1. PICK j \in Jobs : Counted(j)
        BY <3>2
      <4>2. S = {j}
        BY <2>2, <3>1, <4>1 DEF Counted
      <4> QED BY <2>1, <3>2, <4>2, FS_Singleton DEF RunningCounts, Running
    <3>3. CASE ~\E j \in Jobs : Counted(j)
      <4>1. S = {}
        BY <3>1, <3>3
      <4> QED BY <2>1, <3>3, <4>1, FS_EmptySet DEF RunningCounts, Running
    <3> QED BY <3>2, <3>3
  <2>6. RecordingsCounted
    <3> DEFINE S == {file \in files : file[2] = "mp4"}
    <3>1. CASE \E j \in Jobs : Has(j, "mp4")
      <4>1. PICK j \in Jobs : Has(j, "mp4")
        BY <3>1
      <4>2. <<j, "mp4">> \in S
        BY <4>1 DEF Has
      <4>3. ASSUME NEW file \in S PROVE file = <<j, "mp4">>
        <5>1. /\ file[1] \in Jobs /\ file = <<file[1], "mp4">>
              /\ pc[file[1]] \notin {"off", "done"}
          BY <2>3, <4>3
        <5>2. pc[j] \notin {"off", "done"}
          <6> DEFINE f == <<j, "mp4">>
          <6>1. f \in files /\ f[1] = j
            BY <4>2
          <6>2. pc[f[1]] \notin {"off", "done"}
            BY <2>3, <6>1
          <6> QED BY <6>1, <6>2
        <5>3. file[1] = j
          BY <2>2, <5>1, <5>2
        <5> QED BY <5>1, <5>3
      <4>4. S = {<<j, "mp4">>}
        BY <4>2, <4>3
      <4>5. Cardinality(S) = 1
        BY <4>4, FS_Singleton
      <4> QED BY <2>1, <3>1, <4>5 DEF RecordingsCounted, Recordings
    <3>2. CASE ~\E j \in Jobs : Has(j, "mp4")
      <4>1. ASSUME NEW file \in S PROVE FALSE
        <5>1. file[1] \in Jobs /\ file = <<file[1], "mp4">> /\ file \in files
          BY <2>3, <4>1
        <5> QED BY <3>2, <5>1 DEF Has
      <4>2. S = {}
        BY <4>1
      <4>3. Cardinality(S) = 0
        BY <4>2, FS_EmptySet
      <4> QED BY <2>1, <3>2, <4>3 DEF RecordingsCounted, Recordings
    <3> QED BY <3>1, <3>2
  <2> QED BY <2>1, <2>4, <2>5, <2>6 DEF Paced
<1>2. Inv => SequentialJobs
  BY <1>1 DEF SequentialJobs
<1> QED BY <1>2, Invariant, PTL

=============================================================================
