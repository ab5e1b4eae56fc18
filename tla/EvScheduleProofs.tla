-------------------------- MODULE EvScheduleProofs --------------------------
(***************************************************************************)
(* Proofs about the schedule threads, for every number of threads, every   *)
(* week of every type and every length of a slot: the types, that no       *)
(* function runs earlier than one slot before a slot that was planned, and *)
(* that the threads implement ScheThreads.                                 *)
(***************************************************************************)
EXTENDS EvSchedule, DaySlotProofs, FiniteSetTheorems

-----------------------------------------------------------------------------
(* The inductive invariant *)

\* Where only the Caller is, and where it is otherwise.
CallerLabels == {"idle", "stop_sd", "join_sd", "stop_light", "join_light", "stopped"}

PlaceOK ==
  /\ pc[Caller] \in CallerLabels \cup {"init", "create_sd", "create_light"}
  /\ \A t \in Threads \ {Caller} : pc[t] \notin CallerLabels

\* The Caller joins a thread, unless it has joined 0.
JoinOK == pc[Caller] \in {"join_sd", "join_light"} => joining # None \/ "join" \in misuse

\* What a thread read is not later than the clock, and a start is one slot early at most.
EarlyOK ==
  /\ \A t \in Threads : now[t] <= clock
  /\ \A y \in Types : planned[y] - SLOT_LEN <= start_t[y]

IInv == TypeOK /\ PlaceOK /\ JoinOK /\ EarlyOK

-----------------------------------------------------------------------------
(* The plan *)

\* Of the threads that are not created yet the least is the next.
LEMMA NextThread ==
  ASSUME TypeOK, Unused # {}
  PROVE  Least(Unused) \in Unused /\ \A u \in Unused : Least(Unused) <= u
<1>1. Unused \in SUBSET Nat
  BY ScheduleAssumption DEF Unused, Threads
<1> QED
  BY <1>1, LeastOf

\* The week of a type has the day that the thread looks at, and the slot it finds there.
LEMMA FoundToday ==
  ASSUME TypeOK, NEW t \in Threads, Found(t) # {}
  PROVE  Today(t) \in DaySlot /\ Least(Found(t)) \in Today(t) /\ Least(Found(t)) \in Slots
<1>1. now_t[t] \in Nat /\ type[t] \in Types
  BY DEF TypeOK
<1>2. Today(t) \in DaySlot
  BY <1>1, DayInWeek, ScheduleAssumption DEF Today
<1>3. timeslot_get_offset(now_t[t]) \in Slots
  BY <1>1, Offset
<1>4. Least(Found(t)) \in Today(t)
  BY <1>2, <1>3, FoundSlot DEF Found
<1> QED
  BY <1>2, <1>4 DEF DaySlot

\* The start of slot k of the day of t, planned one slot early, stays in that day.
LEMMA PlannedStart ==
  ASSUME NEW t \in Nat, NEW k \in Slots
  PROVE  LET zero == today_zero_t(t)
         IN  /\ StartOneEarly(zero, k) \in Nat /\ StartOf(zero, k) \in Nat
             /\ StartOneEarly(zero, k) \in today_zero_t(StartOf(zero, k)) .. StartOf(zero, k)
             /\ StartOf(zero, k) - SLOT_LEN <= StartOneEarly(zero, k)
<1> DEFINE zero == today_zero_t(t)
           n    == wday(t)
           r    == k * SLOT_LEN
<1>1. k \in Nat /\ k <= SLOTS - 1 /\ SLOT_LEN \in Nat \ {0} /\ SLOTS \in Nat \ {0}
  BY SlotAssumption DEF Slots
<1>2. zero \in Nat /\ n \in Nat /\ zero = DAY * n
  BY Midnight
<1>3. r \in 0 .. DAY - 1
  <2>1. r \in Nat /\ DAY \in Nat
    BY <1>1 DEF DAY
  <2>2. r + SLOT_LEN <= DAY
    <3>1. (SLOTS - 1 - k) * SLOT_LEN >= 0
      BY <1>1
    <3> QED
      BY <1>1, <3>1 DEF DAY
  <2> QED
    BY <1>1, <2>1, <2>2
<1>4. today_zero_t(StartOf(zero, k)) = zero
  <2>1. StartOf(zero, k) = (DAY * n) + r
    BY <1>2 DEF StartOf
  <2>2. ((DAY * n) + r) % DAY = r
    BY <1>2, <1>3, DayPositive, Division
  <2> HIDE DEF r, n, zero
  <2>3. StartOf(zero, k) % DAY = r
    BY <2>1, <2>2
  <2>4. today_zero_t(StartOf(zero, k)) = StartOf(zero, k) - r
    BY <2>3 DEF today_zero_t
  <2>5. StartOf(zero, k) = zero + r
    BY <1>2, <2>1
  <2>6. (zero + r) - r = zero
    BY <1>2, <1>3, DayPositive
  <2> QED
    BY <2>4, <2>5, <2>6
<1>5. CASE k = 0
  <2>1. StartOf(zero, k) = zero /\ StartOneEarly(zero, k) = zero
    BY <1>1, <1>2, <1>5 DEF StartOf, StartOneEarly
  <2> HIDE DEF zero, r, n
  <2> QED
    BY <1>1, <1>2, <1>4, <2>1 DEF zero
<1>6. CASE k # 0
  <2>1. StartOf(zero, k) = zero + r /\ StartOneEarly(zero, k) = zero + (k - 1) * SLOT_LEN
    BY <1>6 DEF StartOf, StartOneEarly
  <2>2. (k - 1) * SLOT_LEN = r - SLOT_LEN /\ (k - 1) * SLOT_LEN >= 0 /\ r \in Nat
    BY <1>1, <1>6
  <2> HIDE DEF zero, r, n
  <2>3. /\ StartOneEarly(zero, k) = zero + (r - SLOT_LEN) /\ r - SLOT_LEN >= 0
        /\ StartOf(zero, k) = zero + r /\ r \in Nat
    BY <2>1, <2>2
  <2> QED
    BY <1>1, <1>2, <1>4, <2>3 DEF zero
<1> QED
  BY <1>5, <1>6

-----------------------------------------------------------------------------
(* The steps keep the invariant *)

\* The types, places and early starts hold when the program begins.
THEOREM InitInv == Init => IInv
<1> SUFFICES ASSUME Init PROVE IInv
  OBVIOUS
<1>1. clock \in Nat /\ Caller \in Threads
  BY ScheduleAssumption DEF Init, Threads, Caller
<1>2. today_zero_t(0) = 0
  <2>1. DAY * 0 = 0 /\ 0 \in 0 .. DAY - 1 /\ 0 + 0 = 0
    BY DayPositive
  <2>2. ((DAY * 0) + 0) % DAY = 0
    BY DayPositive, Division
  <2> QED
    BY <2>1, <2>2 DEF today_zero_t
<1>3. TypeOK
  BY <1>1, <1>2 DEF Init, TypeOK, Types, Labels
<1>4. PlaceOK /\ JoinOK
  BY <1>1 DEF Init, PlaceOK, JoinOK, CallerLabels
<1>5. EarlyOK
  BY <1>1, SlotAssumption DEF Init, EarlyOK
<1> QED
  BY <1>3, <1>4, <1>5 DEF IInv

\* The labels of a step that moves one thread.
LEMMA Moves ==
  ASSUME TypeOK, PlaceOK, NEW t \in Threads, NEW label \in Labels, Goto(t, label),
         label \in CallerLabels => t = Caller,
         t = Caller => label \in CallerLabels \cup {"create_sd", "create_light"}
  PROVE  pc' \in [Threads -> Labels] /\ PlaceOK'
BY DEF TypeOK, PlaceOK, Goto, CallerLabels, Threads, Caller

\* The labels of a step in which thread t creates the next one.
LEMMA Creates ==
  ASSUME TypeOK, PlaceOK, NEW t \in Threads, NEW y \in Types, NEW label \in Labels,
         Create(t, y, label), pc[t] \in {"create_sd", "create_light"},
         label \in CallerLabels => t = Caller,
         t = Caller => label \in CallerLabels \cup {"create_sd", "create_light"}
  PROVE  /\ pc' \in [Threads -> Labels] /\ type' \in [Threads -> Types] /\ PlaceOK'
         /\ Least(Unused) \in Threads \ {Caller} /\ pc'[Caller] \in {pc[Caller], label}
<1>1. Least(Unused) \in Unused
  BY NextThread DEF Create
<1>2. Least(Unused) \in Threads \ {Caller} /\ Least(Unused) # t
  BY <1>1 DEF Unused, PlaceOK, CallerLabels, Caller
<1>3. pc' = [pc EXCEPT ![Least(Unused)] = "start", ![t] = label]
      /\ type' = [type EXCEPT ![Least(Unused)] = y]
  BY DEF Create
<1>4. "start" \in Labels /\ "start" \notin CallerLabels
  BY DEF Labels, CallerLabels
<1>5. pc' \in [Threads -> Labels] /\ type' \in [Threads -> Types]
  BY <1>2, <1>3, <1>4 DEF TypeOK
<1> DEFINE n == Least(Unused)
<1> HIDE DEF n
<1>6. \A u \in Threads : pc'[u] = IF u = t THEN label ELSE IF u = n THEN "start" ELSE pc[u]
  BY <1>2, <1>3 DEF TypeOK, n
<1>7. Caller \in Threads
  BY ScheduleAssumption DEF Threads, Caller
<1>8. pc'[Caller] = IF Caller = t THEN label ELSE pc[Caller]
  BY <1>2, <1>6, <1>7 DEF n
<1>9. PlaceOK' /\ pc'[Caller] \in {pc[Caller], label}
  BY <1>4, <1>6, <1>8 DEF PlaceOK
<1> QED
  BY <1>2, <1>5, <1>9

\* What is kept as long as the plans, the clock and the reads of the clock are.
LEMMA Kept ==
  ASSUME TypeOK, EarlyOK, UNCHANGED <<clock, start_t, end_t, now, now_t, tZero, planned>>
  PROVE  EarlyOK' /\ clock' \in Nat /\ start_t' \in [Types -> Nat]
         /\ end_t' \in [Types -> Nat] /\ now' \in [Threads -> Nat]
         /\ now_t' \in [Threads -> Nat] /\ tZero' \in [Threads -> Nat]
         /\ planned' \in [Types -> Nat]
         /\ \A y \in Types : start_t'[y] \in today_zero_t(planned'[y]) .. planned'[y]
BY DEF TypeOK, EarlyOK

\* A thread stores its start: it is in the day of the slot, and one slot early at most.
LEMMA StoreStartStep ==
  ASSUME IInv, NEW t \in Threads, StoreStart(t)
  PROVE  /\ start_t' \in [Types -> Nat] /\ planned' \in [Types -> Nat]
         /\ \A y \in Types : /\ start_t'[y] \in today_zero_t(planned'[y]) .. planned'[y]
                             /\ planned'[y] - SLOT_LEN <= start_t'[y]
<1> DEFINE zero == today_zero_t(clock)
           y    == type[t]
           k    == Least(Found(t))
<1>1. TypeOK /\ EarlyOK /\ y \in Types /\ clock \in Nat
  BY DEF IInv, TypeOK
<1>2. ASSUME NEW s \in Nat, NEW p \in Nat,
             s \in today_zero_t(p) .. p, p - SLOT_LEN <= s,
             start_t' = [start_t EXCEPT ![y] = s], planned' = [planned EXCEPT ![y] = p]
      PROVE  /\ start_t' \in [Types -> Nat] /\ planned' \in [Types -> Nat]
             /\ \A z \in Types : /\ start_t'[z] \in today_zero_t(planned'[z]) .. planned'[z]
                                 /\ planned'[z] - SLOT_LEN <= start_t'[z]
  <2> HIDE DEF y
  <2> QED
    BY <1>1, <1>2 DEF TypeOK, EarlyOK
<1>3. CASE Found(t) # {}
  <2>1. /\ start_t' = [start_t EXCEPT ![y] = StartOneEarly(zero, k)]
        /\ planned' = [planned EXCEPT ![y] = StartOf(zero, k)]
    BY <1>3 DEF StoreStart
  <2>2. k \in Slots
    BY <1>1, <1>3, FoundToday
  <2>3. /\ StartOneEarly(zero, k) \in Nat /\ StartOf(zero, k) \in Nat
        /\ StartOneEarly(zero, k) \in today_zero_t(StartOf(zero, k)) .. StartOf(zero, k)
        /\ StartOf(zero, k) - SLOT_LEN <= StartOneEarly(zero, k)
    BY <1>1, <2>2, PlannedStart
  <2> HIDE DEF zero, k, y
  <2> QED
    BY <1>2, <2>1, <2>3
<1>4. CASE Found(t) = {}
  <2> DEFINE next == TOMORROW_ZERO_T(clock)
  <2>1. start_t' = [start_t EXCEPT ![y] = next] /\ planned' = [planned EXCEPT ![y] = next]
    BY <1>4 DEF StoreStart
  <2>2. next \in Nat
    BY <1>1, Midnight
  <2>3. today_zero_t(next) \in Nat /\ today_zero_t(next) <= next
    BY <2>2, Midnight
  <2> HIDE DEF next, y
  <2>4. next \in today_zero_t(next) .. next /\ next - SLOT_LEN <= next
    BY <2>2, <2>3, SlotAssumption
  <2> QED
    BY <1>2, <2>1, <2>2, <2>4
<1> QED
  BY <1>3, <1>4

\* The end that a thread stores is a time.
LEMMA StoreEndStep ==
  ASSUME TypeOK, NEW t \in Threads, StoreEnd(t)
  PROVE  end_t' \in [Types -> Nat]
<1> DEFINE k == Least(Found(t))
<1>1. type[t] \in Types /\ tZero[t] \in Nat
  BY DEF TypeOK
<1>2. CASE Found(t) # {}
  <2>1. end_t' = [end_t EXCEPT ![type[t]] = EndOf(tZero[t], Today(t), k)]
    BY <1>2 DEF StoreEnd
  <2>2. LastOfRun(Today(t), k) \in Nat
    <3>1. Today(t) \in DaySlot /\ k \in Today(t) /\ k \in Slots
      BY <1>2, FoundToday
    <3> QED
      BY <3>1, RunOf DEF Slots
  <2> HIDE DEF k
  <2>3. EndOf(tZero[t], Today(t), k) \in Nat
    BY <1>1, <2>2, SlotAssumption DEF EndOf
  <2> QED
    BY <1>1, <2>1, <2>3 DEF TypeOK
<1>3. CASE Found(t) = {}
  BY <1>1, <1>3 DEF StoreEnd, TypeOK
<1> QED
  BY <1>2, <1>3

\* The steps of one thread that leave clock, plan and entries as they are.
LEMMA Quiet ==
  ASSUME IInv, NEW t \in Threads, NEW label \in Labels \ CallerLabels, Goto(t, label),
         t = Caller => label = "create_sd",
         UNCHANGED <<clock, start_t, end_t, now, now_t, tZero, planned, type, joining>>,
         pt' \in [Types -> Threads \cup {None}], once' \in {"new", "busy", "done"},
         timeout' \in [Threads -> Nat], misuse' \in {misuse, misuse \cup {"reinit"}}
  PROVE  IInv'
<1>1. TypeOK /\ PlaceOK /\ JoinOK /\ EarlyOK
  BY DEF IInv
<1>2. pc' \in [Threads -> Labels] /\ PlaceOK'
  BY <1>1, Moves
<1>3. TypeOK' /\ EarlyOK'
  <2>1. misuse' \subseteq {"reinit", "join"} /\ joining' \in Threads \cup {None}
        /\ type' \in [Threads -> Types]
    BY <1>1 DEF TypeOK
  <2> QED
    BY <1>1, <1>2, <2>1, Kept DEF TypeOK
<1>4. JoinOK'
  <2>1. pc'[Caller] \in {"join_sd", "join_light"} => pc'[Caller] = pc[Caller]
    BY <1>1 DEF TypeOK, Goto, CallerLabels, Threads, Caller
  <2> QED
    BY <1>1, <2>1 DEF JoinOK
<1> QED
  BY <1>1, <1>2, <1>3, <1>4 DEF IInv

\* The steps of the Caller in sche_stop.
LEMMA StopSteps == IInv /\ (StopJoins \/ (UNCHANGED joining /\ StopSignal)) => IInv'
<1> SUFFICES ASSUME IInv, StopJoins \/ (UNCHANGED joining /\ StopSignal) PROVE IInv'
  OBVIOUS
<1>1. TypeOK /\ PlaceOK /\ JoinOK /\ EarlyOK /\ Caller \in Threads
  BY ScheduleAssumption DEF IInv, Threads, Caller
<1>2. UNCHANGED <<clock, start_t, end_t, now, now_t, tZero, planned, type, once, timeout>>
  BY DEF StopJoins, StopSignal, JoinCall, JoinReturn, ptStruct, locals, history
<1>3. SD \in Types /\ LIGHT \in Types
  BY DEF Types
<1>4. ASSUME pc' \in [Threads -> Labels], PlaceOK', JoinOK',
             pt' \in [Types -> Threads \cup {None}], joining' \in Threads \cup {None},
             misuse' \subseteq {"reinit", "join"}
      PROVE  IInv'
  BY <1>1, <1>2, <1>4, Kept DEF IInv, TypeOK
<1>5. ASSUME NEW from \in Labels, NEW y \in Types, NEW to \in CallerLabels,
             JoinCall(from, y, to)
      PROVE  IInv'
  <2>1. pc' \in [Threads -> Labels] /\ PlaceOK'
    BY <1>1, <1>5, Moves DEF JoinCall, CallerLabels, Labels
  <2>2. pt' \in [Types -> Threads \cup {None}] /\ joining' \in Threads \cup {None}
        /\ misuse' \subseteq {"reinit", "join"}
    BY <1>1, <1>5 DEF TypeOK, JoinCall, ptStruct
  <2>3. JoinOK'
    BY <1>5 DEF JoinCall, JoinOK
  <2> QED
    BY <1>4, <2>1, <2>2, <2>3
<1>6. ASSUME NEW from \in Labels, NEW y \in Types, NEW to \in {"stop_light", "stopped"},
             JoinReturn(from, y, to)
      PROVE  IInv'
  <2>1. pc' \in [Threads -> Labels] /\ PlaceOK'
    BY <1>1, <1>6, Moves DEF JoinReturn, CallerLabels, Labels
  <2>2. pt' \in [Types -> Threads \cup {None}] /\ joining' \in Threads \cup {None}
        /\ misuse' \subseteq {"reinit", "join"}
    BY <1>1, <1>6 DEF TypeOK, JoinReturn, history
  <2>3. JoinOK'
    BY <1>1, <1>6 DEF JoinReturn, JoinOK, Goto, TypeOK
  <2> QED
    BY <1>4, <2>1, <2>2, <2>3
<1>7. CASE StopJoins
  <2>1. {"stop_sd", "join_sd", "stop_light", "join_light"} \subseteq Labels
        /\ {"join_sd", "join_light", "stop_light", "stopped"} \subseteq CallerLabels
    BY DEF Labels, CallerLabels
  <2> QED
    BY <1>3, <1>5, <1>6, <1>7, <2>1 DEF StopJoins
<1>8. CASE UNCHANGED joining /\ StopSignal
  <2>1. pt' = pt /\ misuse' = misuse /\ joining' = joining
    BY <1>8 DEF StopSignal, ptStruct, history
  <2>2. /\ pc'[Caller] = "stop_sd" /\ pc' \in [Threads -> Labels]
        /\ \A t \in Threads \ {Caller} : pc'[t] \in {pc[t], "done"}
    BY <1>1, <1>8 DEF StopSignal, Goto, TypeOK, Labels
  <2>3. PlaceOK' /\ JoinOK'
    BY <1>1, <2>2 DEF PlaceOK, JoinOK, CallerLabels
  <2> QED
    BY <1>1, <1>4, <2>1, <2>2, <2>3 DEF TypeOK
<1> QED
  BY <1>7, <1>8

\* The steps of sche_init.
LEMMA InitSteps ==
  ASSUME IInv, NEW t \in Threads, UNCHANGED joining, InitStep(t)
  PROVE  IInv'
<1>1. TypeOK /\ PlaceOK /\ JoinOK /\ EarlyOK /\ SD \in Types /\ LIGHT \in Types
  BY DEF IInv, Types
<1>2. ASSUME NEW y \in Types, NEW label \in {"create_light", "idle", "plan"},
             Create(t, y, label), pc[t] \in {"create_sd", "create_light"},
             label = "idle" => t = Caller, label = "plan" => t # Caller,
             pt' \in [Types -> Threads \cup {None}], once' \in {"new", "busy", "done"},
             UNCHANGED <<clock, start_t, end_t, now, now_t, tZero, timeout, history>>
      PROVE  IInv'
  <2>1. label \in Labels /\ label \notin {"join_sd", "join_light"}
        /\ (label \in CallerLabels => t = Caller)
        /\ (t = Caller => label \in CallerLabels \cup {"create_sd", "create_light"})
    BY <1>2 DEF Labels, CallerLabels
  <2>2. /\ pc' \in [Threads -> Labels] /\ type' \in [Threads -> Types] /\ PlaceOK'
        /\ pc'[Caller] \in {pc[Caller], label}
    BY <1>1, <1>2, <2>1, Creates
  <2>3. JoinOK'
    BY <1>1, <1>2, <2>1, <2>2 DEF JoinOK, history
  <2>4. TypeOK' /\ EarlyOK'
    BY <1>1, <1>2, <2>2, Kept DEF TypeOK, history
  <2> QED
    BY <2>2, <2>3, <2>4 DEF IInv
<1>3. CASE SyncInit(t)
  <2>1. pt' \in [Types -> Threads \cup {None}]
    BY <1>1, <1>3 DEF SyncInit, TypeOK
  <2>2. "create_sd" \in Labels \ CallerLabels
    BY DEF Labels, CallerLabels
  <2> QED
    BY <1>1, <1>3, <2>1, <2>2, Quiet DEF SyncInit, locals, TypeOK
<1>4. CASE CreateSD(t)
  <2>1. Least(Unused) \in Threads
    BY <1>1, <1>4, Creates DEF CreateSD, Labels, CallerLabels
  <2>2. pt' \in [Types -> Threads \cup {None}]
    BY <1>4, <2>1 DEF CreateSD
  <2> QED
    BY <1>1, <1>2, <1>4, <2>2 DEF CreateSD, TypeOK
<1>5. CASE CreateLight(t)
  <2>1. Least(Unused) \in Threads
    BY <1>1, <1>5, NextThread DEF CreateLight, Create, Unused
  <2>2. pt' \in [Types -> Threads \cup {None}] /\ once' \in {"new", "busy", "done"}
    BY <1>1, <1>5, <2>1 DEF CreateLight, TypeOK
  <2>3. CASE t = Caller
    BY <1>1, <1>2, <1>5, <2>2, <2>3 DEF CreateLight
  <2>4. CASE t # Caller
    BY <1>1, <1>2, <1>5, <2>2, <2>4 DEF CreateLight
  <2> QED
    BY <2>3, <2>4
<1> QED
  BY <1>3, <1>4, <1>5 DEF InitStep

\* The steps of sche_func.
LEMMA FuncSteps ==
  ASSUME IInv, NEW t \in Threads, UNCHANGED joining, FuncStep(t) \/ SpuriousWake(t)
  PROVE  IInv'
<1>1. TypeOK /\ PlaceOK /\ JoinOK /\ EarlyOK
  BY DEF IInv
<1>2. pc[t] \notin CallerLabels \cup {"init", "create_sd", "create_light"} /\ t # Caller
  BY <1>1 DEF PlaceOK, CallerLabels, FuncStep, SpuriousWake, ReadNow, Once, ReadPlanNow,
              StoreStart, StoreEnd, Lock, TimedOut, RunFunc
<1>3. {"once", "init", "plan", "store", "store_end", "lock", "run", "wait", "done"}
        \subseteq Labels \ CallerLabels
  BY DEF Labels, CallerLabels
<1>4. ASSUME NEW label \in {"once", "store", "store_end", "lock", "run"}, Goto(t, label),
             start_t' \in [Types -> Nat], end_t' \in [Types -> Nat],
             planned' \in [Types -> Nat], now' \in [Threads -> Nat],
             now_t' \in [Threads -> Nat], tZero' \in [Threads -> Nat],
             \A y \in Types : start_t'[y] \in today_zero_t(planned'[y]) .. planned'[y],
             EarlyOK', UNCHANGED <<clock, pt, once, type, timeout, misuse>>
      PROVE  IInv'
  <2>1. pc' \in [Threads -> Labels] /\ PlaceOK'
    BY <1>1, <1>2, <1>3, <1>4, Moves
  <2>2. TypeOK'
    BY <1>1, <1>4, <2>1 DEF TypeOK
  <2>3. JoinOK'
    BY <1>1, <1>2, <1>4 DEF JoinOK, Goto
  <2> QED
    BY <1>4, <2>1, <2>2, <2>3 DEF IInv
<1>5. ASSUME NEW label \in {"init", "plan", "lock", "run", "wait", "done"}, Goto(t, label),
             UNCHANGED <<clock, start_t, end_t, now, now_t, tZero, planned, type, pt, misuse>>,
             once' \in {"new", "busy", "done"}, timeout' \in [Threads -> Nat]
      PROVE  IInv'
  BY <1>1, <1>2, <1>3, <1>5, Quiet DEF TypeOK
<1>6. once \in {"new", "busy", "done"} /\ timeout \in [Threads -> Nat]
  BY <1>1 DEF TypeOK
<1>7. CASE ReadNow(t)
  <2>1. now' = [now EXCEPT ![t] = clock] /\ UNCHANGED <<clock, ptStruct, now_t, planned>>
    BY <1>7 DEF ReadNow, history
  <2>2. now' \in [Threads -> Nat] /\ EarlyOK'
    BY <1>1, <2>1 DEF TypeOK, EarlyOK, ptStruct
  <2> QED
    BY <1>1, <1>4, <1>7, <2>1, <2>2 DEF ReadNow, ptStruct, history, TypeOK
<1>8. CASE Once(t)
  BY <1>5, <1>6, <1>8 DEF Once, ptStruct, locals, history
<1>9. CASE ReadPlanNow(t)
  <2>1. now_t' \in [Threads -> Nat] /\ EarlyOK'
    BY <1>1, <1>9 DEF ReadPlanNow, TypeOK, EarlyOK, ptStruct, history
  <2> QED
    BY <1>1, <1>4, <1>9, <2>1 DEF ReadPlanNow, ptStruct, history, TypeOK
<1>10. CASE StoreStart(t)
  <2>1. /\ Goto(t, "store_end") /\ tZero' = [tZero EXCEPT ![t] = today_zero_t(clock)]
        /\ UNCHANGED <<clock, end_t, pt, once, type, now, now_t, timeout, misuse>>
    BY <1>10 DEF StoreStart
  <2>2. /\ now_t' \in [Threads -> Nat] /\ now' \in [Threads -> Nat]
        /\ tZero' \in [Threads -> Nat] /\ end_t' \in [Types -> Nat]
    <3>1. today_zero_t(clock) \in Nat
      BY <1>1, Midnight DEF TypeOK
    <3> QED
      BY <1>1, <2>1, <3>1 DEF TypeOK
  <2>3. EarlyOK'
    BY <1>1, <1>10, <2>1, StoreStartStep DEF EarlyOK
  <2> QED
    BY <1>4, <1>10, <2>1, <2>2, <2>3, StoreStartStep
<1>11. CASE StoreEnd(t)
  <2>1. /\ now_t' = [now_t EXCEPT ![t] = 0] /\ tZero' = [tZero EXCEPT ![t] = 0]
        /\ UNCHANGED <<clock, start_t, pt, once, type, now, timeout, planned, misuse>>
    BY <1>11 DEF StoreEnd, history
  <2>2. /\ now_t' \in [Threads -> Nat] /\ now' \in [Threads -> Nat]
        /\ tZero' \in [Threads -> Nat] /\ end_t' \in [Types -> Nat]
    BY <1>1, <1>11, <2>1, StoreEndStep DEF TypeOK
  <2>3. /\ EarlyOK' /\ start_t' \in [Types -> Nat] /\ planned' \in [Types -> Nat]
        /\ \A y \in Types : start_t'[y] \in today_zero_t(planned'[y]) .. planned'[y]
    BY <1>1, <2>1 DEF EarlyOK, TypeOK
  <2>4. PICK label \in {"lock", "run"} : Goto(t, label)
    BY <1>11 DEF StoreEnd
  <2> QED
    BY <1>4, <2>1, <2>2, <2>3, <2>4
<1>12. CASE Lock(t)
  <2>1. timeout' \in [Threads -> Nat]
    BY <1>1, <1>12 DEF Lock, TypeOK
  <2> QED
    BY <1>5, <1>6, <1>12, <2>1 DEF Lock, ptStruct, history
<1>13. CASE TimedOut(t)
  <2>1. timeout' \in [Threads -> Nat]
    BY <1>1, <1>13 DEF TimedOut, TypeOK
  <2> QED
    BY <1>5, <1>6, <1>13, <2>1 DEF TimedOut, ptStruct, history
<1>14. CASE RunFunc(t) \/ SpuriousWake(t)
  BY <1>5, <1>6, <1>14 DEF RunFunc, SpuriousWake, ptStruct, locals, history
<1> QED
  BY <1>7, <1>8, <1>9, <1>10, <1>11, <1>12, <1>13, <1>14 DEF FuncStep

\* Every step of the schedule threads, of sche_init and of sche_stop keeps them.
THEOREM NextInv == IInv /\ [Next]_vars => IInv'
<1> SUFFICES ASSUME IInv, [Next]_vars PROVE IInv'
  OBVIOUS
<1>1. TypeOK /\ PlaceOK /\ JoinOK /\ EarlyOK
  BY DEF IInv
<1>2. CASE StopJoins \/ (UNCHANGED joining /\ StopSignal)
  BY <1>2, StopSteps
<1>3. CASE UNCHANGED joining /\ \E t \in Threads : InitStep(t) \/ FuncStep(t) \/ SpuriousWake(t)
  BY <1>3, InitSteps, FuncSteps
<1>4. CASE UNCHANGED joining /\ Tick
  <2>1. clock' = clock + 1 /\ UNCHANGED <<ptStruct, once, pc, locals, history, joining>>
    BY <1>4 DEF Tick
  <2>2. EarlyOK'
    BY <1>1, <2>1 DEF TypeOK, EarlyOK, ptStruct, locals, history
  <2>3. TypeOK'
    BY <1>1, <2>1 DEF TypeOK, ptStruct, locals, history
  <2>4. PlaceOK' /\ JoinOK'
    BY <1>1, <2>1 DEF PlaceOK, JoinOK, history
  <2> QED
    BY <2>2, <2>3, <2>4 DEF IInv
<1>5. CASE UNCHANGED vars
  <2>1. TypeOK' /\ EarlyOK'
    BY <1>1, <1>5 DEF TypeOK, EarlyOK, vars, ptStruct, locals, history
  <2>2. PlaceOK' /\ JoinOK'
    BY <1>1, <1>5 DEF PlaceOK, JoinOK, vars, history
  <2> QED
    BY <2>1, <2>2 DEF IInv
<1> QED
  BY <1>2, <1>3, <1>4, <1>5 DEF Next

-----------------------------------------------------------------------------
(* Types *)

\* Every variable keeps its type, and a start stays in the day of its slot, although
\* timeslot_get_start_end (g_schedule.c:47) subtracts a slot and reads the clock again.
THEOREM TypeCorrect == Spec => []TypeOK
<1>1. IInv => TypeOK
  BY DEF IInv
<1> QED
  BY <1>1, InitInv, NextInv, PTL DEF Spec

-----------------------------------------------------------------------------
(* No function before its slot *)

\* Only a thread that has compared its start with the time it read goes on to its function.
LEMMA RunStep ==
  ASSUME IInv, [Next]_vars, NEW t \in Threads, pc[t] # "run", pc'[t] = "run"
  PROVE  planned[type[t]] - SLOT_LEN <= clock
<1>1. TypeOK /\ PlaceOK /\ EarlyOK
  BY DEF IInv
<1>2. ASSUME NEW u \in Threads, NEW label, Goto(u, label), label # "run" PROVE FALSE
  BY <1>1, <1>2 DEF Goto, TypeOK
<1>3. Caller \in Threads
  BY ScheduleAssumption DEF Threads, Caller
<1>4. ~(UNCHANGED vars) /\ ~Tick
  BY DEF vars, Tick
<1>5. ~StopJoins
  BY <1>2, <1>3 DEF StopJoins, JoinCall, JoinReturn
<1>6. ~StopSignal
  <2>1. ASSUME NEW u \in Threads, pc' = [pc EXCEPT ![u] = "done", ![Caller] = "stop_sd"]
        PROVE  FALSE
    BY <1>1, <2>1 DEF TypeOK
  <2> QED
    BY <1>2, <1>3, <2>1 DEF StopSignal
<1>7. ASSUME NEW u \in Threads, InitStep(u) PROVE FALSE
  <2>1. ASSUME NEW y, NEW label, Create(u, y, label), label # "run" PROVE FALSE
    BY <1>1, <2>1 DEF Create, TypeOK
  <2> QED
    BY <1>2, <1>7, <2>1 DEF InitStep, SyncInit, CreateSD, CreateLight
<1>8. ASSUME NEW u \in Threads,
             ReadNow(u) \/ Once(u) \/ ReadPlanNow(u) \/ StoreStart(u) \/ Lock(u) \/ TimedOut(u)
               \/ RunFunc(u) \/ SpuriousWake(u)
      PROVE  FALSE
  BY <1>2, <1>8 DEF ReadNow, Once, ReadPlanNow, StoreStart, Lock, TimedOut, RunFunc, SpuriousWake
<1>9. PICK u \in Threads : StoreEnd(u)
  BY <1>4, <1>5, <1>6, <1>7, <1>8 DEF Next, FuncStep
<1>10. u = t /\ ~AheadOf(t)
  BY <1>1, <1>9 DEF StoreEnd, Goto, TypeOK
<1>11. /\ type[t] \in Types /\ clock \in Nat /\ now[t] \in Nat /\ start_t[type[t]] \in Nat
       /\ planned[type[t]] \in Nat /\ now[t] <= clock
       /\ planned[type[t]] - SLOT_LEN <= start_t[type[t]]
  BY <1>1 DEF TypeOK, EarlyOK
<1> QED
  BY <1>10, <1>11, SlotAssumption DEF AheadOf

\* No thread runs its function earlier than one slot before a slot that was planned, whoever
\* of the two threads of the type stored the plan last (sche_func, g_schedule.c:95).
THEOREM AtMostOneSlotEarly == Spec => OneSlotEarly
<1>1. IInv /\ [Next]_vars =>
        [\A t \in Threads : pc[t] # "run" /\ pc'[t] = "run" =>
           planned[type[t]] - SLOT_LEN <= clock]_vars
  BY RunStep
<1> QED
  BY <1>1, InitInv, NextInv, PTL DEF Spec, OneSlotEarly

-----------------------------------------------------------------------------
(* The threads implement ScheThreads *)

\* Where ScheThreads sees a thread with a label.
PlaceOf(t, label) ==
  CASE label \in {"plan", "store", "store_end", "lock", "run"} -> "loop"
    [] label \in {"start", "once"}                          -> "start"
    [] t = Caller /\ label \in {"init", "idle", "stopped"} -> "idle"
    [] OTHER                                                -> label

Place == [t \in Threads |-> PlaceOf(t, pc[t])]
Join  == [c \in {Caller} |-> joining]

\* The variables of ScheThreads.
LEMMA Seen ==
  /\ Life!life = <<Place, type, once, pt, Join, misuse>>
  /\ Life!Threads = Threads /\ Life!Types = Types
  /\ Life!Waiting = {t \in Threads : Place[t] = "wait"}
<1>1. 1 .. MaxThreads \cup {Caller} = Threads
  BY ScheduleAssumption DEF Threads, Caller
<1>2. Life!Threads = Threads
  BY <1>1 DEF Life!Threads
<1> QED
  BY <1>2 DEF Life!life, Life!Types, Types, Life!Waiting, Place, PlaceOf, Join

\* The places of a thread.
LEMMA Places ==
  ASSUME TypeOK, PlaceOK
  PROVE  /\ \A t \in Threads : Place[t] = "wait" <=> pc[t] = "wait"
         /\ \A t \in Threads : Place[t] = "off" <=> pc[t] = "off"
         /\ \A t \in Threads : Place[t] = "done" <=> pc[t] = "done"
BY DEF Place, PlaceOf, TypeOK, Labels

\* A thread that goes to a label moves to its place.
LEMMA Moved ==
  ASSUME TypeOK, NEW t \in Threads, NEW label, Goto(t, label)
  PROVE  Place' = [Place EXCEPT ![t] = PlaceOf(t, label)]
BY DEF TypeOK, Goto, Place

\* A step that ScheThreads does not see.
LEMMA Unseen ==
  ASSUME TypeOK, NEW t \in Threads, NEW label, Goto(t, label),
         PlaceOf(t, label) = PlaceOf(t, pc[t]), UNCHANGED <<type, once, pt, joining, misuse>>
  PROVE  UNCHANGED Life!life
<1>1. \A u \in Threads : PlaceOf(u, pc'[u]) = PlaceOf(u, pc[u])
  BY DEF TypeOK, Goto
<1>2. Place' = Place /\ Join' = Join
  BY <1>1 DEF Place, Join
<1> QED
  BY <1>2 DEF Life!life, Place, PlaceOf, Join

\* The thread that is created next.
LEMMA Created ==
  ASSUME IInv, NEW t \in Threads, NEW y, NEW label, Create(t, y, label),
         pc[t] \in {"create_sd", "create_light"}
  PROVE  /\ Least(Unused) \in 1 .. MaxThreads
         /\ Life!Create(t, Least(Unused), y, PlaceOf(t, label))
<1> DEFINE n == Least(Unused)
<1>1. TypeOK /\ PlaceOK
  BY DEF IInv
<1>2. n \in Unused /\ \A u \in Unused : n <= u
  BY <1>1, NextThread DEF Create
<1>3. pc' = [pc EXCEPT ![n] = "start", ![t] = label] /\ type' = [type EXCEPT ![n] = y]
  BY DEF Create
<1> HIDE DEF n
<1>4. n \in 1 .. MaxThreads /\ n \in Threads /\ n # t /\ pc[n] = "off"
  BY <1>1, <1>2 DEF Unused, PlaceOK, CallerLabels, Threads, Caller
<1>5. Place[n] = "off" /\ \A v \in 1 .. MaxThreads : Place[v] = "off" => n <= v
  BY <1>1, <1>2, <1>4, Places DEF Unused, Threads
<1>6. Place' = [Place EXCEPT ![n] = "start", ![t] = PlaceOf(t, label)]
  <2>1. PlaceOf(n, "start") = "start"
    BY DEF PlaceOf
  <2>2. \A u \in Threads : PlaceOf(u, pc'[u]) =
          IF u = t THEN PlaceOf(t, label) ELSE IF u = n THEN "start" ELSE PlaceOf(u, pc[u])
    BY <1>1, <1>3, <1>4, <2>1 DEF TypeOK
  <2> QED
    BY <1>4, <2>2 DEF Place
<1>7. Life!Create(t, n, y, PlaceOf(t, label))
  BY <1>3, <1>4, <1>5, <1>6 DEF Life!Create, Place, PlaceOf
<1> QED
  BY <1>4, <1>7 DEF n

\* The steps of sche_init are those of ScheThreads.
LEMMA LifeInitSteps ==
  ASSUME IInv, NEW t \in Threads, UNCHANGED joining, InitStep(t)
  PROVE  (Life!SyncInit(t) /\ (t # Caller => Place[t] = "init")) \/ Life!InitStep(t)
<1>1. TypeOK /\ PlaceOK
  BY DEF IInv
<1>2. CASE SyncInit(t)
  <2>1. Place' = [Place EXCEPT ![t] = "create_sd"]
    BY <1>1, <1>2, Moved DEF SyncInit, PlaceOf
  <2>2. Place[t] = IF t = Caller THEN "idle" ELSE "init"
    BY <1>1, <1>2 DEF SyncInit, Place, PlaceOf
  <2>3. misuse' = IF Life!Waiting = {} THEN misuse ELSE misuse \cup {"reinit"}
    BY <1>1, <1>2, Places, Seen DEF SyncInit, InUse
  <2>4. UNCHANGED <<type, once, joining>> /\ pt' = [pt EXCEPT ![SD] = None]
    BY <1>2 DEF SyncInit, locals
  <2>5. Life!SyncInit(t)
    BY <2>1, <2>2, <2>3, <2>4 DEF Life!SyncInit, Life!Move, Place, PlaceOf
  <2> QED
    BY <2>2, <2>5
<1>3. CASE CreateSD(t)
  <2>1. /\ pc[t] = "create_sd" /\ Create(t, SD, "create_light")
        /\ pt' = [y \in Types |-> IF y = SD THEN Least(Unused) ELSE None]
        /\ UNCHANGED <<once, joining, misuse>>
    BY <1>3 DEF CreateSD, history
  <2>2. Place[t] = "create_sd" /\ PlaceOf(t, "create_light") = "create_light"
    BY <2>1 DEF Place, PlaceOf
  <2>3. /\ Least(Unused) \in 1 .. MaxThreads
        /\ Life!Create(t, Least(Unused), SD, "create_light")
    BY <2>1, <2>2, Created
  <2>4. Life!CreateSD(t)
    BY <2>1, <2>2, <2>3 DEF Life!CreateSD, Life!Types, Types, Place, PlaceOf
  <2> QED
    BY <2>4 DEF Life!InitStep
<1>4. CASE CreateLight(t)
  <2> DEFINE to == IF t = Caller THEN "idle" ELSE "plan"
             at == IF t = Caller THEN "idle" ELSE "loop"
  <2>1. /\ pc[t] = "create_light" /\ Create(t, LIGHT, to)
        /\ pt' = [pt EXCEPT ![LIGHT] = Least(Unused)]
        /\ once' = (IF t = Caller THEN once ELSE "done") /\ UNCHANGED <<joining, misuse>>
    BY <1>4 DEF CreateLight, history
  <2>2. Place[t] = "create_light" /\ PlaceOf(t, to) = at
    BY <2>1 DEF Place, PlaceOf
  <2>3. Least(Unused) \in 1 .. MaxThreads /\ Life!Create(t, Least(Unused), LIGHT, at)
    BY <2>1, <2>2, Created
  <2>4. (t \in {Caller}) = (t = Caller)
    OBVIOUS
  <2>5. Life!CreateLight(t)
    BY <2>1, <2>2, <2>3, <2>4 DEF Life!CreateLight, Place, PlaceOf
  <2> QED
    BY <2>5 DEF Life!InitStep
<1> QED
  BY <1>2, <1>3, <1>4 DEF InitStep

\* The steps of sche_func are those of ScheThreads, or it does not see them.
LEMMA LifeFuncSteps ==
  ASSUME IInv, NEW t \in Threads, UNCHANGED joining, FuncStep(t) \/ SpuriousWake(t)
  PROVE  \/ t # Caller /\ (Life!Enter(t) \/ Life!Wait(t) \/ Life!TimedOut(t)
                             \/ Life!SpuriousWake(t))
         \/ UNCHANGED Life!life
<1>1. TypeOK /\ PlaceOK
  BY DEF IInv
<1>2. t # Caller
  BY <1>1 DEF PlaceOK, CallerLabels, FuncStep, SpuriousWake, ReadNow, Once, ReadPlanNow,
              StoreStart, StoreEnd, Lock, TimedOut, RunFunc
<1>3. CASE ReadNow(t)
  BY <1>1, <1>3, Unseen DEF ReadNow, PlaceOf, ptStruct, history
<1>4. CASE Once(t)
  <2>1. Place[t] = "start" /\ UNCHANGED <<type, pt, joining, misuse>>
    BY <1>4 DEF Once, Place, PlaceOf, ptStruct, locals, history
  <2>2. CASE once = "new" /\ once' = "busy" /\ Goto(t, "init")
    <3>1. Place' = [Place EXCEPT ![t] = "init"]
      BY <1>1, <1>2, <2>2, Moved DEF PlaceOf
    <3> QED
      BY <1>2, <2>1, <2>2, <3>1 DEF Life!Enter, Life!MustInit, Life!Move, Place, PlaceOf
  <2>3. CASE once = "done" /\ once' = once /\ Goto(t, "plan")
    <3>1. Place' = [Place EXCEPT ![t] = "loop"]
      BY <1>1, <2>3, Moved DEF PlaceOf
    <3> QED
      BY <1>2, <2>1, <2>3, <3>1 DEF Life!Enter, Life!Move, Place, PlaceOf
  <2> QED
    BY <1>4, <2>2, <2>3 DEF Once, MustInit, MayPass
<1>5. CASE ReadPlanNow(t)
  BY <1>1, <1>5, Unseen DEF ReadPlanNow, PlaceOf, ptStruct, history
<1>6. CASE StoreStart(t)
  BY <1>1, <1>6, Unseen DEF StoreStart, PlaceOf
<1>7. CASE StoreEnd(t)
  <2>1. PICK label \in {"lock", "run"} : Goto(t, label)
    BY <1>7 DEF StoreEnd
  <2>2. /\ pc[t] = "store_end" /\ PlaceOf(t, label) = "loop" /\ PlaceOf(t, pc[t]) = "loop"
        /\ UNCHANGED <<type, once, pt, joining, misuse>>
    BY <1>7 DEF StoreEnd, PlaceOf, history
  <2> QED
    BY <1>1, <2>1, <2>2, Unseen
<1>8. CASE RunFunc(t)
  BY <1>1, <1>8, Unseen DEF RunFunc, PlaceOf, ptStruct, locals, history
<1>9. CASE Lock(t)
  <2>1. Place[t] = "loop" /\ Place' = [Place EXCEPT ![t] = "wait"]
    BY <1>1, <1>9, Moved DEF Lock, Place, PlaceOf
  <2> QED
    BY <1>2, <1>9, <2>1 DEF Lock, ptStruct, history, Life!Wait, Life!Move, Place, PlaceOf
<1>10. CASE TimedOut(t)
  <2>1. Place[t] = "wait" /\ Place' = [Place EXCEPT ![t] = "loop"]
    BY <1>1, <1>10, Moved DEF TimedOut, Place, PlaceOf
  <2> QED
    BY <1>2, <1>10, <2>1 DEF TimedOut, ptStruct, history, Life!TimedOut, Life!Move, Place, PlaceOf
<1>11. CASE SpuriousWake(t)
  <2>1. Place[t] = "wait" /\ Place' = [Place EXCEPT ![t] = "done"]
    BY <1>1, <1>11, Moved DEF SpuriousWake, Place, PlaceOf
  <2> QED
    BY <1>2, <1>11, <2>1 DEF SpuriousWake, ptStruct, locals, history, Life!SpuriousWake,
                             Life!Move, Place, PlaceOf
<1> QED
  BY <1>3, <1>4, <1>5, <1>6, <1>7, <1>8, <1>9, <1>10, <1>11 DEF FuncStep

\* The steps of sche_stop are those of ScheThreads.
LEMMA LifeStopSteps ==
  ASSUME IInv, "join" \notin misuse, StopJoins \/ (UNCHANGED joining /\ StopSignal)
  PROVE  Life!StopJoins(Caller) \/ Life!StopSignal(Caller)
<1>1. TypeOK /\ PlaceOK /\ JoinOK /\ Caller \in Threads
  BY ScheduleAssumption DEF IInv, Threads, Caller
<1>2. ASSUME NEW from \in {"stop_sd", "stop_light"}, NEW y \in Types,
             NEW to \in {"join_sd", "join_light"}, JoinCall(from, y, to)
      PROVE  Life!JoinCall(Caller, from, y, to)
  <2>1. Place[Caller] = from /\ Place' = [Place EXCEPT ![Caller] = to]
    BY <1>1, <1>2, Moved DEF JoinCall, Place, PlaceOf
  <2>2. Join' = [Join EXCEPT ![Caller] = pt[y]]
    BY <1>2 DEF JoinCall, Join
  <2> QED
    BY <1>2, <2>1, <2>2
       DEF JoinCall, ptStruct, locals, Life!JoinCall, Life!Move, Place, PlaceOf, Join
<1>3. ASSUME NEW from \in {"join_sd", "join_light"}, NEW y \in Types,
             NEW to \in {"stop_light", "stopped"}, JoinReturn(from, y, to)
      PROVE  Life!JoinReturn(Caller, from, y, IF to = "stopped" THEN "idle" ELSE to)
  <2>1. /\ Place[Caller] = from
        /\ Place' = [Place EXCEPT ![Caller] = IF to = "stopped" THEN "idle" ELSE to]
    BY <1>1, <1>3, Moved DEF JoinReturn, Place, PlaceOf
  <2>2. joining # None /\ joining \in Threads /\ pc[joining] = "done"
    BY <1>1, <1>3 DEF JoinReturn, JoinOK, TypeOK
  <2>3. Join[Caller] = joining /\ Place[joining] = "done"
    BY <1>1, <2>2, Places DEF Join
  <2>4. Join' = [Join EXCEPT ![Caller] = None]
    BY <1>3 DEF JoinReturn, Join
  <2> QED
    BY <1>3, <2>1, <2>2, <2>3, <2>4
       DEF JoinReturn, locals, history, Life!JoinReturn, Life!Move, Place, PlaceOf, Join
<1>4. CASE StopJoins
  BY <1>2, <1>3, <1>4 DEF StopJoins, Types, Life!StopJoins
<1>5. CASE UNCHANGED joining /\ StopSignal
  <2>1. Place[Caller] = "idle" /\ UNCHANGED <<type, once, pt, joining, misuse>>
    BY <1>1, <1>5 DEF StopSignal, Place, PlaceOf, ptStruct, locals, history
  <2>2. ASSUME NEW u \in Threads, pc[u] = "wait",
               pc' = [pc EXCEPT ![u] = "done", ![Caller] = "stop_sd"]
        PROVE  Life!StopSignal(Caller)
    <3>1. u \in Life!Waiting
      BY <1>1, <2>2, Places, Seen
    <3>2. PlaceOf(u, "done") = "done" /\ PlaceOf(Caller, "stop_sd") = "stop_sd"
      BY DEF PlaceOf
    <3>3. Place' = [Place EXCEPT ![u] = "done", ![Caller] = "stop_sd"]
      <4>1. \A v \in Threads : PlaceOf(v, pc'[v]) =
              IF v = Caller THEN "stop_sd" ELSE IF v = u THEN "done" ELSE PlaceOf(v, pc[v])
        BY <1>1, <2>2, <3>2 DEF TypeOK
      <4> QED
        BY <1>1, <2>2, <4>1 DEF Place
    <3> QED
      BY <2>1, <3>1, <3>3 DEF Life!StopSignal, Place, PlaceOf
  <2>3. ASSUME ~InUse, Goto(Caller, "stop_sd") PROVE Life!StopSignal(Caller)
    <3>1. Life!Waiting = {}
      BY <1>1, <2>3, Places, Seen DEF InUse
    <3>2. Place' = [Place EXCEPT ![Caller] = "stop_sd"]
      BY <1>1, <2>3, Moved DEF PlaceOf
    <3> QED
      BY <2>1, <3>1, <3>2 DEF Life!StopSignal, Life!Move, Place, PlaceOf
  <2> QED
    BY <1>5, <2>2, <2>3 DEF StopSignal
<1> QED
  BY <1>4, <1>5

\* Every step is one of ScheThreads, or it does not see it.
LEMMA LifeStep == IInv /\ [Next]_vars => [Life!LifeNext]_(Life!life)
<1> SUFFICES ASSUME IInv, [Next]_vars PROVE Life!LifeNext \/ UNCHANGED Life!life
  OBVIOUS
<1>1. CASE UNCHANGED vars \/ (UNCHANGED joining /\ Tick)
  BY <1>1 DEF vars, Tick, ptStruct, locals, history, Life!life
<1>2. ASSUME "join" \notin misuse, StopJoins \/ (UNCHANGED joining /\ StopSignal)
      PROVE  Life!LifeNext
  BY <1>2, LifeStopSteps DEF Life!LifeNext
<1>3. ASSUME "join" \notin misuse, UNCHANGED joining, NEW t \in Threads,
             InitStep(t) \/ FuncStep(t) \/ SpuriousWake(t)
      PROVE  Life!LifeNext \/ UNCHANGED Life!life
  <2>1. t = Caller \/ t \in 1 .. MaxThreads
    BY DEF Threads, Caller
  <2>2. CASE InitStep(t)
    <3>1. (Life!SyncInit(t) /\ (t # Caller => Place[t] = "init")) \/ Life!InitStep(t)
      BY <1>3, <2>2, LifeInitSteps
    <3>2. CASE t = Caller
      BY <1>3, <3>1, <3>2 DEF Life!LifeNext
    <3>3. CASE t # Caller
      <4>1. Life!ThreadStep(t)
        BY <3>1, <3>3 DEF Life!ThreadStep, Place, PlaceOf
      <4> QED
        BY <1>3, <2>1, <3>3, <4>1 DEF Life!LifeNext
    <3> QED
      BY <3>2, <3>3
  <2>3. CASE FuncStep(t) \/ SpuriousWake(t)
    <3>1. \/ t # Caller /\ (Life!ThreadStep(t) \/ Life!SpuriousWake(t))
          \/ UNCHANGED Life!life
      BY <1>3, <2>3, LifeFuncSteps DEF Life!ThreadStep
    <3> QED
      BY <1>3, <2>1, <3>1 DEF Life!LifeNext
  <2> QED
    BY <1>3, <2>2, <2>3
<1> QED
  BY <1>1, <1>2, <1>3 DEF Next

\* The parameters that EvSchedule gives to ScheThreads are as it assumes.
LEMMA LifeParameters ==
  /\ 1 .. MaxThreads \subseteq Nat /\ IsFiniteSet(1 .. MaxThreads)
  /\ (1 .. MaxThreads) \cap {Caller} = {} /\ SD # LIGHT /\ None \notin Life!Threads
<1>1. IsFiniteSet(1 .. MaxThreads)
  BY ScheduleAssumption, FS_Interval
<1> QED
  BY <1>1, ScheduleAssumption, Seen DEF Caller, Threads

\* The threads of the schedule, with their plans, their waits and the clock, do what
\* ScheThreads says of threads and nothing else.
THEOREM ImplementsLife == Spec => ImplementsScheThreads
<1>1. Init => Life!LifeInit
  <2> SUFFICES ASSUME Init PROVE Life!LifeInit
    OBVIOUS
  <2>1. Place = [t \in Threads |-> IF t \in {Caller} THEN "idle" ELSE "off"]
    BY DEF Init, Place, PlaceOf
  <2> QED
    BY <2>1, Seen DEF Init, Life!LifeInit, Place, PlaceOf
<1> QED
  BY <1>1, InitInv, NextInv, LifeStep, PTL DEF Spec, ImplementsScheThreads, Life!LifeSpec
=============================================================================
