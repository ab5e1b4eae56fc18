--------------------------- MODULE GScheduleProofs ---------------------------
(***************************************************************************)
(* Theorems about the timer schedule, for every number and length of the   *)
(* slots, every number of entries and every week.                          *)
(***************************************************************************)
EXTENDS GSchedule, DaySlotProofs

-----------------------------------------------------------------------------
(* The plan and its alarm *)

\* What makes NeverEarly inductive: the delay is counted from a `now` that lies in
\* the past when the timer is armed.
NowIsPast == pc \in {"plan", "zero", "arm"} => now <= clock

IInv == TypeOK /\ NowIsPast /\ NeverEarly

\* A plan is a pair of times, whatever the week.
LEMMA PlanInNat ==
  ASSUME TypeOK, NEW t \in Nat
  PROVE  PlanStart(today_zero_t(t)) \in Nat /\ PlanEnd(today_zero_t(t)) \in Nat
<1> DEFINE slot == timeslot_get_offset(now_t)
           zero == today_zero_t(t)
<1>1. now_t \in Nat /\ slot \in Slots
  BY Offset DEF TypeOK
<1>2. wday(now_t) % 7 \in 0 .. 6
  <2>1. wday(now_t) \in Nat
    BY <1>1, Midnight
  <2> QED
    BY <2>1
<1>3. Today \in DaySlot
  BY <1>2 DEF Today, Entry, TypeOK, Week
<1>4. zero \in Nat /\ TOMORROW_ZERO_T(zero) \in Nat
  BY Midnight
<1> HIDE DEF slot, zero
<1>5. CASE Found # {}
  <2> DEFINE k == Least(Found)
  <2>1. Ahead(Today, slot) # {} /\ k = Least(Ahead(Today, slot))
    BY <1>5 DEF Found, slot
  <2>2. k \in Today /\ k \in slot .. SLOTS - 1
    BY <1>1, <1>3, <2>1, FoundSlot
  <2> HIDE DEF k
  <2>3. LastOfRun(Today, k) \in k .. SLOTS - 1
    BY <1>3, <2>2, RunOf
  <2>4. k \in Nat /\ LastOfRun(Today, k) \in Nat
    BY <1>1, <2>2, <2>3, SlotAssumption DEF Slots
  <2>5. StartOf(zero, k) \in Nat /\ EndOf(zero, Today, k) \in Nat
    BY <1>4, <2>4, SlotAssumption DEF StartOf, EndOf
  <2> QED
    BY <1>1, <1>5, <2>5 DEF PlanStart, PlanEnd, k, zero
<1>6. CASE Found = {}
  BY <1>1, <1>4, <1>6 DEF PlanStart, PlanEnd, zero
<1> QED
  BY <1>5, <1>6

\* The invariant holds after g_schedule_init.
LEMMA InitInv == Init => IInv
<1> SUFFICES ASSUME Init PROVE IInv
  OBVIOUS
<1>1. 0 \in Types /\ [d \in 0 .. 6 |-> {}] \in Week
  BY WeekAssumption DEF Types, Week, DaySlot
<1>2. clock \in Nat
  BY WeekAssumption DEF Init
<1> QED
  BY <1>1, <1>2 DEF Init, IInv, TypeOK, NowIsPast, NeverEarly

\* The next entry the loop visits is one of the table.
LEMMA ContinueInTable ==
  ASSUME TypeOK, NEW label \in {"start", "stop"}, Continue(label)
  PROVE  type' \in Types /\ pc' \in {"idle", "start", "stop"}
BY WeekAssumption DEF Continue, AtLast, TypeOK, Types

\* Every step keeps it: the clock only goes on between a reading and the arming.
LEMMA StepInv == IInv /\ [Next]_vars => IInv'
<1> SUFFICES ASSUME IInv, [Next]_vars PROVE IInv'
  OBVIOUS
<1> USE DEF IInv
<1>0. None \notin Nat /\ 0 \in Types /\ GSCHEDULE_STRUCT_MAX - 1 \in Types
  BY WeekAssumption DEF Types
<1>1. CASE Tick
  BY <1>1 DEF Tick, thread, TypeOK, NowIsPast, NeverEarly
<1>2. CASE Set
  <2>1. TypeOK'
    <3>1. PICK i \in Types, week \in Weeks :
            /\ gScheduleStruct' = [gScheduleStruct EXCEPT ![i].enabled = TRUE,
                                                          ![i].daySlot = week]
            /\ type' = i /\ last' = i
      BY <1>2 DEF Set
    <3>2. week \in Week
      BY WeekAssumption
    <3>3. gScheduleStruct' \in [Types -> [enabled : BOOLEAN, daySlot : Week,
                                          start_t : Nat, end_t : Nat]]
      BY <3>1, <3>2 DEF TypeOK
    <3> QED
      BY <1>2, <3>1, <3>3 DEF Set, TypeOK
  <2>2. NeverEarly'
    BY <1>2 DEF Set, TypeOK, NeverEarly
  <2> QED
    BY <1>2, <2>1, <2>2 DEF Set, NowIsPast
<1>3. ASSUME NEW label \in {"start", "stop"}, Call(label) PROVE IInv'
  BY <1>0, <1>3 DEF Call, TypeOK, NowIsPast, NeverEarly
<1>4. CASE Skip
  <2>1. type' \in Types /\ pc' \in {"idle", "start", "stop"}
    BY <1>4, ContinueInTable DEF Skip
  <2> QED
    BY <1>4, <2>1 DEF Skip, TypeOK, NowIsPast, NeverEarly
<1>5. CASE StopSingle
  <2>1. type' \in Types /\ pc' \in {"idle", "start", "stop"}
    BY <1>5, ContinueInTable DEF StopSingle
  <2> QED
    BY <1>5, <2>1 DEF StopSingle, TypeOK, NowIsPast, NeverEarly
<1>6. CASE ReadNow
  BY <1>6 DEF ReadNow, TypeOK, NowIsPast, NeverEarly
<1>7. CASE ReadPlanNow
  BY <1>7 DEF ReadPlanNow, TypeOK, NowIsPast, NeverEarly
<1>8. CASE Plan
  <2>1. /\ tZero' \in Nat
        /\ gScheduleStruct' = [gScheduleStruct EXCEPT ![type].start_t = PlanStart(tZero'),
                                                      ![type].end_t = PlanEnd(tZero')]
        /\ PlanStart(tZero') \in Nat /\ PlanEnd(tZero') \in Nat
    <3>1. tZero' = today_zero_t(clock) /\ clock \in Nat
      BY <1>8 DEF Plan, TypeOK
    <3> QED
      BY <1>8, <3>1, Midnight, PlanInNat DEF Plan
  <2>2. TypeOK'
    <3>1. gScheduleStruct' \in [Types -> [enabled : BOOLEAN, daySlot : Week,
                                          start_t : Nat, end_t : Nat]]
      BY <2>1 DEF TypeOK
    <3> QED
      BY <1>8, <2>1, <3>1 DEF Plan, TypeOK
  <2>3. NeverEarly'
    BY <1>8, <2>1 DEF Plan, TypeOK, NeverEarly
  <2> QED
    BY <1>8, <2>2, <2>3 DEF Plan, NowIsPast
<1>9. CASE Arm
  <2>1. type' \in Types /\ pc' \in {"idle", "start", "stop"}
    BY <1>9, ContinueInTable DEF Arm
  <2>2. /\ Delay \in Nat /\ clock + Delay \in Nat
        /\ clock + Delay >= gScheduleStruct[type].start_t
    <3>1. Entry.start_t \in Nat /\ now \in Nat /\ clock \in Nat /\ now <= clock
      BY <1>9 DEF Arm, Entry, TypeOK, NowIsPast
    <3> QED
      BY <3>1 DEF Delay, sleepSec, Entry
  <2>3. TypeOK'
    BY <1>9, <2>1, <2>2 DEF Arm, TypeOK
  <2>4. NeverEarly'
    BY <1>9, <2>2 DEF Arm, TypeOK, NeverEarly
  <2> QED
    BY <1>9, <2>1, <2>3, <2>4 DEF NowIsPast
<1>10. CASE Fire
  BY <1>10 DEF Fire, thread, TypeOK, NowIsPast, NeverEarly
<1>11. CASE UNCHANGED vars
  BY <1>11 DEF vars, thread, TypeOK, NowIsPast, NeverEarly
<1> QED
  BY <1>1, <1>2, <1>3, <1>4, <1>5, <1>6, <1>7, <1>8, <1>9, <1>10, <1>11
  DEF Next, Start, Stop

\* It holds in every reachable state.
LEMMA Invariant == Spec => []IInv
BY InitInv, StepInv, PTL DEF Spec

\* The table, the plans and the alarms keep their types for every table and every
\* length of the slots (g_timer/g_schedule.c).
THEOREM TypeCorrect == Spec => []TypeOK
BY Invariant, PTL DEF IInv

\* No alarm expires before its planned start, however the clock moves between the
\* reads of lines 140, 60 and 24 and the setting of the timer (line 151).
THEOREM NoEarlyAlarm == Spec => []NeverEarly
BY Invariant, PTL DEF IInv

-----------------------------------------------------------------------------
(* What is planned *)

\* The plan of the entry being armed is the one made from its week.
Planned == pc = "arm" => Entry.start_t = PlanStart(tZero) /\ Entry.end_t = PlanEnd(tZero)

\* Only the plan itself brings an entry to the arming, and it stores what was found.
LEMMA StepPlanned == IInv /\ Planned /\ [Next]_vars => Planned'
<1> SUFFICES ASSUME IInv, Planned, [Next]_vars, pc' = "arm"
             PROVE  Entry'.start_t = PlanStart(tZero)' /\ Entry'.end_t = PlanEnd(tZero)'
  BY DEF Planned
<1>1. CASE Plan
  <2>1. /\ gScheduleStruct' = [gScheduleStruct EXCEPT ![type].start_t = PlanStart(tZero'),
                                                      ![type].end_t = PlanEnd(tZero')]
        /\ type' = type /\ now_t' = now_t
    BY <1>1 DEF Plan
  <2>2. type \in Types /\ gScheduleStruct \in [Types -> [enabled : BOOLEAN, daySlot : Week,
                                                        start_t : Nat, end_t : Nat]]
    BY DEF IInv, TypeOK
  <2>3. /\ Entry'.start_t = PlanStart(tZero') /\ Entry'.end_t = PlanEnd(tZero')
        /\ Entry'.daySlot = Entry.daySlot
    BY <2>1, <2>2 DEF Entry
  <2>4. Today' = Today
    BY <2>1, <2>3 DEF Today
  <2>5. Found' = Found /\ Asap' = Asap
    BY <2>1, <2>4 DEF Found, Asap
  <2> QED
    BY <2>1, <2>3, <2>4, <2>5 DEF PlanStart, PlanEnd
<1>2. CASE UNCHANGED <<gScheduleStruct, type, now_t, tZero>> /\ pc = "arm"
  BY <1>2 DEF Planned, Entry, PlanStart, PlanEnd, Today, Found, Asap
<1>3. CASE Arm \/ Skip \/ StopSingle
  BY <1>3, ContinueInTable DEF Arm, Skip, StopSingle, IInv
<1> QED
  BY <1>1, <1>2, <1>3
  DEF Next, Tick, Set, Start, Stop, Call, ReadNow, ReadPlanNow, Fire, vars, thread

\* The plan and the day it is made in, in seconds since that day's midnight.
LEMMA PlanInDay ==
  ASSUME TypeOK, Planned, pc = "arm", SameDay
  PROVE  \E n \in Nat, r \in 0 .. DAY - 1 :
           /\ tZero = DAY * n /\ now_t = (DAY * n) + r /\ wday(now_t) = n
           /\ TOMORROW_ZERO_T(now_t) = (DAY * n) + DAY
           /\ TOMORROW_ZERO_T(tZero) = (DAY * n) + DAY
           /\ timeslot_get_offset(now_t) = r \div SLOT_LEN
<1> DEFINE n == wday(now_t)
           r == now_t - tZero
<1>1. now_t \in Nat /\ tZero = today_zero_t(now_t)
  BY DEF TypeOK, SameDay
<1>2. /\ n \in Nat /\ tZero = DAY * n /\ tZero \in Nat /\ tZero <= now_t
      /\ TOMORROW_ZERO_T(now_t) = (DAY * n) + DAY /\ now_t < (DAY * n) + DAY
  BY <1>1, Midnight DEF TOMORROW_ZERO_T
<1> HIDE DEF n
<1>3. r \in 0 .. DAY - 1 /\ now_t = (DAY * n) + r
  BY <1>1, <1>2, DayPositive
<1>4. timeslot_get_offset(now_t) = r \div SLOT_LEN
  BY <1>2, <1>3, InDay
<1>5. wday(tZero) = n
  <2>1. 0 \in 0 .. DAY - 1 /\ (DAY * n) + 0 = DAY * n
    BY <1>2, DayPositive
  <2>2. wday((DAY * n) + 0) = n
    BY <1>2, <2>1, InDay
  <2> QED
    BY <1>2, <2>1, <2>2
<1>6. TOMORROW_ZERO_T(tZero) = (DAY * n) + DAY
  BY <1>2, <1>5, Midnight DEF TOMORROW_ZERO_T
<1> QED
  BY <1>2, <1>3, <1>4, <1>6 DEF n

\* Arithmetic alone: a plan made in one day skips nothing and ends in its run.
LEMMA PlanGood ==
  ASSUME TypeOK, Planned
  PROVE  PlanSkipsNothing /\ EndInRun
<1> SUFFICES ASSUME pc = "arm", SameDay
             PROVE  /\ Entry.start_t \in now_t .. TOMORROW_ZERO_T(now_t)
                    /\ \A t \in now_t .. Entry.start_t - 1 : ~Scheduled(Entry.daySlot, t)
                    /\ Entry.start_t < TOMORROW_ZERO_T(now_t)
                         => Scheduled(Entry.daySlot, Entry.start_t)
                    /\ Found # {} =>
                         \A t \in Entry.start_t .. Entry.end_t - 1 : Scheduled(Entry.daySlot, t)
  BY DEF PlanSkipsNothing, EndInRun
<1>1. PICK n \in Nat, r \in 0 .. DAY - 1 :
        /\ tZero = DAY * n /\ now_t = (DAY * n) + r /\ wday(now_t) = n
        /\ TOMORROW_ZERO_T(now_t) = (DAY * n) + DAY
        /\ TOMORROW_ZERO_T(tZero) = (DAY * n) + DAY
        /\ timeslot_get_offset(now_t) = r \div SLOT_LEN
  BY PlanInDay
<1> DEFINE zero == DAY * n
           slot == r \div SLOT_LEN
           k    == Least(Found)
           l    == LastOfRun(Today, k)
<1>2. /\ zero \in Nat /\ DAY \in Nat \ {0} /\ SLOT_LEN \in Nat \ {0} /\ SLOTS \in Nat \ {0}
      /\ DAY = SLOT_LEN * SLOTS /\ r \in Nat /\ slot \in Slots /\ slot \in Nat
  <2>1. slot \in Slots
    BY InDay
  <2> QED
    BY <2>1, DayPositive, SlotAssumption DEF DAY, Slots
<1>3. Today = Entry.daySlot[n % 7] /\ Today \in DaySlot
  <2>1. n % 7 \in 0 .. 6
    OBVIOUS
  <2> QED
    BY <1>1, <2>1 DEF Today, Entry, TypeOK, Week
\* Being scheduled, in seconds of this day.
<1>4. ASSUME NEW s \in 0 .. DAY - 1
      PROVE  Scheduled(Entry.daySlot, zero + s) <=> s \div SLOT_LEN \in Today
  BY <1>3, <1>4, InDay DEF Scheduled
<1>5. Found = Ahead(Today, slot) /\ (Asap <=> slot \in Today)
  BY <1>1 DEF Found, Asap, timeslot_check
<1>6. /\ Entry.start_t = (IF Asap THEN now_t
                          ELSE IF Found # {} THEN zero + k * SLOT_LEN ELSE zero + DAY)
      /\ Found # {} => Entry.end_t = zero + l * SLOT_LEN
  BY <1>1 DEF Planned, PlanStart, PlanEnd, StartOf, EndOf
<1>7. ASSUME Found # {}
      PROVE  /\ k \in Today /\ k \in slot .. SLOTS - 1 /\ \A j \in slot .. k - 1 : j \notin Today
             /\ l \in k .. SLOTS - 1 /\ \A j \in k .. l : j \in Today
  BY <1>2, <1>3, <1>5, <1>7, FoundSlot, RunOf
<1>8. Asap => Found # {} /\ slot = k
  <2>1. slot \in Today => slot \in Ahead(Today, slot)
    BY <1>2 DEF Ahead, timeslot_check, Slots
  <2> QED
    BY <1>2, <1>5, <1>7, <2>1
<1> HIDE DEF k, l, slot, zero
\* The seconds of the slots from a to b - 1.
<1>9. ASSUME NEW s \in Nat, NEW a \in Nat
      PROVE  /\ a <= s \div SLOT_LEN <=> a * SLOT_LEN <= s
             /\ s \div SLOT_LEN \in Nat
  BY <1>2, <1>9, Quotient
<1>10. ASSUME NEW a \in Nat, a < SLOTS PROVE a * SLOT_LEN < DAY
  <2>1. (SLOTS - a) * SLOT_LEN > 0
    BY <1>2, <1>10
  <2> QED
    BY <1>2, <1>10, <2>1
\* From the slot found on, the run is scheduled to its end.
<1>11. ASSUME Found # {}, NEW t \in zero + k * SLOT_LEN .. zero + l * SLOT_LEN - 1
       PROVE  Scheduled(Entry.daySlot, t)
  <2> DEFINE s == t - zero
             j == s \div SLOT_LEN
  <2>1. k \in Nat /\ l \in Nat /\ l < SLOTS /\ \A i \in k .. l : i \in Today
    BY <1>2, <1>7, <1>11
  <2>2. k * SLOT_LEN \in Nat /\ l * SLOT_LEN \in Nat /\ l * SLOT_LEN < DAY
    BY <1>2, <1>10, <2>1
  <2>3. s \in 0 .. DAY - 1 /\ k * SLOT_LEN <= s /\ ~(l * SLOT_LEN <= s) /\ t = zero + s
    BY <1>2, <1>11, <2>2
  <2> HIDE DEF s
  <2>4. j \in Nat /\ k <= j /\ ~(l <= j)
    BY <1>2, <1>9, <2>1, <2>3
  <2>5. j \in Today
    BY <2>1, <2>4
  <2> QED
    BY <1>4, <2>3, <2>5
\* The seconds of today from now on to a slot b, none of whose slots is scheduled.
<1>12. ASSUME NEW b \in Nat, \A j \in slot .. b - 1 : j \notin Today, b <= SLOTS,
              NEW t \in now_t .. zero + b * SLOT_LEN - 1
       PROVE  ~Scheduled(Entry.daySlot, t)
  <2> DEFINE s == t - zero
             j == s \div SLOT_LEN
  <2>1. b * SLOT_LEN \in Nat /\ b * SLOT_LEN <= DAY
    <3>1. (SLOTS - b) * SLOT_LEN >= 0
      BY <1>2, <1>12
    <3> QED
      BY <1>2, <3>1
  <2>2. now_t = zero + r
    BY <1>1 DEF zero
  <2>3. s \in 0 .. DAY - 1 /\ r <= s /\ ~(b * SLOT_LEN <= s) /\ t = zero + s
    BY <1>2, <1>12, <2>1, <2>2
  <2>4. slot * SLOT_LEN <= r
    <3>1. slot <= slot /\ slot = r \div SLOT_LEN
      BY <1>2 DEF slot
    <3> QED
      BY <1>2, <1>9, <3>1
  <2> HIDE DEF s
  <2>5. slot * SLOT_LEN <= s
    BY <1>2, <2>3, <2>4
  <2>6. j \in Nat /\ slot <= j /\ ~(b <= j)
    BY <1>2, <1>9, <2>3, <2>5
  <2>7. j \notin Today
    BY <1>2, <1>12, <2>6
  <2> QED
    BY <1>4, <2>3, <2>7
<1>13. /\ now_t = zero + r /\ now_t \in Nat /\ TOMORROW_ZERO_T(now_t) = zero + DAY
       /\ now_t < zero + DAY
  BY <1>1, <1>2 DEF zero
<1>14. CASE Asap
  <2>1. /\ Entry.start_t = now_t /\ slot \in Today /\ Found # {} /\ slot = k
        /\ Entry.end_t = zero + l * SLOT_LEN
    BY <1>5, <1>6, <1>8, <1>14
  <2>2. slot * SLOT_LEN <= r /\ slot * SLOT_LEN \in Nat
    <3>1. slot <= slot /\ slot = r \div SLOT_LEN
      BY <1>2 DEF slot
    <3> QED
      BY <1>2, <1>9, <3>1
  <2>3. l * SLOT_LEN \in Nat
    BY <1>2, <1>7, <2>1
  <2>4. Scheduled(Entry.daySlot, now_t)
    <3>1. r \div SLOT_LEN \in Today
      BY <2>1 DEF slot
    <3> QED
      BY <1>4, <1>13, <3>1
  <2>5. ASSUME NEW t \in Entry.start_t .. Entry.end_t - 1
        PROVE  t \in zero + k * SLOT_LEN .. zero + l * SLOT_LEN - 1
    BY <1>2, <1>13, <2>1, <2>2, <2>3
  <2>6. \A t \in Entry.start_t .. Entry.end_t - 1 : Scheduled(Entry.daySlot, t)
    BY <1>11, <2>1, <2>5
  <2> QED
    BY <1>2, <1>13, <2>1, <2>4, <2>6
<1>15. CASE ~Asap /\ Found # {}
  <2>1. /\ k \in Nat /\ k \in Today /\ k < SLOTS /\ slot < k
        /\ \A j \in slot .. k - 1 : j \notin Today
    BY <1>2, <1>5, <1>7, <1>15
  <2>2. Entry.start_t = zero + k * SLOT_LEN /\ Entry.end_t = zero + l * SLOT_LEN
    BY <1>6, <1>15
  <2>3. k * SLOT_LEN \in Nat /\ k * SLOT_LEN < DAY
    BY <1>2, <1>10, <2>1
  <2>4. r < k * SLOT_LEN
    <3>1. ~(k <= r \div SLOT_LEN)
      BY <1>2, <2>1 DEF slot
    <3> QED
      BY <1>2, <1>9, <2>1, <2>3, <3>1
  <2>5. ASSUME NEW t \in now_t .. Entry.start_t - 1 PROVE ~Scheduled(Entry.daySlot, t)
    <3>1. t \in now_t .. zero + k * SLOT_LEN - 1 /\ k <= SLOTS
      BY <1>2, <2>1, <2>2
    <3> QED
      BY <1>12, <2>1, <3>1
  <2>6. ASSUME NEW t \in Entry.start_t .. Entry.end_t - 1 PROVE Scheduled(Entry.daySlot, t)
    <3>1. l * SLOT_LEN \in Nat /\ k * SLOT_LEN \in Nat
      BY <1>2, <1>7, <1>15, <2>3
    <3>2. t \in zero + k * SLOT_LEN .. zero + l * SLOT_LEN - 1
      BY <1>2, <2>2, <2>6, <3>1
    <3> QED
      BY <1>11, <1>15, <3>2
  <2>7. Scheduled(Entry.daySlot, Entry.start_t)
    <3> DEFINE s == k * SLOT_LEN
    <3>1. (SLOT_LEN * k + 0) \div SLOT_LEN = k
      BY <1>2, <2>1, Division
    <3>2. s \in 0 .. DAY - 1 /\ SLOT_LEN * k + 0 = s
      BY <1>2, <2>1, <2>3
    <3>3. s \div SLOT_LEN = k
      BY <3>1, <3>2
    <3> HIDE DEF s
    <3> QED
      BY <1>4, <2>1, <2>2, <3>2, <3>3 DEF s
  <2>8. Entry.start_t \in now_t .. TOMORROW_ZERO_T(now_t)
    BY <1>2, <1>13, <2>2, <2>3, <2>4
  <2> QED
    BY <2>5, <2>6, <2>7, <2>8
<1>16. CASE ~Asap /\ Found = {}
  <2>1. Entry.start_t = zero + DAY
    BY <1>6, <1>16
  <2>2. \A j \in slot .. SLOTS - 1 : j \notin Today
    BY <1>5, <1>16 DEF Ahead, timeslot_check
  <2>3. \A t \in now_t .. Entry.start_t - 1 : ~Scheduled(Entry.daySlot, t)
    BY <1>2, <1>12, <2>1, <2>2
  <2> QED
    BY <1>2, <1>13, <1>16, <2>1, <2>3
<1> QED
  BY <1>14, <1>15, <1>16

\* A plan made in one day skips nothing: no second between the read of the clock and the
\* planned start is scheduled, and the planned start is scheduled itself or is the next
\* midnight (g_timer/g_schedule.c:57-84).
THEOREM NothingSkipped == Spec => []PlanSkipsNothing
<1>1. Init => Planned
  BY DEF Init, Planned
<1>2. IInv /\ Planned => PlanSkipsNothing
  BY PlanGood DEF IInv
<1> QED
  BY <1>1, <1>2, Invariant, StepPlanned, PTL DEF Spec

\* The planned end lies in the run of slots of the planned start
\* (g_timer/g_schedule.c:32-55).
THEOREM EndsInItsRun == Spec => []EndInRun
<1>1. Init => Planned
  BY DEF Init, Planned
<1>2. IInv /\ Planned => EndInRun
  BY PlanGood DEF IInv
<1> QED
  BY <1>1, <1>2, Invariant, StepPlanned, PTL DEF Spec
==============================================================================
