---------------------------- MODULE DaySlotProofs ----------------------------
(***************************************************************************)
(* Lemmas about the arithmetic of day slots, for every number and length   *)
(* of the slots: what the proofs about both schedules rest on.             *)
(***************************************************************************)
EXTENDS DaySlots, WellFoundedInduction, TLAPS

-----------------------------------------------------------------------------
(* Numbers *)

\* The least element of a set of numbers.
LEMMA LeastOf ==
  ASSUME NEW S \in SUBSET Nat, S # {}
  PROVE  Least(S) \in S /\ \A k \in S : Least(S) <= k
<1>1. PICK k \in S : \A j \in S : ~(<<j, k>> \in OpToRel(<, Nat))
  BY NatLessThanWellFounded, WFMin
<1>2. \A j \in Nat : j < k => <<j, k>> \in OpToRel(<, Nat)
  BY DEF OpToRel
<1>3. \A j \in S : ~(j < k)
  BY <1>1, <1>2
<1>4. \A j \in S : k <= j
  BY <1>3
<1> QED
  BY <1>4 DEF Least

\* Quotient and remainder of D * n + r.
LEMMA Division ==
  ASSUME NEW D \in Nat \ {0}, NEW n \in Nat, NEW r \in 0 .. D - 1
  PROVE  ((D * n) + r) \div D = n /\ ((D * n) + r) % D = r
<1> DEFINE t == (D * n) + r
           q == t \div D
           m == t % D
<1>1. t \in Nat
  OBVIOUS
<1>2. q \in Nat /\ m \in 0 .. D - 1 /\ t = (D * q) + m
  <2> HIDE DEF t
  <2> QED
    BY <1>1
<1>3. D * (n - q) = m - r
  BY <1>2
<1> HIDE DEF q, m, t
<1>4. ~(n - q >= 1)
  <2> SUFFICES ASSUME n - q >= 1 PROVE FALSE
    OBVIOUS
  <2>1. D * (n - q) >= D
    BY <1>2
  <2> QED
    BY <1>2, <1>3, <2>1
<1>5. ~(q - n >= 1)
  <2> SUFFICES ASSUME q - n >= 1 PROVE FALSE
    OBVIOUS
  <2>1. D * (q - n) >= D
    BY <1>2
  <2>2. D * (q - n) = r - m
    BY <1>2, <1>3
  <2> QED
    BY <1>2, <2>1, <2>2
<1>6. q = n
  BY <1>2, <1>4, <1>5
<1> QED
  BY <1>2, <1>3, <1>6 DEF q, m, t

\* A number is at least a * D exactly when its quotient is at least a.
LEMMA Quotient ==
  ASSUME NEW D \in Nat \ {0}, NEW r \in Nat, NEW a \in Nat
  PROVE  D * a <= r <=> a <= r \div D
<1> DEFINE q == r \div D
           m == r % D
<1>1. q \in Nat /\ m \in 0 .. D - 1 /\ r = (D * q) + m
  OBVIOUS
<1> HIDE DEF q, m
<1>2. ASSUME a <= q PROVE D * a <= r
  <2>1. D * (q - a) >= 0
    BY <1>1, <1>2
  <2> QED
    BY <1>1, <2>1
<1>3. ASSUME ~(a <= q) PROVE ~(D * a <= r)
  <2>1. D * (a - q) >= D
    BY <1>1, <1>3
  <2> QED
    BY <1>1, <2>1
<1> QED
  BY <1>2, <1>3 DEF q

-----------------------------------------------------------------------------
(* Days and slots *)

\* A day has seconds.
LEMMA DayPositive == DAY \in Nat \ {0}
  BY SlotAssumption DEF DAY

\* The midnights around a second.
LEMMA Midnight ==
  ASSUME NEW t \in Nat
  PROVE  /\ today_zero_t(t) \in Nat /\ TOMORROW_ZERO_T(t) \in Nat /\ wday(t) \in Nat
         /\ today_zero_t(t) <= t /\ t < TOMORROW_ZERO_T(t)
         /\ today_zero_t(t) = DAY * wday(t)
<1>1. /\ t = (DAY * (t \div DAY)) + (t % DAY)
      /\ t % DAY \in 0 .. DAY - 1 /\ t \div DAY \in Nat
  BY DayPositive
<1> QED
  BY <1>1, DayPositive DEF today_zero_t, TOMORROW_ZERO_T, wday

\* The day of a second is one of the week.
LEMMA DayInWeek == \A t \in Nat : wday(t) % 7 \in 0 .. 6
<1> SUFFICES ASSUME NEW t \in Nat PROVE wday(t) % 7 \in 0 .. 6
  OBVIOUS
<1>1. wday(t) \in Nat
  BY Midnight
<1> QED
  BY <1>1

\* The slot of a second.
LEMMA Offset ==
  ASSUME NEW t \in Nat
  PROVE  timeslot_get_offset(t) \in Slots
<1> DEFINE r == t % DAY
           q == r \div SLOT_LEN
<1>1. r \in Nat /\ r < SLOTS * SLOT_LEN
  BY DayPositive DEF DAY
<1>2. q \in Nat /\ SLOT_LEN * q <= r
  <2> HIDE DEF r
  <2> QED
    BY <1>1, SlotAssumption
<1>3. q < SLOTS
  <2> HIDE DEF q, r
  <2> QED
    BY <1>1, <1>2, SlotAssumption
<1> QED
  BY <1>2, <1>3, SlotAssumption DEF timeslot_get_offset, Slots

\* The search finds slots of the day, from the current one on.
LEMMA FoundSlot ==
  ASSUME NEW daySlot \in DaySlot, NEW slot \in Slots, Ahead(daySlot, slot) # {}
  PROVE  LET k == Least(Ahead(daySlot, slot))
         IN  /\ k \in daySlot /\ k \in slot .. SLOTS - 1
             /\ \A j \in slot .. k - 1 : j \notin daySlot
<1>1. Ahead(daySlot, slot) \in SUBSET Nat
  BY SlotAssumption DEF Ahead, Slots
<1> DEFINE k == Least(Ahead(daySlot, slot))
<1>2. k \in Ahead(daySlot, slot) /\ \A j \in Ahead(daySlot, slot) : k <= j
  BY <1>1, LeastOf
<1> HIDE DEF k
<1>3. k \in daySlot /\ k \in slot .. SLOTS - 1
  BY <1>2 DEF Ahead, timeslot_check
<1>4. ASSUME NEW j \in slot .. k - 1 PROVE j \notin daySlot
  BY <1>2, <1>3, <1>4, SlotAssumption DEF Ahead, timeslot_check, Slots
<1> QED
  BY <1>3, <1>4 DEF k

\* The end it plans is in the run of the slot it found.
LEMMA RunOf ==
  ASSUME NEW daySlot \in DaySlot, NEW k \in daySlot
  PROVE  /\ LastOfRun(daySlot, k) \in k .. SLOTS - 1
         /\ \A j \in k .. LastOfRun(daySlot, k) : j \in daySlot
<1> DEFINE ends == {j \in k .. SLOTS - 1 : ~timeslot_check(daySlot, j + 1)}
           l    == LastOfRun(daySlot, k)
<1>1. k \in Slots /\ SLOTS \notin daySlot
  BY SlotAssumption DEF DaySlot, Slots
<1>2. ends \in SUBSET Nat
  BY <1>1, SlotAssumption DEF Slots
<1>3. SLOTS - 1 \in ends
  BY <1>1, SlotAssumption DEF Slots, timeslot_check
<1>4. l \in ends /\ \A j \in ends : l <= j
  BY <1>2, <1>3, LeastOf DEF LastOfRun
<1>5. l \in k .. SLOTS - 1
  BY <1>4
<1>6. ASSUME NEW j \in k .. l PROVE j \in daySlot
  <2>1. CASE j = k
    BY <2>1
  <2>2. CASE j > k
    <3>1. j - 1 \in k .. SLOTS - 1 /\ j - 1 < l
      BY <1>1, <1>5, <2>2, SlotAssumption DEF Slots
    <3>2. j - 1 \notin ends
      BY <1>4, <3>1
    <3>3. (j - 1) + 1 = j
      BY <1>1 DEF Slots
    <3> QED
      BY <3>1, <3>2, <3>3 DEF timeslot_check
  <2> QED
    BY <1>1, <2>1, <2>2 DEF Slots
<1> QED
  BY <1>5, <1>6

\* Where the second r of day n lies.
LEMMA InDay ==
  ASSUME NEW n \in Nat, NEW r \in 0 .. DAY - 1
  PROVE  /\ wday((DAY * n) + r) = n
         /\ timeslot_get_offset((DAY * n) + r) = r \div SLOT_LEN
         /\ r \div SLOT_LEN \in Slots
<1>1. ((DAY * n) + r) \div DAY = n /\ ((DAY * n) + r) % DAY = r
  BY DayPositive, Division
<1>2. (DAY * n) + r \in Nat
  BY DayPositive
<1>3. timeslot_get_offset((DAY * n) + r) = r \div SLOT_LEN
  BY <1>1 DEF timeslot_get_offset
<1> QED
  BY <1>1, <1>2, <1>3, Offset DEF wday
=============================================================================
