---------------------------- MODULE DaySlotBits ----------------------------
(***************************************************************************)
(* The loops of g_timer/g_schedule.c (and of g_schedule/tmp/g_schedule.c)  *)
(* as the code writes them, on a word whose highest bit is slot 0: the     *)
(* search of the next slot, its number, and the end of its run.  They are  *)
(* the reference DaySlots is compared with.                                *)
(***************************************************************************)
EXTENDS DaySlots, Bitwise, FiniteSetsExt

INITIAL_SPOT == 2 ^ (SLOTS - 1)

Offset(slot)  == INITIAL_SPOT \div 2 ^ slot
Word(daySlot) == MapThenSumSet(Offset, daySlot)

\* while( tsOffset > 0 ){ if( timeslot_check( .. ) ) ..; tsOffset>>=1; }
NextOffset(word, from) ==
  LET search[off \in 0 .. INITIAL_SPOT] ==
        IF off = 0 \/ (word & off) = off THEN off ELSE search[off \div 2]
  IN  search[from]

\* while( INITIAL_SPOT != offset ){ offset<<=1; i++; }
Place(offset) ==
  LET shifts[off \in 1 .. INITIAL_SPOT] ==
        IF off = INITIAL_SPOT THEN 0 ELSE 1 + shifts[2 * off]
  IN  shifts[offset]

\* for(j=i; j<48; j++){ offset>>=1; if( (wday & offset) == 0 ) break; }
Last(word, i, offset) ==
  LET run[j \in Nat, off \in Nat] ==
        IF j >= SLOTS \/ (word & (off \div 2)) = 0 THEN j ELSE run[j + 1, off \div 2]
  IN  run[i, offset]

\* The sets and minima of DaySlots are what the loops compute, from every slot of every day.
LoopsAgree ==
  \A day \in DaySlot, k \in Slots :
    LET found == NextOffset(Word(day), Offset(k))
    IN  /\ timeslot_check(day, k) <=> (Word(day) & Offset(k)) = Offset(k)
        /\ found = 0 <=> Ahead(day, k) = {}
        /\ found # 0 => /\ Place(found) = Least(Ahead(day, k))
                        /\ Last(Word(day), Place(found), found)
                             = LastOfRun(day, Least(Ahead(day, k)))
=============================================================================
