---------------------------- MODULE GTimerProofs ----------------------------
(***************************************************************************)
(* Theorems about the timers, for every size of the table, every set of    *)
(* threads and callers and every number of calls.                          *)
(*                                                                         *)
(* IInv strengthens the type invariant: a thread inside a call works on a  *)
(* timer of the table, and a frame of the handler belongs to one.          *)
(* LateInv is for late callbacks, OnceInv for timers that fire once,       *)
(* PairInv for what a callback runs with.                                  *)
(***************************************************************************)
EXTENDS GTimer, FiniteSetTheorems, TLAPS

CallType    == [num : Timers \cup {None}, func : Funcs \cup {None},
                arg : Args \cup Timers \cup {None}, repeat : BOOLEAN]
HandlerType == [timer : Timers \cup {None}, func : Funcs \cup {None},
                arg : Args \cup {None}, at : {"out", "enter", "callback", "end"}]

\* A thread in g_timer_set works on a timer of the table and has a callback for it;
\* one in g_timer_start or g_timer_stop has not passed the last timer it visits.
CallOK(t) ==
  /\ pc[t] \in {"fill", "settime"} =>
       call[t].num \in Timers /\ call[t].func \in Funcs /\ call[t].arg \in Args
  /\ pc[t] \in {"start", "stop"} =>
       call[t].num \in Timers /\ call[t].arg \in Timers /\ call[t].num <= call[t].arg

FrameOK(t) == handler[t].at # "out" => handler[t].timer \in Timers

IInv ==
  /\ TypeOK
  /\ call \in [Threads -> CallType] /\ handler \in [Threads -> HandlerType]
  /\ \A t \in Threads : CallOK(t) /\ FrameOK(t)

-----------------------------------------------------------------------------
(* Type correctness *)

\* The invariant holds after g_timer_init.
LEMMA IInvInit == Init => IInv
<1> SUFFICES ASSUME Init PROVE IInv
  OBVIOUS
<1>1. TypeOK
  BY TimerAssumption DEF Init, TypeOK, NoCall, NoFrame
<1>2. call \in [Threads -> CallType] /\ handler \in [Threads -> HandlerType]
  BY DEF Init, NoCall, NoFrame, CallType, HandlerType
<1>3. \A t \in Threads : CallOK(t) /\ FrameOK(t)
  BY DEF Init, NoFrame, CallOK, FrameOK
<1> QED
  BY <1>1, <1>2, <1>3 DEF IInv

\* An expiry or a delivery keeps it.
LEMMA KernelSteps ==
  ASSUME IInv, NEW i \in Timers, NEW t \in Threads, Expire(i) \/ Deliver(t, i)
  PROVE  IInv'
<1>1. CASE Expire(i)
  BY <1>1 DEF IInv, TypeOK, Expire, threads, history, CallOK, FrameOK
<1>2. CASE Deliver(t, i)
  <2>1. TypeOK'
    BY <1>2 DEF IInv, TypeOK, Deliver, NoFrame, history
  <2>2. handler' \in [Threads -> HandlerType]
    BY <1>2 DEF IInv, Deliver, NoFrame, HandlerType
  <2>3. \A u \in Threads : CallOK(u)' /\ FrameOK(u)'
    BY <1>2 DEF IInv, Deliver, NoFrame, CallOK, FrameOK, HandlerType
  <2> QED
    BY <1>2, <2>1, <2>2, <2>3 DEF IInv, Deliver
<1> QED
  BY <1>1, <1>2

\* The handler keeps it, on whatever thread.
LEMMA HandlerSteps ==
  ASSUME IInv, NEW t \in Threads, HandlerStep(t)
  PROVE  IInv'
<1>1. CASE HandlerCall(t)
  <2>1. handler[t].timer \in Timers
    BY <1>1 DEF IInv, HandlerCall, FrameOK
  <2>2. timerStruct[handler[t].timer].func \in Funcs \cup {None}
    BY <2>1 DEF IInv, TypeOK
  <2>3. handler' \in [Threads -> HandlerType]
    BY <1>1, <2>2 DEF IInv, HandlerCall, HandlerType
  <2>4. \A u \in Threads : handler'[u].timer = handler[u].timer
    BY <1>1 DEF IInv, HandlerCall, HandlerType
  <2>5. process' \in {"running", "null", "outside"} /\ since' \in [Timers -> Nat]
    BY <1>1, <2>1 DEF IInv, TypeOK, HandlerCall
  <2>6. TypeOK'
    BY <1>1, <2>4, <2>5 DEF IInv, TypeOK, HandlerCall, table
  <2>7. \A u \in Threads : CallOK(u)' /\ FrameOK(u)'
    BY <1>1, <2>1 DEF IInv, HandlerCall, HandlerType, CallOK, FrameOK
  <2> QED
    BY <1>1, <2>3, <2>6, <2>7 DEF IInv, HandlerCall
<1>2. CASE CallbackArg(t)
  <2>1. handler[t].timer \in Timers
    BY <1>2 DEF IInv, CallbackArg, FrameOK
  <2>2. timerStruct[handler[t].timer].arg \in Args \cup {None}
    BY <2>1 DEF IInv, TypeOK
  <2>3. handler' \in [Threads -> HandlerType]
    BY <1>2, <2>2 DEF IInv, CallbackArg, HandlerType
  <2>4. \A u \in Threads : handler'[u].timer = handler[u].timer
    BY <1>2 DEF IInv, CallbackArg, HandlerType
  <2>5. TypeOK'
    BY <1>2, <2>4 DEF IInv, TypeOK, CallbackArg, table, history
  <2>6. \A u \in Threads : CallOK(u)' /\ FrameOK(u)'
    BY <1>2, <2>1 DEF IInv, CallbackArg, HandlerType, CallOK, FrameOK
  <2> QED
    BY <1>2, <2>3, <2>5, <2>6 DEF IInv, CallbackArg
<1>3. CASE HandlerReturn(t)
  <2>1. handler' \in [Threads -> HandlerType]
    BY <1>3 DEF IInv, HandlerReturn, HandlerType, NoFrame
  <2>2. TypeOK'
    BY <1>3 DEF IInv, TypeOK, HandlerReturn, HandlerType, NoFrame, table, history
  <2>3. \A u \in Threads : CallOK(u)' /\ FrameOK(u)'
    BY <1>3 DEF IInv, HandlerReturn, HandlerType, NoFrame, CallOK, FrameOK
  <2> QED
    BY <1>3, <2>1, <2>2, <2>3 DEF IInv, HandlerReturn
<1> QED
  BY <1>1, <1>2, <1>3 DEF HandlerStep

\* Finitely many threads are in the handler.
LEMMA EnteredFinite == \A i : IsFiniteSet(Entered(i)) /\ Cardinality(Entered(i)) \in Nat
<1> TAKE i
<1>1. Entered(i) \subseteq Threads
  BY DEF Entered
<1> QED
  BY <1>1, TimerAssumption, FS_Subset, FS_CardinalityType

\* g_timer_set keeps it, also when its number leaves the table.
LEMMA SetSteps ==
  ASSUME IInv, NEW t \in Threads, SetCall(t) \/ SetField(t) \/ SetInterval(t) \/ SetStart(t)
  PROVE  IInv'
<1>1. CASE SetCall(t)
  <2>1. calls' \in 0 .. MaxCalls
    BY <1>1, TimerAssumption DEF IInv, TypeOK, SetCall
  <2>2. PICK num \in Nums, f \in Funcs, a \in Args, r \in BOOLEAN :
          \/ UNCHANGED <<pc, call, given, reset>> /\ process' \in {process, "outside"}
          \/ /\ num \in Timers /\ Goto(t, "fill") /\ UNCHANGED process
             /\ call' = [call EXCEPT ![t] = [num |-> num, func |-> f, arg |-> a, repeat |-> r]]
             /\ given' = [given EXCEPT ![num] = @ \cup {<<f, a>>}]
             /\ reset' \in {reset, reset \cup {num}}
    BY <1>1 DEF SetCall
  <2>3. CASE UNCHANGED <<pc, call, given, reset>> /\ process' \in {process, "outside"}
    BY <1>1, <2>1, <2>3 DEF IInv, TypeOK, SetCall, table, CallOK, FrameOK
  <2>4. CASE num \in Timers /\ Goto(t, "fill") /\ UNCHANGED process
             /\ call' = [call EXCEPT ![t] = [num |-> num, func |-> f, arg |-> a, repeat |-> r]]
             /\ given' = [given EXCEPT ![num] = @ \cup {<<f, a>>}]
             /\ reset' \in {reset, reset \cup {num}}
    <3>1. call' \in [Threads -> CallType]
      BY <2>4 DEF IInv, CallType
    <3>2. given' \in [Timers -> SUBSET (Funcs \X Args)] /\ reset' \subseteq Timers
      BY <2>4 DEF IInv, TypeOK
    <3>3. TypeOK'
      BY <1>1, <2>1, <2>4, <3>1, <3>2 DEF IInv, TypeOK, SetCall, table, Goto, CallType
    <3>4. \A u \in Threads : CallOK(u)' /\ FrameOK(u)'
      BY <1>1, <2>4 DEF IInv, TypeOK, SetCall, Goto, CallOK, FrameOK
    <3> QED
      BY <1>1, <3>1, <3>3, <3>4 DEF IInv, SetCall
  <2> QED
    BY <2>2, <2>3, <2>4
<1>2. CASE SetField(t)
  <2>1. /\ call[t].num \in Timers
        /\ Filled(t) \in [enabled : BOOLEAN, interval : BOOLEAN,
                         func : Funcs \cup {None}, arg : Args \cup {None}]
    <3>1. call[t].num \in Timers /\ call[t].func \in Funcs /\ call[t].arg \in Args
      BY <1>2 DEF IInv, SetField, At, CallOK
    <3>2. timerStruct[call[t].num] \in [enabled : BOOLEAN, interval : BOOLEAN,
                                      func : Funcs \cup {None}, arg : Args \cup {None}]
      BY <3>1 DEF IInv, TypeOK
    <3> QED
      BY <3>1, <3>2 DEF Filled
  <2>2. timerStruct' \in [Timers -> [enabled : BOOLEAN, interval : BOOLEAN,
                                   func : Funcs \cup {None}, arg : Args \cup {None}]]
    <3>1. PICK field \in {"enabled", "func", "arg"} :
            timerStruct' = [timerStruct EXCEPT ![call[t].num][field] = Filled(t)[field]]
      BY <1>2 DEF SetField
    <3>2. timerStruct \in [Timers -> [enabled : BOOLEAN, interval : BOOLEAN,
                                     func : Funcs \cup {None}, arg : Args \cup {None}]]
      BY DEF IInv, TypeOK
    <3>3. CASE field = "enabled"
      BY <2>1, <3>1, <3>3, <3>2
    <3>4. CASE field = "func"
      BY <2>1, <3>1, <3>4, <3>2
    <3>5. CASE field = "arg"
      BY <2>1, <3>1, <3>5, <3>2
    <3> QED
      BY <3>1, <3>3, <3>4, <3>5
  <2> QED
    BY <1>2, <2>2 DEF IInv, TypeOK, SetField, threads, history, CallOK, FrameOK
<1>3. CASE SetInterval(t)
  <2>1. call[t].num \in Timers /\ call[t].repeat \in BOOLEAN
    BY <1>3 DEF IInv, SetInterval, At, CallOK, CallType
  <2>2. timerStruct' \in [Timers -> [enabled : BOOLEAN, interval : BOOLEAN,
                                   func : Funcs \cup {None}, arg : Args \cup {None}]]
    <3>1. timerStruct' = [timerStruct EXCEPT ![call[t].num].interval = call[t].repeat]
      BY <1>3 DEF SetInterval
    <3>2. timerStruct \in [Timers -> [enabled : BOOLEAN, interval : BOOLEAN,
                                     func : Funcs \cup {None}, arg : Args \cup {None}]]
      BY DEF IInv, TypeOK
    <3> QED
      BY <2>1, <3>1, <3>2
  <2>3. TypeOK'
    BY <1>3, <2>2 DEF IInv, TypeOK, SetInterval, Goto, history
  <2>4. \A u \in Threads : CallOK(u)' /\ FrameOK(u)'
    BY <1>3 DEF IInv, TypeOK, SetInterval, At, Goto, history, CallOK, FrameOK
  <2> QED
    BY <1>3, <2>3, <2>4 DEF IInv, SetInterval
<1>4. CASE SetStart(t)
  <2>1. call' \in [Threads -> CallType]
    BY <1>4 DEF IInv, SetStart, NoCall, CallType
  <2>2. call[t].num \in Timers
    BY <1>4 DEF IInv, SetStart, At, CallOK
  <2>3. /\ kernel' \in [Timers -> {"off", "once", "repeat"}] /\ pending' \subseteq Timers
        /\ asked' \in [Timers -> {"off", "once", "repeat"}]
        /\ since' \in [Timers -> Nat] /\ owed' \in [Timers -> Nat]
    <3>1. CASE timerStruct[call[t].num].enabled
      <4>1. Settime(call[t].num, How(call[t].num), Kind(call[t].repeat))
        BY <1>4, <3>1 DEF SetStart
      <4>2. {How(call[t].num), Kind(call[t].repeat)} \subseteq {"once", "repeat"}
        BY DEF How, Kind
      <4> QED
        BY <2>2, <4>1, <4>2, EnteredFinite DEF IInv, TypeOK, Settime
    <3>2. CASE ~timerStruct[call[t].num].enabled
      BY <1>4, <3>2 DEF IInv, TypeOK, SetStart
    <3> QED
      BY <3>1, <3>2
  <2>4. TypeOK'
    BY <1>4, <2>1, <2>3 DEF IInv, TypeOK, SetStart, Goto, CallType, NoCall
  <2>5. \A u \in Threads : CallOK(u)' /\ FrameOK(u)'
    BY <1>4 DEF IInv, TypeOK, SetStart, Goto, CallOK, FrameOK
  <2> QED
    BY <1>4, <2>1, <2>4, <2>5 DEF IInv, SetStart
<1> QED
  BY <1>1, <1>2, <1>3, <1>4

\* A call of g_timer_start or g_timer_stop keeps it, whatever its number.
LEMMA RangeCallStep ==
  ASSUME IInv, NEW t \in Threads, NEW label \in {"start", "stop"}, RangeCall(t, label)
  PROVE  IInv'
<1>1. calls' \in 0 .. MaxCalls
  BY TimerAssumption DEF IInv, TypeOK, RangeCall
<1>2. CASE process' = "outside" /\ UNCHANGED <<pc, call>>
  BY <1>1, <1>2 DEF IInv, TypeOK, RangeCall, table, history, CallOK, FrameOK
<1>3. ASSUME NEW first \in Timers, NEW last \in Timers, first <= last,
             Goto(t, label), UNCHANGED process,
             call' = [call EXCEPT ![t] = [num |-> first, func |-> None, arg |-> last,
                                          repeat |-> FALSE]]
      PROVE  IInv'
  <2>1. call' \in [Threads -> CallType]
    BY <1>3 DEF IInv, CallType
  <2>2. TypeOK'
    BY <1>1, <1>3, <2>1 DEF IInv, TypeOK, RangeCall, Goto, table, history, CallType
  <2>3. \A u \in Threads : CallOK(u)' /\ FrameOK(u)'
    BY <1>3 DEF IInv, TypeOK, RangeCall, Goto, CallOK, FrameOK
  <2> QED
    BY <2>1, <2>2, <2>3 DEF IInv, RangeCall
<1>4. PICK num \in Nums :
        IF num \notin Timers \cup {-1}
        THEN process' = "outside" /\ UNCHANGED <<pc, call>>
        ELSE /\ Goto(t, label) /\ UNCHANGED process
             /\ call' = [call EXCEPT ![t] =
                  [num |-> IF num = -1 THEN 0 ELSE num, func |-> None,
                   arg |-> IF num = -1 THEN GTIMER_MAX - 1 ELSE num, repeat |-> FALSE]]
  BY DEF RangeCall
<1>5. 0 \in Timers /\ GTIMER_MAX - 1 \in Timers /\ 0 <= GTIMER_MAX - 1 /\ -1 \notin Timers
  BY TimerAssumption DEF Timers
<1>6. CASE num = -1
  BY <1>3, <1>4, <1>5, <1>6
<1>7. CASE num \in Timers
  <2>1. num <= num /\ num # -1
    BY <1>5, <1>7 DEF Timers
  <2> QED
    BY <1>3, <1>4, <1>7, <2>1
<1> QED
  BY <1>2, <1>4, <1>6, <1>7

\* One turn of their loops keeps it.
LEMMA VisitStep ==
  ASSUME IInv, NEW t \in Threads, NEW label \in {"start", "stop"},
         NEW how \in {"off", "once", "repeat"}, NEW ask \in {"off", "once", "repeat"},
         Visit(t, label, how, ask)
  PROVE  IInv'
<1>1. call[t].num \in Timers /\ call[t].arg \in Timers /\ call[t].num <= call[t].arg
  BY DEF IInv, Visit, At, CallOK
<1>2. /\ kernel' \in [Timers -> {"off", "once", "repeat"}] /\ pending' \subseteq Timers
      /\ asked' \in [Timers -> {"off", "once", "repeat"}]
      /\ since' \in [Timers -> Nat] /\ owed' \in [Timers -> Nat]
  <2>1. CASE timerStruct[call[t].num].enabled
    <3>1. Settime(call[t].num, how, ask)
      BY <2>1 DEF Visit
    <3> QED
      BY <1>1, <3>1, EnteredFinite DEF IInv, TypeOK, Settime
  <2>2. CASE ~timerStruct[call[t].num].enabled
    BY <2>2 DEF IInv, TypeOK, Visit
  <2> QED
    BY <2>1, <2>2
<1>3. CASE Last(t)
  <2>1. call' = [call EXCEPT ![t] = NoCall] /\ Goto(t, "idle")
    BY <1>3 DEF Visit
  <2>2. call' \in [Threads -> CallType]
    BY <2>1 DEF IInv, NoCall, CallType
  <2>3. TypeOK'
    BY <1>2, <2>1, <2>2 DEF IInv, TypeOK, Visit, Goto, CallType
  <2>4. \A u \in Threads : CallOK(u)' /\ FrameOK(u)'
    BY <2>1 DEF IInv, TypeOK, Visit, Goto, CallOK, FrameOK
  <2> QED
    BY <2>2, <2>3, <2>4 DEF IInv, Visit
<1>4. CASE ~Last(t)
  <2>1. call' = [call EXCEPT ![t].num = call[t].num + 1] /\ UNCHANGED pc
    BY <1>4 DEF Visit
  <2>2. call[t].num + 1 \in Timers /\ call[t].num + 1 <= call[t].arg
    BY <1>1, <1>4, TimerAssumption DEF Last, Timers
  <2>3. call' \in [Threads -> CallType]
    BY <2>1, <2>2 DEF IInv, CallType
  <2>4. TypeOK'
    BY <1>2, <2>1, <2>3 DEF IInv, TypeOK, Visit, CallType
  <2>5. \A u \in Threads : CallOK(u)' /\ FrameOK(u)'
    BY <1>1, <2>1, <2>2 DEF IInv, TypeOK, Visit, At, CallOK, FrameOK, CallType
  <2> QED
    BY <2>3, <2>4, <2>5 DEF IInv, Visit
<1> QED
  BY <1>3, <1>4

\* Every step keeps it.
LEMMA IInvNext == IInv /\ [Next]_vars => IInv'
<1> SUFFICES ASSUME IInv, [Next]_vars PROVE IInv'
  OBVIOUS
<1>1. CASE UNCHANGED vars
  BY <1>1 DEF IInv, TypeOK, CallOK, FrameOK, vars, table, threads, history
<1>2. ASSUME NEW i \in Timers, Expire(i) PROVE IInv'
  <2>1. CASE Threads = {}
    BY <1>2, <2>1 DEF IInv, TypeOK, Expire, threads, history
  <2>2. CASE Threads # {}
    BY <1>2, <2>2, KernelSteps
  <2> QED
    BY <2>1, <2>2
<1>3. ASSUME NEW t \in Threads, NEW i \in Timers, Deliver(t, i) PROVE IInv'
  BY <1>3, KernelSteps
<1>4. ASSUME NEW t \in Threads, HandlerStep(t) PROVE IInv'
  BY <1>4, HandlerSteps
<1>5. ASSUME NEW t \in Callers, SetCall(t) \/ StartCall(t) \/ StopCall(t) \/ CallerStep(t)
      PROVE  IInv'
  <2>1. t \in Threads
    BY <1>5, TimerAssumption
  <2>2. CASE SetCall(t) \/ SetField(t) \/ SetInterval(t) \/ SetStart(t)
    BY <2>1, <2>2, SetSteps
  <2>3. CASE StartCall(t) \/ StopCall(t)
    BY <2>1, <2>3, RangeCallStep DEF StartCall, StopCall
  <2>4. CASE StartOne(t)
    BY <2>1, <2>4, VisitStep DEF StartOne, How, Kind
  <2>5. CASE StopOne(t)
    BY <2>1, <2>5, VisitStep DEF StopOne
  <2> QED
    BY <1>5, <2>2, <2>3, <2>4, <2>5 DEF CallerStep
<1> QED
  BY <1>1, <1>2, <1>3, <1>4, <1>5 DEF Next

\* IInv holds in every reachable state: g_timer_set, g_timer_start and g_timer_stop work
\* on timers of the table, and so does the handler.
THEOREM Invariant == Spec => []IInv
<1> QED
  BY IInvInit, IInvNext, PTL DEF Spec

\* Every variable keeps its type, however many threads call the library and are
\* interrupted by the handler.
THEOREM TypeCorrect == Spec => []TypeOK
<1>1. IInv => TypeOK
  BY DEF IInv
<1> QED
  BY <1>1, Invariant, PTL

-----------------------------------------------------------------------------
(* How many threads have entered the handler for a timer and not called its *)
(* function: a delivery adds one, a call takes one away and is counted.      *)

\* A delivery enters the handler for its timer once, and for no other.
LEMMA DeliverEnters ==
  ASSUME IInv, NEW t \in Threads, NEW i \in Timers, Deliver(t, i), NEW j \in Timers
  PROVE  Cardinality(Entered(j))' = Cardinality(Entered(j)) + (IF j = i THEN 1 ELSE 0)
<1>1. /\ handler[t].at = "out" /\ handler'[t].at = "enter" /\ handler'[t].timer = i
      /\ \A u \in Threads : u # t => handler'[u] = handler[u]
  BY DEF Deliver, NoFrame, IInv
<1>2. t \notin Entered(j) /\ (j # i => t \notin Entered(j)')
  BY <1>1 DEF Entered
<1>3. Entered(j)' = IF j = i THEN Entered(j) \cup {t} ELSE Entered(j)
  BY <1>1, <1>2 DEF Entered
<1>4. IsFiniteSet(Entered(j)) /\ Cardinality(Entered(j)) \in Nat
  BY EnteredFinite
<1>5. Cardinality(Entered(j) \cup {t}) = Cardinality(Entered(j)) + 1
  BY <1>2, <1>4, FS_AddElement
<1> QED
  BY <1>3, <1>4, <1>5

\* A call takes its thread out of those that have entered.
LEMMA CallLeaves ==
  ASSUME IInv, NEW t \in Threads, HandlerCall(t), NEW j \in Timers
  PROVE  Cardinality(Entered(j))' =
           Cardinality(Entered(j)) - (IF j = handler[t].timer THEN 1 ELSE 0)
<1>1. /\ handler[t].at = "enter" /\ handler'[t].at = "callback"
      /\ \A u \in Threads : u # t => handler'[u] = handler[u]
  BY DEF HandlerCall, IInv, HandlerType
<1>2. t \notin Entered(j)' /\ (t \in Entered(j) <=> j = handler[t].timer)
  BY <1>1 DEF Entered
<1>3. Entered(j)' = IF j = handler[t].timer THEN Entered(j) \ {t} ELSE Entered(j)
  BY <1>1, <1>2 DEF Entered
<1>4. IsFiniteSet(Entered(j)) /\ Cardinality(Entered(j)) \in Nat
  BY EnteredFinite
<1>5. t \in Entered(j) => Cardinality(Entered(j) \ {t}) = Cardinality(Entered(j)) - 1
  BY <1>4, FS_RemoveElement
<1> QED
  BY <1>2, <1>3, <1>4, <1>5

\* The rest of the handler is behind the call.
LEMMA CalledStays ==
  ASSUME IInv, NEW t \in Threads, CallbackArg(t) \/ HandlerReturn(t), NEW j \in Timers
  PROVE  Entered(j)' = Entered(j)
<1>1. /\ handler[t].at # "enter" /\ handler'[t].at # "enter"
      /\ \A u \in Threads : u # t => handler'[u] = handler[u]
  BY DEF CallbackArg, HandlerReturn, IInv, HandlerType, NoFrame
<1> QED
  BY <1>1 DEF Entered

\* The calls of timer i's function that are still to be expected without another expiry,
\* and those already made: a signal that is pending is delivered once.
Outstanding(i) == since[i] + Cardinality(Entered(i)) + (IF i \in pending THEN 1 ELSE 0)

\* A delivery turns a pending signal into an entered handler, the handler into a call.
LEMMA OutstandingDeliver ==
  ASSUME IInv, NEW t \in Threads, NEW i \in Timers, Deliver(t, i), NEW j \in Timers
  PROVE  Outstanding(j)' = Outstanding(j)
<1>1. since'[j] = since[j] /\ since[j] \in Nat
  BY DEF Deliver, history, IInv, TypeOK
<1>2. i \in pending /\ pending' = pending \ {i}
  BY DEF Deliver
<1> QED
  BY <1>1, <1>2, DeliverEnters, EnteredFinite DEF Outstanding

\* The calls outstanding are a number.
LEMMA OutstandingNat == IInv => \A j \in Timers : Outstanding(j) \in Nat
  BY EnteredFinite DEF IInv, TypeOK, Outstanding

\* They stay one when a handler goes on or a timer expires.
LEMMA OutstandingKept ==
  ASSUME IInv, NEW j \in Timers, (\E t \in Threads : HandlerStep(t)) \/ (\E i \in Timers : Expire(i))
  PROVE  Outstanding(j)' \in Nat
<1>0. since[j] \in Nat /\ owed[j] \in Nat /\ since \in [Timers -> Nat]
  BY DEF IInv, TypeOK
<1>1. since'[j] \in Nat
  <2>1. CASE UNCHANGED since
    BY <1>0, <2>1
  <2>2. ASSUME NEW t \in Threads, HandlerCall(t) PROVE since'[j] \in Nat
    BY <1>0, <2>2 DEF HandlerCall
  <2> QED
    BY <2>1, <2>2 DEF Expire, HandlerStep, CallbackArg, HandlerReturn, history
<1>2. IsFiniteSet(Entered(j)') /\ Cardinality(Entered(j)') \in Nat
  <2>1. Entered(j)' \subseteq Threads
    BY DEF Entered
  <2> QED
    BY <2>1, TimerAssumption, FS_Subset, FS_CardinalityType
<1> QED
  BY <1>1, <1>2 DEF Outstanding

\* The handler never adds to the calls outstanding.
LEMMA OutstandingHandler ==
  ASSUME IInv, NEW t \in Threads, HandlerStep(t), NEW j \in Timers
  PROVE  Outstanding(j)' <= Outstanding(j) /\ Outstanding(j) \in Nat
<1>0. since[j] \in Nat /\ owed[j] \in Nat /\ Outstanding(j) \in Nat
  BY OutstandingNat DEF IInv, TypeOK
<1>1. CASE HandlerCall(t)
  <2>1. UNCHANGED pending
    BY <1>1 DEF HandlerCall, table
  <2>2. CASE j = handler[t].timer
    <3>1. since'[j] <= since[j] + 1 /\ since'[j] \in Nat
      BY <1>0, <1>1, <2>2 DEF HandlerCall, IInv, TypeOK
    <3>2. Cardinality(Entered(j))' = Cardinality(Entered(j)) - 1
      BY <1>1, <2>2, CallLeaves
    <3> QED
      BY <1>0, <2>1, <3>1, <3>2, EnteredFinite DEF Outstanding
  <2>3. CASE j # handler[t].timer
    <3>1. since'[j] = since[j]
      BY <1>1, <2>3 DEF HandlerCall, IInv, TypeOK
    <3>2. Cardinality(Entered(j))' = Cardinality(Entered(j))
      BY <1>1, <2>3, CallLeaves, EnteredFinite
    <3> QED
      BY <1>0, <2>1, <3>1, <3>2, EnteredFinite DEF Outstanding
  <2> QED
    BY <2>2, <2>3
<1>2. CASE CallbackArg(t) \/ HandlerReturn(t)
  <2>1. UNCHANGED <<since, pending>> /\ Entered(j)' = Entered(j)
    BY <1>2, CalledStays DEF CallbackArg, HandlerReturn, table, history
  <2> QED
    BY <1>0, <2>1 DEF Outstanding
<1> QED
  BY <1>1, <1>2 DEF HandlerStep

\* timer_settime counts anew: what is outstanding then was owed, but for a pending signal.
LEMMA OutstandingSettime ==
  ASSUME IInv, NEW i \in Timers, NEW how, NEW ask, Settime(i, how, ask), UNCHANGED handler
  PROVE  /\ Outstanding(i)' <= owed'[i] + 1
         /\ \A j \in Timers : j # i =>
              Outstanding(j)' = Outstanding(j) /\ owed'[j] = owed[j]
<1>1. \A j : Entered(j)' = Entered(j)
  BY DEF Entered
<1>2. since'[i] = 0 /\ owed'[i] = Cardinality(Entered(i))
  BY DEF Settime, IInv, TypeOK
<1>3. ASSUME NEW j \in Timers, j # i
      PROVE  since'[j] = since[j] /\ owed'[j] = owed[j] /\ (j \in pending' <=> j \in pending)
  BY <1>3 DEF Settime, IInv, TypeOK
<1> QED
  BY <1>1, <1>2, <1>3, EnteredFinite DEF Outstanding

\* An expiry adds a signal at most, and leaves the other timers alone.
LEMMA OutstandingExpire ==
  ASSUME IInv, NEW i \in Timers, Expire(i)
  PROVE  /\ Outstanding(i)' <= Outstanding(i) + 1 /\ Outstanding(i) \in Nat
         /\ \A j \in Timers : j # i => Outstanding(j)' = Outstanding(j)
<1>1. \A j : Entered(j)' = Entered(j)
  BY DEF Entered, Expire, threads
<1>2. UNCHANGED since /\ pending' = pending \cup {i} /\ since[i] \in Nat
  BY DEF Expire, history, IInv, TypeOK
<1> QED
  BY <1>1, <1>2, EnteredFinite DEF Outstanding

-----------------------------------------------------------------------------
(* After g_timer_stop: the timer is disarmed, and no more calls of its function *)
(* are outstanding than the handlers that had begun and one pending signal.      *)

LateInv ==
  \A i \in Timers : asked[i] = "off" =>
    kernel[i] = "off" /\ Outstanding(i) <= owed[i] + 1

\* Nothing is outstanding at first.
LEMMA LateInvInit == Init => LateInv
<1> SUFFICES ASSUME Init, NEW i \in Timers
             PROVE  kernel[i] = "off" /\ Outstanding(i) <= owed[i] + 1
  BY DEF LateInv
<1>1. Entered(i) = {}
  BY DEF Init, Entered, NoFrame
<1> QED
  BY <1>1, FS_EmptySet DEF Init, Outstanding

\* timer_settime keeps the bound of the timers it leaves, and sets that of the one it stops.
LEMMA SettimeLate ==
  ASSUME IInv, LateInv, NEW i \in Timers,
         NEW how \in {"off", "once", "repeat"}, NEW ask \in {"off", "once", "repeat"},
         ask = "off" => how = "off", Settime(i, how, ask), UNCHANGED handler
  PROVE  LateInv'
<1>1. /\ kernel'[i] = how /\ asked'[i] = ask
      /\ \A j \in Timers : j # i => kernel'[j] = kernel[j] /\ asked'[j] = asked[j]
  BY DEF Settime, IInv, TypeOK
<1> QED
  BY <1>1, OutstandingSettime DEF LateInv

\* Every step keeps LateInv: a stopped timer does not expire.
LEMMA LateInvNext == IInv /\ LateInv /\ [Next]_vars => LateInv'
<1> SUFFICES ASSUME IInv, LateInv, [Next]_vars PROVE LateInv'
  OBVIOUS
<1>1. CASE UNCHANGED <<kernel, pending, asked, since, owed, handler>>
  BY <1>1 DEF LateInv, Outstanding, Entered
<1>2. ASSUME NEW i \in Timers, Expire(i) PROVE LateInv'
  <2>1. /\ kernel[i] # "off" /\ UNCHANGED <<asked, owed>>
        /\ \A j \in Timers : j # i => kernel'[j] = kernel[j]
    BY <1>2 DEF Expire, history, IInv, TypeOK
  <2> QED
    BY <1>2, <2>1, OutstandingExpire DEF LateInv
<1>3. ASSUME NEW t \in Threads, NEW i \in Timers, Deliver(t, i) PROVE LateInv'
  <2>1. UNCHANGED <<kernel, asked, owed>>
    BY <1>3 DEF Deliver, history
  <2> QED
    BY <1>3, <2>1, OutstandingDeliver DEF LateInv
<1>4. ASSUME NEW t \in Callers, SetStart(t) PROVE LateInv'
  <2>1. t \in Threads /\ call[t].num \in Timers
    BY <1>4, TimerAssumption DEF IInv, SetStart, At, CallOK
  <2>2. CASE timerStruct[call[t].num].enabled
    <3>1. Settime(call[t].num, How(call[t].num), Kind(call[t].repeat))
      BY <1>4, <2>2 DEF SetStart
    <3>2. {How(call[t].num), Kind(call[t].repeat)} \subseteq {"once", "repeat"}
      BY DEF How, Kind
    <3> QED
      BY <1>4, <2>1, <3>1, <3>2, SettimeLate DEF SetStart
  <2>3. CASE ~timerStruct[call[t].num].enabled
    BY <1>1, <1>4, <2>3 DEF SetStart
  <2> QED
    BY <2>2, <2>3
<1>5. ASSUME NEW t \in Callers, NEW label \in {"start", "stop"},
             NEW how \in {"off", "once", "repeat"}, NEW ask \in {"off", "once", "repeat"},
             ask = "off" => how = "off", Visit(t, label, how, ask)
      PROVE  LateInv'
  <2>1. t \in Threads /\ call[t].num \in Timers
    BY <1>5, TimerAssumption DEF IInv, Visit, At, CallOK
  <2>2. CASE timerStruct[call[t].num].enabled
    <3>1. Settime(call[t].num, how, ask)
      BY <1>5, <2>2 DEF Visit
    <3> QED
      BY <1>5, <2>1, <3>1, SettimeLate DEF Visit
  <2>3. CASE ~timerStruct[call[t].num].enabled
    BY <1>1, <1>5, <2>3 DEF Visit
  <2> QED
    BY <2>2, <2>3
<1>6. ASSUME NEW t \in Callers, StartOne(t) PROVE LateInv'
  BY <1>5, <1>6 DEF StartOne, How, Kind
<1>7. ASSUME NEW t \in Callers, StopOne(t) PROVE LateInv'
  BY <1>5, <1>7 DEF StopOne
<1>8. ASSUME NEW t \in Threads, HandlerStep(t) PROVE LateInv'
  <2>1. UNCHANGED <<kernel, asked, owed>>
    BY <1>8 DEF HandlerStep, HandlerCall, CallbackArg, HandlerReturn, table, history
  <2>2. ASSUME NEW j \in Timers, asked[j] = "off" PROVE Outstanding(j)' <= owed[j] + 1
    <3>1. /\ Outstanding(j)' <= Outstanding(j) /\ Outstanding(j) <= owed[j] + 1
          /\ Outstanding(j) \in Nat /\ owed[j] \in Nat /\ Outstanding(j)' \in Nat
      BY <1>8, <2>2, OutstandingHandler, OutstandingKept DEF LateInv, IInv, TypeOK
    <3> QED
      BY <3>1
  <2> QED
    BY <2>1, <2>2 DEF LateInv
<1>9. ASSUME NEW t \in Callers,
             SetCall(t) \/ StartCall(t) \/ StopCall(t) \/ SetField(t) \/ SetInterval(t)
      PROVE  LateInv'
  BY <1>1, <1>9 DEF SetCall, StartCall, StopCall, RangeCall, SetField, SetInterval, table,
                    threads, history
<1>10. CASE UNCHANGED vars
  BY <1>1, <1>10 DEF vars, table, threads, history
<1> QED
  BY <1>2, <1>3, <1>4, <1>6, <1>7, <1>8, <1>9, <1>10 DEF Next, CallerStep

\* After g_timer_stop, or before the first start, a timer's callback is called at most once
\* more for a pending signal and once by each handler that had begun, whatever the other
\* threads call meanwhile.
THEOREM LateCallback == Spec => []OneLateCallback
<1>1. IInv /\ LateInv => OneLateCallback
  <2> SUFFICES ASSUME IInv, LateInv, NEW i \in Timers, asked[i] = "off"
               PROVE  since[i] <= owed[i] + 1
    BY DEF OneLateCallback
  <2>1. Outstanding(i) <= owed[i] + 1 /\ since[i] \in Nat /\ owed[i] \in Nat
    BY DEF LateInv, IInv, TypeOK
  <2> QED
    BY <2>1, EnteredFinite DEF Outstanding
<1> QED
  BY <1>1, Invariant, LateInvInit, LateInvNext, PTL DEF Spec

-----------------------------------------------------------------------------
(* A timer set to fire once.  The kernel is armed with the interval the     *)
(* table holds, so that two threads that set the same timer can undo each   *)
(* other's choice; with one caller the table holds what it asked for.       *)

OneCaller == \A t, u \in Callers : t = u

IntervalInv ==
  \A t \in Callers :
    pc[t] = "settime" => timerStruct[call[t].num].interval = call[t].repeat

\* The calls outstanding since the start and the armed kernel timer are two at most beyond
\* what was owed.
OnceInv ==
  \A i \in Timers : asked[i] = "once" =>
    /\ kernel[i] # "repeat"
    /\ Outstanding(i) + (IF kernel[i] = "once" THEN 1 ELSE 0) <= owed[i] + 2

\* No timer is set at first.
LEMMA OnceInvInit == Init => IntervalInv /\ OnceInv
  BY TimerAssumption DEF Init, IntervalInv, OnceInv

\* The only caller finds the interval it stored itself.
LEMMA IntervalInvNext ==
  ASSUME OneCaller, IInv, IntervalInv, [Next]_vars
  PROVE  IntervalInv'
<1>1. CASE UNCHANGED <<timerStruct, pc, call>>
  BY <1>1 DEF IntervalInv
<1>2. ASSUME NEW t \in Callers, \A u \in Callers : pc'[u] # "settime" PROVE IntervalInv'
  BY <1>2 DEF IntervalInv
<1>3. ASSUME NEW t \in Callers, SetCall(t) PROVE IntervalInv'
  <2>1. CASE UNCHANGED pc /\ UNCHANGED call
    BY <1>1, <1>3, <2>1 DEF SetCall, table
  <2>2. CASE pc' = [pc EXCEPT ![t] = "fill"]
    BY <1>2, <1>3, <2>2, TimerAssumption DEF OneCaller, IInv, TypeOK
  <2> QED
    BY <1>3, <2>1, <2>2 DEF SetCall, Goto
<1>4. ASSUME NEW t \in Callers, SetField(t) PROVE IntervalInv'
  BY <1>2, <1>4 DEF OneCaller, SetField, At, threads
<1>5. ASSUME NEW t \in Callers, SetInterval(t) PROVE IntervalInv'
  <2>1. t \in Threads /\ call[t].num \in Timers
    BY <1>5, TimerAssumption DEF IInv, SetInterval, At, CallOK
  <2>2. timerStruct'[call[t].num].interval = call[t].repeat
    BY <1>5, <2>1 DEF IInv, TypeOK, SetInterval
  <2> QED
    BY <1>5, <2>2 DEF OneCaller, IntervalInv, SetInterval
<1>6. ASSUME NEW t \in Callers, NEW label \in {"start", "stop"},
             \/ SetStart(t) \/ RangeCall(t, label)
             \/ \E how, ask \in {"off", "once", "repeat"} : Visit(t, label, how, ask)
      PROVE  IntervalInv'
  <2>1. t \in Threads
    BY <1>6, TimerAssumption
  <2>2. pc'[t] # "settime"
    BY <1>6, <2>1 DEF IInv, TypeOK, SetStart, RangeCall, Visit, Goto, At
  <2> QED
    BY <1>2, <1>6, <2>2 DEF OneCaller
<1>7. ASSUME NEW t \in Callers,
             StartCall(t) \/ StopCall(t) \/ SetStart(t) \/ StartOne(t) \/ StopOne(t)
      PROVE  IntervalInv'
  BY <1>6, <1>7 DEF StartCall, StopCall, StartOne, StopOne, How, Kind
<1>8. ASSUME NEW t \in Threads, HandlerStep(t) PROVE IntervalInv'
  BY <1>1, <1>8 DEF HandlerStep, HandlerCall, CallbackArg, HandlerReturn, table
<1>9. ASSUME NEW i \in Timers, Expire(i) \/ \E t \in Threads : Deliver(t, i)
      PROVE  IntervalInv'
  BY <1>1, <1>9 DEF Expire, Deliver, threads
<1>10. CASE UNCHANGED vars
  BY <1>1, <1>10 DEF vars, table, threads
<1> QED
  BY <1>3, <1>4, <1>5, <1>7, <1>8, <1>9, <1>10 DEF Next, CallerStep

\* timer_settime keeps OnceInv when the kernel is armed as the caller asked.
LEMMA SettimeOnce ==
  ASSUME IInv, OnceInv, NEW i \in Timers,
         NEW how \in {"off", "once", "repeat"}, NEW ask \in {"off", "once", "repeat"},
         ask = how, Settime(i, how, ask), UNCHANGED handler
  PROVE  OnceInv'
<1>1. /\ kernel'[i] = how /\ asked'[i] = ask
      /\ \A j \in Timers : j # i => kernel'[j] = kernel[j] /\ asked'[j] = asked[j]
  BY DEF Settime, IInv, TypeOK
<1>2. owed'[i] \in Nat /\ Outstanding(i)' \in Nat
  <2>1. \A j : Entered(j)' = Entered(j)
    BY DEF Entered
  <2>2. since'[i] = 0 /\ owed'[i] = Cardinality(Entered(i))
    BY DEF Settime, IInv, TypeOK
  <2> QED
    BY <2>1, <2>2, EnteredFinite DEF Outstanding
<1>3. Outstanding(i)' + (IF kernel'[i] = "once" THEN 1 ELSE 0) <= owed'[i] + 2
  BY <1>2, OutstandingSettime
<1> QED
  BY <1>1, <1>3, OutstandingSettime DEF OnceInv

\* Every step keeps OnceInv: an expiry turns the armed timer into one pending signal.
LEMMA OnceInvNext ==
  ASSUME OneCaller, IInv, IntervalInv, OnceInv, [Next]_vars
  PROVE  OnceInv'
<1>1. CASE UNCHANGED <<kernel, pending, asked, since, owed, handler>>
  BY <1>1 DEF OnceInv, Outstanding, Entered
<1>2. ASSUME NEW i \in Timers, Expire(i) PROVE OnceInv'
  <2>1. /\ UNCHANGED <<asked, owed>> /\ owed[i] \in Nat /\ kernel[i] \in {"once", "repeat"}
        /\ kernel[i] = "once" => kernel'[i] = "off"
        /\ \A j \in Timers : j # i => kernel'[j] = kernel[j]
    BY <1>2 DEF Expire, history, IInv, TypeOK
  <2>2. /\ Outstanding(i)' <= Outstanding(i) + 1 /\ Outstanding(i) \in Nat
        /\ Outstanding(i)' \in Nat
    BY <1>2, OutstandingExpire, OutstandingKept
  <2>3. ASSUME asked[i] = "once"
        PROVE  /\ kernel'[i] # "repeat"
               /\ Outstanding(i)' + (IF kernel'[i] = "once" THEN 1 ELSE 0) <= owed[i] + 2
    BY <2>1, <2>2, <2>3 DEF OnceInv
  <2> QED
    BY <1>2, <2>1, <2>3, OutstandingExpire DEF OnceInv
<1>3. ASSUME NEW t \in Threads, NEW i \in Timers, Deliver(t, i) PROVE OnceInv'
  <2>1. UNCHANGED <<kernel, asked, owed>>
    BY <1>3 DEF Deliver, history
  <2> QED
    BY <1>3, <2>1, OutstandingDeliver DEF OnceInv
<1>4. ASSUME NEW t \in Callers, SetStart(t) PROVE OnceInv'
  <2>1. /\ t \in Threads /\ call[t].num \in Timers
        /\ timerStruct[call[t].num].interval = call[t].repeat
    BY <1>4, TimerAssumption DEF IInv, IntervalInv, SetStart, At, CallOK
  <2>2. CASE timerStruct[call[t].num].enabled
    <3>1. Settime(call[t].num, How(call[t].num), Kind(call[t].repeat))
      BY <1>4, <2>2 DEF SetStart
    <3>2. How(call[t].num) = Kind(call[t].repeat) /\ How(call[t].num) \in {"once", "repeat"}
      BY <2>1 DEF How, Kind
    <3> QED
      BY <1>4, <2>1, <3>1, <3>2, SettimeOnce DEF SetStart
  <2>3. CASE ~timerStruct[call[t].num].enabled
    BY <1>1, <1>4, <2>3 DEF SetStart
  <2> QED
    BY <2>2, <2>3
<1>5. ASSUME NEW t \in Callers, NEW label \in {"start", "stop"},
             NEW how \in {"off", "once", "repeat"}, Visit(t, label, how, how)
      PROVE  OnceInv'
  <2>1. t \in Threads /\ call[t].num \in Timers
    BY <1>5, TimerAssumption DEF IInv, Visit, At, CallOK
  <2>2. CASE timerStruct[call[t].num].enabled
    <3>1. Settime(call[t].num, how, how)
      BY <1>5, <2>2 DEF Visit
    <3> QED
      BY <1>5, <2>1, <3>1, SettimeOnce DEF Visit
  <2>3. CASE ~timerStruct[call[t].num].enabled
    BY <1>1, <1>5, <2>3 DEF Visit
  <2> QED
    BY <2>2, <2>3
<1>6. ASSUME NEW t \in Callers, StartOne(t) \/ StopOne(t) PROVE OnceInv'
  BY <1>5, <1>6 DEF StartOne, StopOne, How, Kind
<1>7. ASSUME NEW t \in Threads, HandlerStep(t) PROVE OnceInv'
  <2>1. UNCHANGED <<kernel, asked, owed>>
    BY <1>7 DEF HandlerStep, HandlerCall, CallbackArg, HandlerReturn, table, history
  <2>2. ASSUME NEW j \in Timers
        PROVE  /\ Outstanding(j)' <= Outstanding(j) /\ Outstanding(j) \in Nat
               /\ Outstanding(j)' \in Nat /\ owed[j] \in Nat
    BY <1>7, <2>2, OutstandingHandler, OutstandingKept DEF IInv, TypeOK
  <2> QED
    BY <2>1, <2>2 DEF OnceInv
<1>8. ASSUME NEW t \in Callers,
             SetCall(t) \/ StartCall(t) \/ StopCall(t) \/ SetField(t) \/ SetInterval(t)
      PROVE  OnceInv'
  BY <1>1, <1>8 DEF SetCall, StartCall, StopCall, RangeCall, SetField, SetInterval, table,
                    threads, history
<1>9. CASE UNCHANGED vars
  BY <1>1, <1>9 DEF vars, table, threads, history
<1> QED
  BY <1>2, <1>3, <1>4, <1>6, <1>7, <1>8, <1>9 DEF Next, CallerStep

\* While one thread makes the calls, a timer set with repeat 0 has its callback called at most
\* once for its start, once for a signal that was left over from before, and once by each
\* handler that had begun.
THEOREM SingleShot ==
  ASSUME OneCaller
  PROVE  Spec => []FiresOnce
<1>1. IInv /\ OnceInv => FiresOnce
  <2> SUFFICES ASSUME IInv, OnceInv, NEW i \in Timers, asked[i] = "once"
               PROVE  since[i] <= owed[i] + 2
    BY DEF FiresOnce
  <2>1. /\ Outstanding(i) + (IF kernel[i] = "once" THEN 1 ELSE 0) <= owed[i] + 2
        /\ since[i] \in Nat /\ owed[i] \in Nat
    BY DEF OnceInv, IInv, TypeOK
  <2> QED
    BY <2>1, EnteredFinite DEF Outstanding
<1>2. IInv /\ IntervalInv /\ OnceInv /\ [Next]_vars => IntervalInv' /\ OnceInv'
  BY OneCaller, IntervalInvNext, OnceInvNext
<1> QED
  BY <1>1, <1>2, Invariant, OnceInvInit, PTL DEF Spec

-----------------------------------------------------------------------------
(* What a callback runs with.  With one caller an entry is whole whenever   *)
(* nobody fills it, and an entry that is filled while its timer may still   *)
(* fire is one that was set again.                                          *)

\* The timer is armed, its signal is pending, or a thread is in the handler for it.
MayFire(i) ==
  \/ kernel[i] # "off" \/ i \in pending
  \/ \E t \in Threads : handler[t].at # "out" /\ handler[t].timer = i

Filling(t, i) == pc[t] = "fill" /\ call[t].num = i

CallGiven ==
  \A t \in Callers :
    pc[t] \in {"fill", "settime"} => <<call[t].func, call[t].arg>> \in given[call[t].num]

FillReset ==
  \A t \in Callers : pc[t] = "fill" /\ MayFire(call[t].num) => call[t].num \in reset

PairWhole ==
  \A i \in Timers : timerStruct[i].enabled =>
    \/ <<timerStruct[i].func, timerStruct[i].arg>> \in given[i]
    \/ \E t \in Callers : Filling(t, i)

FireReady ==
  \A i \in Timers : MayFire(i) => timerStruct[i].enabled /\ timerStruct[i].func # None

FrameGiven ==
  \A t \in Threads : handler[t].timer \notin reset =>
    /\ handler[t].at = "callback" => handler[t].func = timerStruct[handler[t].timer].func
    /\ handler[t].at = "end" => <<handler[t].func, handler[t].arg>> \in given[handler[t].timer]

PairInv == CallGiven /\ FillReset /\ PairWhole /\ FireReady /\ FrameGiven

\* Before the first call no timer may fire and nothing is filled.
LEMMA PairInvInit == Init => PairInv
  BY TimerAssumption DEF Init, PairInv, CallGiven, FillReset, PairWhole, FireReady, FrameGiven,
     MayFire, NoFrame

\* A step of the kernel or the handler that brings no timer closer to firing.
LEMMA QuietPair ==
  ASSUME PairInv, UNCHANGED <<timerStruct, pc, call, given, reset>>,
         \A i \in Timers : MayFire(i)' => MayFire(i),
         \A t \in Callers : pc[t] = "fill" => call[t].num \in Timers
  PROVE  CallGiven' /\ FillReset' /\ PairWhole' /\ FireReady'
<1>1. CallGiven'
  BY DEF PairInv, CallGiven
<1>2. FillReset'
  BY DEF PairInv, FillReset
<1>3. PairWhole'
  BY DEF PairInv, PairWhole, Filling
<1>4. FireReady'
  BY DEF PairInv, FireReady
<1> QED
  BY <1>1, <1>2, <1>3, <1>4

\* The handler reads function and argument of an entry that nobody fills, if it was not
\* set again.
LEMMA HandlerPair ==
  ASSUME IInv, PairInv, NEW t \in Threads, HandlerStep(t)
  PROVE  PairInv'
<1>1. handler \in [Threads -> HandlerType] /\ \A u \in Threads : FrameOK(u)
  BY DEF IInv
<1>2. \A u \in Callers : pc[u] = "fill" => call[u].num \in Timers
  BY TimerAssumption DEF IInv, CallOK
<1>3. UNCHANGED <<timerStruct, kernel, pending, pc, call, given, reset>>
  BY DEF HandlerStep, HandlerCall, CallbackArg, HandlerReturn, table, history
<1>4. handler[t].at # "out"
  BY DEF HandlerStep, HandlerCall, CallbackArg, HandlerReturn
<1>5. \A u \in Threads : handler'[u].at # "out" =>
        handler[u].at # "out" /\ handler'[u].timer = handler[u].timer
  BY <1>1, <1>4 DEF HandlerStep, HandlerCall, CallbackArg, HandlerReturn, HandlerType, NoFrame
<1>6. \A i \in Timers : MayFire(i)' => MayFire(i)
  BY <1>3, <1>5 DEF MayFire
<1>7. FrameGiven'
  <2> DEFINE i == handler[t].timer
  <2>0. i \in Timers /\ MayFire(i)
    BY <1>1, <1>4 DEF FrameOK, MayFire
  <2>1. \A u \in Threads : u # t => handler'[u] = handler[u]
    BY <1>1 DEF HandlerStep, HandlerCall, CallbackArg, HandlerReturn
  <2>2. CASE HandlerCall(t)
    <3>1. /\ handler'[t].at = "callback" /\ handler'[t].timer = i
          /\ handler'[t].func = timerStruct[i].func
      BY <1>1, <2>2 DEF HandlerCall, HandlerType
    <3> QED
      BY <1>3, <2>1, <3>1 DEF PairInv, FrameGiven
  <2>3. CASE CallbackArg(t)
    <3>1. /\ handler[t].at = "callback" /\ handler'[t].at = "end" /\ handler'[t].timer = i
          /\ handler'[t].func = handler[t].func /\ handler'[t].arg = timerStruct[i].arg
      BY <1>1, <2>3 DEF CallbackArg, HandlerType
    <3>2. ASSUME i \notin reset
          PROVE  <<handler[t].func, timerStruct[i].arg>> \in given[i]
      <4>1. handler[t].func = timerStruct[i].func
        BY <3>1, <3>2 DEF PairInv, FrameGiven
      <4>2. \A u \in Callers : ~Filling(u, i)
        BY <2>0, <3>2 DEF PairInv, FillReset, Filling
      <4> QED
        BY <2>0, <4>1, <4>2 DEF PairInv, PairWhole, FireReady
    <3> QED
      BY <1>3, <2>1, <3>1, <3>2 DEF PairInv, FrameGiven
  <2>4. CASE HandlerReturn(t)
    <3>1. handler'[t].at = "out"
      BY <1>1, <2>4 DEF HandlerReturn, NoFrame
    <3> QED
      BY <1>3, <2>1, <3>1 DEF PairInv, FrameGiven
  <2> QED
    BY <2>2, <2>3, <2>4 DEF HandlerStep
<1> QED
  BY <1>2, <1>3, <1>6, <1>7, QuietPair DEF PairInv

\* An expiry or a delivery concerns a timer that could fire before.
LEMMA KernelPair ==
  ASSUME IInv, PairInv, NEW i \in Timers,
         Expire(i) \/ \E t \in Threads : Deliver(t, i)
  PROVE  PairInv'
<1>1. handler \in [Threads -> HandlerType] /\ kernel \in [Timers -> {"off", "once", "repeat"}]
  BY DEF IInv, TypeOK
<1>2. \A u \in Callers : pc[u] = "fill" => call[u].num \in Timers
  BY TimerAssumption DEF IInv, CallOK
<1>3. UNCHANGED <<timerStruct, pc, call, given, reset>>
  BY DEF Expire, Deliver, threads, history
<1>4. CASE Expire(i)
  <2>1. UNCHANGED handler /\ pending' = pending \cup {i} /\ kernel[i] # "off"
    BY <1>4 DEF Expire, threads
  <2>2. \A j \in Timers : kernel'[j] # "off" => kernel[j] # "off"
    BY <1>1, <1>4 DEF Expire
  <2>3. \A j \in Timers : MayFire(j)' => MayFire(j)
    BY <2>1, <2>2 DEF MayFire
  <2>4. FrameGiven'
    BY <1>3, <2>1 DEF PairInv, FrameGiven
  <2> QED
    BY <1>2, <1>3, <2>3, <2>4, QuietPair DEF PairInv
<1>5. ASSUME NEW t \in Threads, Deliver(t, i) PROVE PairInv'
  <2>1. /\ i \in pending /\ pending' = pending \ {i} /\ UNCHANGED kernel
        /\ handler'[t].at = "enter" /\ handler'[t].timer = i
        /\ \A u \in Threads : u # t => handler'[u] = handler[u]
    BY <1>1, <1>5 DEF Deliver, NoFrame
  <2>2. \A j \in Timers : MayFire(j)' => MayFire(j)
    BY <2>1 DEF MayFire
  <2>3. FrameGiven'
    BY <1>3, <2>1 DEF PairInv, FrameGiven
  <2> QED
    BY <1>2, <1>3, <2>2, <2>3, QuietPair DEF PairInv
<1> QED
  BY <1>4, <1>5

\* g_timer_set: the entry is being filled until it holds the pair that was passed.
LEMMA SetPair ==
  ASSUME OneCaller, IInv, PairInv, NEW t \in Callers,
         SetCall(t) \/ SetField(t) \/ SetInterval(t)
  PROVE  PairInv'
<1>0. t \in Threads /\ (\A u \in Callers : u = t)
  BY TimerAssumption DEF OneCaller
<1>1. UNCHANGED <<kernel, pending, handler>>
  BY DEF SetCall, SetField, SetInterval, table, threads
<1>2. \A i \in Timers : MayFire(i)' <=> MayFire(i)
  BY <1>1 DEF MayFire
<1>3. pc[t] \in {"fill", "settime"} =>
        call[t].num \in Timers /\ call[t].func \in Funcs /\ call[t].arg \in Args
  BY <1>0 DEF IInv, CallOK
<1>4. CASE SetCall(t)
  <2>1. CASE UNCHANGED <<pc, call, given, reset>>
    <3>1. FrameGiven'
      BY <1>1, <1>4, <2>1 DEF PairInv, FrameGiven, SetCall, table
    <3> QED
      BY <1>0, <1>2, <1>3, <1>4, <2>1, <3>1, QuietPair DEF PairInv, SetCall, table
  <2>2. ASSUME NEW num \in Timers, NEW f \in Funcs, NEW a \in Args, NEW r \in BOOLEAN,
               Goto(t, "fill"),
               call' = [call EXCEPT ![t] = [num |-> num, func |-> f, arg |-> a, repeat |-> r]],
               given' = [given EXCEPT ![num] = @ \cup {<<f, a>>}],
               reset' = IF Live(num) THEN reset \cup {num} ELSE reset
        PROVE  PairInv'
    <3>1. pc'[t] = "fill" /\ call'[t].num = num /\ call'[t].func = f /\ call'[t].arg = a
      BY <1>0, <2>2 DEF Goto, IInv, TypeOK
    <3>2. <<f, a>> \in given'[num] /\ \A i \in Timers : given[i] \subseteq given'[i]
      BY <2>2 DEF IInv, TypeOK
    <3>3. reset \subseteq reset' /\ (MayFire(num) => num \in reset')
      BY <2>2 DEF MayFire, Live, Handled
    <3>4. UNCHANGED timerStruct /\ pc[t] = "idle"
      BY <1>4 DEF SetCall, table, At
    <3>5. CallGiven' /\ FillReset'
      BY <1>0, <1>2, <3>1, <3>2, <3>3 DEF CallGiven, FillReset
    <3>6. PairWhole' /\ FireReady'
      BY <1>0, <1>2, <3>2, <3>4 DEF PairInv, PairWhole, FireReady, Filling
    <3>7. FrameGiven'
      BY <1>1, <3>2, <3>3, <3>4 DEF PairInv, FrameGiven, IInv, FrameOK
    <3> QED
      BY <3>5, <3>6, <3>7 DEF PairInv
  <2> QED
    BY <1>4, <2>1, <2>2 DEF SetCall
<1>5. CASE SetField(t)
  <2>1. /\ pc[t] = "fill" /\ UNCHANGED <<pc, call, given, reset>>
        /\ \A i \in Timers : i # call[t].num => timerStruct'[i] = timerStruct[i]
    BY <1>5, <1>3 DEF SetField, At, threads, history, IInv, TypeOK
  <2>2. /\ timerStruct[call[t].num].enabled => timerStruct'[call[t].num].enabled
        /\ \/ timerStruct'[call[t].num].func = timerStruct[call[t].num].func
           \/ timerStruct'[call[t].num].func = call[t].func
    <3>1. /\ Filled(t).enabled = TRUE /\ Filled(t).func = call[t].func
      BY <1>3, <2>1 DEF Filled, IInv, TypeOK
    <3>2. PICK field \in {"enabled", "func", "arg"} :
            timerStruct' = [timerStruct EXCEPT ![call[t].num][field] = Filled(t)[field]]
      BY <1>5 DEF SetField
    <3>3. timerStruct[call[t].num] \in [enabled : BOOLEAN, interval : BOOLEAN,
                                      func : Funcs \cup {None}, arg : Args \cup {None}]
      BY <1>3, <2>1 DEF IInv, TypeOK
    <3>4. timerStruct'[call[t].num] =
            [timerStruct[call[t].num] EXCEPT ![field] = Filled(t)[field]]
      BY <1>3, <2>1, <3>2 DEF IInv, TypeOK
    <3>5. CASE field = "enabled"
      BY <3>1, <3>3, <3>4, <3>5
    <3>6. CASE field = "func"
      BY <3>1, <3>3, <3>4, <3>6
    <3>7. CASE field = "arg"
      BY <3>3, <3>4, <3>7
    <3> QED
      BY <3>5, <3>6, <3>7
  <2>3. CallGiven' /\ FillReset'
    BY <1>0, <1>2, <1>3, <2>1 DEF PairInv, CallGiven, FillReset
  <2>4. PairWhole' /\ FireReady'
    BY <1>2, <1>3, <2>1, <2>2, TimerAssumption DEF PairInv, PairWhole, FireReady, Filling
  <2>5. FrameGiven'
    <3>1. ASSUME NEW u \in Threads, handler[u].at = "callback", handler[u].timer \notin reset
          PROVE  handler[u].timer \in Timers /\ handler[u].timer # call[t].num
      BY <2>1, <3>1 DEF PairInv, FillReset, MayFire, IInv, FrameOK
    <3> QED
      BY <1>1, <2>1, <3>1 DEF PairInv, FrameGiven
  <2> QED
    BY <2>3, <2>4, <2>5 DEF PairInv
<1>6. CASE SetInterval(t)
  <2>1. /\ pc[t] = "fill" /\ pc'[t] = "settime" /\ UNCHANGED <<call, given, reset>>
    BY <1>0, <1>6 DEF SetInterval, At, Goto, history, IInv, TypeOK
  <2>2. \A i \in Timers : /\ timerStruct'[i].enabled = timerStruct[i].enabled
                          /\ timerStruct'[i].func = timerStruct[i].func
                          /\ timerStruct'[i].arg = timerStruct[i].arg
    BY <1>6, <1>3, <2>1 DEF SetInterval, IInv, TypeOK
  <2>3. /\ timerStruct[call[t].num].func = call[t].func
        /\ timerStruct[call[t].num].arg = call[t].arg
    <3>1. timerStruct[call[t].num] \in [enabled : BOOLEAN, interval : BOOLEAN,
                                      func : Funcs \cup {None}, arg : Args \cup {None}]
      BY <1>3, <2>1 DEF IInv, TypeOK
    <3>2. Filled(t).func = call[t].func /\ Filled(t).arg = call[t].arg
      BY <3>1 DEF Filled
    <3>3. timerStruct[call[t].num] = Filled(t)
      BY <1>6 DEF SetInterval
    <3> QED
      BY <3>2, <3>3
  <2>4. CallGiven' /\ FillReset'
    BY <1>0, <1>2, <2>1 DEF PairInv, CallGiven, FillReset
  <2>5. PairWhole' /\ FireReady'
    BY <1>0, <1>2, <1>3, <2>1, <2>2, <2>3 DEF PairInv, PairWhole, FireReady, Filling, CallGiven
  <2>6. FrameGiven'
    BY <1>1, <2>1, <2>2 DEF PairInv, FrameGiven, IInv, FrameOK
  <2> QED
    BY <2>4, <2>5, <2>6 DEF PairInv
<1> QED
  BY <1>4, <1>5, <1>6

\* A call that arms or disarms the timers of enabled entries.
LEMMA SettimePair ==
  ASSUME OneCaller, IInv, PairInv, NEW t \in Callers,
         pc[t] # "fill", pc'[t] \notin {"fill", "settime"}, NEW i \in Timers,
         UNCHANGED <<timerStruct, handler, given, reset>>,
         \/ UNCHANGED <<kernel, pending>>
         \/ /\ timerStruct[i].enabled /\ pending' \subseteq pending
            /\ \A j \in Timers : j # i => kernel'[j] = kernel[j]
  PROVE  PairInv'
<1>0. t \in Threads /\ (\A u \in Callers : u = t)
  BY TimerAssumption DEF OneCaller
<1>1. CallGiven' /\ FillReset'
  BY <1>0 DEF PairInv, CallGiven, FillReset
<1>2. PairWhole'
  BY <1>0 DEF PairInv, PairWhole, Filling
<1>3. timerStruct[i].enabled => timerStruct[i].func # None
  <2>1. timerStruct[i].enabled => <<timerStruct[i].func, timerStruct[i].arg>> \in given[i]
    BY <1>0 DEF PairInv, PairWhole, Filling
  <2>2. given[i] \subseteq Funcs \X Args
    BY DEF IInv, TypeOK
  <2> QED
    BY <2>1, <2>2, TimerAssumption
<1>4. \A j \in Timers : MayFire(j)' => MayFire(j) \/ (j = i /\ timerStruct[i].enabled)
  <2>1. \A j \in Timers :
          /\ kernel'[j] # "off" => kernel[j] # "off" \/ (j = i /\ timerStruct[i].enabled)
          /\ j \in pending' => j \in pending
    OBVIOUS
  <2>2. handler' = handler
    OBVIOUS
  <2> QED
    BY <2>1, <2>2 DEF MayFire
<1>5. FireReady'
  BY <1>3, <1>4 DEF PairInv, FireReady
<1>6. FrameGiven'
  BY DEF PairInv, FrameGiven
<1> QED
  BY <1>1, <1>2, <1>5, <1>6 DEF PairInv

\* PairInv is inductive on top of IInv.
LEMMA PairInvNext ==
  ASSUME OneCaller, IInv, PairInv, [Next]_vars
  PROVE  PairInv'
<1>1. CASE UNCHANGED vars
  BY <1>1 DEF vars, table, threads, history, PairInv, CallGiven, FillReset, PairWhole,
              FireReady, FrameGiven, MayFire, Filling
<1>2. ASSUME NEW i \in Timers, Expire(i) \/ \E t \in Threads : Deliver(t, i) PROVE PairInv'
  BY <1>2, KernelPair
<1>3. ASSUME NEW t \in Threads, HandlerStep(t) PROVE PairInv'
  BY <1>3, HandlerPair
<1>4. ASSUME NEW t \in Callers, SetCall(t) \/ SetField(t) \/ SetInterval(t) PROVE PairInv'
  BY <1>4, SetPair
<1>5. ASSUME NEW t \in Callers, SetStart(t) PROVE PairInv'
  <2>1. t \in Threads /\ call[t].num \in Timers /\ pc[t] = "settime" /\ pc'[t] = "idle"
    BY <1>5, TimerAssumption DEF IInv, TypeOK, SetStart, At, Goto, CallOK
  <2>2. UNCHANGED <<timerStruct, handler, given, reset>>
    BY <1>5 DEF SetStart
  <2>3. \/ UNCHANGED <<kernel, pending>>
        \/ /\ timerStruct[call[t].num].enabled /\ pending' \subseteq pending
           /\ \A j \in Timers : j # call[t].num => kernel'[j] = kernel[j]
    BY <1>5, <2>1 DEF SetStart, Settime, IInv, TypeOK
  <2> QED
    BY <2>1, <2>2, <2>3, SettimePair
<1>6. ASSUME NEW t \in Callers, NEW label \in {"start", "stop"}, NEW how, NEW ask,
             Visit(t, label, how, ask)
      PROVE  PairInv'
  <2>1. /\ t \in Threads /\ call[t].num \in Timers /\ pc[t] \in {"start", "stop"}
        /\ pc'[t] \in {"idle", "start", "stop"}
    BY <1>6, TimerAssumption DEF IInv, TypeOK, Visit, At, Goto, CallOK
  <2>2. UNCHANGED <<timerStruct, handler, given, reset>>
    BY <1>6 DEF Visit
  <2>3. \/ UNCHANGED <<kernel, pending>>
        \/ /\ timerStruct[call[t].num].enabled /\ pending' \subseteq pending
           /\ \A j \in Timers : j # call[t].num => kernel'[j] = kernel[j]
    BY <1>6, <2>1 DEF Visit, Settime, IInv, TypeOK
  <2> QED
    BY <2>1, <2>2, <2>3, SettimePair
<1>7. ASSUME NEW t \in Callers, NEW label \in {"start", "stop"}, RangeCall(t, label)
      PROVE  PairInv'
  <2>1. /\ t \in Threads /\ pc[t] = "idle" /\ pc'[t] \in {"idle", "start", "stop"}
        /\ UNCHANGED <<timerStruct, kernel, pending, handler, given, reset>>
    BY <1>7, TimerAssumption DEF IInv, TypeOK, RangeCall, At, Goto, table, history
  <2>2. 0 \in Timers
    BY TimerAssumption DEF Timers
  <2> QED
    BY <2>1, <2>2, SettimePair
<1> QED
  BY <1>1, <1>2, <1>3, <1>4, <1>5, <1>6, <1>7
     DEF Next, CallerStep, StartOne, StopOne, StartCall, StopCall

\* PairInv holds in every state while one thread makes the calls.
LEMMA PairInvariant ==
  ASSUME OneCaller
  PROVE  Spec => []PairInv
<1>1. IInv /\ PairInv /\ [Next]_vars => PairInv'
  BY OneCaller, PairInvNext
<1> QED
  BY <1>1, Invariant, PairInvInit, PTL DEF Spec

\* While one thread makes the calls, a callback runs with the function and the argument
\* of one g_timer_set, unless its timer was set again while it might still fire.
THEOREM WholeCallbacks ==
  ASSUME OneCaller
  PROVE  Spec => []NoTornCallback
<1>1. PairInv => NoTornCallback
  BY DEF PairInv, FrameGiven, NoTornCallback
<1> QED
  BY <1>1, OneCaller, PairInvariant, PTL

\* While one thread makes the calls, with whatever numbers, the handler never calls NULL: a
\* signal can only come from an entry that has been filled.
THEOREM NullNeverCalled ==
  ASSUME OneCaller
  PROVE  Spec => []NeverCallsNull
<1>1. Init => NeverCallsNull
  BY DEF Init, NeverCallsNull
<1>2. IInv /\ PairInv /\ NeverCallsNull /\ [Next]_vars => NeverCallsNull'
  <2> SUFFICES ASSUME IInv, PairInv, NeverCallsNull, [Next]_vars
               PROVE  NeverCallsNull'
    OBVIOUS
  <2>1. CASE process' \in {process, "outside"}
    BY <2>1 DEF NeverCallsNull
  <2>2. ASSUME NEW t \in Threads, HandlerCall(t) PROVE NeverCallsNull'
    <3>1. handler[t].timer \in Timers /\ MayFire(handler[t].timer)
      BY <2>2 DEF HandlerCall, IInv, FrameOK, MayFire
    <3>2. timerStruct[handler[t].timer].func # None
      BY <3>1 DEF PairInv, FireReady
    <3> QED
      BY <2>1, <2>2, <3>2 DEF HandlerCall
  <2>3. ASSUME NEW t \in Callers, SetCall(t) \/ StartCall(t) \/ StopCall(t)
        PROVE  process' \in {process, "outside"}
    <3>1. CASE SetCall(t)
      BY <3>1 DEF SetCall
    <3>2. ASSUME NEW label, RangeCall(t, label) PROVE process' \in {process, "outside"}
      <4>1. PICK num \in Nums :
              IF num \notin Timers \cup {-1} THEN process' = "outside" ELSE UNCHANGED process
        BY <3>2 DEF RangeCall
      <4> QED
        BY <4>1
    <3> QED
      BY <2>3, <3>1, <3>2 DEF StartCall, StopCall
  <2>4. ASSUME NEW t \in Callers, CallerStep(t) PROVE UNCHANGED process
    BY <2>4 DEF CallerStep, SetField, SetInterval, SetStart, StartOne, StopOne, Visit
  <2>5. ASSUME NEW t \in Threads, CallbackArg(t) \/ HandlerReturn(t) PROVE UNCHANGED process
    BY <2>5 DEF CallbackArg, HandlerReturn
  <2>6. ASSUME NEW i \in Timers, Expire(i) \/ \E t \in Threads : Deliver(t, i)
        PROVE  UNCHANGED process
    BY <2>6 DEF Expire, Deliver
  <2>7. CASE Next
    BY <2>1, <2>2, <2>3, <2>4, <2>5, <2>6, <2>7 DEF Next, HandlerStep
  <2> QED
    BY <2>1, <2>7 DEF vars
<1> QED
  BY <1>1, <1>2, OneCaller, Invariant, PairInvariant, PTL DEF Spec
=============================================================================
