------------------------------- MODULE GTimer -------------------------------
(***************************************************************************)
(* The timers of g_timer/g_timer.c: a table of GTIMER_MAX entries, one     *)
(* kernel timer each, and one signal handler that calls the entry's        *)
(* function.  Callers set, start and stop timers while the handler         *)
(* interrupts any thread, theirs included.                                  *)
(*                                                                         *)
(* timer_create, timer_settime and SIGUSR2 belong to the kernel: a timer   *)
(* whose signal is still pending only counts an overrun when it expires    *)
(* again, and POSIX leaves open whether timer_settime takes a pending      *)
(* signal back.  The signal is blocked in a thread that is in the handler. *)
(*                                                                         *)
(* g_timer_set fills the entry with plain stores, which the compiler may   *)
(* make in any order up to its call of snprintf.  overRunCnt and the names *)
(* are only printed and left out.                                          *)
(***************************************************************************)
EXTENDS Integers, FiniteSets

CONSTANTS
  GTIMER_MAX,  \* entries of the table
  Threads,     \* the threads of the process; each may be interrupted
  Callers,     \* those that call g_timer_set, g_timer_start, g_timer_stop
  Nums,        \* the timer numbers they pass, the table's or not
  Funcs, Args, \* the callbacks and arguments they pass
  MaxCalls,    \* a bound on the calls of one run
  None         \* NULL

Timers == 0 .. GTIMER_MAX - 1

ASSUME TimerAssumption ==
  /\ GTIMER_MAX \in Nat \ {0} /\ Nums \subseteq Int /\ MaxCalls \in Nat
  /\ IsFiniteSet(Threads) /\ Callers \subseteq Threads /\ None \notin Funcs \cup Args

VARIABLES
  timerStruct,  \* the table
  kernel,       \* per timer: "off", "once", "repeat"
  pending,      \* the timers whose signal is pending
  pc, call,     \* per thread: where it is, the call it makes
  handler,      \* per thread: the handler's frame, if it was interrupted
  process,      \* "running", or undefined: called "null", went "outside" the table
  calls,        \* the calls made so far (bounded)
  asked,        \* history, per timer: what the last call that reached it asked for
  since,        \* history, per timer: callbacks called since it reached the timer
  owed,         \* history, per timer: handlers that had begun by then and not called yet
  given,        \* history, per timer: the <<func, arg>> pairs g_timer_set was given
  reset         \* history: timers set again while they might still fire

table   == <<timerStruct, kernel, pending>>
threads == <<pc, call, handler>>
history == <<asked, since, owed, given, reset>>
vars    == <<table, threads, process, calls, history>>

NoCall  == [num |-> None, func |-> None, arg |-> None, repeat |-> FALSE]
NoFrame == [timer |-> None, func |-> None, arg |-> None, at |-> "out"]

\* The state g_timer_init leaves: every kernel timer exists and is disarmed.
Init ==
  /\ timerStruct = [i \in Timers |-> [enabled |-> FALSE, interval |-> FALSE,
                                      func |-> None, arg |-> None]]
  /\ kernel = [i \in Timers |-> "off"] /\ pending = {}
  /\ pc = [t \in Threads |-> "idle"] /\ call = [t \in Threads |-> NoCall]
  /\ handler = [t \in Threads |-> NoFrame]
  /\ process = "running" /\ calls = 0
  /\ asked = [i \in Timers |-> "off"] /\ since = [i \in Timers |-> 0]
  /\ owed = [i \in Timers |-> 0]
  /\ given = [i \in Timers |-> {}] /\ reset = {}

Handled == {handler[t].timer : t \in Threads}
Live(i) == kernel[i] # "off" \/ i \in pending \/ i \in Handled

\* The threads that are in the handler for timer i and have not called its function yet.
Entered(i) == {t \in Threads : handler[t].at = "enter" /\ handler[t].timer = i}

\* A thread runs its own code only outside the handler.
At(t, label)   == pc[t] = label /\ handler[t] = NoFrame
Goto(t, label) == pc' = [pc EXCEPT ![t] = label]

-----------------------------------------------------------------------------
(* The kernel *)

\* timer_settime(i): arms the timer as "once" or "repeat", or disarms it.  The caller
\* of the library asked for the timer to do as ask says.
Settime(i, how, ask) ==
  /\ kernel' = [kernel EXCEPT ![i] = how] /\ asked' = [asked EXCEPT ![i] = ask]
  /\ pending' \in {pending, pending \ {i}}
  /\ since' = [since EXCEPT ![i] = 0]
  /\ owed' = [owed EXCEPT ![i] = Cardinality(Entered(i))]

Expire(i) ==
  /\ kernel[i] # "off" /\ pending' = pending \cup {i}
  /\ kernel' = [kernel EXCEPT ![i] = IF @ = "once" THEN "off" ELSE @]
  /\ UNCHANGED <<timerStruct, threads, process, calls, history>>

Deliver(t, i) ==
  /\ i \in pending /\ handler[t] = NoFrame
  /\ pending' = pending \ {i}
  /\ handler' = [handler EXCEPT ![t] = [NoFrame EXCEPT !.timer = i, !.at = "enter"]]
  /\ UNCHANGED <<timerStruct, kernel, pc, call, process, calls, history>>

-----------------------------------------------------------------------------
(* g_timer_handler, and the callback it calls *)

\* The handler calls ts->func; calling NULL is undefined.  (since is counted up to three
\* more than were owed.)
HandlerCall(t) ==
  /\ handler[t].at = "enter"
  /\ LET i == handler[t].timer
         f == timerStruct[i].func
     IN  /\ handler' = [handler EXCEPT ![t].func = f, ![t].at = "callback"]
         /\ process' = IF f = None THEN "null" ELSE process
         /\ since' = [since EXCEPT ![i] = IF @ < owed[i] + 3 THEN @ + 1 ELSE @]
  /\ UNCHANGED <<table, pc, call, calls, asked, owed, given, reset>>

\* The callback gets the timer's number and reads its argument from the table.
CallbackArg(t) ==
  /\ handler[t].at = "callback"
  /\ handler' = [handler EXCEPT ![t].arg = timerStruct[handler[t].timer].arg,
                                ![t].at = "end"]
  /\ UNCHANGED <<table, pc, call, process, calls, history>>

HandlerReturn(t) ==
  /\ handler[t].at = "end" /\ handler' = [handler EXCEPT ![t] = NoFrame]
  /\ UNCHANGED <<table, pc, call, process, calls, history>>

-----------------------------------------------------------------------------
(* g_timer_set *)

\* The test lets GTIMER_MAX and negative numbers pass.
Known(num) == num <= GTIMER_MAX

SetCall(t) ==
  /\ At(t, "idle") /\ calls < MaxCalls
  /\ calls' = calls + 1
  /\ \E num \in Nums, f \in Funcs, a \in Args, r \in BOOLEAN :
       IF ~Known(num)
       THEN UNCHANGED <<pc, call, process, given, reset>>
       ELSE IF num \notin Timers
       THEN process' = "outside" /\ UNCHANGED <<pc, call, given, reset>>
       ELSE /\ Goto(t, "fill") /\ UNCHANGED process
            /\ call' = [call EXCEPT ![t] = [num |-> num, func |-> f, arg |-> a,
                                            repeat |-> r]]
            /\ given' = [given EXCEPT ![num] = @ \cup {<<f, a>>}]
            /\ reset' = IF Live(num) THEN reset \cup {num} ELSE reset
  /\ UNCHANGED <<table, handler, asked, since, owed>>

\* Mutants: g_timer_set forgets to enable the entry; to store the argument, the function.
FilledDisabled(t) ==
  [timerStruct[call[t].num] EXCEPT !.func = call[t].func, !.arg = call[t].arg]
FilledNoArg(t) ==
  [timerStruct[call[t].num] EXCEPT !.enabled = TRUE, !.func = call[t].func]
FilledNoFunc(t) ==
  [timerStruct[call[t].num] EXCEPT !.enabled = TRUE, !.arg = call[t].arg]

\* What the entry holds once every store up to snprintf is made.
Filled(t) ==
  [timerStruct[call[t].num] EXCEPT !.enabled = TRUE, !.func = call[t].func,
                                   !.arg = call[t].arg]

\* One of the stores to enabled, func and arg, in the order the build makes them.
SetField(t) ==
  /\ At(t, "fill")
  /\ \E field \in {"enabled", "func", "arg"} :
       LET i == call[t].num
       IN  /\ timerStruct[i][field] # Filled(t)[field]
           /\ timerStruct' = [timerStruct EXCEPT ![i][field] = Filled(t)[field]]
  /\ UNCHANGED <<kernel, pending, threads, process, calls, history>>

\* Mutant: a timer that is set to fire once keeps its old interval.
SetIntervalKept(t) ==
  /\ At(t, "fill") /\ timerStruct[call[t].num] = Filled(t) /\ Goto(t, "settime")
  /\ timerStruct' = [timerStruct EXCEPT ![call[t].num].interval = @ \/ call[t].repeat]
  /\ UNCHANGED <<kernel, pending, call, handler, process, calls, history>>

SetInterval(t) ==
  /\ At(t, "fill") /\ timerStruct[call[t].num] = Filled(t) /\ Goto(t, "settime")
  /\ timerStruct' = [timerStruct EXCEPT ![call[t].num].interval = call[t].repeat]
  /\ UNCHANGED <<kernel, pending, call, handler, process, calls, history>>

Kind(repeat) == IF repeat THEN "repeat" ELSE "once"
How(i)       == Kind(timerStruct[i].interval)

\* g_timer_set ends in g_timer_start(num).
SetStart(t) ==
  /\ At(t, "settime") /\ Goto(t, "idle")
  /\ LET i == call[t].num
     IN  IF timerStruct[i].enabled THEN Settime(i, How(i), Kind(call[t].repeat))
         ELSE UNCHANGED <<kernel, pending, asked, since, owed>>
  /\ call' = [call EXCEPT ![t] = NoCall]
  /\ UNCHANGED <<timerStruct, handler, process, calls, given, reset>>

-----------------------------------------------------------------------------
(* g_timer_start and g_timer_stop, of one timer or of all *)

\* The call visits the timers from call.num up to call.arg: -1 stands for the whole table,
\* and any other number indexes the table without a test.
RangeCall(t, label) ==
  /\ At(t, "idle") /\ calls < MaxCalls
  /\ calls' = calls + 1
  /\ \E num \in Nums :
       IF num \notin Timers \cup {-1}
       THEN process' = "outside" /\ UNCHANGED <<pc, call>>
       ELSE /\ Goto(t, label) /\ UNCHANGED process
            /\ call' = [call EXCEPT ![t] =
                 [num |-> IF num = -1 THEN 0 ELSE num, func |-> None,
                  arg |-> IF num = -1 THEN GTIMER_MAX - 1 ELSE num, repeat |-> FALSE]]
  /\ UNCHANGED <<table, handler, history>>

StartCall(t) == RangeCall(t, "start")
StopCall(t)  == RangeCall(t, "stop")

\* Mutant: the loop runs one entry too far.
LastLate(t) == call[t].num > call[t].arg

Last(t) == call[t].num >= call[t].arg

\* One turn of the loop: an entry that was never set is skipped.
Visit(t, label, how, ask) ==
  /\ At(t, label)
  /\ LET i == call[t].num
     IN  /\ IF timerStruct[i].enabled THEN Settime(i, how, ask)
            ELSE UNCHANGED <<kernel, pending, asked, since, owed>>
         /\ IF Last(t)
            THEN call' = [call EXCEPT ![t] = NoCall] /\ Goto(t, "idle")
            ELSE call' = [call EXCEPT ![t].num = i + 1] /\ UNCHANGED pc
  /\ UNCHANGED <<timerStruct, handler, process, calls, given, reset>>

StartOne(t) == Visit(t, "start", How(call[t].num), How(call[t].num))

\* Mutant: stop clears the interval and leaves the timer armed.
StopOneArmed(t) == Visit(t, "stop", "once", "off")

StopOne(t) == Visit(t, "stop", "off", "off")

-----------------------------------------------------------------------------
(* The specification *)

CallerStep(t) ==
  \/ SetField(t) \/ SetInterval(t) \/ SetStart(t)
  \/ StartOne(t) \/ StopOne(t)

HandlerStep(t) == HandlerCall(t) \/ CallbackArg(t) \/ HandlerReturn(t)

Running(A) == process = "running" /\ A

Next ==
  /\ process = "running"
  /\ \/ \E i \in Timers : Expire(i)
     \/ \E t \in Threads, i \in Timers : Deliver(t, i)
     \/ \E t \in Threads : HandlerStep(t)
     \/ \E t \in Callers : SetCall(t) \/ StartCall(t) \/ StopCall(t) \/ CallerStep(t)

Spec == Init /\ [][Next]_vars

\* Armed timers expire, pending signals are delivered, and every thread is scheduled;
\* timers are seconds long, so a caller gets on between the signals that interrupt it.
Fairness ==
  /\ \A i \in Timers : WF_vars(Running(Expire(i)))
  /\ \A i \in Timers : SF_vars(Running(\E t \in Threads : Deliver(t, i)))
  /\ \A t \in Threads : WF_vars(Running(HandlerStep(t))) /\ SF_vars(Running(CallerStep(t)))

FairSpec == Spec /\ Fairness

-----------------------------------------------------------------------------
(* Properties *)

\* Every variable keeps its type.
TypeOK ==
  /\ timerStruct \in [Timers -> [enabled : BOOLEAN, interval : BOOLEAN,
                                 func : Funcs \cup {None}, arg : Args \cup {None}]]
  /\ kernel \in [Timers -> {"off", "once", "repeat"}] /\ pending \subseteq Timers
  /\ pc \in [Threads -> {"idle", "fill", "settime", "start", "stop"}]
  /\ \A t \in Threads : {call[t].num, handler[t].timer} \subseteq Timers \cup {None}
  /\ process \in {"running", "null", "outside"} /\ calls \in 0 .. MaxCalls
  /\ asked \in [Timers -> {"off", "once", "repeat"}]
  /\ since \in [Timers -> Nat] /\ owed \in [Timers -> Nat]
  /\ given \in [Timers -> SUBSET (Funcs \X Args)] /\ reset \subseteq Timers

\* After g_timer_stop a timer's callback is called at most once more for the signal that was
\* already pending, and once by each thread that was in the handler (g_timer.c:16-24) then.
OneLateCallback == \A i \in Timers : asked[i] = "off" => since[i] <= owed[i] + 1

\* After a start a timer set with repeat 0 has its callback called at most once for this
\* start, once for a signal left over from before, and once by each thread that was already
\* in the handler.
FiresOnce == \A i \in Timers : asked[i] = "once" => since[i] <= owed[i] + 2

\* The handler never calls NULL: whatever interrupts g_timer_set between its stores, no signal
\* finds an entry without a function.
NeverCallsNull == process # "null"

\* A callback never runs with the function of one g_timer_set and the argument of
\* another, unless the timer was set again while it might still fire.
NoTornCallback ==
  \A t \in Threads :
    handler[t].at = "end" /\ handler[t].timer \notin reset =>
      <<handler[t].func, handler[t].arg>> \in given[handler[t].timer]

\* A timer that is being set eventually runs its callback, unless a timer is stopped or a
\* later call leaves the table.
SetTimersFire ==
  \A i \in Timers :
    (\E t \in Threads : pc[t] = "fill" /\ call[t].num = i) ~>
      \/ \E t \in Threads : handler[t].timer = i /\ handler[t].at \in {"callback", "end"}
      \/ \E t \in Threads : pc[t] = "stop"
      \/ process = "outside"
=============================================================================
