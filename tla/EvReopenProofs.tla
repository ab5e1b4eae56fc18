--------------------------- MODULE EvReopenProofs ---------------------------
(***************************************************************************)
(* Proofs about the engine and its schedule threads: the types, who is in  *)
(* pthread_once, and how many threads the openings leave, for every number *)
(* of jobs, of threads that call event_stop and of schedule threads.       *)
(***************************************************************************)
EXTENDS EvReopen, FiniteSetTheorems, TLAPS

-----------------------------------------------------------------------------
(* Types *)

\* Initially every variable has its type.
LEMMA TypeInit == EngineInit => TypeOK
<1> SUFFICES ASSUME EngineInit PROVE TypeOK
  OBVIOUS
<1> USE LifeAssumption, EngineAssumption DEF EngineInit, LifeInit, Threads
<1>1. at \in [Threads -> Places] /\ type \in [Threads -> Types]
  BY DEF Places, Types
<1>2. /\ pt \in [Types -> Numbers \cup {None}] /\ joining \in [Callers -> Numbers \cup {None}]
      /\ \A y \in Types : pt[y] = None
  OBVIOUS
<1>3. LifeType
  BY <1>1, <1>2 DEF LifeType
<1>4. \A c \in Callers : at[c] = "idle" /\ step[c] = "off"
  OBVIOUS
<1> QED BY <1>3, <1>4 DEF TypeOK

\* A creation takes a thread that was off, and changes nobody else but its creator.
LEMMA Creation ==
  ASSUME TypeOK, NEW t \in Threads, at[t] # "off", NEW u, NEW y \in Types,
         NEW label \in Places \ {"off"}, Create(t, u, y, label)
  PROVE  /\ u \in Numbers /\ at[u] = "off" /\ u # t
         /\ at' \in [Threads -> Places] /\ type' \in [Threads -> Types]
         /\ at'[u] = "start" /\ type'[u] = y /\ at'[t] = label /\ type'[t] = type[t]
         /\ \A v \in Threads \ {t, u} : at'[v] = at[v] /\ type'[v] = type[v]
  BY DEF Create, TypeOK, LifeType, Threads, Places

\* The first creation of sche_init.
LEMMA CreatesSD ==
  ASSUME TypeOK, NEW t \in Threads, CreateSD(t)
  PROVE  \E u \in Numbers :
           /\ at[u] = "off" /\ u # t /\ at' \in [Threads -> Places] /\ type' \in [Threads -> Types]
           /\ at'[u] = "start" /\ type'[u] = SD /\ at'[t] = "create_light" /\ type'[t] = type[t]
           /\ \A v \in Threads \ {t, u} : at'[v] = at[v] /\ type'[v] = type[v]
           /\ pt' = [y \in Types |-> IF y = SD THEN u ELSE None]
<1>1. PICK u \in Numbers : /\ Create(t, u, SD, "create_light")
                           /\ pt' = [y \in Types |-> IF y = SD THEN u ELSE None]
  BY DEF CreateSD
<1>2. at[t] # "off" /\ SD \in Types /\ "create_light" \in Places \ {"off"}
  BY DEF CreateSD, Types, Places
<1> QED BY <1>1, <1>2, Creation DEF Types

\* The second one ends sche_init.
LEMMA CreatesLight ==
  ASSUME TypeOK, NEW t \in Threads, CreateLight(t)
  PROVE  \E u \in Numbers :
           /\ at[u] = "off" /\ u # t /\ at' \in [Threads -> Places] /\ type' \in [Threads -> Types]
           /\ at'[u] = "start" /\ type'[u] = LIGHT /\ type'[t] = type[t]
           /\ at'[t] = IF t \in Callers THEN "idle" ELSE "loop"
           /\ \A v \in Threads \ {t, u} : at'[v] = at[v] /\ type'[v] = type[v]
           /\ pt' = [pt EXCEPT ![LIGHT] = u]
<1>1. PICK u \in Numbers : /\ Create(t, u, LIGHT, IF t \in Callers THEN "idle" ELSE "loop")
                           /\ pt' = [pt EXCEPT ![LIGHT] = u]
  BY DEF CreateLight
<1>2. at[t] # "off" /\ LIGHT \in Types /\ {"idle", "loop"} \subseteq Places \ {"off"}
  BY DEF CreateLight, Types, Places
<1>3. CASE t \in Callers
  <2>1. Create(t, u, LIGHT, "idle")
    BY <1>1, <1>3
  <2> QED BY <1>1, <1>2, <1>3, <2>1, Creation, ZenonT(40) DEF Types
<1>4. CASE t \notin Callers
  <2>1. Create(t, u, LIGHT, "loop")
    BY <1>1, <1>4
  <2> QED BY <1>1, <1>2, <1>4, <2>1, Creation, ZenonT(40) DEF Types
<1> QED BY <1>3, <1>4

\* pthread_cond_signal ends one waiting thread at most.
LEMMA Signal ==
  ASSUME TypeOK, NEW c \in Callers, StopSignal(c)
  PROVE  /\ at[c] = "idle" /\ at' \in [Threads -> Places] /\ at'[c] = "stop_sd"
         /\ \A t \in Threads \ {c} : at'[t] = at[t] \/ (at[t] = "wait" /\ at'[t] = "done")
         /\ \A t, v \in Threads : at[t] # "done" /\ at[v] # "done" =>
              (at'[t] = "done" /\ at'[v] = "done" => t = v)
<1>1. /\ at \in [Threads -> Places] /\ c \in Threads /\ at[c] = "idle"
      /\ {"done", "stop_sd"} \subseteq Places
  BY DEF TypeOK, LifeType, Threads, Places, StopSignal
<1>2. CASE Move(c, "stop_sd")
  <2>1. /\ at' \in [Threads -> Places] /\ at'[c] = "stop_sd"
        /\ \A t \in Threads \ {c} : at'[t] = at[t]
    BY <1>1, <1>2 DEF Move
  <2> QED BY <1>1, <2>1
<1>3. ASSUME NEW u \in Waiting, at' = [at EXCEPT ![u] = "done", ![c] = "stop_sd"]
      PROVE  /\ u \in Threads /\ u # c /\ at[u] = "wait" /\ at' \in [Threads -> Places]
             /\ at'[u] = "done" /\ at'[c] = "stop_sd"
             /\ \A t \in Threads \ {c, u} : at'[t] = at[t]
  BY <1>1, <1>3 DEF Waiting
<1>4. CASE \E u \in Waiting : at' = [at EXCEPT ![u] = "done", ![c] = "stop_sd"]
  <2>1. PICK u \in Waiting : at' = [at EXCEPT ![u] = "done", ![c] = "stop_sd"]
    BY <1>4
  <2>2. /\ u \in Threads /\ u # c /\ at[u] = "wait" /\ at' \in [Threads -> Places]
        /\ at'[u] = "done" /\ at'[c] = "stop_sd"
        /\ \A t \in Threads \ {c, u} : at'[t] = at[t]
    BY <1>3, <2>1
  <2> QED BY <1>1, <2>2
<1> QED BY <1>2, <1>4 DEF StopSignal

\* A step of the joins of sche_stop moves its caller, and an entry of ptStruct only forgets.
LEMMA Joins ==
  ASSUME TypeOK, NEW c \in Callers, StopJoins(c)
  PROVE  /\ at[c] \in {"stop_sd", "join_sd", "stop_light", "join_light"}
         /\ at' \in [Threads -> Places] /\ at'[c] # "off"
         /\ \A t \in Threads \ {c} : at'[t] = at[t]
         /\ pt' \in [Types -> Numbers \cup {None}]
         /\ joining' \in [Callers -> Numbers \cup {None}]
         /\ \A y \in Types : pt'[y] = pt[y] \/ pt'[y] = None
         /\ type' = type /\ once' = once /\ misuse' \subseteq {"reinit", "join"}
<1>1. /\ at \in [Threads -> Places] /\ c \in Threads /\ SD \in Types /\ LIGHT \in Types
      /\ pt \in [Types -> Numbers \cup {None}] /\ joining \in [Callers -> Numbers \cup {None}]
      /\ misuse \subseteq {"reinit", "join"}
  BY DEF TypeOK, LifeType, Threads, Types
<1>2. ASSUME NEW from, NEW y \in Types, NEW to \in Places \ {"off"}, JoinCall(c, from, y, to)
      PROVE  /\ at[c] = from /\ at' \in [Threads -> Places] /\ at'[c] # "off"
             /\ \A t \in Threads \ {c} : at'[t] = at[t]
             /\ pt' = pt /\ joining' \in [Callers -> Numbers \cup {None}]
             /\ type' = type /\ once' = once /\ misuse' \subseteq {"reinit", "join"}
  BY <1>1, <1>2 DEF JoinCall, Move
<1>3. ASSUME NEW from, NEW y \in Types, NEW to \in Places \ {"off"}, JoinReturn(c, from, y, to)
      PROVE  /\ at[c] = from /\ at' \in [Threads -> Places] /\ at'[c] # "off"
             /\ \A t \in Threads \ {c} : at'[t] = at[t]
             /\ pt' \in [Types -> Numbers \cup {None}]
             /\ joining' \in [Callers -> Numbers \cup {None}]
             /\ \A z \in Types : pt'[z] = pt[z] \/ pt'[z] = None
             /\ type' = type /\ once' = once /\ misuse' = misuse
  BY <1>1, <1>3 DEF JoinReturn, Move
<1>4. {"join_sd", "stop_light", "join_light", "idle"} \subseteq Places \ {"off"}
  BY DEF Places
<1>5. CASE JoinCall(c, "stop_sd", SD, "join_sd")
  BY <1>1, <1>2, <1>4, <1>5
<1>6. CASE JoinReturn(c, "join_sd", SD, "stop_light")
  BY <1>1, <1>3, <1>4, <1>6
<1>7. CASE JoinCall(c, "stop_light", LIGHT, "join_light")
  BY <1>1, <1>2, <1>4, <1>7
<1>8. CASE JoinReturn(c, "join_light", LIGHT, "idle")
  BY <1>1, <1>3, <1>4, <1>8
<1> QED BY <1>5, <1>6, <1>7, <1>8 DEF StopJoins

\* A step that starts no thread, ends none for good and makes ptStruct only forget.
LEMMA KeepsLife ==
  ASSUME LifeType, at' \in [Threads -> Places], type' = type, once' \in {"new", "busy", "done"},
         \A t \in Threads : at[t] # "off" => at'[t] # "off",
         pt' \in [Types -> Numbers \cup {None}], \A y \in Types : pt'[y] = pt[y] \/ pt'[y] = None,
         joining' \in [Callers -> Numbers \cup {None}], misuse' \subseteq {"reinit", "join"}
  PROVE  LifeType'
  BY DEF LifeType, Threads

\* Every step keeps the types, and the entries of ptStruct name threads of their type.
LEMMA TypeStep == TypeOK /\ [EngineNext]_engineVars => TypeOK'
<1> SUFFICES ASSUME TypeOK, [EngineNext]_engineVars PROVE TypeOK'
  OBVIOUS
<1> USE LifeAssumption, EngineAssumption DEF Threads
<1>Push. ASSUME NEW j \in Jobs, Push(j) PROVE TypeOK'
  BY <1>Push DEF Push, TypeOK, LifeType, life, Goto
<1>PushCheck. ASSUME NEW j \in Jobs, PushCheck(j) PROVE TypeOK'
  BY <1>PushCheck DEF PushCheck, TypeOK, LifeType, life, Goto
<1>StopClose. ASSUME NEW s \in Stoppers, StopClose(s) PROVE TypeOK'
  BY <1>StopClose DEF StopClose, TypeOK, LifeType, life, Goto
<1>Open. ASSUME NEW c \in Callers, Open(c) PROVE TypeOK'
  BY <1>Open DEF Open, TypeOK, LifeType, life, Goto
<1>CallInit. ASSUME NEW c \in Callers, CallInit(c) PROVE TypeOK'
  BY <1>CallInit DEF CallInit, SyncInit, Move, TypeOK, LifeType, Goto, Places, Types
<1>CallStop. ASSUME NEW s \in Stoppers, CallStop(s) PROVE TypeOK'
  <2>1. /\ s \in Callers /\ at[s] = "idle"
        /\ at' \in [Threads -> Places] /\ at'[s] = "stop_sd"
        /\ \A t \in Threads \ {s} : at'[t] = at[t] \/ (at[t] = "wait" /\ at'[t] = "done")
    BY <1>CallStop, Signal DEF CallStop
  <2>2. UNCHANGED <<type, once, pt, joining, misuse>>
    BY <1>CallStop DEF CallStop, StopSignal
  <2>3. LifeType'
    <3>1. LifeType /\ \A t \in Threads : at[t] # "off" => at'[t] # "off"
      BY <2>1 DEF TypeOK
    <3>2. /\ pt' \in [Types -> Numbers \cup {None}] /\ joining' \in [Callers -> Numbers \cup {None}]
          /\ once' \in {"new", "busy", "done"} /\ misuse' \subseteq {"reinit", "join"}
      BY <2>2 DEF TypeOK, LifeType
    <3> QED BY <2>1, <2>2, <3>1, <3>2, KeepsLife
  <2> QED
    BY <1>CallStop, <2>1, <2>3 DEF CallStop, TypeOK, Goto
<1>InStop. ASSUME NEW s \in Stoppers, InStop(s) PROVE TypeOK'
  <2>1. /\ s \in Callers /\ at[s] # "idle" /\ at' \in [Threads -> Places] /\ at'[s] # "off"
        /\ \A t \in Threads \ {s} : at'[t] = at[t]
        /\ pt' \in [Types -> Numbers \cup {None}] /\ joining' \in [Callers -> Numbers \cup {None}]
        /\ \A y \in Types : pt'[y] = pt[y] \/ pt'[y] = None
        /\ type' = type /\ once' = once /\ misuse' \subseteq {"reinit", "join"}
    BY <1>InStop, Joins DEF InStop
  <2>3. LifeType'
    <3>1. /\ LifeType /\ once' \in {"new", "busy", "done"}
          /\ \A t \in Threads : at[t] # "off" => at'[t] # "off"
      BY <2>1 DEF TypeOK, LifeType
    <3> QED BY <2>1, <3>1, KeepsLife
  <2>4. /\ step[s] = "in_stop" /\ UNCHANGED <<gEventAlive, openings, unasked>>
        /\ step' \in {step, [step EXCEPT ![s] = "open"]} /\ (at'[s] = "idle" <=> step' # step)
    BY <1>InStop, <2>1 DEF InStop, Goto, TypeOK
  <2>5. /\ gEventAlive' \in {0, 1, -1} /\ openings' \in Nat /\ unasked' \in BOOLEAN
        /\ step' \in [Callers -> {"off", "check", "open", "sche_init", "in_init",
                                   "sche_stop", "in_stop", "done"}]
    BY <2>4 DEF TypeOK
  <2>6. ASSUME NEW c \in Callers PROVE at'[c] = "idle" <=> step'[c] \notin {"in_init", "in_stop"}
    <3>1. CASE c = s
      BY <2>1, <2>4, <3>1 DEF TypeOK
    <3>2. CASE c # s
      BY <2>1, <2>4, <3>2 DEF TypeOK, Threads
    <3> QED BY <3>1, <3>2
  <2> QED
    BY <2>3, <2>5, <2>6 DEF TypeOK
<1>CreateSD. ASSUME NEW t \in Threads, CreateSD(t), UNCHANGED <<gEventAlive, openings, unasked>>,
                    \/ t \in Numbers /\ UNCHANGED step
                    \/ /\ t \in Callers /\ step[t] = "in_init"
                       /\ IF at'[t] = "idle" THEN Goto(t, "done") ELSE UNCHANGED step
             PROVE TypeOK'
  <2>1. PICK u \in Numbers :
          /\ at[u] = "off" /\ u # t /\ at' \in [Threads -> Places] /\ type' \in [Threads -> Types]
          /\ at'[u] = "start" /\ type'[u] = SD /\ at'[t] = "create_light"
          /\ \A v \in Threads \ {t, u} : at'[v] = at[v] /\ type'[v] = type[v]
          /\ pt' = [y \in Types |-> IF y = SD THEN u ELSE None]
    BY <1>CreateSD, CreatesSD
  <2>3. LifeType'
    BY <1>CreateSD, <2>1 DEF CreateSD, TypeOK, LifeType, Types
  <2> QED
    BY <1>CreateSD, <2>1, <2>3 DEF CreateSD, TypeOK, Goto
<1>CreateLight. ASSUME NEW t \in Threads, CreateLight(t),
                       UNCHANGED <<gEventAlive, openings, unasked>>,
                       \/ t \in Numbers /\ UNCHANGED step
                       \/ /\ t \in Callers /\ step[t] = "in_init"
                          /\ IF at'[t] = "idle" THEN Goto(t, "done") ELSE UNCHANGED step
                PROVE TypeOK'
  <2>2. at[t] = "create_light" /\ t \in Threads
    BY <1>CreateLight DEF CreateLight
  <2>3. PICK u \in Numbers :
          /\ at[u] = "off" /\ u # t /\ at' \in [Threads -> Places] /\ type' \in [Threads -> Types]
          /\ at'[u] = "start" /\ type'[u] = LIGHT /\ type'[t] = type[t]
          /\ at'[t] = IF t \in Callers THEN "idle" ELSE "loop"
          /\ \A v \in Threads \ {t, u} : at'[v] = at[v] /\ type'[v] = type[v]
          /\ pt' = [pt EXCEPT ![LIGHT] = u]
    BY <1>CreateLight, CreatesLight
  <2>4. /\ pt' \in [Types -> Numbers \cup {None}] /\ joining' = joining /\ misuse' = misuse
        /\ pt'[LIGHT] = u /\ pt'[SD] = pt[SD] /\ once' \in {"new", "busy", "done"}
    BY <1>CreateLight, <2>3 DEF CreateLight, TypeOK, LifeType, Types
  <2>5. LifeType'
    <3>1. /\ pt \in [Types -> Numbers \cup {None}]
          /\ pt[SD] # None => at[pt[SD]] # "off" /\ type[pt[SD]] = SD
      BY DEF TypeOK, LifeType, Types
    <3>2. pt'[SD] # None => at'[pt'[SD]] # "off" /\ type'[pt'[SD]] = SD
      BY <2>3, <2>4, <3>1 DEF Types
    <3> QED BY <2>3, <2>4, <3>2 DEF TypeOK, LifeType, Types
  <2>6. at'[t] = "idle" <=> t \in Callers
    BY <2>3
  <2> QED
    BY <1>CreateLight, <2>2, <2>3, <2>5, <2>6, LifeAssumption, ZenonT(40) DEF TypeOK, Goto, Threads
<1>InInit. ASSUME NEW c \in Callers, InInit(c) PROVE TypeOK'
  BY <1>InInit, <1>CreateSD, <1>CreateLight DEF InInit, InitStep
<1>Thread. ASSUME NEW t \in Numbers, Thread(t) PROVE TypeOK'
  <2>1. CASE InitStep(t)
    BY <1>Thread, <2>1, <1>CreateSD, <1>CreateLight DEF Thread, InitStep, engine
  <2>2. CASE at[t] = "init" /\ SyncInit(t)
    <3>1. /\ at' \in [Threads -> Places] /\ at'[t] # "off"
          /\ \A v \in Threads \ {t} : at'[v] = at[v]
          /\ pt' \in [Types -> Numbers \cup {None}] /\ pt'[SD] = None /\ pt'[LIGHT] = pt[LIGHT]
          /\ UNCHANGED <<type, once, joining>> /\ misuse' \subseteq {"reinit", "join"}
      BY <2>2 DEF SyncInit, Move, TypeOK, LifeType, Places, Types
    <3>2. LifeType'
      BY <3>1, ZenonT(40) DEF TypeOK, LifeType, Types
    <3> QED BY <1>Thread, <3>1, <3>2 DEF Thread, engine, TypeOK
  <2>3. CASE Enter(t) \/ Wait(t) \/ TimedOut(t)
    <3>1. /\ at' \in [Threads -> Places] /\ at'[t] # "off" /\ at[t] # "idle" /\ at'[t] # "idle"
          /\ \A v \in Threads \ {t} : at'[v] = at[v]
          /\ UNCHANGED <<type, pt, joining, misuse>> /\ once' \in {"new", "busy", "done"}
      <4>1. CASE Enter(t)
        <5>1. \/ Move(t, "init") /\ once' = "busy"
              \/ Move(t, "loop") /\ once' = once
          BY <4>1 DEF Enter
        <5>2. at[t] = "start" /\ UNCHANGED <<type, pt, joining, misuse>>
          BY <4>1 DEF Enter
        <5>3. \A label \in {"init", "loop"} : Move(t, label) =>
                at' \in [Threads -> Places] /\ at'[t] = label /\ \A v \in Threads \ {t} : at'[v] = at[v]
          BY DEF Move, TypeOK, LifeType, Places
        <5>4. once' \in {"new", "busy", "done"}
          BY <5>1 DEF TypeOK, LifeType
        <5> QED BY <5>1, <5>2, <5>3, <5>4
      <4>2. CASE Wait(t)
        BY <4>2 DEF Wait, Move, TypeOK, LifeType, Places
      <4>3. CASE TimedOut(t)
        BY <4>3 DEF TimedOut, Move, TypeOK, LifeType, Places
      <4> QED BY <2>3, <4>1, <4>2, <4>3
    <3>2. LifeType'
      BY <3>1, KeepsLife DEF TypeOK, LifeType
    <3> QED BY <1>Thread, <3>1, <3>2 DEF Thread, engine, TypeOK
  <2> QED BY <1>Thread, <2>1, <2>2, <2>3 DEF Thread, ThreadStep
<1>Unasked. ASSUME NEW t \in Numbers, Unasked(t) PROVE TypeOK'
  BY <1>Unasked DEF Unasked, SpuriousWake, Move, TypeOK, LifeType, Places
<1>Stutter. ASSUME UNCHANGED engineVars PROVE TypeOK'
  BY <1>Stutter DEF engineVars, engine, life, TypeOK, LifeType
<1> QED
  BY <1>Push, <1>PushCheck, <1>StopClose, <1>Open, <1>CallInit, <1>CallStop, <1>InStop,
     <1>InInit, <1>Thread, <1>Unasked, <1>Stutter DEF EngineNext

\* The types hold for every number of jobs, stops and schedule threads.
THEOREM TypeCorrect == EngineSpec => []TypeOK
  BY TypeInit, TypeStep, PTL DEF EngineSpec

-----------------------------------------------------------------------------
(* pthread_once: one schedule thread is inside it, and nobody is past it before it *)

Inside == {"init", "create_sd", "create_light"}

OnceOK ==
  /\ \A c \in Callers : at[c] \notin {"off", "start", "init", "loop", "wait", "done"}
  /\ \A t \in Numbers : at[t] \in Inside => once = "busy"
  /\ \A t, u \in Numbers : at[t] \in Inside /\ at[u] \in Inside => t = u
  /\ \A t \in Numbers : at[t] \in {"loop", "wait", "done"} => once = "done"
  /\ openings = 0 => /\ \A t \in Numbers : at[t] = "off"
                     /\ \A c \in Callers : at[c] \notin {"create_sd", "create_light"}
  /\ ReinitByReopening

\* A step that leaves pthread_once and the openings alone.
LEMMA OnceKept ==
  ASSUME TypeOK, OnceOK, openings' = openings, once' = once,
         "reinit" \in misuse' => "reinit" \in misuse,
         \A t \in Numbers : \/ at'[t] = at[t]
                            \/ at[t] \in {"loop", "wait"} /\ at'[t] \in {"loop", "wait", "done"},
         \A c \in Callers : \/ at'[c] = at[c]
                            \/ at'[c] \in {"idle", "stop_sd", "join_sd", "stop_light", "join_light"}
  PROVE  OnceOK'
<1>1. \A t \in Numbers : at'[t] \in Inside => at[t] \in Inside
  BY DEF Inside
<1>2. \A c \in Callers :
        /\ at'[c] \notin {"off", "start", "init", "loop", "wait", "done"}
        /\ at'[c] \in {"create_sd", "create_light"} => at'[c] = at[c]
  BY DEF OnceOK
<1>3. \A t \in Numbers : at'[t] \in {"loop", "wait", "done"} => once = "done"
  BY DEF OnceOK
<1>4. openings = 0 => \A t \in Numbers : at'[t] = "off"
  BY DEF OnceOK
<1> QED BY <1>1, <1>2, <1>3, <1>4 DEF OnceOK, ReinitByReopening

\* The moves of one thread.
LEMMA Moves ==
  ASSUME TypeOK, NEW t \in Threads, NEW label, Move(t, label)
  PROVE  at'[t] = label /\ \A v \in Threads \ {t} : at'[v] = at[v]
  BY DEF Move, TypeOK, LifeType

\* The steps of the engine, told by what they do to the schedule threads.
LEMMA EngineSteps ==
  ASSUME TypeOK, [EngineNext]_engineVars
  PROVE  \/ UNCHANGED <<life, openings, unasked>>
         \/ \E c \in Callers : CallInit(c)
         \/ \E s \in Stoppers : CallStop(s) \/ InStop(s)
         \/ /\ UNCHANGED <<openings, unasked>>
            /\ \E t \in Threads : CreateSD(t) \/ CreateLight(t)
         \/ /\ UNCHANGED <<openings, unasked>>
            /\ \E t \in Numbers : \/ at[t] = "init" /\ SyncInit(t)
                                  \/ Enter(t) \/ Wait(t) \/ TimedOut(t)
         \/ \E t \in Numbers : Unasked(t)
<1>1. CASE UNCHANGED engineVars
  BY <1>1 DEF engineVars, engine
<1>2. ASSUME NEW j \in Jobs, Push(j) \/ PushCheck(j) PROVE UNCHANGED <<life, openings, unasked>>
  BY <1>2 DEF Push, PushCheck
<1>3. ASSUME NEW c, StopClose(c) \/ Open(c) PROVE UNCHANGED <<life, openings, unasked>>
  BY <1>3 DEF StopClose, Open
<1>4. ASSUME NEW c \in Callers, InInit(c)
      PROVE  UNCHANGED <<openings, unasked>> /\ (CreateSD(c) \/ CreateLight(c))
  BY <1>4 DEF InInit, InitStep
<1>5. ASSUME NEW t \in Numbers, Thread(t)
      PROVE  /\ UNCHANGED <<openings, unasked>>
             /\ \/ CreateSD(t) \/ CreateLight(t) \/ (at[t] = "init" /\ SyncInit(t))
                \/ Enter(t) \/ Wait(t) \/ TimedOut(t)
  <2>1. ThreadStep(t) /\ UNCHANGED <<openings, unasked>>
    BY <1>5 DEF Thread, engine
  <2> QED BY <2>1 DEF ThreadStep, InitStep
<1>6. CASE EngineNext
  BY <1>2, <1>3, <1>4, <1>5, <1>6 DEF EngineNext, Threads
<1> QED BY <1>1, <1>6

\* Every step keeps pthread_once in order.
LEMMA OnceStep == TypeOK /\ OnceOK /\ [EngineNext]_engineVars => OnceOK'
<1> SUFFICES ASSUME TypeOK, OnceOK, [EngineNext]_engineVars PROVE OnceOK'
  OBVIOUS
<1>0. /\ LifeType /\ openings \in Nat /\ Numbers \subseteq Threads /\ Callers \subseteq Threads
      /\ \A t \in Threads : t \in Numbers \/ t \in Callers
      /\ \A t \in Numbers : t \notin Callers
  BY LifeAssumption DEF TypeOK, Threads
<1>Idle. CASE UNCHANGED <<life, openings, unasked>>
  BY <1>Idle, OnceKept DEF life
<1>CallInit. ASSUME NEW c \in Callers, CallInit(c) PROVE OnceOK'
  <2>1. /\ at[c] = "idle" /\ at'[c] = "create_sd" /\ \A v \in Threads \ {c} : at'[v] = at[v]
        /\ once' = once /\ openings' = openings + 1
        /\ misuse' = misuse \/ Waiting # {}
    BY <1>CallInit, <1>0, Moves DEF CallInit, SyncInit
  <2>2. Waiting # {} => openings # 0
    BY <1>0 DEF Waiting, OnceOK
  <2>3. \A t \in Numbers : at'[t] = at[t]
    BY <1>0, <2>1
  <2> QED BY <1>0, <2>1, <2>2, <2>3 DEF OnceOK, ReinitByReopening
<1>CallStop. ASSUME NEW s \in Stoppers, CallStop(s) PROVE OnceOK'
  <2>1. /\ s \in Callers /\ at'[s] = "stop_sd"
        /\ \A t \in Threads \ {s} : at'[t] = at[t] \/ (at[t] = "wait" /\ at'[t] = "done")
        /\ openings' = openings /\ UNCHANGED <<once, misuse>>
    BY <1>CallStop, Signal, EngineAssumption DEF CallStop, StopSignal
  <2>2. \A c \in Callers : at[c] # "wait"
    BY DEF OnceOK
  <2> QED BY <1>0, <2>1, <2>2, OnceKept
<1>InStop. ASSUME NEW s \in Stoppers, InStop(s) PROVE OnceOK'
  <2>1. /\ s \in Callers /\ at'[s] \in {"idle", "join_sd", "stop_light", "join_light"}
        /\ \A t \in Threads \ {s} : at'[t] = at[t]
        /\ openings' = openings /\ once' = once
        /\ "reinit" \in misuse' => "reinit" \in misuse
    BY <1>0, <1>InStop, Joins, Moves, EngineAssumption
       DEF InStop, StopJoins, JoinCall, JoinReturn
  <2> QED BY <1>0, <2>1, OnceKept
<1>CreateSD. ASSUME NEW t \in Threads, CreateSD(t), openings' = openings PROVE OnceOK'
  <2>1. PICK u \in Numbers :
          /\ at[u] = "off" /\ u # t /\ at'[u] = "start" /\ at'[t] = "create_light"
          /\ \A v \in Threads \ {t, u} : at'[v] = at[v]
    BY <1>CreateSD, CreatesSD
  <2>2. at[t] = "create_sd" /\ UNCHANGED <<once, misuse>>
    BY <1>CreateSD DEF CreateSD
  <2> QED BY <1>0, <1>CreateSD, <2>1, <2>2 DEF OnceOK, Inside, ReinitByReopening
<1>CreateLight. ASSUME NEW t \in Threads, CreateLight(t), openings' = openings PROVE OnceOK'
  <2>1. PICK u \in Numbers :
          /\ at[u] = "off" /\ u # t /\ at'[u] = "start"
          /\ at'[t] = IF t \in Callers THEN "idle" ELSE "loop"
          /\ \A v \in Threads \ {t, u} : at'[v] = at[v]
    BY <1>CreateLight, CreatesLight
  <2>2. /\ at[t] = "create_light" /\ misuse' = misuse
        /\ once' = IF t \in Callers THEN once ELSE "done"
    BY <1>CreateLight DEF CreateLight
  <2>3. CASE t \in Callers
    BY <1>0, <1>CreateLight, <2>1, <2>2, <2>3 DEF OnceOK, Inside, ReinitByReopening
  <2>4. CASE t \in Numbers
    BY <1>0, <1>CreateLight, <2>1, <2>2, <2>4 DEF OnceOK, Inside, ReinitByReopening
  <2> QED BY <1>0, <2>3, <2>4
<1>SyncInit. ASSUME NEW t \in Numbers, at[t] = "init", SyncInit(t), openings' = openings
             PROVE  OnceOK'
  <2>1. at'[t] = "create_sd" /\ \A v \in Threads \ {t} : at'[v] = at[v]
    BY <1>0, <1>SyncInit, Moves DEF SyncInit
  <2>2. Waiting = {}
    BY <1>0, <1>SyncInit DEF OnceOK, Waiting, Inside
  <2>3. UNCHANGED <<once, misuse>>
    BY <1>SyncInit, <2>2 DEF SyncInit
  <2> QED BY <1>0, <1>SyncInit, <2>1, <2>3 DEF OnceOK, Inside, ReinitByReopening
<1>Enter. ASSUME NEW t \in Numbers, Enter(t), openings' = openings PROVE OnceOK'
  <2>1. CASE MustInit /\ once' = "busy" /\ Move(t, "init")
    <3>1. at'[t] = "init" /\ \A v \in Threads \ {t} : at'[v] = at[v]
      BY <1>0, <2>1, Moves
    <3>2. \A v \in Numbers : at[v] \notin Inside /\ at[v] \notin {"loop", "wait", "done"}
      BY <2>1 DEF OnceOK, MustInit
    <3>3. openings # 0 /\ misuse' = misuse
      BY <1>Enter DEF OnceOK, Enter
    <3> QED BY <1>0, <1>Enter, <2>1, <3>1, <3>2, <3>3 DEF OnceOK, Inside, ReinitByReopening
  <2>2. CASE once = "done" /\ Move(t, "loop") /\ UNCHANGED once
    <3>1. at'[t] = "loop" /\ \A v \in Threads \ {t} : at'[v] = at[v]
      BY <1>0, <2>2, Moves
    <3>2. at[t] = "start" /\ misuse' = misuse
      BY <1>Enter DEF Enter
    <3> QED BY <1>0, <1>Enter, <2>2, <3>1, <3>2 DEF OnceOK, Inside, ReinitByReopening
  <2> QED BY <1>Enter, <2>1, <2>2 DEF Enter
<1>Wait. ASSUME NEW t \in Numbers, Wait(t) \/ TimedOut(t), openings' = openings PROVE OnceOK'
  <2>1. /\ at[t] \in {"loop", "wait"} /\ at'[t] \in {"loop", "wait"}
        /\ \A v \in Threads \ {t} : at'[v] = at[v]
    BY <1>0, <1>Wait, Moves DEF Wait, TimedOut
  <2>2. UNCHANGED <<once, misuse>>
    BY <1>Wait DEF Wait, TimedOut
  <2> QED BY <1>0, <1>Wait, <2>1, <2>2, OnceKept
<1>Unasked. ASSUME NEW t \in Numbers, Unasked(t) PROVE OnceOK'
  <2>1. /\ at[t] = "wait" /\ at'[t] = "done" /\ \A v \in Threads \ {t} : at'[v] = at[v]
        /\ UNCHANGED <<once, misuse, openings>>
    BY <1>0, <1>Unasked, Moves DEF Unasked, SpuriousWake
  <2> QED BY <1>0, <2>1, OnceKept
<1> QED
  BY EngineSteps, <1>Idle, <1>CallInit, <1>CallStop, <1>InStop, <1>CreateSD, <1>CreateLight,
     <1>SyncInit, <1>Enter, <1>Wait, <1>Unasked

\* One thread at most is inside pthread_once, and nobody waits before it has left.
THEOREM OnceInOrder == EngineSpec => []OnceOK
<1>1. EngineInit => OnceOK
  BY LifeAssumption
     DEF EngineInit, LifeInit, OnceOK, Inside, ReinitByReopening, Threads
<1> QED BY <1>1, OnceStep, TypeCorrect, PTL DEF EngineSpec

\* gMutex and gCond are initialised in use only by a second event_init, whoever makes the
\* calls (tmp/ev_core.c:197).
THEOREM ReinitNeedsReopening == EngineSpec => []ReinitByReopening
<1>1. OnceOK => ReinitByReopening
  BY DEF OnceOK
<1> QED BY <1>1, OnceInOrder, PTL

-----------------------------------------------------------------------------
(* The threads that exist, and those that a call of sche_init still owes *)

Created(y) == {t \in Numbers : at[t] # "off" /\ type[t] = y}
OwesSD     == {t \in Threads : at[t] \in {"init", "create_sd"}}
OwesLight  == {t \in Threads : at[t] \in {"init", "create_sd", "create_light"}}
Debt       == IF once = "new" THEN 1 ELSE 0

Tally ==
  /\ IsFiniteSet(OwesSD) /\ IsFiniteSet(OwesLight)
  /\ Cardinality(Created(SD)) + Cardinality(OwesSD) + Debt <= openings + 1
  /\ Cardinality(Created(LIGHT)) + Cardinality(OwesLight) + Debt <= openings + 1

\* A step that creates nothing, and neither enters nor leaves sche_init.
LEMMA TallyKept ==
  ASSUME Tally, UNCHANGED <<type, once, openings>>,
         \A t \in Threads : /\ at[t] = "off" <=> at'[t] = "off"
                            /\ at[t] \in Inside \/ at'[t] \in Inside => at'[t] = at[t]
  PROVE  Tally'
<1>1. OwesSD' = OwesSD /\ OwesLight' = OwesLight
  BY DEF OwesSD, OwesLight, Inside, Threads
<1>2. \A y \in Types : Created(y)' = Created(y)
  BY DEF Created, Threads
<1>3. Debt' = Debt
  BY DEF Debt
<1> QED BY <1>1, <1>2, <1>3 DEF Tally, Types

\* A set of schedule threads can be counted.
LEMMA Countable ==
  ASSUME NEW y PROVE IsFiniteSet(Created(y)) /\ Cardinality(Created(y)) \in Nat
  BY LifeAssumption, FS_Subset, FS_CardinalityType DEF Created

\* Every step keeps the tally.
LEMMA TallyStep == TypeOK /\ OnceOK /\ Tally /\ [EngineNext]_engineVars => Tally'
<1> SUFFICES ASSUME TypeOK, OnceOK, Tally, [EngineNext]_engineVars PROVE Tally'
  OBVIOUS
<1>0. /\ openings \in Nat /\ Numbers \subseteq Threads /\ Callers \subseteq Threads
      /\ \A t \in Threads : t \in Numbers \/ t \in Callers
      /\ \A t \in Numbers : t \notin Callers
      /\ SD \in Types /\ LIGHT \in Types /\ SD # LIGHT
  BY LifeAssumption DEF TypeOK, Threads, Types
<1>1. /\ IsFiniteSet(OwesSD) /\ Cardinality(OwesSD) \in Nat
      /\ IsFiniteSet(OwesLight) /\ Cardinality(OwesLight) \in Nat
      /\ IsFiniteSet(Created(SD)) /\ Cardinality(Created(SD)) \in Nat
      /\ IsFiniteSet(Created(LIGHT)) /\ Cardinality(Created(LIGHT)) \in Nat
      /\ Debt \in {0, 1}
      /\ Cardinality(Created(SD)) + Cardinality(OwesSD) + Debt <= openings + 1
      /\ Cardinality(Created(LIGHT)) + Cardinality(OwesLight) + Debt <= openings + 1
  BY Countable, FS_CardinalityType DEF Tally, Debt
<1>Idle. CASE UNCHANGED <<life, openings, unasked>>
  BY <1>Idle, TallyKept DEF life
<1>CallInit. ASSUME NEW c \in Callers, CallInit(c) PROVE Tally'
  <2>1. /\ at[c] = "idle" /\ at'[c] = "create_sd" /\ \A v \in Threads \ {c} : at'[v] = at[v]
        /\ UNCHANGED <<type, once>> /\ openings' = openings + 1
    BY <1>CallInit, <1>0, Moves DEF CallInit, SyncInit
  <2>2. /\ OwesSD' = OwesSD \cup {c} /\ c \notin OwesSD
        /\ OwesLight' = OwesLight \cup {c} /\ c \notin OwesLight
    BY <1>0, <2>1 DEF OwesSD, OwesLight, Threads
  <2>3. Created(SD)' = Created(SD) /\ Created(LIGHT)' = Created(LIGHT) /\ Debt' = Debt
    BY <1>0, <2>1 DEF Created, Debt
  <2>4. /\ IsFiniteSet(OwesSD') /\ Cardinality(OwesSD') = Cardinality(OwesSD) + 1
        /\ IsFiniteSet(OwesLight') /\ Cardinality(OwesLight') = Cardinality(OwesLight) + 1
    BY <1>1, <2>2, FS_AddElement
  <2> QED BY <1>0, <1>1, <2>1, <2>3, <2>4 DEF Tally
<1>CallStop. ASSUME NEW s \in Stoppers, CallStop(s) PROVE Tally'
  <2>1. /\ s \in Callers /\ at[s] = "idle" /\ at'[s] = "stop_sd"
        /\ \A t \in Threads \ {s} : at'[t] = at[t] \/ (at[t] = "wait" /\ at'[t] = "done")
        /\ UNCHANGED <<type, once, openings>>
    BY <1>CallStop, Signal, EngineAssumption DEF CallStop, StopSignal
  <2>2. \A t \in Threads : /\ at[t] = "off" <=> at'[t] = "off"
                           /\ at[t] \in Inside \/ at'[t] \in Inside => at'[t] = at[t]
    BY <2>1 DEF Inside
  <2> QED BY <2>1, <2>2, TallyKept
<1>InStop. ASSUME NEW s \in Stoppers, InStop(s) PROVE Tally'
  <2>1. /\ s \in Callers /\ at[s] \in {"stop_sd", "join_sd", "stop_light", "join_light"}
        /\ at'[s] \in {"idle", "join_sd", "stop_light", "join_light"}
        /\ \A t \in Threads \ {s} : at'[t] = at[t]
        /\ UNCHANGED <<type, once, openings>>
    BY <1>0, <1>InStop, Joins, Moves, EngineAssumption
       DEF InStop, StopJoins, JoinCall, JoinReturn
  <2>2. \A t \in Threads : /\ at[t] = "off" <=> at'[t] = "off"
                           /\ at[t] \in Inside \/ at'[t] \in Inside => at'[t] = at[t]
    BY <2>1 DEF Inside
  <2> QED BY <2>1, <2>2, TallyKept
<1>CreateSD. ASSUME NEW t \in Threads, CreateSD(t), openings' = openings PROVE Tally'
  <2>1. PICK u \in Numbers :
          /\ at[u] = "off" /\ u # t /\ at'[u] = "start" /\ type'[u] = SD
          /\ at'[t] = "create_light" /\ type'[t] = type[t]
          /\ \A v \in Threads \ {t, u} : at'[v] = at[v] /\ type'[v] = type[v]
    BY <1>CreateSD, CreatesSD
  <2>2. at[t] = "create_sd" /\ Debt' = Debt
    BY <1>CreateSD DEF CreateSD, Debt
  <2>3. OwesSD' = OwesSD \ {t} /\ t \in OwesSD /\ OwesLight' = OwesLight
    BY <1>0, <2>1, <2>2 DEF OwesSD, OwesLight
  <2>4. /\ Created(SD)' = Created(SD) \cup {u} /\ u \notin Created(SD)
        /\ Created(LIGHT)' = Created(LIGHT)
    BY <1>0, <2>1, <2>2 DEF Created
  <2>5. IsFiniteSet(OwesSD') /\ Cardinality(OwesSD') = Cardinality(OwesSD) - 1
    BY <1>1, <2>3, FS_RemoveElement
  <2>6. Cardinality(Created(SD)') = Cardinality(Created(SD)) + 1
    BY <1>1, <2>4, FS_AddElement
  <2> QED BY <1>0, <1>1, <1>CreateSD, <2>2, <2>3, <2>4, <2>5, <2>6 DEF Tally
<1>CreateLight. ASSUME NEW t \in Threads, CreateLight(t), openings' = openings PROVE Tally'
  <2>1. PICK u \in Numbers :
          /\ at[u] = "off" /\ u # t /\ at'[u] = "start" /\ type'[u] = LIGHT
          /\ at'[t] \in {"idle", "loop"} /\ type'[t] = type[t]
          /\ \A v \in Threads \ {t, u} : at'[v] = at[v] /\ type'[v] = type[v]
    BY <1>CreateLight, CreatesLight
  <2>2. at[t] = "create_light" /\ Debt' <= Debt /\ Debt' \in {0, 1}
    BY <1>CreateLight DEF CreateLight, Debt
  <2>3. OwesLight' = OwesLight \ {t} /\ t \in OwesLight /\ OwesSD' = OwesSD
    BY <1>0, <2>1, <2>2 DEF OwesSD, OwesLight
  <2>4. /\ Created(LIGHT)' = Created(LIGHT) \cup {u} /\ u \notin Created(LIGHT)
        /\ Created(SD)' = Created(SD)
    BY <1>0, <2>1, <2>2 DEF Created
  <2>5. IsFiniteSet(OwesLight') /\ Cardinality(OwesLight') = Cardinality(OwesLight) - 1
    BY <1>1, <2>3, FS_RemoveElement
  <2>6. Cardinality(Created(LIGHT)') = Cardinality(Created(LIGHT)) + 1
    BY <1>1, <2>4, FS_AddElement
  <2> QED BY <1>0, <1>1, <1>CreateLight, <2>2, <2>3, <2>4, <2>5, <2>6 DEF Tally
<1>SyncInit. ASSUME NEW t \in Numbers, at[t] = "init", SyncInit(t), openings' = openings
             PROVE  Tally'
  <2>1. at'[t] = "create_sd" /\ \A v \in Threads \ {t} : at'[v] = at[v]
    BY <1>0, <1>SyncInit, Moves DEF SyncInit
  <2>2. UNCHANGED <<once, type>>
    BY <1>SyncInit DEF SyncInit
  <2>3. OwesSD' = OwesSD /\ OwesLight' = OwesLight
    BY <1>0, <1>SyncInit, <2>1 DEF OwesSD, OwesLight
  <2>4. Created(SD)' = Created(SD) /\ Created(LIGHT)' = Created(LIGHT) /\ Debt' = Debt
    BY <1>0, <1>SyncInit, <2>1, <2>2 DEF Created, Debt
  <2> QED BY <1>1, <1>SyncInit, <2>3, <2>4 DEF Tally
<1>Enter. ASSUME NEW t \in Numbers, Enter(t), openings' = openings PROVE Tally'
  <2>0. at[t] = "start" /\ type' = type
    BY <1>Enter DEF Enter
  <2>1. CASE MustInit /\ once' = "busy" /\ Move(t, "init")
    <3>1. at'[t] = "init" /\ \A v \in Threads \ {t} : at'[v] = at[v]
      BY <1>0, <2>1, Moves
    <3>2. /\ OwesSD' = OwesSD \cup {t} /\ t \notin OwesSD
          /\ OwesLight' = OwesLight \cup {t} /\ t \notin OwesLight
      BY <1>0, <2>0, <3>1 DEF OwesSD, OwesLight
    <3>3. /\ Created(SD)' = Created(SD) /\ Created(LIGHT)' = Created(LIGHT)
          /\ Debt = 1 /\ Debt' = 0
      BY <1>0, <2>0, <2>1, <3>1 DEF Created, Debt, MustInit
    <3>4. /\ IsFiniteSet(OwesSD') /\ Cardinality(OwesSD') = Cardinality(OwesSD) + 1
          /\ IsFiniteSet(OwesLight') /\ Cardinality(OwesLight') = Cardinality(OwesLight) + 1
      BY <1>1, <3>2, FS_AddElement
    <3> QED BY <1>0, <1>1, <1>Enter, <3>3, <3>4 DEF Tally
  <2>2. CASE once = "done" /\ Move(t, "loop") /\ UNCHANGED once
    <3>1. at'[t] = "loop" /\ \A v \in Threads \ {t} : at'[v] = at[v]
      BY <1>0, <2>2, Moves
    <3>2. \A v \in Threads : /\ at[v] = "off" <=> at'[v] = "off"
                             /\ at[v] \in Inside \/ at'[v] \in Inside => at'[v] = at[v]
      BY <2>0, <3>1 DEF Inside
    <3> QED BY <1>Enter, <2>0, <2>2, <3>2, TallyKept
  <2> QED BY <1>Enter, <2>1, <2>2 DEF Enter
<1>Wait. ASSUME NEW t \in Numbers, Wait(t) \/ TimedOut(t), openings' = openings PROVE Tally'
  <2>1. /\ at[t] \in {"loop", "wait"} /\ at'[t] \in {"loop", "wait"}
        /\ \A v \in Threads \ {t} : at'[v] = at[v]
    BY <1>0, <1>Wait, Moves DEF Wait, TimedOut
  <2>2. UNCHANGED <<type, once, openings>>
    BY <1>Wait DEF Wait, TimedOut
  <2>3. \A v \in Threads : /\ at[v] = "off" <=> at'[v] = "off"
                           /\ at[v] \in Inside \/ at'[v] \in Inside => at'[v] = at[v]
    BY <2>1 DEF Inside
  <2> QED BY <2>2, <2>3, TallyKept
<1>Unasked. ASSUME NEW t \in Numbers, Unasked(t) PROVE Tally'
  <2>1. /\ at[t] = "wait" /\ at'[t] = "done" /\ \A v \in Threads \ {t} : at'[v] = at[v]
        /\ UNCHANGED <<type, once, openings>>
    BY <1>0, <1>Unasked, Moves DEF Unasked, SpuriousWake
  <2>2. \A v \in Threads : /\ at[v] = "off" <=> at'[v] = "off"
                           /\ at[v] \in Inside \/ at'[v] \in Inside => at'[v] = at[v]
    BY <2>1 DEF Inside
  <2> QED BY <2>1, <2>2, TallyKept
<1> QED
  BY EngineSteps, <1>Idle, <1>CallInit, <1>CallStop, <1>InStop, <1>CreateSD, <1>CreateLight,
     <1>SyncInit, <1>Enter, <1>Wait, <1>Unasked

\* n openings leave n + 1 threads of each type at most, for any number of callers that
\* open the engine in any order (tmp/ev_core.c:197, tmp/g_schedule.c:100).
THEOREM FewThreadsPerOpening == EngineSpec => []ThreadsPerOpening
<1>1. EngineInit => Tally
  <2> SUFFICES ASSUME EngineInit PROVE Tally
    OBVIOUS
  <2>1. OwesSD = {} /\ OwesLight = {} /\ Created(SD) = {} /\ Created(LIGHT) = {}
    BY LifeAssumption DEF EngineInit, LifeInit, OwesSD, OwesLight, Created, Threads
  <2>2. Debt = 1 /\ openings = 0
    BY DEF EngineInit, LifeInit, Debt
  <2> QED BY <2>1, <2>2, FS_EmptySet DEF Tally
<1>2. TypeOK /\ Tally => ThreadsPerOpening
  <2> SUFFICES ASSUME TypeOK, Tally, NEW y \in Types PROVE Cardinality(Created(y)) <= openings + 1
    BY DEF ThreadsPerOpening, Created
  <2>1. /\ Cardinality(OwesSD) \in Nat /\ Cardinality(OwesLight) \in Nat /\ openings \in Nat
        /\ Cardinality(Created(SD)) \in Nat /\ Cardinality(Created(LIGHT)) \in Nat
        /\ Debt \in {0, 1}
    BY Countable, FS_CardinalityType DEF Tally, Debt, TypeOK
  <2> QED BY <2>1 DEF Tally, Types
<1> QED BY <1>1, <1>2, TallyStep, OnceInOrder, TypeCorrect, PTL DEF EngineSpec

-----------------------------------------------------------------------------
(* sche_stop joins two threads that one signal would have to end *)

Ended    == {t \in Numbers : at[t] = "done"}
Returned == {"open", "sche_init", "in_init", "done"}

Luck(s) ==
  /\ ~unasked => \A t, u \in Ended : t = u
  /\ step[s] \in {"off", "sche_stop"} /\ ~unasked => Ended = {}
  /\ at[s] = "join_sd" /\ joining[s] # None => joining[s] \in Created(SD)
  /\ at[s] = "join_light" /\ joining[s] # None => joining[s] \in Created(LIGHT)
  /\ at[s] \in {"stop_light", "join_light"} => Ended \cap Created(SD) # {}
  /\ step[s] \in Returned => unasked

\* A step outside sche_stop: no thread ends, unless it wakes with no signal.
LEMMA LuckKept ==
  ASSUME NEW s \in Stoppers, Luck(s), unasked \in BOOLEAN, unasked' \in BOOLEAN,
         unasked' \/ (~unasked /\ Ended' = Ended), Ended \subseteq Ended',
         Created(SD) \subseteq Created(SD)', Created(LIGHT) \subseteq Created(LIGHT)',
         joining' = joining,
         \/ at'[s] = at[s]
         \/ at'[s] \notin {"join_sd", "join_light", "stop_light"},
         \/ step'[s] = step[s]
         \/ step[s] = "off" /\ step'[s] = "sche_stop"
         \/ step[s] \in Returned /\ step'[s] \in Returned,
         unasked => unasked'
  PROVE  Luck(s)'
<1>1. ~unasked' => /\ \A t, u \in Ended' : t = u
                   /\ step'[s] \in {"off", "sche_stop"} => Ended' = {}
  BY DEF Luck, Returned
<1>2. /\ at'[s] = "join_sd" /\ joining'[s] # None => joining'[s] \in Created(SD)'
      /\ at'[s] = "join_light" /\ joining'[s] # None => joining'[s] \in Created(LIGHT)'
  BY DEF Luck
<1>3. at'[s] \in {"stop_light", "join_light"} => Ended' \cap Created(SD)' # {}
  BY DEF Luck
<1>4. step'[s] \in Returned => unasked'
  BY DEF Luck, Returned
<1> QED BY <1>1, <1>2, <1>3, <1>4 DEF Luck

\* How a thread goes through event_stop.
LEMMA StopperFlow ==
  ASSUME TypeOK, [EngineNext]_engineVars, NEW s \in Stoppers
  PROVE  \/ step'[s] = step[s]
         \/ step[s] = "off" /\ step'[s] = "sche_stop"
         \/ step[s] \in Returned /\ step'[s] \in Returned
         \/ CallStop(s) \/ InStop(s)
<1>0. s \in Callers /\ s \notin Jobs /\ step \in [Callers -> {"off", "check", "open", "sche_init",
                                                   "in_init", "sche_stop", "in_stop", "done"}]
  BY EngineAssumption DEF TypeOK
<1>1. CASE UNCHANGED engineVars
  BY <1>1 DEF engineVars, engine
<1>2. ASSUME NEW j \in Jobs, Push(j) \/ PushCheck(j) PROVE step'[s] = step[s]
  BY <1>0, <1>2 DEF Push, PushCheck, Goto
<1>3. ASSUME NEW c \in Callers, c # s, CallInit(c) \/ InInit(c) \/ Open(c)
      PROVE  step'[s] = step[s]
  BY <1>0, <1>3 DEF CallInit, InInit, Open, Goto
<1>4. ASSUME CallInit(s) \/ InInit(s) \/ Open(s)
      PROVE  step[s] \in Returned /\ step'[s] \in Returned
  BY <1>0, <1>4 DEF CallInit, InInit, Open, Goto, Returned
<1>5. ASSUME NEW c \in Stoppers, c # s, StopClose(c) \/ CallStop(c) \/ InStop(c)
      PROVE  step'[s] = step[s]
  BY <1>0, <1>5 DEF StopClose, CallStop, InStop, Goto
<1>6. ASSUME StopClose(s) PROVE step[s] = "off" /\ step'[s] = "sche_stop"
  BY <1>0, <1>6 DEF StopClose, Goto
<1>7. ASSUME NEW t \in Numbers, Thread(t) \/ Unasked(t) PROVE step'[s] = step[s]
  BY <1>7 DEF Thread, Unasked, engine
<1>8. CASE EngineNext
  BY <1>2, <1>3, <1>4, <1>5, <1>6, <1>7, <1>8 DEF EngineNext
<1> QED BY <1>1, <1>8

\* A lone thread in event_stop keeps Luck, whatever the others do.
LEMMA LuckStep ==
  ASSUME TypeOK, OnceOK, [EngineNext]_engineVars, NEW s, Stoppers = {s}, Luck(s)
  PROVE  Luck(s)'
<1>0. /\ s \in Stoppers /\ s \in Callers /\ s \notin Numbers
      /\ Numbers \subseteq Threads /\ Callers \subseteq Threads
      /\ \A t \in Callers : t \notin Numbers
      /\ SD \in Types /\ LIGHT \in Types /\ SD # LIGHT /\ unasked \in BOOLEAN
      /\ joining \in [Callers -> Numbers \cup {None}] /\ pt \in [Types -> Numbers \cup {None}]
  BY LifeAssumption, EngineAssumption DEF TypeOK, LifeType, Threads, Types
<1>CallStop. CASE CallStop(s)
  <2>1. /\ at[s] = "idle" /\ at'[s] = "stop_sd" /\ step[s] = "sche_stop" /\ step'[s] = "in_stop"
        /\ \A t \in Threads \ {s} : at'[t] = at[t] \/ (at[t] = "wait" /\ at'[t] = "done")
        /\ \A t, v \in Threads : at[t] # "done" /\ at[v] # "done" =>
             (at'[t] = "done" /\ at'[v] = "done" => t = v)
        /\ unasked' = unasked
    BY <1>0, <1>CallStop, Signal DEF CallStop, Goto, TypeOK
  <2>2. ~unasked => \A t, u \in Ended' : t = u
    BY <1>0, <2>1 DEF Luck, Ended
  <2> QED BY <2>1, <2>2 DEF Luck, Returned
<1>InStop. CASE InStop(s)
  <2>1. /\ step[s] = "in_stop" /\ unasked' = unasked /\ StopJoins(s) /\ s \in Threads
        /\ step'[s] \in {"in_stop", "open"} /\ (step'[s] = "open" => at'[s] = "idle")
    BY <1>0, <1>InStop DEF InStop, Goto, TypeOK
  <2>2. Ended' = Ended /\ Created(SD)' = Created(SD) /\ Created(LIGHT)' = Created(LIGHT)
    <3>1. /\ at[s] # "off" /\ at'[s] # "off" /\ type' = type
          /\ \A t \in Threads \ {s} : at'[t] = at[t]
      BY <1>0, <2>1, Joins
    <3> QED BY <1>0, <3>1 DEF Ended, Created
  <2>3. ASSUME NEW y \in Types, pt[y] # None PROVE pt[y] \in Created(y)
    BY <1>0, <2>3 DEF TypeOK, LifeType, Created
  <2>4. CASE JoinCall(s, "stop_sd", SD, "join_sd")
    <3>1. at'[s] = "join_sd" /\ joining'[s] = pt[SD]
      BY <1>0, <2>1, <2>4, Moves DEF JoinCall
    <3> QED BY <1>0, <2>1, <2>2, <2>3, <3>1 DEF Luck, Returned
  <2>5. CASE JoinReturn(s, "join_sd", SD, "stop_light")
    <3>1. /\ at[s] = "join_sd" /\ at'[s] = "stop_light"
          /\ joining[s] # None /\ at[joining[s]] = "done"
      BY <1>0, <2>1, <2>5, Moves DEF JoinReturn
    <3>2. joining[s] \in Ended \cap Created(SD)
      BY <1>0, <3>1 DEF Luck, Ended
    <3> QED BY <1>0, <2>1, <2>2, <3>1, <3>2 DEF Luck, Returned
  <2>6. CASE JoinCall(s, "stop_light", LIGHT, "join_light")
    <3>1. at[s] = "stop_light" /\ at'[s] = "join_light" /\ joining'[s] = pt[LIGHT]
      BY <1>0, <2>1, <2>6, Moves DEF JoinCall
    <3> QED BY <1>0, <2>1, <2>2, <2>3, <3>1 DEF Luck, Returned
  <2>7. CASE JoinReturn(s, "join_light", LIGHT, "idle")
    <3>1. /\ at[s] = "join_light" /\ at'[s] = "idle"
          /\ joining[s] # None /\ at[joining[s]] = "done"
      BY <1>0, <2>1, <2>7, Moves DEF JoinReturn
    <3>2. joining[s] \in Ended \cap Created(LIGHT)
      BY <1>0, <3>1 DEF Luck, Ended
    <3>3. PICK t \in Ended : t \in Created(SD)
      BY <3>1 DEF Luck
    <3>4. t # joining[s]
      BY <1>0, <3>2, <3>3 DEF Created
    <3>5. unasked
      BY <3>2, <3>3, <3>4 DEF Luck
    <3> QED BY <2>1, <2>2, <3>1, <3>5 DEF Luck
  <2> QED BY <2>1, <2>4, <2>5, <2>6, <2>7 DEF StopJoins
<1>1. CASE ~CallStop(s) /\ ~InStop(s)
  <2> SUFFICES /\ unasked' \in BOOLEAN /\ (unasked' \/ (~unasked /\ Ended' = Ended))
               /\ Ended \subseteq Ended' /\ Created(SD) \subseteq Created(SD)'
               /\ Created(LIGHT) \subseteq Created(LIGHT)' /\ joining' = joining
               /\ at'[s] = at[s] \/ at'[s] \notin {"join_sd", "join_light", "stop_light"}
               /\ unasked => unasked'
    BY <1>0, <1>1, StopperFlow, LuckKept
  <2>Idle. CASE UNCHANGED <<life, openings, unasked>>
    BY <1>0, <2>Idle DEF life, Ended, Created
  <2>CallInit. ASSUME NEW c \in Callers, CallInit(c)
               PROVE  /\ at[c] # "off" /\ at'[c] = "create_sd"
                      /\ \A v \in Threads \ {c} : at'[v] = at[v]
                      /\ UNCHANGED <<type, joining, unasked>>
    BY <1>0, <2>CallInit, Moves DEF CallInit, SyncInit
  <2>Create. ASSUME NEW t \in Threads, CreateSD(t) \/ CreateLight(t)
             PROVE  \E u \in Numbers :
                      /\ at[u] = "off" /\ u # t /\ at'[u] = "start" /\ type'[t] = type[t]
                      /\ at[t] \in Inside /\ at'[t] \in {"create_light", "idle", "loop"}
                      /\ \A v \in Threads \ {t, u} : at'[v] = at[v] /\ type'[v] = type[v]
                      /\ joining' = joining
    <3>1. at[t] \in Inside /\ joining' = joining
      BY <2>Create DEF CreateSD, CreateLight, Inside
    <3> QED BY <2>Create, <3>1, CreatesSD, CreatesLight
  <2>Own. ASSUME NEW t \in Numbers,
                 (at[t] = "init" /\ SyncInit(t)) \/ Enter(t) \/ Wait(t) \/ TimedOut(t)
          PROVE  /\ at[t] \notin {"off", "done"} /\ at'[t] \notin {"off", "done"}
                 /\ \A v \in Threads \ {t} : at'[v] = at[v]
                 /\ UNCHANGED <<type, joining>>
    BY <1>0, <2>Own, Moves DEF SyncInit, Enter, Wait, TimedOut
  <2>Unasked. ASSUME NEW t \in Numbers, Unasked(t)
              PROVE  /\ at[t] = "wait" /\ at'[t] = "done" /\ unasked' = TRUE
                     /\ UNCHANGED <<type, joining>>
                     /\ \A v \in Threads \ {t} : at'[v] = at[v]
    BY <1>0, <2>Unasked, Moves DEF Unasked, SpuriousWake
  <2>1. ASSUME NEW c \in Callers, CallInit(c)
        PROVE  /\ UNCHANGED <<Ended, Created(SD), Created(LIGHT), joining, unasked>>
               /\ at'[s] = at[s] \/ at'[s] = "create_sd"
    BY <1>0, <2>1, <2>CallInit DEF Ended, Created
  <2>2. ASSUME NEW t \in Threads, CreateSD(t) \/ CreateLight(t)
        PROVE  /\ Ended' = Ended /\ Created(SD) \subseteq Created(SD)'
               /\ Created(LIGHT) \subseteq Created(LIGHT)' /\ joining' = joining
               /\ at'[s] = at[s] \/ at'[s] \in {"create_light", "idle", "loop"}
    BY <1>0, <2>2, <2>Create DEF Ended, Created, Inside
  <2>3. ASSUME NEW t \in Numbers,
               (at[t] = "init" /\ SyncInit(t)) \/ Enter(t) \/ Wait(t) \/ TimedOut(t)
        PROVE  UNCHANGED <<Ended, Created(SD), Created(LIGHT), joining>> /\ at'[s] = at[s]
    BY <1>0, <2>3, <2>Own DEF Ended, Created
  <2>4. ASSUME NEW t \in Numbers, Unasked(t)
        PROVE  /\ unasked' = TRUE /\ Ended \subseteq Ended' /\ at'[s] = at[s]
               /\ UNCHANGED <<Created(SD), Created(LIGHT), joining>>
    BY <1>0, <2>4, <2>Unasked DEF Ended, Created
  <2>5. \A c \in Stoppers : c = s
    OBVIOUS
  <2> QED BY <1>0, <1>1, <2>Idle, <2>1, <2>2, <2>3, <2>4, <2>5, EngineSteps
<1> QED BY <1>CallStop, <1>InStop, <1>1

\* Why a lone event_stop hangs in sche_stop and the engine stays closed: it comes back only if
\* some schedule thread woke with no signal, for any number of jobs and of threads
\* (tmp/g_schedule.c:130).  The theorem says what the code does, not what it should do.
THEOREM OneSignalTwoJoins == EngineSpec => []StopNeedsLuck
<1> DEFINE AllLuck == \A s : Stoppers = {s} => Luck(s)
<1>1. EngineInit => AllLuck
  <2> SUFFICES ASSUME EngineInit, NEW s, Stoppers = {s} PROVE Luck(s)
    OBVIOUS
  <2>1. s \in Callers /\ s \notin Numbers
    BY LifeAssumption, EngineAssumption
  <2>2. Ended = {} /\ at[s] = "idle" /\ step[s] = "off"
    BY <2>1 DEF EngineInit, LifeInit, Ended, Threads
  <2> QED BY <2>2 DEF Luck, Returned
<1>2. TypeOK /\ OnceOK /\ AllLuck /\ [EngineNext]_engineVars => AllLuck'
  BY LuckStep
<1>3. AllLuck => StopNeedsLuck
  <2>1. IsFiniteSet(Stoppers)
    BY EngineAssumption, FS_Subset
  <2> QED BY <2>1, FS_Singleton DEF Luck, Returned, StopNeedsLuck
<1> QED BY <1>1, <1>2, <1>3, OnceInOrder, TypeCorrect, PTL DEF EngineSpec
=============================================================================
