-------------------------- MODULE TimerTableProofs --------------------------
(***************************************************************************)
(* Theorems about TimerTable: its type invariant and, when callbacks set   *)
(* no periodic timer, that no TimerInfo is used after its deletion or      *)
(* lost, and that no timer outlives KillAll.  They hold for any number of  *)
(* workers, ids, timers and calls, and with a new thread that runs before  *)
(* its handle is stored.                                                   *)
(***************************************************************************)
EXTENDS TimerTable, TLAPS

\* A TimerInfo that was created and not deleted.
Exists(t) == timer[t].state \notin {"none", "freed"}

\* SetTimer, KillTimer or KillAll is at work on a TimerInfo.
Holds(a)  == call[a] \in Sets \cup Kills

\* What is at work on a TimerInfo has one, and a timer's thread calls the table
\* only from its callback.
Placed ==
  /\ \A a \in Actor : Holds(a) => Mine(a) \in Timer
  /\ \A th \in Thread : at[th] \in Runs => body[th] \in Timer
  /\ \A th \in Thread : call[th] # "idle" => at[th] = "callback"
  /\ \A a \in Actor : call[a] = "store" => arg[a].thread \in Thread

TypeInv == TypeOK /\ Placed

-----------------------------------------------------------------------------
(* What the steps change. *)

States == {"none", "init", "running", "pause", "exit", "freed"}

\* Only timer t changes, if it does, and it keeps its id and kind.
OnlyTimer(t) ==
  /\ timer' \in [Timer -> TimerInfo]
  /\ \A u \in Timer \ {t} : timer'[u] = timer[u]
  /\ timer'[t].id = timer[t].id /\ timer'[t].oneShot = timer[t].oneShot

\* Only actor a goes on.
OnlyCall(a, place) ==
  /\ call' \in [Actor -> Place]
  /\ call'[a] = place /\ \A b \in Actor \ {a} : call'[b] = call[b]

OnlyArg(a) ==
  /\ arg' \in [Actor -> Argument]
  /\ \A b \in Actor \ {a} : arg'[b] = arg[b]

\* Only thread th goes on.
OnlyAt(th, place) ==
  /\ at' \in [Thread -> {"none", "loop", "fire", "callback", "return", "leave", "done"}]
  /\ at'[th] = place /\ \A u \in Thread \ {th} : at'[u] = at[u]

LEMMA Numbers == Null \notin Timer /\ Null \notin Thread /\ Null \notin Actor
BY ConstAssumption DEF Null, Timer, Thread, Actor

LEMMA StateChange ==
  ASSUME TypeOK, NEW t \in Timer, NEW s \in States, timer' = [timer EXCEPT ![t].state = s]
  PROVE  OnlyTimer(t) /\ timer'[t].state = s /\ timer'[t].handle = timer[t].handle
<1>1. timer[t] \in TimerInfo /\ timer \in [Timer -> TimerInfo]
  BY DEF TypeOK
<1>2. [timer[t] EXCEPT !.state = s] \in TimerInfo
  BY <1>1 DEF TimerInfo, States
<1> QED BY <1>1, <1>2 DEF OnlyTimer, TimerInfo

LEMMA HandleCleared ==
  ASSUME TypeOK, NEW t \in Timer, timer' = [timer EXCEPT ![t].handle = Null]
  PROVE  OnlyTimer(t) /\ timer'[t].state = timer[t].state /\ timer'[t].handle = Null
<1>1. timer[t] \in TimerInfo /\ timer \in [Timer -> TimerInfo]
  BY DEF TypeOK
<1>2. [timer[t] EXCEPT !.handle = Null] \in TimerInfo
  BY <1>1 DEF TimerInfo
<1> QED BY <1>1, <1>2 DEF OnlyTimer, TimerInfo

LEMMA GotoCall ==
  ASSUME TypeOK, NEW a \in Actor, NEW place \in Place, Goto(a, place)
  PROVE  OnlyCall(a, place)
BY DEF TypeOK, Goto, OnlyCall

LEMMA ArgTimer ==
  ASSUME TypeOK, NEW a \in Actor, NEW t \in Timer \cup {Null},
         arg' = [arg EXCEPT ![a].timer = t]
  PROVE  /\ OnlyArg(a) /\ arg'[a].timer = t
         /\ arg'[a].id = arg[a].id /\ arg'[a].oneShot = arg[a].oneShot
         /\ arg'[a].thread = arg[a].thread /\ arg'[a].all = arg[a].all
         /\ arg'[a].todo = arg[a].todo
<1>1. arg[a] \in Argument /\ arg \in [Actor -> Argument]
  BY DEF TypeOK
<1>2. [arg[a] EXCEPT !.timer = t] \in Argument
  BY <1>1 DEF Argument
<1> QED BY <1>1, <1>2 DEF OnlyArg, Argument

LEMMA ArgThread ==
  ASSUME TypeOK, NEW a \in Actor, NEW th \in Thread \cup {Null},
         arg' = [arg EXCEPT ![a].thread = th]
  PROVE  /\ OnlyArg(a) /\ arg'[a].thread = th
         /\ arg'[a].id = arg[a].id /\ arg'[a].oneShot = arg[a].oneShot
         /\ arg'[a].timer = arg[a].timer /\ arg'[a].all = arg[a].all
         /\ arg'[a].todo = arg[a].todo
<1>1. arg[a] \in Argument /\ arg \in [Actor -> Argument]
  BY DEF TypeOK
<1>2. [arg[a] EXCEPT !.thread = th] \in Argument
  BY <1>1 DEF Argument
<1> QED BY <1>1, <1>2 DEF OnlyArg, Argument

LEMMA ArgTodo ==
  ASSUME TypeOK, NEW a \in Actor, NEW T \in SUBSET Timer,
         arg' = [arg EXCEPT ![a].todo = T]
  PROVE  /\ OnlyArg(a) /\ arg'[a].todo = T
         /\ arg'[a].id = arg[a].id /\ arg'[a].oneShot = arg[a].oneShot
         /\ arg'[a].timer = arg[a].timer /\ arg'[a].all = arg[a].all
         /\ arg'[a].thread = arg[a].thread
<1>1. arg[a] \in Argument /\ arg \in [Actor -> Argument]
  BY DEF TypeOK
<1>2. [arg[a] EXCEPT !.todo = T] \in Argument
  BY <1>1 DEF Argument
<1> QED BY <1>1, <1>2 DEF OnlyArg, Argument

-----------------------------------------------------------------------------
(* The type invariant, and what each step changes. *)

\* What a call of a table's operation does.
LEMMA CallsType ==
  ASSUME TypeInv, NEW a \in Actor, NEW op \in Op, NEW i \in Id, NEW new \in Argument,
         NEW place \in Place \ (Sets \cup Kills), NEW c \in BOOLEAN,
         Calls(a, op, i), arg' = [arg EXCEPT ![a] = new], Goto(a, place), cleared' = c
  PROVE  TypeInv' /\ OnlyArg(a) /\ arg'[a] = new /\ OnlyCall(a, place) /\ call[a] = "idle"
<1>1. OnlyArg(a) /\ arg'[a] = new
  BY DEF TypeInv, TypeOK, OnlyArg
<1>2. OnlyCall(a, place)
  BY GotoCall DEF TypeInv
<1>3. ops' \in [Actor -> Nat]
  BY DEF Calls, TypeInv, TypeOK
<1>4. TypeOK'
  BY <1>1, <1>2, <1>3 DEF Calls, TypeInv, TypeOK, OnlyArg, OnlyCall
<1>5. Placed'
  BY <1>1, <1>2, ConstAssumption DEF Calls, TypeInv, Placed, OnlyArg, OnlyCall, Holds, Mine, Actor,
     Sets
<1> QED BY <1>1, <1>2, <1>4, <1>5 DEF TypeInv, Calls

LEMMA NoArgType ==
  ASSUME NEW i \in Id
  PROVE  /\ NoArg \in Argument
         /\ \A one \in BOOLEAN : [NoArg EXCEPT !.id = i, !.oneShot = one] \in Argument
         /\ [NoArg EXCEPT !.id = i] \in Argument /\ [NoArg EXCEPT !.all = TRUE] \in Argument
BY DEF NoArg, Argument

LEMMA FindType ==
  ASSUME TypeInv, NEW a \in Actor, Find(a)
  PROVE  /\ TypeInv' /\ OnlyArg(a) /\ arg'[a].timer = table[arg[a].id]
         /\ arg'[a].id = arg[a].id /\ arg'[a].oneShot = arg[a].oneShot
         /\ arg'[a].all = arg[a].all /\ arg[a].id \in Id
         /\ OnlyCall(a, IF table[arg[a].id] = Null THEN "create" ELSE "pause")
<1> DEFINE place == IF table[arg[a].id] = Null THEN "create" ELSE "pause"
<1>1. arg[a].id \in Id /\ table[arg[a].id] \in Timer \cup {Null}
  BY DEF TypeInv, TypeOK, Argument
<1>2. /\ OnlyArg(a) /\ arg'[a].timer = table[arg[a].id] /\ arg'[a].all = arg[a].all
      /\ arg'[a].id = arg[a].id /\ arg'[a].oneShot = arg[a].oneShot
  BY <1>1, ArgTimer DEF Find, TypeInv
<1>3. OnlyCall(a, place)
  BY GotoCall, place \in Place DEF Find, TypeInv, Place
<1>4. TypeOK'
  BY <1>2, <1>3 DEF Find, TypeInv, TypeOK, OnlyArg, OnlyCall
<1>5. Placed'
  BY <1>1, <1>2, <1>3 DEF Find, TypeInv, Placed, OnlyArg, OnlyCall, Holds, Mine, Sets, Kills,
     Actor
<1> QED BY <1>1, <1>2, <1>3, <1>4, <1>5 DEF TypeInv

LEMMA CreateType ==
  ASSUME TypeInv, NEW a \in Actor, Create(a)
  PROVE  /\ TypeInv' /\ OnlyArg(a) /\ arg'[a].timer = NewTimer
         /\ arg'[a].id = arg[a].id /\ arg'[a].oneShot = arg[a].oneShot
         /\ arg'[a].all = arg[a].all /\ arg[a].id \in Id
         /\ OnlyCall(a, "run")
         /\ NewTimer \in Timer /\ timer[NewTimer].state = "none"
         /\ timer' \in [Timer -> TimerInfo]
         /\ \A u \in Timer \ {NewTimer} : timer'[u] = timer[u]
         /\ timer'[NewTimer].state = "init" /\ timer'[NewTimer].id = arg[a].id
         /\ timer'[NewTimer].oneShot = arg[a].oneShot
         /\ timer'[NewTimer].handle = timer[NewTimer].handle
<1>1. arg[a].id \in Id /\ arg[a].oneShot \in BOOLEAN
  BY DEF TypeInv, TypeOK, Argument
<1>2. NewTimer \in Timer /\ timer[NewTimer].state = "none"
  <2>1. NewTimer \in Unused
    BY DEF Create, NewTimer
  <2>2. use.timers \in Timer
    BY ConstAssumption DEF TypeInv, TypeOK, Use
  <2> QED BY <2>1, <2>2, ConstAssumption DEF Unused, Timer
<1>3. /\ OnlyArg(a) /\ arg'[a].timer = NewTimer /\ arg'[a].all = arg[a].all
      /\ arg'[a].id = arg[a].id /\ arg'[a].oneShot = arg[a].oneShot
  BY <1>2, ArgTimer DEF Create, TypeInv
<1>4. OnlyCall(a, "run")
  BY GotoCall, "run" \in Place DEF Create, TypeInv, Place
<1> DEFINE new == [timer[NewTimer] EXCEPT !.state = "init", !.id = arg[a].id,
                                          !.oneShot = arg[a].oneShot]
<1>5. /\ new \in TimerInfo /\ new.state = "init" /\ new.id = arg[a].id
      /\ new.oneShot = arg[a].oneShot /\ new.handle = timer[NewTimer].handle
  BY <1>1, <1>2 DEF TypeInv, TypeOK, TimerInfo
<1>6. /\ timer' \in [Timer -> TimerInfo] /\ timer'[NewTimer] = new
      /\ \A u \in Timer \ {NewTimer} : timer'[u] = timer[u]
  <2>1. timer' = [timer EXCEPT ![NewTimer].state = "init", ![NewTimer].id = arg[a].id,
                               ![NewTimer].oneShot = arg[a].oneShot]
    BY DEF Create
  <2> QED BY <1>2, <1>5, <2>1 DEF TypeInv, TypeOK
<1> HIDE DEF new
<1>7. table' \in [Id -> Timer \cup {Null}]
  BY <1>1, <1>2 DEF Create, TypeInv, TypeOK
<1>8. TypeOK'
  BY <1>3, <1>4, <1>6, <1>7 DEF Create, TypeInv, TypeOK, OnlyArg, OnlyCall
<1>9. Placed'
  BY <1>2, <1>3, <1>4 DEF Create, TypeInv, Placed, OnlyArg, OnlyCall, Holds, Mine, Sets, Kills,
     Actor
<1> QED BY <1>1, <1>2, <1>3, <1>4, <1>5, <1>6, <1>8, <1>9 DEF TypeInv

LEMMA PauseTimerType ==
  ASSUME TypeInv, NEW a \in Actor, PauseTimer(a)
  PROVE  /\ TypeInv' /\ OnlyCall(a, "run") /\ Mine(a) \in Timer
         /\ OnlyTimer(Mine(a)) /\ timer'[Mine(a)].state = "pause"
         /\ timer'[Mine(a)].handle = timer[Mine(a)].handle
<1>1. Mine(a) \in Timer
  BY DEF PauseTimer, TypeInv, Placed, Holds, Sets
<1>2. /\ OnlyTimer(Mine(a)) /\ timer'[Mine(a)].state = "pause"
      /\ timer'[Mine(a)].handle = timer[Mine(a)].handle
  BY <1>1, StateChange, "pause" \in States DEF PauseTimer, TypeInv, States
<1>3. OnlyCall(a, "run")
  BY GotoCall, "run" \in Place DEF PauseTimer, TypeInv, Place
<1>4. TypeOK'
  BY <1>2, <1>3 DEF PauseTimer, TypeInv, TypeOK, OnlyTimer, OnlyCall
<1>5. Placed'
  BY <1>1, <1>3 DEF PauseTimer, TypeInv, Placed, OnlyCall, Holds, Mine, Sets, Kills,
     Actor
<1> QED BY <1>1, <1>2, <1>3, <1>4, <1>5 DEF TypeInv

LEMMA RunTimerType ==
  ASSUME TypeInv, NEW a \in Actor, RunTimer(a)
  PROVE  /\ TypeInv' /\ OnlyCall(a, "check") /\ Mine(a) \in Timer
         /\ OnlyTimer(Mine(a)) /\ timer'[Mine(a)].state = IF arg[a].oneShot THEN "pause" ELSE "running"
         /\ timer'[Mine(a)].handle = timer[Mine(a)].handle
<1> DEFINE s == IF arg[a].oneShot THEN "pause" ELSE "running"
<1>1. Mine(a) \in Timer
  BY DEF RunTimer, TypeInv, Placed, Holds, Sets
<1>2. /\ OnlyTimer(Mine(a)) /\ timer'[Mine(a)].state = s
      /\ timer'[Mine(a)].handle = timer[Mine(a)].handle
  <2>1. timer' = [timer EXCEPT ![Mine(a)].state = s] /\ s \in States
    BY DEF RunTimer, States
  <2> HIDE DEF s
  <2> QED BY <1>1, <2>1, StateChange DEF TypeInv
<1>3. OnlyCall(a, "check")
  BY GotoCall, "check" \in Place DEF RunTimer, TypeInv, Place
<1>4. TypeOK'
  BY <1>2, <1>3 DEF RunTimer, TypeInv, TypeOK, OnlyTimer, OnlyCall
<1>5. Placed'
  BY <1>1, <1>3 DEF RunTimer, TypeInv, Placed, OnlyCall, Holds, Mine, Sets, Kills,
     Actor
<1> QED BY <1>1, <1>2, <1>3, <1>4, <1>5 DEF TypeInv

LEMMA CheckThreadType ==
  ASSUME TypeInv, NEW a \in Actor, CheckThread(a)
  PROVE  /\ TypeInv' /\ Mine(a) \in Timer
         /\ OnlyCall(a, IF HasThread(Mine(a)) THEN "idle" ELSE "spawn")
<1> DEFINE place == IF HasThread(Mine(a)) THEN "idle" ELSE "spawn"
<1>1. Mine(a) \in Timer
  BY DEF CheckThread, TypeInv, Placed, Holds, Sets
<1>2. OnlyCall(a, place)
  BY GotoCall, place \in Place DEF CheckThread, TypeInv, Place
<1>3. TypeOK'
  BY <1>2 DEF CheckThread, TypeInv, TypeOK, OnlyCall
<1>4. Placed'
  BY <1>1, <1>2 DEF CheckThread, TypeInv, Placed, OnlyCall, Holds, Mine, Sets, Kills,
     Actor
<1> QED BY <1>1, <1>2, <1>3, <1>4 DEF TypeInv

NewThread == CHOOSE th \in Thread : at[th] = "none"

LEMMA SpawnType ==
  ASSUME TypeInv, NEW a \in Actor, Spawn(a)
  PROVE  /\ TypeInv' /\ OnlyCall(a, "store") /\ Mine(a) \in Timer
         /\ NewThread \in Thread /\ at[NewThread] = "none" /\ OnlyAt(NewThread, "loop")
         /\ body'[NewThread] = Mine(a)
         /\ \A th \in Thread \ {NewThread} : body'[th] = body[th]
         /\ OnlyArg(a) /\ arg'[a].thread = NewThread /\ arg'[a].timer = arg[a].timer
         /\ arg'[a].id = arg[a].id /\ arg'[a].oneShot = arg[a].oneShot
         /\ arg'[a].all = arg[a].all /\ arg'[a].todo = arg[a].todo
<1>1. Mine(a) \in Timer
  BY DEF Spawn, TypeInv, Placed, Holds, Sets
<1>2. NewThread \in Thread /\ at[NewThread] = "none"
  BY DEF Spawn, NewThread
<1>3. /\ OnlyArg(a) /\ arg'[a].thread = NewThread /\ arg'[a].timer = arg[a].timer
      /\ arg'[a].id = arg[a].id /\ arg'[a].oneShot = arg[a].oneShot
      /\ arg'[a].all = arg[a].all /\ arg'[a].todo = arg[a].todo
  <2>1. arg' = [arg EXCEPT ![a].thread = NewThread]
    BY DEF Spawn, NewThread
  <2> QED BY <1>2, <2>1, ArgThread DEF TypeInv
<1>4. OnlyCall(a, "store")
  BY GotoCall, "store" \in Place DEF Spawn, TypeInv, Place
<1>5. OnlyAt(NewThread, "loop") /\ body' = [body EXCEPT ![NewThread] = Mine(a)]
  BY <1>2 DEF Spawn, NewThread, OnlyAt, TypeInv, TypeOK
<1>6. /\ body' \in [Thread -> Timer \cup {Null}] /\ body'[NewThread] = Mine(a)
      /\ \A th \in Thread \ {NewThread} : body'[th] = body[th]
  BY <1>1, <1>2, <1>5 DEF TypeInv, TypeOK
<1>7. TypeOK'
  BY <1>3, <1>4, <1>5, <1>6 DEF Spawn, TypeInv, TypeOK, OnlyArg, OnlyCall, OnlyAt
<1>8. Placed'
  BY <1>1, <1>2, <1>3, <1>4, <1>5, <1>6 DEF Spawn, TypeInv, Placed, OnlyArg, OnlyCall, OnlyAt,
     Holds, Mine, Sets, Kills, Actor
<1> QED BY <1>1, <1>2, <1>3, <1>4, <1>5, <1>6, <1>7, <1>8 DEF TypeInv

LEMMA StoreType ==
  ASSUME TypeInv, NEW a \in Actor, Store(a)
  PROVE  /\ TypeInv' /\ OnlyCall(a, "idle") /\ Mine(a) \in Timer
         /\ OnlyTimer(Mine(a)) /\ timer'[Mine(a)].handle = arg[a].thread
         /\ timer'[Mine(a)].state \in {"running", timer[Mine(a)].state}
<1> DEFINE s == IF arg[a].oneShot THEN "running" ELSE timer[Mine(a)].state
           new == [timer[Mine(a)] EXCEPT !.handle = arg[a].thread, !.state = s]
<1>1. Mine(a) \in Timer /\ timer[Mine(a)] \in TimerInfo /\ arg[a].thread \in Thread
  BY DEF Store, TypeInv, TypeOK, Placed, Holds, Sets
<1>2. /\ new \in TimerInfo /\ new.handle = arg[a].thread /\ new.state = s
      /\ new.id = timer[Mine(a)].id /\ new.oneShot = timer[Mine(a)].oneShot
  BY <1>1 DEF TimerInfo
<1>3. timer' = [timer EXCEPT ![Mine(a)] = new]
  <2>1. timer' = [timer EXCEPT ![Mine(a)].handle = arg[a].thread,
                               ![Mine(a)].state = IF arg[a].oneShot THEN "running" ELSE @]
    BY DEF Store
  <2> QED BY <1>1, <2>1 DEF TypeInv, TypeOK
<1>4. /\ OnlyTimer(Mine(a)) /\ timer'[Mine(a)].handle = arg[a].thread
      /\ timer'[Mine(a)].state \in {"running", timer[Mine(a)].state}
  <2>1. timer'[Mine(a)] = new /\ timer' \in [Timer -> TimerInfo]
        /\ \A u \in Timer \ {Mine(a)} : timer'[u] = timer[u]
    <3> HIDE DEF new
    <3> QED BY <1>1, <1>2, <1>3 DEF TypeInv, TypeOK
  <2>2. s \in {"running", timer[Mine(a)].state}
    OBVIOUS
  <2> HIDE DEF new, s
  <2> QED BY <1>2, <2>1, <2>2 DEF OnlyTimer
<1>5. OnlyCall(a, "idle")
  BY GotoCall, "idle" \in Place DEF Store, TypeInv, Place
<1>6. TypeOK'
  BY <1>4, <1>5 DEF Store, TypeInv, TypeOK, OnlyTimer, OnlyCall
<1>7. Placed'
  BY <1>1, <1>5 DEF Store, TypeInv, Placed, OnlyCall, Holds, Mine, Sets, Kills, Actor
<1> QED BY <1>1, <1>4, <1>5, <1>6, <1>7 DEF TypeInv

LEMMA SpawnFailsType ==
  ASSUME TypeInv, NEW a \in Actor, SpawnFails(a)
  PROVE  /\ TypeInv' /\ OnlyCall(a, "idle") /\ Mine(a) \in Timer
         /\ OnlyTimer(Mine(a)) /\ timer'[Mine(a)].state = "exit"
         /\ timer'[Mine(a)].handle = timer[Mine(a)].handle
<1>1. Mine(a) \in Timer
  BY DEF SpawnFails, TypeInv, Placed, Holds, Sets
<1>2. /\ OnlyTimer(Mine(a)) /\ timer'[Mine(a)].state = "exit"
      /\ timer'[Mine(a)].handle = timer[Mine(a)].handle
  BY <1>1, StateChange, "exit" \in States DEF SpawnFails, TypeInv, States
<1>3. OnlyCall(a, "idle")
  BY GotoCall, "idle" \in Place DEF SpawnFails, TypeInv, Place
<1>4. TypeOK'
  BY <1>2, <1>3 DEF SpawnFails, TypeInv, TypeOK, OnlyTimer, OnlyCall
<1>5. Placed'
  BY <1>1, <1>3 DEF SpawnFails, TypeInv, Placed, OnlyCall, Holds, Mine, Sets, Kills,
     Actor
<1> QED BY <1>1, <1>2, <1>3, <1>4, <1>5 DEF TypeInv

LEMMA EraseType ==
  ASSUME TypeInv, NEW a \in Actor, Erase(a)
  PROVE  /\ TypeInv' /\ OnlyArg(a) /\ arg'[a].timer = table[arg[a].id]
         /\ arg'[a].id = arg[a].id /\ arg'[a].oneShot = arg[a].oneShot
         /\ arg'[a].all = arg[a].all /\ arg[a].id \in Id
         /\ OnlyCall(a, IF table[arg[a].id] = Null THEN "idle" ELSE "exit")
         /\ table'[arg[a].id] = Null /\ \A i \in Id \ {arg[a].id} : table'[i] = table[i]
<1> DEFINE place == IF table[arg[a].id] = Null THEN "idle" ELSE "exit"
<1>1. arg[a].id \in Id /\ table[arg[a].id] \in Timer \cup {Null}
  BY DEF TypeInv, TypeOK, Argument
<1>2. /\ OnlyArg(a) /\ arg'[a].timer = table[arg[a].id] /\ arg'[a].all = arg[a].all
      /\ arg'[a].id = arg[a].id /\ arg'[a].oneShot = arg[a].oneShot
  BY <1>1, ArgTimer DEF Erase, TypeInv
<1>3. OnlyCall(a, place)
  BY GotoCall, place \in Place DEF Erase, TypeInv, Place
<1>4. /\ table' \in [Id -> Timer \cup {Null}]
      /\ table'[arg[a].id] = Null /\ \A i \in Id \ {arg[a].id} : table'[i] = table[i]
  BY <1>1 DEF Erase, TypeInv, TypeOK
<1>5. TypeOK'
  BY <1>2, <1>3, <1>4 DEF Erase, TypeInv, TypeOK, OnlyArg, OnlyCall
<1>6. Placed'
  BY <1>1, <1>2, <1>3 DEF Erase, TypeInv, Placed, OnlyArg, OnlyCall, Holds, Mine, Sets, Kills,
     Actor
<1> QED BY <1>1, <1>2, <1>3, <1>4, <1>5, <1>6 DEF TypeInv

LEMMA ExitType ==
  ASSUME TypeInv, NEW a \in Actor, Exit(a)
  PROVE  /\ TypeInv' /\ OnlyCall(a, "take") /\ Mine(a) \in Timer
         /\ OnlyTimer(Mine(a)) /\ timer'[Mine(a)].state = "exit"
         /\ timer'[Mine(a)].handle = timer[Mine(a)].handle
<1>1. Mine(a) \in Timer
  BY DEF Exit, TypeInv, Placed, Holds, Kills
<1>2. /\ OnlyTimer(Mine(a)) /\ timer'[Mine(a)].state = "exit"
      /\ timer'[Mine(a)].handle = timer[Mine(a)].handle
  BY <1>1, StateChange, "exit" \in States DEF Exit, TypeInv, States
<1>3. OnlyCall(a, "take")
  BY GotoCall, "take" \in Place DEF Exit, TypeInv, Place
<1>4. TypeOK'
  BY <1>2, <1>3 DEF Exit, TypeInv, TypeOK, OnlyTimer, OnlyCall
<1>5. Placed'
  BY <1>1, <1>3 DEF Exit, TypeInv, Placed, OnlyCall, Holds, Mine, Sets, Kills,
     Actor
<1> QED BY <1>1, <1>2, <1>3, <1>4, <1>5 DEF TypeInv

LEMMA TakeType ==
  ASSUME TypeInv, NEW a \in Actor, Take(a)
  PROVE  /\ TypeInv' /\ OnlyCall(a, "join") /\ Mine(a) \in Timer
         /\ OnlyArg(a) /\ arg'[a].thread = timer[Mine(a)].handle /\ arg'[a].timer = arg[a].timer
         /\ arg'[a].id = arg[a].id /\ arg'[a].oneShot = arg[a].oneShot
         /\ arg'[a].all = arg[a].all /\ arg'[a].todo = arg[a].todo
         /\ OnlyTimer(Mine(a)) /\ timer'[Mine(a)].state = timer[Mine(a)].state
         /\ timer'[Mine(a)].handle = Null
<1>1. Mine(a) \in Timer /\ timer[Mine(a)].handle \in Thread \cup {Null}
  BY DEF Take, TypeInv, TypeOK, Placed, Holds, Kills, TimerInfo
<1>2. /\ OnlyTimer(Mine(a)) /\ timer'[Mine(a)].state = timer[Mine(a)].state
      /\ timer'[Mine(a)].handle = Null
  BY <1>1, HandleCleared DEF Take, TypeInv
<1>3. OnlyCall(a, "join")
  BY GotoCall, "join" \in Place DEF Take, TypeInv, Place
<1>4. /\ OnlyArg(a) /\ arg'[a].thread = timer[Mine(a)].handle /\ arg'[a].timer = arg[a].timer
      /\ arg'[a].id = arg[a].id /\ arg'[a].oneShot = arg[a].oneShot
      /\ arg'[a].all = arg[a].all /\ arg'[a].todo = arg[a].todo
  BY <1>1, ArgThread DEF Take, TypeInv
<1>5. TypeOK'
  BY <1>2, <1>3, <1>4 DEF Take, TypeInv, TypeOK, OnlyTimer, OnlyCall, OnlyArg
<1>6. Placed'
  BY <1>1, <1>3, <1>4 DEF Take, TypeInv, Placed, OnlyCall, OnlyArg, Holds, Mine, Sets, Kills,
     Actor
<1> QED BY <1>1, <1>2, <1>3, <1>4, <1>5, <1>6 DEF TypeInv

LEMMA JoinType ==
  ASSUME TypeInv, NEW a \in Actor, Join(a)
  PROVE  /\ TypeInv' /\ OnlyCall(a, IF arg[a].all THEN "exitall" ELSE "free")
         /\ Mine(a) \in Timer /\ OnlyArg(a) /\ arg'[a].timer = arg[a].timer
         /\ arg'[a].id = arg[a].id /\ arg'[a].oneShot = arg[a].oneShot
         /\ arg'[a].all = arg[a].all /\ arg'[a].todo = arg[a].todo \ {Mine(a)}
<1> DEFINE place == IF arg[a].all THEN "exitall" ELSE "free"
<1>1. Mine(a) \in Timer /\ arg[a].todo \ {Mine(a)} \in SUBSET Timer
  BY DEF Join, TypeInv, TypeOK, Placed, Holds, Kills, Argument
<1>2. OnlyCall(a, place)
  BY GotoCall, place \in Place DEF Join, TypeInv, Place
<1>3. /\ OnlyArg(a) /\ arg'[a].timer = arg[a].timer
      /\ arg'[a].id = arg[a].id /\ arg'[a].oneShot = arg[a].oneShot
      /\ arg'[a].all = arg[a].all /\ arg'[a].todo = arg[a].todo \ {Mine(a)}
  <2>1. arg' = [arg EXCEPT ![a].todo = arg[a].todo \ {Mine(a)}]
    BY DEF Join
  <2> QED BY <1>1, <2>1, ArgTodo DEF TypeInv
<1>4. TypeOK'
  BY <1>2, <1>3 DEF Join, TypeInv, TypeOK, OnlyCall, OnlyArg
<1>5. Placed'
  BY <1>1, <1>2, <1>3 DEF Join, TypeInv, Placed, OnlyCall, OnlyArg, Holds, Mine, Sets, Kills,
     Actor
<1> QED BY <1>1, <1>2, <1>3, <1>4, <1>5 DEF TypeInv

LEMMA JoinSelfType ==
  ASSUME TypeInv, NEW a \in Actor, JoinSelf(a)
  PROVE  /\ TypeInv' /\ OnlyCall(a, "idle") /\ a \in Thread /\ OnlyAt(a, "return")
         /\ Mine(a) \in Timer
<1>1. a \in Thread
  BY Numbers DEF JoinSelf, TypeInv, TypeOK, Argument
<1>2. OnlyCall(a, "idle") /\ Mine(a) \in Timer
  BY GotoCall, "idle" \in Place DEF JoinSelf, TypeInv, Place, Placed, Holds, Kills
<1>3. OnlyAt(a, "return")
  BY <1>1 DEF JoinSelf, OnlyAt, TypeInv, TypeOK
<1>4. TypeOK'
  BY <1>2, <1>3 DEF JoinSelf, Unlock, TypeInv, TypeOK, OnlyCall, OnlyAt
<1>5. Placed'
  <2>1. call' \in [Actor -> Place] /\ \A b \in Actor : Holds(b)' => Holds(b)
    BY <1>2 DEF OnlyCall, Holds, Sets, Kills
  <2>2. \A th \in Thread : at'[th] \in Runs => th = a \/ at[th] \in Runs
    BY <1>3 DEF OnlyAt
  <2>3. at[a] = "callback"
    BY <1>1 DEF JoinSelf, TypeInv, Placed
  <2>4. \A th \in Thread : call'[th] # "idle" => th # a /\ call[th] # "idle"
    BY <1>2 DEF OnlyCall, Actor
  <2>5. \A b \in Actor : call'[b] = "store" => call[b] = "store"
    BY <1>2 DEF OnlyCall
  <2> QED BY <2>1, <2>2, <2>3, <2>4, <2>5, <1>1, <1>3 DEF JoinSelf, TypeInv, Placed, Mine, Runs, OnlyAt
<1> QED BY <1>1, <1>2, <1>3, <1>4, <1>5 DEF TypeInv

LEMMA FreeType ==
  ASSUME TypeInv, NEW a \in Actor, Free(a)
  PROVE  /\ TypeInv' /\ Mine(a) \in Timer
         /\ \/ HasThread(Mine(a)) /\ OnlyCall(a, "exit") /\ timer' = timer
            \/ /\ ~HasThread(Mine(a)) /\ OnlyCall(a, "idle")
               /\ OnlyTimer(Mine(a)) /\ timer'[Mine(a)].state = "freed"
               /\ timer'[Mine(a)].handle = timer[Mine(a)].handle
<1>1. Mine(a) \in Timer
  BY DEF Free, TypeInv, Placed, Holds, Kills
<1>2. CASE HasThread(Mine(a))
  <2>1. OnlyCall(a, "exit") /\ timer' = timer
    BY <1>2, GotoCall, "exit" \in Place DEF Free, TypeInv, Place
  <2>2. TypeOK'
    BY <2>1 DEF Free, TypeInv, TypeOK, OnlyCall
  <2>3. Placed'
    BY <1>1, <2>1 DEF Free, TypeInv, Placed, OnlyCall, Holds, Mine, Sets, Kills, Actor
  <2> QED BY <1>1, <1>2, <2>1, <2>2, <2>3 DEF TypeInv
<1>3. CASE ~HasThread(Mine(a))
  <2>1. OnlyCall(a, "idle")
    BY <1>3, GotoCall, "idle" \in Place DEF Free, TypeInv, Place
  <2>2. /\ OnlyTimer(Mine(a)) /\ timer'[Mine(a)].state = "freed"
        /\ timer'[Mine(a)].handle = timer[Mine(a)].handle
    BY <1>1, <1>3, StateChange, "freed" \in States DEF Free, TypeInv, States
  <2>3. TypeOK'
    BY <2>1, <2>2 DEF Free, TypeInv, TypeOK, OnlyCall, OnlyTimer
  <2>4. Placed'
    BY <1>1, <2>1 DEF Free, TypeInv, Placed, OnlyCall, Holds, Mine, Sets, Kills, Actor
  <2> QED BY <1>1, <1>3, <2>1, <2>2, <2>3, <2>4 DEF TypeInv
<1> QED BY <1>2, <1>3

LEMMA TabledType ==
  ASSUME TypeInv
  PROVE  Tabled \in SUBSET Timer
BY DEF Tabled, TypeInv, TypeOK

LEMMA LockAllType ==
  ASSUME TypeInv, NEW a \in Actor, LockAll(a)
  PROVE  /\ TypeInv' /\ OnlyCall(a, "exitall") /\ OnlyArg(a)
         /\ arg'[a].id = arg[a].id /\ arg'[a].oneShot = arg[a].oneShot
         /\ arg'[a].all = arg[a].all /\ arg'[a].todo = Tabled
<1>1. OnlyCall(a, "exitall")
  BY GotoCall, "exitall" \in Place DEF LockAll, TypeInv, Place
<1>2. /\ OnlyArg(a) /\ arg'[a].todo = Tabled
      /\ arg'[a].id = arg[a].id /\ arg'[a].oneShot = arg[a].oneShot
      /\ arg'[a].all = arg[a].all
  BY TabledType, ArgTodo DEF LockAll, TypeInv
<1>3. TypeOK'
  BY <1>1, <1>2 DEF LockAll, TypeInv, TypeOK, OnlyCall, OnlyArg
<1>4. Placed'
  BY <1>1, <1>2 DEF LockAll, TypeInv, Placed, OnlyCall, OnlyArg, Holds, Mine, Sets, Kills, Actor
<1> QED BY <1>1, <1>2, <1>3, <1>4 DEF TypeInv

LEMMA ExitNextType ==
  ASSUME TypeInv, NEW a \in Actor, ExitNext(a)
  PROVE  /\ TypeInv' /\ OnlyCall(a, "take") /\ OnlyArg(a) /\ arg'[a].timer \in arg[a].todo
         /\ arg'[a].id = arg[a].id /\ arg'[a].oneShot = arg[a].oneShot
         /\ arg'[a].all = arg[a].all /\ arg'[a].todo = arg[a].todo
         /\ arg'[a].timer \in Timer
         /\ OnlyTimer(arg'[a].timer) /\ timer'[arg'[a].timer].state = "exit"
         /\ timer'[arg'[a].timer].handle = timer[arg'[a].timer].handle
<1>1. PICK t \in arg[a].todo : /\ arg' = [arg EXCEPT ![a].timer = t]
                               /\ timer' = [timer EXCEPT ![t].state = "exit"]
  BY DEF ExitNext
<1>2. t \in Timer
  BY DEF TypeInv, TypeOK, Argument
<1>3. OnlyCall(a, "take")
  BY GotoCall, "take" \in Place DEF ExitNext, TypeInv, Place
<1>4. /\ OnlyArg(a) /\ arg'[a].timer = t
      /\ arg'[a].id = arg[a].id /\ arg'[a].oneShot = arg[a].oneShot
      /\ arg'[a].all = arg[a].all /\ arg'[a].todo = arg[a].todo
  BY <1>1, <1>2, ArgTimer DEF TypeInv
<1>5. /\ OnlyTimer(t) /\ timer'[t].state = "exit" /\ timer'[t].handle = timer[t].handle
  BY <1>1, <1>2, StateChange, "exit" \in States DEF TypeInv, States
<1>6. TypeOK'
  BY <1>3, <1>4, <1>5 DEF ExitNext, TypeInv, TypeOK, OnlyCall, OnlyArg, OnlyTimer
<1>7. Placed'
  BY <1>2, <1>3, <1>4 DEF ExitNext, TypeInv, Placed, OnlyCall, OnlyArg, Holds, Mine, Sets, Kills,
     Actor
<1> QED BY <1>2, <1>3, <1>4, <1>5, <1>6, <1>7 DEF TypeInv

LEMMA FreeAllType ==
  ASSUME TypeInv, NEW a \in Actor, FreeAll(a)
  PROVE  /\ TypeInv' /\ OnlyCall(a, "idle")
         /\ \A i \in Id : table'[i] = Null
         /\ \A t \in Tabled : timer'[t].state = "freed"
         /\ \A t \in Timer \ Tabled : timer'[t] = timer[t]
         /\ \A t \in Timer : /\ timer'[t].id = timer[t].id
                             /\ timer'[t].oneShot = timer[t].oneShot
                             /\ timer'[t].handle = timer[t].handle
<1>1. OnlyCall(a, "idle")
  BY GotoCall, "idle" \in Place DEF FreeAll, TypeInv, Place
<1>2. table' \in [Id -> Timer \cup {Null}] /\ \A i \in Id : table'[i] = Null
  BY DEF FreeAll
<1>3. ASSUME NEW t \in Timer
      PROVE  /\ timer'[t] \in TimerInfo
             /\ t \in Tabled => timer'[t].state = "freed"
             /\ t \notin Tabled => timer'[t] = timer[t]
             /\ timer'[t].id = timer[t].id /\ timer'[t].oneShot = timer[t].oneShot
             /\ timer'[t].handle = timer[t].handle
  <2>1. timer[t] \in TimerInfo
    BY DEF TypeInv, TypeOK
  <2>2. timer'[t] = IF t \in Tabled THEN [timer[t] EXCEPT !.state = "freed"] ELSE timer[t]
    BY DEF FreeAll
  <2> QED BY <2>1, <2>2 DEF TimerInfo
<1>4. timer' \in [Timer -> TimerInfo]
  <2>1. timer' = [t \in Timer |-> timer'[t]]
    BY DEF FreeAll
  <2> QED BY <1>3, <2>1
<1>5. TypeOK'
  BY <1>1, <1>2, <1>4 DEF FreeAll, Unlock, TypeInv, TypeOK, OnlyCall
<1>6. Placed'
  BY <1>1 DEF FreeAll, TypeInv, Placed, OnlyCall, Holds, Mine, Sets, Kills, Actor
<1> QED BY <1>1, <1>2, <1>3, <1>5, <1>6, TabledType DEF TypeInv

LEMMA KillAgainType ==
  ASSUME TypeInv, NEW a \in Actor, KillAgain(a)
  PROVE  TypeInv'
<1> DEFINE back == {t \in Tabled : HasThread(t)}
<1>1. OnlyArg(a) /\ arg'[a].timer = arg[a].timer
  <2>1. back \in SUBSET Timer /\ arg' = [arg EXCEPT ![a].todo = back]
    BY TabledType DEF KillAgain
  <2> HIDE DEF back
  <2> QED BY <2>1, ArgTodo DEF TypeInv
<1>2. TypeOK'
  BY <1>1 DEF KillAgain, TypeInv, TypeOK, OnlyArg
<1>3. Placed'
  BY <1>1 DEF KillAgain, TypeInv, Placed, OnlyArg, Holds, Mine
<1> QED BY <1>2, <1>3 DEF TypeInv

-----------------------------------------------------------------------------
(* The timers' threads *)

LEMMA LookType ==
  ASSUME TypeInv, NEW th \in Thread, Look(th)
  PROVE  TypeInv' /\ OnlyAt(th, IF State(th) = "exit" THEN "leave" ELSE "fire")
<1>1. OnlyAt(th, IF State(th) = "exit" THEN "leave" ELSE "fire")
  BY DEF Look, OnlyAt, TypeInv, TypeOK
<1>2. TypeOK'
  BY <1>1 DEF Look, TypeInv, TypeOK, OnlyAt
<1>3. Placed'
  BY <1>1 DEF Look, TypeInv, Placed, OnlyAt, Holds, Mine, Runs
<1> QED BY <1>1, <1>2, <1>3 DEF TypeInv

LEMMA FireType ==
  ASSUME TypeInv, NEW th \in Thread, Fire(th)
  PROVE  TypeInv' /\ OnlyAt(th, "callback")
<1>1. OnlyAt(th, "callback")
  BY DEF Fire, OnlyAt, TypeInv, TypeOK
<1>2. TypeOK'
  BY <1>1 DEF Fire, TypeInv, TypeOK, OnlyAt
<1>3. Placed'
  BY <1>1 DEF Fire, TypeInv, Placed, OnlyAt, Holds, Mine, Runs
<1> QED BY <1>1, <1>2, <1>3 DEF TypeInv

LEMMA ReturnType ==
  ASSUME TypeInv, NEW th \in Thread, Return(th)
  PROVE  /\ TypeInv' /\ OnlyAt(th, "loop") /\ body[th] \in Timer /\ call[th] = "idle"
         /\ \/ ~timer[body[th]].oneShot /\ timer' = timer
            \/ /\ timer[body[th]].oneShot
               /\ OnlyTimer(body[th]) /\ timer'[body[th]].state = "exit"
               /\ timer'[body[th]].handle = timer[body[th]].handle
<1>1. OnlyAt(th, "loop") /\ body[th] \in Timer
  BY DEF Return, OnlyAt, TypeInv, TypeOK, Placed, Runs
<1>2. \/ ~timer[body[th]].oneShot /\ timer' = timer
      \/ /\ timer[body[th]].oneShot
         /\ OnlyTimer(body[th]) /\ timer'[body[th]].state = "exit"
         /\ timer'[body[th]].handle = timer[body[th]].handle
  BY <1>1, StateChange, "exit" \in States DEF Return, TypeInv, States
<1>3. timer' \in [Timer -> TimerInfo]
  BY <1>2 DEF OnlyTimer, TypeInv, TypeOK
<1>4. TypeOK'
  BY <1>1, <1>3 DEF Return, TypeInv, TypeOK, OnlyAt
<1>5. Placed'
  BY <1>1 DEF Return, TypeInv, Placed, OnlyAt, Holds, Mine, Runs
<1> QED BY <1>1, <1>2, <1>4, <1>5 DEF TypeInv, Return

LEMMA LeaveType ==
  ASSUME TypeInv, NEW th \in Thread, Leave(th)
  PROVE  /\ TypeInv' /\ OnlyAt(th, "done") /\ body[th] \in Timer
         /\ \/ ~timer[body[th]].oneShot /\ timer' = timer
            \/ /\ timer[body[th]].oneShot
               /\ OnlyTimer(body[th]) /\ timer'[body[th]].state = "freed"
               /\ timer'[body[th]].handle = timer[body[th]].handle
<1>1. OnlyAt(th, "done") /\ body[th] \in Timer
  BY DEF Leave, OnlyAt, TypeInv, TypeOK, Placed, Runs
<1>2. \/ ~timer[body[th]].oneShot /\ timer' = timer
      \/ /\ timer[body[th]].oneShot
         /\ OnlyTimer(body[th]) /\ timer'[body[th]].state = "freed"
         /\ timer'[body[th]].handle = timer[body[th]].handle
  BY <1>1, StateChange, "freed" \in States DEF Leave, TypeInv, States
<1>3. timer' \in [Timer -> TimerInfo]
  BY <1>2 DEF OnlyTimer, TypeInv, TypeOK
<1>4. TypeOK'
  BY <1>1, <1>3 DEF Leave, TypeInv, TypeOK, OnlyAt
<1>5. Placed'
  BY <1>1 DEF Leave, TypeInv, Placed, OnlyAt, Holds, Mine, Runs
<1> QED BY <1>1, <1>2, <1>4, <1>5 DEF TypeInv

-----------------------------------------------------------------------------
(* The type theorem *)

LEMMA CallType ==
  ASSUME TypeInv, NEW a \in Actor, Call(a)
  PROVE  TypeInv'
<1>1. ASSUME NEW i \in Id, NEW one \in BOOLEAN, CallSetTimer(a, i, one)
      PROVE  TypeInv'
  <2> DEFINE op == IF one THEN "oneshot" ELSE "set"
             place == IF one THEN "create" ELSE "find"
             new == [NoArg EXCEPT !.id = i, !.oneShot = one]
  <2>1. /\ op \in Op /\ place \in Place \ (Sets \cup Kills) /\ new \in Argument
        /\ Calls(a, op, i) /\ arg' = [arg EXCEPT ![a] = new] /\ Goto(a, place)
        /\ cleared' = FALSE
    BY <1>1, NoArgType DEF CallSetTimer, Op, Place, Sets, Kills
  <2> HIDE DEF op, place, new
  <2> QED BY <2>1, CallsType
<1>2. ASSUME NEW i \in Id, CallKillTimer(a, i)
      PROVE  TypeInv'
  <2> DEFINE new == [NoArg EXCEPT !.id = i]
  <2>1. /\ "kill" \in Op /\ "erase" \in Place \ (Sets \cup Kills) /\ new \in Argument
        /\ Calls(a, "kill", i) /\ arg' = [arg EXCEPT ![a] = new] /\ Goto(a, "erase")
        /\ cleared' = cleared /\ cleared \in BOOLEAN
    BY <1>2, NoArgType DEF CallKillTimer, Op, Place, Sets, Kills, TypeInv, TypeOK
  <2> HIDE DEF new
  <2> QED BY <2>1, CallsType
<1>3. ASSUME CallKillAll(a)
      PROVE  TypeInv'
  <2> DEFINE new == [NoArg EXCEPT !.all = TRUE]
  <2>1. PICK i \in Id : Calls(a, "killall", i)
    BY <1>3 DEF CallKillAll
  <2>2. /\ "killall" \in Op /\ "lockall" \in Place \ (Sets \cup Kills) /\ new \in Argument
        /\ arg' = [arg EXCEPT ![a] = new] /\ Goto(a, "lockall")
        /\ cleared' = cleared /\ cleared \in BOOLEAN
    BY <1>3, NoArgType, <2>1 DEF CallKillAll, Op, Place, Sets, Kills, TypeInv, TypeOK
  <2> HIDE DEF new
  <2> QED BY <2>1, <2>2, CallsType
<1> QED BY <1>1, <1>2, <1>3 DEF Call

LEMMA TypeInit == Init => TypeInv
<1> SUFFICES ASSUME Init PROVE TypeInv
  OBVIOUS
<1>1. NoArg.id \in Id /\ NoArg \in Argument
  BY ConstAssumption DEF NoArg, Argument
<1>2. TypeOK
  BY <1>1 DEF Init, TypeOK, TimerInfo, Place
<1>3. Placed
  BY DEF Init, Placed, Holds, Sets, Kills, Runs, Actor
<1> QED BY <1>2, <1>3 DEF TypeInv

LEMMA TypeNext == TypeInv /\ [Next]_vars => TypeInv'
<1> SUFFICES ASSUME TypeInv, [Next]_vars PROVE TypeInv'
  OBVIOUS
<1>1. ASSUME NEW a \in Actor, Step(a) PROVE TypeInv'
  BY <1>1, FindType, CreateType, PauseTimerType, RunTimerType, CheckThreadType, SpawnType,
     StoreType, SpawnFailsType, EraseType, ExitType, TakeType, JoinType, JoinSelfType, FreeType,
     LockAllType, ExitNextType, FreeAllType, KillAgainType DEF Step
<1>2. ASSUME NEW th \in Thread, Loop(th) PROVE TypeInv'
  BY <1>2, LookType, FireType, ReturnType, LeaveType DEF Loop
<1>3. CASE UNCHANGED vars
  BY <1>3 DEF vars, TypeInv, TypeOK, Placed, Holds, Mine
<1> QED BY <1>1, <1>2, <1>3, CallType DEF Next

\* The table, the TimerInfo objects and the threads stay well-formed, and who
\* works on a TimerInfo has one, whatever workers and callbacks do.
THEOREM TimerTypeCorrect == Spec => []TypeOK
<1>1. TypeInv => TypeOK
  BY DEF TypeInv
<1> QED BY <1>1, TypeInit, TypeNext, PTL DEF Spec

-----------------------------------------------------------------------------
(* The inductive invariant: who may hold a timer.  It is about modules whose *)
(* callbacks set no periodic timer, and kill theirs only when no worker sets *)
(* it meanwhile and its handle is stored (Unraced).                          *)

Tame == Unraced /\ "set" \notin use.callbackOps

\* No other worker calls.
Alone(a) == a \in Worker /\ \A w \in Worker : w # a => call[w] = "idle"

\* What an actor that is not idle works on.
Called ==
  \A a \in Actor : call[a] # "idle" =>
    IF arg[a].all
    THEN Alone(a) /\ call[a] \in {"lockall", "exitall", "take", "join"}
    ELSE /\ call[a] \notin {"lockall", "exitall"}
         /\ arg[a].oneShot <=> arg[a].id \in use.oneShots
         /\ arg[a].oneShot => call[a] \in {"create", "run", "check", "spawn", "store"}
         /\ a \in Worker => Owner[arg[a].id] = a

\* KillAll has the table's lock from its first join to its end, nobody else has.
Locked ==
  \A a \in Actor : tableLock = a <=> arg[a].all /\ call[a] \in {"exitall", "take", "join"}

\* A callback only sets one-shot timers and kills its own.
FromCallback ==
  \A th \in Thread : call[th] # "idle" =>
    /\ arg[th].id = timer[body[th]].id
    /\ arg[th].oneShot \/ /\ "kill" \in use.callbackOps
                          /\ call[th] \in {"erase", "exit", "take", "join"}
                          /\ call[th] # "erase" => Mine(th) = body[th]
    /\ call[th] = "join" => arg[th].thread = th

\* The table has periodic timers that exist, each under its id.
Listed ==
  /\ \A i \in Id : table[i] # Null =>
       timer[table[i]].id = i /\ ~timer[table[i]].oneShot /\ Exists(table[i])
  /\ \A t \in Timer : /\ timer[t].state = "none" => timer[t].handle = Null
                      /\ timer[t].oneShot => timer[t].id \in use.oneShots

\* Who sets or kills a timer has it for itself.
Apart == \A a, b \in Actor : Holds(a) /\ Holds(b) /\ Mine(a) = Mine(b) => a = b

\* A timer that is being set is in the table, if it is periodic.
SetBy(a) ==
  /\ timer[Mine(a)].id = arg[a].id /\ (timer[Mine(a)].oneShot <=> arg[a].oneShot)
  /\ Exists(Mine(a))
  /\ arg[a].oneShot \/ table[arg[a].id] = Mine(a)
  /\ arg[a].oneShot \/ ~use.resets \/ call[a] \in {"spawn", "store"} =>
       timer[Mine(a)].handle = Null
  /\ arg[a].oneShot /\ call[a] \in {"check", "spawn", "store"} => timer[Mine(a)].state = "pause"

Setting ==
  /\ \A a \in Actor : call[a] \in Sets => SetBy(a)
  /\ \A w \in Worker :
       /\ call[w] = "create" /\ ~arg[w].oneShot => table[arg[w].id] = Null
       /\ call[w] = "find" /\ ~use.resets => table[arg[w].id] = Null

\* Actor a has created thread th and not stored its handle yet.
Stores(a, th) == call[a] = "store" /\ arg[a].thread = th

\* The new thread runs its timer; a prompt one calls nobody back yet, that of a
\* one-shot timer waits.
Storing ==
  \A a \in Actor, th \in Thread : Stores(a, th) =>
    /\ body[th] = Mine(a) /\ at[th] # "none"
    /\ use.prompt => at[th] # "callback"
    /\ arg[a].oneShot => at[th] = "loop"

\* A timer that KillTimer kills is in the table no more.
Killing ==
  \A a \in Actor : call[a] \in Kills =>
    /\ Exists(Mine(a)) /\ ~timer[Mine(a)].oneShot
    /\ call[a] # "exit" => timer[Mine(a)].state = "exit"
    /\ call[a] \in {"join", "free"} => timer[Mine(a)].handle = Null
    /\ IF arg[a].all THEN Mine(a) \in arg[a].todo
       ELSE /\ Mine(a) \notin Tabled /\ timer[Mine(a)].id = arg[a].id
            /\ a \in Worker => table[arg[a].id] = Null

\* While KillAll has the lock, the timers it is done with have no thread.
Clearing ==
  \A a \in Actor : tableLock = a =>
    /\ arg[a].todo \subseteq Tabled
    /\ \A t \in Tabled \ arg[a].todo : timer[t].handle = Null

\* A thread whose callback has killed its timer runs to its end.
Orphan(th) ==
  /\ "kill" \in use.callbackOps
  /\ at[th] \in {"return", "loop", "leave"} /\ State(th) = "exit" /\ body[th] \notin Tabled
  /\ \A a \in Actor : Holds(a) => Mine(a) # body[th]

\* Who waits for a thread's end or has yet to store its handle, and who kills the
\* timer of a thread.
Awaited(th) ==
  \E a \in Actor : call[a] \in {"join", "store"} /\ Mine(a) = body[th] /\ arg[a].thread = th
Killed(th)  == \E a \in Actor : call[a] \in Kills /\ ~arg[a].all /\ Mine(a) = body[th]

\* A timer has one thread; its handle, or who sets or kills it, leads to that
\* thread.
Running ==
  /\ \A th, u \in Thread : at[th] \in Runs /\ at[u] \in Runs /\ body[th] = body[u] => th = u
  /\ \A th \in Thread : at[th] \in Runs =>
       /\ Exists(body[th])
       /\ IF timer[body[th]].oneShot
          THEN \A a \in Actor : Holds(a) /\ Mine(a) = body[th] => Stores(a, th)
          ELSE /\ timer[body[th]].handle = th \/ Awaited(th) \/ Orphan(th)
               /\ body[th] \in Tabled \/ Killed(th) \/ Orphan(th)

\* A timer that exists can be found: in the table, by who is at work on it, or
\* by its own thread if it is a one-shot timer.
Found ==
  Deletes => \A t \in Timer :
    Exists(t) => \/ t \in Tabled
                 \/ \E a \in Actor : Holds(a) /\ Mine(a) = t
                 \/ \E th \in Thread : at[th] \in Runs /\ body[th] = t /\ timer[t].oneShot

\* After KillAll nothing runs, and nobody is setting a timer.
Over ==
  cleared /\ Destroys =>
    /\ \A th \in Thread : at[th] \in {"none", "done"}
    /\ \A a \in Actor : call[a] \notin {"find", "create"} \cup Sets

Safe == /\ Called /\ Locked /\ FromCallback /\ Listed /\ Apart /\ Setting /\ Storing /\ Killing
        /\ Clearing /\ Running /\ Found /\ Over

IInv == TypeInv /\ (Tame => Safe)

-----------------------------------------------------------------------------
(* Each step keeps the invariant. *)

LEMMA Actors == Worker \cap Thread = {} /\ Actor = Worker \cup Thread
BY ConstAssumption DEF Actor

\* What a step of an actor that stores no handle leaves to those who do.
LEMMA StorersStay ==
  ASSUME TypeInv, Safe, NEW a \in Actor, call[a] # "store", call'[a] # "store",
         \A b \in Actor : b # a => call'[b] = call[b] /\ arg'[b] = arg[b],
         UNCHANGED <<use, at, body>>
  PROVE  Storing' /\ \A b \in Actor, th \in Thread : Stores(b, th) <=> Stores(b, th)'
<1>1. \A b \in Actor, th \in Thread : Stores(b, th) <=> Stores(b, th)'
  BY DEF Stores
<1>2. \A b \in Actor, th \in Thread :
        Stores(b, th)' => Mine(b)' = Mine(b) /\ arg'[b].oneShot = arg[b].oneShot
  BY DEF Stores, Mine
<1> QED BY <1>1, <1>2 DEF Safe, Storing

LEMMA CallsSafe ==
  ASSUME TypeInv, Tame, Safe, NEW a \in Actor, NEW op \in Op, NEW i \in Id,
         NEW new \in Argument, NEW place \in Place \ (Sets \cup Kills), NEW c \in BOOLEAN,
         Calls(a, op, i), arg' = [arg EXCEPT ![a] = new], Goto(a, place), cleared' = c,
         new.all <=> op = "killall", new.oneShot <=> op = "oneshot",
         ~new.all => new.id = i,
         op = "set" => place = "find", op = "oneshot" => place = "create",
         op = "kill" => place = "erase", op = "killall" => place = "lockall",
         c => cleared /\ op \in {"kill", "killall"}
  PROVE  Safe'
<1>1. /\ OnlyArg(a) /\ arg'[a] = new /\ OnlyCall(a, place) /\ call[a] = "idle"
      /\ UNCHANGED <<use, table, tableLock, timer, at, body>>
  <2>1. OnlyArg(a) /\ arg'[a] = new /\ OnlyCall(a, place) /\ call[a] = "idle"
    BY CallsType
  <2> QED BY <2>1 DEF Calls
<1>2. /\ op \in {"set", "oneshot", "kill", "killall"}
      /\ op = "set" => place = "find"
      /\ op = "oneshot" => place = "create"
      /\ op = "kill" => place = "erase"
      /\ op = "killall" => place = "lockall"
  BY DEF Op
<1>3. \A b \in Actor : b # a => call'[b] = call[b] /\ arg'[b] = arg[b]
  BY <1>1 DEF OnlyArg, OnlyCall
<1>4. call'[a] = place /\ ~Holds(a) /\ ~Holds(a)' /\ place # "idle" /\ place # "join"
  BY <1>1, <1>2 DEF OnlyCall, Holds, Sets, Kills
<1>5. \A b \in Actor : /\ Holds(b)' <=> Holds(b)
                       /\ Holds(b) => b # a /\ Mine(b)' = Mine(b)
  BY <1>3, <1>4 DEF Holds, Mine
<1>6. Called'
  <2>1. ASSUME NEW b \in Actor, b # a, call[b] # "idle", arg[b].all
        PROVE  Alone(b)'
    BY <2>1, <1>3, Actors DEF Calls, Safe, Called, Alone
  <2>2. op = "killall" => Alone(a)'
    BY <1>3, Actors DEF Calls, Alone, Tame, Unraced
  <2> QED BY <1>1, <1>2, <1>3, <1>4, <2>1, <2>2, Actors DEF Calls, Safe, Called
<1>7. Locked'
  BY <1>1, <1>2, <1>3, <1>4 DEF Safe, Locked
<1>8. FromCallback'
  BY <1>1, <1>2, <1>3, <1>4, Actors DEF Calls, Safe, FromCallback, Mine, Tame, Unraced
<1>9. Listed' /\ Tabled' = Tabled
  BY <1>1 DEF Safe, Listed, Exists, Tabled
<1>10. Apart'
  BY <1>5 DEF Safe, Apart
<1>11. Setting'
  BY <1>1, <1>2, <1>3, <1>4, Actors DEF Calls, Safe, Setting, SetBy, Sets, Mine, Exists
<1>12. Killing'
  <2>1. ASSUME NEW b \in Actor, call'[b] \in Kills
        PROVE  call[b] = call'[b] /\ arg'[b] = arg[b]
    BY <2>1, <1>3, <1>4 DEF Holds
  <2> QED BY <1>1, <1>9, <2>1 DEF Safe, Killing, Mine, Exists
<1>13. Clearing'
  <2>1. ASSUME NEW b \in Actor, tableLock = b PROVE b # a
    BY <2>1, <1>1 DEF Safe, Locked
  <2> QED BY <1>1, <1>3, <1>9, <2>1 DEF Safe, Clearing
<1>s. Storing' /\ \A b \in Actor, th \in Thread : Stores(b, th) <=> Stores(b, th)'
  BY <1>1, <1>4, <1>3, StorersStay DEF Holds, Sets
<1>14. Running'
  BY <1>s, <1>1, <1>3, <1>4, <1>5, <1>9 DEF Safe, Running, Orphan, Awaited, Killed, Exists, State, Mine, Holds
<1>15. Found'
  BY <1>1, <1>5, <1>9 DEF Safe, Found, Deletes, Exists
<1>16. Over'
  BY <1>1, <1>2, <1>3, <1>4 DEF Safe, Over, Destroys, Stored, Sets
<1> QED BY <1>s, <1>6, <1>7, <1>8, <1>9, <1>10, <1>11, <1>12, <1>13, <1>14, <1>15, <1>16 DEF Safe

LEMMA CallSafe ==
  ASSUME TypeInv, Tame, Safe, NEW a \in Actor, Call(a)
  PROVE  Safe'
<1>1. ASSUME NEW i \in Id, NEW one \in BOOLEAN, CallSetTimer(a, i, one)
      PROVE  Safe'
  <2> DEFINE op == IF one THEN "oneshot" ELSE "set"
             place == IF one THEN "create" ELSE "find"
             new == [NoArg EXCEPT !.id = i, !.oneShot = one]
  <2>1. /\ op \in Op /\ place \in Place \ (Sets \cup Kills) /\ new \in Argument
        /\ Calls(a, op, i) /\ arg' = [arg EXCEPT ![a] = new] /\ Goto(a, place)
        /\ cleared' = FALSE
    BY <1>1, NoArgType DEF CallSetTimer, Op, Place, Sets, Kills
  <2>2. /\ new.all <=> op = "killall"
        /\ new.oneShot <=> op = "oneshot"
        /\ new.id = i
        /\ op = "set" => place = "find"
        /\ op = "oneshot" => place = "create"
        /\ op # "kill" /\ op # "killall"
    BY DEF NoArg
  <2> HIDE DEF op, place, new
  <2> QED BY <2>1, <2>2, CallsSafe
<1>2. ASSUME NEW i \in Id, CallKillTimer(a, i)
      PROVE  Safe'
  <2> DEFINE new == [NoArg EXCEPT !.id = i]
  <2>1. /\ "kill" \in Op /\ "erase" \in Place \ (Sets \cup Kills) /\ new \in Argument
        /\ Calls(a, "kill", i) /\ arg' = [arg EXCEPT ![a] = new] /\ Goto(a, "erase")
        /\ cleared' = cleared /\ cleared \in BOOLEAN
    BY <1>2, NoArgType DEF CallKillTimer, Op, Place, Sets, Kills, TypeInv, TypeOK
  <2>2. ~new.all /\ ~new.oneShot /\ new.id = i
    BY DEF NoArg
  <2> HIDE DEF new
  <2> QED BY <2>1, <2>2, CallsSafe
<1>3. ASSUME CallKillAll(a)
      PROVE  Safe'
  <2> DEFINE new == [NoArg EXCEPT !.all = TRUE]
  <2>1. PICK i \in Id : Calls(a, "killall", i)
    BY <1>3 DEF CallKillAll
  <2>2. /\ "killall" \in Op /\ "lockall" \in Place \ (Sets \cup Kills) /\ new \in Argument
        /\ arg' = [arg EXCEPT ![a] = new] /\ Goto(a, "lockall")
        /\ cleared' = cleared /\ cleared \in BOOLEAN
    BY <1>3, NoArgType, <2>1 DEF CallKillAll, Op, Place, Sets, Kills, TypeInv, TypeOK
  <2>3. new.all /\ ~new.oneShot
    BY DEF NoArg
  <2> HIDE DEF new
  <2> QED BY <2>1, <2>2, <2>3, CallsSafe
<1> QED BY <1>1, <1>2, <1>3 DEF Call

LEMMA FindSafe ==
  ASSUME TypeInv, Tame, Safe, NEW a \in Actor, Find(a)
  PROVE  Safe'
<1> DEFINE t == table[arg[a].id]
<1>1. /\ OnlyArg(a) /\ arg'[a].timer = t
      /\ arg'[a].id = arg[a].id /\ arg'[a].oneShot = arg[a].oneShot
      /\ arg'[a].all = arg[a].all /\ arg[a].id \in Id
      /\ OnlyCall(a, IF t = Null THEN "create" ELSE "pause")
  BY FindType
<1>2. /\ UNCHANGED <<use, table, tableLock, timer, at, body, cleared>>
      /\ call[a] = "find" /\ Unlocked
  BY DEF Find
<1>3. \A b \in Actor : b # a => call'[b] = call[b] /\ arg'[b] = arg[b]
  BY <1>1 DEF OnlyArg, OnlyCall
<1>4. /\ t = Null => call'[a] = "create"
      /\ t # Null => call'[a] = "pause"
      /\ ~Holds(a) /\ (Holds(a)' <=> t # Null)
  <2>1. (t = Null => call'[a] = "create") /\ (t # Null => call'[a] = "pause")
    BY <1>1 DEF OnlyCall
  <2> HIDE DEF t
  <2> QED BY <1>2, <2>1 DEF Holds, Sets, Kills
<1>5. ~arg[a].all /\ ~arg[a].oneShot /\ a \in Worker /\ Owner[arg[a].id] = a
  BY <1>2, Actors DEF Safe, Called, FromCallback
<1>6. \A b \in Actor : Holds(b) /\ t # Null => Mine(b) # t
  <2> SUFFICES ASSUME NEW b \in Actor, Holds(b), t # Null, Mine(b) = t PROVE FALSE
    OBVIOUS
  <2>1. b # a /\ call[b] # "idle"
    BY <1>4 DEF Holds, Sets, Kills
  <2>2. timer[t].id = arg[a].id /\ ~timer[t].oneShot /\ t \in Tabled
    BY <1>1 DEF Safe, Listed, Tabled
  <2>3. CASE call[b] \in Sets
    BY <1>5, <2>1, <2>2, <2>3, Actors DEF Safe, Setting, SetBy, Called, FromCallback, Sets
  <2>4. CASE call[b] \in Kills
    BY <1>2, <1>5, <2>1, <2>2, <2>4 DEF Safe, Killing, Called, Alone
  <2> QED BY <2>3, <2>4 DEF Holds
<1>7. Mine(a)' = t /\ \A b \in Actor : b # a => Mine(b)' = Mine(b) /\ (Holds(b)' <=> Holds(b))
  BY <1>1, <1>3 DEF Mine, Holds
<1> HIDE DEF t
<1>8. Called'
  BY <1>1, <1>2, <1>3, <1>4, <1>5 DEF Safe, Called, Alone
<1>9. Locked'
  BY <1>1, <1>2, <1>3, <1>4 DEF Safe, Locked
<1>10. FromCallback'
  BY <1>2, <1>3, <1>5, Actors DEF Safe, FromCallback, Mine
<1>11. Listed' /\ Tabled' = Tabled
  BY <1>2 DEF Safe, Listed, Exists, Tabled
<1>12. Apart'
  BY <1>4, <1>6, <1>7 DEF Safe, Apart
<1>13. t # Null => /\ timer[t].id = arg[a].id /\ ~timer[t].oneShot /\ Exists(t)
                   /\ table[arg[a].id] = t /\ use.resets
  BY <1>1, <1>2, <1>5 DEF Safe, Listed, Setting, t
<1>14. Setting'
  <2>1. ASSUME NEW b \in Actor, b # a, call'[b] \in Sets
        PROVE  call[b] = call'[b] /\ arg'[b] = arg[b] /\ Mine(b)' = Mine(b)
    BY <2>1, <1>3, <1>7
  <2>2. call'[a] \in Sets => call'[a] = "pause" /\ t # Null
    BY <1>4 DEF Sets
  <2>3. call'[a] = "create" => table[arg[a].id] = Null
    BY <1>4 DEF t
  <2>4. call'[a] \in Sets =>
          /\ timer[t].id = arg'[a].id /\ (timer[t].oneShot <=> arg'[a].oneShot) /\ Exists(t)
          /\ table[arg'[a].id] = t /\ use.resets /\ call'[a] = "pause"
    BY <2>2, <1>1, <1>5, <1>13
  <2>5. ASSUME NEW w \in Worker
        PROVE  /\ call'[w] = "create" /\ ~arg'[w].oneShot => table[arg'[w].id] = Null
               /\ call'[w] = "find" /\ ~use.resets => table[arg'[w].id] = Null
    BY <1>1, <1>3, <1>4, <2>3, Actors DEF Safe, Setting
  <2>6. call'[a] \in Sets => SetBy(a)'
    BY <1>1, <1>2, <1>5, <1>7, <2>4 DEF SetBy, Exists
  <2>7. ASSUME NEW b \in Actor, b # a, call'[b] \in Sets PROVE SetBy(b)'
    BY <1>2, <2>1, <2>7 DEF Safe, Setting, SetBy, Exists
  <2> QED BY <1>2, <2>5, <2>6, <2>7 DEF Setting
<1>15. Killing'
  <2>1. ASSUME NEW b \in Actor, call'[b] \in Kills
        PROVE  call[b] = call'[b] /\ arg'[b] = arg[b]
    BY <2>1, <1>3, <1>4 DEF Kills
  <2> QED BY <1>2, <1>11, <2>1 DEF Safe, Killing, Mine, Exists
<1>16. Clearing'
  BY <1>2, Numbers DEF Unlocked, Safe, Clearing
<1>s. Storing' /\ \A b \in Actor, th \in Thread : Stores(b, th) <=> Stores(b, th)'
  BY <1>2, <1>3, <1>4, StorersStay
<1>17. Running'
  <2>1. t # Null => t \in Tabled /\ ~timer[t].oneShot
    BY <1>1, <1>13 DEF Tabled, t
  <2>2. \A th \in Thread : Orphan(th) => Orphan(th)'
    BY <1>2, <1>4, <1>7, <1>11, <2>1 DEF Orphan, State
  <2>3. \A th \in Thread : (Awaited(th) => Awaited(th)') /\ (Killed(th) => Killed(th)')
    BY <1>2, <1>3 DEF Awaited, Killed, Kills, Mine
  <2> QED BY <1>s, <1>2, <1>4, <1>7, <1>11, <2>1, <2>2, <2>3 DEF Safe, Running, Exists
<1>18. Found'
  BY <1>2, <1>4, <1>7, <1>11 DEF Safe, Found, Deletes, Exists
<1>19. Over'
  BY <1>2 DEF Safe, Over, Destroys, Stored
<1> QED BY <1>s, <1>8, <1>9, <1>10, <1>11, <1>12, <1>14, <1>15, <1>16, <1>17, <1>18, <1>19 DEF Safe

\* One more step on the timer at hand: its state may change, it stays.
LEMMA GoesOnSafe ==
  ASSUME TypeInv, Tame, Safe, NEW a \in Actor, Mine(a) \in Timer, NEW place \in Place,
         OnlyCall(a, place), OnlyTimer(Mine(a)),
         timer'[Mine(a)].handle = timer[Mine(a)].handle, Exists(Mine(a))',
         UNCHANGED <<use, table, tableLock, at, body, arg, cleared>>,
         arg[a].oneShot /\ place \in {"check", "spawn"} => timer'[Mine(a)].state = "pause",
         \/ call[a] = "pause" /\ place = "run"
         \/ call[a] = "run" /\ place = "check"
         \/ call[a] = "check" /\ place = "spawn" /\ timer[Mine(a)].handle = Null
         \/ call[a] = "exit" /\ place = "take" /\ timer'[Mine(a)].state = "exit"
  PROVE  Safe'
<1>1. /\ call'[a] = place /\ Holds(a) /\ Holds(a)'
      /\ \A b \in Actor : b # a => call'[b] = call[b]
  BY DEF OnlyCall, Holds, Sets, Kills
<1>2. \A b \in Actor : /\ Holds(b)' <=> Holds(b)
                       /\ Mine(b)' = Mine(b)
                       /\ b # a /\ Holds(b) => Mine(b) # Mine(a) /\ Mine(b) \in Timer
  BY <1>1 DEF Holds, Mine, Safe, Apart, TypeInv, Placed
<1>3. \A t \in Timer : /\ t # Mine(a) => timer'[t] = timer[t]
                       /\ timer'[t].id = timer[t].id /\ timer'[t].oneShot = timer[t].oneShot
                       /\ timer'[t].handle = timer[t].handle
                       /\ (Exists(t) <=> Exists(t)')
                       /\ t = Mine(a) => Exists(t)
  <2>1. Exists(Mine(a)) /\ Mine(a)' = Mine(a)
    BY <1>1 DEF Safe, Setting, SetBy, Killing, Holds, Mine
  <2> QED BY <2>1 DEF OnlyTimer, Exists
<1>4. Called'
  <2>1. \A b \in Actor : Alone(b) => Alone(b)'
    BY <1>1, Actors DEF Alone, Sets, Kills
  <2> QED BY <1>1, <2>1 DEF Safe, Called
<1>5. Locked'
  BY <1>1 DEF Safe, Locked, Called
<1>6. FromCallback'
  BY <1>1, <1>2, <1>3, Actors DEF Safe, FromCallback, TypeInv, Placed, Runs
<1>7. Listed' /\ Tabled' = Tabled
  <2>1. \A t \in Timer : timer'[t].state = "none" <=> timer[t].state = "none"
    BY <1>3 DEF Exists
  <2>2. \A i \in Id : table[i] # Null => table[i] \in Timer
    BY DEF TypeInv, TypeOK
  <2> QED BY <1>3, <2>1, <2>2 DEF Safe, Listed, Tabled
<1>8. Apart'
  BY <1>2 DEF Safe, Apart
<1>9. Setting'
  BY <1>1, <1>2, <1>3, Actors DEF Safe, Setting, SetBy, Sets, Holds
<1>10. Killing'
  BY <1>1, <1>2, <1>3, <1>7 DEF Safe, Killing, Kills, Holds
<1>11. Clearing'
  BY <1>3, <1>7, TabledType DEF Safe, Clearing
<1>s. Storing' /\ \A b \in Actor, th \in Thread : Stores(b, th) <=> Stores(b, th)'
  BY <1>1, StorersStay
<1>12. Running'
  <2>1. \A th \in Thread : Orphan(th) /\ at[th] \in Runs => Orphan(th)'
    BY <1>1, <1>2, <1>3, <1>7 DEF Orphan, State, TypeInv, Placed
  <2>2. \A th \in Thread : (Awaited(th) => Awaited(th)') /\ (Killed(th) => Killed(th)')
    BY <1>1, <1>2 DEF Awaited, Killed, Kills
  <2>3. \A th \in Thread : at[th] \in Runs => body[th] \in Timer
    BY DEF TypeInv, Placed
  <2> QED BY <1>s, <1>2, <1>3, <1>7, <2>1, <2>2, <2>3 DEF Safe, Running
<1>13. Found'
  BY <1>2, <1>3, <1>7 DEF Safe, Found, Deletes
<1>14. Over'
  BY <1>1 DEF Safe, Over, Destroys, Stored, Sets
<1> QED BY <1>s, <1>4, <1>5, <1>6, <1>7, <1>8, <1>9, <1>10, <1>11, <1>12, <1>13, <1>14 DEF Safe

\* The call of SetTimer is over, and the timer stays.
LEMMA SetOverSafe ==
  ASSUME TypeInv, Tame, Safe, NEW a \in Actor, Mine(a) \in Timer,
         call[a] \in {"check", "spawn"}, OnlyCall(a, "idle"), OnlyTimer(Mine(a)),
         timer'[Mine(a)].handle = timer[Mine(a)].handle, Exists(Mine(a))',
         Deletes => ~arg[a].oneShot,
         UNCHANGED <<use, table, tableLock, at, body, arg, cleared>>
  PROVE  Safe'
<1>1. /\ call'[a] = "idle" /\ Holds(a) /\ ~Holds(a)' /\ call[a] \in Sets
      /\ \A b \in Actor : b # a => call'[b] = call[b]
  BY DEF OnlyCall, Holds, Sets, Kills
<1>2. \A b \in Actor : /\ Holds(b)' <=> b # a /\ Holds(b)
                       /\ Mine(b)' = Mine(b)
                       /\ b # a /\ Holds(b) => Mine(b) # Mine(a) /\ Mine(b) \in Timer
  BY <1>1 DEF Holds, Mine, Safe, Apart, TypeInv, Placed
<1>3. \A t \in Timer : /\ t # Mine(a) => timer'[t] = timer[t]
                       /\ timer'[t].id = timer[t].id /\ timer'[t].oneShot = timer[t].oneShot
                       /\ timer'[t].handle = timer[t].handle
                       /\ (Exists(t) <=> Exists(t)')
                       /\ t = Mine(a) => Exists(t)
  <2>1. Exists(Mine(a)) /\ Mine(a)' = Mine(a)
    BY <1>1 DEF Safe, Setting, SetBy, Mine
  <2> QED BY <2>1 DEF OnlyTimer, Exists
<1>4. Called'
  <2>1. \A b \in Actor : Alone(b) => Alone(b)'
    BY <1>1, Actors DEF Alone
  <2> QED BY <1>1, <2>1 DEF Safe, Called
<1>5. Locked'
  BY <1>1 DEF Safe, Locked
<1>6. FromCallback'
  BY <1>1, <1>2, <1>3, Actors DEF Safe, FromCallback, TypeInv, Placed, Runs
<1>7. Listed' /\ Tabled' = Tabled
  <2>1. \A t \in Timer : timer'[t].state = "none" <=> timer[t].state = "none"
    BY <1>3 DEF Exists
  <2>2. \A i \in Id : table[i] # Null => table[i] \in Timer
    BY DEF TypeInv, TypeOK
  <2> QED BY <1>3, <2>1, <2>2 DEF Safe, Listed, Tabled
<1>8. Apart'
  BY <1>2 DEF Safe, Apart
<1>9. Setting'
  BY <1>1, <1>2, <1>3, Actors DEF Safe, Setting, SetBy, Sets, Holds
<1>10. Killing'
  BY <1>1, <1>2, <1>3, <1>7 DEF Safe, Killing, Kills, Holds
<1>11. Clearing'
  BY <1>3, <1>7, TabledType DEF Safe, Clearing
<1>s. Storing' /\ \A b \in Actor, th \in Thread : Stores(b, th) <=> Stores(b, th)'
  BY <1>1, StorersStay
<1>12. Running'
  <2>1. \A th \in Thread : Orphan(th) /\ at[th] \in Runs => Orphan(th)'
    BY <1>1, <1>2, <1>3, <1>7 DEF Orphan, State, TypeInv, Placed
  <2>2. \A th \in Thread : (Awaited(th) => Awaited(th)') /\ (Killed(th) => Killed(th)')
    BY <1>1, <1>2 DEF Awaited, Killed, Kills, Sets
  <2>3. \A th \in Thread : at[th] \in Runs => body[th] \in Timer
    BY DEF TypeInv, Placed
  <2> QED BY <1>s, <1>2, <1>3, <1>7, <2>1, <2>2, <2>3 DEF Safe, Running
<1>13. Found'
  <2>1. Deletes => Mine(a) \in Tabled
    <3>1. Deletes => table[arg[a].id] = Mine(a) /\ arg[a].id \in Id
      BY <1>1 DEF Safe, Setting, SetBy, TypeInv, TypeOK, Argument
    <3> QED BY <3>1, Numbers DEF Tabled
  <2> QED BY <1>2, <1>3, <1>7, <2>1 DEF Safe, Found, Deletes
<1>14. Over'
  BY <1>1 DEF Safe, Over, Destroys, Stored, Sets
<1> QED BY <1>s, <1>4, <1>5, <1>6, <1>7, <1>8, <1>9, <1>10, <1>11, <1>12, <1>13, <1>14 DEF Safe

LEMMA PauseTimerSafe ==
  ASSUME TypeInv, Tame, Safe, NEW a \in Actor, PauseTimer(a)
  PROVE  Safe'
<1>1. Exists(Mine(a))' /\ "run" \in Place
  BY PauseTimerType DEF PauseTimer, Exists, Mine, Place
<1> QED BY <1>1, PauseTimerType, GoesOnSafe DEF PauseTimer

LEMMA RunTimerSafe ==
  ASSUME TypeInv, Tame, Safe, NEW a \in Actor, RunTimer(a)
  PROVE  Safe'
<1>1. /\ timer'[Mine(a)].state \in {"running", "pause"} /\ Mine(a)' = Mine(a)
      /\ arg[a].oneShot => timer'[Mine(a)].state = "pause"
  BY RunTimerType DEF RunTimer, Mine
<1>2. Exists(Mine(a))' /\ "check" \in Place
  BY <1>1 DEF Exists, Place
<1> QED BY <1>1, <1>2, RunTimerType, GoesOnSafe DEF RunTimer

LEMMA ExitSafe ==
  ASSUME TypeInv, Tame, Safe, NEW a \in Actor, Exit(a)
  PROVE  Safe'
<1>1. Exists(Mine(a))' /\ "take" \in Place
  BY ExitType DEF Exit, Exists, Mine, Place
<1> QED BY <1>1, ExitType, GoesOnSafe DEF Exit

LEMMA CheckThreadSafe ==
  ASSUME TypeInv, Tame, Safe, NEW a \in Actor, CheckThread(a)
  PROVE  Safe'
<1>1. /\ Mine(a) \in Timer /\ call[a] = "check" /\ timer' = timer
      /\ UNCHANGED <<use, table, tableLock, at, body, arg, cleared>>
      /\ HasThread(Mine(a)) => OnlyCall(a, "idle")
      /\ ~HasThread(Mine(a)) => OnlyCall(a, "spawn")
  <2>1. Mine(a) \in Timer /\ OnlyCall(a, IF HasThread(Mine(a)) THEN "idle" ELSE "spawn")
    BY CheckThreadType
  <2> QED BY <2>1 DEF CheckThread
<1>2. SetBy(a)
  BY <1>1 DEF Safe, Setting, Sets
<1>3. OnlyTimer(Mine(a)) /\ Exists(Mine(a))' /\ timer'[Mine(a)].handle = timer[Mine(a)].handle
  BY <1>1, <1>2 DEF OnlyTimer, TypeInv, TypeOK, Exists, SetBy, Mine
<1>4. CASE HasThread(Mine(a))
  <2>1. ~arg[a].oneShot
    BY <1>2, <1>4 DEF SetBy, HasThread
  <2> QED BY <1>1, <1>3, <1>4, <2>1, SetOverSafe
<1>5. CASE ~HasThread(Mine(a))
  <2>1. /\ "spawn" \in Place /\ timer[Mine(a)].handle = Null
        /\ arg[a].oneShot => timer'[Mine(a)].state = "pause"
    BY <1>1, <1>2, <1>5 DEF Place, HasThread, SetBy
  <2> QED BY <1>1, <1>3, <1>5, <2>1, GoesOnSafe
<1> QED BY <1>4, <1>5

LEMMA SpawnFailsSafe ==
  ASSUME TypeInv, Tame, Safe, NEW a \in Actor, SpawnFails(a)
  PROVE  Safe'
<1>1. Exists(Mine(a))'
  BY SpawnFailsType DEF SpawnFails, Exists, Mine
<1>2. Deletes => ~arg[a].oneShot
  BY DEF SpawnFails, Deletes, Safe, Called, FromCallback
<1> QED BY <1>1, <1>2, SpawnFailsType, SetOverSafe DEF SpawnFails

LEMMA CreateSafe ==
  ASSUME TypeInv, Tame, Safe, NEW a \in Actor, Create(a)
  PROVE  Safe'
<1>0. PICK t \in Timer : t = NewTimer
  BY CreateType
<1>1. /\ OnlyArg(a) /\ arg'[a].timer = t
      /\ arg'[a].id = arg[a].id /\ arg'[a].oneShot = arg[a].oneShot
      /\ arg'[a].all = arg[a].all /\ arg[a].id \in Id
      /\ OnlyCall(a, "run") /\ t \in Timer /\ timer[t].state = "none"
      /\ \A u \in Timer \ {t} : timer'[u] = timer[u]
      /\ timer'[t].state = "init" /\ timer'[t].id = arg[a].id
      /\ timer'[t].oneShot = arg[a].oneShot /\ timer'[t].handle = timer[t].handle
  BY <1>0, CreateType
<1>2. /\ call[a] = "create" /\ UNCHANGED <<use, tableLock, at, body, cleared>>
      /\ arg[a].oneShot => table' = table
      /\ ~arg[a].oneShot => Unlocked /\ table' = [table EXCEPT ![arg[a].id] = t]
  BY <1>0 DEF Create
<1>3. /\ call'[a] = "run" /\ ~Holds(a) /\ Holds(a)' /\ Mine(a)' = t
      /\ \A b \in Actor : b # a => /\ call'[b] = call[b] /\ arg'[b] = arg[b]
                                   /\ Mine(b)' = Mine(b) /\ (Holds(b)' <=> Holds(b))
  BY <1>1, <1>2 DEF OnlyArg, OnlyCall, Holds, Mine, Sets, Kills
<1>4. /\ ~arg[a].all /\ (arg[a].oneShot <=> arg[a].id \in use.oneShots)
      /\ a \in Worker => Owner[arg[a].id] = a
      /\ ~arg[a].oneShot => a \in Worker /\ table[arg[a].id] = Null
  BY <1>2, Actors DEF Safe, Called, FromCallback, Setting
<1>5. /\ ~Exists(t) /\ timer[t].handle = Null /\ t # Null /\ t \notin Tabled
      /\ \A b \in Actor : Holds(b) => Mine(b) # t /\ Mine(b) \in Timer
      /\ \A th \in Thread : at[th] \in Runs => body[th] # t /\ body[th] \in Timer
  BY <1>1, Numbers DEF Exists, Safe, Listed, Setting, SetBy, Killing, Running, Tabled, Holds, TypeInv, Placed
<1>6. /\ \A u \in Timer : u # t => timer'[u] = timer[u] /\ (Exists(u)' <=> Exists(u))
      /\ Exists(t)'
  BY <1>1 DEF Exists
<1>7. /\ ~arg[a].oneShot => /\ table'[arg[a].id] = t
                            /\ \A i \in Id : i # arg[a].id => table'[i] = table[i]
                            /\ Tabled' = Tabled \cup {t}
      /\ arg[a].oneShot => Tabled' = Tabled
  <2>1. arg[a].oneShot => Tabled' = Tabled
    BY <1>2 DEF Tabled
  <2>2. ASSUME ~arg[a].oneShot
        PROVE  table'[arg[a].id] = t /\ \A i \in Id : i # arg[a].id => table'[i] = table[i]
    BY <1>1, <1>2, <2>2 DEF TypeInv, TypeOK
  <2>3. ASSUME ~arg[a].oneShot PROVE Tabled' = Tabled \cup {t}
    BY <1>1, <1>4, <1>5, <2>2, <2>3 DEF Tabled
  <2> QED BY <2>1, <2>2, <2>3
<1>8. Called'
  <2>1. \A b \in Actor : Alone(b) /\ b # a => Alone(b)'
    BY <1>2, <1>3, Actors DEF Alone
  <2> QED BY <1>1, <1>2, <1>3, <1>4, <2>1 DEF Safe, Called
<1>9. Locked'
  BY <1>1, <1>2, <1>3, <1>4 DEF Safe, Locked
<1>10. FromCallback'
  <2>1. \A th \in Thread : call[th] # "idle" => timer'[body[th]] = timer[body[th]]
    BY <1>5, <1>6 DEF TypeInv, Placed, Runs
  <2>2. a \in Thread => arg[a].oneShot
    BY <1>2 DEF Safe, FromCallback
  <2> QED BY <1>1, <1>2, <1>3, <2>1, <2>2, Actors DEF Safe, FromCallback
<1>11. Listed'
  <2>1. ASSUME NEW i \in Id, table'[i] # Null
        PROVE  timer'[table'[i]].id = i /\ ~timer'[table'[i]].oneShot /\ Exists(table[i])'
    <3>1. CASE table'[i] = table[i]
      <4>1. table[i] \in Timer /\ table[i] # t
        BY <2>1, <3>1, <1>5 DEF TypeInv, TypeOK, Tabled
      <4> QED BY <2>1, <3>1, <4>1, <1>6 DEF Safe, Listed, Exists
    <3>2. CASE table'[i] # table[i]
      BY <3>2, <1>1, <1>2, <1>6, <1>7 DEF Exists
    <3> QED BY <3>1, <3>2
  <2>2. \A u \in Timer : /\ timer'[u].state = "none" => timer'[u].handle = Null
                         /\ timer'[u].oneShot => timer'[u].id \in use'.oneShots
    BY <1>1, <1>2, <1>4, <1>6 DEF Safe, Listed
  <2> QED BY <2>1, <2>2 DEF Listed
<1>12. Apart'
  BY <1>3, <1>5 DEF Safe, Apart
<1>13. Setting'
  <2>1. SetBy(a)'
    BY <1>1, <1>2, <1>3, <1>5, <1>6, <1>7 DEF SetBy
  <2>2. ASSUME NEW b \in Actor, b # a, call[b] \in Sets PROVE SetBy(b)'
    <3>1. Mine(b) # t /\ Mine(b) \in Timer /\ SetBy(b) /\ arg[b].id \in Id
      BY <2>2, <1>5 DEF Holds, Safe, Setting, TypeInv, TypeOK, Argument
    <3>2. arg[b].oneShot \/ table'[arg[b].id] = Mine(b)
      BY <3>1, <1>2, <1>4, <1>7, Numbers DEF SetBy
    <3> QED BY <2>2, <3>1, <3>2, <1>2, <1>3, <1>6 DEF SetBy
  <2>3. ASSUME NEW w \in Worker, w # a, table[arg[w].id] = Null,
               (call[w] = "create" /\ ~arg[w].oneShot) \/ call[w] = "find"
        PROVE  table'[arg[w].id] = Null
    <3>1. arg[w].id \in Id /\ Owner[arg[w].id] = w
      BY <2>3, Actors DEF Safe, Called, TypeInv, TypeOK, Argument
    <3> QED BY <2>3, <3>1, <1>2, <1>4, <1>7
  <2> QED BY <1>2, <1>3, <2>1, <2>2, <2>3, Actors DEF Safe, Setting, Sets
<1>14. Killing'
  <2> SUFFICES ASSUME NEW b \in Actor, call'[b] \in Kills
               PROVE  /\ Exists(Mine(b))' /\ ~timer'[Mine(b)'].oneShot
                      /\ call'[b] # "exit" => timer'[Mine(b)'].state = "exit"
                      /\ call'[b] \in {"join", "free"} => timer'[Mine(b)'].handle = Null
                      /\ IF arg'[b].all THEN Mine(b)' \in arg'[b].todo
                         ELSE /\ Mine(b)' \notin Tabled' /\ timer'[Mine(b)'].id = arg'[b].id
                              /\ b \in Worker => table'[arg'[b].id] = Null
    BY DEF Killing
  <2>1. b # a /\ call[b] \in Kills
    BY <1>3 DEF Kills
  <2>2. Mine(b) # t /\ Mine(b) \in Timer /\ arg[b].id \in Id
    BY <2>1, <1>5 DEF Holds, TypeInv, TypeOK, Argument
  <2>3. ~arg[b].all /\ b \in Worker => table'[arg[b].id] = Null
    BY <2>1, <2>2, <1>2, <1>4, <1>7 DEF Safe, Killing, Called, Kills
  <2>4. Mine(b) \notin Tabled => Mine(b) \notin Tabled'
    BY <2>2, <1>7
  <2> QED BY <2>1, <2>2, <2>3, <2>4, <1>3, <1>6 DEF Safe, Killing, Exists
<1>15. Clearing'
  <2>1. \A b \in Actor : tableLock = b => arg[a].oneShot /\ b # a
    BY <1>2, <1>4, Numbers DEF Unlocked, Safe, Locked
  <2> QED BY <2>1, <1>2, <1>3, <1>5, <1>6, <1>7, TabledType DEF Safe, Clearing
<1>s. Storing' /\ \A b \in Actor, th \in Thread : Stores(b, th) <=> Stores(b, th)'
  BY <1>2, <1>3, StorersStay
<1>16. Running'
  <2>1. \A th \in Thread : Orphan(th) /\ at[th] \in Runs => Orphan(th)'
    BY <1>2, <1>3, <1>5, <1>6, <1>7 DEF Orphan, State
  <2>2. \A th \in Thread : (Awaited(th) => Awaited(th)') /\ (Killed(th) => Killed(th)')
    BY <1>2, <1>3 DEF Awaited, Killed, Kills
  <2> QED BY <1>s, <1>2, <1>3, <1>5, <1>6, <1>7, <2>1, <2>2 DEF Safe, Running
<1>17. Found'
  <2> SUFFICES ASSUME Deletes, NEW u \in Timer, Exists(u)'
               PROVE  \/ u \in Tabled'
                      \/ \E b \in Actor : Holds(b)' /\ Mine(b)' = u
                      \/ \E th \in Thread : at'[th] \in Runs /\ body'[th] = u /\ timer'[u].oneShot
    BY <1>2 DEF Found, Deletes
  <2>1. CASE u = t
    BY <2>1, <1>3
  <2>2. CASE u # t
    BY <2>2, <1>2, <1>3, <1>6, <1>7 DEF Safe, Found
  <2> QED BY <2>1, <2>2
<1>18. Over'
  BY <1>2 DEF Safe, Over, Destroys, Stored
<1> QED BY <1>s, <1>8, <1>9, <1>10, <1>11, <1>12, <1>13, <1>14, <1>15, <1>16, <1>17, <1>18 DEF Safe

LEMMA SpawnSafe ==
  ASSUME TypeInv, Tame, Safe, NEW a \in Actor, Spawn(a)
  PROVE  Safe'
<1> DEFINE new == NewThread
           t == Mine(a)
<1>1. /\ OnlyCall(a, "store") /\ t \in Timer
      /\ new \in Thread /\ at[new] = "none" /\ OnlyAt(new, "loop")
      /\ body'[new] = t /\ \A th \in Thread \ {new} : body'[th] = body[th]
      /\ OnlyArg(a) /\ arg'[a].thread = new /\ arg'[a].timer = arg[a].timer
      /\ arg'[a].id = arg[a].id /\ arg'[a].oneShot = arg[a].oneShot
      /\ arg'[a].all = arg[a].all /\ arg'[a].todo = arg[a].todo
  BY SpawnType
<1>2. call[a] = "spawn" /\ UNCHANGED <<use, table, tableLock, timer, cleared>>
  BY DEF Spawn
<1>3. /\ SetBy(a) /\ timer[t].handle = Null
      /\ arg[a].oneShot \/ t \in Tabled
  <2>1. SetBy(a) /\ timer[t].handle = Null
    BY <1>2 DEF Safe, Setting, SetBy, Sets
  <2> QED BY <2>1, <1>1, Numbers DEF SetBy, Tabled, TypeInv, TypeOK, Argument
<1>4. /\ call'[a] = "store" /\ Holds(a) /\ Holds(a)' /\ Mine(a)' = t
      /\ \A b \in Actor : b # a => /\ call'[b] = call[b] /\ arg'[b] = arg[b]
                                   /\ Mine(b)' = Mine(b) /\ (Holds(b)' <=> Holds(b))
  BY <1>1, <1>2 DEF OnlyArg, OnlyCall, Holds, Mine, Sets, Kills
<1> HIDE DEF new
<1>5. \A b \in Actor : b # a /\ Holds(b) => Mine(b) # t /\ Mine(b) \in Timer
  BY <1>4 DEF Safe, Apart, TypeInv, Placed
<1>6. /\ at'[new] = "loop" /\ body'[new] = t
      /\ \A th \in Thread : th # new => at'[th] = at[th] /\ body'[th] = body[th]
  BY <1>1 DEF OnlyAt
<1>7. \A th \in Thread : at[th] \in Runs => body[th] # t /\ th # new /\ body[th] \in Timer
  <2>1. ASSUME NEW th \in Thread, at[th] \in Runs, body[th] = t PROVE FALSE
    <3>1. \A b \in Actor : Holds(b) /\ Mine(b) = t => call[b] = "spawn"
      BY <1>2, <1>5
    <3>2. ~Awaited(th) /\ ~Stores(a, th)
      BY <2>1, <3>1, <1>2 DEF Awaited, Stores, Holds, Kills, Sets
    <3> QED BY <2>1, <3>2, <1>3, <1>4, Numbers DEF Safe, Running, Orphan
  <2> QED BY <2>1, <1>1 DEF TypeInv, Placed, Runs
<1> HIDE DEF t
<1>8. Called'
  <2>1. \A b \in Actor : Alone(b) => Alone(b)'
    BY <1>2, <1>4, Actors DEF Alone
  <2> QED BY <1>1, <1>2, <1>4, <2>1 DEF Safe, Called
<1>9. Locked'
  BY <1>1, <1>2, <1>4 DEF Safe, Locked
<1>10. FromCallback'
  <2>1. \A th \in Thread : call[th] # "idle" => body'[th] = body[th] /\ body[th] \in Timer
    BY <1>6, <1>7 DEF TypeInv, Placed, Runs
  <2>2. a \in Thread => arg[a].oneShot
    BY <1>2 DEF Safe, FromCallback
  <2>3. call[a] # "idle"
    BY <1>2
  <2> QED BY <1>1, <1>2, <1>4, <2>1, <2>2, <2>3, Actors DEF Safe, FromCallback
<1>11. Listed' /\ Tabled' = Tabled
  BY <1>2 DEF Safe, Listed, Exists, Tabled
<1>12. Apart'
  BY <1>4, <1>5 DEF Safe, Apart, t
<1>13. Setting'
  <2>1. SetBy(a)'
    BY <1>1, <1>2, <1>3, <1>4 DEF SetBy, Exists, t
  <2> QED BY <1>2, <1>4, <2>1, Actors DEF Safe, Setting, SetBy, Exists, Sets
<1>14. Storing'
  <2>1. ASSUME NEW b \in Actor, NEW th \in Thread, Stores(b, th)', b # a
        PROVE  Stores(b, th) /\ th # new /\ Mine(b)' = Mine(b) /\ arg'[b].oneShot = arg[b].oneShot
    BY <2>1, <1>1, <1>4 DEF Stores, Safe, Storing
  <2>2. ASSUME NEW th \in Thread, Stores(a, th)' PROVE th = new
    BY <2>2, <1>1 DEF Stores
  <2> QED BY <1>2, <1>4, <1>6, <2>1, <2>2 DEF Safe, Storing
<1>15. Killing'
  <2>1. ASSUME NEW b \in Actor, call'[b] \in Kills
        PROVE  b # a /\ call[b] = call'[b] /\ arg'[b] = arg[b] /\ Mine(b)' = Mine(b)
    BY <2>1, <1>4 DEF Kills
  <2> QED BY <1>2, <1>11, <2>1 DEF Safe, Killing, Exists
<1>16. Clearing'
  <2>1. \A b \in Actor : arg'[b].todo = arg[b].todo
    BY <1>1, <1>4
  <2> QED BY <1>2, <1>11, <2>1 DEF Safe, Clearing
<1>17. Running'
  <2>1. \A th \in Thread : at[th] \in Runs =>
          /\ Orphan(th) => Orphan(th)'
          /\ Awaited(th) => Awaited(th)'
          /\ Killed(th) => Killed(th)'
    BY <1>2, <1>4, <1>6, <1>7, <1>11 DEF Orphan, State, Awaited, Killed, Kills
  <2>2. \A th, u \in Thread : at'[th] \in Runs /\ at'[u] \in Runs /\ body'[th] = body'[u] => th = u
    BY <1>6, <1>7 DEF Safe, Running
  <2>3. ASSUME NEW th \in Thread, at'[th] \in Runs
        PROVE  /\ Exists(body[th])'
               /\ IF timer'[body'[th]].oneShot
                  THEN \A b \in Actor : Holds(b)' /\ Mine(b)' = body'[th] => Stores(b, th)'
                  ELSE /\ timer'[body'[th]].handle = th \/ Awaited(th)' \/ Orphan(th)'
                       /\ body'[th] \in Tabled' \/ Killed(th)' \/ Orphan(th)'
    <3>1. CASE th = new
      <4>1. body'[th] = t /\ Exists(body[th])' /\ Stores(a, th)' /\ Awaited(th)'
        BY <3>1, <1>1, <1>2, <1>3, <1>4, <1>6 DEF Exists, SetBy, Stores, Awaited, t
      <4>2. timer'[t].oneShot \/ t \in Tabled'
        BY <1>2, <1>3, <1>11 DEF SetBy, t
      <4> QED BY <4>1, <4>2, <1>4, <1>5
    <3>2. CASE th # new
      <4>1. at[th] \in Runs /\ body'[th] = body[th] /\ body[th] \in Timer /\ body[th] # t
        BY <2>3, <3>2, <1>6, <1>7
      <4>2. Exists(body[th])'
        BY <4>1, <1>2 DEF Safe, Running, Exists
      <4> QED BY <4>1, <4>2, <2>1, <1>2, <1>4, <1>11 DEF Safe, Running, Stores
    <3> QED BY <3>1, <3>2
  <2> QED BY <2>2, <2>3 DEF Running
<1>18. Found'
  <2>1. \A b \in Actor : (Holds(b)' <=> Holds(b)) /\ Mine(b)' = Mine(b)
    BY <1>4 DEF t
  <2> QED BY <1>2, <1>6, <1>7, <1>11, <2>1 DEF Safe, Found, Deletes, Exists
<1>19. Over'
  BY <1>2 DEF Safe, Over, Destroys, Stored, Sets
<1> QED BY <1>8, <1>9, <1>10, <1>11, <1>12, <1>13, <1>14, <1>15, <1>16, <1>17, <1>18, <1>19 DEF Safe

LEMMA StoreSafe ==
  ASSUME TypeInv, Tame, Safe, NEW a \in Actor, Store(a)
  PROVE  Safe'
<1>0. PICK t \in Timer, th \in Thread : t = Mine(a) /\ th = arg[a].thread
  BY StoreType DEF Store, TypeInv, Placed
<1>1. /\ OnlyCall(a, "idle") /\ OnlyTimer(t) /\ timer'[t].handle = th
      /\ timer'[t].state \in {"running", timer[t].state}
  BY <1>0, StoreType
<1>2. call[a] = "store" /\ UNCHANGED <<use, table, tableLock, at, body, arg, cleared>>
  BY DEF Store
<1>3. /\ SetBy(a) /\ timer[t].handle = Null
      /\ arg[a].oneShot \/ t \in Tabled
      /\ Stores(a, th) /\ body[th] = t /\ (arg[a].oneShot => at[th] = "loop")
  <2>1. SetBy(a) /\ timer[t].handle = Null
    BY <1>0, <1>2 DEF Safe, Setting, SetBy, Sets
  <2>2. arg[a].oneShot \/ t \in Tabled
    BY <2>1, <1>0, Numbers DEF SetBy, Tabled, TypeInv, TypeOK, Argument
  <2>3. Stores(a, th)
    BY <1>0, <1>2 DEF Stores
  <2> QED BY <1>0, <2>1, <2>2, <2>3 DEF Safe, Storing
<1>4. /\ call'[a] = "idle" /\ Holds(a) /\ ~Holds(a)' /\ call[a] \in Sets
      /\ \A b \in Actor : b # a => call'[b] = call[b]
  BY <1>1, <1>2 DEF OnlyCall, Holds, Sets, Kills
<1>5. \A b \in Actor : /\ Holds(b)' <=> b # a /\ Holds(b)
                       /\ Mine(b)' = Mine(b)
                       /\ b # a /\ Holds(b) => Mine(b) # t /\ Mine(b) \in Timer
  BY <1>0, <1>2, <1>4 DEF Holds, Mine, Safe, Apart, TypeInv, Placed
<1>6. \A u \in Timer : /\ u # t => timer'[u] = timer[u]
                       /\ timer'[u].id = timer[u].id /\ timer'[u].oneShot = timer[u].oneShot
                       /\ (Exists(u) <=> Exists(u)')
                       /\ u = t => Exists(u)
  BY <1>0, <1>1, <1>3 DEF OnlyTimer, Exists, SetBy
\* No other thread runs the timer.
<1>7. \A u \in Thread : at[u] \in Runs => body[u] \in Timer /\ (body[u] = t => u = th)
  <2>1. ASSUME NEW u \in Thread, at[u] \in Runs, body[u] = t PROVE u = th
    <3>1. CASE Awaited(u)
      <4>1. PICK b \in Actor : call[b] \in {"join", "store"} /\ Mine(b) = t /\ arg[b].thread = u
        BY <2>1, <3>1 DEF Awaited
      <4> QED BY <4>1, <1>0, <1>5 DEF Holds, Kills, Sets
    <3>2. CASE ~Awaited(u)
      <4>1. timer[t].oneShot
        BY <2>1, <3>2, <1>0, <1>3, <1>4, Numbers DEF Safe, Running, Orphan
      <4> QED BY <2>1, <4>1, <1>0, <1>4 DEF Safe, Running, Stores
    <3> QED BY <3>1, <3>2
  <2> QED BY <2>1 DEF TypeInv, Placed
<1>8. Called'
  <2>1. \A b \in Actor : Alone(b) => Alone(b)'
    BY <1>4, Actors DEF Alone
  <2> QED BY <1>2, <1>4, <2>1 DEF Safe, Called
<1>9. Locked'
  BY <1>2, <1>4 DEF Safe, Locked
<1>10. FromCallback'
  <2>1. \A u \in Thread : call[u] # "idle" => body[u] \in Timer
    BY DEF TypeInv, Placed, Runs
  <2> QED BY <1>2, <1>4, <1>5, <1>6, <2>1, Actors DEF Safe, FromCallback
<1>11. Listed' /\ Tabled' = Tabled
  <2>1. \A u \in Timer : timer'[u].state = "none" => u # t
    BY <1>6 DEF Exists
  <2>2. \A i \in Id : table[i] # Null => table[i] \in Timer
    BY DEF TypeInv, TypeOK
  <2> QED BY <1>2, <1>6, <2>1, <2>2 DEF Safe, Listed, Tabled
<1>12. Apart'
  BY <1>5 DEF Safe, Apart
<1>13. Setting'
  BY <1>2, <1>4, <1>5, <1>6, Actors DEF Safe, Setting, SetBy, Sets, Holds
<1>14. Storing'
  <2>1. \A b \in Actor, u \in Thread : Stores(b, u)' => Stores(b, u) /\ b # a
    BY <1>2, <1>4 DEF Stores
  <2> QED BY <1>2, <1>5, <2>1 DEF Safe, Storing
<1>15. Killing'
  BY <1>2, <1>4, <1>5, <1>6, <1>11 DEF Safe, Killing, Kills, Holds
<1>16. Clearing'
  <2>1. ASSUME NEW b \in Actor, tableLock = b PROVE t \notin Tabled
    <3>1. b # a /\ Alone(b)
      BY <2>1, <1>2 DEF Safe, Locked, Called
    <3>2. a \in Thread
      BY <3>1, <1>2, Actors DEF Alone
    <3>3. timer[t].oneShot
      BY <3>2, <1>0, <1>2, <1>3 DEF Safe, FromCallback, SetBy
    <3> QED BY <3>3 DEF Safe, Listed, Tabled
  <2> QED BY <1>2, <1>6, <1>11, <2>1, TabledType DEF Safe, Clearing
<1>17. Running'
  <2>1. \A u \in Thread : Orphan(u) /\ at[u] \in Runs => Orphan(u)'
    <3>1. \A u \in Thread : Orphan(u) => body[u] # t
      BY <1>0, <1>4 DEF Orphan
    <3> QED BY <1>2, <1>5, <1>6, <1>7, <1>11, <3>1 DEF Orphan, State
  <2>2. \A u \in Thread : at[u] \in Runs /\ u # th =>
          (Awaited(u) => Awaited(u)') /\ (Killed(u) => Killed(u)')
    BY <1>0, <1>2, <1>4, <1>5, <1>7 DEF Awaited, Killed, Kills
  <2>3. ASSUME NEW u \in Thread, at[u] \in Runs
        PROVE  /\ Exists(body[u])'
               /\ IF timer'[body[u]].oneShot
                  THEN \A b \in Actor : Holds(b)' /\ Mine(b)' = body[u] => Stores(b, u)'
                  ELSE /\ timer'[body[u]].handle = u \/ Awaited(u)' \/ Orphan(u)'
                       /\ body[u] \in Tabled' \/ Killed(u)' \/ Orphan(u)'
    <3>1. CASE u = th
      <4>1. body[u] = t /\ Exists(body[u])' /\ timer'[body[u]].handle = u
        BY <3>1, <1>1, <1>2, <1>3, <1>6 DEF Exists
      <4> QED BY <4>1, <1>0, <1>3, <1>5, <1>6, <1>11 DEF SetBy
    <3>2. CASE u # th
      <4>1. body[u] \in Timer /\ body[u] # t
        BY <2>3, <3>2, <1>7
      <4>2. Exists(body[u])'
        BY <2>3, <4>1, <1>2, <1>6 DEF Safe, Running, Exists
      <4>3. \A b \in Actor : b # a /\ Stores(b, u) => Stores(b, u)'
        BY <1>2, <1>4 DEF Stores
      <4> QED BY <2>3, <3>2, <4>1, <4>2, <4>3, <2>1, <2>2, <1>5, <1>6, <1>11 DEF Safe, Running
    <3> QED BY <3>1, <3>2
  <2> QED BY <2>3, <1>2 DEF Safe, Running
<1>18. Found'
  <2> SUFFICES ASSUME Deletes, NEW u \in Timer, Exists(u)'
               PROVE  \/ u \in Tabled'
                      \/ \E b \in Actor : Holds(b)' /\ Mine(b)' = u
                      \/ \E v \in Thread : at'[v] \in Runs /\ body'[v] = u /\ timer'[u].oneShot
    BY <1>2 DEF Found, Deletes
  <2>1. CASE u = t
    BY <2>1, <1>0, <1>2, <1>3, <1>6, <1>11 DEF SetBy, Runs
  <2>2. CASE u # t
    <3>1. Exists(u) /\ timer'[u] = timer[u]
      BY <2>2, <1>6
    <3>2. \A b \in Actor : Holds(b) /\ Mine(b) = u => b # a
      BY <2>2, <1>0
    <3> QED BY <3>1, <3>2, <1>2, <1>5, <1>11 DEF Safe, Found
  <2> QED BY <2>1, <2>2
<1>19. Over'
  BY <1>2, <1>4 DEF Safe, Over, Destroys, Stored
<1> QED BY <1>8, <1>9, <1>10, <1>11, <1>12, <1>13, <1>14, <1>15, <1>16, <1>17, <1>18, <1>19 DEF Safe

LEMMA EraseSafe ==
  ASSUME TypeInv, Tame, Safe, NEW a \in Actor, Erase(a)
  PROVE  Safe'
<1>0. PICK i \in Id : i = arg[a].id
  BY EraseType
<1>1. PICK t \in Timer \cup {Null} : t = table[i]
  BY DEF TypeInv, TypeOK
<1>2. /\ OnlyArg(a) /\ arg'[a].timer = t
      /\ arg'[a].id = arg[a].id /\ arg'[a].oneShot = arg[a].oneShot
      /\ arg'[a].all = arg[a].all
      /\ t = Null => OnlyCall(a, "idle")
      /\ t # Null => OnlyCall(a, "exit")
      /\ table'[i] = Null /\ \A j \in Id \ {i} : table'[j] = table[j]
  <2>1. /\ OnlyArg(a) /\ arg'[a].timer = t
        /\ arg'[a].id = arg[a].id /\ arg'[a].oneShot = arg[a].oneShot
        /\ arg'[a].all = arg[a].all
        /\ OnlyCall(a, IF t = Null THEN "idle" ELSE "exit")
        /\ table'[i] = Null /\ \A j \in Id \ {i} : table'[j] = table[j]
    BY EraseType, <1>0, <1>1
  <2> QED BY <2>1
<1>3. call[a] = "erase" /\ Unlocked /\ UNCHANGED <<use, tableLock, timer, at, body, cleared>>
  BY DEF Erase
<1>4. /\ t = Null => call'[a] = "idle"
      /\ t # Null => call'[a] = "exit"
      /\ ~Holds(a) /\ (Holds(a)' <=> t # Null) /\ Mine(a)' = t
      /\ \A b \in Actor : b # a => /\ call'[b] = call[b] /\ arg'[b] = arg[b]
                                   /\ Mine(b)' = Mine(b) /\ (Holds(b)' <=> Holds(b))
  BY <1>2, <1>3 DEF OnlyArg, OnlyCall, Holds, Mine, Sets, Kills
<1>5. /\ ~arg[a].all /\ ~arg[a].oneShot /\ i \notin use.oneShots
      /\ a \in Worker => Owner[i] = a
      /\ a \in Thread => i = timer[body[a]].id /\ "kill" \in use.callbackOps /\ at[a] = "callback"
                         /\ body[a] \in Timer
  BY <1>0, <1>3 DEF Safe, Called, FromCallback, TypeInv, Placed, Runs
<1>6. t # Null => timer[t].id = i /\ ~timer[t].oneShot /\ Exists(t) /\ t \in Tabled /\ t \in Timer
  BY <1>1 DEF Safe, Listed, Tabled, Exists
\* A callback kills the timer it is called by.
<1>7. a \in Thread /\ t # Null => t = body[a]
  <2> SUFFICES ASSUME a \in Thread, t # Null PROVE t = body[a]
    OBVIOUS
  <2>1. at[a] \in Runs /\ ~Orphan(a) /\ ~timer[body[a]].oneShot
    BY <1>5 DEF Runs, Orphan, Safe, Listed
  <2>2. CASE body[a] \in Tabled
    BY <2>2, <1>1, <1>5 DEF Tabled, Safe, Listed
  <2>3. CASE Killed(a)
    <3>1. PICK c \in Actor : call[c] \in Kills /\ ~arg[c].all /\ Mine(c) = body[a]
      BY <2>3 DEF Killed
    <3>2. arg[c].id = i /\ (c \in Worker => table[i] = Null)
      BY <3>1, <1>5 DEF Safe, Killing
    <3>3. c \in Thread
      BY <3>2, <1>1, Actors
    <3>4. body[c] = body[a] /\ at[c] = "callback"
      BY <3>1, <3>3 DEF Safe, FromCallback, Killing, Called, SetBy, Kills, TypeInv, Placed
    <3>5. c = a
      BY <3>3, <3>4, <2>1 DEF Safe, Running, Runs
    <3> QED BY <3>1, <3>5, <1>3 DEF Kills
  <2> QED BY <2>1, <2>2, <2>3 DEF Safe, Running
<1>8. \A b \in Actor : Holds(b) /\ t # Null => Mine(b) # t
  <2> SUFFICES ASSUME NEW b \in Actor, Holds(b), t # Null, Mine(b) = t PROVE FALSE
    OBVIOUS
  <2>1. b # a /\ call[b] # "idle"
    BY <1>4 DEF Holds, Sets, Kills
  <2>2. CASE call[b] \in Sets
    <3>1. /\ arg[b].id = i /\ ~arg[b].oneShot
          /\ b \in Worker /\ Owner[i] = b
      BY <1>6, <2>1, <2>2, Actors DEF Safe, Setting, SetBy, Called, FromCallback, Sets
    <3>2. a \in Thread
      BY <1>5, <2>1, <3>1, Actors
    <3>3. timer[t].handle = Null
      BY <1>5, <2>2, <3>1, <3>2 DEF Safe, Setting, SetBy, Tame, Unraced
    <3>4. at[a] \in Runs /\ ~Orphan(a) /\ body[a] = t
      BY <1>5, <1>7, <3>2 DEF Runs, Orphan
    <3>5. Awaited(a)
      BY <3>2, <3>3, <3>4, <1>6, Numbers DEF Safe, Running
    <3>6. Stores(b, a)
      BY <3>4, <3>5, <2>2 DEF Awaited, Safe, Apart, Holds, Sets, Kills, Stores
    <3> QED BY <3>2, <3>6, <1>5 DEF Safe, Storing, Tame, Unraced, Stored
  <2>3. CASE call[b] \in Kills
    BY <1>3, <1>6, <2>1, <2>3, Numbers DEF Safe, Killing, Locked, Called, Unlocked, Kills
  <2> QED BY <2>2, <2>3 DEF Holds
<1>9. Tabled' = Tabled \ {t}
  BY <1>1, <1>2, <1>6 DEF Tabled, Safe, Listed
<1>10. Called'
  <2>1. \A b \in Actor : Alone(b) /\ b # a => Alone(b)'
    BY <1>3, <1>4, Actors DEF Alone
  <2> QED BY <1>0, <1>2, <1>3, <1>4, <1>5, <2>1 DEF Safe, Called
<1>11. Locked'
  BY <1>2, <1>3, <1>4, <1>5 DEF Safe, Locked
<1>12. FromCallback'
  BY <1>0, <1>2, <1>3, <1>4, <1>5, <1>7, Actors DEF Safe, FromCallback
<1>13. Listed'
  <2>1. \A j \in Id : table'[j] # Null => table'[j] = table[j]
    BY <1>2
  <2> QED BY <1>3, <2>1 DEF Safe, Listed, Exists
<1>14. Apart'
  BY <1>4, <1>8 DEF Safe, Apart
<1>15. Setting'
  <2>1. ASSUME NEW b \in Actor, call'[b] \in Sets PROVE SetBy(b)'
    <3>1. b # a /\ call[b] \in Sets /\ SetBy(b) /\ arg[b].id \in Id
      BY <2>1, <1>4 DEF Sets, Safe, Setting, TypeInv, TypeOK, Argument
    <3>2. ~arg[b].oneShot => table'[arg[b].id] = Mine(b)
      <4>1. SUFFICES ASSUME ~arg[b].oneShot, arg[b].id = i PROVE FALSE
        BY <3>1, <1>2 DEF SetBy
      <4>2. Mine(b) = t /\ t # Null
        BY <4>1, <3>1, <1>1, Numbers DEF SetBy, TypeInv, Placed, Holds
      <4> QED BY <3>1, <4>2, <1>8 DEF Holds
    <3> QED BY <3>1, <3>2, <1>3, <1>4 DEF SetBy, Exists
  <2>2. \A j \in Id : table[j] = Null => table'[j] = Null
    BY <1>2
  <2> QED BY <2>1, <2>2, <1>3, <1>4, Actors DEF Safe, Setting, TypeInv, TypeOK, Argument
<1>16. Killing'
  <2>1. ASSUME NEW b \in Actor, b # a, call'[b] \in Kills
        PROVE  call[b] = call'[b] /\ arg'[b] = arg[b] /\ Mine(b)' = Mine(b) /\ arg[b].id \in Id
               /\ ~arg[b].all
    BY <2>1, <1>3, <1>4, Numbers DEF Safe, Locked, Called, Unlocked, Kills, TypeInv, TypeOK, Argument
  <2>2. \A j \in Id : table[j] = Null => table'[j] = Null
    BY <1>2
  <2>3. ASSUME NEW b \in Actor, b # a, call'[b] \in Kills
        PROVE  /\ Exists(Mine(b)) /\ ~timer[Mine(b)].oneShot
               /\ call[b] # "exit" => timer[Mine(b)].state = "exit"
               /\ call[b] \in {"join", "free"} => timer[Mine(b)].handle = Null
               /\ Mine(b) \notin Tabled' /\ timer[Mine(b)].id = arg[b].id
               /\ b \in Worker => table'[arg[b].id] = Null
    BY <2>1, <2>2, <2>3, <1>9 DEF Safe, Killing
  <2>4. call'[a] \in Kills => /\ t # Null /\ call'[a] = "exit" /\ Exists(t) /\ ~timer[t].oneShot
                              /\ t \notin Tabled' /\ timer[t].id = arg'[a].id
                              /\ table'[arg'[a].id] = Null
    BY <1>0, <1>2, <1>4, <1>6, <1>9 DEF Kills
  <2> QED BY <1>2, <1>3, <1>4, <1>5, <2>1, <2>3, <2>4 DEF Killing, Exists
<1>17. Clearing'
  BY <1>3, Numbers DEF Unlocked, Safe, Clearing
<1>s. Storing' /\ \A b \in Actor, th \in Thread : Stores(b, th) <=> Stores(b, th)'
  BY <1>3, <1>4, StorersStay
<1>18. Running'
  <2>1. \A th \in Thread : Orphan(th) => Orphan(th)'
    BY <1>3, <1>4, <1>6, <1>9 DEF Orphan, State
  <2>2. \A th \in Thread : (Awaited(th) => Awaited(th)') /\ (Killed(th) => Killed(th)')
    BY <1>3, <1>4 DEF Awaited, Killed, Kills
  <2>3. \A th \in Thread : body[th] \in Tabled => body[th] \in Tabled' \/ Killed(th)'
    BY <1>2, <1>3, <1>4, <1>5, <1>9, Numbers, TabledType DEF Killed, Kills
  <2> QED BY <1>s, <1>3, <1>4, <1>6, <2>1, <2>2, <2>3 DEF Safe, Running, Exists
<1>19. Found'
  <2>1. \A u \in Tabled : u \in Tabled' \/ (Holds(a)' /\ Mine(a)' = u)
    BY <1>4, <1>9, Numbers, TabledType
  <2> QED BY <1>3, <1>4, <2>1 DEF Safe, Found, Deletes, Exists
<1>20. Over'
  BY <1>3, <1>4 DEF Safe, Over, Destroys, Stored, Sets
<1> QED BY <1>s, <1>10, <1>11, <1>12, <1>13, <1>14, <1>15, <1>16, <1>17, <1>18, <1>19, <1>20 DEF Safe

LEMMA TakeSafe ==
  ASSUME TypeInv, Tame, Safe, NEW a \in Actor, Take(a)
  PROVE  Safe'
<1>0. PICK t \in Timer : t = Mine(a)
  BY TakeType
<1>1. /\ OnlyCall(a, "join")
      /\ OnlyArg(a) /\ arg'[a].thread = timer[t].handle /\ arg'[a].timer = arg[a].timer
      /\ arg'[a].id = arg[a].id /\ arg'[a].oneShot = arg[a].oneShot
      /\ arg'[a].all = arg[a].all /\ arg'[a].todo = arg[a].todo
      /\ OnlyTimer(t) /\ timer'[t].state = timer[t].state /\ timer'[t].handle = Null
  BY <1>0, TakeType
<1>2. call[a] = "take" /\ UNCHANGED <<use, table, tableLock, at, body, cleared>>
  BY DEF Take
<1>3. /\ call'[a] = "join" /\ Holds(a) /\ Holds(a)'
      /\ \A b \in Actor : b # a => call'[b] = call[b] /\ arg'[b] = arg[b]
  BY <1>1, <1>2 DEF OnlyArg, OnlyCall, Holds, Kills
<1>4. \A b \in Actor : /\ Holds(b)' <=> Holds(b)
                       /\ Mine(b)' = Mine(b)
                       /\ b # a /\ Holds(b) => Mine(b) # t /\ Mine(b) \in Timer
  BY <1>0, <1>1, <1>3 DEF Holds, Mine, Safe, Apart, TypeInv, Placed
<1>5. \A u \in Timer : /\ u # t => timer'[u] = timer[u]
                       /\ timer'[u].id = timer[u].id /\ timer'[u].oneShot = timer[u].oneShot
                       /\ timer'[u].state = timer[u].state
                       /\ timer'[u].handle = timer[u].handle \/ timer'[u].handle = Null
                       /\ (Exists(u) <=> Exists(u)')
  BY <1>1 DEF OnlyTimer, Exists
<1>6. Exists(t) /\ ~timer[t].oneShot /\ timer[t].state = "exit"
      /\ (arg[a].all => t \in arg[a].todo)
      /\ (~arg[a].all => t \notin Tabled)
  BY <1>0, <1>2 DEF Safe, Killing, Kills
<1>7. Called'
  <2>1. \A b \in Actor : Alone(b) => Alone(b)'
    BY <1>2, <1>3, Actors DEF Alone
  <2> QED BY <1>1, <1>2, <1>3, <2>1 DEF Safe, Called
<1>8. Locked'
  BY <1>1, <1>2, <1>3 DEF Safe, Locked
<1>9. a \in Thread => timer[t].handle = a /\ body[a] = t
  <2> SUFFICES ASSUME a \in Thread PROVE timer[t].handle = a /\ body[a] = t
    OBVIOUS
  <2>1. body[a] = t /\ at[a] = "callback"
    BY <1>0, <1>2, Actors DEF Safe, FromCallback, Called, Alone, TypeInv, Placed
  <2>2. ~Awaited(a)
    BY <2>1, <1>0, <1>2, <1>3 DEF Awaited, Safe, Apart, Holds, Sets, Kills
  <2> QED BY <2>1, <2>2, <1>6 DEF Safe, Running, Orphan, Runs
<1>10. FromCallback'
  <2>1. \A th \in Thread : call[th] # "idle" => body[th] \in Timer
    BY DEF TypeInv, Placed, Runs
  <2> QED BY <1>0, <1>1, <1>2, <1>3, <1>4, <1>5, <1>9, <2>1, Actors DEF Safe, FromCallback
<1>11. Listed' /\ Tabled' = Tabled
  <2>1. \A i \in Id : table[i] # Null => table[i] \in Timer
    BY DEF TypeInv, TypeOK
  <2> QED BY <1>2, <1>5, <2>1 DEF Safe, Listed, Tabled
<1>12. Apart'
  BY <1>4 DEF Safe, Apart
<1>13. Setting'
  BY <1>2, <1>3, <1>4, <1>5, Actors DEF Safe, Setting, SetBy, Sets, Holds
<1>14. Killing'
  <2>1. ASSUME NEW b \in Actor, b # a, call'[b] \in Kills
        PROVE  call[b] = call'[b] /\ arg'[b] = arg[b] /\ Mine(b)' = Mine(b)
               /\ timer'[Mine(b)] = timer[Mine(b)] /\ (Exists(Mine(b)) => Exists(Mine(b))')
    BY <2>1, <1>3, <1>4, <1>5 DEF Holds, Exists
  <2>2. Mine(a)' = t /\ Exists(Mine(a))'
    BY <1>0, <1>4, <1>5, <1>6 DEF Exists
  <2>3. ASSUME NEW b \in Actor, b # a, call'[b] \in Kills
        PROVE  /\ Exists(Mine(b))' /\ ~timer'[Mine(b)'].oneShot
               /\ call'[b] # "exit" => timer'[Mine(b)'].state = "exit"
               /\ call'[b] \in {"join", "free"} => timer'[Mine(b)'].handle = Null
               /\ IF arg'[b].all THEN Mine(b)' \in arg'[b].todo
                  ELSE /\ Mine(b)' \notin Tabled' /\ timer'[Mine(b)'].id = arg'[b].id
                       /\ b \in Worker => table'[arg'[b].id] = Null
    BY <1>2, <1>11, <2>1, <2>3 DEF Safe, Killing
  <2>4. (timer[t].id = arg[a].id /\ (a \in Worker => table[arg[a].id] = Null)) \/ arg[a].all
    BY <1>0, <1>2 DEF Safe, Killing, Kills
  <2> QED BY <1>1, <1>2, <1>3, <1>5, <1>6, <1>11, <2>2, <2>3, <2>4 DEF Killing
<1>15. Clearing'
  <2>1. \A b \in Actor : arg'[b].todo = arg[b].todo
    BY <1>1, <1>3
  <2> QED BY <1>2, <1>5, <1>11, <2>1, TabledType DEF Safe, Clearing
<1>s. Storing' /\ \A b \in Actor, th \in Thread : Stores(b, th) <=> Stores(b, th)'
  BY <1>2, <1>3, StorersStay
<1>16. Running'
  <2>1. \A th \in Thread : at[th] \in Runs => body[th] \in Timer
    BY DEF TypeInv, Placed
  <2>2. \A th \in Thread : Orphan(th) /\ at[th] \in Runs => Orphan(th)'
    BY <1>2, <1>4, <1>5, <1>11, <2>1 DEF Orphan, State
  <2>3. \A th \in Thread : (Awaited(th) => Awaited(th)') /\ (Killed(th) => Killed(th)')
    <3>1. ASSUME NEW b \in Actor, call[b] \in {"join", "store"}
          PROVE  b # a /\ call'[b] = call[b] /\ arg'[b] = arg[b]
      BY <3>1, <1>2, <1>3
    <3>2. ASSUME NEW b \in Actor, call[b] \in Kills
          PROVE  call'[b] \in Kills /\ arg'[b].all = arg[b].all
      BY <3>2, <1>1, <1>3 DEF Kills
    <3> QED BY <1>2, <1>4, <3>1, <3>2 DEF Awaited, Killed
  <2>4. \A th \in Thread : at[th] \in Runs /\ timer[body[th]].handle = th =>
          timer'[body[th]].handle = th \/ Awaited(th)'
    BY <1>0, <1>1, <1>2, <1>3, <1>4, <1>5, <2>1 DEF Awaited
  <2> QED BY <1>s, <1>2, <1>4, <1>5, <1>11, <2>1, <2>2, <2>3, <2>4 DEF Safe, Running
<1>17. Found'
  BY <1>2, <1>4, <1>5, <1>11 DEF Safe, Found, Deletes
<1>18. Over'
  BY <1>2, <1>3 DEF Safe, Over, Destroys, Stored, Sets
<1> QED BY <1>s, <1>7, <1>8, <1>10, <1>11, <1>12, <1>13, <1>14, <1>15, <1>16, <1>17, <1>18 DEF Safe

LEMMA JoinSafe ==
  ASSUME TypeInv, Tame, Safe, NEW a \in Actor, Join(a)
  PROVE  Safe'
<1>0. PICK t \in Timer : t = Mine(a)
  BY JoinType
<1>1. /\ arg[a].all => OnlyCall(a, "exitall")
      /\ ~arg[a].all => OnlyCall(a, "free")
      /\ OnlyArg(a) /\ arg'[a].timer = arg[a].timer
      /\ arg'[a].id = arg[a].id /\ arg'[a].oneShot = arg[a].oneShot
      /\ arg'[a].all = arg[a].all /\ arg'[a].todo = arg[a].todo \ {t}
  <2>1. /\ OnlyCall(a, IF arg[a].all THEN "exitall" ELSE "free")
        /\ OnlyArg(a) /\ arg'[a].timer = arg[a].timer
        /\ arg'[a].id = arg[a].id /\ arg'[a].oneShot = arg[a].oneShot
        /\ arg'[a].all = arg[a].all /\ arg'[a].todo = arg[a].todo \ {t}
    BY <1>0, JoinType
  <2> QED BY <2>1
<1>2. /\ call[a] = "join" /\ Joined(a)
      /\ UNCHANGED <<use, table, tableLock, timer, at, body, cleared>>
  BY DEF Join
<1>3. /\ arg[a].all => call'[a] = "exitall"
      /\ ~arg[a].all => call'[a] = "free"
      /\ Holds(a) /\ (Holds(a)' => ~arg[a].all) /\ Mine(a)' = t
      /\ \A b \in Actor : b # a => /\ call'[b] = call[b] /\ arg'[b] = arg[b]
                                   /\ Mine(b)' = Mine(b) /\ (Holds(b)' <=> Holds(b))
  BY <1>0, <1>1, <1>2 DEF OnlyArg, OnlyCall, Holds, Mine, Sets, Kills
<1>4. \A b \in Actor : /\ Mine(b)' = Mine(b)
                       /\ Holds(b)' => Holds(b)
                       /\ b # a /\ Holds(b) => Mine(b) # t
  BY <1>0, <1>3 DEF Safe, Apart
<1>5. /\ Exists(t) /\ ~timer[t].oneShot /\ timer[t].state = "exit" /\ timer[t].handle = Null
      /\ arg[a].all => t \in arg[a].todo /\ tableLock = a
      /\ ~arg[a].all => /\ t \notin Tabled /\ timer[t].id = arg[a].id
                        /\ a \in Worker => table[arg[a].id] = Null
  BY <1>0, <1>2 DEF Safe, Killing, Kills, Locked
\* Its thread has ended.
<1>6. \A th \in Thread : at[th] \in Runs => body[th] # t
  <2> SUFFICES ASSUME NEW th \in Thread, at[th] \in Runs, body[th] = t PROVE FALSE
    OBVIOUS
  <2>1. Awaited(th)
    BY <1>0, <1>3, <1>5, Numbers DEF Safe, Running, Orphan
  <2>2. arg[a].thread = th
    BY <2>1, <1>0, <1>4 DEF Awaited, Holds, Sets, Kills
  <2> QED BY <2>2, <1>2, Numbers DEF Joined, Ended, Runs
<1>7. a \in Thread => FALSE
  BY <1>0, <1>2, <1>6, Actors DEF Safe, FromCallback, Called, Alone, TypeInv, Placed, Runs
<1>8. Called'
  <2>1. \A b \in Actor : Alone(b) => Alone(b)'
    BY <1>2, <1>3, Actors DEF Alone
  <2> QED BY <1>1, <1>2, <1>3, <2>1 DEF Safe, Called
<1>9. Locked'
  BY <1>1, <1>2, <1>3 DEF Safe, Locked
<1>10. FromCallback'
  BY <1>2, <1>3, <1>7 DEF Safe, FromCallback, Actor
<1>11. Listed' /\ Tabled' = Tabled
  BY <1>2 DEF Safe, Listed, Tabled, Exists
<1>12. Apart'
  BY <1>4 DEF Safe, Apart
<1>13. Setting'
  BY <1>2, <1>3, Actors DEF Safe, Setting, SetBy, Sets, Exists
<1>14. Killing'
  <2>1. ASSUME NEW b \in Actor, b # a, call'[b] \in Kills
        PROVE  /\ Exists(Mine(b))' /\ ~timer'[Mine(b)'].oneShot
               /\ call'[b] # "exit" => timer'[Mine(b)'].state = "exit"
               /\ call'[b] \in {"join", "free"} => timer'[Mine(b)'].handle = Null
               /\ IF arg'[b].all THEN Mine(b)' \in arg'[b].todo
                  ELSE /\ Mine(b)' \notin Tabled' /\ timer'[Mine(b)'].id = arg'[b].id
                       /\ b \in Worker => table'[arg'[b].id] = Null
    BY <1>2, <1>3, <1>11, <2>1 DEF Safe, Killing, Exists
  <2>2. call'[a] \in Kills => ~arg'[a].all
    BY <1>1, <1>3 DEF Kills
  <2>3. Exists(Mine(a))'
    BY <1>2, <1>3, <1>5 DEF Exists
  <2> QED BY <1>1, <1>2, <1>3, <1>5, <1>11, <2>1, <2>2, <2>3 DEF Killing
<1>15. Clearing'
  <2>1. ASSUME NEW b \in Actor, tableLock = b
        PROVE  /\ arg'[b].todo \subseteq Tabled
               /\ \A u \in Tabled \ arg'[b].todo : timer[u].handle = Null
    <3>1. CASE b = a
      BY <2>1, <3>1, <1>1, <1>5 DEF Safe, Clearing
    <3>2. CASE b # a
      BY <2>1, <3>2, <1>3 DEF Safe, Clearing
    <3> QED BY <3>1, <3>2
  <2> QED BY <2>1, <1>2, <1>11 DEF Clearing
<1>s. Storing' /\ \A b \in Actor, th \in Thread : Stores(b, th) <=> Stores(b, th)'
  BY <1>2, <1>3, StorersStay
<1>16. Running'
  <2>1. \A th \in Thread : Orphan(th) => Orphan(th)'
    BY <1>2, <1>4, <1>11 DEF Orphan, State
  <2>2. \A th \in Thread : at[th] \in Runs =>
          (Awaited(th) => Awaited(th)') /\ (Killed(th) => Killed(th)')
    BY <1>0, <1>2, <1>3, <1>6 DEF Awaited, Killed
  <2> QED BY <1>s, <1>2, <1>4, <1>11, <2>1, <2>2 DEF Safe, Running, Exists
<1>17. Found'
  <2>1. t \in Tabled \/ (Holds(a)' /\ Mine(a)' = t)
    BY <1>3, <1>5 DEF Holds, Kills, Safe, Clearing
  <2> QED BY <1>0, <1>2, <1>3, <1>11, <2>1 DEF Safe, Found, Deletes, Exists
<1>18. Over'
  BY <1>2, <1>3 DEF Safe, Over, Destroys, Stored, Sets
<1> QED BY <1>s, <1>8, <1>9, <1>10, <1>11, <1>12, <1>13, <1>14, <1>15, <1>16, <1>17, <1>18 DEF Safe

LEMMA JoinSelfSafe ==
  ASSUME TypeInv, Tame, Safe, NEW a \in Actor, JoinSelf(a)
  PROVE  Safe'
<1>0. PICK t \in Timer : t = Mine(a)
  BY JoinSelfType
<1>1. /\ OnlyCall(a, "idle") /\ a \in Thread /\ OnlyAt(a, "return") /\ call[a] = "join"
      /\ UNCHANGED <<use, table, timer, body, arg, cleared>>
  BY JoinSelfType DEF JoinSelf
<1>2. ~arg[a].all /\ ~arg[a].oneShot /\ body[a] = t /\ "kill" \in use.callbackOps /\ at[a] = "callback"
  BY <1>0, <1>1, Actors DEF Safe, FromCallback, Called, Alone, TypeInv, Placed
<1>3. tableLock' = tableLock /\ tableLock # a
  BY <1>2 DEF JoinSelf, Unlock, Safe, Locked
<1>4. /\ call'[a] = "idle" /\ Holds(a) /\ ~Holds(a)'
      /\ \A b \in Actor : b # a => call'[b] = call[b]
  BY <1>1 DEF OnlyCall, Holds, Sets, Kills
<1>5. \A b \in Actor : /\ Holds(b)' <=> b # a /\ Holds(b)
                       /\ Mine(b)' = Mine(b)
                       /\ b # a /\ Holds(b) => Mine(b) # t
  BY <1>0, <1>1, <1>4 DEF Holds, Mine, Safe, Apart
<1>6. /\ timer[t].state = "exit" /\ ~timer[t].oneShot /\ t \notin Tabled
  BY <1>0, <1>1, <1>2 DEF Safe, Killing, Kills
<1>7. at'[a] = "return" /\ \A th \in Thread : th # a => at'[th] = at[th]
  BY <1>1 DEF OnlyAt
<1>8. Called'
  <2>1. \A b \in Actor : Alone(b) => Alone(b)'
    BY <1>1, <1>4, Actors DEF Alone
  <2> QED BY <1>1, <1>4, <2>1 DEF Safe, Called
<1>9. Locked'
  BY <1>1, <1>3, <1>4 DEF Safe, Locked
<1>10. FromCallback'
  BY <1>1, <1>4, <1>5, Actors DEF Safe, FromCallback
<1>11. Listed' /\ Tabled' = Tabled
  BY <1>1 DEF Safe, Listed, Tabled, Exists
<1>12. Apart'
  BY <1>5 DEF Safe, Apart
<1>13. Setting'
  BY <1>1, <1>4, <1>5, Actors DEF Safe, Setting, SetBy, Sets, Exists
<1>s. Storing'
  <2>1. \A b \in Actor, th \in Thread : Stores(b, th)' => Stores(b, th) /\ b # a
    BY <1>1, <1>4 DEF Stores
  <2>2. \A b \in Actor : Stores(b, a) => ~arg[b].oneShot
    BY <1>1, <1>2 DEF Safe, Storing
  <2> QED BY <1>1, <1>5, <1>7, <2>1, <2>2 DEF Safe, Storing
<1>14. Killing'
  BY <1>1, <1>4, <1>5, <1>11 DEF Safe, Killing, Kills, Exists
<1>15. Clearing'
  BY <1>1, <1>3, <1>11 DEF Safe, Clearing
<1>16. Running'
  <2>1. Orphan(a)'
    BY <1>1, <1>2, <1>5, <1>6, <1>7, <1>11 DEF Orphan, State
  <2>2. ASSUME NEW th \in Thread, th # a, at[th] \in Runs
        PROVE  /\ body[th] # t /\ at'[th] = at[th]
               /\ Orphan(th) => Orphan(th)'
               /\ Awaited(th) => Awaited(th)'
               /\ Killed(th) => Killed(th)'
    <3>1. body[th] # t /\ at'[th] = at[th]
      BY <2>2, <1>1, <1>2, <1>7 DEF Safe, Running, Runs
    <3>2. Orphan(th) => Orphan(th)'
      BY <3>1, <1>1, <1>5, <1>11 DEF Orphan, State
    <3>3. (Awaited(th) => Awaited(th)') /\ (Killed(th) => Killed(th)')
      BY <3>1, <1>0, <1>1, <1>4, <1>5 DEF Awaited, Killed
    <3> QED BY <3>1, <3>2, <3>3
  <2>3. at[a] \in Runs /\ body[a] = t /\ Exists(t)
    BY <1>2, <1>6 DEF Runs, Exists
  <2>4. \A th, u \in Thread : at'[th] \in Runs /\ at'[u] \in Runs /\ body'[th] = body'[u] => th = u
    BY <1>1, <1>7, <2>3 DEF Safe, Running
  <2>5. ASSUME NEW th \in Thread, at'[th] \in Runs
        PROVE  /\ Exists(body[th])'
               /\ IF timer'[body'[th]].oneShot
                  THEN \A b \in Actor : Holds(b)' /\ Mine(b)' = body'[th] => Stores(b, th)'
                  ELSE /\ timer'[body'[th]].handle = th \/ Awaited(th)' \/ Orphan(th)'
                       /\ body'[th] \in Tabled' \/ Killed(th)' \/ Orphan(th)'
    <3>1. CASE th = a
      BY <3>1, <1>1, <1>6, <2>1, <2>3 DEF Exists
    <3>2. CASE th # a
      BY <3>2, <2>2, <2>5, <1>1, <1>4, <1>5, <1>7, <1>11 DEF Safe, Running, Exists, Stores
    <3> QED BY <3>1, <3>2
  <2> QED BY <2>4, <2>5 DEF Running
<1>17. Found'
  BY <1>1, <1>2 DEF Found, Deletes
<1>18. Over'
  BY <1>1, <1>2 DEF Over, Destroys, Stored
<1> QED BY <1>s, <1>8, <1>9, <1>10, <1>11, <1>12, <1>13, <1>14, <1>15, <1>16, <1>17, <1>18 DEF Safe

LEMMA FreeSafe ==
  ASSUME TypeInv, Tame, Safe, NEW a \in Actor, Free(a)
  PROVE  Safe'
<1>0. PICK t \in Timer : t = Mine(a)
  BY FreeType
<1>1. call[a] = "free" /\ UNCHANGED <<use, table, tableLock, at, body, arg, cleared>>
  BY DEF Free
<1>2. /\ ~arg[a].all
      /\ Exists(t) /\ ~timer[t].oneShot /\ timer[t].handle = Null /\ t \notin Tabled
  BY <1>0, <1>1 DEF Safe, Killing, Kills, Called
<1>3. OnlyCall(a, "idle") /\ OnlyTimer(t) /\ timer'[t].state = "freed"
      /\ timer'[t].handle = timer[t].handle
  BY <1>0, <1>2, FreeType DEF HasThread
<1>4. /\ call'[a] = "idle" /\ Holds(a) /\ ~Holds(a)'
      /\ \A b \in Actor : b # a => call'[b] = call[b]
  BY <1>1, <1>3 DEF OnlyCall, Holds, Sets, Kills
<1>5. \A b \in Actor : /\ Holds(b)' <=> b # a /\ Holds(b)
                       /\ Mine(b)' = Mine(b)
                       /\ b # a /\ Holds(b) => Mine(b) # t /\ Mine(b) \in Timer
  BY <1>0, <1>1, <1>4 DEF Holds, Mine, Safe, Apart, TypeInv, Placed
<1>6. /\ ~Exists(t)'
      /\ \A u \in Timer : /\ u # t => timer'[u] = timer[u] /\ (Exists(u) <=> Exists(u)')
                          /\ timer'[u].id = timer[u].id /\ timer'[u].oneShot = timer[u].oneShot
                          /\ timer'[u].handle = timer[u].handle
  BY <1>3 DEF OnlyTimer, Exists
<1>7. \A th \in Thread : at[th] \in Runs => body[th] # t /\ body[th] \in Timer
  <2> SUFFICES ASSUME NEW th \in Thread, at[th] \in Runs, body[th] = t PROVE FALSE
    BY DEF TypeInv, Placed
  <2>1. Awaited(th)
    BY <1>0, <1>2, <1>4, Numbers DEF Safe, Running, Orphan
  <2> QED BY <2>1, <1>1, <1>5 DEF Awaited, Holds, Sets, Kills
<1>8. Called'
  <2>1. \A b \in Actor : Alone(b) => Alone(b)'
    BY <1>1, <1>4, Actors DEF Alone
  <2> QED BY <1>1, <1>4, <2>1 DEF Safe, Called
<1>9. Locked'
  BY <1>1, <1>4 DEF Safe, Locked
<1>10. FromCallback'
  <2>1. \A th \in Thread : call[th] # "idle" => body[th] \in Timer
    BY DEF TypeInv, Placed, Runs
  <2> QED BY <1>1, <1>4, <1>5, <1>6, <2>1, Actors DEF Safe, FromCallback
<1>11. Listed' /\ Tabled' = Tabled
  <2>1. \A i \in Id : table[i] # Null => table[i] \in Timer /\ table[i] # t
    BY <1>2 DEF TypeInv, TypeOK, Tabled
  <2>2. \A u \in Timer : timer'[u].state = "none" => timer[u].state = "none"
    BY <1>3, <1>6
  <2> QED BY <1>1, <1>6, <2>1, <2>2 DEF Safe, Listed, Tabled
<1>12. Apart'
  BY <1>5 DEF Safe, Apart
<1>13. Setting'
  BY <1>1, <1>4, <1>5, <1>6, Actors DEF Safe, Setting, SetBy, Sets, Holds
<1>14. Killing'
  BY <1>1, <1>4, <1>5, <1>6, <1>11 DEF Safe, Killing, Kills, Holds
<1>15. Clearing'
  BY <1>1, <1>6, <1>11, TabledType DEF Safe, Clearing
<1>s. Storing' /\ \A b \in Actor, th \in Thread : Stores(b, th) <=> Stores(b, th)'
  BY <1>1, <1>4, StorersStay
<1>16. Running'
  <2>1. \A th \in Thread : Orphan(th) /\ at[th] \in Runs => Orphan(th)'
    BY <1>1, <1>5, <1>6, <1>7, <1>11 DEF Orphan, State
  <2>2. \A th \in Thread : at[th] \in Runs =>
          (Awaited(th) => Awaited(th)') /\ (Killed(th) => Killed(th)')
    BY <1>0, <1>1, <1>4, <1>5, <1>7 DEF Awaited, Killed
  <2> QED BY <1>s, <1>1, <1>5, <1>6, <1>7, <1>11, <2>1, <2>2 DEF Safe, Running
<1>17. Found'
  BY <1>0, <1>1, <1>5, <1>6, <1>7, <1>11 DEF Safe, Found, Deletes
<1>18. Over'
  BY <1>1, <1>4 DEF Safe, Over, Destroys, Stored, Sets
<1> QED BY <1>s, <1>8, <1>9, <1>10, <1>11, <1>12, <1>13, <1>14, <1>15, <1>16, <1>17, <1>18 DEF Safe

LEMMA LockAllSafe ==
  ASSUME TypeInv, Tame, Safe, NEW a \in Actor, LockAll(a)
  PROVE  Safe'
<1>1. /\ OnlyCall(a, "exitall") /\ OnlyArg(a)
      /\ arg'[a].id = arg[a].id /\ arg'[a].oneShot = arg[a].oneShot
      /\ arg'[a].all = arg[a].all /\ arg'[a].todo = Tabled
  BY LockAllType
<1>2. /\ call[a] = "lockall" /\ Unlocked /\ tableLock' = a
      /\ UNCHANGED <<use, table, timer, at, body, cleared>>
  BY DEF LockAll
<1>3. /\ call'[a] = "exitall" /\ ~Holds(a) /\ ~Holds(a)'
      /\ \A b \in Actor : b # a => /\ call'[b] = call[b] /\ arg'[b] = arg[b]
                                   /\ Mine(b)' = Mine(b) /\ (Holds(b)' <=> Holds(b))
  BY <1>1, <1>2 DEF OnlyArg, OnlyCall, Holds, Mine, Sets, Kills
<1>4. arg[a].all /\ a \in Worker
  BY <1>2 DEF Safe, Called, Alone
<1>5. \A b \in Actor : tableLock # b
  BY <1>2, Numbers DEF Unlocked
<1>6. Called'
  <2>1. \A b \in Actor : Alone(b) => Alone(b)'
    BY <1>2, <1>3, Actors DEF Alone
  <2> QED BY <1>1, <1>2, <1>3, <2>1 DEF Safe, Called
<1>7. Locked'
  BY <1>1, <1>2, <1>3, <1>4, <1>5 DEF Safe, Locked
<1>8. FromCallback'
  BY <1>2, <1>3, <1>4, Actors DEF Safe, FromCallback
<1>9. Listed' /\ Tabled' = Tabled
  BY <1>2 DEF Safe, Listed, Tabled, Exists
<1>10. Apart'
  BY <1>3 DEF Safe, Apart
<1>11. Setting'
  BY <1>2, <1>3, Actors DEF Safe, Setting, SetBy, Sets, Exists
<1>12. Killing'
  BY <1>2, <1>3, <1>9 DEF Safe, Killing, Kills, Exists
<1>13. Clearing'
  BY <1>1, <1>2, <1>9 DEF Clearing
<1>s. Storing' /\ \A b \in Actor, th \in Thread : Stores(b, th) <=> Stores(b, th)'
  BY <1>2, <1>3, StorersStay
<1>14. Running'
  <2>1. \A th \in Thread : Orphan(th) => Orphan(th)'
    BY <1>2, <1>3, <1>9 DEF Orphan, State
  <2>2. \A th \in Thread : (Awaited(th) => Awaited(th)') /\ (Killed(th) => Killed(th)')
    BY <1>2, <1>3 DEF Awaited, Killed, Kills
  <2> QED BY <1>s, <1>2, <1>3, <1>9, <2>1, <2>2 DEF Safe, Running, Exists
<1>15. Found'
  BY <1>2, <1>3, <1>9 DEF Safe, Found, Deletes, Exists
<1>16. Over'
  BY <1>2, <1>3 DEF Safe, Over, Destroys, Stored, Sets
<1> QED BY <1>s, <1>6, <1>7, <1>8, <1>9, <1>10, <1>11, <1>12, <1>13, <1>14, <1>15, <1>16 DEF Safe

LEMMA ExitNextSafe ==
  ASSUME TypeInv, Tame, Safe, NEW a \in Actor, ExitNext(a)
  PROVE  Safe'
<1>0. PICK t \in Timer : t = arg'[a].timer
  BY ExitNextType
<1>1. /\ OnlyCall(a, "take") /\ OnlyArg(a) /\ t \in arg[a].todo
      /\ arg'[a].id = arg[a].id /\ arg'[a].oneShot = arg[a].oneShot
      /\ arg'[a].all = arg[a].all /\ arg'[a].todo = arg[a].todo
      /\ OnlyTimer(t) /\ timer'[t].state = "exit" /\ timer'[t].handle = timer[t].handle
  BY <1>0, ExitNextType
<1>2. call[a] = "exitall" /\ UNCHANGED <<use, table, tableLock, at, body, cleared>>
  BY DEF ExitNext
<1>3. /\ call'[a] = "take" /\ ~Holds(a) /\ Holds(a)' /\ Mine(a)' = t
      /\ \A b \in Actor : b # a => /\ call'[b] = call[b] /\ arg'[b] = arg[b]
                                   /\ Mine(b)' = Mine(b) /\ (Holds(b)' <=> Holds(b))
  BY <1>0, <1>1, <1>2 DEF OnlyArg, OnlyCall, Holds, Mine, Sets, Kills
<1>4. arg[a].all /\ Alone(a) /\ tableLock = a /\ t \in Tabled /\ Exists(t) /\ ~timer[t].oneShot
  <2>1. arg[a].all /\ Alone(a) /\ tableLock = a
    BY <1>2 DEF Safe, Called, Locked
  <2> QED BY <2>1, <1>1, Numbers DEF Safe, Clearing, Listed, Tabled
<1>5. \A b \in Actor : Holds(b) => Mine(b) # t /\ Mine(b) \in Timer
  <2> SUFFICES ASSUME NEW b \in Actor, Holds(b), Mine(b) = t PROVE FALSE
    BY DEF TypeInv, Placed
  <2>1. b # a /\ call[b] # "idle"
    BY <1>3 DEF Holds, Sets, Kills
  <2>2. b \in Thread
    BY <1>4, <2>1, Actors DEF Alone
  <2>3. CASE call[b] \in Sets
    BY <1>4, <2>1, <2>2, <2>3 DEF Safe, Setting, SetBy, FromCallback, Sets
  <2>4. CASE call[b] \in Kills
    BY <1>4, <2>1, <2>2, <2>4, Actors DEF Safe, Killing, Called, Alone
  <2> QED BY <2>3, <2>4 DEF Holds
<1>6. \A u \in Timer : /\ u # t => timer'[u] = timer[u]
                       /\ timer'[u].id = timer[u].id /\ timer'[u].oneShot = timer[u].oneShot
                       /\ timer'[u].handle = timer[u].handle
                       /\ (Exists(u) <=> Exists(u)')
  BY <1>1, <1>4 DEF OnlyTimer, Exists
<1>7. Called'
  <2>1. \A b \in Actor : Alone(b) => Alone(b)'
    BY <1>2, <1>3, Actors DEF Alone
  <2> QED BY <1>1, <1>2, <1>3, <2>1 DEF Safe, Called
<1>8. Locked'
  BY <1>1, <1>2, <1>3 DEF Safe, Locked
<1>9. FromCallback'
  <2>1. \A th \in Thread : call[th] # "idle" => body[th] \in Timer
    BY DEF TypeInv, Placed, Runs
  <2> QED BY <1>2, <1>3, <1>4, <1>6, <2>1, Actors DEF Safe, FromCallback, Alone
<1>10. Listed' /\ Tabled' = Tabled
  <2>1. \A i \in Id : table[i] # Null => table[i] \in Timer
    BY DEF TypeInv, TypeOK
  <2>2. \A u \in Timer : timer'[u].state = "none" => timer[u].state = "none"
    BY <1>1, <1>6
  <2> QED BY <1>2, <1>6, <2>1, <2>2 DEF Safe, Listed, Tabled
<1>11. Apart'
  BY <1>3, <1>5 DEF Safe, Apart
<1>12. Setting'
  BY <1>2, <1>3, <1>5, <1>6, Actors DEF Safe, Setting, SetBy, Sets, Holds
<1>13. Killing'
  <2>1. ASSUME NEW b \in Actor, b # a, call'[b] \in Kills
        PROVE  /\ Exists(Mine(b))' /\ ~timer'[Mine(b)'].oneShot
               /\ call'[b] # "exit" => timer'[Mine(b)'].state = "exit"
               /\ call'[b] \in {"join", "free"} => timer'[Mine(b)'].handle = Null
               /\ IF arg'[b].all THEN Mine(b)' \in arg'[b].todo
                  ELSE /\ Mine(b)' \notin Tabled' /\ timer'[Mine(b)'].id = arg'[b].id
                       /\ b \in Worker => table'[arg'[b].id] = Null
    BY <1>2, <1>3, <1>5, <1>6, <1>10, <2>1 DEF Safe, Killing, Exists, Holds
  <2>2. Exists(Mine(a))'
    BY <1>1, <1>3 DEF Exists
  <2> QED BY <1>1, <1>3, <1>4, <1>6, <2>1, <2>2 DEF Killing
<1>14. Clearing'
  <2>1. \A b \in Actor : arg'[b].todo = arg[b].todo
    BY <1>1, <1>3
  <2> QED BY <1>2, <1>6, <1>10, <2>1, TabledType DEF Safe, Clearing
<1>s. Storing' /\ \A b \in Actor, th \in Thread : Stores(b, th) <=> Stores(b, th)'
  BY <1>2, <1>3, StorersStay
<1>15. Running'
  <2>1. \A th \in Thread : Orphan(th) /\ at[th] \in Runs => Orphan(th)'
    BY <1>2, <1>3, <1>4, <1>6, <1>10 DEF Orphan, State, TypeInv, Placed
  <2>2. \A th \in Thread : (Awaited(th) => Awaited(th)') /\ (Killed(th) => Killed(th)')
    BY <1>2, <1>3 DEF Awaited, Killed, Kills
  <2>3. \A th \in Thread : at[th] \in Runs => body[th] \in Timer
    BY DEF TypeInv, Placed
  <2> QED BY <1>s, <1>2, <1>3, <1>4, <1>6, <1>10, <2>1, <2>2, <2>3 DEF Safe, Running
<1>16. Found'
  BY <1>2, <1>3, <1>6, <1>10 DEF Safe, Found, Deletes
<1>17. Over'
  BY <1>2, <1>3 DEF Safe, Over, Destroys, Stored, Sets
<1> QED BY <1>s, <1>7, <1>8, <1>9, <1>10, <1>11, <1>12, <1>13, <1>14, <1>15, <1>16, <1>17 DEF Safe

LEMMA FreeAllSafe ==
  ASSUME TypeInv, Tame, Safe, NEW a \in Actor, FreeAll(a)
  PROVE  Safe'
<1>1. /\ OnlyCall(a, "idle") /\ \A i \in Id : table'[i] = Null
      /\ \A t \in Tabled : timer'[t].state = "freed"
      /\ \A t \in Timer : /\ t \notin Tabled => timer'[t] = timer[t]
                          /\ timer'[t].id = timer[t].id /\ timer'[t].oneShot = timer[t].oneShot
                          /\ timer'[t].handle = timer[t].handle
  BY FreeAllType
<1>2. /\ call[a] = "exitall" /\ arg[a].todo = {} /\ \A t \in Tabled : timer[t].handle = Null
      /\ UNCHANGED <<use, at, body, arg>>
  BY DEF FreeAll, HasThread
<1>3. arg[a].all /\ Alone(a) /\ tableLock = a
  BY <1>2 DEF Safe, Called, Locked
<1>4. /\ call'[a] = "idle" /\ ~Holds(a) /\ ~Holds(a)'
      /\ \A b \in Actor : b # a => call'[b] = call[b]
  BY <1>1, <1>2 DEF OnlyCall, Holds, Sets, Kills
<1>5. tableLock' = Null
  BY <1>3 DEF FreeAll, Unlock
<1>6. \A b \in Actor : /\ Holds(b)' <=> Holds(b)
                       /\ Mine(b)' = Mine(b)
                       /\ Holds(b) => b # a /\ Mine(b) \in Timer \ Tabled
  <2>1. ASSUME NEW b \in Actor, Holds(b), Mine(b) \in Tabled PROVE FALSE
    <3>1. b # a /\ call[b] # "idle"
      BY <1>4, <2>1 DEF Holds, Sets, Kills
    <3>2. b \in Thread
      BY <1>3, <3>1, Actors DEF Alone
    <3>3. CASE call[b] \in Sets
      <4>1. timer[Mine(b)].oneShot
        BY <3>1, <3>2, <3>3 DEF Safe, Setting, SetBy, FromCallback, Sets
      <4> QED BY <4>1, <2>1 DEF Safe, Listed, Tabled
    <3>4. CASE call[b] \in Kills
      BY <2>1, <3>1, <3>2, <3>4, Actors DEF Safe, Killing, Called, Alone
    <3> QED BY <2>1, <3>3, <3>4 DEF Holds
  <2> QED BY <2>1, <1>2, <1>4 DEF Holds, Mine, TypeInv, Placed
<1>7. Tabled' = {}
  BY <1>1 DEF Tabled
<1>8. \A t \in Timer : (Exists(t)' <=> Exists(t) /\ t \notin Tabled)
  BY <1>1 DEF Exists
<1>9. \A th \in Thread : at[th] \in Runs => body[th] \in Timer \ Tabled
  <2> SUFFICES ASSUME NEW th \in Thread, at[th] \in Runs, body[th] \in Tabled PROVE FALSE
    BY DEF TypeInv, Placed
  <2>1. ~timer[body[th]].oneShot
    BY DEF Safe, Listed, Tabled
  <2>2. Awaited(th)
    BY <1>2, <2>1, Numbers DEF Safe, Running, Orphan
  <2> QED BY <1>6, <2>2 DEF Awaited, Holds, Sets, Kills
<1>10. Called'
  <2>1. \A b \in Actor : Alone(b) => Alone(b)'
    BY <1>2, <1>4, Actors DEF Alone
  <2> QED BY <1>2, <1>4, <2>1 DEF Safe, Called
<1>11. Locked'
  BY <1>2, <1>3, <1>4, <1>5, Numbers DEF Safe, Locked
<1>12. FromCallback'
  <2>1. \A th \in Thread : call[th] # "idle" => body[th] \in Timer
    BY DEF TypeInv, Placed, Runs
  <2> QED BY <1>1, <1>2, <1>4, <1>6, <2>1, Actors DEF Safe, FromCallback
<1>13. Listed'
  <2>1. \A u \in Timer : timer'[u].state = "none" => timer[u].state = "none"
    BY <1>1
  <2> QED BY <1>1, <1>2, <2>1 DEF Safe, Listed
<1>14. Apart'
  BY <1>6 DEF Safe, Apart
<1>15. Setting'
  <2>1. ASSUME NEW b \in Actor, call'[b] \in Sets PROVE SetBy(b)'
    <3>1. /\ b # a /\ call[b] \in Sets /\ call'[b] = call[b] /\ b \in Thread
          /\ Mine(b)' = Mine(b) /\ Mine(b) \in Timer \ Tabled
      BY <2>1, <1>3, <1>4, <1>6, Actors DEF Alone, Holds, Sets
    <3>2. SetBy(b) /\ arg[b].oneShot
      BY <3>1 DEF Safe, Setting, FromCallback, Sets
    <3> QED BY <3>1, <3>2, <1>1, <1>2, <1>8 DEF SetBy
  <2>2. \A w \in Worker : call'[w] = "idle"
    BY <1>3, <1>4, Actors DEF Alone
  <2> QED BY <2>1, <2>2 DEF Setting
<1>16. Killing'
  <2>1. ASSUME NEW b \in Actor, call'[b] \in Kills
        PROVE  /\ b # a /\ call[b] = call'[b] /\ Mine(b)' = Mine(b) /\ b \in Thread
               /\ Mine(b) \in Timer \ Tabled /\ timer'[Mine(b)] = timer[Mine(b)] /\ ~arg[b].all
    BY <2>1, <1>1, <1>3, <1>4, <1>6, Actors DEF Alone, Holds, Kills, Safe, Called
  <2> QED BY <2>1, <1>2, <1>7, Actors DEF Safe, Killing, Exists
<1>17. Clearing'
  BY <1>5, Numbers DEF Clearing
<1>s. Storing' /\ \A b \in Actor, th \in Thread : Stores(b, th) <=> Stores(b, th)'
  BY <1>2, <1>4, StorersStay
<1>18. Running'
  <2>1. \A th \in Thread : Orphan(th) /\ at[th] \in Runs => Orphan(th)'
    BY <1>1, <1>2, <1>6, <1>7, <1>9 DEF Orphan, State
  <2>2. \A th \in Thread : (Awaited(th) => Awaited(th)') /\ (Killed(th) => Killed(th)')
    <3>1. \A b \in Actor : Holds(b) => call'[b] = call[b]
      BY <1>4, <1>6
    <3> QED BY <3>1, <1>2, <1>6 DEF Awaited, Killed, Holds, Sets, Kills
  <2> QED BY <1>s, <1>1, <1>2, <1>6, <1>8, <1>9, <2>1, <2>2 DEF Safe, Running
<1>19. Found'
  <2> SUFFICES ASSUME Deletes, NEW u \in Timer, Exists(u)'
               PROVE  \/ \E b \in Actor : Holds(b)' /\ Mine(b)' = u
                      \/ \E th \in Thread : at'[th] \in Runs /\ body'[th] = u /\ timer'[u].oneShot
    BY <1>2 DEF Found, Deletes
  <2> QED BY <1>1, <1>2, <1>6, <1>8 DEF Safe, Found
<1>20. Over'
  <2> SUFFICES ASSUME Destroys
               PROVE  /\ \A th \in Thread : at[th] \in {"none", "done"}
                      /\ \A b \in Actor : call'[b] = "idle"
    BY <1>2 DEF Over, Destroys, Stored, Sets
  <2>1. \A th \in Thread : call[th] = "idle"
    <3> SUFFICES ASSUME NEW th \in Thread, call[th] # "idle" PROVE FALSE
      OBVIOUS
    <3>1. arg[th].oneShot
      BY DEF Safe, FromCallback, Destroys
    <3>2. ~arg[th].all
      BY Actors DEF Safe, Called, Alone
    <3> QED BY <3>1, <3>2, Actors DEF Safe, Called, Destroys
  <2>2. \A b \in Actor : call'[b] = "idle"
    BY <2>1, <1>3, <1>4, Actors DEF Alone
  <2>3. ASSUME NEW th \in Thread, at[th] \notin {"none", "done"} PROVE FALSE
    <3>1. at[th] \in Runs
      BY <2>3 DEF TypeInv, TypeOK, Runs
    <3>2. ~timer[body[th]].oneShot
      BY <3>1, <1>9 DEF Safe, Listed, Destroys
    <3>3. Killed(th)
      BY <3>1, <3>2, <1>9 DEF Safe, Running, Orphan, Destroys
    <3>4. PICK b \in Actor : call[b] \in Kills
      BY <3>3 DEF Killed
    <3>5. b # a /\ call[b] # "idle"
      BY <3>4, <1>4 DEF Holds, Kills
    <3> QED BY <3>5, <2>1, <1>3, Actors DEF Alone
  <2> QED BY <2>2, <2>3
<1> QED BY <1>s, <1>10, <1>11, <1>12, <1>13, <1>14, <1>15, <1>16, <1>17, <1>18, <1>19, <1>20 DEF Safe

\* While KillAll has the lock no timer gets another thread.
LEMMA KillAgainSafe ==
  ASSUME TypeInv, Tame, Safe, NEW a \in Actor, KillAgain(a)
  PROVE  FALSE
<1>1. arg[a].all /\ call[a] = "exitall"
  BY DEF KillAgain, Safe, Called
<1>2. tableLock = a /\ arg[a].todo = {}
  BY <1>1 DEF KillAgain, Safe, Locked
<1>3. \A t \in Tabled : ~HasThread(t)
  BY <1>2 DEF Safe, Clearing, HasThread
<1> QED BY <1>3 DEF KillAgain

\* A timer's thread goes on with its timer.
LEMMA ThreadGoesOnSafe ==
  ASSUME TypeInv, Tame, Safe, NEW th \in Thread, NEW place \in Runs,
         at[th] \in Runs, call[th] = "idle", body[th] \in Timer, OnlyAt(th, place),
         OnlyTimer(body[th]), timer'[body[th]].handle = timer[body[th]].handle,
         timer'[body[th]].state \notin {"none", "freed"},
         ~timer[body[th]].oneShot => timer' = timer,
         Orphan(th) => place \in {"loop", "leave"},
         use.prompt /\ place = "callback" => ~Unstored(th),
         timer[body[th]].oneShot => ~Unstored(th),
         UNCHANGED <<use, table, tableLock, body, call, arg, cleared>>
  PROVE  Safe'
<1>1. at'[th] = place /\ \A u \in Thread : u # th => at'[u] = at[u]
  BY DEF OnlyAt
<1>2. \A b \in Actor : (Holds(b)' <=> Holds(b)) /\ Mine(b)' = Mine(b)
  BY DEF Holds, Mine
<1>3. \A t \in Timer : /\ t # body[th] \/ ~timer[t].oneShot => timer'[t] = timer[t]
                       /\ timer'[t].id = timer[t].id /\ timer'[t].oneShot = timer[t].oneShot
                       /\ timer'[t].handle = timer[t].handle
                       /\ (Exists(t) <=> Exists(t)')
                       /\ t = body[th] => Exists(t)
  BY DEF OnlyTimer, Exists, Safe, Running
<1>4. \A u \in Thread : at'[u] \in Runs <=> at[u] \in Runs
  BY <1>1
<1>5. Called' /\ Locked'
  BY DEF Safe, Called, Locked, Alone
<1>6. FromCallback'
  <2>1. \A u \in Thread : call[u] # "idle" => body[u] \in Timer
    BY DEF TypeInv, Placed, Runs
  <2> QED BY <1>2, <1>3, <2>1, Actors DEF Safe, FromCallback
<1>7. Listed' /\ Tabled' = Tabled
  <2>1. \A i \in Id : table[i] # Null => table[i] \in Timer
    BY DEF TypeInv, TypeOK
  <2>2. \A u \in Timer : timer'[u].state = "none" => timer[u].state = "none"
    BY <1>3 DEF Exists
  <2> QED BY <1>3, <2>1, <2>2 DEF Safe, Listed, Tabled
<1>8. Apart'
  BY <1>2 DEF Safe, Apart
<1>9. \A b \in Actor : Holds(b) => Mine(b) \in Timer
  BY DEF TypeInv, Placed
<1>10. Setting'
  <2>1. ASSUME NEW b \in Actor, call[b] \in Sets, arg[b].oneShot
        PROVE  Mine(b) # body[th]
    <3>1. timer[Mine(b)].oneShot /\ Holds(b)
      BY <2>1 DEF Safe, Setting, SetBy, Holds
    <3> QED BY <3>1 DEF Safe, Running, Stores, Unstored
  <2> QED BY <1>2, <1>3, <1>9, <2>1 DEF Safe, Setting, SetBy, Holds
<1>s. Storing'
  <2>1. ASSUME NEW b \in Actor, NEW u \in Thread, Stores(b, u)
        PROVE  /\ use.prompt => at'[u] # "callback"
               /\ at'[u] # "none"
               /\ arg[b].oneShot => at'[u] = "loop"
    <3>1. CASE u # th
      BY <1>1, <2>1, <3>1 DEF Safe, Storing
    <3>2. CASE u = th
      <4>1. Unstored(th) /\ SetBy(b) /\ body[th] = Mine(b)
        BY <2>1, <3>2 DEF Stores, Unstored, Safe, Setting, Storing, Sets
      <4>2. ~arg[b].oneShot
        BY <4>1 DEF SetBy
      <4> QED BY <1>1, <3>2, <4>1, <4>2 DEF Runs
    <3> QED BY <3>1, <3>2
  <2> QED BY <1>2, <2>1 DEF Safe, Storing, Stores
<1>11. Killing'
  BY <1>2, <1>3, <1>7, <1>9 DEF Safe, Killing, Holds
<1>12. Clearing'
  BY <1>3, <1>7, TabledType DEF Safe, Clearing
<1>13. Running'
  <2>1. \A u \in Thread : at[u] \in Runs => body[u] \in Timer
    BY DEF TypeInv, Placed
  <2>2. \A u \in Thread : /\ at[u] \in Runs /\ Orphan(u) /\ ~timer[body[u]].oneShot => Orphan(u)'
                          /\ Awaited(u) => Awaited(u)'
                          /\ Killed(u) => Killed(u)'
    <3>1. ASSUME NEW u \in Thread, at[u] \in Runs, Orphan(u), ~timer[body[u]].oneShot
          PROVE  Orphan(u)'
      BY <1>1, <1>2, <1>3, <1>7, <2>1, <3>1 DEF Orphan, State
    <3> QED BY <1>2, <3>1 DEF Awaited, Killed
  <2> QED BY <1>2, <1>3, <1>4, <1>7, <2>1, <2>2 DEF Safe, Running, Stores
<1>14. Found'
  BY <1>2, <1>3, <1>4, <1>7 DEF Safe, Found, Deletes
<1>15. Over'
  BY DEF Safe, Over, Destroys, Stored, Runs
<1> QED BY <1>s, <1>5, <1>6, <1>7, <1>8, <1>10, <1>11, <1>12, <1>13, <1>14, <1>15 DEF Safe

LEMMA LookSafe ==
  ASSUME TypeInv, Tame, Safe, NEW th \in Thread, Look(th)
  PROVE  Safe'
<1>1. /\ at[th] = "loop" /\ timer' = timer
      /\ UNCHANGED <<use, table, tableLock, body, call, arg, cleared>>
  BY DEF Look
<1>2. body[th] \in Timer /\ call[th] = "idle" /\ at[th] \in Runs
  BY <1>1 DEF TypeInv, Placed, Runs, Actor
<1>3. OnlyTimer(body[th]) /\ timer'[body[th]].state \notin {"none", "freed"}
  BY <1>1, <1>2 DEF OnlyTimer, TypeInv, TypeOK, Safe, Running, Exists
<1>4. PICK place \in Runs : OnlyAt(th, place) /\ (Orphan(th) => place \in {"loop", "leave"})
  BY LookType DEF Orphan, Runs
<1>5. place # "callback"
  BY <1>4, LookType DEF OnlyAt
<1>6. timer[body[th]].oneShot => ~Unstored(th)
  <2> SUFFICES ASSUME timer[body[th]].oneShot, NEW b \in Actor, Stores(b, th) PROVE FALSE
    BY DEF Unstored, Stores
  <2>1. SetBy(b) /\ body[th] = Mine(b) /\ call[b] = "store"
    BY DEF Stores, Safe, Setting, Storing, Sets
  <2>2. timer[body[th]].state = "pause"
    BY <2>1 DEF SetBy
  <2> QED BY <2>2 DEF Look, State
<1> QED BY <1>1, <1>2, <1>3, <1>4, <1>5, <1>6, ThreadGoesOnSafe

\* The thread of a one-shot timer leaves its loop with its handle stored.
LEMMA LoopsUnstored ==
  ASSUME TypeInv, Safe, NEW th \in Thread, at[th] # "loop", timer[body[th]].oneShot
  PROVE  ~Unstored(th)
<1> SUFFICES ASSUME NEW b \in Actor, Stores(b, th) PROVE FALSE
  BY DEF Unstored, Stores
<1>1. SetBy(b) /\ body[th] = Mine(b)
  BY DEF Stores, Safe, Setting, Storing, Sets
<1> QED BY <1>1 DEF SetBy, Safe, Storing

LEMMA FireSafe ==
  ASSUME TypeInv, Tame, Safe, NEW th \in Thread, Fire(th)
  PROVE  Safe'
<1>1. /\ at[th] = "fire" /\ timer' = timer /\ OnlyAt(th, "callback")
      /\ UNCHANGED <<use, table, tableLock, body, call, arg, cleared>>
  BY FireType DEF Fire
<1>2. body[th] \in Timer /\ call[th] = "idle" /\ at[th] \in Runs /\ "callback" \in Runs
  BY <1>1 DEF TypeInv, Placed, Runs, Actor
<1>3. OnlyTimer(body[th]) /\ timer'[body[th]].state \notin {"none", "freed"}
  BY <1>1, <1>2 DEF OnlyTimer, TypeInv, TypeOK, Safe, Running, Exists
<1>4. ~Orphan(th)
  BY <1>1 DEF Orphan
<1>5. /\ use.prompt => ~Unstored(th)
      /\ timer[body[th]].oneShot => ~Unstored(th)
  BY <1>1, LoopsUnstored DEF Fire
<1> QED BY <1>1, <1>2, <1>3, <1>4, <1>5, ThreadGoesOnSafe

LEMMA ReturnSafe ==
  ASSUME TypeInv, Tame, Safe, NEW th \in Thread, Return(th)
  PROVE  Safe'
<1>1. /\ at[th] \in {"callback", "return"} /\ call[th] = "idle" /\ body[th] \in Timer
      /\ OnlyAt(th, "loop")
      /\ UNCHANGED <<use, table, tableLock, body, call, arg, cleared>>
  BY ReturnType DEF Return
<1>2. at[th] \in Runs /\ "loop" \in Runs
  BY <1>1 DEF Runs
<1>3. /\ OnlyTimer(body[th]) /\ timer'[body[th]].handle = timer[body[th]].handle
      /\ timer'[body[th]].state \notin {"none", "freed"}
      /\ ~timer[body[th]].oneShot => timer' = timer
  <2>1. CASE timer[body[th]].oneShot
    BY <2>1, ReturnType
  <2>2. CASE ~timer[body[th]].oneShot
    BY <2>2, <1>1, <1>2, ReturnType DEF OnlyTimer, TypeInv, TypeOK, Safe, Running, Exists
  <2> QED BY <2>1, <2>2
<1>4. timer[body[th]].oneShot => ~Unstored(th)
  BY <1>1, LoopsUnstored
<1> QED BY <1>1, <1>2, <1>3, <1>4, ThreadGoesOnSafe

LEMMA LeaveSafe ==
  ASSUME TypeInv, Tame, Safe, NEW th \in Thread, Leave(th)
  PROVE  Safe'
<1>0. PICK t \in Timer : t = body[th]
  BY LeaveType
<1>1. /\ at[th] = "leave" /\ OnlyAt(th, "done")
      /\ UNCHANGED <<use, table, tableLock, body, call, arg, cleared>>
  BY LeaveType DEF Leave
<1>2. /\ at'[th] = "done" /\ at[th] \in Runs /\ Exists(t)
      /\ \A u \in Thread : u # th => at'[u] = at[u]
  BY <1>0, <1>1 DEF OnlyAt, Runs, Safe, Running
<1>3. /\ ~timer[t].oneShot => timer' = timer
      /\ timer[t].oneShot => /\ OnlyTimer(t) /\ timer'[t].state = "freed"
                             /\ timer'[t].handle = timer[t].handle
  BY <1>0, LeaveType
<1>4. \A b \in Actor : /\ (Holds(b)' <=> Holds(b)) /\ Mine(b)' = Mine(b)
                       /\ Holds(b) => Mine(b) \in Timer
                       /\ Holds(b) /\ timer[t].oneShot => Mine(b) # t
  <2>1. timer[t].oneShot => ~Unstored(th)
    BY <1>0, <1>1, LoopsUnstored
  <2> QED BY <1>0, <1>1, <1>2, <2>1 DEF Holds, Mine, TypeInv, Placed, Safe, Running, Stores, Unstored
<1>5. \A u \in Timer : /\ u # t \/ ~timer[u].oneShot => timer'[u] = timer[u]
                                                        /\ (Exists(u) <=> Exists(u)')
                       /\ timer'[u].id = timer[u].id /\ timer'[u].oneShot = timer[u].oneShot
                       /\ timer'[u].handle = timer[u].handle
                       /\ timer'[u].state = "none" => timer[u].state = "none"
                       /\ u = t /\ timer[u].oneShot => ~Exists(u)'
  BY <1>3 DEF OnlyTimer, Exists
<1>6. \A u \in Thread : /\ at'[u] \in Runs <=> u # th /\ at[u] \in Runs
                        /\ at'[u] \in Runs => body[u] # t /\ body[u] \in Timer
  BY <1>0, <1>2 DEF Runs, Safe, Running, TypeInv, Placed
<1>7. Called' /\ Locked'
  BY <1>1 DEF Safe, Called, Locked, Alone
<1>8. FromCallback'
  <2>1. \A u \in Thread : call[u] # "idle" => body[u] \in Timer
    BY DEF TypeInv, Placed, Runs
  <2> QED BY <1>1, <1>4, <1>5, <2>1, Actors DEF Safe, FromCallback
<1>9. Listed' /\ Tabled' = Tabled
  <2>1. \A i \in Id : table[i] # Null => table[i] \in Timer
    BY DEF TypeInv, TypeOK
  <2> QED BY <1>1, <1>5, <2>1 DEF Safe, Listed, Tabled
<1>10. Apart'
  BY <1>4 DEF Safe, Apart
<1>11. Setting'
  BY <1>1, <1>4, <1>5 DEF Safe, Setting, SetBy, Holds
<1>s. Storing'
  <2>1. ASSUME NEW b \in Actor, Stores(b, th) PROVE ~arg[b].oneShot
    BY <1>1, <2>1 DEF Safe, Storing
  <2> QED BY <1>1, <1>2, <1>4, <2>1 DEF Safe, Storing, Stores
<1>12. Killing'
  BY <1>1, <1>4, <1>5, <1>9 DEF Safe, Killing, Holds
<1>13. Clearing'
  BY <1>1, <1>5, <1>9, TabledType DEF Safe, Clearing
<1>14. Running'
  <2>1. \A u \in Thread : at'[u] \in Runs =>
          /\ Orphan(u) => Orphan(u)'
          /\ Awaited(u) => Awaited(u)'
          /\ Killed(u) => Killed(u)'
    <3>1. ASSUME NEW u \in Thread, at'[u] \in Runs, Orphan(u)
          PROVE  Orphan(u)'
      BY <1>1, <1>2, <1>4, <1>5, <1>6, <1>9, <3>1 DEF Orphan, State
    <3> QED BY <1>1, <1>4, <3>1 DEF Awaited, Killed
  <2> QED BY <1>1, <1>4, <1>5, <1>6, <1>9, <2>1 DEF Safe, Running, Stores
<1>15. Found'
  <2> SUFFICES ASSUME Deletes, NEW u \in Timer, Exists(u)'
               PROVE  \/ u \in Tabled'
                      \/ \E b \in Actor : Holds(b)' /\ Mine(b)' = u
                      \/ \E v \in Thread : at'[v] \in Runs /\ body'[v] = u /\ timer'[u].oneShot
    BY <1>1 DEF Found, Deletes
  <2>1. u # t \/ ~timer[u].oneShot
    BY <1>5
  <2>2. Exists(u)
    BY <2>1, <1>5
  <2> QED BY <2>1, <2>2, <1>0, <1>1, <1>4, <1>5, <1>6, <1>9 DEF Safe, Found
<1>16. Over'
  BY <1>1, <1>2 DEF Safe, Over, Destroys, Stored
<1> QED BY <1>s, <1>7, <1>8, <1>9, <1>10, <1>11, <1>12, <1>13, <1>14, <1>15, <1>16 DEF Safe

-----------------------------------------------------------------------------
(* The theorems *)

LEMMA InitSafe == Init => IInv
<1> SUFFICES ASSUME Init PROVE TypeInv /\ Safe
  BY DEF IInv
<1>1. /\ \A i \in Id : table[i] = Null
      /\ \A t \in Timer : timer[t].state = "none" /\ ~timer[t].oneShot /\ timer[t].handle = Null
      /\ \A th \in Thread : at[th] = "none"
      /\ \A a \in Actor : call[a] = "idle"
      /\ tableLock = Null /\ cleared = FALSE
  BY DEF Init
<1>2. /\ \A a \in Actor : ~Holds(a) /\ tableLock # a
      /\ \A t \in Timer : ~Exists(t)
      /\ \A th \in Thread : at[th] \notin Runs /\ call[th] = "idle"
  BY <1>1, Numbers DEF Holds, Sets, Kills, Exists, Runs, Actor
<1>3. Called /\ Locked /\ FromCallback /\ Listed /\ Apart /\ Clearing /\ Found /\ Over
  BY <1>1, <1>2 DEF Called, Locked, FromCallback, Listed, Apart, Clearing, Found, Over
<1>4. Setting /\ Storing /\ Killing /\ Running
  BY <1>1, <1>2 DEF Setting, Storing, Stores, Killing, Running, Holds, Actor
<1> QED BY <1>3, <1>4, TypeInit DEF Safe

LEMMA NextSafe == IInv /\ [Next]_vars => IInv'
<1> SUFFICES ASSUME IInv, [Next]_vars, Tame' PROVE Safe'
  BY TypeNext DEF IInv
<1>1. use' = use
  <2>1. ASSUME NEW a \in Actor, Call(a) PROVE use' = use
    BY <2>1 DEF Call, CallSetTimer, CallKillTimer, CallKillAll, Calls
  <2>2. ASSUME NEW a \in Actor, Step(a) PROVE use' = use
    BY <2>2 DEF Step, Find, Create, PauseTimer, RunTimer, CheckThread, Spawn, Store, SpawnFails, Erase,
       Exit, Take, Join, JoinSelf, Free, LockAll, ExitNext, FreeAll, KillAgain
  <2>3. ASSUME NEW th \in Thread, Loop(th) PROVE use' = use
    BY <2>3 DEF Loop, Look, Fire, Return, Leave
  <2>4. CASE UNCHANGED vars
    BY <2>4 DEF vars
  <2> QED BY <2>1, <2>2, <2>3, <2>4 DEF Next
<1>2. TypeInv /\ Tame /\ Safe
  BY <1>1 DEF IInv, Tame, Unraced, Stored
<1>3. ASSUME NEW a \in Actor, Call(a) PROVE Safe'
  BY <1>2, <1>3, CallSafe
<1>4. ASSUME NEW a \in Actor, Step(a) PROVE Safe'
  BY <1>2, <1>4, FindSafe, CreateSafe, PauseTimerSafe, RunTimerSafe, CheckThreadSafe, SpawnSafe,
     StoreSafe, SpawnFailsSafe, EraseSafe, ExitSafe, TakeSafe, JoinSafe, JoinSelfSafe, FreeSafe,
     LockAllSafe, ExitNextSafe, FreeAllSafe, KillAgainSafe DEF Step
<1>5. ASSUME NEW th \in Thread, Loop(th) PROVE Safe'
  BY <1>2, <1>5, LookSafe, FireSafe, ReturnSafe, LeaveSafe DEF Loop
<1>6. CASE UNCHANGED vars
  <2>1. Safe <=> Safe'
    BY <1>6 DEF vars, Safe, Called, Alone, Locked, FromCallback, Listed, Apart, Setting, SetBy,
       Storing, Stores, Killing, Clearing, Running, Orphan, Awaited, Killed, Found, Over, Deletes, Destroys, Stored,
       Exists, Holds, Mine, State, Tabled
  <2> QED BY <1>2, <2>1
<1> QED BY <1>3, <1>4, <1>5, <1>6 DEF Next

LEMMA SafeAlways == Spec => []IInv
<1> QED BY InitSafe, NextSafe, PTL DEF Spec

\* When the callbacks set no periodic timer, and kill theirs only where nobody
\* sets it meanwhile and its handle is stored before its thread first calls
\* back, then for any workers, ids, timers and calls no TimerInfo is used after
\* its deletion or lost (SetTimer, KillTimer, KillAll, TimerInfo::do_timer).  The
\* new thread runs before its handle is stored; where callbacks leave the
\* timers alone it may also call back before.
THEOREM TimersDeletedInTime == Spec => []("set" \notin use.callbackOps => DeletedInTime)
<1>1. ASSUME IInv, "set" \notin use.callbackOps PROVE DeletedInTime
  <2> SUFFICES ASSUME Unraced PROVE NoUseAfterFree /\ NoLeak
    BY DEF DeletedInTime
  <2>1. Safe /\ TypeInv
    BY <1>1 DEF IInv, Tame
  <2>2. NoUseAfterFree
    BY <2>1 DEF Safe, Running, Setting, SetBy, Killing, Exists, NoUseAfterFree, State
  <2>3. NoLeak
    <3> SUFFICES ASSUME Resting, Deletes, NEW t \in Timer, Exists(t) PROVE t \in Tabled
      BY DEF NoLeak, Exists
    <3>1. \A a \in Actor : ~Holds(a)
      BY DEF Resting, Holds, Sets, Kills
    <3>2. \A th \in Thread : at[th] \in Runs => body[th] \in Tabled
      BY DEF Resting, Runs
    <3> QED BY <2>1, <3>1, <3>2 DEF Safe, Found
  <2> QED BY <2>2, <2>3
<1> QED BY <1>1, SafeAlways, PTL

\* When the callbacks set and kill no periodic timer and there are no one-shot
\* timers, no timer's thread outlives KillAllTimer (CModuleImpl::KillAllTimer).
THEOREM TimersKillAllEnds == Spec => []("set" \notin use.callbackOps => KillAllEndsAll)
<1>1. ASSUME IInv, "set" \notin use.callbackOps PROVE KillAllEndsAll
  <2> SUFFICES ASSUME cleared, Destroys PROVE \A th \in Thread : at[th] \in {"none", "done"}
    BY DEF KillAllEndsAll
  <2>1. Tame
    BY <1>1 DEF Tame, Unraced, Destroys, Stored
  <2> QED BY <1>1, <2>1 DEF IInv, Safe, Over
<1> QED BY <1>1, SafeAlways, PTL
=============================================================================
