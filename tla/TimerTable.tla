----------------------------- MODULE TimerTable -----------------------------
(***************************************************************************)
(* The timers of a module (TimerInfo.cpp): a table of periodic timers, one *)
(* thread per timer, and one-shot timers that are in no table and delete   *)
(* themselves.                                                             *)
(*                                                                         *)
(* SetTimer, KillTimer and KillAll are split at every point where another  *)
(* thread can come between: the table's lock is held for one look-up, the  *)
(* timer's state and thread handle have no lock, and a new thread runs     *)
(* before its handle is stored.  A handler whose IsThreadSafe is true is   *)
(* called with its mutex held, and may itself call the table.  Elapsed     *)
(* time is not modelled: a running timer may fire whenever its thread      *)
(* looks, but for a prompt use (below).  The thread library is external:   *)
(* join waits for the end of a thread and throws when the thread is the    *)
(* caller's; a thread whose last handle is overwritten runs on.            *)
(***************************************************************************)
EXTENDS Integers, FiniteSets

CONSTANTS
  Worker,        \* the threads of the module that call the table
  Id,            \* timer ids (nIDEvent)
  MaxTimers,     \* bound: TimerInfo objects created, and their threads
  MaxOps,        \* bound: calls of one worker
  MaxCallbacks,  \* bound: calls made from the callbacks of one timer thread
  Owner,         \* Owner[i]: the one worker that sets and kills timer i
  Uses           \* the ways a module uses its timers

Op     == {"set", "oneshot", "kill", "killall"}
Timer  == 1 .. MaxTimers
Thread == 1 .. MaxTimers
Null   == 0
Actor  == Worker \cup Thread

\* One way of use.
\*   workerOps     calls the workers make
\*   callbackOps   calls OnTimeout makes
\*   resets        workers also set timers that are in the table
\*   oneShots      the ids used for one-shot timers only
\*   ops           bound: calls of each worker
\*   timers        bound: TimerInfo objects created
\*   safeHandler   IsThreadSafe of the handler all timers share
\*   spawnMayFail  creating a thread may throw
\*   prompt        SetTimer stores the handle of a thread it created before
\*                 that thread first calls back (its elapse is not over yet)
Use == [workerOps : SUBSET Op, callbackOps : SUBSET Op, resets : BOOLEAN,
        oneShots : SUBSET Id, ops : [Worker -> 0 .. MaxOps], timers : Timer,
        safeHandler : BOOLEAN, spawnMayFail : BOOLEAN, prompt : BOOLEAN]

ASSUME ConstAssumption ==
  /\ MaxTimers \in Nat \ {0} /\ {MaxOps, MaxCallbacks} \subseteq Nat
  /\ Worker \cap Thread = {} /\ Null \notin Worker /\ Id # {}
  /\ Owner \in [Id -> Worker]
  /\ Uses \subseteq Use

VARIABLES
  use,           \* how the module uses its timers, in this behaviour
  table,         \* m_mapTimerInfo
  tableLock,     \* the holder of its mutex across steps (KillAll), or Null
  timer,         \* the TimerInfo objects: [state, id, oneShot, handle]
  at,            \* where a timer's thread is in do_timer
  body,          \* the TimerInfo a thread runs do_timer of
  call,          \* where an actor is in SetTimer, KillTimer or KillAll
  arg,           \* what it works on: [id, oneShot, timer, thread, all, todo]
  handlerLock,   \* the holder of the handler's mutex, or Null
  ops,           \* calls made so far
  cleared        \* KillAll returned to a worker and no timer was set since

vars == <<use, table, tableLock, timer, at, body, call, arg, handlerLock, ops, cleared>>

NoArg == [id |-> CHOOSE i \in Id : TRUE, oneShot |-> FALSE, timer |-> Null,
          thread |-> Null, all |-> FALSE, todo |-> {}]

Init ==
  /\ use \in Uses
  /\ table = [i \in Id |-> Null] /\ tableLock = Null
  /\ timer = [t \in Timer |-> [state |-> "none", id |-> NoArg.id, oneShot |-> FALSE, handle |-> Null]]
  /\ at = [t \in Thread |-> "none"] /\ body = [t \in Thread |-> Null]
  /\ call = [a \in Actor |-> "idle"] /\ arg = [a \in Actor |-> NoArg]
  /\ handlerLock = Null
  /\ ops = [a \in Actor |-> 0]
  /\ cleared = FALSE

Unlocked  == tableLock = Null
Unused    == {t \in 1 .. use.timers : timer[t].state = "none"}
NewTimer  == CHOOSE t \in Unused : TRUE
Mine(a)   == arg[a].timer
Goto(a, step) == call' = [call EXCEPT ![a] = step]

-----------------------------------------------------------------------------
(* Who calls: workers on the timers they own, KillAll only while the other *)
(* workers make no call (a module is being freed), handlers on their timer. *)

Calls(a, op, i) ==
  /\ call[a] = "idle"
  /\ op # "killall" => (op = "oneshot" <=> i \in use.oneShots)
  /\ IF a \in Worker
     THEN /\ op \in use.workerOps /\ ops[a] < use.ops[a]
          /\ op # "killall" => Owner[i] = a
          /\ op = "set" => use.resets \/ table[i] = Null
          /\ \A w \in Worker : call[w] # "idle" => op # "killall" /\ ~arg[w].all
     ELSE /\ op \in use.callbackOps /\ ops[a] < MaxCallbacks
          /\ at[a] = "callback" /\ i = timer[body[a]].id
  /\ ops' = [ops EXCEPT ![a] = @ + 1]
  /\ UNCHANGED <<use, table, tableLock, timer, at, body, handlerLock>>

CallSetTimer(a, i, one) ==
  /\ Calls(a, IF one THEN "oneshot" ELSE "set", i)
  /\ arg' = [arg EXCEPT ![a] = [NoArg EXCEPT !.id = i, !.oneShot = one]]
  /\ Goto(a, IF one THEN "create" ELSE "find")
  /\ cleared' = FALSE

CallKillTimer(a, i) ==
  /\ Calls(a, "kill", i)
  /\ arg' = [arg EXCEPT ![a] = [NoArg EXCEPT !.id = i]]
  /\ Goto(a, "erase")
  /\ UNCHANGED cleared

CallKillAll(a) ==
  /\ \E i \in Id : Calls(a, "killall", i)
  /\ arg' = [arg EXCEPT ![a] = [NoArg EXCEPT !.all = TRUE]]
  /\ Goto(a, "lockall")
  /\ UNCHANGED cleared

-----------------------------------------------------------------------------
(* TimerTable::SetTimer and TimerInfo::RunTimer *)

Find(a) ==
  /\ call[a] = "find" /\ Unlocked
  /\ arg' = [arg EXCEPT ![a].timer = table[arg[a].id]]
  /\ Goto(a, IF table[arg[a].id] = Null THEN "create" ELSE "pause")
  /\ UNCHANGED <<use, table, tableLock, timer, at, body, handlerLock, ops, cleared>>

\* A one-shot timer enters no table; CLockMap::insert replaces an entry that
\* came in since the look-up.
Create(a) ==
  LET i == arg[a].id  one == arg[a].oneShot IN
  /\ call[a] = "create" /\ Unused # {}
  /\ one \/ Unlocked
  /\ timer' = [timer EXCEPT ![NewTimer].state = "init", ![NewTimer].id = i,
                            ![NewTimer].oneShot = one]
  /\ table' = IF one THEN table ELSE [table EXCEPT ![i] = NewTimer]
  /\ arg' = [arg EXCEPT ![a].timer = NewTimer]
  /\ Goto(a, "run")
  /\ UNCHANGED <<use, tableLock, at, body, handlerLock, ops, cleared>>

\* PauseTimer, then the new elapse, handler and parameter.
PauseTimer(a) ==
  /\ call[a] = "pause"
  /\ timer' = [timer EXCEPT ![Mine(a)].state = "pause"]
  /\ Goto(a, "run")
  /\ UNCHANGED <<use, table, tableLock, at, body, arg, handlerLock, ops, cleared>>

HasThread(t) == timer[t].handle # Null

RunTimer(a) ==
  /\ call[a] = "run"
  /\ timer' = [timer EXCEPT ![Mine(a)].state = IF arg[a].oneShot THEN "pause" ELSE "running"]
  /\ Goto(a, "check")
  /\ UNCHANGED <<use, table, tableLock, at, body, arg, handlerLock, ops, cleared>>

CheckThread(a) ==
  /\ call[a] = "check"
  /\ Goto(a, IF HasThread(Mine(a)) THEN "idle" ELSE "spawn")
  /\ UNCHANGED <<use, table, tableLock, timer, at, body, arg, handlerLock, ops, cleared>>

Ended(th) == at[th] = "done"

\* The new thread runs, and may call back, before its handle is stored.
Spawn(a) ==
  LET new == CHOOSE th \in Thread : at[th] = "none" IN
  /\ call[a] = "spawn" /\ \E th \in Thread : at[th] = "none"
  /\ at' = [at EXCEPT ![new] = "loop"]
  /\ body' = [body EXCEPT ![new] = Mine(a)]
  /\ arg' = [arg EXCEPT ![a].thread = new]
  /\ Goto(a, "store")
  /\ UNCHANGED <<use, table, tableLock, timer, handlerLock, ops, cleared>>

\* m_timerThread is assigned, whatever it holds by now; a one-shot timer has
\* waited paused for it.
Store(a) ==
  /\ call[a] = "store"
  /\ timer' = [timer EXCEPT ![Mine(a)].handle = arg[a].thread,
                            ![Mine(a)].state = IF arg[a].oneShot THEN "running" ELSE @]
  /\ Goto(a, "idle")
  /\ UNCHANGED <<use, table, tableLock, at, body, arg, handlerLock, ops, cleared>>

\* The exception is caught: the timer stays where it is, without a thread.
SpawnFails(a) ==
  /\ call[a] = "spawn" /\ use.spawnMayFail
  /\ timer' = [timer EXCEPT ![Mine(a)].state = "exit"]
  /\ Goto(a, "idle")
  /\ UNCHANGED <<use, table, tableLock, at, body, arg, handlerLock, ops, cleared>>

-----------------------------------------------------------------------------
(* TimerTable::KillTimer and TimerInfo::KillTimer *)

Erase(a) ==
  LET i == arg[a].id IN
  /\ call[a] = "erase" /\ Unlocked
  /\ arg' = [arg EXCEPT ![a].timer = table[i]]
  /\ table' = [table EXCEPT ![i] = Null]
  /\ Goto(a, IF table[i] = Null THEN "idle" ELSE "exit")
  /\ UNCHANGED <<use, tableLock, timer, at, body, handlerLock, ops, cleared>>

Exit(a) ==
  /\ call[a] = "exit"
  /\ timer' = [timer EXCEPT ![Mine(a)].state = "exit"]
  /\ Goto(a, "take")
  /\ UNCHANGED <<use, table, tableLock, at, body, arg, handlerLock, ops, cleared>>

Take(a) ==
  /\ call[a] = "take"
  /\ arg' = [arg EXCEPT ![a].thread = timer[Mine(a)].handle]
  /\ timer' = [timer EXCEPT ![Mine(a)].handle = Null]
  /\ Goto(a, "join")
  /\ UNCHANGED <<use, table, tableLock, at, body, handlerLock, ops, cleared>>

Joined(a) == arg[a].thread \in {Null} \cup {th \in Thread : Ended(th)}

\* Where an exception or a return leaves the table's lock.
Unlock(a) == tableLock' = IF tableLock = a THEN Null ELSE tableLock

\* Faulty variant: the thread is not waited for.
JoinAtOnce(a) ==
  /\ call[a] = "join"
  /\ Goto(a, IF arg[a].all THEN "exitall" ELSE "free")
  /\ arg' = [arg EXCEPT ![a].todo = @ \ {Mine(a)}]
  /\ UNCHANGED <<use, table, tableLock, timer, at, body, handlerLock, ops, cleared>>

Join(a) ==
  /\ call[a] = "join" /\ Joined(a)
  /\ Goto(a, IF arg[a].all THEN "exitall" ELSE "free")
  /\ arg' = [arg EXCEPT ![a].todo = @ \ {Mine(a)}]
  /\ UNCHANGED <<use, table, tableLock, timer, at, body, handlerLock, ops, cleared>>

\* join of the caller's own thread throws; doRunTimer catches.
JoinSelf(a) ==
  /\ call[a] = "join" /\ arg[a].thread = a
  /\ Goto(a, "idle")
  /\ at' = [at EXCEPT ![a] = "return"]
  /\ Unlock(a)
  /\ UNCHANGED <<use, table, timer, body, arg, handlerLock, ops, cleared>>

\* Faulty variant: the destructor does not kill once more.
FreeAtOnce(a) ==
  /\ call[a] = "free"
  /\ Goto(a, "idle") /\ timer' = [timer EXCEPT ![Mine(a)].state = "freed"]
  /\ UNCHANGED <<use, table, tableLock, at, body, arg, handlerLock, ops, cleared>>

\* delete: the destructor kills once more, in case a SetTimer of the callback
\* gave the timer another thread meanwhile.
Free(a) ==
  /\ call[a] = "free"
  /\ IF HasThread(Mine(a))
     THEN Goto(a, "exit") /\ UNCHANGED timer
     ELSE Goto(a, "idle") /\ timer' = [timer EXCEPT ![Mine(a)].state = "freed"]
  /\ UNCHANGED <<use, table, tableLock, at, body, arg, handlerLock, ops, cleared>>

-----------------------------------------------------------------------------
(* TimerTable::KillAll: the table is locked from the first join to the end *)

\* Faulty variant: ids without a timer are not passed over.
TabledOrNull == {table[i] : i \in Id}

Tabled == {table[i] : i \in Id} \ {Null}

LockAll(a) ==
  /\ call[a] = "lockall" /\ Unlocked
  /\ tableLock' = a
  /\ arg' = [arg EXCEPT ![a].todo = Tabled]
  /\ Goto(a, "exitall")
  /\ UNCHANGED <<use, table, timer, at, body, handlerLock, ops, cleared>>

ExitNext(a) ==
  /\ call[a] = "exitall"
  /\ \E t \in arg[a].todo : /\ arg' = [arg EXCEPT ![a].timer = t]
                            /\ timer' = [timer EXCEPT ![t].state = "exit"]
  /\ Goto(a, "take")
  /\ UNCHANGED <<use, table, tableLock, at, body, handlerLock, ops, cleared>>

\* clear(false, true): every TimerInfo of the table is deleted; a destructor
\* that finds a thread kills once more.
FreeAll(a) ==
  /\ call[a] = "exitall" /\ arg[a].todo = {}
  /\ \A t \in Tabled : ~HasThread(t)
  /\ timer' = [t \in Timer |-> IF t \in Tabled THEN [timer[t] EXCEPT !.state = "freed"]
                               ELSE timer[t]]
  /\ table' = [i \in Id |-> Null]
  /\ Unlock(a)
  /\ Goto(a, "idle")
  /\ cleared' = (a \in Worker)
  /\ UNCHANGED <<use, at, body, arg, handlerLock, ops>>

KillAgain(a) ==
  LET back == {t \in Tabled : HasThread(t)} IN
  /\ call[a] = "exitall" /\ arg[a].todo = {} /\ back # {}
  /\ arg' = [arg EXCEPT ![a].todo = back]
  /\ UNCHANGED <<use, table, tableLock, timer, at, body, call, handlerLock, ops, cleared>>

-----------------------------------------------------------------------------
(* TimerInfo::do_timer and doRunTimer *)

State(th) == timer[body[th]].state

\* Faulty variant: the loop does not end on the exit state.
LookOnlyRunning(th) ==
  /\ at[th] = "loop" /\ State(th) = "running"
  /\ at' = [at EXCEPT ![th] = "fire"]
  /\ UNCHANGED <<use, table, tableLock, timer, body, call, arg, handlerLock, ops, cleared>>

Look(th) ==
  /\ at[th] = "loop" /\ State(th) \in {"running", "exit"}
  /\ at' = [at EXCEPT ![th] = IF State(th) = "exit" THEN "leave" ELSE "fire"]
  /\ UNCHANGED <<use, table, tableLock, timer, body, call, arg, handlerLock, ops, cleared>>

\* The handle of thread th is not stored yet.
Unstored(th) == \E a \in Actor : call[a] = "store" /\ arg[a].thread = th

Fire(th) ==
  /\ at[th] = "fire" /\ (use.prompt => ~Unstored(th))
  /\ use.safeHandler => handlerLock = Null
  /\ handlerLock' = IF use.safeHandler THEN th ELSE Null
  /\ at' = [at EXCEPT ![th] = "callback"]
  /\ UNCHANGED <<use, table, tableLock, timer, body, call, arg, ops, cleared>>

\* OnTimeout is over; a one-shot timer ends itself.
Return(th) ==
  /\ at[th] \in {"callback", "return"} /\ call[th] = "idle"
  /\ handlerLock' = IF use.safeHandler THEN Null ELSE handlerLock
  /\ timer' = IF timer[body[th]].oneShot
              THEN [timer EXCEPT ![body[th]].state = "exit"] ELSE timer
  /\ at' = [at EXCEPT ![th] = "loop"]
  /\ UNCHANGED <<use, table, tableLock, body, call, arg, ops, cleared>>

\* OnTimerExit; a one-shot timer then deletes itself.
Leave(th) ==
  /\ at[th] = "leave"
  /\ timer' = IF timer[body[th]].oneShot
              THEN [timer EXCEPT ![body[th]].state = "freed"] ELSE timer
  /\ at' = [at EXCEPT ![th] = "done"]
  /\ UNCHANGED <<use, table, tableLock, body, call, arg, handlerLock, ops, cleared>>

-----------------------------------------------------------------------------

Call(a) ==
  \/ \E i \in Id : CallSetTimer(a, i, FALSE) \/ CallSetTimer(a, i, TRUE) \/ CallKillTimer(a, i)
  \/ CallKillAll(a)

Step(a) ==
  \/ Find(a) \/ Create(a) \/ PauseTimer(a) \/ RunTimer(a) \/ CheckThread(a)
  \/ Spawn(a) \/ Store(a) \/ SpawnFails(a)
  \/ Erase(a) \/ Exit(a) \/ Take(a) \/ Join(a) \/ JoinSelf(a) \/ Free(a)
  \/ LockAll(a) \/ ExitNext(a) \/ FreeAll(a) \/ KillAgain(a)

Loop(th) == Look(th) \/ Fire(th) \/ Return(th) \/ Leave(th)

Next == (\E a \in Actor : Call(a) \/ Step(a)) \/ (\E th \in Thread : Loop(th))

Spec == Init /\ [][Next]_vars

\* Every thread goes on; nobody has to call.
FairSpec ==
  /\ Spec
  /\ \A w \in Worker : WF_vars(Step(w))
  /\ \A th \in Thread : WF_vars(Step(th) \/ Loop(th))

-----------------------------------------------------------------------------
(* Properties *)

Place     == {"idle", "find", "create", "pause", "run", "check", "spawn", "store",
              "erase", "exit", "take", "join", "free", "lockall", "exitall"}
TimerInfo == [state : {"none", "init", "running", "pause", "exit", "freed"},
              id : Id, oneShot : BOOLEAN, handle : Thread \cup {Null}]
Argument  == [id : Id, oneShot : BOOLEAN, timer : Timer \cup {Null},
              thread : Thread \cup {Null}, all : BOOLEAN, todo : SUBSET Timer]

TypeOK ==
  /\ use \in Uses
  /\ table \in [Id -> Timer \cup {Null}] /\ timer \in [Timer -> TimerInfo]
  /\ tableLock \in Actor \cup {Null} /\ handlerLock \in Thread \cup {Null}
  /\ at \in [Thread -> {"none", "loop", "fire", "callback", "return", "leave", "done"}]
  /\ body \in [Thread -> Timer \cup {Null}]
  /\ call \in [Actor -> Place] /\ arg \in [Actor -> Argument]
  /\ ops \in [Actor -> Nat] /\ cleared \in BOOLEAN

\* Where a thread, SetTimer and KillTimer work on a TimerInfo.
Runs  == {"loop", "fire", "callback", "return", "leave"}
Sets  == {"pause", "run", "check", "spawn", "store"}
Kills == {"exit", "take", "join", "free"}

\* Nobody reads or writes a TimerInfo that was deleted.
NoUseAfterFree ==
  /\ \A th \in Thread : at[th] \in Runs => State(th) # "freed"
  /\ \A a \in Actor : call[a] \in Sets \cup Kills => timer[Mine(a)].state # "freed"

\* When nobody calls and every thread of a deleted or untabled timer has
\* ended, each TimerInfo is in the table or deleted, provided no callback
\* kills its own timer (JoinSelf skips the deletion) and no one-shot timer is
\* left without a thread (SpawnFails deletes nothing).
Resting == /\ \A a \in Actor : call[a] = "idle"
           /\ \A th \in Thread : at[th] # "none" /\ at[th] # "done" => body[th] \in Tabled

Deletes == "kill" \notin use.callbackOps /\ (use.spawnMayFail => use.oneShots = {})

NoLeak == Resting /\ Deletes => \A t \in Timer : timer[t].state \in {"none", "freed"} \/ t \in Tabled

\* Callbacks that set or kill their timer find its handle stored.
Stored == use.prompt \/ use.callbackOps \cap {"set", "kill"} = {}

\* Callbacks that kill their timer do so only when nobody sets it meanwhile.
Unraced == /\ Stored /\ "killall" \notin use.callbackOps
           /\ "kill" \in use.callbackOps => ~use.resets /\ "set" \notin use.callbackOps

\* Each TimerInfo is deleted, and only when nobody uses it any more.
DeletedInTime == Unraced => NoUseAfterFree /\ NoLeak

\* "The KillAllTimer method destroys all timers" (cgcApplication.h:92): when
\* it has returned and no timer was set since, no periodic timer's thread is
\* left, unless a callback killed its timer and is on its way out.
Destroys == Stored /\ use.oneShots = {} /\ use.callbackOps \cap {"kill", "killall"} = {}

KillAllEndsAll == cleared /\ Destroys => \A th \in Thread : at[th] \in {"none", "done"}

\* Whom an actor waits for.
Waits(a) ==
  {b \in Actor : \/ call[a] = "join" /\ arg[a].thread = b /\ b # a /\ ~Ended(b)
                 \/ /\ call[a] \in {"find", "erase", "lockall"}
                    /\ tableLock = b
                 \/ call[a] = "create" /\ ~arg[a].oneShot /\ tableLock = b
                 \/ a \in Thread /\ at[a] = "fire" /\ use.safeHandler /\ handlerLock = b}

\* No set of threads waits for one another for ever.
NoWaitCycle == \A S \in (SUBSET Actor) \ {{}} : \E a \in S : Waits(a) \cap S = {}

\* SetTimer, KillTimer and KillAll return, to a module whose callbacks set no
\* timer and wait for no mutex.
Quick       == ~use.safeHandler /\ use.callbackOps \cap {"set", "oneshot"} = {}
CallsReturn == \A w \in Worker : (Quick /\ call[w] # "idle") ~> call[w] = "idle"
=============================================================================
