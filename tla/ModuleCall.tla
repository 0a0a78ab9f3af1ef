----------------------------- MODULE ModuleCall -----------------------------
(***************************************************************************)
(* Calls into one module of the server while its library is replaced       *)
(* (CGCApp.cpp: ProcAppProto, ProcHttpAppProto, ProcSesProto and           *)
(* do_autoupdate).                                                         *)
(*                                                                         *)
(* A thread enters the module in one of three ways: the module item's      *)
(* handle (SOTP and HTTP calls), its session callbacks, or the handler of  *)
(* its timer.  No lock guards these pointers and no count of calls is      *)
(* waited for: an update exchanges them one after another, sleeps for two  *)
(* seconds and unloads the old library.                                    *)
(*                                                                         *)
(* Time counts while a thread holds a pointer it has read, and while the   *)
(* update sleeps.  The module's own code is external: it ends a call       *)
(* within CallTime, CGC_Module_Init2 succeeds, setting the timer (as those *)
(* of the MySQL and SOTP client services do), or fails, and                *)
(* CGC_Module_Free2 ends what the library's code may be used for.          *)
(*                                                                         *)
(* Two branches of do_autoupdate are unreachable and left out: the module  *)
(* state is never 0 once the server runs (line 547), and ***B fails only   *)
(* for communication modules, which are not updated (line 558).            *)
(***************************************************************************)
EXTENDS Integers

CONSTANTS
  Caller,        \* threads that call the module
  Lib,           \* handles dlopen may return
  LockStates,    \* the lock states the module may be configured with
  CallTime,      \* the most seconds a thread uses a pointer it has read
  Grace,         \* seconds do_autoupdate waits for old calls (2 in the code)
  Reopens,       \* dlopen returns the library it has under that name already
  KillsTimers,   \* CGC_Module_Free2 calls KillAllTimer for every free type
  None

ASSUME TimeAssumption == CallTime \in Nat /\ Grace \in Nat

ASSUME ModuleAssumption ==
  /\ LockStates \subseteq {"LS_NONE", "LS_WAIT", "LS_RETURN"}
  /\ Reopens \in BOOLEAN /\ KillsTimers \in BOOLEAN
  /\ None \notin Caller \cup Lib

VARIABLES
  lockState,     \* ModuleItem::m_lockState
  inited,        \* m_nInited
  handle,        \* the module item's handle
  opened,        \* keys of m_mapModuleImpl, all for this module
  loads,         \* how often a library is open
  live,          \* libraries that CGC_Module_Init2 set up and no Free2 ended
  linked,        \* the library of the session callbacks (m_fpSessionOpen)
  timer,         \* the library of the timer's handler
  callRef,       \* m_callRef; kept for LS_RETURN, which alone reads it
  owner,         \* who has m_mutexCallWait
  pc, kind,      \* where a thread is, in which kind of call
  lib,           \* the library it uses
  ref,           \* what it read from m_callRef
  age,           \* how long it has used lib
  update,        \* where do_autoupdate is
  old, new,      \* pCurrentModuleHandle and hModule
  slept

module  == <<lockState, inited, handle, opened, loads, live, linked, timer>>
locks   == <<callRef, owner>>
callers == <<pc, kind, lib, ref, age>>
updater == <<update, old, new, slept>>
vars    == <<module, locks, callers, updater>>

Kind == {"sotp", "http", "session", "timer"}

\* A module that was started, or one whose CGC_Module_Init2 failed.
Init ==
  /\ lockState \in LockStates
  /\ inited \in BOOLEAN
  /\ handle \in Lib
  /\ opened = {handle}
  /\ loads = [l \in Lib |-> IF l = handle THEN 1 ELSE 0]
  /\ live   = IF inited THEN {handle} ELSE {}
  /\ linked = IF inited THEN handle ELSE None
  /\ timer  = IF inited THEN handle ELSE None
  /\ callRef = 0 /\ owner = None
  /\ pc = [c \in Caller |-> "idle"]
  /\ kind \in [Caller -> {"sotp"}]
  /\ lib = [c \in Caller |-> None]
  /\ ref = [c \in Caller |-> 0] /\ age = [c \in Caller |-> 0]
  /\ update = "idle" /\ old = None /\ new = None /\ slept = 0

Goto(c, l) == pc' = [pc EXCEPT ![c] = l]
\* The thread reads a pointer into library l, or has no more use for it.
Takes(c, l) == /\ lib' = [lib EXCEPT ![c] = l]
               /\ age' = [age EXCEPT ![c] = 0]
InFlight(c) == pc[c] \in {"found", "run"}

-----------------------------------------------------------------------------
(* The callers *)

\* ProcAppProto and the others get the module item and read its handle.
Call(c) ==
  /\ pc[c] = "idle"
  /\ \E k \in Kind \ {"timer"} : kind' = [kind EXCEPT ![c] = k]
  /\ Goto(c, "found") /\ Takes(c, handle)
  /\ UNCHANGED <<module, locks, ref, updater>>

\* The timer's thread is due (TimerInfo::doRunTimer).
Fire(c) ==
  /\ pc[c] = "idle" /\ timer # None
  /\ kind' = [kind EXCEPT ![c] = "timer"]
  /\ Goto(c, "run") /\ Takes(c, timer)
  /\ UNCHANGED <<module, locks, ref, updater>>

Serves(c) == lib[c] \in opened /\ inited

\* -102 or -105: the handle is not in the map or the module is not started.
Refuse(c) ==
  /\ pc[c] = "found" /\ ~Serves(c)
  /\ Goto(c, "idle") /\ Takes(c, None)
  /\ UNCHANGED <<module, locks, kind, ref, updater>>

\* Only ProcAppProto heeds the lock state.
Gate(c) ==
  IF kind[c] # "sotp" THEN "enter"
  ELSE CASE lockState = "LS_WAIT"   -> "wait"
         [] lockState = "LS_RETURN" -> "test"
         [] OTHER                   -> "enter"

Admit(c) ==
  /\ pc[c] = "found" /\ Serves(c)
  /\ Goto(c, Gate(c)) /\ Takes(c, None)
  /\ UNCHANGED <<module, locks, kind, ref, updater>>

Acquire(c) ==
  /\ pc[c] = "wait" /\ owner = None
  /\ owner' = c
  /\ Goto(c, "enter")
  /\ UNCHANGED <<module, callRef, kind, lib, ref, age, updater>>

\* -107 when getCallRef() is not 0.
Test(c) ==
  /\ pc[c] = "test"
  /\ Goto(c, IF callRef = 0 THEN "load" ELSE "idle")
  /\ UNCHANGED <<module, locks, kind, lib, ref, age, updater>>

\* addCallRef and releaseCallRef: a plain integer is read and written back.
ReadRef(c) ==
  /\ \/ pc[c] = "load"  /\ Goto(c, "add")
     \/ pc[c] = "leave" /\ Goto(c, "release")
  /\ ref' = [ref EXCEPT ![c] = callRef]
  /\ UNCHANGED <<module, locks, kind, lib, age, updater>>

AddRef(c) ==
  /\ pc[c] = "add"
  /\ callRef' = ref[c] + 1
  /\ Goto(c, "enter")
  /\ ref' = [ref EXCEPT ![c] = 0]
  /\ UNCHANGED <<module, owner, kind, lib, age, updater>>

ReleaseRef(c) ==
  /\ pc[c] = "release"
  /\ callRef' = IF ref[c] = 0 THEN callRef ELSE ref[c] - 1
  /\ Goto(c, "idle")
  /\ ref' = [ref EXCEPT ![c] = 0]
  /\ UNCHANGED <<module, owner, kind, lib, age, updater>>

\* ProcLibMethod reads the handle anew, the session its callback.
Pointer(c) == IF kind[c] = "session" THEN linked ELSE handle

Enter(c) ==
  /\ pc[c] = "enter"
  /\ Goto(c, "run") /\ Takes(c, Pointer(c))
  /\ UNCHANGED <<module, locks, kind, ref, updater>>

Counted(c) == kind[c] = "sotp" /\ lockState = "LS_RETURN"

\* Faulty variants: the lock is kept, or whoever returns gives it back.
ReturnLocked(c) ==
  /\ pc[c] = "run"
  /\ Goto(c, IF Counted(c) THEN "leave" ELSE "idle")
  /\ Takes(c, None)
  /\ UNCHANGED <<module, locks, kind, ref, updater>>
ReturnUnlocks(c) ==
  /\ pc[c] = "run"
  /\ Goto(c, IF Counted(c) THEN "leave" ELSE "idle")
  /\ Takes(c, None)
  /\ owner' = None
  /\ UNCHANGED <<module, callRef, kind, ref, updater>>

\* The module's function returns; the scoped_lock, if any, is deleted.
Return(c) ==
  /\ pc[c] = "run"
  /\ Goto(c, IF Counted(c) THEN "leave" ELSE "idle")
  /\ Takes(c, None)
  /\ owner' = IF owner = c THEN None ELSE owner
  /\ UNCHANGED <<module, callRef, kind, ref, updater>>

-----------------------------------------------------------------------------
(* do_autoupdate *)

\* dlopen and SetModuleHandler.  A file that cannot be opened changes nothing.
OpenNew ==
  /\ update = "idle"
  /\ \E l \in (IF Reopens THEN {handle} ELSE {x \in Lib : loads[x] = 0}) :
       /\ new' = l
       /\ loads'  = [loads EXCEPT ![l] = @ + 1]
       /\ opened' = opened \cup {l}
  /\ old' = handle
  /\ update' = "opened"
  /\ UNCHANGED <<lockState, inited, handle, live, linked, timer,
                 locks, callers, slept>>

\* Faulty variant: a library that failed stays in the map.
InitFailsListed ==
  /\ update = "opened"
  /\ loads'  = [loads EXCEPT ![new] = @ - 1]
  /\ update' = "idle" /\ old' = None /\ new' = None
  /\ UNCHANGED <<lockState, inited, handle, opened, live, linked, timer,
                 locks, callers, slept>>

\* InitLibModule(hModule), and the tidying after it failed.
InitFails ==
  /\ update = "opened"
  /\ opened' = opened \ {new}
  /\ loads'  = [loads EXCEPT ![new] = @ - 1]
  /\ update' = "idle" /\ old' = None /\ new' = None
  /\ UNCHANGED <<lockState, inited, handle, live, linked, timer,
                 locks, callers, slept>>

\* InitLibModule(hModule).  A failed CGC_Module_Init2 is repeated once in the
\* server's life, up to three times for an update, each after
\* CGC_Module_Free2 and three seconds.  That is left out: it changes nothing
\* here unless Free2 kills the timers of the old library (KillsTimers).
InitNew ==
  /\ update = "opened"
  /\ live'  = live \cup {new}
  /\ timer' = new
  /\ update' = "ready"
  /\ UNCHANGED <<lockState, inited, handle, opened, loads, linked,
                 locks, callers, old, new, slept>>

\* ***A
Switch ==
  /\ update = "ready"
  /\ handle' = new
  /\ update' = "switched"
  /\ UNCHANGED <<lockState, inited, opened, loads, live, linked, timer,
                 locks, callers, old, new, slept>>

\* Faulty variant: the callbacks are not looked up again.
LinkNot ==
  /\ update = "switched"
  /\ update' = "sleep" /\ slept' = 0
  /\ UNCHANGED <<module, locks, callers, old, new>>

\* ***B: InitLibModule finds the callbacks in the new library.
Link ==
  /\ update = "switched"
  /\ linked' = new
  /\ update' = "sleep" /\ slept' = 0
  /\ UNCHANGED <<lockState, inited, handle, opened, loads, live, timer,
                 locks, callers, old, new>>

\* KillAllTimer joins the timer's thread.
NoTimerRuns == \A c \in Caller : ~(pc[c] = "run" /\ kind[c] = "timer")

FreeOld ==
  /\ update = "sleep" /\ slept >= Grace
  /\ KillsTimers => NoTimerRuns
  /\ live'  = live \ {old}
  /\ timer' = IF KillsTimers THEN None ELSE timer
  /\ update' = "freed" /\ slept' = 0
  /\ UNCHANGED <<lockState, inited, handle, opened, loads, linked,
                 locks, callers, old, new>>

\* Faulty variant: the item's handle, which is the new one, is forgotten.
ForgetHandle ==
  /\ update = "freed"
  /\ opened' = opened \ {handle}
  /\ update' = "forgotten"
  /\ UNCHANGED <<lockState, inited, handle, loads, live, linked, timer,
                 locks, callers, old, new, slept>>

ForgetOld ==
  /\ update = "freed"
  /\ opened' = opened \ {old}
  /\ update' = "forgotten"
  /\ UNCHANGED <<lockState, inited, handle, loads, live, linked, timer,
                 locks, callers, old, new, slept>>

CloseOld ==
  /\ update = "forgotten"
  /\ loads' = [loads EXCEPT ![old] = @ - 1]
  /\ update' = "idle" /\ old' = None /\ new' = None
  /\ UNCHANGED <<lockState, inited, handle, opened, live, linked, timer,
                 locks, callers, slept>>

-----------------------------------------------------------------------------
Asleep == update = "sleep" /\ slept < Grace

\* Faulty variant: the sleep is not over when its time is.
TickOn ==
  /\ Asleep \/ \E c \in Caller : InFlight(c)
  /\ \A c \in Caller : InFlight(c) => age[c] < CallTime
  /\ age' = [c \in Caller |-> age[c] + (IF InFlight(c) THEN 1 ELSE 0)]
  /\ slept' = slept + (IF update = "sleep" THEN 1 ELSE 0)
  /\ UNCHANGED <<module, locks, pc, kind, lib, ref, update, old, new>>

\* A second passes; no thread uses a pointer for longer than CallTime.
Tick ==
  /\ Asleep \/ \E c \in Caller : InFlight(c)
  /\ \A c \in Caller : InFlight(c) => age[c] < CallTime
  /\ age' = [c \in Caller |-> age[c] + (IF InFlight(c) THEN 1 ELSE 0)]
  /\ slept' = slept + (IF Asleep THEN 1 ELSE 0)
  /\ UNCHANGED <<module, locks, pc, kind, lib, ref, update, old, new>>

\* What a thread does once it has begun a call.
Proceed(c) ==
  \/ Refuse(c) \/ Admit(c) \/ Acquire(c) \/ Test(c) \/ ReadRef(c)
  \/ AddRef(c) \/ Enter(c) \/ Return(c) \/ ReleaseRef(c)

\* What do_autoupdate does once it has opened a library.
GoOn == InitFails \/ InitNew \/ Switch \/ Link \/ FreeOld \/ ForgetOld \/ CloseOld

Next ==
  \/ \E c \in Caller : Call(c) \/ Fire(c) \/ Proceed(c)
  \/ OpenNew \/ GoOn
  \/ Tick

Spec == Init /\ [][Next]_vars

\* Threads run, the module's functions return and time passes; nothing makes
\* a call begin or an update come, and a mutex need not be fair to a waiter.
FairSpec ==
  /\ Spec
  /\ \A c \in Caller : WF_vars(Proceed(c))
  /\ WF_vars(GoOn) /\ WF_vars(Tick)

-----------------------------------------------------------------------------
(* Properties *)

TypeOK ==
  /\ lockState \in LockStates /\ inited \in BOOLEAN
  /\ handle \in Lib /\ opened \subseteq Lib /\ live \subseteq Lib
  /\ loads \in [Lib -> 0 .. 2]
  /\ {linked, timer, old, new} \subseteq Lib \cup {None}
  /\ callRef \in Nat /\ owner \in Caller \cup {None}
  /\ pc \in [Caller -> {"idle", "found", "wait", "test", "load", "add",
                        "enter", "run", "leave", "release"}]
  /\ kind \in [Caller -> Kind] /\ lib \in [Caller -> Lib \cup {None}]
  /\ ref \in [Caller -> Nat]
  /\ age \in [Caller -> 0 .. CallTime]
  /\ update \in {"idle", "opened", "ready", "switched", "sleep", "freed",
                 "forgotten"}
  /\ slept \in 0 .. Grace

\* No thread runs in a library that is not set up, was told to end or is
\* unloaded, whichever of the three pointers led it there and however long it
\* waited for the module's lock before (do_autoupdate's two seconds).
RunsInLive ==
  \A c \in Caller : pc[c] = "run" => lib[c] \in live /\ loads[lib[c]] > 0

\* A module that asks for LS_WAIT performs one SOTP call at a time, be it in
\* the old library or the new one.
WaitSerial ==
  lockState = "LS_WAIT" =>
    \A c, d \in Caller :
      kind[c] = "sotp" /\ kind[d] = "sotp" /\ pc[c] = "run" /\ pc[d] = "run"
        => c = d

\* Between updates nothing of another library is left, and a module that is
\* set up has its callbacks and its timer in its current one.
Settled ==
  update = "idle" =>
    /\ opened = {handle}
    /\ loads = [l \in Lib |-> IF l = handle THEN 1 ELSE 0]
    /\ live # {} => /\ live = {handle}
                    /\ linked = handle /\ timer = handle

\* No update makes a started module refuse a call (the gap that the comment
\* at ***A fears).
NoGap ==
  [][\A c \in Caller : pc[c] = "found" /\ pc'[c] = "idle" => ~inited]_vars

\* A call that need not wait for the lock ends, the lock is given back and an
\* update comes to its end.
AllEnd ==
  /\ \A c \in Caller : pc[c] \notin {"idle", "wait"} ~> pc[c] \in {"idle", "wait"}
  /\ owner # None ~> owner = None
  /\ update # "idle" ~> update = "idle"

=============================================================================
