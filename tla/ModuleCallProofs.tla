-------------------------- MODULE ModuleCallProofs --------------------------
(***************************************************************************)
(* Proofs about ModuleCall, for every set of threads and libraries and     *)
(* every length of calls and of the update's sleep.                        *)
(*                                                                         *)
(* The argument.  Libraries and Code say, for each point of an update,     *)
(* which libraries are open, which are set up, and where each of the three *)
(* pointers leads; nothing in them concerns the threads.  Calls says what  *)
(* a thread may hold: a library that is open, and, while the update        *)
(* sleeps, the old one only if it took it before the sleep began.  When    *)
(* the sleep ends, such a thread would have used it for longer than        *)
(* CallTime.  Locks is about LS_WAIT alone.                                *)
(***************************************************************************)
EXTENDS ModuleCall, TLAPS

\* What is open, by the point the update has reached.
Libraries ==
  /\ update = "idle" => opened = {handle}
  /\ update # "idle" =>
       /\ old \in Lib /\ new \in Lib /\ old # new
       /\ handle = IF update \in {"opened", "ready"} THEN old ELSE new
       /\ opened = IF update = "forgotten" THEN {new} ELSE {old, new}
  /\ loads = [l \in Lib |->
       IF l = handle \/ (update # "idle" /\ l \in {old, new}) THEN 1 ELSE 0]

\* The timer leads to l, or a Free2 killed it.
TimerAt(l) == timer = l \/ (KillsTimers /\ timer = None)

\* What is set up, and where the callbacks and the timer lead.
Code ==
  /\ inited => handle \in live
  /\ update \in {"idle", "opened"} =>
       /\ live \subseteq {handle}
       /\ IF live = {} THEN timer = None ELSE linked = handle /\ TimerAt(handle)
  /\ update \in {"ready", "switched"} =>
       /\ new \in live /\ live \subseteq {old, new} /\ timer = new
       /\ old \in live => linked = old
       /\ inited => old \in live
  /\ update = "sleep" =>
       new \in live /\ live \subseteq {old, new} /\ timer = new /\ linked = new
  /\ update \in {"freed", "forgotten"} =>
       live = {new} /\ linked = new /\ TimerAt(new)

\* What the threads hold.
Calls ==
  \A c \in Caller :
    /\ pc[c] \in {"wait", "test", "load", "add", "enter"} => inited
    /\ pc[c] = "found" => lib[c] \in opened
    /\ pc[c] = "run" => lib[c] \in live
    /\ InFlight(c) =>
         /\ update = "opened" => lib[c] = old
         /\ update = "sleep" /\ lib[c] = old => age[c] >= slept
         /\ update = "freed" => lib[c] # old

\* Under LS_WAIT a SOTP call is in the module only with the lock.
Locks ==
  lockState = "LS_WAIT" =>
    \A c \in Caller : kind[c] = "sotp" =>
      /\ pc[c] \in {"idle", "found", "wait", "enter", "run"}
      /\ pc[c] \in {"enter", "run"} => owner = c

IInv == TypeOK /\ Libraries /\ Code /\ Calls /\ Locks

\* dlopen gives a library of its own, and calls are shorter than the sleep.
InTime == ~Reopens /\ CallTime < Grace

-----------------------------------------------------------------------------
\* A server whose modules InitLibModules has started, or failed to start.
LEMMA InitIInv == Init => IInv
PROOF
<1> SUFFICES ASSUME Init PROVE IInv
  OBVIOUS
<1> USE DEF Init
<1>1. TypeOK
  BY TimeAssumption DEF TypeOK, Kind
<1>2. Libraries
  BY DEF Libraries
<1>3. Code
  BY ModuleAssumption DEF Code, TimerAt
<1>4. Calls
  BY DEF Calls, InFlight
<1>5. Locks
  BY DEF Locks
<1> QED
  BY <1>1, <1>2, <1>3, <1>4, <1>5 DEF IInv

-----------------------------------------------------------------------------
(* The steps of a thread leave Libraries and Code alone *)

\* What holds of the libraries does not depend on the threads.
LEMMA CallersOnly ==
  ASSUME IInv, UNCHANGED <<module, updater>>
  PROVE  Libraries' /\ Code'
PROOF
<1>1. Libraries'
  BY DEF IInv, Libraries, module, updater
<1>2. Code'
  BY DEF IInv, Code, TimerAt, module, updater
<1> QED
  BY <1>1, <1>2

\* The pointers a thread may read lead to a library that is open, set up if
\* the module is, and not about to go.
LEMMA Pointers ==
  ASSUME IInv
  PROVE  /\ handle \in opened
         /\ update = "opened" => handle = old
         /\ update \in {"sleep", "freed"} => handle # old
         /\ inited =>
              /\ handle \in live /\ linked \in live
              /\ update = "opened" => linked = old
              /\ update \in {"sleep", "freed"} => linked # old
         /\ timer # None =>
              /\ timer \in live
              /\ update = "opened" => timer = old
              /\ update \in {"sleep", "freed"} => timer # old
PROOF
<1>1. handle \in opened /\ (update = "opened" => handle = old)
      /\ (update \in {"sleep", "freed"} => handle # old)
  BY DEF IInv, TypeOK, Libraries
<1>2. inited => linked \in live
  BY DEF IInv, TypeOK, Libraries, Code
<1>3. inited => /\ handle \in live
                /\ update = "opened" => linked = old
                /\ update \in {"sleep", "freed"} => linked # old
  BY DEF IInv, TypeOK, Libraries, Code
<1>4. timer # None =>
        /\ timer \in live
        /\ update = "opened" => timer = old
        /\ update \in {"sleep", "freed"} => timer # old
  BY DEF IInv, TypeOK, Libraries, Code, TimerAt
<1> QED
  BY <1>1, <1>2, <1>3, <1>4
-----------------------------------------------------------------------------
(* One lemma for each step of a thread *)

\* ProcAppProto and the others read the handle.
LEMMA CallStep == ASSUME IInv, NEW c \in Caller, Call(c) PROVE IInv'
PROOF
<1> USE DEF Call
<1>1. TypeOK'
  BY TimeAssumption DEF IInv, TypeOK, Goto, Takes, Kind, module, locks, updater
<1>2. Libraries' /\ Code'
  BY CallersOnly DEF module, updater
<1>3. Calls'
  BY Pointers DEF IInv, TypeOK, Calls, InFlight, Goto, Takes, Kind, module, locks, updater
<1>4. Locks'
  BY DEF IInv, TypeOK, Locks, Goto, Takes, Kind, module, locks, updater
<1> QED
  BY <1>1, <1>2, <1>3, <1>4 DEF IInv

\* The timer's thread reads its handler.
LEMMA FireStep == ASSUME IInv, NEW c \in Caller, Fire(c) PROVE IInv'
PROOF
<1> USE DEF Fire
<1>1. TypeOK'
  BY TimeAssumption DEF IInv, TypeOK, Goto, Takes, Kind, module, locks, updater
<1>2. Libraries' /\ Code'
  BY CallersOnly DEF module, updater
<1>3. Calls'
  BY Pointers DEF IInv, TypeOK, Calls, InFlight, Goto, Takes, Kind, module, locks, updater
<1>4. Locks'
  BY DEF IInv, TypeOK, Locks, Goto, Takes, Kind, module, locks, updater
<1> QED
  BY <1>1, <1>2, <1>3, <1>4 DEF IInv

\* A call is refused.
LEMMA RefuseStep == ASSUME IInv, NEW c \in Caller, Refuse(c) PROVE IInv'
PROOF
<1> USE DEF Refuse
<1>1. TypeOK'
  BY TimeAssumption DEF IInv, TypeOK, Goto, Takes, module, locks, updater
<1>2. Libraries' /\ Code'
  BY CallersOnly DEF module, updater
<1>3. Calls'
  BY DEF IInv, TypeOK, Calls, InFlight, Goto, Takes, module, locks, updater
<1>4. Locks'
  BY DEF IInv, TypeOK, Locks, Goto, Takes, module, locks, updater
<1> QED
  BY <1>1, <1>2, <1>3, <1>4 DEF IInv

\* A call is admitted, at once or to a lock.
LEMMA AdmitStep == ASSUME IInv, NEW c \in Caller, Admit(c) PROVE IInv'
PROOF
<1> USE DEF Admit
<1>1. TypeOK'
  BY TimeAssumption DEF IInv, TypeOK, Serves, Gate, Goto, Takes, module, locks, updater
<1>2. Libraries' /\ Code'
  BY CallersOnly DEF module, updater
<1>3. Calls'
  BY DEF IInv, TypeOK, Calls, InFlight, Serves, Gate, Goto, Takes, module, locks, updater
<1>4. Locks'
  BY DEF IInv, TypeOK, Locks, Serves, Gate, Goto, Takes, module, locks, updater
<1> QED
  BY <1>1, <1>2, <1>3, <1>4 DEF IInv

\* A call takes m_mutexCallWait.
LEMMA AcquireStep == ASSUME IInv, NEW c \in Caller, Acquire(c) PROVE IInv'
PROOF
<1> USE DEF Acquire
<1>1. TypeOK'
  BY DEF IInv, TypeOK, Goto, module, locks, updater
<1>2. Libraries' /\ Code'
  BY CallersOnly DEF module, updater
<1>3. Calls'
  BY DEF IInv, TypeOK, Calls, InFlight, Goto, module, locks, updater
<1>4. Locks'
  BY ModuleAssumption DEF IInv, TypeOK, Locks, Goto, module, locks, updater
<1> QED
  BY <1>1, <1>2, <1>3, <1>4 DEF IInv

\* A call tests m_callRef.
LEMMA TestStep == ASSUME IInv, NEW c \in Caller, Test(c) PROVE IInv'
PROOF
<1> USE DEF Test
<1>1. TypeOK'
  BY DEF IInv, TypeOK, Goto, module, locks, updater
<1>2. Libraries' /\ Code'
  BY CallersOnly DEF module, updater
<1>3. Calls'
  BY DEF IInv, TypeOK, Calls, InFlight, Goto, module, locks, updater
<1>4. Locks'
  BY DEF IInv, TypeOK, Locks, Goto, module, locks, updater
<1> QED
  BY <1>1, <1>2, <1>3, <1>4 DEF IInv

\* addCallRef and releaseCallRef read the count.
LEMMA ReadRefStep == ASSUME IInv, NEW c \in Caller, ReadRef(c) PROVE IInv'
PROOF
<1> USE DEF ReadRef
<1>1. TypeOK'
  BY DEF IInv, TypeOK, Goto, module, locks, updater
<1>2. Libraries' /\ Code'
  BY CallersOnly DEF module, updater
<1>3. Calls'
  BY DEF IInv, TypeOK, Calls, InFlight, Goto, module, locks, updater
<1>4. Locks'
  BY DEF IInv, TypeOK, Locks, Goto, module, locks, updater
<1> QED
  BY <1>1, <1>2, <1>3, <1>4 DEF IInv

\* addCallRef writes it.
LEMMA AddRefStep == ASSUME IInv, NEW c \in Caller, AddRef(c) PROVE IInv'
PROOF
<1> USE DEF AddRef
<1>1. TypeOK'
  BY DEF IInv, TypeOK, Goto, module, locks, updater
<1>2. Libraries' /\ Code'
  BY CallersOnly DEF module, updater
<1>3. Calls'
  BY DEF IInv, TypeOK, Calls, InFlight, Goto, module, locks, updater
<1>4. Locks'
  BY DEF IInv, TypeOK, Locks, Goto, module, locks, updater
<1> QED
  BY <1>1, <1>2, <1>3, <1>4 DEF IInv

\* releaseCallRef writes it.
LEMMA ReleaseRefStep == ASSUME IInv, NEW c \in Caller, ReleaseRef(c) PROVE IInv'
PROOF
<1> USE DEF ReleaseRef
<1>1. TypeOK'
  BY DEF IInv, TypeOK, Goto, module, locks, updater
<1>2. Libraries' /\ Code'
  BY CallersOnly DEF module, updater
<1>3. Calls'
  BY DEF IInv, TypeOK, Calls, InFlight, Goto, module, locks, updater
<1>4. Locks'
  BY DEF IInv, TypeOK, Locks, Goto, module, locks, updater
<1> QED
  BY <1>1, <1>2, <1>3, <1>4 DEF IInv

\* A call reads the pointer by which it enters the module.
LEMMA EnterStep == ASSUME IInv, NEW c \in Caller, Enter(c) PROVE IInv'
PROOF
<1> USE DEF Enter
<1>1. TypeOK'
  BY TimeAssumption DEF IInv, TypeOK, Pointer, Goto, Takes, module, locks, updater
<1>2. Libraries' /\ Code'
  BY CallersOnly DEF module, updater
<1>3. Calls'
  <2>1. /\ Pointer(c) \in live
        /\ update = "opened" => Pointer(c) = old
        /\ update \in {"sleep", "freed"} => Pointer(c) # old
    <3>1. inited
      BY DEF IInv, Calls
    <3>2. Pointer(c) = linked \/ Pointer(c) = handle
      BY DEF Pointer
    <3>3. /\ handle \in live /\ linked \in live
          /\ update = "opened" => handle = old /\ linked = old
          /\ update \in {"sleep", "freed"} => handle # old /\ linked # old
      BY <3>1, Pointers
    <3> QED
      BY <3>2, <3>3
  <2>2. /\ pc' = [pc EXCEPT ![c] = "run"]
        /\ lib' = [lib EXCEPT ![c] = Pointer(c)]
        /\ age' = [age EXCEPT ![c] = 0]
        /\ UNCHANGED <<module, updater>>
    BY DEF Goto, Takes
  <2> QED
    BY <2>1, <2>2 DEF IInv, TypeOK, Calls, InFlight, module, updater
<1>4. Locks'
  BY DEF IInv, TypeOK, Locks, Pointer, Goto, Takes, module, locks, updater
<1> QED
  BY <1>1, <1>2, <1>3, <1>4 DEF IInv

\* A call returns and deletes its lock.
LEMMA ReturnStep == ASSUME IInv, NEW c \in Caller, Return(c) PROVE IInv'
PROOF
<1> USE DEF Return
<1>1. TypeOK'
  BY TimeAssumption DEF IInv, TypeOK, Counted, Goto, Takes, module, locks, updater
<1>2. Libraries' /\ Code'
  BY CallersOnly DEF module, updater
<1>3. Calls'
  BY DEF IInv, TypeOK, Calls, InFlight, Counted, Goto, Takes, module, locks, updater
<1>4. Locks'
  BY DEF IInv, TypeOK, Locks, Counted, Goto, Takes, module, locks, updater
<1> QED
  BY <1>1, <1>2, <1>3, <1>4 DEF IInv

-----------------------------------------------------------------------------
(* One lemma for each step of do_autoupdate, which leaves Locks alone *)

\* The new library is opened and listed.
LEMMA OpenNewStep == ASSUME IInv, ~Reopens, OpenNew PROVE IInv'
PROOF
<1> USE DEF OpenNew
<1>1. TypeOK'
  BY TimeAssumption DEF IInv, TypeOK, Libraries, locks, callers
<1>2. Libraries'
  BY ModuleAssumption DEF IInv, TypeOK, Libraries
<1>3. Code'
  BY ModuleAssumption DEF IInv, TypeOK, Libraries, Code, TimerAt
<1>4. Calls'
  BY TimeAssumption DEF IInv, TypeOK, Libraries, Code, Calls, InFlight, callers
<1>5. Locks'
  BY DEF IInv, Locks, locks, callers
<1> QED
  BY <1>1, <1>2, <1>3, <1>4, <1>5 DEF IInv

\* The new library fails and is closed.
LEMMA InitFailsStep == ASSUME IInv, InitFails PROVE IInv'
PROOF
<1> USE DEF InitFails
<1>1. TypeOK'
  BY TimeAssumption DEF IInv, TypeOK, Libraries, locks, callers
<1>2. Libraries'
  BY ModuleAssumption DEF IInv, TypeOK, Libraries
<1>3. Code'
  BY ModuleAssumption DEF IInv, TypeOK, Libraries, Code, TimerAt
<1>4. Calls'
  BY TimeAssumption DEF IInv, TypeOK, Libraries, Code, Calls, InFlight, callers
<1>5. Locks'
  BY DEF IInv, Locks, locks, callers
<1> QED
  BY <1>1, <1>2, <1>3, <1>4, <1>5 DEF IInv

\* The new library is set up.
LEMMA InitNewStep == ASSUME IInv, InitNew PROVE IInv'
PROOF
<1> USE DEF InitNew
<1>1. TypeOK'
  BY TimeAssumption DEF IInv, TypeOK, Libraries, locks, callers
<1>2. Libraries'
  BY ModuleAssumption DEF IInv, TypeOK, Libraries
<1>3. Code'
  BY ModuleAssumption DEF IInv, TypeOK, Libraries, Code, TimerAt
<1>4. Calls'
  BY TimeAssumption DEF IInv, TypeOK, Libraries, Code, Calls, InFlight, callers
<1>5. Locks'
  BY DEF IInv, Locks, locks, callers
<1> QED
  BY <1>1, <1>2, <1>3, <1>4, <1>5 DEF IInv

\* ***A: the handle changes.
LEMMA SwitchStep == ASSUME IInv, Switch PROVE IInv'
PROOF
<1> USE DEF Switch
<1>1. TypeOK'
  BY TimeAssumption DEF IInv, TypeOK, Libraries, locks, callers
<1>2. Libraries'
  BY ModuleAssumption DEF IInv, TypeOK, Libraries
<1>3. Code'
  BY ModuleAssumption DEF IInv, TypeOK, Libraries, Code, TimerAt
<1>4. Calls'
  BY TimeAssumption DEF IInv, TypeOK, Libraries, Code, Calls, InFlight, callers
<1>5. Locks'
  BY DEF IInv, Locks, locks, callers
<1> QED
  BY <1>1, <1>2, <1>3, <1>4, <1>5 DEF IInv

\* ***B: the callbacks change.
LEMMA LinkStep == ASSUME IInv, Link PROVE IInv'
PROOF
<1> USE DEF Link
<1>1. TypeOK'
  BY TimeAssumption DEF IInv, TypeOK, Libraries, locks, callers
<1>2. Libraries'
  BY ModuleAssumption DEF IInv, TypeOK, Libraries
<1>3. Code'
  BY ModuleAssumption DEF IInv, TypeOK, Libraries, Code, TimerAt
<1>4. Calls'
  BY TimeAssumption DEF IInv, TypeOK, Libraries, Code, Calls, InFlight, callers
<1>5. Locks'
  BY DEF IInv, Locks, locks, callers
<1> QED
  BY <1>1, <1>2, <1>3, <1>4, <1>5 DEF IInv

\* The sleep is over: who still holds the old library has held it too long.
LEMMA FreeOldStep == ASSUME IInv, CallTime < Grace, FreeOld PROVE IInv'
PROOF
<1> USE DEF FreeOld
<1>1. TypeOK'
  BY TimeAssumption DEF IInv, TypeOK, Libraries, locks, callers
<1>2. Libraries'
  BY ModuleAssumption DEF IInv, TypeOK, Libraries
<1>3. Code'
  BY ModuleAssumption DEF IInv, TypeOK, Libraries, Code, TimerAt
<1>4. Calls'
  BY TimeAssumption DEF IInv, TypeOK, Libraries, Code, Calls, InFlight, callers
<1>5. Locks'
  BY DEF IInv, Locks, locks, callers
<1> QED
  BY <1>1, <1>2, <1>3, <1>4, <1>5 DEF IInv

\* The old handle leaves the map.
LEMMA ForgetOldStep == ASSUME IInv, ForgetOld PROVE IInv'
PROOF
<1> USE DEF ForgetOld
<1>1. TypeOK'
  BY TimeAssumption DEF IInv, TypeOK, Libraries, locks, callers
<1>2. Libraries'
  BY ModuleAssumption DEF IInv, TypeOK, Libraries
<1>3. Code'
  BY ModuleAssumption DEF IInv, TypeOK, Libraries, Code, TimerAt
<1>4. Calls'
  BY TimeAssumption DEF IInv, TypeOK, Libraries, Code, Calls, InFlight, callers
<1>5. Locks'
  BY DEF IInv, Locks, locks, callers
<1> QED
  BY <1>1, <1>2, <1>3, <1>4, <1>5 DEF IInv

\* The old library is closed.
LEMMA CloseOldStep == ASSUME IInv, CloseOld PROVE IInv'
PROOF
<1> USE DEF CloseOld
<1>1. TypeOK'
  BY TimeAssumption DEF IInv, TypeOK, Libraries, locks, callers
<1>2. Libraries'
  BY ModuleAssumption DEF IInv, TypeOK, Libraries
<1>3. Code'
  BY ModuleAssumption DEF IInv, TypeOK, Libraries, Code, TimerAt
<1>4. Calls'
  BY TimeAssumption DEF IInv, TypeOK, Libraries, Code, Calls, InFlight, callers
<1>5. Locks'
  BY DEF IInv, Locks, locks, callers
<1> QED
  BY <1>1, <1>2, <1>3, <1>4, <1>5 DEF IInv

\* A second passes for all who hold a pointer and for the update.
LEMMA TickStep == ASSUME IInv, Tick PROVE IInv'
PROOF
<1> USE DEF Tick
<1>1. TypeOK'
  BY TimeAssumption DEF IInv, TypeOK, Asleep, InFlight, module, locks
<1>2. Libraries' /\ Code'
  BY DEF IInv, Libraries, Code, TimerAt, module
<1>3. Calls'
  BY TimeAssumption DEF IInv, TypeOK, Calls, InFlight, Asleep, module
<1>4. Locks'
  BY DEF IInv, Locks, module, locks
<1> QED
  BY <1>1, <1>2, <1>3, <1>4 DEF IInv

-----------------------------------------------------------------------------
(* The theorems *)

\* No step of a thread, of do_autoupdate or of the clock breaks the invariant.
LEMMA Inductive == ASSUME InTime PROVE IInv /\ [Next]_vars => IInv'
PROOF
<1> SUFFICES ASSUME IInv, [Next]_vars PROVE IInv'
  OBVIOUS
<1>1. ASSUME NEW c \in Caller, Call(c) \/ Fire(c) \/ Proceed(c) PROVE IInv'
  BY <1>1, CallStep, FireStep, RefuseStep, AdmitStep, AcquireStep, TestStep,
     ReadRefStep, AddRefStep, EnterStep, ReturnStep, ReleaseRefStep DEF Proceed
<1>2. CASE OpenNew \/ GoOn
  BY <1>2, OpenNewStep, InitFailsStep, InitNewStep, SwitchStep, LinkStep,
     FreeOldStep, ForgetOldStep, CloseOldStep DEF GoOn, InTime
<1>3. CASE Tick
  BY <1>3, TickStep
<1>4. CASE UNCHANGED vars
  BY <1>4 DEF IInv, TypeOK, Libraries, Code, TimerAt, Calls, InFlight, Locks,
     vars, module, locks, callers, updater
<1> QED
  BY <1>1, <1>2, <1>3, <1>4 DEF Next

\* In every reachable state: the invariant that the theorems below rest on.
THEOREM Keeps == ASSUME InTime PROVE Spec => []IInv
PROOF
  BY InitIInv, Inductive, PTL DEF Spec

\* The variables keep their types; the bound on loads, that no library is
\* opened twice or closed once too often, needs the whole invariant.
THEOREM TypeCorrect == ASSUME InTime PROVE Spec => []TypeOK
PROOF
<1>1. IInv => TypeOK
  BY DEF IInv
<1> QED
  BY <1>1, Keeps, PTL

\* Whatever the threads, libraries, lock state and durations, as long as a
\* call is shorter than the update's sleep: no thread runs in a library that
\* is not set up, was ended or is unloaded (do_autoupdate, CGCApp.cpp:664).
THEOREM NeverUnloaded == ASSUME InTime PROVE Spec => []RunsInLive
PROOF
<1>1. IInv => RunsInLive
  BY DEF IInv, TypeOK, Libraries, Code, Calls, RunsInLive
<1> QED
  BY <1>1, Keeps, PTL

\* LS_WAIT admits one SOTP call at a time, during an update too, as the lock
\* is the application's and not the library's.
THEOREM OneAtATime == ASSUME InTime PROVE Spec => []WaitSerial
PROOF
<1>1. IInv => WaitSerial
  BY DEF IInv, Locks, WaitSerial
<1> QED
  BY <1>1, Keeps, PTL

\* Every update, failed or not, leaves one library, and a module that is set
\* up has its callbacks and timer in it, if a Free2 spares the timers.
THEOREM UpdatesSettle == ASSUME InTime, ~KillsTimers PROVE Spec => []Settled
PROOF
<1>1. IInv => Settled
  BY DEF IInv, TypeOK, Libraries, Code, TimerAt, Settled
<1> QED
  BY <1>1, Keeps, PTL

\* A started module refuses no call because of an update: what the comment at
\* ***A (CGCApp.cpp:556) fears cannot happen.
THEOREM NeverRefused == ASSUME InTime PROVE Spec => NoGap
PROOF
<1>1. ASSUME IInv, Next, NEW c \in Caller, pc[c] = "found", pc'[c] = "idle"
      PROVE  ~inited
  <2>1. ASSUME NEW d \in Caller, Call(d) \/ Fire(d) \/ Proceed(d)
        PROVE  Refuse(c)
    <3>1. d = c
      BY <1>1, <2>1 DEF IInv, TypeOK, Call, Fire, Proceed, Refuse, Admit,
         Acquire, Test, ReadRef, AddRef, Enter, Return, ReleaseRef, Goto
    <3>2. ~Admit(c)
      BY <1>1 DEF IInv, TypeOK, Admit, Gate, Goto
    <3> QED
      BY <1>1, <2>1, <3>1, <3>2 DEF Call, Fire, Proceed, Acquire, Test,
         ReadRef, AddRef, Enter, Return, ReleaseRef
  <2>2. ASSUME Refuse(c) PROVE ~inited
    BY <1>1, <2>2 DEF IInv, Calls, Refuse, Serves
  <2>3. ~(OpenNew \/ GoOn \/ Tick)
    BY <1>1 DEF OpenNew, GoOn, InitFails, InitNew, Switch, Link, FreeOld,
       ForgetOld, CloseOld, Tick, callers
  <2> QED
    BY <1>1, <2>1, <2>2, <2>3 DEF Next
<1>2. IInv /\ [Next]_vars =>
        [\A c \in Caller : pc[c] = "found" /\ pc'[c] = "idle" => ~inited]_vars
  BY <1>1
<1> QED
  BY <1>2, Keeps, PTL DEF Spec, NoGap

=============================================================================
