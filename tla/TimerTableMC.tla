---------------------------- MODULE TimerTableMC ----------------------------
(***************************************************************************)
(* TimerTable for TLC: two workers with a timer each, or one with one.     *)
(***************************************************************************)
EXTENDS TimerTable

CONSTANTS w1, w2, i1, i2

OwnerOf == [i \in Id |-> IF i = i2 /\ w2 \in Worker THEN w2 ELSE w1]

FirstMost == [w \in Worker |-> IF w = w1 THEN 3 ELSE 1]

\* Periodic timers that their callbacks set again, cleared by KillAllTimer.
Periodic == [workerOps |-> {"set", "kill", "killall"}, callbackOps |-> {"set"},
             resets |-> TRUE, ops |-> FirstMost,
             oneShots |-> {}, timers |-> 3, safeHandler |-> TRUE, spawnMayFail |-> TRUE,
             prompt |-> TRUE]

\* A periodic timer that its callback kills, set again when it is gone, and a
\* one-shot timer.
SelfKilled == [workerOps |-> {"set", "oneshot", "kill"}, callbackOps |-> {"kill"},
               resets |-> FALSE, ops |-> FirstMost,
               oneShots |-> {i2}, timers |-> 4, safeHandler |-> FALSE, spawnMayFail |-> FALSE,
               prompt |-> TRUE]

\* Periodic timers that fire at once, before their handle is stored, and whose
\* callbacks leave the table alone.
AtOnce == [Periodic EXCEPT !.callbackOps = {}, !.timers = 4, !.safeHandler = FALSE,
                           !.spawnMayFail = FALSE, !.prompt = FALSE]

\* One timer whose callback sets it while KillAllTimer runs.
SetAgain == [Periodic EXCEPT !.workerOps = {"set", "killall"}, !.timers = 2,
                             !.ops = [w \in Worker |-> 2],
                             !.safeHandler = FALSE, !.spawnMayFail = FALSE]

AllUses      == {Periodic, SelfKilled, AtOnce}
SetAgainOnly == {SetAgain}
=============================================================================
