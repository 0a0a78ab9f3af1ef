--------------------------- MODULE SotpSessionMC ---------------------------
(***************************************************************************)
(* SotpSession for TLC: an application that opens and closes only when     *)
(* nothing is in flight, one that does so at once, and one that keeps no   *)
(* rule, changes its address and is refused.                               *)
(***************************************************************************)
EXTENDS SotpSession

Settled4 == [reqs |-> 4, reads |-> 8, remotes |-> 1, expiries |-> 0, seqMod |-> 16,
             settle |-> TRUE, sessionless |-> FALSE, mayRefuse |-> FALSE]

Impatient3 == [Settled4 EXCEPT !.reqs = 3, !.settle = FALSE]

Free2 == [reqs |-> 2, reads |-> 1, remotes |-> 2, expiries |-> 1, seqMod |-> 4,
          settle |-> FALSE, sessionless |-> TRUE, mayRefuse |-> TRUE]

AllUses       == {Settled4, [Impatient3 EXCEPT !.reads = 1], Free2}
ImpatientOnly == {Impatient3}
=============================================================================
