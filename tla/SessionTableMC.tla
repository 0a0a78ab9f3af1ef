-------------------------- MODULE SessionTableMC --------------------------
(***************************************************************************)
(* SessionTable for TLC: a client that opens and closes when the server is *)
(* done with its former requests, one that also calls without opening, and *)
(* clients that keep no rule, are refused, or are heard twice.             *)
(***************************************************************************)
EXTENDS SessionTable

CONSTANTS c1, c2, t1, t2, t3

Patient3 == [clients |-> {c1}, threads |-> {t1, t2, t3}, reqs |-> 3, copies |-> 2,
             settle |-> TRUE, sessionless |-> FALSE, mayRefuse |-> FALSE,
             quick |-> TRUE, alive |-> TRUE]
Hasty2   == [clients |-> {c1}, threads |-> {t1, t2}, reqs |-> 2, copies |-> 1,
             settle |-> FALSE, sessionless |-> TRUE, mayRefuse |-> TRUE,
             quick |-> FALSE, alive |-> FALSE]
Twice2   == [Hasty2 EXCEPT !.copies = 2, !.sessionless = FALSE, !.mayRefuse = FALSE]

AllUses == {[Patient3 EXCEPT !.reqs = 4], [Patient3 EXCEPT !.sessionless = TRUE],
            Hasty2, Twice2, [Hasty2 EXCEPT !.reqs = 1, !.clients = {c1, c2}]}
=============================================================================
