------------------------------ MODULE CallOnce ------------------------------
(***************************************************************************)
(* What an acknowledged SOTP call promises to the application that makes   *)
(* it: the server takes the call at most once, a call that is confirmed    *)
(* was taken, and every call is in the end either confirmed or given up.   *)
(* Nothing is said here of sequence numbers, datagrams, resends or clocks; *)
(* module SotpCall shows how the client and the session implement it.      *)
(***************************************************************************)
CONSTANT Call               \* the calls the application may make

VARIABLES
  status,                   \* what the caller knows of each call
  service                   \* what the server did with each call

vars == <<status, service>>

Status  == {"idle", "open", "confirmed", "failed"}
Service == {"none", "taken", "done", "lost"}

TypeOK ==
  /\ status \in [Call -> Status]
  /\ service \in [Call -> Service]

Init ==
  /\ status = [c \in Call |-> "idle"]
  /\ service = [c \in Call |-> "none"]

Issue(c) ==
  /\ status[c] = "idle"
  /\ status' = [status EXCEPT ![c] = "open"]
  /\ UNCHANGED service

\* A call may reach the server after its caller gave it up.
Take(c) ==
  /\ status[c] # "idle"
  /\ service[c] = "none"
  /\ service' = [service EXCEPT ![c] = "taken"]
  /\ UNCHANGED status

Perform(c) ==
  /\ service[c] = "taken"
  /\ service' = [service EXCEPT ![c] = "done"]
  /\ UNCHANGED status

\* The server stops: what was taken and not performed is never performed.
Shutdown ==
  /\ service' = [c \in Call |-> IF service[c] = "taken" THEN "lost" ELSE service[c]]
  /\ UNCHANGED status

Confirm(c) ==
  /\ status[c] = "open"
  /\ service[c] # "none"
  /\ status' = [status EXCEPT ![c] = "confirmed"]
  /\ UNCHANGED service

\* One call times out, or all the open ones are dropped together.
Fail(S) ==
  /\ \A c \in S : status[c] = "open"
  /\ status' = [c \in Call |-> IF c \in S THEN "failed" ELSE status[c]]
  /\ UNCHANGED service

Settle(c) == Confirm(c) \/ \E S \in SUBSET Call : c \in S /\ Fail(S)

Next ==
  \/ \E c \in Call : Issue(c) \/ Take(c) \/ Perform(c) \/ Confirm(c)
  \/ \E S \in SUBSET Call : Fail(S)
  \/ Shutdown

Spec == Init /\ [][Next]_vars

\* The caller learns the fate of every call, and what was taken is performed
\* unless the server stops.
FairSpec ==
  /\ Spec
  /\ \A c \in Call :
       /\ WF_vars(Settle(c))
       /\ WF_vars(Perform(c) \/ (service[c] = "taken" /\ Shutdown))
=============================================================================
