----------------------------- MODULE MysqlPool -----------------------------
(***************************************************************************)
(* The pool of database connections of the MySQL service (MysqlPool.cpp)   *)
(* and the calls of the service that borrow from it (MysqlService.cpp).    *)
(*                                                                         *)
(* A sink is a place for a connection.  Sinks 1 .. size are in use by the  *)
(* pool; a borrower walks them under the pool's read lock and claims the   *)
(* first idle one by its busy flag, opening it again when it was closed    *)
(* for a while.  SinkAdd and SinkDel change size under the write lock, so  *)
(* each is one step that no walk overlaps; a borrower's flag, connection   *)
(* and query need no lock.                                                 *)
(*                                                                         *)
(* The database server and its client library are external: connecting     *)
(* and querying succeed, fail with a server error (IsServerError) or fail  *)
(* otherwise, as they please.  A call refused because of a recent server   *)
(* error changes nothing and is not an action.                             *)
(***************************************************************************)
EXTENDS Integers

CONSTANTS
  Client,        \* threads that call the service
  MinSize,       \* m_nSinkMin
  MaxSize,       \* m_nSinkMax
  Patience,      \* walks without an idle sink before SinkAdd (30 in the code)
  ErrorLimit     \* failed SinkAdds before SinkGet gives up (3 in the code)

ASSUME SizeAssumption ==
  MinSize \in Nat \ {0} /\ MaxSize \in Nat /\ MinSize <= MaxSize

ASSUME CountAssumption == Patience \in Nat /\ ErrorLimit \in Nat

Sink == 1 .. MaxSize

VARIABLES
  size,          \* m_nSinkSize
  sink,          \* the CMysqlSinks: [busy, conn, aged]
  lastError,     \* m_nLastErrorCode, one for all clients
  pc,            \* where a client is in SinkGet or in a call of the service
  at,            \* the sink its walk is at, or the one it has
  tries,         \* nosinkcount
  errors,        \* nErrorCount
  work           \* what became of a transaction's statements that returned OK

vars == <<size, sink, lastError, pc, at, tries, errors, work>>

Borrow  == {"execute", "select", "begin"}        \* calls that take a sink
InTrans == {"statement", "commit", "rollback"}   \* calls on a transaction's
Outcome == {"ok", "server", "other"}             \* of a connect or a query

\* PoolInit, as far as open() lets the service go on: one of the first
\* MinSize connections at least was made.  m_nCloseTime is 0: long ago.
Init ==
  /\ size = MinSize
  /\ \E up \in (SUBSET (1 .. MinSize)) \ {{}} :
       sink = [s \in Sink |-> [busy |-> FALSE, conn |-> s \in up, aged |-> TRUE]]
  /\ lastError = "ok"
  /\ pc = [c \in Client |-> "idle"] /\ at = [c \in Client |-> 1]
  /\ tries = [c \in Client |-> 0] /\ errors = [c \in Client |-> 0]
  /\ work = [c \in Client |-> "none"]

Goto(c, l)  == pc' = [pc EXCEPT ![c] = l]
\* What the locals of SinkGet are once it has returned.
Forget(c)   == /\ tries' = [tries EXCEPT ![c] = 0]
               /\ errors' = [errors EXCEPT ![c] = 0]
\* The call of the service returns.
Return(c)   == /\ Goto(c, "idle") /\ Forget(c)
               /\ at' = [at EXCEPT ![c] = 1]
My(c)       == sink[at[c]]
\* The pool's read lock is held from the first sink of a walk to the last.
Walking(c)  == pc[c] \in {"walk", "reconnect"}
NoReader    == \A c \in Client : ~Walking(c)
Owns(c)     == pc[c] \in {"reconnect", "got", "trim", "query", "rows", "trans"}

-----------------------------------------------------------------------------
(* CMysqlPool::SinkGet *)

\* A call of the service that needs a sink; which one shows at its query.
Ask(c) ==
  /\ pc[c] = "idle"
  /\ Goto(c, "enter")
  /\ UNCHANGED <<size, sink, lastError, at, tries, errors, work>>

Enter(c) ==
  /\ pc[c] = "enter"
  /\ Goto(c, "walk")
  /\ at' = [at EXCEPT ![c] = 1]
  /\ UNCHANGED <<size, sink, lastError, tries, errors, work>>

\* A busy sink, or one whose connection was closed within the last minute.
PassOver(c) ==
  /\ pc[c] = "walk" /\ at[c] <= size
  /\ My(c).busy \/ (~My(c).conn /\ ~My(c).aged)
  /\ at' = [at EXCEPT ![c] = @ + 1]
  /\ UNCHANGED <<size, sink, lastError, pc, tries, errors, work>>

\* IsIdleAndSetBusy; a connection that is closed must be made first.
Claim(c) ==
  /\ pc[c] = "walk" /\ at[c] <= size
  /\ ~My(c).busy /\ (My(c).conn \/ My(c).aged)
  /\ sink' = [sink EXCEPT ![at[c]].busy = TRUE]
  /\ Goto(c, IF My(c).conn THEN "got" ELSE "reconnect")
  /\ UNCHANGED <<size, lastError, at, tries, errors, work>>

Reconnected(c) ==
  /\ pc[c] = "reconnect"
  /\ sink' = [sink EXCEPT ![at[c]].conn = TRUE]
  /\ Goto(c, "got")
  /\ UNCHANGED <<size, lastError, at, tries, errors, work>>

\* A server error ends SinkGet, another one the look at this sink.
ReconnectFails(c, r) ==
  /\ pc[c] = "reconnect"
  /\ sink' = [sink EXCEPT ![at[c]] = [busy |-> FALSE, conn |-> FALSE, aged |-> FALSE]]
  /\ lastError' = r
  /\ \/ r = "server" /\ Return(c)
     \/ /\ r = "other" /\ Goto(c, "walk")
        /\ at' = [at EXCEPT ![c] = @ + 1]
        /\ UNCHANGED <<tries, errors>>
  /\ UNCHANGED <<size, work>>

\* Faulty variant: the count goes on when a sink is wanted.
WalkOverOn(c) ==
  /\ pc[c] = "walk" /\ at[c] > size
  /\ tries' = [tries EXCEPT ![c] = @ + 1]
  /\ Goto(c, IF size = 0 \/ tries[c] > Patience THEN "add" ELSE "enter")
  /\ UNCHANGED <<size, sink, lastError, at, errors, work>>

\* After a walk without success the client sleeps, or wants another sink.
WalkOver(c) ==
  /\ pc[c] = "walk" /\ at[c] > size
  /\ IF size = 0 \/ tries[c] > Patience
     THEN Goto(c, "add") /\ tries' = [tries EXCEPT ![c] = 0]
     ELSE Goto(c, "enter") /\ tries' = [tries EXCEPT ![c] = @ + 1]
  /\ UNCHANGED <<size, sink, lastError, at, errors, work>>

\* The sink one gets may not be the only one too many: every now and then
\* one is closed.  The counter that says when (theminnumbercount) is static
\* and unlocked, so that it may be anything.
MayTrim(c) == size > MinSize /\ (at[c] <= MinSize \/ at[c] - 1 <= MaxSize \div 2)

Trim(c) ==
  /\ pc[c] = "got" /\ MayTrim(c)
  /\ Goto(c, "trim") /\ Forget(c)
  /\ UNCHANGED <<size, sink, lastError, at, work>>

Keep(c) ==
  /\ pc[c] = "got"
  /\ Goto(c, "query") /\ Forget(c)
  /\ UNCHANGED <<size, sink, lastError, at, work>>

-----------------------------------------------------------------------------
(* CMysqlPool::SinkAdd and SinkDel, under the write lock *)

Added == size + 1
Full  == size >= MaxSize \/ sink[Added].busy

SinkAdd(c) ==
  /\ pc[c] = "add" /\ NoReader /\ ~Full
  /\ sink' = [sink EXCEPT ![Added] = [@ EXCEPT !.busy = TRUE, !.conn = TRUE]]
  /\ size' = Added
  /\ at' = [at EXCEPT ![c] = Added]
  /\ Goto(c, "query") /\ Forget(c)
  /\ UNCHANGED <<lastError, work>>

\* Whether SinkGet returns NULL after a failed SinkAdd.
GivesUp(c, r) == r = "server" \/ errors[c] >= ErrorLimit

\* Faulty variant: failures are not counted.
SinkAddFailsUncounted(c, r) ==
  /\ pc[c] = "add" /\ NoReader
  /\ IF Full THEN r = lastError ELSE r # "ok"
  /\ lastError' = r
  /\ IF r = "server" THEN Return(c) ELSE Goto(c, "enter") /\ UNCHANGED <<at, tries, errors>>
  /\ UNCHANGED <<size, sink, work>>

\* Full: the error it looks at is whatever the last call of anybody left.
SinkAddFails(c, r) ==
  /\ pc[c] = "add" /\ NoReader
  /\ IF Full THEN r = lastError ELSE r # "ok"
  /\ lastError' = r
  /\ \/ GivesUp(c, r) /\ Return(c)
     \/ /\ ~GivesUp(c, r) /\ Goto(c, "enter")
        /\ errors' = [errors EXCEPT ![c] = @ + 1]
        /\ UNCHANGED <<at, tries>>
  /\ UNCHANGED <<size, sink, work>>

\* Faulty variant: the last sink is closed without a look at its flag.
SinkDelBusy(c) ==
  /\ pc[c] = "trim" /\ NoReader
  /\ IF size > MinSize
     THEN /\ size' = size - 1
          /\ sink' = [sink EXCEPT ![size] = [busy |-> FALSE, conn |-> FALSE, aged |-> FALSE]]
     ELSE UNCHANGED <<size, sink>>
  /\ Goto(c, "query")
  /\ UNCHANGED <<lastError, at, tries, errors, work>>

\* Faulty variant: the connection stays open.
SinkDelOpen(c) ==
  /\ pc[c] = "trim" /\ NoReader
  /\ IF size > MinSize /\ ~sink[size].busy THEN size' = size - 1 ELSE UNCHANGED size
  /\ Goto(c, "query")
  /\ UNCHANGED <<sink, lastError, at, tries, errors, work>>

SinkDel(c) ==
  /\ pc[c] = "trim" /\ NoReader
  /\ IF size > MinSize /\ ~sink[size].busy
     THEN /\ size' = size - 1
          /\ sink' = [sink EXCEPT ![size] = [busy |-> FALSE, conn |-> FALSE, aged |-> FALSE]]
     ELSE UNCHANGED <<size, sink>>
  /\ Goto(c, "query")
  /\ UNCHANGED <<lastError, at, tries, errors, work>>

-----------------------------------------------------------------------------
(* The calls of the service: execute, select, trans_begin, trans_commit,   *)
(* trans_rollback                                                          *)

\* With its connection a transaction loses what it had done.
Dropped(w) == IF w = "done" THEN "lost" ELSE w

\* What is to be said of the transaction when a call on it succeeds.
Worked(o, w) ==
  CASE o = "begin"                    -> "begun"
    [] o = "statement" /\ w = "begun" -> "done"
    [] o = "commit" /\ w = "lost"     -> "torn"
    [] o = "commit" /\ w # "lost"     -> "none"
    [] o = "rollback"                 -> "none"
    [] OTHER                          -> w

\* mysql_query of a sink without a connection is not defined (it reads
\* through NULL): such a client goes no further.
Queries(c, o) ==
  /\ pc[c] = IF o \in Borrow THEN "query" ELSE "trans"
  /\ My(c).conn

\* SinkPut, and the call returns.
GiveBack(c) == sink' = [sink EXCEPT ![at[c]].busy = FALSE] /\ Return(c)

\* The call returns, and the sink stays with what it returned: rows until
\* reset(cookie), a transaction until its commit or rollback.
KeepFor(c, l) == Goto(c, l) /\ UNCHANGED <<sink, at, tries, errors>>

Succeed(c, o, w) ==
  /\ lastError' = "ok"
  /\ work' = [work EXCEPT ![c] = Worked(o, w)]
  /\ \/ o \notin {"begin", "statement"} /\ GiveBack(c)
     \/ o = "select" /\ KeepFor(c, "rows")
     \/ o \in {"begin", "statement"} /\ KeepFor(c, "trans")
  /\ UNCHANGED size

\* A transaction keeps its sink whatever its statement did.
Fail(c, o, w) ==
  /\ work' = [work EXCEPT ![c] = IF o = "statement" THEN w ELSE "none"]
  /\ \/ o # "statement" /\ GiveBack(c)
     \/ o = "statement" /\ KeepFor(c, "trans")
  /\ UNCHANGED size

QuerySucceeds(c, o) == Queries(c, o) /\ Succeed(c, o, work[c])

\* Faulty variant: a failed query does not give the sink back.
QueryFailsKept(c, o) ==
  /\ Queries(c, o)
  /\ lastError' = "other"
  /\ Return(c)
  /\ UNCHANGED <<size, sink, work>>

QueryFails(c, o) == Queries(c, o) /\ lastError' = "other" /\ Fail(c, o, work[c])

\* A server error: Reconnect, then the same query again.
RetrySucceeds(c, o) == Queries(c, o) /\ Succeed(c, o, Dropped(work[c]))

RetryFails(c, o) == Queries(c, o) /\ lastError' = "server" /\ Fail(c, o, Dropped(work[c]))

\* Reconnect fails: the sink stays closed.
RetryLost(c, o) ==
  /\ Queries(c, o)
  /\ lastError' = "server"
  /\ sink' = [sink EXCEPT ![at[c]] = [busy |-> o = "statement", conn |-> FALSE, aged |-> FALSE]]
  /\ work' = [work EXCEPT ![c] = IF o = "statement" THEN Dropped(@) ELSE "none"]
  /\ \/ o # "statement" /\ Return(c)
     \/ o = "statement" /\ Goto(c, "trans") /\ UNCHANGED <<at, tries, errors>>
  /\ UNCHANGED size

\* reset(cookie)
Reset(c) ==
  /\ pc[c] = "rows"
  /\ GiveBack(c)
  /\ UNCHANGED <<size, lastError, work>>

-----------------------------------------------------------------------------

\* A minute passes since a sink's connection was closed.
Age(s) ==
  /\ ~sink[s].conn /\ ~sink[s].aged
  /\ sink' = [sink EXCEPT ![s].aged = TRUE]
  /\ UNCHANGED <<size, lastError, pc, at, tries, errors, work>>

Walk(c) ==
  \/ Enter(c) \/ PassOver(c) \/ Claim(c) \/ Reconnected(c) \/ WalkOver(c)
  \/ \E r \in Outcome : ReconnectFails(c, r)

Add(c)  == SinkAdd(c) \/ \E r \in Outcome : SinkAddFails(c, r)

Get(c)  == Walk(c) \/ Trim(c) \/ Keep(c) \/ Add(c) \/ SinkDel(c)

Query(c, o) ==
  \/ QuerySucceeds(c, o) \/ QueryFails(c, o)
  \/ RetrySucceeds(c, o) \/ RetryFails(c, o) \/ RetryLost(c, o)

Use(c) == Ask(c) \/ Reset(c) \/ \E o \in Borrow \cup InTrans : Query(c, o)

Next == (\E c \in Client : Get(c) \/ Use(c)) \/ \E s \in Sink : Age(s)

Spec == Init /\ [][Next]_vars

\* Threads go on, and a waiting writer gets the pool's lock: once it waits,
\* boost::shared_mutex lets no new reader in.  Nobody has to give a sink
\* back, and the server owes nothing.
FairSpec ==
  /\ Spec
  /\ \A c \in Client : WF_vars(Walk(c)) /\ WF_vars(Trim(c) \/ Keep(c))
  /\ \A c \in Client : SF_vars(Add(c)) /\ SF_vars(SinkDel(c))

-----------------------------------------------------------------------------
(* Properties *)

TypeOK ==
  /\ size \in MinSize .. MaxSize
  /\ sink \in [Sink -> [busy : BOOLEAN, conn : BOOLEAN, aged : BOOLEAN]]
  /\ lastError \in Outcome
  /\ pc \in [Client -> {"idle", "enter", "walk", "reconnect", "add", "got", "trim",
                        "query", "rows", "trans"}]
  /\ at \in [Client -> 1 .. MaxSize + 1]
  /\ tries \in [Client -> 0 .. Patience + 1]
  /\ errors \in [Client -> 0 .. ErrorLimit]
  /\ work \in [Client -> {"none", "begun", "done", "lost", "torn"}]

\* Two threads never talk through one connection (a MYSQL handle is not
\* thread safe), whatever walks, additions and deletions overlap.
Exclusive == \A c, d \in Client : c # d /\ Owns(c) /\ Owns(d) => at[c] # at[d]

\* No way out of SinkGet or of a call loses a sink: a busy one has an owner,
\* and an owner's sink is busy.
NoLostSink ==
  /\ \A s \in Sink : sink[s].busy => \E c \in Client : Owns(c) /\ at[c] = s
  /\ \A c \in Client : Owns(c) => sink[at[c]].busy

\* The pool holds no connection beyond its size, and none of them is lent.
ClosedBeyondSize == \A s \in Sink : s > size => ~sink[s].busy /\ ~sink[s].conn

\* The sink SinkGet returns is connected when the call makes its query.
LentConnected ==
  \A c \in Client :
    pc[c] \in {"got", "trim", "query"} => sink[at[c]].conn

\* A sink has a connection when it is lent and none when the pool shrank.
Connected == ClosedBeyondSize /\ LentConnected

\* "INSERT, UPDATE, DELETE  >= 0 : OK" (cgcCDBCService.h:44): a commit that
\* returns OK has committed every statement that did.
CommitIsWhole == \A c \in Client : work[c] # "torn"

\* SinkGet returns, with a sink or with NULL, even if nobody gives one back.
GetReturns ==
  \A c \in Client :
    pc[c] \in {"enter", "walk", "reconnect", "add", "got", "trim"}
      ~> pc[c] \in {"idle", "query"}
=============================================================================
