--------------------------- MODULE SessionTable ---------------------------
(***************************************************************************)
(* The table of SOTP sessions (CSessionMgr) under the server's threads.    *)
(*                                                                         *)
(* The communication server hands datagrams to ten or more threads, so     *)
(* several requests of one client, and several copies of one request, are  *)
(* handled at the same time.  The table is two maps, by session id and by  *)
(* remote address; each look-up, insertion and removal locks one of them,  *)
(* and nothing is locked between.  A session has a list of modules, here   *)
(* of one, whose entry says whether CGC_Session_Open accepted it; the      *)
(* callback is made without a lock.                                        *)
(*                                                                         *)
(* SotpSession models the same protocol with each handler as one step and  *)
(* a hostile network.  Here a handler takes as many steps as it has        *)
(* critical sections; a datagram is handled at once, more than once or     *)
(* never, and an answer arrives at once or never.                          *)
(*                                                                         *)
(* CSessionMgr::onRemoteClose, which takes a session out of both maps      *)
(* without CGC_Session_Close when a connection ends, is left out: the      *)
(* communication server of datagrams never calls it.                       *)
(***************************************************************************)
EXTENDS Integers, FiniteSets

CONSTANTS
  Client,        \* clients, each with one address
  Thread,        \* the threads of the communication server
  MaxReq,        \* bound: requests of one client
  MaxSessions,   \* bound: sessions created
  Uses           \* the ways the clients and the modules behave

\* One way of use.
\*   clients      the clients there are
\*   threads      the threads there are
\*   reqs         bound: requests of one client
\*   copies       bound: how often a request may be handled, also at once
\*   settle       a client opens or closes only when no thread works for it
\*   sessionless  clients call without a session id
\*   mayRefuse    CGC_Session_Open may return false
\*   quick        an open is over before another datagram of the client comes
\*   alive        only sessions of a client that is gone expire
Use == [clients : SUBSET Client, threads : SUBSET Thread, reqs : 1 .. MaxReq,
        copies : Nat \ {0}, settle : BOOLEAN, sessionless : BOOLEAN,
        mayRefuse : BOOLEAN, quick : BOOLEAN, alive : BOOLEAN]

ASSUME SessionTableAssumption ==
  /\ {MaxReq, MaxSessions} \subseteq Nat \ {0}
  /\ Uses \subseteq Use
  /\ IsFiniteSet(Thread) /\ Thread # {}
  /\ Client # {} /\ 0 \notin Client

Session == 1 .. MaxSessions
None    == 0
Req     == 1 .. MaxReq
Item    == 1 .. Cardinality(Thread) + 1
Kind    == {"open", "close", "call"}
Request == [client : Client, id : Req, kind : Kind, sid : Session \cup {None}]

VARIABLES
  use,           \* how the clients and modules behave, in this behaviour
  made,          \* requests made so far, per client
  net,           \* requests that may arrive, and how often: [req, left]
  cSid,          \* each client's m_sSessionId
  th,            \* each thread: where it is, its request, session and entry
  sess,          \* the CSessionImpl objects
  byId,          \* m_mapSessionImpl, as a set of session ids
  byRemote,      \* m_mapRemoteSessionId: the session of a client's address
  opening,       \* m_mapRemoteOpenSes
  expired,       \* ProcLastAccessedTime: sessions erased, still to be closed
  opens,         \* CGC_Session_Open callbacks accepted, per session
  closes         \* CGC_Session_Close callbacks made, per session

clients == <<use, made, net, cSid>>
vars    == <<clients, th, sess, byId, byRemote, opening, expired, opens, closes>>

Place == {"idle", "heard", "find", "create", "map", "list", "add", "callback",
          "unmap", "erase", "bysid", "remap", "mark", "enter", "again", "unmark",
          "module", "running", "close", "invalidate"}

\* A session object.  item is the present entry of its module list (None:
\* the list is empty), open that entry's m_bOpenSessioned.
SessionImpl == [owner : Client \cup {None}, seen : SUBSET Req, item : Item \cup {None},
                open : BOOLEAN, idle : BOOLEAN]
Unused      == [owner |-> None, seen |-> {}, item |-> None,
                open |-> FALSE, idle |-> FALSE]

NoRequest == [client |-> CHOOSE c \in Client : TRUE, id |-> 1, kind |-> "open", sid |-> None]
Rest      == [at |-> "idle", req |-> NoRequest, s |-> None, item |-> None]

Init ==
  /\ use \in Uses
  /\ made = [c \in Client |-> 0]
  /\ net = {}
  /\ cSid = [c \in Client |-> None]
  /\ th = [t \in Thread |-> Rest]
  /\ sess = [s \in Session |-> Unused]
  /\ byId = {}
  /\ byRemote = [c \in Client |-> None]
  /\ opening = {}
  /\ expired = {}
  /\ opens = [s \in Session |-> 0] /\ closes = [s \in Session |-> 0]

Busy     == {t \in Thread : th[t].at # "idle"}
Works(c) == \E t \in Busy : th[t].req.client = c
Held     == {th[t].s : t \in Busy}

-----------------------------------------------------------------------------
(* The clients and the network *)

Send(c, kind) ==
  LET q == [client |-> c, id |-> made[c] + 1, kind |-> kind, sid |-> cSid[c]] IN
  /\ made[c] < use.reqs
  /\ made' = [made EXCEPT ![c] = @ + 1]
  /\ net' = net \cup {[req |-> q, left |-> use.copies]}
  /\ cSid' = IF kind = "close" THEN [cSid EXCEPT ![c] = None] ELSE cSid
  /\ UNCHANGED <<use, th, sess, byId, byRemote, opening, expired, opens, closes>>

Settled(c) == ~Works(c) /\ \A m \in net : m.req.client # c

Gone(c)    == Settled(c) /\ made[c] = use.reqs

SendOpen(c) ==
  /\ cSid[c] = None
  /\ use.settle => Settled(c)
  /\ Send(c, "open")

SendClose(c) ==
  /\ cSid[c] # None
  /\ use.settle => Settled(c)
  /\ Send(c, "close")

SendCall(c) ==
  /\ use.sessionless \/ cSid[c] # None
  /\ Send(c, "call")

\* No datagram is repeated for ever.
Lose(m) ==
  /\ net' = net \ {m}
  /\ UNCHANGED <<use, made, cSid, th, sess, byId, byRemote, opening, expired, opens, closes>>

\* A result reaches client c, whose id becomes sid, or is lost.
Result(c, sid) == cSid' = cSid \/ cSid' = [cSid EXCEPT ![c] = sid]

-----------------------------------------------------------------------------
(* The threads: ProcCgcData *)

At(t, place) == th[t].at = place
Go(t, place) == th' = [th EXCEPT ![t].at = place]
GoWith(t, place, s) == th' = [th EXCEPT ![t].at = place, ![t].s = s]
Leave(t)     == th' = [th EXCEPT ![t] = Rest]
Mine(t)      == th[t].req.client

\* setDataResponseImpl
Touched(s)   == [sess EXCEPT ![s].idle = FALSE]

\* ProcSesProto or ProcAppProto, with session s or none.
Handler(q, s) ==
  CASE q.kind = "open"  -> IF s = None THEN "find" ELSE "list"
    [] q.kind = "close" -> IF s = None THEN "bysid" ELSE "close"
    [] q.kind = "call"  -> IF s # None THEN "module"
                           ELSE IF q.sid = None THEN "mark" ELSE "bysid"

\* A thread opens a session for client c.
IsOpening(c) ==
  \E t \in Busy : /\ Mine(t) = c /\ th[t].req.kind # "close"
                  /\ th[t].at \in {"find", "create", "map", "list", "add", "callback",
                                  "unmap", "erase", "mark", "enter", "again", "unmark"}

Created == {s \in Session : sess[s].owner # None}

\* A session's id.  The code joins the second of creation, a counter modulo
\* 255 that is kept without a lock, and the remote's id modulo 255: two ids
\* made in one second can be equal.  Here an id is always a new one.
NewId == CHOOSE s \in Session : s \notin Created

\* GetSessionImplByRemote.  Bound: there is an unused id for every thread.
Take(t, m) ==
  LET q == m.req
      s == byRemote[q.client] IN
  /\ At(t, "idle")
  /\ use.quick => ~IsOpening(q.client)
  /\ Cardinality(Created) + Cardinality(Busy) < MaxSessions
  /\ net' = (net \ {m}) \cup (IF m.left = 1 THEN {} ELSE {[m EXCEPT !.left = @ - 1]})
  /\ th' = [th EXCEPT ![t] = [at |-> IF s = None THEN Handler(q, None) ELSE "heard",
                              req |-> q, s |-> s, item |-> None]]
  /\ UNCHANGED <<use, made, cSid, sess, byId, byRemote, opening, expired, opens, closes>>

\* setDataResponseImpl and ProcessDuplationSeq.
Heard(t) ==
  LET s == th[t].s
      q == th[t].req IN
  /\ At(t, "heard")
  /\ sess' = [Touched(s) EXCEPT ![s].seen = @ \cup {q.id}]
  /\ IF q.id \in sess[s].seen THEN Leave(t) ELSE Go(t, Handler(q, s))
  /\ UNCHANGED <<clients, byId, byRemote, opening, expired, opens, closes>>

-----------------------------------------------------------------------------
(* SetSessionImpl and OnRunCGC_Session_Open *)

\* The first look into m_mapRemoteSessionId.
Find(t) ==
  LET s == byRemote[Mine(t)] IN
  /\ At(t, "find")
  /\ IF s = None THEN Go(t, "create") /\ UNCHANGED sess
                 ELSE GoWith(t, "list", s) /\ sess' = Touched(s)
  /\ UNCHANGED <<clients, byId, byRemote, opening, expired, opens, closes>>

\* Faulty variant: the session does not keep its remote.
CreateUnowned(t) ==
  /\ At(t, "create") /\ Created # Session
  /\ byId' = byId \cup {NewId}
  /\ GoWith(t, "map", NewId)
  /\ UNCHANGED <<clients, sess, byRemote, opening, expired, opens, closes>>

\* The new session, with its module's entry, goes into the first map ...
Create(t) ==
  /\ At(t, "create") /\ Created # Session
  /\ sess' = [sess EXCEPT ![NewId] = [Unused EXCEPT !.owner = Mine(t), !.item = 1]]
  /\ byId' = byId \cup {NewId}
  /\ GoWith(t, "map", NewId)
  /\ UNCHANGED <<clients, byRemote, opening, expired, opens, closes>>

\* Faulty variant: the second map is forgotten.
MapNothing(t) ==
  /\ At(t, "map")
  /\ Go(t, "list")
  /\ UNCHANGED <<clients, sess, byId, byRemote, opening, expired, opens, closes>>

\* ... and into the second, in place of any other.
Map(t) ==
  /\ At(t, "map")
  /\ byRemote' = [byRemote EXCEPT ![Mine(t)] = th[t].s]
  /\ Go(t, "list")
  /\ UNCHANGED <<clients, sess, byId, opening, expired, opens, closes>>

\* The session is open: the request is answered or, a call, goes on.
Opened(t) ==
  IF th[t].req.kind = "open"
  THEN Leave(t) /\ Result(Mine(t), th[t].s)
  ELSE Go(t, "unmark") /\ UNCHANGED cSid

\* Faulty variant: m_bOpenSessioned is not looked at.
ListUnchecked(t) ==
  LET s == th[t].s IN
  /\ At(t, "list")
  /\ IF sess[s].item = None THEN Go(t, "add")
     ELSE th' = [th EXCEPT ![t].at = "callback", ![t].item = sess[s].item]
  /\ UNCHANGED <<clients, sess, byId, byRemote, opening, expired, opens, closes>>

\* addModuleItem finds the entry; without one it makes one.
List(t) ==
  LET s == th[t].s IN
  /\ At(t, "list")
  /\ \/ sess[s].item = None /\ Go(t, "add") /\ UNCHANGED cSid
     \/ sess[s].item # None /\ sess[s].open /\ Opened(t)
     \/ /\ sess[s].item # None /\ ~sess[s].open
        /\ th' = [th EXCEPT ![t].at = "callback", ![t].item = sess[s].item]
        /\ UNCHANGED cSid
  /\ UNCHANGED <<use, made, net, sess, byId, byRemote, opening, expired, opens, closes>>

\* Entries that no thread holds and the list does not have.
FreeItem(s) ==
  {i \in Item : i # sess[s].item /\ \A u \in Busy : th[u].s = s => th[u].item # i}
NewItem(s) == CHOOSE i \in FreeItem(s) : TRUE

\* The new entry takes the place of one that was added meanwhile.
Add(t) ==
  LET s == th[t].s IN
  /\ At(t, "add") /\ FreeItem(s) # {}
  /\ sess' = [sess EXCEPT ![s].item = NewItem(s), ![s].open = FALSE]
  /\ th' = [th EXCEPT ![t].at = "callback", ![t].item = NewItem(s)]
  /\ UNCHANGED <<clients, byId, byRemote, opening, expired, opens, closes>>

\* CGC_Session_Open returns true.  The entry may have left the list since.
Accept(t) ==
  LET s == th[t].s IN
  /\ At(t, "callback")
  /\ opens' = [opens EXCEPT ![s] = @ + 1]
  /\ sess' = [sess EXCEPT ![s].open = @ \/ sess[s].item = th[t].item]
  /\ Opened(t)
  /\ UNCHANGED <<use, made, net, byId, byRemote, opening, expired, closes>>

\* It returns false: whatever entry the list has for the module goes.
Refuse(t) ==
  /\ At(t, "callback") /\ use.mayRefuse
  /\ sess' = [sess EXCEPT ![th[t].s].item = None, ![th[t].s].open = FALSE]
  /\ Go(t, "unmap")
  /\ UNCHANGED <<clients, byId, byRemote, opening, expired, opens, closes>>

-----------------------------------------------------------------------------
(* RemoveSessionImpl *)

\* Whatever session the address leads to.
Unmap(t) ==
  /\ At(t, "unmap")
  /\ byRemote' = [byRemote EXCEPT ![sess[th[t].s].owner] = None]
  /\ Go(t, "erase")
  /\ UNCHANGED <<clients, sess, byId, opening, expired, opens, closes>>

\* A refused open is answered with the id, a refused call goes on without
\* a session, and a close is over.
Erase(t) ==
  LET q == th[t].req IN
  /\ At(t, "erase")
  /\ byId' = byId \ {th[t].s}
  /\ \/ q.kind = "open" /\ Leave(t) /\ Result(q.client, th[t].s)
     \/ q.kind = "call" /\ GoWith(t, "unmark", None) /\ UNCHANGED cSid
     \/ q.kind = "close" /\ Leave(t) /\ UNCHANGED cSid
  /\ UNCHANGED <<use, made, net, sess, byRemote, opening, expired, opens, closes>>

-----------------------------------------------------------------------------
(* ProcSesProto, close *)

\* GetSessionImpl by the request's id, for a close or a call.
BySid(t) ==
  LET q == th[t].req IN
  /\ At(t, "bysid")
  /\ IF q.sid \in byId
     THEN GoWith(t, IF q.kind = "close" THEN "close" ELSE "remap", q.sid) /\ UNCHANGED cSid
     ELSE Leave(t) /\ Result(q.client, None)
  /\ UNCHANGED <<use, made, net, sess, byId, byRemote, opening, expired, opens, closes>>

\* The result is sent before the session is closed.
AnswerClose(t) ==
  /\ At(t, "close")
  /\ sess' = Touched(th[t].s)
  /\ Go(t, "invalidate")
  /\ Result(Mine(t), None)
  /\ UNCHANGED <<use, made, net, byId, byRemote, opening, expired, opens, closes>>

\* invalidate: the list is emptied under its lock, with the callback.
ListEmptied(s) == [sess EXCEPT ![s].item = None, ![s].open = FALSE]

CallbackMade(s) == IF sess[s].open THEN [closes EXCEPT ![s] = @ + 1] ELSE closes

Invalidate(t) ==
  /\ At(t, "invalidate")
  /\ sess' = ListEmptied(th[t].s)
  /\ closes' = CallbackMade(th[t].s)
  /\ Go(t, "unmap")
  /\ UNCHANGED <<clients, byId, byRemote, opening, expired, opens>>

-----------------------------------------------------------------------------
(* ProcAppProto *)

\* GetSessionImpl with the new address, setDataResponseImpl.
Remap(t) ==
  LET s == th[t].s IN
  /\ At(t, "remap")
  /\ byRemote' = [byRemote EXCEPT ![Mine(t)] = s]
  /\ sess' = Touched(s)
  /\ Go(t, "module")
  /\ UNCHANGED <<clients, byId, opening, expired, opens, closes>>

\* A call without an id: m_mapRemoteOpenSes delays a second one by 100 ms,
\* for which nothing stands here, as the callback may take longer.
Mark(t) ==
  /\ At(t, "mark")
  /\ Go(t, IF Mine(t) \in opening THEN "again" ELSE "enter")
  /\ UNCHANGED <<clients, sess, byId, byRemote, opening, expired, opens, closes>>

Enter(t) ==
  /\ At(t, "enter")
  /\ opening' = opening \cup {Mine(t)}
  /\ Go(t, "again")
  /\ UNCHANGED <<clients, sess, byId, byRemote, expired, opens, closes>>

Again(t) ==
  LET s == byRemote[Mine(t)] IN
  /\ At(t, "again")
  /\ GoWith(t, IF s = None THEN "find" ELSE "unmark", s)
  /\ UNCHANGED <<clients, sess, byId, byRemote, opening, expired, opens, closes>>

Unmark(t) ==
  /\ At(t, "unmark")
  /\ opening' = opening \ {Mine(t)}
  /\ IF th[t].s = None THEN Leave(t) /\ Result(Mine(t), None)
                       ELSE Go(t, "module") /\ UNCHANGED cSid
  /\ UNCHANGED <<use, made, net, sess, byId, byRemote, expired, opens, closes>>

\* getModuleItem; a session this thread opened is answered for first.
Module(t) ==
  LET s == th[t].s IN
  /\ At(t, "module")
  /\ IF sess[s].item = None THEN Leave(t) /\ Result(Mine(t), None)
     ELSE Go(t, "running") /\ IF th[t].item # None THEN Result(Mine(t), s) ELSE UNCHANGED cSid
  /\ UNCHANGED <<use, made, net, sess, byId, byRemote, opening, expired, opens, closes>>

\* The call returns and its result is sent.
Return(t) ==
  /\ At(t, "running")
  /\ Leave(t)
  /\ UNCHANGED <<clients, sess, byId, byRemote, opening, expired, opens, closes>>

-----------------------------------------------------------------------------
(* The timer's thread *)

\* getMaxInactiveInterval minutes without a datagram, longer than a thread
\* holds a session.
Age(s) ==
  /\ s \in Created \ Held /\ ~sess[s].idle
  /\ use.alive => Gone(sess[s].owner)
  /\ sess' = [sess EXCEPT ![s].idle = TRUE]
  /\ UNCHANGED <<clients, th, byId, byRemote, opening, expired, opens, closes>>

\* ProcLastAccessedTime, under the first map's lock ...
Expire ==
  LET old == {s \in byId : sess[s].idle} IN
  /\ expired = {} /\ old # {}
  /\ byId' = byId \ old
  /\ expired' = {<<s, "invalidate">> : s \in old}
  /\ UNCHANGED <<clients, th, sess, byRemote, opening, opens, closes>>

\* ... and without it: OnSessionClosedTimeout of each.
CloseExpired(s) ==
  /\ <<s, "invalidate">> \in expired
  /\ expired' = (expired \ {<<s, "invalidate">>}) \cup {<<s, "unmap">>}
  /\ sess' = ListEmptied(s)
  /\ closes' = CallbackMade(s)
  /\ UNCHANGED <<clients, th, byId, byRemote, opening, opens>>

UnmapExpired(s) ==
  /\ <<s, "unmap">> \in expired
  /\ expired' = expired \ {<<s, "unmap">>}
  /\ byRemote' = [byRemote EXCEPT ![sess[s].owner] = None]
  /\ UNCHANGED <<clients, th, sess, byId, opening, opens, closes>>

\* Faulty variant: the list is not cleared.
DropNothing ==
  /\ \E c \in Client : byRemote[c] # None /\ byRemote[c] \notin byId
  /\ UNCHANGED <<clients, th, sess, byId, byRemote, opening, expired, opens, closes>>

\* ProcInvalidRemoteIdList, once an hour: idle for 30 minutes more.
DropStale ==
  LET stale == {c \in Client : byRemote[c] # None /\ byRemote[c] \notin byId
                                   /\ sess[byRemote[c]].idle} IN
  /\ expired = {} /\ stale # {}
  /\ byRemote' = [c \in Client |-> IF c \in stale THEN None ELSE byRemote[c]]
  /\ UNCHANGED <<clients, th, sess, byId, opening, expired, opens, closes>>

-----------------------------------------------------------------------------

ClientStep(c) == SendOpen(c) \/ SendClose(c) \/ SendCall(c)

ThreadStep(t) ==
  \/ Heard(t)
  \/ Find(t) \/ Create(t) \/ Map(t) \/ List(t) \/ Add(t) \/ Accept(t) \/ Refuse(t)
  \/ Unmap(t) \/ Erase(t)
  \/ BySid(t) \/ AnswerClose(t) \/ Invalidate(t)
  \/ Remap(t) \/ Mark(t) \/ Enter(t) \/ Again(t) \/ Unmark(t) \/ Module(t) \/ Return(t)

TimerStep == Expire \/ DropStale \/ \E s \in Session : CloseExpired(s) \/ UnmapExpired(s)

Next ==
  \/ \E c \in use.clients : ClientStep(c)
  \/ \E m \in net : Lose(m)
  \/ \E t \in use.threads : ThreadStep(t)
  \/ \E t \in use.threads, m \in net : Take(t, m)
  \/ \E s \in Session : Age(s)
  \/ TimerStep

Spec == Init /\ [][Next]_vars

\* Threads and the timer go on, no datagram is repeated for ever, and the
\* clients fall silent in the end.
Fairness ==
  /\ \A t \in Thread : WF_vars(ThreadStep(t))
  /\ WF_vars(TimerStep)
  /\ WF_vars(\E m \in net : Lose(m))
  /\ \A s \in Session : WF_vars(Age(s))

FairSpec == Spec /\ Fairness

-----------------------------------------------------------------------------
(* Properties *)

TypeOK ==
  /\ use \in Uses
  /\ made \in [Client -> 0 .. MaxReq] /\ net \subseteq [req : Request, left : 1 .. use.copies]
  /\ cSid \in [Client -> Session \cup {None}]
  /\ th \in [Thread -> [at : Place, req : Request, s : Session \cup {None},
                        item : Item \cup {None}]]
  /\ sess \in [Session -> SessionImpl]
  /\ byId \subseteq Created
  /\ byRemote \in [Client -> Session \cup {None}]
  /\ opening \subseteq Client
  /\ expired \subseteq Session \X {"invalidate", "unmap"}
  /\ opens \in [Session -> Nat] /\ closes \in [Session -> Nat]

\* A client's requests are handled in sessions made for that client only,
\* and its id is the id of one, however its threads interleave.
OwnSession ==
  /\ \A t \in Thread : th[t].s # None => sess[th[t].s].owner = Mine(t)
  /\ \A c \in Client : cSid[c] # None => sess[cSid[c]].owner = c

\* CGC_Session_Close is never called more often than CGC_Session_Open
\* accepted.
ClosedOnce == \A s \in Session : closes[s] <= opens[s]

Quiet   == Busy = {} /\ expired = {}

\* A client that opens before it calls and waits for its opens and closes,
\* whose opens are over before its next datagram comes, that does not outlive
\* its session, and that no module refuses.
Patient == use.quick /\ use.alive /\ use.settle /\ ~use.mayRefuse /\ ~use.sessionless

\* Accepted opens and closes of a patient client's session alternate.
OpensPaired == Patient => \A s \in Session : opens[s] - closes[s] \in {0, 1}

\* A patient client's session that has left the table was closed towards its
\* module.
OpenedIsClosed ==
  Patient /\ Quiet => \A s \in Session \ byId : opens[s] = closes[s]

\* The two callbacks of a session come in pairs, whatever threads make them.
CallbacksPaired == ClosedOnce /\ OpensPaired /\ OpenedIsClosed

\* A session of the table is found by its patient client's address ...
FoundWhenQuiet == Patient /\ Quiet => \A s \in byId : byRemote[sess[s].owner] = s

\* ... and calls run only in sessions that are open towards the module.
RunsWhenOpen ==
  Patient => \A t \in Thread : At(t, "running") => opens[th[t].s] > closes[th[t].s]

\* A request gets to its own client's session, which the table still has.
Reached == OwnSession /\ FoundWhenQuiet /\ RunsWhenOpen

\* When the clients are silent, both maps empty in the end: no session and
\* no address leaks, whatever the threads did to them.
Forgotten ==
  <>[](use.alive \/ (byId = {} /\ \A c \in Client : byRemote[c] = None))
=============================================================================
