---------------------------- MODULE SotpSession ----------------------------
(***************************************************************************)
(* The life of SOTP sessions: one client opens, uses and closes sessions   *)
(* of a server over datagrams that may be lost, repeated and reordered,    *)
(* and the server answers with results that the client acknowledges.       *)
(*                                                                         *)
(* A session is found by the address a datagram comes from before its      *)
(* session id is looked at (CGCApp::ProcCgcData), numbers its own results  *)
(* from 1, and keeps a ring of the request numbers it has seen.  The       *)
(* client keeps one ring of the result numbers it has seen, whatever       *)
(* session they come from (CgcBaseClient::parseData).                      *)
(*                                                                         *)
(* Time is not modelled here (SotpCall does that): everything between two  *)
(* Pause steps happens inside the windows of the two rings, and Pause is a *)
(* silence longer than every window and resend.  A datagram stays in its   *)
(* set until then, which covers repetition, delay, reordering, the resends *)
(* of both sides and, as nobody has to read it, loss.  Handling a datagram *)
(* is one step; the interleaving of the server's threads inside a handler  *)
(* is not modelled, nor CSessionMgr::onRemoteClose, which removes a        *)
(* session when a connection ends: datagrams have none.                    *)
(***************************************************************************)
EXTENDS Integers, Sequences, FiniteSets

CONSTANTS
  MaxReq,        \* bound: requests the client makes
  MaxSessions,   \* bound: sessions the server creates
  MaxRemote,     \* bound: addresses the client may have
  Uses           \* the ways an application uses the protocol

\* One way of use.
\*   reqs         bound: requests the client makes
\*   reads        bound: results the application gets
\*   remotes      addresses the client may have (NAT, reconnection)
\*   expiries     bound: sessions that expire
\*   seqMod       sequence numbers are 0 .. seqMod-1 (2^16 in the code)
\*   settle       the application opens and closes only after a Pause
\*   sessionless  the application calls without a session id
\*   mayRefuse    a module's CGC_Session_Open may return false
Use == [reqs : 1 .. MaxReq, reads : Nat, remotes : 1 .. MaxRemote, expiries : Nat,
        seqMod : Nat, settle : BOOLEAN, sessionless : BOOLEAN, mayRefuse : BOOLEAN]

ASSUME ConstAssumption ==
  /\ {MaxReq, MaxSessions, MaxRemote} \subseteq Nat \ {0}
  /\ Uses \subseteq Use
  /\ \A u \in Uses : u.seqMod > 0 /\ u.seqMod % 2 = 0

Req     == 1 .. MaxReq
Session == 1 .. MaxSessions
Remote  == 1 .. MaxRemote
None    == 0                 \* an empty session id, or no session

VARIABLES
  use,           \* how the application uses the protocol, in this behaviour
  addr,          \* the client's present address
  cSid,          \* m_sSessionId
  made,          \* requests made so far: [kind, sid]; the i-th has number i
  cSeen,         \* m_pReceiveCidMasks, as a set
  got,           \* results handed to the application (OnCgcResponse)
  dropped,       \* results the client took for duplicates
  reqs,          \* request datagrams in flight: [id, from]
  results,       \* result datagrams in flight
  acks,          \* acknowledgements of results in flight: [seq, from]
  sess,          \* the CSessionImpl objects
  byRemote,      \* m_mapRemoteSessionId
  opens,         \* CGC_Session_Open callbacks accepted, per session
  closes,        \* CGC_Session_Close callbacks made, per session
  runs,          \* runs[c][s]: times session s performed call c
  confirmed,     \* results an acknowledgement removed from m_mapSeqInfo
  expired        \* sessions expired so far

client == <<addr, cSid, made, cSeen, got, dropped>>
server == <<use, sess, byRemote, opens, closes, runs, confirmed, expired>>
vars   == <<client, reqs, results, acks, server>>

SeqMod     == use.seqMod
Seq16      == 0 .. SeqMod - 1
Kind       == {"open", "close", "call"}
OK         == 200
Done       == 0
NoSession  == -103
Refused    == -105
Result     == [req : Req, kind : Kind, code : {OK, Done, NoSession, Refused},
               sid : Session \cup {None}, seq : Seq16]

\* An unused session object; state "live" is membership of m_mapSessionImpl.
Blank(r) == [state |-> "live", remote |-> r, seq |-> 0, seen |-> {}, unacked |-> {}]
Unused   == [Blank(1) EXCEPT !.state = "none"]

\* The client keeps numbers in a `const short': from SeqMod/2 on they are
\* negative, and SeqMod-1 is the -1 its ring is filled with.
Short(seq) == IF seq < SeqMod \div 2 THEN seq ELSE seq - SeqMod
EmptyRing  == {-1}

Init ==
  /\ use \in Uses
  /\ addr = 1 /\ cSid = None /\ made = <<>>
  /\ cSeen = EmptyRing /\ got = {} /\ dropped = {}
  /\ reqs = {} /\ results = {} /\ acks = {}
  /\ sess = [s \in Session |-> Unused]
  /\ byRemote = [r \in Remote |-> None]
  /\ opens = [s \in Session |-> 0] /\ closes = [s \in Session |-> 0]
  /\ runs = [c \in Req |-> [s \in Session |-> 0]]
  /\ confirmed = {} /\ expired = 0

-----------------------------------------------------------------------------
(* The client: sendOpenSession, sendCloseSession, sendAppCall2 *)

Silent  == reqs = {} /\ results = {} /\ acks = {}
Settled == Silent /\ cSeen = EmptyRing

Request(kind) ==
  /\ Len(made) < use.reqs
  /\ made' = Append(made, [kind |-> kind, sid |-> cSid])
  /\ reqs' = reqs \cup {[id |-> Len(made'), from |-> addr]}
  /\ UNCHANGED <<addr, cSeen, got, dropped, results, acks, server>>

SendOpen ==
  /\ cSid = None
  /\ use.settle => Settled
  /\ Request("open")
  /\ UNCHANGED cSid

\* Faulty variant: the id is kept until the result comes.
SendCloseKeepsSid ==
  /\ cSid # None
  /\ use.settle => Settled
  /\ Request("close")
  /\ UNCHANGED cSid

\* The id is forgotten at once; m_mapSeqInfo keeps the requests to resend.
SendClose ==
  /\ cSid # None
  /\ use.settle => Settled
  /\ Request("close")
  /\ cSid' = None

SendCall ==
  /\ use.sessionless \/ cSid # None
  /\ Request("call")
  /\ UNCHANGED cSid

\* The client gets another address and resends from there what it holds.
Rebind ==
  /\ addr < use.remotes
  /\ addr' = addr + 1
  /\ reqs' = reqs \cup {[id |-> m.id, from |-> addr'] : m \in reqs}
  /\ UNCHANGED <<cSid, made, cSeen, got, dropped, results, acks, server>>

-----------------------------------------------------------------------------
(* The client: parseData of a result *)

AckResult(r) == acks \cup {[seq |-> r.seq, from |-> addr]}

\* An open result sets m_sSessionId whatever its code, a close result and
\* -103 clear it whatever session they are about.
SidAfter(r) ==
  CASE r.code = NoSession -> None
    [] r.kind = "open"    -> r.sid
    [] r.kind = "close"   -> None
    [] OTHER              -> cSid

RecvResult(r) ==
  /\ Cardinality(got) < use.reads
  /\ Short(r.seq) \notin cSeen
  /\ acks' = AckResult(r)
  /\ cSeen' = cSeen \cup {Short(r.seq)}
  /\ got' = got \cup {r}
  /\ cSid' = SidAfter(r)
  /\ UNCHANGED <<addr, made, dropped, reqs, results, server>>

\* "Receive duplation message": acknowledged, then forgotten.
DropResult(r) ==
  /\ Short(r.seq) \in cSeen
  /\ acks' = AckResult(r)
  /\ dropped' = IF r \in got THEN dropped ELSE dropped \cup {r}
  /\ UNCHANGED <<addr, cSid, made, cSeen, got, reqs, results, server>>

-----------------------------------------------------------------------------
(* The server: ProcCgcData, ProcSesProto, ProcAppProto *)

SeqOf(id)  == id % SeqMod
Live(s)    == s # None /\ sess[s].state = "live"
Serving(s) == opens[s] > closes[s]         \* m_pSessionModuleList is not empty
Fresh      == {s \in Session : sess[s].state = "none"}
NewSid     == CHOOSE s \in Fresh : TRUE

\* setDataResponseImpl and ProcessDuplationSeq of the session found by address.
Heard(m) ==
  LET s == byRemote[m.from] IN
  IF s = None THEN sess
  ELSE [sess EXCEPT ![s].remote = m.from, ![s].seen = @ \cup {SeqOf(m.id)}]

\* Faulty variant: the ring is not consulted.
KnownNever(m) == FALSE

Known(m) ==
  LET s == byRemote[m.from] IN s # None /\ SeqOf(m.id) \in sess[s].seen

\* Faulty variant: the number does not wrap around.
NextSeqUnwrapped(ss, s) == IF s = None THEN 0 ELSE ss[s].seq + 1

\* sendSessionResult and sendAppCallResult: the result of session s takes
\* its next number and is kept for resending; without a session it is 0.
NextSeq(ss, s) == IF s = None THEN 0 ELSE (ss[s].seq + 1) % SeqMod

Answer(ss, s, id, kind, code, sid) ==
  [req |-> id, kind |-> kind, code |-> code, sid |-> sid, seq |-> NextSeq(ss, s)]

Registered(ss, s, r) ==
  IF s = None THEN ss
  ELSE [ss EXCEPT ![s].seq = r.seq,
                  ![s].unacked = {u \in @ : u.seq # r.seq} \cup {r}]

\* Faulty variant: the present address is the one that is kept.
RemovedOthers(ss, s) ==
  [r \in Remote |-> IF r # ss[s].remote /\ byRemote[r] = s THEN None ELSE byRemote[r]]

\* RemoveSessionImpl forgets the session's present address only.
Removed(ss, s) == [byRemote EXCEPT ![ss[s].remote] = None]

MappedTo(r, s) == [byRemote EXCEPT ![r] = s]

RecvDuplicate(m) ==
  /\ Known(m)
  /\ sess' = Heard(m)
  /\ UNCHANGED <<use, client, reqs, results, acks, byRemote, opens, closes, runs, confirmed, expired>>

\* Faulty variant: m_bOpenSessioned is not looked at.
OpenedAgain(s) == [opens EXCEPT ![s] = @ + 1]

Opened(s) == IF Serving(s) THEN opens ELSE [opens EXCEPT ![s] = @ + 1]

\* Faulty variant: the clean-up after a close follows every session request.
RecvOpenCloses(m) ==
  LET s == IF byRemote[m.from] = None THEN NewSid ELSE byRemote[m.from] IN
  /\ made[m.id].kind = "open" /\ ~Known(m)
  /\ byRemote[m.from] = None => Fresh # {}
  /\ sess' = [sess EXCEPT ![s] = [Blank(m.from) EXCEPT !.state = "gone"]]
  /\ byRemote' = [byRemote EXCEPT ![m.from] = None]
  /\ opens' = Opened(s)
  /\ closes' = opens'
  /\ UNCHANGED <<use, client, reqs, results, acks, runs, confirmed, expired>>

\* ProcSesProto, open: the session of the address, or a new one.
RecvOpen(m) ==
  LET s0 == byRemote[m.from]
      s  == IF s0 = None THEN NewSid ELSE s0
      ss == IF s0 = None THEN [sess EXCEPT ![s] = Blank(m.from)] ELSE Heard(m)
      r  == Answer(ss, s, m.id, "open", OK, s)
  IN
  /\ made[m.id].kind = "open" /\ ~Known(m)
  /\ s0 = None => Fresh # {}
  /\ sess' = Registered(ss, s, r)
  /\ byRemote' = MappedTo(m.from, s)
  /\ opens' = Opened(s)
  /\ results' = results \cup {r}
  /\ UNCHANGED <<use, client, reqs, acks, closes, runs, confirmed, expired>>

\* The module refuses: the session is removed, but its id is in the result.
RefuseOpen(m) ==
  LET s0 == byRemote[m.from]
      s  == IF s0 = None THEN NewSid ELSE s0
      ss == IF s0 = None THEN [sess EXCEPT ![s] = Blank(m.from)] ELSE Heard(m)
      r  == Answer(ss, s, m.id, "open", Refused, s)
  IN
  /\ use.mayRefuse
  /\ made[m.id].kind = "open" /\ ~Known(m)
  /\ s0 = None => Fresh # {}
  /\ ~Serving(s)
  /\ sess' = [Registered(ss, s, r) EXCEPT ![s].state = "gone"]
  /\ byRemote' = Removed(ss, s)
  /\ results' = results \cup {r}
  /\ UNCHANGED <<use, client, reqs, acks, opens, closes, runs, confirmed, expired>>

\* ProcSesProto, close: the session of the address; only when there is none
\* the session of the id.
CloseTarget(m) ==
  IF byRemote[m.from] # None THEN byRemote[m.from]
  ELSE IF Live(made[m.id].sid) THEN made[m.id].sid ELSE None

Closed(s) == IF Serving(s) THEN [closes EXCEPT ![s] = @ + 1] ELSE closes

RecvClose(m) ==
  LET s  == CloseTarget(m)
      ss == [Heard(m) EXCEPT ![s].remote = m.from]
      r  == Answer(ss, s, m.id, "close", Done, made[m.id].sid)
  IN
  /\ made[m.id].kind = "close" /\ ~Known(m)
  /\ s # None
  /\ sess' = [Registered(ss, s, r) EXCEPT ![s].state = "gone"]
  /\ byRemote' = Removed(ss, s)
  /\ closes' = Closed(s)
  /\ results' = results \cup {r}
  /\ UNCHANGED <<use, client, reqs, acks, opens, runs, confirmed, expired>>

\* ProcAppProto: the session of the address; only when there is none the
\* session of the id, which then also gets this address.
CallTarget(m) == CloseTarget(m)

\* Faulty variant: the session's module list is not looked at.
PerformsAlways(s) == TRUE

\* getModuleItem("", true) finds a module in the session.
Performs(s) == Serving(s)

RecvCall(m) ==
  LET s  == CallTarget(m)
      ss == [Heard(m) EXCEPT ![s].remote = m.from]
      r  == Answer(ss, s, m.id, "call", IF Performs(s) THEN OK ELSE NoSession, made[m.id].sid)
  IN
  /\ made[m.id].kind = "call" /\ ~Known(m)
  /\ s # None
  /\ sess' = Registered(ss, s, r)
  /\ byRemote' = MappedTo(m.from, s)
  /\ runs' = IF Performs(s) THEN [runs EXCEPT ![m.id][s] = @ + 1] ELSE runs
  /\ results' = results \cup {r}
  /\ UNCHANGED <<use, client, reqs, acks, opens, closes, confirmed, expired>>

\* The id names no session: result -103, number 0.
RecvUnknown(m) ==
  LET q == made[m.id] IN
  /\ ~Known(m)
  /\ q.sid # None /\ q.kind \in {"close", "call"}
  /\ CloseTarget(m) = None
  /\ results' = results \cup {Answer(sess, None, m.id, q.kind, NoSession, q.sid)}
  /\ UNCHANGED <<client, reqs, acks, server>>

\* A call without session id from an address without session opens a
\* temporary one: two results, to the open and to the call.
RecvCallOpens(m) ==
  LET s  == NewSid
      s1 == [sess EXCEPT ![s] = Blank(m.from)]
      r1 == Answer(s1, s, m.id, "open", OK, s)
      s2 == Registered(s1, s, r1)
      r2 == Answer(s2, s, m.id, "call", OK, None)
  IN
  /\ made[m.id].kind = "call" /\ made[m.id].sid = None
  /\ byRemote[m.from] = None /\ Fresh # {}
  /\ sess' = Registered(s2, s, r2)
  /\ byRemote' = MappedTo(m.from, s)
  /\ opens' = Opened(s)
  /\ runs' = [runs EXCEPT ![m.id][s] = @ + 1]
  /\ results' = results \cup {r1, r2}
  /\ UNCHANGED <<use, client, reqs, acks, closes, confirmed, expired>>

RefuseCallOpens(m) ==
  /\ use.mayRefuse
  /\ made[m.id].kind = "call" /\ made[m.id].sid = None
  /\ byRemote[m.from] = None /\ Fresh # {}
  /\ sess' = [sess EXCEPT ![NewSid] = [Blank(m.from) EXCEPT !.state = "gone"]]
  /\ results' = results \cup {Answer(sess, None, m.id, "call", NoSession, None)}
  /\ UNCHANGED <<use, client, reqs, acks, byRemote, opens, closes, runs, confirmed, expired>>

\* ProcessAckSeq of the session of the address.
RecvAck(a) ==
  LET s == byRemote[a.from] IN
  /\ s # None
  /\ sess' = [sess EXCEPT ![s].remote = a.from, ![s].unacked = {u \in @ : u.seq # a.seq}]
  /\ confirmed' = confirmed \cup {u \in sess[s].unacked : u.seq = a.seq}
  /\ UNCHANGED <<use, client, reqs, results, acks, byRemote, opens, closes, runs, expired>>

\* ProcLastAccessedTime: no datagram for getMaxInactiveInterval minutes.
Expire(s) ==
  /\ Live(s) /\ Silent /\ expired < use.expiries
  /\ sess' = [sess EXCEPT ![s].state = "gone"]
  /\ byRemote' = Removed(sess, s)
  /\ closes' = Closed(s)
  /\ expired' = expired + 1
  /\ UNCHANGED <<use, client, reqs, results, acks, opens, runs, confirmed>>

-----------------------------------------------------------------------------

\* A silence after which nothing is in flight or resent and both rings are
\* forgotten by the next datagram.
Pause ==
  /\ ~Settled
  /\ reqs' = {} /\ results' = {} /\ acks' = {}
  /\ cSeen' = EmptyRing
  /\ sess' = [s \in Session |-> [sess[s] EXCEPT !.seen = {}, !.unacked = {}]]
  /\ UNCHANGED <<use, addr, cSid, made, got, dropped, byRemote, opens, closes, runs, confirmed, expired>>

Client == SendOpen \/ SendClose \/ SendCall \/ Rebind
            \/ \E r \in results : RecvResult(r) \/ DropResult(r)
Server ==
  \/ \E m \in reqs : \/ RecvDuplicate(m)
                     \/ RecvOpen(m) \/ RefuseOpen(m)
                     \/ RecvClose(m) \/ RecvCall(m) \/ RecvUnknown(m)
                     \/ RecvCallOpens(m) \/ RefuseCallOpens(m)
  \/ \E a \in acks : RecvAck(a)
  \/ \E s \in Session : Expire(s)

Next == Client \/ Server \/ Pause

Spec == Init /\ [][Next]_vars

-----------------------------------------------------------------------------
(* Properties *)

TypeOK ==
  /\ addr \in Remote /\ cSid \in Session \cup {None}
  /\ made \in Seq([kind : Kind, sid : Session \cup {None}]) /\ Len(made) <= MaxReq
  /\ cSeen \subseteq -SeqMod .. SeqMod
  /\ UNION {got, dropped, results, confirmed} \subseteq Result
  /\ reqs \subseteq [id : 1 .. Len(made), from : Remote]
  /\ acks \subseteq [seq : Seq16, from : Remote]
  /\ \A s \in Session :
       /\ sess[s].state \in {"none", "live", "gone"} /\ sess[s].remote \in Remote
       /\ sess[s].seq \in Seq16 /\ sess[s].seen \subseteq Seq16
       /\ sess[s].unacked \subseteq Result
  /\ byRemote \in [Remote -> Session \cup {None}]
  /\ opens \in [Session -> Nat] /\ closes \in [Session -> Nat]
  /\ runs \in [Req -> [Session -> Nat]] /\ expired \in 0 .. use.expiries

OneAddress == use.remotes = 1
\* An application that opens and closes only after a silence, from one
\* address, in sessions that are neither refused nor expire.
Patient    == OneAddress /\ use.settle /\ ~use.sessionless
              /\ ~use.mayRefuse /\ use.expiries = 0

\* However often a call of a patient application is resent, it is performed
\* once, in one session.
RunOnce ==
  Patient =>
    \A c \in Req, s, t \in Session :
      runs[c][s] > 0 => runs[c][s] = 1 /\ (runs[c][t] > 0 => s = t)

\* What the client drops as "duplation message" answers a request whose
\* answer the application already has.
DropsOnlyDuplicates ==
  \A r \in dropped : \E g \in got : g.req = r.req /\ g.kind = r.kind

\* A patient application loses no answer to the client's duplicate check.
NoAnswerLost == Patient => DropsOnlyDuplicates

\* A result to a patient application that the server stops resending has
\* reached it.
ConfirmedWasReceived ==
  Patient => \A r \in confirmed : \E g \in got : g.req = r.req /\ g.kind = r.kind

\* The id a patient client holds is that of a session the server has.
SidIsLive == Patient => (cSid # None => Live(cSid))

\* So a patient application and the server stay in step.
InStep == NoAnswerLost /\ ConfirmedWasReceived /\ SidIsLive

\* While requests of a patient application are about, a session is closed
\* only by a request that names it ("SID '%s' closed", CGCApp.cpp:3262).
ClosesTheNamed ==
  [][\A s \in Session :
       Patient /\ closes'[s] > closes[s] /\ reqs # {} =>
         \E m \in reqs : made[m.id].kind = "close" /\ made[m.id].sid = s]_vars

\* A registered session is found by its present address.
FoundByAddress ==
  \A s \in Session : sess[s].state = "live" => byRemote[sess[s].remote] = s

\* No address leads to a session that was removed, as long as the client
\* keeps its address.
NoStaleAddress == OneAddress => \A r \in Remote : byRemote[r] # None => Live(byRemote[r])

\* The second map leads from addresses to the sessions that are there.
AddressesLead == FoundByAddress /\ NoStaleAddress

\* A module sees CGC_Session_Open and CGC_Session_Close of a session in turn.
CallbacksPaired == \A s \in Session : opens[s] - closes[s] \in {0, 1}

\* A call is performed only between the two callbacks of its session.
RunsBetweenCallbacks ==
  [][\A c \in Req, s \in Session : runs'[c][s] > runs[c][s] => opens'[s] > closes'[s]]_vars
=============================================================================
