------------------------ MODULE SessionTableProofs ------------------------
(***************************************************************************)
(* Theorems about SessionTable: its type invariant, that no thread of the  *)
(* server takes a client into another client's session, and that no        *)
(* session is closed towards its module more often than it was opened.     *)
(* They hold for every way of use, patient or not, and for any number of   *)
(* clients and threads.  For patient clients also: callbacks pair up, a    *)
(* session of the table is found by its address, and calls run only in     *)
(* open sessions.                                                          *)
(***************************************************************************)
EXTENDS SessionTable, FiniteSetTheorems, TLAPS

Work == [at : Place, req : Request, s : Session \cup {None}, item : Item \cup {None}]

\* The places where a thread works on a session.
Sited == {"heard", "map", "list", "add", "callback", "unmap", "erase", "remap", "module",
          "running", "close", "invalidate"}

\* In the sessions S, s is a session of client c, or none.
Refers(S, s, c) == s # None => s \in Session /\ S[s].owner = c

\* Whatever leads to a session leads to one of the client it is for.
Owned ==
  /\ \A t \in Thread : /\ Refers(sess, th[t].s, th[t].req.client)
                       /\ Refers(sess, th[t].req.sid, th[t].req.client)
  /\ \A c \in Client : Refers(sess, cSid[c], c) /\ Refers(sess, byRemote[c], c)
  /\ \A m \in net : Refers(sess, m.req.sid, m.req.client)

\* A thread that works on a session has one; what has expired was created.
Placed ==
  /\ \A t \in Thread : th[t].at \in Sited => th[t].s # None
  /\ \A e \in expired : sess[e[1]].owner # None

\* An open entry has a callback that is still to be answered by a close.
Counted ==
  \A s \in Session : /\ closes[s] <= opens[s]
                     /\ sess[s].open => closes[s] < opens[s]

IInv == TypeOK /\ Owned /\ Placed /\ Counted

-----------------------------------------------------------------------------
(* How a step may change what the invariant speaks of. *)

\* No session changes its owner.
Keeps(S) ==
  /\ S \in [Session -> SessionImpl]
  /\ \A s \in Session : sess[s].owner # None => S[s].owner = sess[s].owner

\* A thread stays where it is, or what it now holds is its client's.
Threads ==
  /\ th' \in [Thread -> Work]
  /\ \A t \in Thread :
       \/ th'[t] = th[t]
       \/ /\ Refers(sess', th'[t].s, th'[t].req.client)
          /\ Refers(sess', th'[t].req.sid, th'[t].req.client)
          /\ th'[t].at \in Sited => th'[t].s # None

\* Ids and addresses, requests and the timer's list: what is new in them leads
\* to a session of the right client.
Told ==
  /\ cSid' \in [Client -> Session \cup {None}]
  /\ \A c \in Client : cSid'[c] = cSid[c] \/ Refers(sess', cSid'[c], c)

Mapped ==
  /\ byRemote' \in [Client -> Session \cup {None}]
  /\ \A c \in Client : byRemote'[c] = byRemote[c] \/ Refers(sess', byRemote'[c], c)
  /\ byId' \subseteq Session
  /\ \A s \in byId' : s \in byId \/ sess'[s].owner # None

Sent ==
  /\ use' = use
  /\ made' \in [Client -> 0 .. MaxReq]
  /\ net' \subseteq [req : Request, left : 1 .. use.copies]
  /\ \A m \in net' : \/ \E n \in net : n.req = m.req
                     \/ Refers(sess', m.req.sid, m.req.client)

Timed ==
  /\ opening' \subseteq Client
  /\ expired' \subseteq Session \X {"invalidate", "unmap"}
  /\ \A e \in expired' : \/ \E f \in expired : f[1] = e[1]
                         \/ sess'[e[1]].owner # None

Count ==
  /\ opens' \in [Session -> Nat] /\ closes' \in [Session -> Nat]
  /\ Counted'

\* A session of a client stays one.
LEMMA RefersKept ==
  ASSUME NEW S, Keeps(S), NEW s, NEW c \in Client, Refers(sess, s, c)
  PROVE  Refers(S, s, c)
<1>1. c # None
  BY SessionTableAssumption DEF None
<1> QED BY <1>1 DEF Keeps, Refers

LEMMA Progress ==
  ASSUME IInv, Keeps(sess'), Threads, Told, Mapped, Sent, Timed, Count
  PROVE  IInv'
<1>1. TypeOK'
  <2>1. byId' \subseteq Created'
    BY DEF IInv, TypeOK, Keeps, Mapped, Created
  <2> QED BY <2>1 DEF IInv, TypeOK, Keeps, Threads, Told, Mapped, Sent, Timed, Count, Work
<1>2. ASSUME NEW t \in Thread
      PROVE  /\ Refers(sess', th'[t].s, th'[t].req.client)
             /\ Refers(sess', th'[t].req.sid, th'[t].req.client)
             /\ th'[t].at \in Sited => th'[t].s # None
  <2>1. th[t].req.client \in Client
    BY DEF IInv, TypeOK, Request
  <2>2. Refers(sess', th[t].s, th[t].req.client) /\ Refers(sess', th[t].req.sid, th[t].req.client)
    BY <2>1, RefersKept DEF IInv, Owned
  <2> QED BY <2>2 DEF Threads, IInv, Placed
<1>3. ASSUME NEW c \in Client
      PROVE  Refers(sess', cSid'[c], c) /\ Refers(sess', byRemote'[c], c)
  <2>1. Refers(sess', cSid[c], c) /\ Refers(sess', byRemote[c], c)
    BY RefersKept DEF IInv, Owned
  <2> QED BY <2>1 DEF Told, Mapped
<1>4. ASSUME NEW m \in net'
      PROVE  Refers(sess', m.req.sid, m.req.client)
  <2>1. CASE \E n \in net : n.req = m.req
    <3>1. m.req.client \in Client
      BY DEF Sent, Request
    <3>2. Refers(sess, m.req.sid, m.req.client)
      BY <2>1 DEF IInv, Owned
    <3> QED BY <3>1, <3>2, RefersKept
  <2> QED BY <2>1 DEF Sent
<1>5. Owned'
  BY <1>2, <1>3, <1>4 DEF Owned
<1>6. \A e \in expired' : sess'[e[1]].owner # None
  <2>1. ASSUME NEW e \in expired', NEW f \in expired, f[1] = e[1]
        PROVE  sess'[e[1]].owner # None
    <3>1. f[1] \in Session /\ sess[f[1]].owner # None
      BY DEF IInv, TypeOK, Placed
    <3> QED BY <2>1, <3>1 DEF Keeps
  <2> QED BY <2>1 DEF Timed
<1>7. Placed'
  BY <1>2, <1>6 DEF Placed
<1> QED BY <1>1, <1>5, <1>7 DEF IInv, Count

\* What a thread has at hand.
LEMMA AtHand ==
  ASSUME IInv, NEW t \in Thread
  PROVE  /\ th[t] \in Work /\ th[t].req \in Request /\ th[t].req.client \in Client
         /\ Mine(t) = th[t].req.client
         /\ Refers(sess, th[t].s, Mine(t)) /\ Refers(sess, th[t].req.sid, Mine(t))
         /\ Refers(sess, byRemote[Mine(t)], Mine(t))
         /\ th[t].at \in Sited => th[t].s \in Session /\ sess[th[t].s].owner = Mine(t)
BY DEF IInv, TypeOK, Owned, Placed, Work, Request, Mine, Refers

LEMMA SessKept ==
  ASSUME IInv
  PROVE  Keeps(sess)
BY DEF IInv, TypeOK, Keeps

\* Thread t goes on at a place, with request q and session s.
Moves(t, q, place, s) ==
  /\ th' \in [Thread -> Work]
  /\ \A u \in Thread \ {t} : th'[u] = th[u]
  /\ th'[t].req = q /\ th'[t].at = place /\ th'[t].s = s

LEMMA GoMoves ==
  ASSUME IInv, NEW t \in Thread, NEW place \in Place, Go(t, place)
  PROVE  Moves(t, th[t].req, place, th[t].s)
<1>1. th[t] \in Work
  BY AtHand
<1>2. [th[t] EXCEPT !.at = place] \in Work
  BY <1>1 DEF Work
<1> QED BY <1>1, <1>2 DEF IInv, TypeOK, Go, Moves, Work

LEMMA GoWithMoves ==
  ASSUME IInv, NEW t \in Thread, NEW place \in Place, NEW s \in Session \cup {None},
         GoWith(t, place, s)
  PROVE  Moves(t, th[t].req, place, s)
<1>1. th[t] \in Work
  BY AtHand
<1>2. [th[t] EXCEPT !.at = place, !.s = s] \in Work
  BY <1>1 DEF Work
<1> QED BY <1>1, <1>2 DEF IInv, TypeOK, GoWith, Moves, Work

LEMMA ItemMoves ==
  ASSUME IInv, NEW t \in Thread, NEW place \in Place, NEW i \in Item \cup {None},
         th' = [th EXCEPT ![t].at = place, ![t].item = i]
  PROVE  Moves(t, th[t].req, place, th[t].s)
<1>1. th[t] \in Work
  BY AtHand
<1>2. [th[t] EXCEPT !.at = place, !.item = i] \in Work
  BY <1>1 DEF Work
<1> QED BY <1>1, <1>2 DEF IInv, TypeOK, Moves, Work

LEMMA RestTyped ==
  /\ Rest \in Work /\ Rest.req = NoRequest /\ Rest.at = "idle" /\ Rest.s = None
  /\ NoRequest \in Request /\ NoRequest.sid = None
BY SessionTableAssumption DEF Rest, NoRequest, Work, Request, Req, Kind, Place

LEMMA LeaveMoves ==
  ASSUME IInv, NEW t \in Thread, Leave(t)
  PROVE  Moves(t, NoRequest, "idle", None)
BY RestTyped DEF IInv, TypeOK, Leave, Moves, Work

\* Such a move is in order if the session is the client's.
LEMMA MovesWell ==
  ASSUME IInv, NEW t \in Thread, NEW q, NEW place, NEW s, Moves(t, q, place, s),
         Refers(sess', s, q.client), Refers(sess', q.sid, q.client),
         place \in Sited => s # None
  PROVE  Threads
BY DEF Moves, Threads

LEMMA StaysWell ==
  ASSUME IInv, NEW t \in Thread, NEW place, NEW s, Moves(t, th[t].req, place, s),
         Keeps(sess'), Refers(sess', s, Mine(t)), place \in Sited => s # None
  PROVE  Threads
<1>1. Refers(sess', th[t].req.sid, th[t].req.client) /\ Mine(t) = th[t].req.client
  BY AtHand, RefersKept
<1> QED BY <1>1, MovesWell

LEMMA LeavesWell ==
  ASSUME IInv, NEW t \in Thread, Leave(t)
  PROVE  Threads
<1>1. Moves(t, NoRequest, "idle", None) /\ NoRequest.sid = None
  BY LeaveMoves, RestTyped
<1> QED BY <1>1, MovesWell DEF Refers, Sited

LEMMA GoesWell ==
  ASSUME IInv, NEW t \in Thread, NEW place \in Place, Go(t, place), Keeps(sess'),
         place \in Sited => th[t].s # None
  PROVE  Threads
<1>1. Moves(t, th[t].req, place, th[t].s)
  BY GoMoves
<1>2. Refers(sess', th[t].s, Mine(t))
  BY AtHand, RefersKept
<1> QED BY <1>1, <1>2, StaysWell

LEMMA GoesWellWith ==
  ASSUME IInv, NEW t \in Thread, NEW place \in Place, NEW s, GoWith(t, place, s), Keeps(sess'),
         Refers(sess', s, Mine(t)), place \in Sited => s # None
  PROVE  Threads
<1>1. s \in Session \cup {None}
  BY DEF Refers
<1>2. Moves(t, th[t].req, place, s)
  BY <1>1, GoWithMoves
<1> QED BY <1>2, StaysWell

\* What a step leaves alone.
LEMMA TellsNobody ==
  ASSUME IInv, cSid' = cSid
  PROVE  Told
BY DEF IInv, TypeOK, Told

LEMMA Answers ==
  ASSUME IInv, NEW c \in Client, NEW s, Result(c, s), Refers(sess', s, c)
  PROVE  Told
<1>1. s \in Session \cup {None}
  BY DEF Refers
<1> QED BY <1>1 DEF IInv, TypeOK, Told, Result

LEMMA MapsNothing ==
  ASSUME IInv, byId' \subseteq byId, byRemote' = byRemote
  PROVE  Mapped
BY DEF IInv, TypeOK, Mapped, Created

LEMMA SendsNothing ==
  ASSUME IInv, use' = use, made' = made, net' = net
  PROVE  Sent
BY DEF IInv, TypeOK, Sent

LEMMA TimesNothing ==
  ASSUME IInv, opening' = opening, expired' = expired
  PROVE  Timed
BY DEF IInv, TypeOK, Timed

LEMMA CountsNothing ==
  ASSUME IInv, opens' = opens, closes' = closes,
         \A s \in Session : sess'[s].open => sess[s].open
  PROVE  Count
BY DEF IInv, TypeOK, Counted, Count

\* A session is heard of, or grows old.
LEMMA IdleKept ==
  ASSUME IInv, NEW s \in Session, NEW b \in BOOLEAN, NEW S, S = [sess EXCEPT ![s].idle = b]
  PROVE  Keeps(S) /\ \A r \in Session : S[r].open = sess[r].open
<1>1. sess[s] \in SessionImpl
  BY DEF IInv, TypeOK
<1>2. [sess[s] EXCEPT !.idle = b] \in SessionImpl
  BY <1>1 DEF SessionImpl
<1> QED BY <1>1, <1>2 DEF IInv, TypeOK, Keeps, SessionImpl

\* A session gets another entry, or none.
LEMMA EntryKept ==
  ASSUME IInv, NEW s \in Session, NEW i \in Item \cup {None},
         sess' = [sess EXCEPT ![s].item = i, ![s].open = FALSE]
  PROVE  /\ Keeps(sess') /\ ~sess'[s].open
         /\ \A r \in Session : sess'[r].open => sess[r].open
<1>1. sess[s] \in SessionImpl
  BY DEF IInv, TypeOK
<1>2. [sess[s] EXCEPT !.item = i, !.open = FALSE] \in SessionImpl
  BY <1>1 DEF SessionImpl
<1>3. /\ sess' \in [Session -> SessionImpl]
      /\ sess'[s].owner = sess[s].owner /\ sess'[s].open = FALSE
      /\ \A r \in Session \ {s} : sess'[r] = sess[r]
  BY <1>1, <1>2 DEF IInv, TypeOK, SessionImpl
<1> QED BY <1>3 DEF Keeps

LEMMA Unmoved ==
  ASSUME IInv, th' = th
  PROVE  Threads
BY DEF IInv, TypeOK, Threads, Work

LEMMA Untouched ==
  ASSUME IInv, sess' = sess
  PROVE  Keeps(sess') /\ \A s \in Session : sess'[s].open => sess[s].open
BY DEF IInv, TypeOK, Keeps

\* setDataResponseImpl.
LEMMA TouchedKept ==
  ASSUME IInv, NEW s \in Session, sess' = Touched(s)
  PROVE  Keeps(sess') /\ \A r \in Session : sess'[r].open => sess[r].open
BY IdleKept DEF Touched

-----------------------------------------------------------------------------
(* The clients and the network *)

LEMMA SendInv ==
  ASSUME IInv, NEW c \in Client, NEW kind \in Kind, Send(c, kind)
  PROVE  IInv'
<1> DEFINE q == [client |-> c, id |-> made[c] + 1, kind |-> kind, sid |-> cSid[c]]
<1>1. Keeps(sess') /\ Threads /\ Mapped /\ Timed /\ Count
  BY Untouched, Unmoved, MapsNothing, TimesNothing, CountsNothing DEF Send
<1>2. Told
  BY DEF Send, Told, IInv, TypeOK, Refers
<1>3. q \in Request /\ Refers(sess', q.sid, q.client)
  <2>1. use \in Use
    BY SessionTableAssumption DEF IInv, TypeOK
  <2>2. use.reqs \in 1 .. MaxReq /\ MaxReq \in Nat
    BY <2>1, SessionTableAssumption DEF Use
  <2>3. made[c] + 1 \in Req
    BY <2>2 DEF Send, IInv, TypeOK, Req
  <2>4. cSid[c] \in Session \cup {None} /\ Refers(sess', cSid[c], c)
    BY DEF Send, IInv, TypeOK, Owned
  <2> QED BY <2>3, <2>4 DEF Request
<1>4. use.copies \in Nat \ {0}
  BY SessionTableAssumption DEF IInv, TypeOK, Use
<1>5. use' = use /\ net' = net \cup {[req |-> q, left |-> use.copies]}
      /\ made' \in [Client -> 0 .. MaxReq]
  <2>1. made[c] + 1 \in 0 .. MaxReq
    BY <1>3, SessionTableAssumption DEF Request, Req
  <2> QED BY <2>1 DEF Send, IInv, TypeOK
<1>6. Sent
  <2>1. [req |-> q, left |-> use.copies] \in [req : Request, left : 1 .. use.copies]
    BY <1>3, <1>4
  <2> HIDE DEF q
  <2>2. net' \subseteq [req : Request, left : 1 .. use.copies]
    BY <1>5, <2>1 DEF IInv, TypeOK
  <2>3. ASSUME NEW m \in net'
        PROVE  (\E n \in net : n.req = m.req) \/ Refers(sess', m.req.sid, m.req.client)
    BY <1>3, <1>5
  <2> QED BY <1>5, <2>2, <2>3 DEF Sent
<1> QED BY <1>1, <1>2, <1>6, Progress

LEMMA LoseInv ==
  ASSUME IInv, NEW m \in net, Lose(m)
  PROVE  IInv'
<1>1. Keeps(sess') /\ Threads /\ Told /\ Mapped /\ Timed /\ Count
  BY Untouched, Unmoved, TellsNobody, MapsNothing, TimesNothing, CountsNothing DEF Lose
<1>2. Sent
  BY DEF Lose, Sent, IInv, TypeOK
<1> QED BY <1>1, <1>2, Progress

-----------------------------------------------------------------------------
(* The threads *)

\* Where a request is handled.
LEMMA HandlerPlace ==
  ASSUME NEW q \in Request, NEW s \in Session \cup {None}
  PROVE  Handler(q, s) \in Place /\ (Handler(q, s) \in Sited => s # None)
BY DEF Handler, Request, Kind, Place, Sited

LEMMA TakeInv ==
  ASSUME IInv, NEW t \in Thread, NEW m \in net, Take(t, m)
  PROVE  IInv'
<1> DEFINE q == m.req
           s == byRemote[q.client]
           place == IF s = None THEN Handler(q, None) ELSE "heard"
<1>1. Keeps(sess') /\ Told /\ Mapped /\ Timed /\ Count
  BY Untouched, TellsNobody, MapsNothing, TimesNothing, CountsNothing DEF Take
<1>2. /\ q \in Request /\ q.client \in Client /\ s \in Session \cup {None}
      /\ Refers(sess', s, q.client) /\ Refers(sess', q.sid, q.client)
  <2>1. q \in Request /\ q.client \in Client
    BY DEF IInv, TypeOK, Request
  <2>2. sess' = sess
    BY DEF Take
  <2> QED BY <2>1, <2>2 DEF IInv, TypeOK, Owned
<1>3. place \in Place /\ (place \in Sited => s # None)
  BY <1>2, HandlerPlace DEF Place, Sited
<1>4. th' = [th EXCEPT ![t] = [at |-> place, req |-> q, s |-> s, item |-> None]]
  BY DEF Take
<1>5. Threads
  <2> HIDE DEF q, s, place
  <2>1. [at |-> place, req |-> q, s |-> s, item |-> None] \in Work
    BY <1>2, <1>3 DEF Work
  <2>2. Moves(t, q, place, s)
    BY <1>4, <2>1 DEF Moves, IInv, TypeOK, Work
  <2> QED BY <1>2, <1>3, <2>2, MovesWell
<1>6. Sent
  <2>1. m \in [req : Request, left : 1 .. use.copies] /\ use.copies \in Nat \ {0}
    BY SessionTableAssumption DEF IInv, TypeOK, Use
  <2>2. m.left # 1 => [m EXCEPT !.left = @ - 1] \in [req : Request, left : 1 .. use.copies]
    BY <2>1
  <2>3. [m EXCEPT !.left = @ - 1].req = m.req
    BY <2>1
  <2>4. /\ use' = use /\ made' = made
        /\ net' = (net \ {m}) \cup (IF m.left = 1 THEN {} ELSE {[m EXCEPT !.left = @ - 1]})
    BY DEF Take
  <2>5. net' \subseteq [req : Request, left : 1 .. use.copies]
    BY <2>2, <2>4 DEF IInv, TypeOK
  <2>6. \A n \in net' : \E k \in net : k.req = n.req
    BY <2>3, <2>4
  <2>7. made' \in [Client -> 0 .. MaxReq]
    BY <2>4 DEF IInv, TypeOK
  <2> QED BY <2>4, <2>5, <2>6, <2>7 DEF Sent
<1> QED BY <1>1, <1>5, <1>6, Progress

LEMMA HeardInv ==
  ASSUME IInv, NEW t \in Thread, Heard(t)
  PROVE  IInv'
<1> DEFINE s == th[t].s
           q == th[t].req
<1>1. s \in Session /\ q \in Request /\ q.id \in Req
  <2>1. th[t].at \in Sited
    BY DEF Heard, At, Sited
  <2> QED BY <2>1, AtHand DEF Request
<1>2. Keeps(sess') /\ \A r \in Session : sess'[r].open => sess[r].open
  <2>1. sess[s] \in SessionImpl
    BY <1>1 DEF IInv, TypeOK
  <2>2. /\ sess' \in [Session -> SessionImpl]
        /\ \A r \in Session : sess'[r].owner = sess[r].owner /\ sess'[r].open = sess[r].open
    BY <1>1, <2>1 DEF Heard, Touched, IInv, TypeOK, SessionImpl
  <2> QED BY <2>2 DEF Keeps
<1>3. Told /\ Mapped /\ Sent /\ Timed /\ Count
  BY <1>2, TellsNobody, MapsNothing, SendsNothing, TimesNothing, CountsNothing DEF Heard, clients
<1>4. Threads
  <2>1. CASE Leave(t)
    BY <2>1, LeavesWell
  <2>2. CASE Go(t, Handler(q, s))
    BY <1>1, <1>2, <2>2, HandlerPlace, GoesWell, None \notin Session DEF None, Session
  <2> QED BY <2>1, <2>2 DEF Heard
<1> QED BY <1>2, <1>3, <1>4, Progress

-----------------------------------------------------------------------------
(* SetSessionImpl and OnRunCGC_Session_Open *)

LEMMA FindInv ==
  ASSUME IInv, NEW t \in Thread, Find(t)
  PROVE  IInv'
<1> DEFINE s == byRemote[Mine(t)]
<1>1. Mine(t) \in Client /\ s \in Session \cup {None} /\ Refers(sess, s, Mine(t))
  BY AtHand DEF IInv, TypeOK
<1>2. Keeps(sess') /\ \A r \in Session : sess'[r].open => sess[r].open
  <2>1. CASE s = None
    BY <2>1, Untouched DEF Find
  <2>2. CASE s # None
    BY <1>1, <2>2, TouchedKept DEF Find
  <2> QED BY <2>1, <2>2
<1>3. Told /\ Mapped /\ Sent /\ Timed /\ Count
  BY <1>2, TellsNobody, MapsNothing, SendsNothing, TimesNothing, CountsNothing DEF Find, clients
<1>4. Threads
  <2>1. CASE s = None
    <3>1. Go(t, "create") /\ "create" \in Place /\ "create" \notin Sited
      BY <2>1 DEF Find, Place, Sited
    <3> QED BY <1>2, <3>1, GoesWell
  <2>2. CASE s # None
    <3>1. GoWith(t, "list", s) /\ "list" \in Place
      BY <2>2 DEF Find, Place
    <3>2. Refers(sess', s, Mine(t))
      BY <1>1, <1>2, RefersKept
    <3> QED BY <1>2, <2>2, <3>1, <3>2, GoesWellWith
  <2> QED BY <2>1, <2>2
<1> QED BY <1>2, <1>3, <1>4, Progress

LEMMA CreateInv ==
  ASSUME IInv, NEW t \in Thread, Create(t)
  PROVE  IInv'
<1> DEFINE new == [Unused EXCEPT !.owner = Mine(t), !.item = 1]
<1>1. NewId \in Session /\ NewId \notin Created /\ NewId # None
  <2>1. \E s \in Session : s \notin Created
    BY DEF Create, Created
  <2>2. NewId \in Session /\ NewId \notin Created
    BY <2>1 DEF NewId
  <2> QED BY <2>2 DEF Session, None
<1>2. Mine(t) \in Client /\ Mine(t) # None
  BY AtHand, SessionTableAssumption DEF None
<1>3. new \in SessionImpl /\ new.owner = Mine(t) /\ new.open = FALSE
  <2>1. 1 \in Item
    <3>1. Cardinality(Thread) \in Nat
      BY SessionTableAssumption, FS_CardinalityType
    <3> QED BY <3>1 DEF Item
  <2> QED BY <1>2, <2>1 DEF Unused, SessionImpl
<1>4. /\ sess' = [sess EXCEPT ![NewId] = new]
      /\ sess' \in [Session -> SessionImpl]
      /\ sess'[NewId] = new /\ \A s \in Session \ {NewId} : sess'[s] = sess[s]
  <2> HIDE DEF new
  <2>1. sess' = [sess EXCEPT ![NewId] = new]
    BY DEF Create, new
  <2> QED BY <1>1, <1>3, <2>1 DEF IInv, TypeOK
<1>5. Keeps(sess') /\ \A s \in Session : sess'[s].open => sess[s].open
  <2> HIDE DEF new
  <2> QED BY <1>1, <1>3, <1>4 DEF Keeps, Created
<1>6. Told /\ Sent /\ Timed /\ Count
  BY <1>5, TellsNobody, SendsNothing, TimesNothing, CountsNothing DEF Create, clients
<1>7. Mapped
  <2> HIDE DEF new
  <2>1. sess'[NewId].owner # None
    BY <1>2, <1>3, <1>4
  <2> QED BY <1>1, <2>1 DEF Create, Mapped, IInv, TypeOK, Created
<1>8. Threads
  <2>1. Refers(sess', NewId, Mine(t))
    BY <1>1, <1>3, <1>4 DEF Refers
  <2>2. GoWith(t, "map", NewId) /\ "map" \in Place
    BY DEF Create, Place
  <2> QED BY <1>1, <1>5, <2>1, <2>2, GoesWellWith
<1> QED BY <1>5, <1>6, <1>7, <1>8, Progress

LEMMA MapInv ==
  ASSUME IInv, NEW t \in Thread, Map(t)
  PROVE  IInv'
<1>1. th[t].s \in Session /\ Refers(sess, th[t].s, Mine(t)) /\ Mine(t) \in Client
  <2>1. th[t].at \in Sited
    BY DEF Map, At, Sited
  <2> QED BY <2>1, AtHand
<1>2. Keeps(sess') /\ \A r \in Session : sess'[r].open => sess[r].open
  BY Untouched DEF Map
<1>3. Told /\ Sent /\ Timed /\ Count
  BY <1>2, TellsNobody, SendsNothing, TimesNothing, CountsNothing DEF Map, clients
<1>4. Mapped
  <2>1. Refers(sess', th[t].s, Mine(t))
    BY <1>1 DEF Map
  <2> QED BY <1>1, <2>1 DEF Map, Mapped, IInv, TypeOK, Created
<1>5. Threads
  <2>1. Go(t, "list") /\ "list" \in Place /\ th[t].s # None
    BY <1>1 DEF Map, Place, Session, None
  <2> QED BY <1>2, <2>1, GoesWell
<1> QED BY <1>2, <1>3, <1>4, <1>5, Progress

\* A session that is open is answered for, or used.
LEMMA OpenedWell ==
  ASSUME IInv, NEW t \in Thread, th[t].at \in Sited, Keeps(sess'), Opened(t)
  PROVE  Threads /\ Told
<1>1. Mine(t) \in Client /\ Refers(sess', th[t].s, Mine(t))
  BY AtHand, RefersKept
<1>2. CASE th[t].req.kind = "open"
  <2>1. Leave(t) /\ Result(Mine(t), th[t].s)
    BY <1>2 DEF Opened
  <2> QED BY <1>1, <2>1, LeavesWell, Answers
<1>3. CASE th[t].req.kind # "open"
  <2>1. Go(t, "unmark") /\ cSid' = cSid /\ "unmark" \in Place /\ "unmark" \notin Sited
    BY <1>3 DEF Opened, Place, Sited
  <2> QED BY <2>1, GoesWell, TellsNobody
<1> QED BY <1>2, <1>3

LEMMA ListInv ==
  ASSUME IInv, NEW t \in Thread, List(t)
  PROVE  IInv'
<1> DEFINE s == th[t].s
<1>1. th[t].at \in Sited /\ s \in Session /\ s # None
  <2>1. th[t].at \in Sited
    BY DEF List, At, Sited
  <2> QED BY <2>1, AtHand DEF Session, None
<1>2. Keeps(sess') /\ \A r \in Session : sess'[r].open => sess[r].open
  BY Untouched DEF List
<1>3. Mapped /\ Sent /\ Timed /\ Count
  BY <1>2, MapsNothing, SendsNothing, TimesNothing, CountsNothing DEF List
<1>4. Threads /\ Told
  <2>1. CASE Go(t, "add") /\ UNCHANGED cSid
    <3>1. "add" \in Place
      BY DEF Place
    <3> QED BY <1>1, <1>2, <2>1, <3>1, GoesWell, TellsNobody
  <2>2. CASE Opened(t)
    BY <1>1, <1>2, <2>2, OpenedWell
  <2>3. CASE /\ th' = [th EXCEPT ![t].at = "callback", ![t].item = sess[s].item]
             /\ UNCHANGED cSid
    <3>1. "callback" \in Place /\ sess[s].item \in Item \cup {None}
      BY <1>1 DEF Place, IInv, TypeOK, SessionImpl
    <3>2. Moves(t, th[t].req, "callback", s)
      BY <2>3, <3>1, ItemMoves
    <3>3. Refers(sess', s, Mine(t))
      BY <1>2, AtHand, RefersKept
    <3> QED BY <1>1, <1>2, <2>3, <3>2, <3>3, StaysWell, TellsNobody
  <2> QED BY <2>1, <2>2, <2>3 DEF List
<1> QED BY <1>2, <1>3, <1>4, Progress

LEMMA AddInv ==
  ASSUME IInv, NEW t \in Thread, Add(t)
  PROVE  IInv'
<1> DEFINE s == th[t].s
<1>1. th[t].at \in Sited /\ s \in Session /\ s # None
  <2>1. th[t].at \in Sited
    BY DEF Add, At, Sited
  <2> QED BY <2>1, AtHand DEF Session, None
<1>2. NewItem(s) \in Item
  <2>1. FreeItem(s) # {}
    BY DEF Add
  <2> QED BY <2>1 DEF NewItem, FreeItem
<1>3. Keeps(sess') /\ \A r \in Session : sess'[r].open => sess[r].open
  <2>1. sess' = [sess EXCEPT ![s].item = NewItem(s), ![s].open = FALSE]
    BY DEF Add
  <2> QED BY <1>1, <1>2, <2>1, EntryKept
<1>4. Told /\ Mapped /\ Sent /\ Timed /\ Count
  BY <1>3, TellsNobody, MapsNothing, SendsNothing, TimesNothing, CountsNothing DEF Add, clients
<1>5. Threads
  <2>1. th' = [th EXCEPT ![t].at = "callback", ![t].item = NewItem(s)] /\ "callback" \in Place
    BY DEF Add, Place
  <2>2. Moves(t, th[t].req, "callback", s)
    BY <1>2, <2>1, ItemMoves
  <2>3. Refers(sess', s, Mine(t))
    BY <1>3, AtHand, RefersKept
  <2> QED BY <1>1, <1>3, <2>2, <2>3, StaysWell
<1> QED BY <1>3, <1>4, <1>5, Progress

LEMMA AcceptInv ==
  ASSUME IInv, NEW t \in Thread, Accept(t)
  PROVE  IInv'
<1> DEFINE s == th[t].s
           b == sess[s].open \/ sess[s].item = th[t].item
<1>1. th[t].at \in Sited /\ s \in Session
  <2>1. th[t].at \in Sited
    BY DEF Accept, At, Sited
  <2> QED BY <2>1, AtHand
<1>2. sess' = [sess EXCEPT ![s].open = b]
  BY DEF Accept
<1>3. sess[s] \in SessionImpl /\ b \in BOOLEAN
  BY <1>1 DEF IInv, TypeOK
<1>4. /\ sess' \in [Session -> SessionImpl]
      /\ \A r \in Session : sess'[r].owner = sess[r].owner
      /\ \A r \in Session \ {s} : sess'[r] = sess[r]
  <2> HIDE DEF b
  <2>1. [sess[s] EXCEPT !.open = b] \in SessionImpl
    BY <1>3 DEF SessionImpl
  <2> QED BY <1>1, <1>2, <1>3, <2>1 DEF IInv, TypeOK, SessionImpl
<1>5. Keeps(sess')
  BY <1>4 DEF Keeps
<1>6. Mapped /\ Sent /\ Timed
  BY MapsNothing, SendsNothing, TimesNothing DEF Accept
<1>7. Count
  <2>1. /\ opens' \in [Session -> Nat] /\ closes' \in [Session -> Nat]
        /\ closes[s] <= opens[s] /\ opens'[s] = opens[s] + 1
        /\ closes' = closes /\ \A r \in Session \ {s} : opens'[r] = opens[r]
        /\ opens[s] \in Nat /\ closes[s] \in Nat
    BY <1>1 DEF Accept, IInv, TypeOK, Counted
  <2>2. closes'[s] < opens'[s] /\ closes'[s] <= opens'[s]
    BY <2>1
  <2>3. \A r \in Session \ {s} : /\ closes'[r] <= opens'[r]
                                 /\ sess'[r].open => closes'[r] < opens'[r]
    BY <1>4, <2>1 DEF IInv, Counted
  <2> QED BY <2>1, <2>2, <2>3 DEF Count, Counted
<1>8. Threads /\ Told
  BY <1>1, <1>5, OpenedWell DEF Accept
<1> QED BY <1>5, <1>6, <1>7, <1>8, Progress

LEMMA RefuseInv ==
  ASSUME IInv, NEW t \in Thread, Refuse(t)
  PROVE  IInv'
<1> DEFINE s == th[t].s
<1>1. s \in Session /\ s # None
  <2>1. th[t].at \in Sited
    BY DEF Refuse, At, Sited
  <2> QED BY <2>1, AtHand DEF Session, None
<1>2. Keeps(sess') /\ \A r \in Session : sess'[r].open => sess[r].open
  BY <1>1, EntryKept DEF Refuse
<1>3. Told /\ Mapped /\ Sent /\ Timed /\ Count
  BY <1>2, TellsNobody, MapsNothing, SendsNothing, TimesNothing, CountsNothing DEF Refuse, clients
<1>4. Threads
  BY <1>1, <1>2, GoesWell, "unmap" \in Place DEF Refuse, Place
<1> QED BY <1>2, <1>3, <1>4, Progress

-----------------------------------------------------------------------------
(* RemoveSessionImpl *)

\* An address that leads nowhere leads to nobody else's session.
LEMMA UnmapsWell ==
  ASSUME IInv, NEW c, byRemote' = [byRemote EXCEPT ![c] = None], byId' = byId
  PROVE  Mapped
BY DEF IInv, TypeOK, Mapped, Refers, Created

LEMMA UnmapInv ==
  ASSUME IInv, NEW t \in Thread, Unmap(t)
  PROVE  IInv'
<1>1. th[t].s # None
  BY DEF Unmap, At, Sited, IInv, Placed
<1>2. Keeps(sess') /\ \A r \in Session : sess'[r].open => sess[r].open
  BY Untouched DEF Unmap
<1>3. Told /\ Mapped /\ Sent /\ Timed /\ Count
  BY <1>2, TellsNobody, UnmapsWell, SendsNothing, TimesNothing, CountsNothing DEF Unmap, clients
<1>4. Threads
  BY <1>1, <1>2, GoesWell, "erase" \in Place DEF Unmap, Place
<1> QED BY <1>2, <1>3, <1>4, Progress

LEMMA EraseInv ==
  ASSUME IInv, NEW t \in Thread, Erase(t)
  PROVE  IInv'
<1>1. Keeps(sess') /\ \A r \in Session : sess'[r].open => sess[r].open
  BY Untouched DEF Erase
<1>2. byId' \subseteq byId /\ byRemote' = byRemote
  BY DEF Erase
<1>3. Mapped /\ Sent /\ Timed /\ Count
  BY <1>1, <1>2, MapsNothing, SendsNothing, TimesNothing, CountsNothing DEF Erase
<1>4. th[t].req.client = Mine(t) /\ Mine(t) \in Client /\ Refers(sess', th[t].s, Mine(t))
  BY <1>1, AtHand, RefersKept
<1>5. Threads /\ Told
  <2>1. CASE Leave(t) /\ Result(th[t].req.client, th[t].s)
    BY <1>4, <2>1, LeavesWell, Answers
  <2>2. CASE GoWith(t, "unmark", None) /\ UNCHANGED cSid
    <3>1. "unmark" \in Place /\ "unmark" \notin Sited /\ Refers(sess', None, Mine(t))
      BY DEF Place, Sited, Refers
    <3> QED BY <1>1, <2>2, <3>1, GoesWellWith, TellsNobody
  <2>3. CASE Leave(t) /\ UNCHANGED cSid
    BY <2>3, LeavesWell, TellsNobody
  <2> QED BY <2>1, <2>2, <2>3 DEF Erase
<1> QED BY <1>1, <1>3, <1>5, Progress

-----------------------------------------------------------------------------
(* Closes and calls by session id *)

LEMMA BySidInv ==
  ASSUME IInv, NEW t \in Thread, BySid(t)
  PROVE  IInv'
<1> DEFINE q == th[t].req
           place == IF q.kind = "close" THEN "close" ELSE "remap"
<1>1. Keeps(sess') /\ \A r \in Session : sess'[r].open => sess[r].open
  BY Untouched DEF BySid
<1>2. Mapped /\ Sent /\ Timed /\ Count
  BY <1>1, MapsNothing, SendsNothing, TimesNothing, CountsNothing DEF BySid
<1>3. q.client = Mine(t) /\ Mine(t) \in Client /\ Refers(sess', q.sid, Mine(t))
  BY <1>1, AtHand, RefersKept
<1>4. Threads /\ Told
  <2>1. CASE q.sid \in byId
    <3>1. GoWith(t, place, q.sid) /\ cSid' = cSid
      BY <2>1 DEF BySid
    <3>2. place \in Place /\ q.sid # None
      BY <2>1 DEF Place, IInv, TypeOK, Created, Session, None
    <3> QED BY <1>1, <1>3, <3>1, <3>2, GoesWellWith, TellsNobody
  <2>2. CASE q.sid \notin byId
    <3>1. Leave(t) /\ Result(q.client, None) /\ Refers(sess', None, q.client)
      BY <2>2 DEF BySid, Refers
    <3> QED BY <1>3, <3>1, LeavesWell, Answers
  <2> QED BY <2>1, <2>2
<1> QED BY <1>1, <1>2, <1>4, Progress

LEMMA AnswerCloseInv ==
  ASSUME IInv, NEW t \in Thread, AnswerClose(t)
  PROVE  IInv'
<1>1. th[t].s \in Session /\ th[t].s # None /\ Mine(t) \in Client
  <2>1. th[t].at \in Sited
    BY DEF AnswerClose, At, Sited
  <2> QED BY <2>1, AtHand DEF Session, None
<1>2. Keeps(sess') /\ \A r \in Session : sess'[r].open => sess[r].open
  BY <1>1, TouchedKept DEF AnswerClose
<1>3. Mapped /\ Sent /\ Timed /\ Count
  BY <1>2, MapsNothing, SendsNothing, TimesNothing, CountsNothing DEF AnswerClose
<1>4. Told
  BY <1>1, Answers, Refers(sess', None, Mine(t)) DEF AnswerClose, Refers
<1>5. Threads
  BY <1>1, <1>2, GoesWell, "invalidate" \in Place DEF AnswerClose, Place
<1> QED BY <1>2, <1>3, <1>4, <1>5, Progress

\* The list is emptied, and the callback made if the entry was open.
LEMMA EmptiedWell ==
  ASSUME IInv, NEW s \in Session, sess' = ListEmptied(s), closes' = CallbackMade(s),
         opens' = opens
  PROVE  Keeps(sess') /\ Count
<1>1. /\ Keeps(sess') /\ ~sess'[s].open
      /\ \A r \in Session : sess'[r].open => sess[r].open
  BY EntryKept DEF ListEmptied
<1>2. CASE sess[s].open
  <2>1. /\ closes' = [closes EXCEPT ![s] = @ + 1]
        /\ closes[s] < opens[s] /\ closes[s] \in Nat /\ opens[s] \in Nat
    BY <1>2 DEF CallbackMade, IInv, TypeOK, Counted
  <2>2. closes' \in [Session -> Nat] /\ closes'[s] <= opens[s]
    BY <2>1 DEF IInv, TypeOK
  <2>3. \A r \in Session \ {s} : closes'[r] = closes[r]
    BY <2>1 DEF IInv, TypeOK
  <2> QED BY <1>1, <2>2, <2>3 DEF Count, Counted, IInv, TypeOK
<1>3. CASE ~sess[s].open
  <2>1. closes' = closes
    BY <1>3 DEF CallbackMade
  <2> QED BY <1>1, <2>1, CountsNothing
<1> QED BY <1>1, <1>2, <1>3

LEMMA InvalidateInv ==
  ASSUME IInv, NEW t \in Thread, Invalidate(t)
  PROVE  IInv'
<1>1. th[t].s \in Session /\ th[t].s # None
  <2>1. th[t].at \in Sited
    BY DEF Invalidate, At, Sited
  <2> QED BY <2>1, AtHand DEF Session, None
<1>2. Keeps(sess') /\ Count
  BY <1>1, EmptiedWell DEF Invalidate
<1>3. Told /\ Mapped /\ Sent /\ Timed
  BY TellsNobody, MapsNothing, SendsNothing, TimesNothing DEF Invalidate, clients
<1>4. Threads
  BY <1>1, <1>2, GoesWell, "unmap" \in Place DEF Invalidate, Place
<1> QED BY <1>2, <1>3, <1>4, Progress

LEMMA RemapInv ==
  ASSUME IInv, NEW t \in Thread, Remap(t)
  PROVE  IInv'
<1>1. /\ th[t].s \in Session /\ th[t].s # None
      /\ Refers(sess, th[t].s, Mine(t)) /\ Mine(t) \in Client
  <2>1. th[t].at \in Sited
    BY DEF Remap, At, Sited
  <2> QED BY <2>1, AtHand DEF Session, None
<1>2. Keeps(sess') /\ \A r \in Session : sess'[r].open => sess[r].open
  BY <1>1, TouchedKept DEF Remap
<1>3. Told /\ Sent /\ Timed /\ Count
  BY <1>2, TellsNobody, SendsNothing, TimesNothing, CountsNothing DEF Remap, clients
<1>4. Mapped
  <2>1. Refers(sess', th[t].s, Mine(t))
    BY <1>1, <1>2, RefersKept
  <2> QED BY <1>1, <2>1 DEF Remap, Mapped, IInv, TypeOK, Created
<1>5. Threads
  BY <1>1, <1>2, GoesWell, "module" \in Place DEF Remap, Place
<1> QED BY <1>2, <1>3, <1>4, <1>5, Progress

LEMMA MarkInv ==
  ASSUME IInv, NEW t \in Thread, Mark(t)
  PROVE  IInv'
<1> DEFINE place == IF Mine(t) \in opening THEN "again" ELSE "enter"
<1>1. Keeps(sess') /\ \A r \in Session : sess'[r].open => sess[r].open
  BY Untouched DEF Mark
<1>2. Told /\ Mapped /\ Sent /\ Timed /\ Count
  BY <1>1, TellsNobody, MapsNothing, SendsNothing, TimesNothing, CountsNothing DEF Mark, clients
<1>3. Threads
  <2>1. Go(t, place) /\ place \in Place /\ place \notin Sited
    BY DEF Mark, Place, Sited
  <2> QED BY <1>1, <2>1, GoesWell
<1> QED BY <1>1, <1>2, <1>3, Progress

LEMMA EnterInv ==
  ASSUME IInv, NEW t \in Thread, Enter(t)
  PROVE  IInv'
<1>1. Keeps(sess') /\ \A r \in Session : sess'[r].open => sess[r].open
  BY Untouched DEF Enter
<1>2. Told /\ Mapped /\ Sent /\ Count
  BY <1>1, TellsNobody, MapsNothing, SendsNothing, CountsNothing DEF Enter, clients
<1>3. Timed
  BY AtHand DEF Enter, IInv, TypeOK, Timed
<1>4. Threads
  <2>1. Go(t, "again") /\ "again" \in Place /\ "again" \notin Sited
    BY DEF Enter, Place, Sited
  <2> QED BY <1>1, <2>1, GoesWell
<1> QED BY <1>1, <1>2, <1>3, <1>4, Progress

LEMMA AgainInv ==
  ASSUME IInv, NEW t \in Thread, Again(t)
  PROVE  IInv'
<1> DEFINE s == byRemote[Mine(t)]
           place == IF s = None THEN "find" ELSE "unmark"
<1>1. Keeps(sess') /\ \A r \in Session : sess'[r].open => sess[r].open
  BY Untouched DEF Again
<1>2. Told /\ Mapped /\ Sent /\ Timed /\ Count
  BY <1>1, TellsNobody, MapsNothing, SendsNothing, TimesNothing, CountsNothing DEF Again, clients
<1>3. Threads
  <2>1. GoWith(t, place, s) /\ place \in Place /\ place \notin Sited
    BY DEF Again, Place, Sited
  <2>2. Refers(sess', s, Mine(t))
    BY <1>1, AtHand, RefersKept
  <2> QED BY <1>1, <2>1, <2>2, GoesWellWith
<1> QED BY <1>1, <1>2, <1>3, Progress

LEMMA UnmarkInv ==
  ASSUME IInv, NEW t \in Thread, Unmark(t)
  PROVE  IInv'
<1>1. Keeps(sess') /\ \A r \in Session : sess'[r].open => sess[r].open
  BY Untouched DEF Unmark
<1>2. Mapped /\ Sent /\ Count
  BY <1>1, MapsNothing, SendsNothing, CountsNothing DEF Unmark
<1>3. Timed
  BY DEF Unmark, IInv, TypeOK, Timed
<1>4. Threads /\ Told
  <2>1. CASE th[t].s = None
    <3>1. Leave(t) /\ Result(Mine(t), None) /\ Refers(sess', None, Mine(t)) /\ Mine(t) \in Client
      BY <2>1, AtHand DEF Unmark, Refers
    <3> QED BY <3>1, LeavesWell, Answers
  <2>2. CASE th[t].s # None
    <3>1. Go(t, "module") /\ cSid' = cSid /\ "module" \in Place
      BY <2>2 DEF Unmark, Place
    <3> QED BY <1>1, <2>2, <3>1, GoesWell, TellsNobody
  <2> QED BY <2>1, <2>2
<1> QED BY <1>1, <1>2, <1>3, <1>4, Progress

LEMMA ModuleInv ==
  ASSUME IInv, NEW t \in Thread, Module(t)
  PROVE  IInv'
<1>1. th[t].s # None /\ Mine(t) \in Client
  <2>1. th[t].at \in Sited
    BY DEF Module, At, Sited
  <2> QED BY <2>1, AtHand DEF Session, None
<1>2. Keeps(sess') /\ \A r \in Session : sess'[r].open => sess[r].open
  BY Untouched DEF Module
<1>3. Mapped /\ Sent /\ Timed /\ Count
  BY <1>2, MapsNothing, SendsNothing, TimesNothing, CountsNothing DEF Module
<1>4. Refers(sess', th[t].s, Mine(t)) /\ Refers(sess', None, Mine(t))
  BY <1>2, AtHand, RefersKept DEF Refers
<1>5. Told
  BY <1>1, <1>4, Answers, TellsNobody DEF Module
<1>6. Threads
  <2>1. CASE Leave(t)
    BY <2>1, LeavesWell
  <2>2. CASE Go(t, "running")
    BY <1>1, <1>2, <2>2, GoesWell, "running" \in Place DEF Place
  <2> QED BY <2>1, <2>2 DEF Module
<1> QED BY <1>2, <1>3, <1>5, <1>6, Progress

LEMMA ReturnInv ==
  ASSUME IInv, NEW t \in Thread, Return(t)
  PROVE  IInv'
<1>1. Keeps(sess') /\ \A r \in Session : sess'[r].open => sess[r].open
  BY Untouched DEF Return
<1>2. Told /\ Mapped /\ Sent /\ Timed /\ Count
  BY <1>1, TellsNobody, MapsNothing, SendsNothing, TimesNothing, CountsNothing DEF Return, clients
<1>3. Threads
  BY LeavesWell DEF Return
<1> QED BY <1>1, <1>2, <1>3, Progress

-----------------------------------------------------------------------------
(* The timer's thread *)

LEMMA AgeInv ==
  ASSUME IInv, NEW s \in Session, Age(s)
  PROVE  IInv'
<1>1. Keeps(sess') /\ \A r \in Session : sess'[r].open => sess[r].open
  BY IdleKept DEF Age
<1>2. Threads /\ Told /\ Mapped /\ Sent /\ Timed /\ Count
  BY <1>1, Unmoved, TellsNobody, MapsNothing, SendsNothing, TimesNothing, CountsNothing
     DEF Age, clients
<1> QED BY <1>1, <1>2, Progress

LEMMA ExpireInv ==
  ASSUME IInv, Expire
  PROVE  IInv'
<1> DEFINE old == {s \in byId : sess[s].idle}
<1>1. Keeps(sess') /\ \A r \in Session : sess'[r].open => sess[r].open
  BY Untouched DEF Expire
<1>2. byId' \subseteq byId /\ byRemote' = byRemote
  BY DEF Expire
<1>3. Threads /\ Told /\ Mapped /\ Sent /\ Count
  BY <1>1, <1>2, Unmoved, TellsNobody, MapsNothing, SendsNothing, CountsNothing DEF Expire, clients
<1>4. Timed
  <2>1. /\ opening' = opening /\ sess' = sess
        /\ expired' = {<<s, "invalidate">> : s \in old}
    BY DEF Expire
  <2>2. \A s \in old : s \in Session /\ sess[s].owner # None
    BY DEF IInv, TypeOK, Created
  <2> QED BY <2>1, <2>2 DEF IInv, TypeOK, Timed
<1> QED BY <1>1, <1>3, <1>4, Progress

\* What has expired is in the list once for each step that is due.
LEMMA Due ==
  ASSUME IInv, NEW s, NEW step, <<s, step>> \in expired
  PROVE  s \in Session /\ sess[s].owner # None
BY DEF IInv, TypeOK, Placed

LEMMA CloseExpiredInv ==
  ASSUME IInv, NEW s \in Session, CloseExpired(s)
  PROVE  IInv'
<1>1. Keeps(sess') /\ Count
  BY EmptiedWell DEF CloseExpired
<1>2. Threads /\ Told /\ Mapped /\ Sent
  BY Unmoved, TellsNobody, MapsNothing, SendsNothing DEF CloseExpired, clients
<1>3. Timed
  <2>1. sess'[s].owner # None
    BY <1>1, Due DEF CloseExpired, Keeps
  <2> QED BY <2>1 DEF CloseExpired, IInv, TypeOK, Timed
<1> QED BY <1>1, <1>2, <1>3, Progress

LEMMA UnmapExpiredInv ==
  ASSUME IInv, NEW s \in Session, UnmapExpired(s)
  PROVE  IInv'
<1>1. Keeps(sess') /\ \A r \in Session : sess'[r].open => sess[r].open
  BY Untouched DEF UnmapExpired
<1>2. Threads /\ Told /\ Mapped /\ Sent /\ Count
  BY <1>1, Unmoved, TellsNobody, UnmapsWell, SendsNothing, CountsNothing DEF UnmapExpired, clients
<1>3. Timed
  BY DEF UnmapExpired, IInv, TypeOK, Timed
<1> QED BY <1>1, <1>2, <1>3, Progress

LEMMA DropStaleInv ==
  ASSUME IInv, DropStale
  PROVE  IInv'
<1>1. Keeps(sess') /\ \A r \in Session : sess'[r].open => sess[r].open
  BY Untouched DEF DropStale
<1>2. Threads /\ Told /\ Sent /\ Timed /\ Count
  BY <1>1, Unmoved, TellsNobody, SendsNothing, TimesNothing, CountsNothing DEF DropStale, clients
<1>3. Mapped
  <2>1. byId' = byId /\ sess' = sess
    BY DEF DropStale
  <2>2. /\ byRemote' \in [Client -> Session \cup {None}]
        /\ \A c \in Client : byRemote'[c] \in {byRemote[c], None}
    BY DEF DropStale, IInv, TypeOK
  <2>3. byId' \subseteq Session /\ \A s \in byId' : s \in byId
    BY <2>1 DEF IInv, TypeOK, Created
  <2> QED BY <2>2, <2>3 DEF Mapped, Refers
<1> QED BY <1>1, <1>2, <1>3, Progress

-----------------------------------------------------------------------------
(* The theorems *)

\* Before the first request there is no session.
LEMMA InitInv == Init => IInv
<1> SUFFICES ASSUME Init PROVE IInv
  OBVIOUS
<1>1. /\ Unused \in SessionImpl /\ Unused.open = FALSE
      /\ Rest \in Work /\ Rest.s = None /\ Rest.req.sid = None /\ Rest.at \notin Sited
  BY RestTyped DEF Unused, SessionImpl, Sited
<1>2. TypeOK
  BY <1>1, SessionTableAssumption DEF Init, TypeOK, Work, None
<1>3. Owned
  BY <1>1 DEF Init, Owned, Refers
<1>4. Placed
  BY <1>1 DEF Init, Placed
<1>5. Counted
  BY <1>1 DEF Init, Counted
<1> QED BY <1>2, <1>3, <1>4, <1>5 DEF IInv

LEMMA StutterInv ==
  ASSUME IInv, UNCHANGED vars
  PROVE  IInv'
BY DEF vars, clients, IInv, TypeOK, Owned, Placed, Counted, Refers, Created

\* Every step of a client, the network, a thread and the timer keeps it.
LEMMA NextInv == IInv /\ [Next]_vars => IInv'
<1> SUFFICES ASSUME IInv, [Next]_vars PROVE IInv'
  OBVIOUS
<1>1. use.clients \subseteq Client /\ use.threads \subseteq Thread
  BY SessionTableAssumption DEF IInv, TypeOK, Use
<1>2. ASSUME NEW c \in Client, ClientStep(c) PROVE IInv'
  BY <1>2, SendInv DEF ClientStep, SendOpen, SendClose, SendCall, Kind
<1>3. ASSUME NEW t \in Thread, ThreadStep(t) PROVE IInv'
  BY <1>3, HeardInv, FindInv, CreateInv, MapInv, ListInv, AddInv, AcceptInv, RefuseInv,
     UnmapInv, EraseInv, BySidInv, AnswerCloseInv, InvalidateInv, RemapInv, MarkInv,
     EnterInv, AgainInv, UnmarkInv, ModuleInv, ReturnInv DEF ThreadStep
<1>4. ASSUME TimerStep PROVE IInv'
  BY <1>4, ExpireInv, DropStaleInv, CloseExpiredInv, UnmapExpiredInv DEF TimerStep
<1> QED BY <1>1, <1>2, <1>3, <1>4, LoseInv, TakeInv, AgeInv, StutterInv DEF Next

\* The inductive invariant holds throughout every behaviour.
THEOREM Invariant == Spec => []IInv
<1> QED BY InitInv, NextInv, PTL DEF Spec

\* Both maps, every session and every thread stay well-formed, and the maps
\* hold only sessions that were made, however the threads' critical sections
\* interleave and whatever clients and modules do.
THEOREM TableTypeCorrect == Spec => []TypeOK
<1>1. IInv => TypeOK
  BY DEF IInv
<1> QED BY <1>1, Invariant, PTL

\* A client's requests are handled in sessions made for that client only, and
\* its id is the id of one: every look-up, however stale, of either map leads
\* to a session of the address it was made for.
THEOREM TableOwnSession == Spec => []OwnSession
<1>1. IInv => OwnSession
  BY DEF IInv, Owned, OwnSession, Refers, Mine
<1> QED BY <1>1, Invariant, PTL

\* CGC_Session_Close is never called more often than CGC_Session_Open accepted,
\* though the entry's flag is set without a lock.
THEOREM TableClosedOnce == Spec => []ClosedOnce
<1>1. IInv => ClosedOnce
  BY DEF IInv, Counted, ClosedOnce
<1> QED BY <1>1, Invariant, PTL

-----------------------------------------------------------------------------
(* Patient clients *)

\* The threads that work for client c, the requests of c that may still do
\* something, and its sessions in the table.
Team(c)    == {t \in Thread : th[t].at # "idle" /\ th[t].req.client = c}
Asked(c)   == {m.req : m \in {n \in net : n.req.client = c}} \cup {th[t].req : t \in Team(c)}
Here(c)    == {s \in byId : sess[s].owner = c}

\* Session s of client c is in both maps and open towards the module.
Up(c, s)   == s \in byId /\ byRemote[c] = s /\ sess[s].open

\* Session s of client c is being opened by thread t, which works alone.
New(c, t, s) == Team(c) = {t} /\ s \in byId /\ ~sess[s].open /\ sess[s].item # None

\* A call and the client's id name the session that is up.  A close is about
\* with other copies of it only, and its session may be gone.
Asking(c) ==
  /\ \A q \in Asked(c) :
       /\ q.kind = "call" => Up(c, q.sid)
       /\ q.kind = "close" =>
            /\ q.sid # None /\ cSid[c] = None /\ byRemote[c] \in {None, q.sid}
            /\ \A p \in Asked(c) : p.kind = "close" /\ p.sid = q.sid
  /\ cSid[c] # None => Up(c, cSid[c]) \/ Gone(c)

\* What a thread that works for client c knows of the session.
Opener(c, t) ==
  \/ At(t, "heard") /\ Up(c, th[t].s)
  \/ th[t].at \in {"find", "create"} /\ Team(c) = {t} /\ Here(c) = {} /\ byRemote[c] = None
  \/ At(t, "map") /\ New(c, t, th[t].s) /\ byRemote[c] = None
  \/ At(t, "list") /\ Up(c, th[t].s)
  \/ At(t, "list") /\ New(c, t, th[t].s) /\ byRemote[c] = th[t].s
  \/ /\ At(t, "callback") /\ New(c, t, th[t].s) /\ byRemote[c] = th[t].s
     /\ th[t].item = sess[th[t].s].item

Caller(c, t) == th[t].at \in {"heard", "module", "running"} /\ Up(c, th[t].s)

Closer(c, t) ==
  \/ At(t, "bysid")
  \/ th[t].at \in {"heard", "close", "invalidate"} /\ th[t].s = th[t].req.sid
  \/ At(t, "unmap") /\ th[t].s = th[t].req.sid /\ ~sess[th[t].s].open
  \/ At(t, "erase") /\ th[t].s = th[t].req.sid /\ ~sess[th[t].s].open /\ byRemote[c] = None

Working(c) ==
  \A t \in Team(c) : \/ th[t].req.kind = "open" /\ Opener(c, t)
                     \/ th[t].req.kind = "call" /\ Caller(c, t)
                     \/ th[t].req.kind = "close" /\ Closer(c, t)

\* The client has one session in the table: it is up, or a thread opens or
\* closes it.  Its address leads to that session or to none, unless the client
\* is gone.
InTable(c) ==
  /\ \A s \in Here(c) :
       /\ \A r \in Here(c) : r = s
       /\ \/ Up(c, s)
          \/ \E t \in Team(c) : th[t].s = s
                                /\ th[t].at \in {"map", "list", "callback", "unmap", "erase"}
  /\ byRemote[c] # None => byRemote[c] \in byId \/ Gone(c)

\* Only a client that is gone has sessions that expire, and none that is out
\* of the table is open but one whose expiry is being handled.
Expiring(c, s) == <<s, "invalidate">> \in expired \/ <<s, "unmap">> \in expired

Lasting(c) ==
  \A s \in Session :
    sess[s].owner = c =>
      /\ sess[s].open => sess[s].item # None
      /\ sess[s].open /\ s \notin byId => <<s, "invalidate">> \in expired
      /\ sess[s].idle => Gone(c)
      /\ Expiring(c, s) => Gone(c) /\ Here(c) = {}

Paired ==
  /\ \A s \in Session : opens[s] = closes[s] + (IF sess[s].open THEN 1 ELSE 0)
  /\ \A s \in Session : sess[s].owner = None => ~sess[s].open

Era(c) == Asking(c) /\ Working(c) /\ InTable(c) /\ Lasting(c)

PatientInv == Patient => Paired /\ \A c \in Client : Era(c)

\* A step leaves alone what belongs to client d.
Kept(d) ==
  /\ Gone(d) => Gone(d)'
  /\ Asked(d)' \subseteq Asked(d)
  /\ Team(d)' = Team(d) /\ \A t \in Team(d) : th'[t] = th[t]
  /\ byRemote'[d] = byRemote[d] /\ cSid'[d] = cSid[d]
  /\ \A s \in Session : sess'[s].owner = d <=> sess[s].owner = d
  /\ \A s \in Session :
       sess[s].owner = d =>
         /\ sess'[s] = sess[s] /\ (s \in byId' <=> s \in byId)
         /\ \A step : (<<s, step>> \in expired' <=> <<s, step>> \in expired)

LEMMA KeptUp ==
  ASSUME IInv, NEW d \in Client, Kept(d), NEW s, Up(d, s)
  PROVE  Up(d, s)'
<1>1. s \in Session /\ sess[s].owner = d
  BY DEF Up, IInv, TypeOK, Owned, Refers, Created, Session, None
<1> QED BY <1>1 DEF Up, Kept

LEMMA KeptEra ==
  ASSUME IInv, IInv', NEW d \in Client, Kept(d), Era(d)
  PROVE  Era(d)'
<1>1. Here(d)' = Here(d)
  <2>1. byId \subseteq Session /\ byId' \subseteq Session
    BY DEF IInv, TypeOK, Created
  <2> QED BY <2>1 DEF Kept, Here
<1>2. Team(d)' = Team(d) /\ \A t \in Team(d) : th'[t] = th[t]
  BY DEF Kept
<1>3. Asking(d)'
  <2>1. Asked(d)' \subseteq Asked(d) /\ byRemote'[d] = byRemote[d] /\ cSid'[d] = cSid[d]
    BY DEF Kept
  <2>2. \A q \in Asked(d) : q.kind = "call" => Up(d, q.sid)'
    BY KeptUp DEF Era, Asking
  <2>3. \A q \in Asked(d) : q.kind = "close" =>
          /\ q.sid # None /\ cSid'[d] = None /\ byRemote'[d] \in {None, q.sid}
          /\ \A p \in Asked(d) : p.kind = "close" /\ p.sid = q.sid
    BY <2>1 DEF Era, Asking
  <2>4. cSid'[d] # None => Up(d, cSid[d])' \/ Gone(d)'
    BY <2>1, KeptUp DEF Era, Asking, Kept
  <2> QED BY <2>1, <2>2, <2>3, <2>4 DEF Asking
<1>4. Working(d)'
  <2> SUFFICES ASSUME NEW t \in Team(d)
               PROVE  \/ th[t].req.kind = "open" /\ Opener(d, t)'
                      \/ th[t].req.kind = "call" /\ Caller(d, t)'
                      \/ th[t].req.kind = "close" /\ Closer(d, t)'
    BY <1>2 DEF Working
  <2>1. th'[t] = th[t] /\ Refers(sess, th[t].s, d) /\ Refers(sess, th[t].req.sid, d)
        /\ t \in Thread /\ byRemote'[d] = byRemote[d]
    BY <1>2 DEF Team, IInv, Owned, Kept
  <2>2. th[t].s # None => th[t].s \in Session /\ sess'[th[t].s] = sess[th[t].s]
                          /\ (th[t].s \in byId => th[t].s \in byId')
    BY <2>1 DEF Refers, Kept
  <2>3. th[t].s \in byId => th[t].s # None
    BY DEF IInv, TypeOK, Created, Session, None
  <2>4. \/ th[t].req.kind = "open" /\ Opener(d, t)
        \/ th[t].req.kind = "call" /\ Caller(d, t)
        \/ th[t].req.kind = "close" /\ Closer(d, t)
    BY DEF Era, Working
  <2>5. New(d, t, th[t].s) => New(d, t, th[t].s)'
    BY <1>2, <2>1, <2>2, <2>3 DEF New
  <2>6. Up(d, th[t].s) => Up(d, th[t].s)'
    <3>1. Up(d, th[t].s) => /\ th[t].s \in byId' /\ byRemote'[d] = th[t].s /\ sess'[th[t].s].open
      BY <2>1, <2>2, <2>3 DEF Up
    <3> QED BY <2>1, <3>1 DEF Up
  <2>7. Opener(d, t) => Opener(d, t)'
    BY <1>1, <1>2, <2>1, <2>2, <2>3, <2>5, <2>6 DEF Opener, At, New
  <2>8. Caller(d, t) => Caller(d, t)'
    BY <2>1, <2>6 DEF Caller
  <2>9. th[t].req.kind = "close" => th[t].req.sid # None
    BY DEF Era, Asking, Asked
  <2>10. th[t].req.kind = "close" /\ Closer(d, t) => Closer(d, t)'
    BY <2>1, <2>2, <2>9 DEF Closer, At
  <2> QED BY <2>4, <2>7, <2>8, <2>10
<1>5. InTable(d)'
  <2>1. byRemote'[d] = byRemote[d] /\ (Gone(d) => Gone(d)')
    BY DEF Kept
  <2>2. byRemote[d] # None => byRemote[d] \in Session /\ sess[byRemote[d]].owner = d
    BY DEF IInv, Owned, Refers
  <2>3. byRemote'[d] # None => byRemote'[d] \in byId' \/ Gone(d)'
    BY <2>1, <2>2 DEF Kept, Era, InTable
  <2>4. \A s \in Here(d) :
          /\ \A r \in Here(d) : r = s
          /\ \/ Up(d, s)'
             \/ \E t \in Team(d) : th'[t].s = s
                  /\ th'[t].at \in {"map", "list", "callback", "unmap", "erase"}
    BY <1>2, KeptUp DEF Era, InTable
  <2> QED BY <1>1, <1>2, <2>3, <2>4 DEF InTable
<1>6. Lasting(d)'
  <2> SUFFICES ASSUME NEW s \in Session, sess'[s].owner = d
               PROVE  /\ sess'[s].open => sess'[s].item # None
                      /\ sess'[s].open /\ s \notin byId' => <<s, "invalidate">> \in expired'
                      /\ sess'[s].idle => Gone(d)'
                      /\ Expiring(d, s)' => Gone(d)' /\ Here(d)' = {}
    BY DEF Lasting
  <2>1. /\ sess[s].owner = d /\ sess'[s] = sess[s] /\ (s \in byId' <=> s \in byId)
        /\ (<<s, "invalidate">> \in expired' <=> <<s, "invalidate">> \in expired)
        /\ (<<s, "unmap">> \in expired' <=> <<s, "unmap">> \in expired)
        /\ (Gone(d) => Gone(d)')
    BY DEF Kept
  <2>2. /\ sess[s].open => sess[s].item # None
        /\ sess[s].open /\ s \notin byId => <<s, "invalidate">> \in expired
        /\ sess[s].idle => Gone(d)
        /\ Expiring(d, s) => Gone(d) /\ Here(d) = {}
    BY <2>1 DEF Era, Lasting
  <2> QED BY <1>1, <2>1, <2>2 DEF Expiring
<1> QED BY <1>3, <1>4, <1>5, <1>6 DEF Era

\* A step of client c, or for it, leaves the others alone.
OnlyFor(c) ==
  /\ use' = use
  /\ \A d \in Client \ {c} : byRemote'[d] = byRemote[d] /\ cSid'[d] = cSid[d] /\ made'[d] = made[d]
  /\ \A t \in Thread : \/ th'[t] = th[t]
                       \/ /\ th[t].at = "idle" \/ th[t].req.client = c
                          /\ th'[t].at = "idle" \/ th'[t].req.client = c
  /\ \A m \in net' : m.req.client # c => \E n \in net : n.req = m.req
  /\ \A s \in Session : \/ sess'[s] = sess[s]
                        \/ sess[s].owner \in {None, c} /\ sess'[s].owner = c
  /\ \A s \in Session :
       sess'[s].owner # c =>
         /\ (s \in byId' <=> s \in byId)
         /\ \A step : (<<s, step>> \in expired' <=> <<s, step>> \in expired)

LEMMA Others ==
  ASSUME IInv, IInv', NEW c \in Client, OnlyFor(c), NEW d \in Client \ {c}, Era(d)
  PROVE  Era(d)'
<1>1. Team(d)' = Team(d) /\ \A t \in Team(d) : th'[t] = th[t]
  BY DEF OnlyFor, Team
<1>2. \A m \in net' : m.req.client = d => \E n \in net : n.req = m.req
  BY DEF OnlyFor
<1>3. Asked(d)' \subseteq Asked(d)
  BY <1>1, <1>2 DEF Asked
<1>4. Gone(d) => Gone(d)'
  <2>1. made'[d] = made[d] /\ use' = use
    BY DEF OnlyFor
  <2>2. Works(d) <=> Team(d) # {}
    BY DEF Works, Busy, Team
  <2>3. Works(d)' <=> Team(d)' # {}
    BY DEF Works, Busy, Team
  <2> QED BY <1>1, <1>2, <2>1, <2>2, <2>3 DEF Gone, Settled
<1>5. d # None /\ d # c
  BY SessionTableAssumption DEF None
<1>6. \A s \in Session : sess'[s].owner = d <=> sess[s].owner = d
  BY <1>5 DEF OnlyFor
<1>7. \A s \in Session :
        sess[s].owner = d =>
          /\ sess'[s] = sess[s] /\ (s \in byId' <=> s \in byId)
          /\ \A step : (<<s, step>> \in expired' <=> <<s, step>> \in expired)
  BY <1>5 DEF OnlyFor
<1>8. Kept(d)
  BY <1>1, <1>3, <1>4, <1>6, <1>7 DEF Kept, OnlyFor
<1> QED BY <1>8, KeptEra

\* Nothing of a client that is there has expired.
LEMMA There ==
  ASSUME IInv, NEW c \in Client, Era(c), ~Gone(c)
  PROVE  /\ \A s \in Session : sess[s].owner = c =>
              /\ ~sess[s].idle /\ (sess[s].open => s \in byId /\ sess[s].item # None)
              /\ \A step : <<s, step>> \notin expired
         /\ cSid[c] # None => Up(c, cSid[c])
         /\ byRemote[c] # None => byRemote[c] \in Session /\ sess[byRemote[c]].owner = c
                                  /\ byRemote[c] \in byId
<1>1. \A s \in Session : sess[s].owner = c =>
        /\ ~sess[s].idle /\ (sess[s].open => s \in byId /\ sess[s].item # None)
        /\ \A step : <<s, step>> \notin expired
  <2> SUFFICES ASSUME NEW s \in Session, sess[s].owner = c
               PROVE  /\ ~sess[s].idle /\ (sess[s].open => s \in byId /\ sess[s].item # None)
                      /\ \A step : <<s, step>> \notin expired
    OBVIOUS
  <2>1. ~Expiring(c, s) /\ ~sess[s].idle
    BY DEF Era, Lasting
  <2>2. \A step : <<s, step>> \in expired => step \in {"invalidate", "unmap"}
    BY DEF IInv, TypeOK
  <2>3. \A step : <<s, step>> \notin expired
    BY <2>1, <2>2 DEF Expiring
  <2> QED BY <2>1, <2>3 DEF Era, Lasting
<1>2. cSid[c] # None => Up(c, cSid[c])
  BY DEF Era, Asking
<1>3. byRemote[c] # None => byRemote[c] \in Session /\ sess[byRemote[c]].owner = c
                            /\ byRemote[c] \in byId
  BY DEF Era, InTable, IInv, Owned, Refers
<1> QED BY <1>1, <1>2, <1>3

\* So is a client that a thread works for.
LEMMA Present ==
  ASSUME IInv, NEW c \in Client, Era(c), NEW t \in Team(c)
  PROVE  /\ t \in Thread /\ ~Gone(c)
         /\ \A s \in Session : sess[s].owner = c =>
              /\ ~sess[s].idle /\ (sess[s].open => s \in byId /\ sess[s].item # None)
              /\ \A step : <<s, step>> \notin expired
         /\ cSid[c] # None => Up(c, cSid[c])
         /\ byRemote[c] # None => byRemote[c] \in Session /\ sess[byRemote[c]].owner = c
                                  /\ byRemote[c] \in byId
         /\ th[t].req.kind # "close" => \A q \in Asked(c) : q.kind # "close"
<1>1. t \in Thread /\ th[t].at # "idle" /\ th[t].req.client = c
  BY DEF Team
<1>2. ~Gone(c)
  BY <1>1 DEF Gone, Settled, Works, Busy
<1>3. th[t].req.kind # "close" => \A q \in Asked(c) : q.kind # "close"
  BY DEF Era, Asking, Asked
<1> QED BY <1>1, <1>2, <1>3, There

\* Thread t goes on with its request, or leaves it.
Proceeds(t) ==
  /\ UNCHANGED <<use, made, net, expired>>
  /\ \A u \in Thread \ {t} : th'[u] = th[u]
  /\ th'[t].at = "idle" \/ th'[t].req = th[t].req

LEMMA TeamKept ==
  ASSUME NEW c \in Client, NEW t \in Team(c), Proceeds(t)
  PROVE  /\ Team(c)' \subseteq Team(c) /\ Team(c) \subseteq Team(c)' \cup {t}
         /\ th'[t].at # "idle" => Team(c)' = Team(c)
         /\ th'[t].at = "idle" => t \notin Team(c)'
         /\ \A u \in Team(c) \ {t} : th'[u] = th[u]
         /\ Asked(c)' \subseteq Asked(c)
<1>1. t \in Thread /\ th[t].at # "idle" /\ th[t].req.client = c
  BY DEF Team
<1>2. /\ Team(c)' \subseteq Team(c) /\ Team(c) \subseteq Team(c)' \cup {t}
      /\ th'[t].at # "idle" => t \in Team(c)'
      /\ th'[t].at = "idle" => t \notin Team(c)'
      /\ \A u \in Team(c) \ {t} : th'[u] = th[u]
  BY <1>1 DEF Team, Proceeds
<1>3. \A u \in Team(c)' : th'[u].req = th[u].req
  BY <1>2 DEF Proceeds, Team
<1>4. net' = net
  BY DEF Proceeds
<1>5. Asked(c)' \subseteq Asked(c)
  BY <1>2, <1>3, <1>4 DEF Asked
<1> QED BY <1>2, <1>5

\* The step concerns client c only.
LEMMA ProceedsOnly ==
  ASSUME IInv, NEW c \in Client, NEW t \in Team(c), Proceeds(t),
         \A d \in Client \ {c} : byRemote'[d] = byRemote[d] /\ cSid'[d] = cSid[d],
         \A s \in Session : \/ sess'[s] = sess[s]
                            \/ sess[s].owner \in {None, c} /\ sess'[s].owner = c,
         \A s \in Session : sess'[s].owner # c => (s \in byId' <=> s \in byId)
  PROVE  OnlyFor(c)
<1>1. t \in Thread /\ th[t].at # "idle" /\ th[t].req.client = c
  BY DEF Team
<1>2. \A m \in net' : \E n \in net : n.req = m.req
  BY DEF Proceeds
<1>3. \A u \in Thread : \/ th'[u] = th[u]
                        \/ /\ th[u].at = "idle" \/ th[u].req.client = c
                           /\ th'[u].at = "idle" \/ th'[u].req.client = c
  BY <1>1 DEF Proceeds
<1> QED BY <1>2, <1>3 DEF OnlyFor, Proceeds

\* The places from which a session is brought up or taken out.
Handling == {"map", "list", "callback", "unmap", "erase"}

\* What a thread may do at its next place.
Rightly(c, t) ==
  \/ th[t].req.kind = "open" /\ Opener(c, t)
  \/ th[t].req.kind = "call" /\ Caller(c, t)
  \/ th[t].req.kind = "close" /\ Closer(c, t)

\* The session objects are as they were, but for the time of the last access.
SameSessions ==
  \A s \in Session : /\ sess'[s].owner = sess[s].owner /\ sess'[s].item = sess[s].item
                     /\ sess'[s].open = sess[s].open /\ (sess'[s].idle => sess[s].idle)

\* A step that leaves the tables and the sessions as they are.
LEMMA Walks ==
  ASSUME IInv, IInv', NEW c \in Client, \A d \in Client : Era(d),
         NEW t \in Team(c), Proceeds(t), byId' = byId, byRemote' = byRemote, SameSessions,
         \A s \in Session : sess'[s] = sess[s] \/ sess[s].owner = c,
         \A d \in Client \ {c} : cSid'[d] = cSid[d],
         \/ cSid'[c] \in {cSid[c], None}
         \/ Up(c, cSid'[c]) /\ th[t].req.kind # "close",
         th'[t].at # "idle" => Rightly(c, t)',
         \/ th[t].at \notin Handling
         \/ th[t].s \notin byId
         \/ Up(c, th[t].s)
         \/ th'[t].at \in Handling /\ th'[t].s = th[t].s
  PROVE  \A d \in Client : Era(d)'
<1> USE DEF Handling
<1>1. /\ Team(c)' \subseteq Team(c) /\ Team(c) \subseteq Team(c)' \cup {t}
      /\ th'[t].at # "idle" => Team(c)' = Team(c)
      /\ th'[t].at = "idle" => t \notin Team(c)'
      /\ \A u \in Team(c) \ {t} : th'[u] = th[u]
      /\ Asked(c)' \subseteq Asked(c)
  BY TeamKept
<1>2. /\ t \in Thread /\ ~Gone(c)
      /\ \A s \in Session : sess[s].owner = c =>
           /\ ~sess[s].idle /\ (sess[s].open => s \in byId /\ sess[s].item # None)
           /\ \A step : <<s, step>> \notin expired
      /\ cSid[c] # None => Up(c, cSid[c])
      /\ byRemote[c] # None => byRemote[c] \in byId
      /\ th[t].req.kind # "close" => \A q \in Asked(c) : q.kind # "close"
  BY Present
<1>3. byId \subseteq Session /\ expired' = expired /\ None \notin byId
  BY DEF IInv, TypeOK, Created, Session, None, Proceeds
<1>4. \A s : Up(c, s)' <=> Up(c, s)
  BY <1>3 DEF Up, SameSessions
<1>5. Here(c)' = Here(c)
  BY <1>3 DEF Here, SameSessions
<1>6. Asking(c)'
  <2>1. \A q \in Asked(c)' : q.kind = "call" => Up(c, q.sid)'
    BY <1>1, <1>4 DEF Era, Asking
  <2>2. \A q \in Asked(c)' : q.kind = "close" =>
          /\ q.sid # None /\ cSid'[c] = None /\ byRemote'[c] \in {None, q.sid}
          /\ \A p \in Asked(c)' : p.kind = "close" /\ p.sid = q.sid
    BY <1>1, <1>2 DEF Era, Asking
  <2>3. cSid'[c] # None => Up(c, cSid'[c])
    BY <1>2
  <2>4. cSid'[c] # None => Up(c, cSid[c])'
    BY <1>3, <2>3 DEF Up, SameSessions
  <2> QED BY <2>1, <2>2, <2>4 DEF Asking
<1>7. Working(c)'
  <2> SUFFICES ASSUME NEW u \in Team(c)'
               PROVE  Rightly(c, u)'
    BY DEF Working, Rightly
  <2>1. CASE u = t
    BY <1>1, <2>1
  <2>2. CASE u # t
    <3>1. u \in Team(c) /\ th'[u] = th[u] /\ Team(c) # {u} /\ u \in Thread
      BY <1>1, <2>2 DEF Team
    <3>2. Rightly(c, u)
      BY <3>1 DEF Era, Working, Rightly
    <3>3. Opener(c, u) => Up(c, th[u].s) /\ th[u].at \in {"heard", "list"}
      BY <3>1 DEF Opener, New, At
    <3>4. Opener(c, u) => Opener(c, u)'
      BY <1>4, <3>1, <3>3 DEF Opener, At
    <3>5. Caller(c, u) => Caller(c, u)'
      BY <1>4, <3>1 DEF Caller
    <3>6. th[u].req.kind = "close" => th[u].s \in Session \cup {None} /\ th[u].req.sid \in Session
      BY <3>1 DEF IInv, TypeOK, Request, Era, Asking, Asked
    <3>7. th[u].req.kind = "close" /\ Closer(c, u) => Closer(c, u)'
      BY <3>1, <3>6 DEF Closer, At, SameSessions
    <3> QED BY <3>1, <3>2, <3>4, <3>5, <3>7 DEF Rightly
  <2> QED BY <2>1, <2>2
<1>8. InTable(c)'
  <2>1. \A s \in Here(c) :
          \/ Up(c, s)'
          \/ \E u \in Team(c)' : th'[u].s = s /\ th'[u].at \in Handling
    <3> SUFFICES ASSUME NEW s \in Here(c), ~Up(c, s)
                 PROVE  \E u \in Team(c)' : th'[u].s = s /\ th'[u].at \in Handling
      BY <1>4
    <3>1. PICK u \in Team(c) : th[u].s = s /\ th[u].at \in Handling
      BY DEF Era, InTable
    <3>2. CASE u = t
      <4>1. s \in byId
        BY DEF Here
      <4>2. th'[t].at \in Handling /\ th'[t].s = s
        BY <3>1, <3>2, <4>1
      <4>3. th'[t].at # "idle"
        BY <4>2
      <4> QED BY <1>1, <4>2, <4>3
    <3>3. CASE u # t
      BY <1>1, <3>1, <3>3
    <3> QED BY <3>2, <3>3
  <2>2. \A s, r \in Here(c) : r = s
    BY DEF Era, InTable
  <2> QED BY <1>2, <1>5, <2>1, <2>2 DEF InTable
<1>9. Lasting(c)'
  BY <1>2, <1>3 DEF Lasting, SameSessions, Expiring
<1>10. OnlyFor(c)
  BY <1>3, ProceedsOnly DEF SameSessions
<1> QED BY <1>6, <1>7, <1>8, <1>9, <1>10, Others DEF Era

\* A thread at work is in its client's team, and rightly where it is.
LEMMA Turn ==
  ASSUME IInv, \A d \in Client : Era(d), NEW t \in Thread, th[t].at # "idle"
  PROVE  Mine(t) \in Client /\ t \in Team(Mine(t)) /\ Rightly(Mine(t), t)
<1>1. Mine(t) \in Client /\ t \in Team(Mine(t))
  BY AtHand DEF Team, Mine
<1> QED BY <1>1 DEF Era, Working, Rightly

LEMMA MovesOn ==
  ASSUME IInv, NEW t \in Thread, NEW q, NEW place, NEW s, Moves(t, q, place, s),
         UNCHANGED <<use, made, net, expired>>, place = "idle" \/ q = th[t].req
  PROVE  Proceeds(t)
BY DEF Moves, Proceeds

\* Sessions that a datagram is heard in, or that nothing is done to.
LEMMA StillSame == ASSUME sess' = sess PROVE SameSessions
BY DEF SameSessions

LEMMA HeardEra ==
  ASSUME IInv, IInv', \A d \in Client : Era(d), NEW t \in Thread, Heard(t)
  PROVE  \A d \in Client : Era(d)'
<1> SUFFICES ASSUME NEW c, c = Mine(t), NEW s, s = th[t].s, NEW q, q = th[t].req
             PROVE  \A d \in Client : Era(d)'
  OBVIOUS
<1>1. c \in Client /\ t \in Team(c) /\ Rightly(c, t) /\ th[t].at = "heard"
  BY Turn DEF Heard, At
<1>2. s \in Session /\ sess[s].owner = c /\ s # None /\ q \in Request
  BY <1>1, AtHand DEF Sited, Session, None
<1>3. /\ \A r \in Session : sess'[r] = sess[r] \/ sess[r].owner = c
      /\ SameSessions
  <2>1. sess[s] \in SessionImpl
    BY <1>2 DEF IInv, TypeOK
  <2>2. /\ \A r \in Session \ {s} : sess'[r] = sess[r]
        /\ sess'[s].owner = sess[s].owner /\ sess'[s].item = sess[s].item
        /\ sess'[s].open = sess[s].open /\ sess'[s].idle = FALSE
    BY <1>2, <2>1 DEF Heard, Touched, IInv, TypeOK, SessionImpl
  <2> QED BY <1>2, <2>2 DEF SameSessions
<1>4. byId' = byId /\ byRemote' = byRemote /\ cSid' = cSid /\ UNCHANGED <<use, made, net, expired>>
  BY DEF Heard, clients
<1>5. CASE Leave(t)
  <2>1. Moves(t, NoRequest, "idle", None)
    BY <1>5, LeaveMoves
  <2>2. Proceeds(t) /\ th'[t].at = "idle"
    BY <1>4, <2>1, MovesOn DEF Moves
  <2> QED BY <1>1, <1>3, <1>4, <2>2, Walks DEF Handling
<1>6. CASE Go(t, Handler(q, s))
  <2>1. Moves(t, q, Handler(q, s), s)
    BY <1>2, <1>6, HandlerPlace, GoMoves
  <2>2. Proceeds(t) /\ th'[t].at = Handler(q, s) /\ th'[t].s = s /\ th'[t].req = q
    BY <1>4, <2>1, MovesOn DEF Moves
  <2>3. Up(c, s) => Up(c, s)'
    <3>1. sess'[s].open = sess[s].open
      BY <1>2, <1>3 DEF SameSessions
    <3> QED BY <1>4, <2>2, <3>1 DEF Up
  <2>4. Rightly(c, t)'
    BY <1>1, <1>2, <2>2, <2>3 DEF Rightly, Opener, Caller, Closer, At, Handler
  <2> QED BY <1>1, <1>3, <1>4, <2>2, <2>4, Walks DEF Handling
<1> QED BY <1>5, <1>6 DEF Heard

LEMMA FindEra ==
  ASSUME IInv, IInv', \A d \in Client : Era(d), NEW t \in Thread, Find(t)
  PROVE  \A d \in Client : Era(d)'
<1> SUFFICES ASSUME NEW c, c = Mine(t)
             PROVE  \A d \in Client : Era(d)'
  OBVIOUS
<1>1. c \in Client /\ t \in Team(c) /\ Rightly(c, t) /\ th[t].at = "find"
  BY Turn DEF Find, At
<1>2. Team(c) = {t} /\ Here(c) = {} /\ byRemote[c] = None /\ th[t].req.kind = "open"
  BY <1>1 DEF Rightly, Opener, Caller, Closer, At, New
<1>3. /\ byId' = byId /\ byRemote' = byRemote /\ cSid' = cSid /\ sess' = sess
      /\ UNCHANGED <<use, made, net, expired>> /\ Go(t, "create")
  BY <1>2 DEF Find, clients
<1>4. Moves(t, th[t].req, "create", th[t].s)
  BY <1>3, GoMoves, "create" \in Place DEF Place
<1>5. Proceeds(t) /\ th'[t].at = "create" /\ th'[t].req = th[t].req
  BY <1>3, <1>4, MovesOn DEF Moves
<1>6. Team(c)' = {t} /\ Here(c)' = {}
  <2>1. Team(c)' = Team(c)
    BY <1>1, <1>5, TeamKept
  <2> QED BY <1>2, <1>3, <2>1 DEF Here
<1>7. Rightly(c, t)'
  BY <1>2, <1>3, <1>5, <1>6 DEF Rightly, Opener
<1> QED BY <1>1, <1>3, <1>5, <1>7, Walks, StillSame DEF Handling

LEMMA ListEra ==
  ASSUME IInv, IInv', \A d \in Client : Era(d), NEW t \in Thread, List(t)
  PROVE  \A d \in Client : Era(d)'
<1> SUFFICES ASSUME NEW c, c = Mine(t), NEW s, s = th[t].s
             PROVE  \A d \in Client : Era(d)'
  OBVIOUS
<1>1. c \in Client /\ t \in Team(c) /\ Rightly(c, t) /\ th[t].at = "list"
  BY Turn DEF List, At
<1>2. th[t].req.kind = "open" /\ (Up(c, s) \/ (New(c, t, s) /\ byRemote[c] = s))
  BY <1>1 DEF Rightly, Opener, Caller, Closer, At
<1>3. s \in Session /\ sess[s].owner = c
  BY <1>1, AtHand DEF Sited
<1>4. byId' = byId /\ byRemote' = byRemote /\ sess' = sess /\ UNCHANGED <<use, made, net, expired>>
  BY DEF List
<1>5. CASE Up(c, s)
  <2>1. sess[s].item # None /\ sess[s].open
    BY <1>1, <1>3, <1>5, Present DEF Up
  <2>2. Leave(t) /\ Result(c, s)
    BY <1>2, <2>1 DEF List, Opened
  <2>3. Moves(t, NoRequest, "idle", None)
    BY <2>2, LeaveMoves
  <2>4. Proceeds(t) /\ th'[t].at = "idle"
    BY <1>4, <2>3, MovesOn DEF Moves
  <2>5. /\ \A d \in Client \ {c} : cSid'[d] = cSid[d]
        /\ cSid'[c] = cSid[c] \/ cSid'[c] = s
    BY <1>1, <2>2 DEF Result, IInv, TypeOK
  <2> QED BY <1>1, <1>2, <1>4, <1>5, <2>4, <2>5, Walks, StillSame
<1>6. CASE New(c, t, s) /\ byRemote[c] = s
  <2>1. sess[s].item # None /\ ~sess[s].open /\ Team(c) = {t} /\ s \in byId
    BY <1>6 DEF New
  <2>2. th' = [th EXCEPT ![t].at = "callback", ![t].item = sess[s].item] /\ cSid' = cSid
    BY <2>1 DEF List
  <2>3. sess[s].item \in Item \cup {None}
    BY <1>3 DEF IInv, TypeOK, SessionImpl
  <2>4. Moves(t, th[t].req, "callback", s)
    BY <2>2, <2>3, ItemMoves, "callback" \in Place DEF Place
  <2>5. Proceeds(t) /\ th'[t].at = "callback" /\ th'[t].s = s /\ th'[t].req = th[t].req
    BY <1>4, <2>4, MovesOn DEF Moves
  <2>6. th'[t].item = sess[s].item
    <3>1. th[t] \in Work
      BY AtHand
    <3> QED BY <2>2, <3>1 DEF Work, IInv, TypeOK
  <2>7. Team(c)' = {t}
    BY <1>1, <2>1, <2>5, TeamKept
  <2>8. Rightly(c, t)'
    BY <1>2, <1>4, <1>6, <2>1, <2>5, <2>6, <2>7 DEF Rightly, Opener, At, New
  <2> QED BY <1>1, <1>4, <2>2, <2>5, <2>8, Walks, StillSame DEF Handling
<1> QED BY <1>2, <1>5, <1>6

LEMMA BySidEra ==
  ASSUME IInv, IInv', \A d \in Client : Era(d), NEW t \in Thread, BySid(t)
  PROVE  \A d \in Client : Era(d)'
<1> SUFFICES ASSUME NEW c, c = Mine(t), NEW q, q = th[t].req
             PROVE  \A d \in Client : Era(d)'
  OBVIOUS
<1>1. c \in Client /\ t \in Team(c) /\ Rightly(c, t) /\ th[t].at = "bysid" /\ q.client = c
  BY Turn DEF BySid, At, Mine
<1>2. q.kind = "close"
  BY <1>1 DEF Rightly, Opener, Caller, At
<1>3. byId' = byId /\ byRemote' = byRemote /\ sess' = sess /\ UNCHANGED <<use, made, net, expired>>
  BY DEF BySid
<1>4. CASE q.sid \in byId
  <2>1. GoWith(t, "close", q.sid) /\ cSid' = cSid /\ q.sid \in Session \cup {None}
    BY <1>2, <1>4 DEF BySid, IInv, TypeOK, Created
  <2>2. Moves(t, q, "close", q.sid)
    BY <2>1, GoWithMoves, "close" \in Place DEF Place
  <2>3. Proceeds(t) /\ th'[t].at = "close" /\ th'[t].s = q.sid /\ th'[t].req = q
    BY <1>3, <2>2, MovesOn DEF Moves
  <2>4. Rightly(c, t)'
    BY <1>2, <2>3 DEF Rightly, Closer
  <2> QED BY <1>1, <1>3, <2>1, <2>3, <2>4, Walks, StillSame DEF Handling
<1>5. CASE q.sid \notin byId
  <2>1. Leave(t) /\ Result(c, None)
    BY <1>1, <1>5 DEF BySid
  <2>2. Moves(t, NoRequest, "idle", None)
    BY <2>1, LeaveMoves
  <2>3. Proceeds(t) /\ th'[t].at = "idle"
    BY <1>3, <2>2, MovesOn DEF Moves
  <2>4. /\ \A d \in Client \ {c} : cSid'[d] = cSid[d]
        /\ cSid'[c] \in {cSid[c], None}
    BY <1>1, <2>1 DEF Result, IInv, TypeOK
  <2> QED BY <1>1, <1>3, <2>3, <2>4, Walks, StillSame DEF Handling
<1> QED BY <1>4, <1>5

LEMMA AnswerCloseEra ==
  ASSUME IInv, IInv', \A d \in Client : Era(d), NEW t \in Thread, AnswerClose(t)
  PROVE  \A d \in Client : Era(d)'
<1> SUFFICES ASSUME NEW c, c = Mine(t), NEW s, s = th[t].s
             PROVE  \A d \in Client : Era(d)'
  OBVIOUS
<1>1. c \in Client /\ t \in Team(c) /\ Rightly(c, t) /\ th[t].at = "close"
  BY Turn DEF AnswerClose, At
<1>2. th[t].req.kind = "close" /\ s = th[t].req.sid
  BY <1>1 DEF Rightly, Opener, Caller, Closer, At
<1>3. s \in Session /\ sess[s].owner = c
  BY <1>1, AtHand DEF Sited
<1>4. /\ \A r \in Session : sess'[r] = sess[r] \/ sess[r].owner = c
      /\ SameSessions
  <2>1. sess[s] \in SessionImpl /\ sess' = [sess EXCEPT ![s].idle = FALSE]
    BY <1>3 DEF IInv, TypeOK, AnswerClose, Touched
  <2>2. /\ \A r \in Session \ {s} : sess'[r] = sess[r]
        /\ sess'[s].owner = sess[s].owner /\ sess'[s].item = sess[s].item
        /\ sess'[s].open = sess[s].open /\ sess'[s].idle = FALSE
    BY <1>3, <2>1 DEF IInv, TypeOK, SessionImpl
  <2> QED BY <1>3, <2>2 DEF SameSessions
<1>5. byId' = byId /\ byRemote' = byRemote /\ UNCHANGED <<use, made, net, expired>>
      /\ Go(t, "invalidate") /\ Result(c, None)
  BY DEF AnswerClose
<1>6. Moves(t, th[t].req, "invalidate", s)
  BY <1>5, GoMoves, "invalidate" \in Place DEF Place
<1>7. Proceeds(t) /\ th'[t].at = "invalidate" /\ th'[t].s = s /\ th'[t].req = th[t].req
  BY <1>5, <1>6, MovesOn DEF Moves
<1>8. Rightly(c, t)'
  BY <1>2, <1>7 DEF Rightly, Closer
<1>9. /\ \A d \in Client \ {c} : cSid'[d] = cSid[d]
      /\ cSid'[c] \in {cSid[c], None}
  BY <1>1, <1>5 DEF Result, IInv, TypeOK
<1> QED BY <1>1, <1>4, <1>5, <1>7, <1>8, <1>9, Walks DEF Handling

LEMMA ModuleEra ==
  ASSUME IInv, IInv', \A d \in Client : Era(d), NEW t \in Thread, Module(t)
  PROVE  \A d \in Client : Era(d)'
<1> SUFFICES ASSUME NEW c, c = Mine(t), NEW s, s = th[t].s
             PROVE  \A d \in Client : Era(d)'
  OBVIOUS
<1>1. c \in Client /\ t \in Team(c) /\ Rightly(c, t) /\ th[t].at = "module"
  BY Turn DEF Module, At
<1>2. th[t].req.kind = "call" /\ Up(c, s)
  BY <1>1 DEF Rightly, Opener, Caller, Closer, At
<1>3. s \in Session /\ sess[s].owner = c /\ sess[s].item # None
  <2>1. s \in Session /\ sess[s].owner = c
    BY <1>1, AtHand DEF Sited
  <2> QED BY <1>1, <1>2, <2>1, Present DEF Up
<1>4. byId' = byId /\ byRemote' = byRemote /\ sess' = sess /\ UNCHANGED <<use, made, net, expired>>
      /\ Go(t, "running") /\ (Result(c, s) \/ cSid' = cSid)
  BY <1>3 DEF Module
<1>5. Moves(t, th[t].req, "running", s)
  BY <1>4, GoMoves, "running" \in Place DEF Place
<1>6. Proceeds(t) /\ th'[t].at = "running" /\ th'[t].s = s /\ th'[t].req = th[t].req
  BY <1>4, <1>5, MovesOn DEF Moves
<1>7. Rightly(c, t)'
  BY <1>2, <1>4, <1>6 DEF Rightly, Caller, Up
<1>8. /\ \A d \in Client \ {c} : cSid'[d] = cSid[d]
      /\ cSid'[c] = cSid[c] \/ cSid'[c] = s
  BY <1>1, <1>4 DEF Result, IInv, TypeOK
<1> QED BY <1>1, <1>2, <1>4, <1>6, <1>7, <1>8, Walks, StillSame DEF Handling

LEMMA ReturnEra ==
  ASSUME IInv, IInv', \A d \in Client : Era(d), NEW t \in Thread, Return(t)
  PROVE  \A d \in Client : Era(d)'
<1>1. Mine(t) \in Client /\ t \in Team(Mine(t)) /\ th[t].at = "running"
  BY Turn DEF Return, At
<1>2. byId' = byId /\ byRemote' = byRemote /\ sess' = sess /\ cSid' = cSid
      /\ UNCHANGED <<use, made, net, expired>> /\ Leave(t)
  BY DEF Return, clients
<1>3. Moves(t, NoRequest, "idle", None)
  BY <1>2, LeaveMoves
<1>4. Proceeds(t) /\ th'[t].at = "idle"
  BY <1>2, <1>3, MovesOn DEF Moves
<1> QED BY <1>1, <1>2, <1>4, Walks, StillSame DEF Handling

-----------------------------------------------------------------------------
(* A patient client's session comes up *)

\* While no session of the client is up, all it has sent is one open.
LEMMA Alone ==
  ASSUME IInv, NEW c \in Client, Era(c), NEW t \in Team(c), th[t].req.kind # "close",
         \A s : ~Up(c, s)
  PROVE  cSid[c] = None /\ \A q \in Asked(c) : q.kind = "open"
<1>1. \A q \in Asked(c) : q \in Request
  BY DEF Asked, Team, IInv, TypeOK
<1>2. \A q \in Asked(c) : q.kind # "close"
  BY Present
<1>3. \A q \in Asked(c) : q.kind # "call"
  BY DEF Era, Asking
<1>4. cSid[c] = None
  BY Present
<1> QED BY <1>1, <1>2, <1>3, <1>4 DEF Request, Kind

LEMMA StillLasting ==
  ASSUME IInv, NEW c \in Client, Era(c), NEW t \in Team(c), expired' = expired,
         \A s \in Session : sess'[s].owner = c =>
           /\ sess[s].owner \in {c, None}
           /\ ~sess'[s].idle
           /\ sess'[s].open => sess'[s].item # None /\ s \in byId'
  PROVE  Lasting(c)'
<1>1. \A s \in Session : sess[s].owner \in {c, None} => \A step : <<s, step>> \notin expired
  BY Present, Due
<1> QED BY <1>1 DEF Lasting, Expiring

LEMMA CreateEra ==
  ASSUME IInv, IInv', \A d \in Client : Era(d), NEW t \in Thread, Create(t)
  PROVE  \A d \in Client : Era(d)'
<1> SUFFICES ASSUME NEW c, c = Mine(t), NEW n, n = NewId
             PROVE  \A d \in Client : Era(d)'
  OBVIOUS
<1>1. c \in Client /\ t \in Team(c) /\ Rightly(c, t) /\ th[t].at = "create"
  BY Turn DEF Create, At
<1>2. Team(c) = {t} /\ Here(c) = {} /\ byRemote[c] = None /\ th[t].req.kind = "open"
  BY <1>1 DEF Rightly, Opener, Caller, Closer, At, New
<1>3. n \in Session /\ n \notin Created /\ n # None /\ None \notin byId /\ c # None
  <2>1. \E s \in Session : s \notin Created
    BY DEF Create, Created
  <2>2. n \in Session /\ n \notin Created
    BY <2>1 DEF NewId
  <2> QED BY <1>1, <2>2, SessionTableAssumption DEF Session, None, IInv, TypeOK, Created
<1>4. /\ byId' = byId \cup {n} /\ byRemote' = byRemote /\ cSid' = cSid
      /\ UNCHANGED <<use, made, net, expired>> /\ GoWith(t, "map", n)
  BY DEF Create, clients
<1>5. /\ \A s \in Session \ {n} : sess'[s] = sess[s]
      /\ sess'[n].owner = c /\ sess'[n].item = 1 /\ ~sess'[n].open /\ ~sess'[n].idle
  BY <1>3 DEF Create, IInv, TypeOK, Unused
<1>6. Moves(t, th[t].req, "map", n)
  BY <1>3, <1>4, GoWithMoves, "map" \in Place DEF Place
<1>7. Proceeds(t) /\ th'[t].at = "map" /\ th'[t].s = n /\ th'[t].req = th[t].req
  BY <1>4, <1>6, MovesOn DEF Moves
<1>8. Team(c)' = {t} /\ Asked(c)' \subseteq Asked(c)
  BY <1>1, <1>2, <1>7, TeamKept
<1>9. cSid[c] = None /\ \A q \in Asked(c) : q.kind = "open"
  BY <1>1, <1>2, <1>3, Alone DEF Up
<1>10. Here(c)' = {n}
  <2>1. byId \subseteq Created /\ Created \subseteq Session
    BY DEF IInv, TypeOK, Created
  <2> QED BY <1>2, <1>3, <1>4, <1>5, <2>1 DEF Here
<1>11. Asking(c)'
  BY <1>4, <1>8, <1>9 DEF Asking
<1>12. Working(c)'
  <2>1. New(c, t, n)'
    BY <1>4, <1>5, <1>8 DEF New, None
  <2>2. Opener(c, t)'
    BY <1>2, <1>4, <1>7, <2>1 DEF Opener, At, New
  <2> QED BY <1>2, <1>7, <1>8, <2>2 DEF Working
<1>13. InTable(c)'
  BY <1>2, <1>4, <1>7, <1>8, <1>10 DEF InTable
<1>14. Lasting(c)'
  <2>1. sess[n].owner = None
    BY <1>3 DEF Created
  <2>2. \A s \in Session : sess[s].owner = c =>
          ~sess[s].idle /\ (sess[s].open => s \in byId /\ sess[s].item # None)
    BY <1>1, Present
  <2> QED BY <1>1, <1>4, <1>5, <2>1, <2>2, StillLasting
<1>15. OnlyFor(c)
  <2>1. sess[n].owner = None
    BY <1>3 DEF Created
  <2> QED BY <1>1, <1>4, <1>5, <1>7, <2>1, ProceedsOnly
<1> QED BY <1>1, <1>11, <1>12, <1>13, <1>14, <1>15, Others DEF Era

LEMMA MapEra ==
  ASSUME IInv, IInv', \A d \in Client : Era(d), NEW t \in Thread, Map(t)
  PROVE  \A d \in Client : Era(d)'
<1> SUFFICES ASSUME NEW c, c = Mine(t), NEW s, s = th[t].s
             PROVE  \A d \in Client : Era(d)'
  OBVIOUS
<1>1. c \in Client /\ t \in Team(c) /\ Rightly(c, t) /\ th[t].at = "map"
  BY Turn DEF Map, At
<1>2. New(c, t, s) /\ byRemote[c] = None /\ th[t].req.kind = "open"
  BY <1>1 DEF Rightly, Opener, Caller, Closer, At
<1>3. s \in Session /\ sess[s].owner = c /\ None \notin byId
  <2>1. None \notin byId
    BY DEF IInv, TypeOK, Created, Session, None
  <2> QED BY <1>1, <2>1, AtHand DEF Sited
<1>4. /\ byId' = byId /\ cSid' = cSid /\ sess' = sess
      /\ UNCHANGED <<use, made, net, expired>> /\ Go(t, "list")
      /\ byRemote' = [byRemote EXCEPT ![c] = s]
  BY DEF Map, clients
<1>5. byRemote'[c] = s /\ \A d \in Client \ {c} : byRemote'[d] = byRemote[d]
  BY <1>1, <1>4 DEF IInv, TypeOK
<1>6. Moves(t, th[t].req, "list", s)
  BY <1>4, GoMoves, "list" \in Place DEF Place
<1>7. Proceeds(t) /\ th'[t].at = "list" /\ th'[t].s = s /\ th'[t].req = th[t].req
  BY <1>4, <1>6, MovesOn DEF Moves
<1>8. Team(c)' = {t} /\ Asked(c)' \subseteq Asked(c)
  BY <1>1, <1>2, <1>7, TeamKept DEF New
<1>9. cSid[c] = None /\ \A q \in Asked(c) : q.kind = "open"
  BY <1>1, <1>2, <1>3, Alone DEF Up
<1>10. s \in byId /\ Here(c)' = Here(c) /\ s \in Here(c)
  BY <1>2, <1>3, <1>4 DEF New, Here
<1>11. Asking(c)'
  BY <1>4, <1>8, <1>9 DEF Asking
<1>12. Working(c)'
  <2>1. New(c, t, s)'
    BY <1>2, <1>4, <1>8 DEF New
  <2>2. Opener(c, t)'
    BY <1>5, <1>7, <2>1 DEF Opener, At, New
  <2> QED BY <1>2, <1>7, <1>8, <2>2 DEF Working
<1>13. InTable(c)'
  <2>1. \A r \in Here(c) : r = s
    BY <1>10, <1>1 DEF Era, InTable
  <2> QED BY <1>4, <1>5, <1>7, <1>8, <1>10, <2>1 DEF InTable
<1>14. Lasting(c)'
  <2>1. \A r \in Session : sess[r].owner = c =>
          ~sess[r].idle /\ (sess[r].open => r \in byId /\ sess[r].item # None)
    BY <1>1, Present
  <2> QED BY <1>1, <1>4, <2>1, StillLasting
<1>15. OnlyFor(c)
  BY <1>1, <1>4, <1>5, <1>7, ProceedsOnly
<1> QED BY <1>1, <1>11, <1>12, <1>13, <1>14, <1>15, Others DEF Era

LEMMA AcceptEra ==
  ASSUME IInv, IInv', \A d \in Client : Era(d), NEW t \in Thread, Accept(t)
  PROVE  \A d \in Client : Era(d)'
<1> SUFFICES ASSUME NEW c, c = Mine(t), NEW s, s = th[t].s
             PROVE  \A d \in Client : Era(d)'
  OBVIOUS
<1>1. c \in Client /\ t \in Team(c) /\ Rightly(c, t) /\ th[t].at = "callback"
  BY Turn DEF Accept, At
<1>2. New(c, t, s) /\ byRemote[c] = s /\ th[t].req.kind = "open" /\ th[t].item = sess[s].item
  BY <1>1 DEF Rightly, Opener, Caller, Closer, At
<1>3. s \in Session /\ sess[s].owner = c /\ None \notin byId
  <2>1. None \notin byId
    BY DEF IInv, TypeOK, Created, Session, None
  <2> QED BY <1>1, <2>1, AtHand DEF Sited
<1>4. /\ byId' = byId /\ byRemote' = byRemote
      /\ UNCHANGED <<use, made, net, expired>> /\ Leave(t) /\ Result(c, s)
  BY <1>2 DEF Accept, Opened
<1>5. /\ \A r \in Session \ {s} : sess'[r] = sess[r]
      /\ sess'[s].owner = sess[s].owner /\ sess'[s].item = sess[s].item
      /\ sess'[s].open /\ sess'[s].idle = sess[s].idle
  <2>1. sess[s] \in SessionImpl
    BY <1>3 DEF IInv, TypeOK
  <2> QED BY <1>2, <1>3, <2>1 DEF Accept, IInv, TypeOK, SessionImpl
<1>6. Moves(t, NoRequest, "idle", None)
  BY <1>4, LeaveMoves
<1>7. Proceeds(t) /\ th'[t].at = "idle"
  BY <1>4, <1>6, MovesOn DEF Moves
<1>8. Team(c)' = {} /\ Asked(c)' \subseteq Asked(c)
  BY <1>1, <1>2, <1>7, TeamKept DEF New
<1>9. cSid[c] = None /\ \A q \in Asked(c) : q.kind = "open"
  BY <1>1, <1>2, Alone DEF Up, New
<1>10. s \in byId /\ Here(c)' = Here(c) /\ s \in Here(c) /\ Up(c, s)'
  <2>1. byId \subseteq Session
    BY DEF IInv, TypeOK, Created
  <2> QED BY <1>2, <1>3, <1>4, <1>5, <2>1 DEF New, Here, Up
<1>11. Asking(c)'
  <2>1. /\ \A d \in Client \ {c} : cSid'[d] = cSid[d]
        /\ cSid'[c] = None \/ cSid'[c] = s
    BY <1>1, <1>4, <1>9 DEF Result, IInv, TypeOK
  <2>2. cSid'[c] # None => Up(c, cSid[c])'
    BY <1>10, <2>1 DEF Up
  <2> QED BY <1>8, <1>9, <2>2 DEF Asking
<1>12. Working(c)'
  BY <1>8 DEF Working
<1>13. InTable(c)'
  <2>1. \A r \in Here(c) : r = s
    BY <1>1, <1>10 DEF Era, InTable
  <2> QED BY <1>2, <1>4, <1>10, <2>1 DEF InTable
<1>14. Lasting(c)'
  <2>1. \A r \in Session : sess[r].owner = c =>
          ~sess[r].idle /\ (sess[r].open => r \in byId /\ sess[r].item # None)
    BY <1>1, Present
  <2>2. sess[s].item # None /\ s \in byId
    BY <1>2 DEF New
  <2> QED BY <1>1, <1>3, <1>4, <1>5, <2>1, <2>2, StillLasting
<1>15. OnlyFor(c)
  <2>1. \A d \in Client \ {c} : byRemote'[d] = byRemote[d] /\ cSid'[d] = cSid[d]
    BY <1>1, <1>4 DEF Result, IInv, TypeOK
  <2> QED BY <1>1, <1>3, <1>4, <1>5, <1>7, <2>1, ProceedsOnly
<1> QED BY <1>1, <1>11, <1>12, <1>13, <1>14, <1>15, Others DEF Era

-----------------------------------------------------------------------------
(* A patient client's session is closed *)

\* While a close is about, there are only copies of it, and the session it
\* names is the only one that may be left.
LEMMA Closing ==
  ASSUME IInv, NEW c \in Client, Era(c), NEW t \in Team(c), th[t].req.kind = "close",
         NEW s, s = th[t].req.sid
  PROVE  /\ s # None /\ cSid[c] = None /\ byRemote[c] \in {None, s}
         /\ \A q \in Asked(c) : q.kind = "close" /\ q.sid = s
         /\ \A u \in Team(c) : th[u].req.kind = "close" /\ th[u].req.sid = s /\ Closer(c, u)
         /\ Here(c) \subseteq {s}
         /\ \A r \in Here(c) : \/ Up(c, r)
                               \/ \E u \in Team(c) : th[u].s = r /\ th[u].at \in {"unmap", "erase"}
<1>1. /\ s # None /\ cSid[c] = None /\ byRemote[c] \in {None, s}
      /\ \A q \in Asked(c) : q.kind = "close" /\ q.sid = s
  <2>1. th[t].req \in Asked(c)
    BY DEF Asked
  <2> QED BY <2>1 DEF Era, Asking
<1>2. \A u \in Team(c) : th[u].req.kind = "close" /\ th[u].req.sid = s
  BY <1>1 DEF Asked
<1>3. \A u \in Team(c) : Closer(c, u)
  BY <1>2 DEF Era, Working
<1>4. \A r \in Here(c) : \/ Up(c, r)
                         \/ \E u \in Team(c) : th[u].s = r /\ th[u].at \in {"unmap", "erase"}
  BY <1>3 DEF Era, InTable, Closer, At
<1>5. \A r \in Here(c) : Up(c, r) => r = s
  <2>1. None \notin byId
    BY DEF IInv, TypeOK, Created, Session, None
  <2> QED BY <1>1, <2>1 DEF Up
<1>6. \A u \in Team(c) : th[u].at \in {"unmap", "erase"} => th[u].s = s
  BY <1>2, <1>3 DEF Closer, At
<1> QED BY <1>1, <1>2, <1>3, <1>4, <1>5, <1>6

LEMMA InvalidateEra ==
  ASSUME IInv, IInv', \A d \in Client : Era(d), NEW t \in Thread, Invalidate(t)
  PROVE  \A d \in Client : Era(d)'
<1> SUFFICES ASSUME NEW c, c = Mine(t), NEW s, s = th[t].s
             PROVE  \A d \in Client : Era(d)'
  OBVIOUS
<1>1. c \in Client /\ t \in Team(c) /\ Rightly(c, t) /\ th[t].at = "invalidate"
  BY Turn DEF Invalidate, At
<1>2. th[t].req.kind = "close" /\ s = th[t].req.sid
  BY <1>1 DEF Rightly, Opener, Caller, Closer, At
<1>3. s \in Session /\ sess[s].owner = c
  BY <1>1, AtHand DEF Sited
<1>4. /\ byId' = byId /\ byRemote' = byRemote /\ cSid' = cSid
      /\ UNCHANGED <<use, made, net, expired>> /\ Go(t, "unmap")
  BY DEF Invalidate, clients
<1>5. /\ \A r \in Session \ {s} : sess'[r] = sess[r]
      /\ sess'[s].owner = sess[s].owner /\ sess'[s].idle = sess[s].idle /\ ~sess'[s].open
  <2>1. sess[s] \in SessionImpl /\ sess' = [sess EXCEPT ![s].item = None, ![s].open = FALSE]
    BY <1>3 DEF Invalidate, ListEmptied, IInv, TypeOK
  <2> QED BY <1>3, <2>1 DEF IInv, TypeOK, SessionImpl
<1>6. Moves(t, th[t].req, "unmap", s)
  BY <1>4, GoMoves, "unmap" \in Place DEF Place
<1>7. Proceeds(t) /\ th'[t].at = "unmap" /\ th'[t].s = s /\ th'[t].req = th[t].req
  BY <1>4, <1>6, MovesOn DEF Moves
<1>8. /\ Team(c)' = Team(c) /\ Asked(c)' \subseteq Asked(c)
      /\ \A u \in Team(c) \ {t} : th'[u] = th[u]
  BY <1>1, <1>7, TeamKept
<1>9. /\ s # None /\ cSid[c] = None /\ byRemote[c] \in {None, s}
      /\ \A q \in Asked(c) : q.kind = "close" /\ q.sid = s
      /\ \A u \in Team(c) : th[u].req.kind = "close" /\ th[u].req.sid = s /\ Closer(c, u)
      /\ Here(c) \subseteq {s}
      /\ \A r \in Here(c) : \/ Up(c, r)
                            \/ \E u \in Team(c) : th[u].s = r /\ th[u].at \in {"unmap", "erase"}
  BY <1>1, <1>2, Closing
<1>10. Here(c)' = Here(c)
  <2>1. byId \subseteq Session
    BY DEF IInv, TypeOK, Created
  <2> QED BY <1>4, <1>5, <2>1 DEF Here
<1>11. Asking(c)'
  BY <1>4, <1>8, <1>9 DEF Asking
<1>12. Working(c)'
  <2>1. \A u \in Team(c) \ {t} : Closer(c, u)'
    BY <1>4, <1>5, <1>8, <1>9 DEF Closer, At
  <2>2. Closer(c, t)'
    BY <1>2, <1>5, <1>7 DEF Closer, At
  <2>3. \A u \in Team(c) : th'[u].req.kind = "close"
    BY <1>7, <1>8, <1>9
  <2> QED BY <1>8, <2>1, <2>2, <2>3 DEF Working
<1>13. InTable(c)'
  <2>1. byRemote'[c] # None => byRemote'[c] \in byId'
    BY <1>1, <1>4, Present
  <2> QED BY <1>1, <1>7, <1>8, <1>9, <1>10, <2>1 DEF InTable
<1>14. Lasting(c)'
  <2>1. \A r \in Session : sess[r].owner = c =>
          ~sess[r].idle /\ (sess[r].open => r \in byId /\ sess[r].item # None)
    BY <1>1, Present
  <2> QED BY <1>1, <1>3, <1>4, <1>5, <2>1, StillLasting
<1>15. OnlyFor(c)
  BY <1>1, <1>3, <1>4, <1>5, <1>7, ProceedsOnly
<1> QED BY <1>1, <1>11, <1>12, <1>13, <1>14, <1>15, Others DEF Era

LEMMA UnmapEra ==
  ASSUME IInv, IInv', \A d \in Client : Era(d), NEW t \in Thread, Unmap(t)
  PROVE  \A d \in Client : Era(d)'
<1> SUFFICES ASSUME NEW c, c = Mine(t), NEW s, s = th[t].s
             PROVE  \A d \in Client : Era(d)'
  OBVIOUS
<1>1. c \in Client /\ t \in Team(c) /\ Rightly(c, t) /\ th[t].at = "unmap"
  BY Turn DEF Unmap, At
<1>2. th[t].req.kind = "close" /\ s = th[t].req.sid /\ ~sess[s].open
  BY <1>1 DEF Rightly, Opener, Caller, Closer, At
<1>3. s \in Session /\ sess[s].owner = c
  BY <1>1, AtHand DEF Sited
<1>4. /\ byId' = byId /\ sess' = sess /\ cSid' = cSid
      /\ UNCHANGED <<use, made, net, expired>> /\ Go(t, "erase")
      /\ byRemote' = [byRemote EXCEPT ![c] = None]
  BY <1>3 DEF Unmap, clients
<1>5. byRemote'[c] = None /\ \A d \in Client \ {c} : byRemote'[d] = byRemote[d]
  BY <1>1, <1>4 DEF IInv, TypeOK
<1>6. Moves(t, th[t].req, "erase", s)
  BY <1>4, GoMoves, "erase" \in Place DEF Place
<1>7. Proceeds(t) /\ th'[t].at = "erase" /\ th'[t].s = s /\ th'[t].req = th[t].req
  BY <1>4, <1>6, MovesOn DEF Moves
<1>8. /\ Team(c)' = Team(c) /\ Asked(c)' \subseteq Asked(c)
      /\ \A u \in Team(c) \ {t} : th'[u] = th[u]
  BY <1>1, <1>7, TeamKept
<1>9. /\ s # None /\ cSid[c] = None /\ byRemote[c] \in {None, s}
      /\ \A q \in Asked(c) : q.kind = "close" /\ q.sid = s
      /\ \A u \in Team(c) : th[u].req.kind = "close" /\ th[u].req.sid = s /\ Closer(c, u)
      /\ Here(c) \subseteq {s}
  BY <1>1, <1>2, Closing
<1>10. Asking(c)'
  BY <1>4, <1>5, <1>8, <1>9 DEF Asking
<1>11. Working(c)'
  <2>1. \A u \in Team(c) \ {t} : Closer(c, u)'
    BY <1>4, <1>5, <1>8, <1>9 DEF Closer, At
  <2>2. Closer(c, t)'
    BY <1>2, <1>4, <1>5, <1>7 DEF Closer, At
  <2>3. \A u \in Team(c) : th'[u].req.kind = "close"
    BY <1>7, <1>8, <1>9
  <2> QED BY <1>8, <2>1, <2>2, <2>3 DEF Working
<1>12. InTable(c)'
  <2>1. Here(c)' = Here(c)
    BY <1>4 DEF Here
  <2> QED BY <1>1, <1>5, <1>7, <1>8, <1>9, <2>1 DEF InTable
<1>13. Lasting(c)'
  <2>1. \A r \in Session : sess[r].owner = c =>
          ~sess[r].idle /\ (sess[r].open => r \in byId /\ sess[r].item # None)
    BY <1>1, Present
  <2> QED BY <1>1, <1>4, <2>1, StillLasting
<1>14. OnlyFor(c)
  BY <1>1, <1>4, <1>5, <1>7, ProceedsOnly
<1> QED BY <1>1, <1>10, <1>11, <1>12, <1>13, <1>14, Others DEF Era

LEMMA EraseEra ==
  ASSUME IInv, IInv', \A d \in Client : Era(d), NEW t \in Thread, Erase(t)
  PROVE  \A d \in Client : Era(d)'
<1> SUFFICES ASSUME NEW c, c = Mine(t), NEW s, s = th[t].s
             PROVE  \A d \in Client : Era(d)'
  OBVIOUS
<1>1. c \in Client /\ t \in Team(c) /\ Rightly(c, t) /\ th[t].at = "erase"
  BY Turn DEF Erase, At
<1>2. th[t].req.kind = "close" /\ s = th[t].req.sid /\ ~sess[s].open /\ byRemote[c] = None
  BY <1>1 DEF Rightly, Opener, Caller, Closer, At
<1>3. s \in Session /\ sess[s].owner = c
  BY <1>1, AtHand DEF Sited
<1>4. /\ byId' = byId \ {s} /\ byRemote' = byRemote /\ sess' = sess /\ cSid' = cSid
      /\ UNCHANGED <<use, made, net, expired>> /\ Leave(t)
  BY <1>2 DEF Erase
<1>5. Moves(t, NoRequest, "idle", None)
  BY <1>4, LeaveMoves
<1>6. Proceeds(t) /\ th'[t].at = "idle"
  BY <1>4, <1>5, MovesOn DEF Moves
<1>7. /\ Team(c)' \subseteq Team(c) /\ t \notin Team(c)' /\ Asked(c)' \subseteq Asked(c)
      /\ \A u \in Team(c) \ {t} : th'[u] = th[u]
  BY <1>1, <1>6, TeamKept
<1>8. /\ s # None /\ cSid[c] = None /\ byRemote[c] \in {None, s}
      /\ \A q \in Asked(c) : q.kind = "close" /\ q.sid = s
      /\ \A u \in Team(c) : th[u].req.kind = "close" /\ th[u].req.sid = s /\ Closer(c, u)
      /\ Here(c) \subseteq {s}
  BY <1>1, <1>2, Closing
<1>9. Here(c)' = {}
  BY <1>4, <1>8 DEF Here
<1>10. Asking(c)'
  BY <1>4, <1>7, <1>8 DEF Asking
<1>11. Working(c)'
  <2>1. \A u \in Team(c) \ {t} : Closer(c, u)' /\ th'[u].req.kind = "close"
    BY <1>4, <1>7, <1>8 DEF Closer, At
  <2> QED BY <1>7, <2>1 DEF Working
<1>12. InTable(c)'
  BY <1>2, <1>4, <1>9 DEF InTable
<1>13. Lasting(c)'
  <2>1. \A r \in Session : sess[r].owner = c =>
          ~sess[r].idle /\ (sess[r].open => r \in byId /\ sess[r].item # None)
    BY <1>1, Present
  <2> QED BY <1>1, <1>2, <1>4, <2>1, StillLasting
<1>14. OnlyFor(c)
  BY <1>1, <1>3, <1>4, <1>6, ProceedsOnly
<1> QED BY <1>1, <1>10, <1>11, <1>12, <1>13, <1>14, Others DEF Era

-----------------------------------------------------------------------------
(* A patient client's datagrams *)

\* A datagram of the client finds none of its threads about an open.
LEMMA TakeEra ==
  ASSUME IInv, IInv', use.quick, \A d \in Client : Era(d),
         NEW t \in Thread, NEW m \in net, Take(t, m)
  PROVE  \A d \in Client : Era(d)'
<1> SUFFICES ASSUME NEW q, q = m.req, NEW c, c = q.client, NEW s, s = byRemote[c]
             PROVE  \A d \in Client : Era(d)'
  OBVIOUS
<1>1. c \in Client /\ q \in Request /\ q \in Asked(c) /\ ~Gone(c)
  BY DEF IInv, TypeOK, Request, Asked, Gone, Settled
<1>2. /\ cSid' = cSid /\ byId' = byId /\ byRemote' = byRemote /\ sess' = sess
      /\ UNCHANGED <<use, made, expired>> /\ th[t].at = "idle" /\ ~IsOpening(c)
  BY DEF Take, At
<1>3. /\ th'[t].at = IF s = None THEN Handler(q, None) ELSE "heard"
      /\ th'[t].req = q /\ th'[t].s = s
      /\ \A u \in Thread \ {t} : th'[u] = th[u]
  BY DEF Take, IInv, TypeOK
<1>4. \A n \in net' : \E n0 \in net : n0.req = n.req
  BY DEF Take, IInv, TypeOK
<1>5. th'[t].at # "idle" /\ t \notin Team(c)
  BY <1>1, <1>2, <1>3 DEF Handler, Request, Kind, Team
<1>6. /\ Team(c)' = Team(c) \cup {t} /\ \A u \in Team(c) : th'[u] = th[u]
      /\ Asked(c)' \subseteq Asked(c)
  <2>1. Team(c)' = Team(c) \cup {t} /\ \A u \in Team(c) : th'[u] = th[u]
    BY <1>3, <1>5 DEF Team
  <2>2. \A n \in net' : n.req.client = c => n.req \in Asked(c)
    BY <1>4 DEF Asked
  <2>3. \A u \in Team(c)' : th'[u].req \in Asked(c)
    BY <1>1, <1>3, <2>1 DEF Asked
  <2>4. \A p \in Asked(c)' : \/ \E n \in net' : n.req.client = c /\ p = n.req
                             \/ \E u \in Team(c)' : p = th'[u].req
    BY DEF Asked
  <2> QED BY <2>1, <2>2, <2>3, <2>4
<1>7. /\ \A r \in Session : sess[r].owner = c =>
           /\ ~sess[r].idle /\ (sess[r].open => r \in byId /\ sess[r].item # None)
           /\ \A step : <<r, step>> \notin expired
      /\ cSid[c] # None => Up(c, cSid[c])
      /\ s # None => s \in Session /\ sess[s].owner = c /\ s \in byId
  BY <1>1, There
<1>8. None \notin byId
  BY DEF IInv, TypeOK, Created, Session, None
<1>9. \A u \in Team(c) : /\ th[u].req.kind = "open" => At(u, "heard") /\ Up(c, th[u].s)
                         /\ th[u].req.kind = "call" => Up(c, th[u].s) /\ Caller(c, u)
                         /\ th[u].req.kind \in Kind
  <2> SUFFICES ASSUME NEW u \in Team(c)
               PROVE  /\ th[u].req.kind = "open" => At(u, "heard") /\ Up(c, th[u].s)
                      /\ th[u].req.kind = "call" => Up(c, th[u].s) /\ Caller(c, u)
                      /\ th[u].req.kind \in Kind
    OBVIOUS
  <2>1. u \in Busy /\ Mine(u) = c /\ u \in Thread /\ th[u].req.kind \in Kind
    BY DEF Team, Busy, Mine, IInv, TypeOK, Request
  <2>2. th[u].req.kind = "open" => th[u].at \notin {"find", "create", "map", "list", "callback"}
    BY <1>2, <2>1 DEF IsOpening
  <2>3. \/ th[u].req.kind = "open" /\ Opener(c, u)
        \/ th[u].req.kind = "call" /\ Caller(c, u)
        \/ th[u].req.kind = "close" /\ Closer(c, u)
    BY <1>1 DEF Era, Working
  <2> QED BY <2>1, <2>2, <2>3 DEF Opener, Caller, At
<1>10. q.kind # "close" => \A u \in Team(c) : Up(c, th[u].s) /\ th[u].at \in {"heard", "module", "running"}
  <2>1. q.kind # "close" => \A u \in Team(c) : th[u].req.kind # "close"
    BY <1>1 DEF Era, Asking, Asked
  <2> QED BY <1>9, <2>1 DEF Kind, Caller, At
<1>11. Asking(c)'
  <2>1. cSid[c] # None => Up(c, cSid[c])'
    BY <1>2, <1>7 DEF Up
  <2>2. \A p \in Asked(c) : p.kind = "call" => Up(c, p.sid)'
    BY <1>1, <1>2 DEF Era, Asking, Up
  <2> QED BY <1>1, <1>2, <1>6, <2>1, <2>2 DEF Era, Asking
<1>12. Working(c)'
  <2>1. ASSUME NEW u \in Team(c)
        PROVE  \/ th[u].req.kind = "open" /\ Opener(c, u)'
               \/ th[u].req.kind = "call" /\ Caller(c, u)'
               \/ th[u].req.kind = "close" /\ Closer(c, u)'
    <3>1. th'[u] = th[u]
      BY <1>6
    <3>2. th[u].req.kind = "open" => Opener(c, u)'
      BY <1>2, <1>9, <3>1 DEF Opener, At, Up
    <3>3. th[u].req.kind = "call" => Caller(c, u)'
      BY <1>2, <1>9, <3>1 DEF Caller, Up
    <3>4. th[u].req.kind = "close" => Closer(c, u)
      BY <1>1 DEF Era, Working
    <3>5. th[u].req.kind = "close" => Closer(c, u)'
      BY <1>2, <3>1, <3>4 DEF Closer, At
    <3> QED BY <1>9, <3>2, <3>3, <3>5 DEF Kind
  <2>2. CASE q.kind = "open" /\ s = None
    <3>1. Team(c) = {}
      BY <1>8, <1>10, <2>2 DEF Up
    <3>2. Here(c) = {}
      <4>1. \A r : ~Up(c, r)
        BY <1>8, <2>2 DEF Up
      <4>2. \A r \in Here(c) : Up(c, r) \/ \E u \in Team(c) : th[u].s = r
        BY <1>1 DEF Era, InTable
      <4> QED BY <3>1, <4>1, <4>2
    <3>3. Team(c)' = {t} /\ Here(c)' = {} /\ byRemote'[c] = None /\ th'[t].at = "find"
      BY <1>2, <1>3, <1>6, <2>2, <3>1, <3>2 DEF Here, Handler
    <3>4. Opener(c, t)'
      BY <3>3 DEF Opener
    <3> QED BY <1>3, <2>2, <3>3, <3>4 DEF Working
  <2>3. CASE q.kind = "open" /\ s # None
    <3>1. s \in Here(c)
      BY <1>7, <2>3 DEF Here
    <3>2. \A u \in Team(c) : th[u].at \notin {"map", "list", "callback", "unmap", "erase"}
      BY <1>10, <2>3
    <3>3. Up(c, s)
      BY <1>1, <3>1, <3>2 DEF Era, InTable
    <3>4. Opener(c, t)'
      BY <1>2, <1>3, <2>3, <3>3 DEF Opener, At, Up
    <3> QED BY <1>3, <1>6, <2>1, <2>3, <3>4 DEF Working
  <2>4. CASE q.kind = "call"
    <3>1. Up(c, q.sid) /\ q.sid = s /\ s # None
      BY <1>1, <1>8, <2>4 DEF Era, Asking, Up
    <3>2. Caller(c, t)'
      BY <1>2, <1>3, <3>1 DEF Caller, Up
    <3> QED BY <1>3, <1>6, <2>1, <2>4, <3>2 DEF Working
  <2>5. CASE q.kind = "close"
    <3>1. s \in {None, q.sid}
      BY <1>1, <2>5 DEF Era, Asking
    <3>2. Closer(c, t)'
      BY <1>3, <2>5, <3>1 DEF Closer, At, Handler
    <3> QED BY <1>3, <1>6, <2>1, <2>5, <3>2 DEF Working
  <2> QED BY <1>1, <2>2, <2>3, <2>4, <2>5 DEF Request, Kind
<1>13. InTable(c)'
  <2>1. Here(c)' = Here(c)
    BY <1>2 DEF Here
  <2>2. \A r : Up(c, r) => Up(c, r)'
    BY <1>2 DEF Up
  <2>3. \A r \in Here(c) :
          /\ \A p \in Here(c) : p = r
          /\ Up(c, r) \/ \E u \in Team(c) : th'[u].s = r
                           /\ th'[u].at \in {"map", "list", "callback", "unmap", "erase"}
    BY <1>1, <1>6 DEF Era, InTable
  <2> QED BY <1>2, <1>6, <1>7, <2>1, <2>2, <2>3 DEF InTable
<1>14. Lasting(c)'
  BY <1>2, <1>7 DEF Lasting, Expiring
<1>15. OnlyFor(c)
  <2>1. \A u \in Thread : \/ th'[u] = th[u]
                          \/ /\ th[u].at = "idle" \/ th[u].req.client = c
                             /\ th'[u].at = "idle" \/ th'[u].req.client = c
    BY <1>2, <1>3
  <2> QED BY <1>2, <1>4, <2>1 DEF OnlyFor
<1> QED BY <1>1, <1>11, <1>12, <1>13, <1>14, <1>15, Others DEF Era

LEMMA LoseEra ==
  ASSUME IInv, IInv', \A d \in Client : Era(d), NEW m \in net, Lose(m)
  PROVE  \A d \in Client : Era(d)'
<1> SUFFICES ASSUME NEW d \in Client PROVE Era(d)'
  OBVIOUS
<1>1. /\ net' \subseteq net /\ th' = th /\ cSid' = cSid /\ byId' = byId /\ byRemote' = byRemote
      /\ sess' = sess /\ UNCHANGED <<use, made, expired>>
  BY DEF Lose
<1>2. Team(d)' = Team(d) /\ Asked(d)' \subseteq Asked(d)
  BY <1>1 DEF Team, Asked
<1>3. Gone(d) => Gone(d)'
  BY <1>1 DEF Gone, Settled, Works, Busy
<1>4. Kept(d)
  BY <1>1, <1>2, <1>3 DEF Kept
<1> QED BY <1>4, KeptEra

\* What the client sends, it sends to the session that is up.
LEMMA SendEra ==
  ASSUME IInv, IInv', \A d \in Client : Era(d), NEW c \in Client, NEW kind \in Kind, Send(c, kind),
         kind = "call" => cSid[c] # None,
         kind = "open" => cSid[c] = None /\ Settled(c),
         kind = "close" => cSid[c] # None /\ Settled(c)
  PROVE  \A d \in Client : Era(d)'
<1> SUFFICES ASSUME NEW q,
                    q = [client |-> c, id |-> made[c] + 1, kind |-> kind, sid |-> cSid[c]]
             PROVE  \A d \in Client : Era(d)'
  OBVIOUS
<1>1. /\ th' = th /\ byId' = byId /\ byRemote' = byRemote /\ sess' = sess
      /\ UNCHANGED <<use, expired>>
      /\ net' = net \cup {[req |-> q, left |-> use.copies]}
      /\ cSid' = IF kind = "close" THEN [cSid EXCEPT ![c] = None] ELSE cSid
  BY DEF Send
<1>2. q.client = c /\ q.kind = kind /\ q.sid = cSid[c]
  OBVIOUS
<1>3. ~Gone(c)
  <2>1. use \in Use
    BY SessionTableAssumption DEF IInv, TypeOK
  <2> QED BY <2>1 DEF Send, Gone, Use, IInv, TypeOK
<1>4. /\ \A r \in Session : sess[r].owner = c =>
           /\ ~sess[r].idle /\ (sess[r].open => r \in byId /\ sess[r].item # None)
           /\ \A step : <<r, step>> \notin expired
      /\ cSid[c] # None => Up(c, cSid[c])
      /\ byRemote[c] # None => byRemote[c] \in byId
  BY <1>3, There
<1>5. Team(c)' = Team(c) /\ Asked(c)' \subseteq Asked(c) \cup {q} /\ \A r : Up(c, r)' <=> Up(c, r)
  BY <1>1 DEF Team, Asked, Up
<1>6. Settled(c) => Team(c) = {} /\ Asked(c) = {}
  BY DEF Settled, Works, Busy, Team, Asked
<1>7. cSid'[c] = IF kind = "close" THEN None ELSE cSid[c]
  BY <1>1 DEF IInv, TypeOK
<1>8. Asking(c)'
  <2>1. CASE kind = "open"
    BY <1>1, <1>2, <1>5, <1>6, <2>1 DEF Asking
  <2>2. CASE kind = "close"
    <3>1. Asked(c)' \subseteq {q}
      BY <1>5, <1>6, <2>2
    <3>2. byRemote[c] = q.sid /\ q.sid # None /\ cSid'[c] = None
      BY <1>2, <1>4, <1>7, <2>2 DEF Up
    <3> QED BY <1>1, <1>2, <2>2, <3>1, <3>2 DEF Asking
  <2>3. CASE kind = "call"
    <3>1. Up(c, cSid[c]) /\ cSid'[c] = cSid[c] /\ cSid[c] # None
      BY <1>4, <1>7, <2>3
    <3>2. \A p \in Asked(c) : p.kind # "close" /\ (p.kind = "call" => Up(c, p.sid))
      BY <3>1 DEF Era, Asking
    <3>3. \A p \in Asked(c)' : p.kind # "close" /\ (p.kind = "call" => Up(c, p.sid)')
      BY <1>2, <1>5, <2>3, <3>1, <3>2
    <3>4. Up(c, cSid[c])'
      BY <1>1, <3>1 DEF Up
    <3> QED BY <3>3, <3>4 DEF Asking
  <2> QED BY <2>1, <2>2, <2>3 DEF Kind
<1>9. Here(c)' = Here(c)
  BY <1>1 DEF Here
<1>10. Working(c)'
  <2>1. \A t : Opener(c, t) => Opener(c, t)'
    BY <1>1, <1>5, <1>9 DEF Opener, At, New, Up
  <2>2. \A t : (Caller(c, t) => Caller(c, t)') /\ (Closer(c, t) => Closer(c, t)')
    BY <1>1 DEF Caller, Closer, At, Up
  <2> QED BY <1>1, <1>5, <2>1, <2>2 DEF Era, Working
<1>11. InTable(c)'
  <2>1. \A s \in Here(c) :
          /\ \A r \in Here(c) : r = s
          /\ \/ Up(c, s)
             \/ \E t \in Team(c) : th[t].s = s
                  /\ th[t].at \in {"map", "list", "callback", "unmap", "erase"}
    BY DEF Era, InTable
  <2> QED BY <1>1, <1>4, <1>5, <1>9, <2>1 DEF InTable
<1>12. Lasting(c)'
  BY <1>1, <1>4 DEF Lasting, Expiring
<1>13. OnlyFor(c)
  <2>1. \A d \in Client \ {c} : cSid'[d] = cSid[d] /\ made'[d] = made[d]
    BY DEF Send, IInv, TypeOK
  <2> QED BY <1>1, <1>2, <2>1 DEF OnlyFor
<1> QED BY <1>8, <1>10, <1>11, <1>12, <1>13, Others DEF Era

-----------------------------------------------------------------------------
(* The timer's thread: only clients that are gone lose their sessions *)

LEMMA AtRest ==
  ASSUME NEW d \in Client, Gone(d)
  PROVE  Team(d) = {} /\ Asked(d) = {}
<1>1. Team(d) = {}
  BY DEF Gone, Settled, Works, Busy, Team
<1> QED BY <1>1 DEF Gone, Settled, Asked

\* All that is left to see to is what the client leaves in the table.
LEMMA GoneEra ==
  ASSUME IInv, NEW d \in Client, Era(d), Gone(d),
         th' = th, net' = net, UNCHANGED <<use, made>>,
         \A s \in Here(d)' : Up(d, s)', Lasting(d)'
  PROVE  Era(d)'
<1>1. Team(d)' = {} /\ Asked(d)' = {} /\ Gone(d)'
  <2>1. Team(d)' = Team(d) /\ Asked(d)' = Asked(d)
    BY DEF Team, Asked
  <2>2. Gone(d)'
    BY DEF Gone, Settled, Works, Busy
  <2> QED BY <2>1, <2>2, AtRest
<1>2. Asking(d)'
  BY <1>1 DEF Asking
<1>3. Working(d)'
  BY <1>1 DEF Working
<1>4. InTable(d)'
  BY <1>1 DEF InTable, Up
<1> QED BY <1>2, <1>3, <1>4 DEF Era

\* Its session is up while it is there at all.
LEMMA LeftUp ==
  ASSUME NEW d \in Client, Era(d), Gone(d)
  PROVE  \A s \in Here(d) : Up(d, s) /\ \A r \in Here(d) : r = s
BY AtRest DEF Era, InTable

\* The timer's steps leave clients, threads and datagrams alone.
LEMMA KeptByTimer ==
  ASSUME IInv, IInv', NEW d \in Client, Era(d), th' = th, UNCHANGED clients,
         byRemote'[d] = byRemote[d],
         \A s \in Session : sess'[s].owner = sess[s].owner,
         \A s \in Session :
           sess[s].owner = d =>
             /\ sess'[s] = sess[s] /\ (s \in byId' <=> s \in byId)
             /\ \A step : (<<s, step>> \in expired' <=> <<s, step>> \in expired)
  PROVE  Era(d)'
<1>1. net' = net /\ use' = use /\ made' = made /\ cSid' = cSid
  BY DEF clients
<1>2. Team(d)' = Team(d) /\ Asked(d)' = Asked(d) /\ (Gone(d) => Gone(d)')
  BY <1>1 DEF Team, Asked, Gone, Settled, Works, Busy
<1>3. Kept(d)
  BY <1>1, <1>2 DEF Kept
<1> QED BY <1>3, KeptEra

LEMMA AgeEra ==
  ASSUME IInv, IInv', use.alive, \A d \in Client : Era(d), NEW s \in Session, Age(s)
  PROVE  \A d \in Client : Era(d)'
<1> SUFFICES ASSUME NEW d \in Client PROVE Era(d)'
  OBVIOUS
<1>1. /\ UNCHANGED <<th, byId, byRemote, expired>> /\ UNCHANGED clients /\ Gone(sess[s].owner)
  BY DEF Age
<1>2. /\ \A r \in Session \ {s} : sess'[r] = sess[r]
      /\ sess'[s].owner = sess[s].owner /\ sess'[s].item = sess[s].item
      /\ sess'[s].open = sess[s].open
  <2>1. sess[s] \in SessionImpl /\ sess' = [sess EXCEPT ![s].idle = TRUE]
    BY DEF Age, IInv, TypeOK
  <2> QED BY <2>1 DEF IInv, TypeOK, SessionImpl
<1>3. CASE sess[s].owner # d
  <2>1. \A r \in Session : sess[r].owner = d => r # s
    BY <1>3
  <2> QED BY <1>1, <1>2, <2>1, KeptByTimer
<1>4. CASE sess[s].owner = d
  <2>1. Gone(d) /\ byId \subseteq Session
    BY <1>1, <1>4 DEF IInv, TypeOK, Created
  <2>2. Here(d)' = Here(d) /\ \A r \in Session : Up(d, r) => Up(d, r)'
    BY <1>1, <1>2, <2>1 DEF Here, Up
  <2>3. Gone(d)'
    BY <1>1, <2>1 DEF clients, Gone, Settled, Works, Busy
  <2>4. Lasting(d)'
    BY <1>1, <1>2, <2>2, <2>3 DEF Era, Lasting, Expiring
  <2>5. \A r \in Here(d)' : Up(d, r)'
    BY <2>1, <2>2, LeftUp DEF Here
  <2> QED BY <1>1, <2>1, <2>4, <2>5, GoneEra DEF clients
<1> QED BY <1>3, <1>4

LEMMA ExpireEra ==
  ASSUME IInv, IInv', \A d \in Client : Era(d), Expire
  PROVE  \A d \in Client : Era(d)'
<1> SUFFICES ASSUME NEW d \in Client PROVE Era(d)'
  OBVIOUS
<1>1. /\ UNCHANGED <<th, sess, byRemote>> /\ UNCHANGED clients
      /\ expired = {} /\ byId' = byId \ {s \in byId : sess[s].idle}
      /\ expired' = {<<s, "invalidate">> : s \in {r \in byId : sess[r].idle}}
  BY DEF Expire
<1>2. byId \subseteq Session
  BY DEF IInv, TypeOK, Created
<1>3. CASE \A s \in Here(d) : ~sess[s].idle
  <2>1. \A s \in Session : sess[s].owner = d =>
          /\ (s \in byId' <=> s \in byId)
          /\ \A step : <<s, step>> \notin expired'
    BY <1>1, <1>3 DEF Here
  <2> QED BY <1>1, <2>1, KeptByTimer
<1>4. ASSUME NEW s \in Here(d), sess[s].idle
      PROVE  Era(d)'
  <2>1. s \in Session /\ sess[s].owner = d /\ s \in byId
    BY <1>2 DEF Here
  <2>2. Gone(d)
    BY <1>4, <2>1 DEF Era, Lasting
  <2>3. \A r \in Here(d) : r = s
    BY <2>2, LeftUp
  <2>4. Here(d)' = {}
    BY <1>1, <1>4, <2>3 DEF Here
  <2>5. Gone(d)'
    BY <1>1, <2>2 DEF clients, Gone, Settled, Works, Busy
  <2>6. Lasting(d)'
    <3>1. ASSUME NEW r \in Session, sess[r].owner = d
          PROVE  /\ sess[r].open => sess[r].item # None
                 /\ sess[r].open => r \in byId
      BY <1>1, <3>1 DEF Era, Lasting
    <3>2. ASSUME NEW r \in Session, sess[r].owner = d, sess[r].open, r \notin byId'
          PROVE  <<r, "invalidate">> \in expired'
      BY <1>1, <3>1, <3>2
    <3> QED BY <1>1, <2>4, <2>5, <3>1, <3>2 DEF Lasting
  <2>7. UNCHANGED <<use, made>> /\ net' = net
    BY <1>1 DEF clients
  <2> QED BY <1>1, <2>2, <2>4, <2>6, <2>7, GoneEra
<1> QED BY <1>3, <1>4

\* The client of a session that expires is gone, and has no other.
LEMMA ExpiringGone ==
  ASSUME IInv, \A d \in Client : Era(d), NEW s \in Session, NEW step, <<s, step>> \in expired
  PROVE  sess[s].owner \in Client /\ Gone(sess[s].owner) /\ Here(sess[s].owner) = {}
<1>1. sess[s].owner \in Client
  BY Due DEF IInv, TypeOK, SessionImpl
<1>2. step \in {"invalidate", "unmap"}
  BY DEF IInv, TypeOK
<1>3. Expiring(sess[s].owner, s)
  BY <1>2 DEF Expiring
<1> QED BY <1>1, <1>3 DEF Era, Lasting

LEMMA CloseExpiredEra ==
  ASSUME IInv, IInv', \A d \in Client : Era(d), NEW s \in Session, CloseExpired(s)
  PROVE  \A d \in Client : Era(d)'
<1> SUFFICES ASSUME NEW d \in Client PROVE Era(d)'
  OBVIOUS
<1>1. /\ UNCHANGED <<th, byId, byRemote>> /\ UNCHANGED clients /\ <<s, "invalidate">> \in expired
      /\ expired' = (expired \ {<<s, "invalidate">>}) \cup {<<s, "unmap">>}
  BY DEF CloseExpired
<1>2. /\ \A r \in Session \ {s} : sess'[r] = sess[r]
      /\ sess'[s].owner = sess[s].owner /\ sess'[s].idle = sess[s].idle /\ ~sess'[s].open
  <2>1. sess[s] \in SessionImpl /\ sess' = [sess EXCEPT ![s].item = None, ![s].open = FALSE]
    BY DEF CloseExpired, ListEmptied, IInv, TypeOK
  <2> QED BY <2>1 DEF IInv, TypeOK, SessionImpl
<1>3. Gone(sess[s].owner) /\ Here(sess[s].owner) = {}
  BY <1>1, ExpiringGone
<1>4. CASE sess[s].owner # d
  <2>1. \A r \in Session : sess[r].owner = d =>
          /\ sess'[r] = sess[r]
          /\ \A step : (<<r, step>> \in expired' <=> <<r, step>> \in expired)
    BY <1>1, <1>2, <1>4
  <2> QED BY <1>1, <1>2, <2>1, KeptByTimer
<1>5. CASE sess[s].owner = d
  <2>1. Here(d)' = {}
    <3>1. byId \subseteq Session
      BY DEF IInv, TypeOK, Created
    <3> QED BY <1>1, <1>2, <1>3, <1>5, <3>1 DEF Here
  <2>2. Gone(d)'
    BY <1>1, <1>3, <1>5 DEF clients, Gone, Settled, Works, Busy
  <2>3. Lasting(d)'
    <3>1. ASSUME NEW r \in Session \ {s}, sess[r].owner = d
          PROVE  /\ sess[r].open => sess[r].item # None
                 /\ sess[r].open /\ r \notin byId => <<r, "invalidate">> \in expired'
      BY <1>1, <3>1 DEF Era, Lasting
    <3> QED BY <1>1, <1>2, <2>1, <2>2, <3>1 DEF Lasting
  <2>4. UNCHANGED <<use, made>> /\ net' = net
    BY <1>1 DEF clients
  <2> QED BY <1>1, <1>3, <1>5, <2>1, <2>3, <2>4, GoneEra
<1> QED BY <1>4, <1>5

LEMMA UnmapExpiredEra ==
  ASSUME IInv, IInv', \A d \in Client : Era(d), NEW s \in Session, UnmapExpired(s)
  PROVE  \A d \in Client : Era(d)'
<1> SUFFICES ASSUME NEW d \in Client PROVE Era(d)'
  OBVIOUS
<1>1. /\ UNCHANGED <<th, byId, sess>> /\ UNCHANGED clients /\ <<s, "unmap">> \in expired
      /\ expired' = expired \ {<<s, "unmap">>}
      /\ byRemote' = [byRemote EXCEPT ![sess[s].owner] = None]
  BY DEF UnmapExpired
<1>2. sess[s].owner \in Client /\ Gone(sess[s].owner) /\ Here(sess[s].owner) = {}
  BY <1>1, ExpiringGone
<1>3. CASE sess[s].owner # d
  <2>1. byRemote'[d] = byRemote[d]
    BY <1>1, <1>3 DEF IInv, TypeOK
  <2>2. \A r \in Session : sess[r].owner = d =>
          \A step : (<<r, step>> \in expired' <=> <<r, step>> \in expired)
    BY <1>1, <1>3
  <2> QED BY <1>1, <2>1, <2>2, KeptByTimer
<1>4. CASE sess[s].owner = d
  <2>1. Here(d)' = {}
    BY <1>1, <1>2, <1>4 DEF Here
  <2>2. Gone(d)'
    BY <1>1, <1>2, <1>4 DEF clients, Gone, Settled, Works, Busy
  <2>3. Lasting(d)'
    BY <1>1, <2>1, <2>2 DEF Era, Lasting
  <2>4. UNCHANGED <<use, made>> /\ net' = net
    BY <1>1 DEF clients
  <2> QED BY <1>1, <1>2, <1>4, <2>1, <2>3, <2>4, GoneEra
<1> QED BY <1>3, <1>4

LEMMA DropStaleEra ==
  ASSUME IInv, IInv', \A d \in Client : Era(d), DropStale
  PROVE  \A d \in Client : Era(d)'
<1> SUFFICES ASSUME NEW d \in Client PROVE Era(d)'
  OBVIOUS
<1>1. UNCHANGED <<th, byId, sess, expired>> /\ UNCHANGED clients
  BY DEF DropStale
<1>2. \/ byRemote'[d] = byRemote[d]
      \/ byRemote'[d] = None /\ byRemote[d] # None /\ byRemote[d] \notin byId
  BY DEF DropStale
<1>3. CASE byRemote'[d] = byRemote[d]
  BY <1>1, <1>3, KeptByTimer
<1>4. CASE byRemote'[d] = None /\ byRemote[d] # None /\ byRemote[d] \notin byId
  <2>1. Gone(d)
    BY <1>4 DEF Era, InTable
  <2>2. Here(d)' = {}
    <3>1. Here(d) = {}
      BY <1>4, <2>1, LeftUp DEF Up
    <3> QED BY <1>1, <3>1 DEF Here
  <2>3. Gone(d)'
    BY <1>1, <2>1 DEF clients, Gone, Settled, Works, Busy
  <2>4. Lasting(d)'
    BY <1>1, <2>2, <2>3 DEF Era, Lasting, Expiring
  <2>5. UNCHANGED <<use, made>> /\ net' = net
    BY <1>1 DEF clients
  <2> QED BY <1>1, <2>1, <2>2, <2>4, <2>5, GoneEra
<1> QED BY <1>2, <1>3, <1>4

-----------------------------------------------------------------------------
(* Callbacks *)

LEMMA PairedKept ==
  ASSUME Paired, opens' = opens, closes' = closes,
         \A s \in Session : sess'[s].open = sess[s].open /\ sess'[s].owner = sess[s].owner
  PROVE  Paired'
BY DEF Paired

LEMMA PairedHeard ==
  ASSUME IInv, Paired, NEW t \in Thread, Heard(t) \/ AnswerClose(t)
  PROVE  Paired'
<1>1. th[t].s \in Session
  BY AtHand DEF Heard, AnswerClose, At, Sited
<1>2. sess[th[t].s] \in SessionImpl
  BY <1>1 DEF IInv, TypeOK
<1>3. \A r \in Session : sess'[r].open = sess[r].open /\ sess'[r].owner = sess[r].owner
  BY <1>1, <1>2 DEF Heard, AnswerClose, Touched, IInv, TypeOK, SessionImpl
<1> QED BY <1>3, PairedKept DEF Heard, AnswerClose

LEMMA PairedAge ==
  ASSUME IInv, Paired, NEW s \in Session, Age(s)
  PROVE  Paired'
<1>1. sess[s] \in SessionImpl
  BY DEF IInv, TypeOK
<1>2. \A r \in Session : sess'[r].open = sess[r].open /\ sess'[r].owner = sess[r].owner
  BY <1>1 DEF Age, IInv, TypeOK, SessionImpl
<1> QED BY <1>2, PairedKept DEF Age

\* A new session has had no callback.
LEMMA PairedCreate ==
  ASSUME IInv, Paired, NEW t \in Thread, Create(t)
  PROVE  Paired'
<1>1. NewId \in Session /\ sess[NewId].owner = None
  <2>1. \E s \in Session : s \notin Created
    BY DEF Create, Created
  <2> QED BY <2>1 DEF NewId, Created
<1>2. ~sess[NewId].open /\ Mine(t) # None
  BY <1>1, AtHand, SessionTableAssumption DEF Paired, None
<1>3. /\ \A s \in Session \ {NewId} : sess'[s] = sess[s]
      /\ sess'[NewId].owner = Mine(t) /\ ~sess'[NewId].open
  BY <1>1 DEF Create, IInv, TypeOK, Unused
<1>4. opens' = opens /\ closes' = closes
  BY DEF Create
<1> QED BY <1>1, <1>2, <1>3, <1>4 DEF Paired

\* CGC_Session_Open accepts a session that was not open.
LEMMA PairedAccept ==
  ASSUME IInv, Paired, \A d \in Client : Era(d), NEW t \in Thread, Accept(t)
  PROVE  Paired'
<1> SUFFICES ASSUME NEW s, s = th[t].s PROVE Paired'
  OBVIOUS
<1>1. Rightly(Mine(t), t) /\ th[t].at = "callback"
  BY Turn DEF Accept, At
<1>2. ~sess[s].open /\ th[t].item = sess[s].item
  BY <1>1 DEF Rightly, Opener, Caller, Closer, At, New
<1>3. s \in Session /\ sess[s] \in SessionImpl /\ sess[s].owner = Mine(t) /\ Mine(t) # None
  BY <1>1, AtHand, SessionTableAssumption DEF Sited, IInv, TypeOK, None
<1>4. /\ \A r \in Session \ {s} : sess'[r] = sess[r]
      /\ sess'[s].owner = sess[s].owner /\ sess'[s].open
  BY <1>2, <1>3 DEF Accept, IInv, TypeOK, SessionImpl
<1>5. /\ opens'[s] = opens[s] + 1 /\ \A r \in Session \ {s} : opens'[r] = opens[r]
      /\ closes' = closes
  BY <1>3 DEF Accept, IInv, TypeOK
<1>6. opens[s] = closes[s] + 0
  BY <1>2, <1>3 DEF Paired
<1>7. opens'[s] = closes'[s] + 1
  BY <1>3, <1>5, <1>6 DEF IInv, TypeOK
<1> QED BY <1>3, <1>4, <1>5, <1>7 DEF Paired

\* A list that is emptied takes its callback with it.
LEMMA PairedEmptied ==
  ASSUME IInv, Paired, NEW s \in Session, sess' = ListEmptied(s), closes' = CallbackMade(s),
         opens' = opens
  PROVE  Paired'
<1>1. /\ \A r \in Session \ {s} : sess'[r] = sess[r]
      /\ sess'[s].owner = sess[s].owner /\ ~sess'[s].open
  <2>1. sess[s] \in SessionImpl
    BY DEF IInv, TypeOK
  <2> QED BY <2>1 DEF ListEmptied, IInv, TypeOK, SessionImpl
<1>2. /\ closes'[s] = closes[s] + (IF sess[s].open THEN 1 ELSE 0)
      /\ \A r \in Session \ {s} : closes'[r] = closes[r]
  <2>1. closes[s] \in Nat
    BY DEF IInv, TypeOK
  <2> QED BY <2>1 DEF CallbackMade, IInv, TypeOK
<1>3. opens'[s] = closes'[s] + 0
  <2>1. closes[s] \in Nat /\ opens[s] = closes[s] + (IF sess[s].open THEN 1 ELSE 0)
    BY DEF IInv, TypeOK, Paired
  <2> QED BY <1>2, <2>1
<1> QED BY <1>1, <1>2, <1>3 DEF Paired

-----------------------------------------------------------------------------
(* What the patient clients' invariant says holds throughout *)

\* Places that a patient client's thread never gets to.
LEMMA NeverThere ==
  ASSUME IInv, \A d \in Client : Era(d), NEW t \in Thread
  PROVE  th[t].at \notin {"add", "remap", "mark", "enter", "again", "unmark"}
<1>1. th[t].at # "idle" => Rightly(Mine(t), t)
  BY Turn
<1> QED BY <1>1 DEF Rightly, Opener, Caller, Closer, At

LEMMA ThreadEra ==
  ASSUME IInv, IInv', ~use.mayRefuse, \A d \in Client : Era(d), NEW t \in Thread, ThreadStep(t)
  PROVE  \A d \in Client : Era(d)'
<1>1. ~(Add(t) \/ Remap(t) \/ Mark(t) \/ Enter(t) \/ Again(t) \/ Unmark(t) \/ Refuse(t))
  BY NeverThere DEF Add, Remap, Mark, Enter, Again, Unmark, Refuse, At
<1> QED BY <1>1, HeardEra, FindEra, CreateEra, MapEra, ListEra, AcceptEra, UnmapEra, EraseEra,
           BySidEra, AnswerCloseEra, InvalidateEra, ModuleEra, ReturnEra DEF ThreadStep

LEMMA ThreadPaired ==
  ASSUME IInv, Paired, ~use.mayRefuse, \A d \in Client : Era(d), NEW t \in Thread, ThreadStep(t)
  PROVE  Paired'
<1>1. ~(Add(t) \/ Remap(t) \/ Mark(t) \/ Enter(t) \/ Again(t) \/ Unmark(t) \/ Refuse(t))
  BY NeverThere DEF Add, Remap, Mark, Enter, Again, Unmark, Refuse, At
<1>2. CASE Heard(t) \/ AnswerClose(t)
  BY <1>2, PairedHeard
<1>3. CASE Create(t)
  BY <1>3, PairedCreate
<1>4. CASE Accept(t)
  BY <1>4, PairedAccept
<1>5. CASE Invalidate(t)
  <2>1. th[t].s \in Session
    BY <1>5, AtHand DEF Invalidate, At, Sited
  <2> QED BY <1>5, <2>1, PairedEmptied DEF Invalidate
<1>6. CASE Find(t)
  <2>1. Rightly(Mine(t), t) /\ th[t].at = "find"
    BY <1>6, Turn DEF Find, At
  <2>2. byRemote[Mine(t)] = None
    BY <2>1 DEF Rightly, Opener, Caller, Closer, At
  <2> QED BY <1>6, <2>2, PairedKept DEF Find
<1>7. CASE Map(t) \/ List(t) \/ Unmap(t) \/ Erase(t) \/ BySid(t) \/ Module(t) \/ Return(t)
  BY <1>7, PairedKept DEF Map, List, Unmap, Erase, BySid, Module, Return
<1> QED BY <1>1, <1>2, <1>3, <1>4, <1>5, <1>6, <1>7 DEF ThreadStep

LEMMA ClientEra ==
  ASSUME IInv, IInv', use.settle, ~use.sessionless, \A d \in Client : Era(d),
         NEW c \in Client, ClientStep(c)
  PROVE  \A d \in Client : Era(d)'
<1>1. CASE SendOpen(c)
  BY <1>1, SendEra, "open" \in Kind DEF SendOpen, Kind
<1>2. CASE SendClose(c)
  BY <1>2, SendEra, "close" \in Kind DEF SendClose, Kind
<1>3. CASE SendCall(c)
  BY <1>3, SendEra, "call" \in Kind DEF SendCall, Kind
<1> QED BY <1>1, <1>2, <1>3 DEF ClientStep

LEMMA TimerEra ==
  ASSUME IInv, IInv', \A d \in Client : Era(d), TimerStep
  PROVE  \A d \in Client : Era(d)'
BY ExpireEra, DropStaleEra, CloseExpiredEra, UnmapExpiredEra DEF TimerStep

LEMMA TimerPaired ==
  ASSUME IInv, Paired, TimerStep
  PROVE  Paired'
<1>1. CASE Expire \/ DropStale \/ \E s \in Session : UnmapExpired(s)
  <2>1. sess' = sess /\ opens' = opens /\ closes' = closes
    BY <1>1 DEF Expire, DropStale, UnmapExpired
  <2> QED BY <2>1, PairedKept
<1>2. CASE \E s \in Session : CloseExpired(s)
  BY <1>2, PairedEmptied DEF CloseExpired
<1> QED BY <1>1, <1>2 DEF TimerStep

\* The way of use is settled.
LEMMA UseKept == [Next]_vars => use' = use
<1> SUFFICES ASSUME [Next]_vars PROVE use' = use
  OBVIOUS
<1>1. ASSUME NEW c \in use.clients, ClientStep(c) PROVE use' = use
  BY <1>1 DEF ClientStep, SendOpen, SendClose, SendCall, Send
<1>2. ASSUME NEW t \in use.threads, ThreadStep(t) PROVE use' = use
  BY <1>2 DEF ThreadStep, clients, Heard, Find, Create, Map, List, Add, Accept, Refuse, Unmap,
     Erase, BySid, AnswerClose, Invalidate, Remap, Mark, Enter, Again, Unmark, Module, Return
<1>3. ASSUME NEW t \in use.threads, NEW m \in net, Take(t, m) PROVE use' = use
  BY <1>3 DEF Take
<1>4. ASSUME NEW m \in net, Lose(m) PROVE use' = use
  BY <1>4 DEF Lose
<1>5. ASSUME NEW s \in Session, Age(s) PROVE use' = use
  BY <1>5 DEF Age, clients
<1>6. ASSUME TimerStep PROVE use' = use
  BY <1>6 DEF TimerStep, Expire, DropStale, CloseExpired, UnmapExpired, clients
<1>7. ASSUME UNCHANGED vars PROVE use' = use
  BY <1>7 DEF vars, clients
<1> QED BY <1>1, <1>2, <1>3, <1>4, <1>5, <1>6, <1>7 DEF Next

LEMMA PatientInit == Init => PatientInv
<1> SUFFICES ASSUME Init PROVE PatientInv
  OBVIOUS
<1>1. \A c \in Client : c # None
  BY SessionTableAssumption DEF None
<1>2. \A s \in Session : sess[s].owner = None /\ ~sess[s].open
  BY DEF Init, Unused
<1>3. Paired
  BY <1>2 DEF Init, Paired
<1>4. ASSUME NEW c \in Client
      PROVE  Era(c)
  <2>1. Team(c) = {} /\ Asked(c) = {} /\ Here(c) = {}
    BY DEF Init, Team, Asked, Here, Rest
  <2>2. Asking(c) /\ Working(c)
    BY <2>1 DEF Asking, Working, Init
  <2>3. InTable(c)
    BY <2>1 DEF InTable, Init
  <2>4. Lasting(c)
    BY <1>1, <1>2 DEF Lasting
  <2> QED BY <2>2, <2>3, <2>4 DEF Era
<1> QED BY <1>3, <1>4 DEF PatientInv

LEMMA PatientNext == IInv /\ IInv' /\ PatientInv /\ [Next]_vars => PatientInv'
<1> SUFFICES ASSUME IInv, IInv', PatientInv, [Next]_vars, Patient' PROVE (Paired /\ \A c \in Client : Era(c))'
  BY DEF PatientInv
<1>1. /\ use.quick /\ use.alive /\ use.settle /\ ~use.mayRefuse /\ ~use.sessionless
      /\ Paired /\ \A d \in Client : Era(d)
  BY UseKept DEF Patient, PatientInv
<1>2. use.clients \subseteq Client /\ use.threads \subseteq Thread
  BY SessionTableAssumption DEF IInv, TypeOK, Use
<1>3. ASSUME NEW c \in Client, ClientStep(c) PROVE Paired' /\ \A d \in Client : Era(d)'
  <2>1. sess' = sess /\ opens' = opens /\ closes' = closes
    BY <1>3 DEF ClientStep, SendOpen, SendClose, SendCall, Send
  <2> QED BY <1>1, <1>3, <2>1, ClientEra, PairedKept
<1>4. ASSUME NEW m \in net, Lose(m) PROVE Paired' /\ \A d \in Client : Era(d)'
  <2>1. sess' = sess /\ opens' = opens /\ closes' = closes
    BY <1>4 DEF Lose
  <2> QED BY <1>1, <1>4, <2>1, LoseEra, PairedKept
<1>5. ASSUME NEW t \in Thread, ThreadStep(t) PROVE Paired' /\ \A d \in Client : Era(d)'
  BY <1>1, <1>5, ThreadEra, ThreadPaired
<1>6. ASSUME NEW t \in Thread, NEW m \in net, Take(t, m) PROVE Paired' /\ \A d \in Client : Era(d)'
  <2>1. sess' = sess /\ opens' = opens /\ closes' = closes
    BY <1>6 DEF Take
  <2> QED BY <1>1, <1>6, <2>1, TakeEra, PairedKept
<1>7. ASSUME NEW s \in Session, Age(s) PROVE Paired' /\ \A d \in Client : Era(d)'
  BY <1>1, <1>7, AgeEra, PairedAge
<1>8. ASSUME TimerStep PROVE Paired' /\ \A d \in Client : Era(d)'
  BY <1>1, <1>8, TimerEra, TimerPaired
<1>9. ASSUME UNCHANGED vars PROVE Paired' /\ \A d \in Client : Era(d)'
  <2>1. /\ UNCHANGED <<th, byRemote, sess, byId, expired, opens, closes>> /\ UNCHANGED clients
    BY <1>9 DEF vars
  <2> QED BY <1>1, <2>1, KeptByTimer, PairedKept
<1> QED BY <1>2, <1>3, <1>4, <1>5, <1>6, <1>7, <1>8, <1>9 DEF Next

\* What the proofs need of a patient client, its threads and its session holds
\* throughout: one session, up or with the threads that open or close it.
THEOREM TablePatience == Spec => [](IInv /\ PatientInv)
<1>1. Init => IInv /\ PatientInv
  BY InitInv, PatientInit
<1>2. IInv /\ PatientInv /\ [Next]_vars => (IInv /\ PatientInv)'
  BY NextInv, PatientNext
<1> QED BY <1>1, <1>2, PTL DEF Spec

\* CGC_Session_Open and CGC_Session_Close come in pairs for a patient client's
\* session, and one that has left the table was closed, though neither map nor
\* the session's list is locked from one critical section to the next.
THEOREM TableCallbacksPaired == Spec => []CallbacksPaired
<1>1. IInv => ClosedOnce
  BY DEF IInv, Counted, ClosedOnce
<1>2. IInv /\ PatientInv => OpensPaired
  <2> SUFFICES ASSUME IInv, PatientInv, Patient, NEW s \in Session
               PROVE  opens[s] - closes[s] \in {0, 1}
    BY DEF OpensPaired
  <2>1. closes[s] \in Nat /\ opens[s] = closes[s] + (IF sess[s].open THEN 1 ELSE 0)
    BY DEF IInv, TypeOK, PatientInv, Paired
  <2> QED BY <2>1
<1>3. IInv /\ PatientInv => OpenedIsClosed
  <2> SUFFICES ASSUME IInv, PatientInv, Patient, Quiet, NEW s \in Session \ byId
               PROVE  opens[s] = closes[s]
    BY DEF OpenedIsClosed
  <2>1. sess[s].owner \in Client \cup {None} /\ closes[s] \in Nat
    BY DEF IInv, TypeOK, SessionImpl
  <2>2. ~sess[s].open
    BY <2>1 DEF PatientInv, Paired, Era, Lasting, Quiet
  <2>3. opens[s] = closes[s] + 0
    BY <2>2 DEF PatientInv, Paired
  <2> QED BY <2>1, <2>3
<1>4. IInv /\ PatientInv => CallbacksPaired
  BY <1>1, <1>2, <1>3 DEF CallbacksPaired
<1> QED BY <1>4, TablePatience, PTL

\* Every request gets to a session of its own client; a patient client's
\* session is found by its address, and its calls run only while it is open
\* towards the module, however late a copy of an open or a close is handled.
THEOREM TableReached == Spec => []Reached
<1>1. IInv => OwnSession
  BY DEF IInv, Owned, OwnSession, Refers, Mine
<1>2. IInv /\ PatientInv => FoundWhenQuiet
  <2> SUFFICES ASSUME IInv, PatientInv, Patient, Quiet, NEW s \in byId
               PROVE  byRemote[sess[s].owner] = s
    BY DEF FoundWhenQuiet
  <2>1. sess[s].owner \in Client
    BY DEF IInv, TypeOK, SessionImpl, Created
  <2>2. s \in Here(sess[s].owner) /\ Team(sess[s].owner) = {}
    BY DEF Here, Quiet, Team, Busy
  <2> QED BY <2>1, <2>2 DEF PatientInv, Era, InTable, Up
<1>3. IInv /\ PatientInv => RunsWhenOpen
  <2> SUFFICES ASSUME IInv, PatientInv, Patient, NEW t \in Thread, At(t, "running")
               PROVE  opens[th[t].s] > closes[th[t].s]
    BY DEF RunsWhenOpen
  <2>1. Rightly(Mine(t), t) /\ th[t].s \in Session
    BY Turn, AtHand DEF PatientInv, At, Sited
  <2>2. sess[th[t].s].open
    BY <2>1 DEF Rightly, Opener, Caller, Closer, At, Up
  <2>3. opens[th[t].s] = closes[th[t].s] + 1
    BY <2>1, <2>2 DEF PatientInv, Paired
  <2>4. closes[th[t].s] \in Nat
    BY <2>1 DEF IInv, TypeOK
  <2> QED BY <2>3, <2>4
<1>4. IInv /\ PatientInv => Reached
  BY <1>1, <1>2, <1>3 DEF Reached
<1> QED BY <1>4, TablePatience, PTL
=============================================================================
