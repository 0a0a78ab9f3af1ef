------------------------- MODULE SotpSessionProofs -------------------------
(***************************************************************************)
(* Theorems about SotpSession: its type invariant, that the address map    *)
(* leads to the sessions that are there, and that a module's callbacks     *)
(* pair up with its calls between them.  They hold for any number of       *)
(* requests, sessions and addresses, and for any use.  For a patient       *)
(* application also: a request is performed once, a close ends the         *)
(* session it names, and with enough numbers client and server stay in     *)
(* step.                                                                   *)
(***************************************************************************)
EXTENDS SotpSession, FiniteSetTheorems, TLAPS

\* A CSessionImpl.
SessionObject == [state : {"none", "live", "gone"}, remote : Remote, seq : Seq16,
                  seen : SUBSET Seq16, unacked : SUBSET Result]

RequestIn(n) == [id : 1 .. n, from : 1 .. use.remotes]
AckIn        == [seq : Seq16, from : 1 .. use.remotes]

TypeInv ==
  /\ use \in Uses
  /\ addr \in 1 .. use.remotes /\ cSid \in Session \cup {None}
  /\ made \in Seq([kind : Kind, sid : Session \cup {None}]) /\ Len(made) <= MaxReq
  /\ cSeen \subseteq -SeqMod .. SeqMod
  /\ got \subseteq Result /\ dropped \subseteq Result /\ results \subseteq Result
  /\ confirmed \subseteq Result
  /\ reqs \subseteq RequestIn(Len(made)) /\ acks \subseteq AckIn
  /\ sess \in [Session -> SessionObject]
  /\ byRemote \in [Remote -> Session \cup {None}]
  /\ opens \in [Session -> Nat] /\ closes \in [Session -> Nat]
  /\ runs \in [Req -> [Session -> Nat]]
  /\ expired \in 0 .. use.expiries

\* With one address, whatever is in a map is at that address.
AtFirst == OneAddress => \A r \in Remote : byRemote[r] # None => r = 1

IInv == TypeInv /\ FoundByAddress /\ NoStaleAddress /\ AtFirst /\ CallbacksPaired

-----------------------------------------------------------------------------
(* The operators of the server *)

LEMMA Sizes ==
  ASSUME use \in Uses
  PROVE  /\ SeqMod \in Nat /\ SeqMod > 0 /\ SeqMod % 2 = 0 /\ 0 \in Seq16
         /\ use.remotes \in Nat /\ use.remotes >= 1 /\ use.remotes <= MaxRemote
         /\ 1 .. use.remotes \subseteq Remote /\ use.expiries \in Nat
         /\ use.reqs \in 1 .. MaxReq
         /\ MaxReq \in Nat /\ MaxRemote \in Nat /\ MaxSessions \in Nat
         /\ None \notin Session
<1>1. use \in Use /\ use.seqMod > 0 /\ use.seqMod % 2 = 0
  BY ConstAssumption
<1> QED BY <1>1, ConstAssumption DEF Use, SeqMod, Seq16, Remote, Session, None

LEMMA SameTypes ==
  ASSUME TypeInv,
         UNCHANGED <<addr, cSid, made, cSeen, got, dropped, reqs, results, acks, use, sess,
                     byRemote, opens, closes, runs, confirmed, expired>>
  PROVE  TypeInv'
BY DEF TypeInv, RequestIn, AckIn, SessionObject, Result, Seq16, SeqMod

\* A number wrapped around is a sequence number.
LEMMA Wraps ==
  ASSUME use \in Uses, NEW n \in Nat
  PROVE  n % SeqMod \in Seq16
<1> DEFINE k == SeqMod
<1>1. k \in Nat /\ k > 0
  BY Sizes
<1> HIDE DEF k
<1>2. n % k \in 0 .. k - 1
  BY <1>1
<1> QED BY <1>2 DEF k, Seq16

\* Only session s changes.
OnlySession(ss, s) ==
  /\ ss \in [Session -> SessionObject]
  /\ \A t \in Session \ {s} : ss[t] = sess[t]

\* Removing a session object.
LEMMA Gone ==
  ASSUME NEW ss \in [Session -> SessionObject], NEW s \in Session, OnlySession(ss, s)
  PROVE  /\ [ss EXCEPT ![s].state = "gone"] \in [Session -> SessionObject]
         /\ OnlySession([ss EXCEPT ![s].state = "gone"], s)
         /\ [ss EXCEPT ![s].state = "gone"][s].state = "gone"
         /\ [ss EXCEPT ![s].state = "gone"][s].seq = ss[s].seq
         /\ [ss EXCEPT ![s].state = "gone"][s].seen = ss[s].seen
         /\ [ss EXCEPT ![s].state = "gone"][s].unacked = ss[s].unacked
<1> DEFINE new == [ss[s] EXCEPT !.state = "gone"]
<1>1. /\ new \in SessionObject /\ new.state = "gone"
      /\ new.seq = ss[s].seq /\ new.seen = ss[s].seen /\ new.unacked = ss[s].unacked
  BY DEF SessionObject
<1>2. [ss EXCEPT ![s].state = "gone"] = [ss EXCEPT ![s] = new]
  OBVIOUS
<1> HIDE DEF new
<1> QED BY <1>1, <1>2 DEF OnlySession

LEMMA HeardType ==
  ASSUME TypeInv, NEW m \in reqs
  PROVE  /\ Heard(m) \in [Session -> SessionObject]
         /\ byRemote[m.from] = None => Heard(m) = sess
         /\ byRemote[m.from] # None =>
              /\ byRemote[m.from] \in Session
              /\ OnlySession(Heard(m), byRemote[m.from])
              /\ Heard(m)[byRemote[m.from]].state = sess[byRemote[m.from]].state
              /\ Heard(m)[byRemote[m.from]].remote = m.from
              /\ Heard(m)[byRemote[m.from]].seq = sess[byRemote[m.from]].seq
              /\ Heard(m)[byRemote[m.from]].seen = sess[byRemote[m.from]].seen \cup {SeqOf(m.id)}
              /\ Heard(m)[byRemote[m.from]].unacked = sess[byRemote[m.from]].unacked
<1> DEFINE s == byRemote[m.from]
           new == [sess[s] EXCEPT !.remote = m.from, !.seen = @ \cup {SeqOf(m.id)}]
<1>1. m.from \in Remote /\ m.id \in Nat /\ s \in Session \cup {None}
  BY Sizes DEF TypeInv, RequestIn
<1>2. SeqOf(m.id) \in Seq16
  BY <1>1, Wraps DEF SeqOf, TypeInv
<1>3. CASE s = None
  BY <1>3 DEF Heard, TypeInv
<1>4. CASE s # None
  <2>1. s \in Session /\ sess[s] \in SessionObject
    BY <1>1, <1>4 DEF TypeInv
  <2>2. /\ new \in SessionObject /\ new.state = sess[s].state /\ new.remote = m.from
        /\ new.seq = sess[s].seq /\ new.seen = sess[s].seen \cup {SeqOf(m.id)}
        /\ new.unacked = sess[s].unacked
    BY <1>1, <1>2, <2>1 DEF SessionObject
  <2>3. Heard(m) = [sess EXCEPT ![s] = new]
    BY <1>4, <2>1 DEF Heard, TypeInv
  <2> HIDE DEF new
  <2> QED BY <1>4, <2>1, <2>2, <2>3 DEF TypeInv, OnlySession
<1> QED BY <1>3, <1>4

LEMMA RegisteredType ==
  ASSUME TypeInv, NEW ss \in [Session -> SessionObject], NEW s \in Session, NEW r \in Result
  PROVE  /\ Registered(ss, s, r) \in [Session -> SessionObject]
         /\ \A t \in Session \ {s} : Registered(ss, s, r)[t] = ss[t]
         /\ Registered(ss, s, r)[s].state = ss[s].state
         /\ Registered(ss, s, r)[s].remote = ss[s].remote
         /\ Registered(ss, s, r)[s].seq = r.seq
         /\ Registered(ss, s, r)[s].seen = ss[s].seen
         /\ Registered(ss, s, r)[s].unacked \subseteq ss[s].unacked \cup {r}
<1> DEFINE new == [ss[s] EXCEPT !.seq = r.seq, !.unacked = {u \in @ : u.seq # r.seq} \cup {r}]
<1>1. ss[s] \in SessionObject /\ r.seq \in Seq16 /\ s # None
  BY Sizes DEF Result, TypeInv
<1>2. /\ new \in SessionObject /\ new.state = ss[s].state /\ new.remote = ss[s].remote
      /\ new.seq = r.seq /\ new.seen = ss[s].seen /\ new.unacked \subseteq ss[s].unacked \cup {r}
  BY <1>1 DEF SessionObject
<1>3. Registered(ss, s, r) = [ss EXCEPT ![s] = new]
  BY <1>1 DEF Registered
<1> HIDE DEF new
<1> QED BY <1>2, <1>3

LEMMA AnswerType ==
  ASSUME TypeInv, NEW ss \in [Session -> SessionObject], NEW s \in Session \cup {None},
         NEW m \in reqs, NEW kind \in Kind, NEW code \in {OK, Done, NoSession, Refused},
         NEW sid \in Session \cup {None}
  PROVE  Answer(ss, s, m.id, kind, code, sid) \in Result
<1>1. m.id \in Req
  BY Sizes DEF TypeInv, RequestIn, Req
<1>2. NextSeq(ss, s) \in Seq16
  <2>1. CASE s = None
    BY <2>1, Sizes DEF NextSeq, TypeInv
  <2>2. CASE s # None
    <3>1. ss[s] \in SessionObject /\ use \in Uses
      BY <2>2 DEF TypeInv
    <3>2. ss[s].seq \in Nat
      BY <3>1, Sizes DEF SessionObject, Seq16
    <3>3. (ss[s].seq + 1) % SeqMod \in Seq16
      BY <3>1, <3>2, Wraps
    <3> QED BY <2>2, <3>3 DEF NextSeq
  <2> QED BY <2>1, <2>2
<1> QED BY <1>1, <1>2 DEF Answer, Result

LEMMA RequestType ==
  ASSUME TypeInv, NEW m \in reqs
  PROVE  /\ m.from \in Remote /\ m.from \in 1 .. use.remotes /\ m.id \in Req
         /\ made[m.id].kind \in Kind /\ made[m.id].sid \in Session \cup {None}
         /\ OneAddress => m.from = 1
<1>1. m.id \in 1 .. Len(made) /\ m.from \in 1 .. use.remotes /\ use \in Uses
  BY DEF TypeInv, RequestIn
<1>2. made[m.id] \in [kind : Kind, sid : Session \cup {None}]
  <2> DEFINE T == [kind : Kind, sid : Session \cup {None}]
  <2>1. made \in Seq(T)
    BY DEF TypeInv
  <2> HIDE DEF T
  <2>2. made[m.id] \in T
    BY <1>1, <2>1
  <2> QED BY <2>2 DEF T
<1>3. m.id \in Req
  <2>1. Len(made) <= MaxReq /\ Len(made) \in Nat
    BY DEF TypeInv
  <2> QED BY <1>1, <2>1, Sizes DEF Req
<1>4. OneAddress => m.from = 1
  BY <1>1 DEF OneAddress
<1> QED BY <1>1, <1>2, <1>3, <1>4, Sizes

LEMMA NewSession ==
  ASSUME TypeInv, Fresh # {}, NEW r \in Remote
  PROVE  /\ NewSid \in Session /\ sess[NewSid].state = "none"
         /\ OnlySession([sess EXCEPT ![NewSid] = Blank(r)], NewSid)
         /\ [sess EXCEPT ![NewSid] = Blank(r)][NewSid] = Blank(r)
         /\ Blank(r) \in SessionObject /\ Blank(r).state = "live" /\ Blank(r).remote = r
<1>1. NewSid \in Session /\ sess[NewSid].state = "none"
  BY DEF NewSid, Fresh
<1>2. Blank(r) \in SessionObject /\ Blank(r).state = "live" /\ Blank(r).remote = r
  BY Sizes DEF Blank, SessionObject, TypeInv
<1> QED BY <1>1, <1>2 DEF TypeInv, OnlySession

\* What a client's request, or its open, close or expiry may do to the maps.
LEMMA OpenedType ==
  ASSUME TypeInv, CallbacksPaired, NEW s \in Session
  PROVE  /\ Opened(s) \in [Session -> Nat]
         /\ \A t \in Session : Opened(s)[t] - closes[t] \in {0, 1}
         /\ Opened(s)[s] > closes[s]
BY DEF Opened, Serving, TypeInv, CallbacksPaired

LEMMA ClosedType ==
  ASSUME TypeInv, CallbacksPaired, NEW s \in Session
  PROVE  /\ Closed(s) \in [Session -> Nat]
         /\ \A t \in Session : opens[t] - Closed(s)[t] \in {0, 1}
BY DEF Closed, Serving, TypeInv, CallbacksPaired

\* The open callback and the call that a request without a session makes.
LEMMA RunType ==
  ASSUME TypeInv, NEW c \in Req, NEW s \in Session
  PROVE  [runs EXCEPT ![c][s] = @ + 1] \in [Req -> [Session -> Nat]]
<1>1. runs[c] \in [Session -> Nat] /\ runs \in [Req -> [Session -> Nat]]
  BY DEF TypeInv
<1> DEFINE new == [runs[c] EXCEPT ![s] = @ + 1]
<1>2. new \in [Session -> Nat]
  BY <1>1
<1>3. [runs EXCEPT ![c][s] = @ + 1] = [runs EXCEPT ![c] = new]
  OBVIOUS
<1> HIDE DEF new
<1> QED BY <1>1, <1>2, <1>3

LEMMA OnlyRun ==
  ASSUME TypeInv, NEW c \in Req, NEW s \in Session, NEW d \in Req, NEW t \in Session,
         [runs EXCEPT ![c][s] = @ + 1][d][t] > runs[d][t]
  PROVE  t = s
<1>1. runs[d] \in [Session -> Nat] /\ runs \in [Req -> [Session -> Nat]]
  BY DEF TypeInv
<1>2. ~(runs[d][t] > runs[d][t])
  BY <1>1
<1> QED BY <1>1, <1>2

-----------------------------------------------------------------------------
(* What a handler of the server leaves, in three parts *)

LEMMA ServerTyped ==
  ASSUME TypeInv, use' = use, UNCHANGED <<client, reqs, acks>>,
         results' \subseteq Result, sess' \in [Session -> SessionObject],
         byRemote' \in [Remote -> Session \cup {None}],
         opens' \in [Session -> Nat], closes' \in [Session -> Nat],
         runs' \in [Req -> [Session -> Nat]], confirmed' \subseteq Result,
         expired' \in 0 .. use.expiries
  PROVE  TypeInv'
<1>1. /\ addr' = addr /\ cSid' = cSid /\ made' = made /\ cSeen' = cSeen
      /\ got' = got /\ dropped' = dropped /\ reqs' = reqs /\ acks' = acks
  BY DEF client
<1>2. RequestIn(Len(made))' = RequestIn(Len(made)) /\ AckIn' = AckIn
      /\ Result' = Result /\ SessionObject' = SessionObject /\ SeqMod' = SeqMod
  BY <1>1 DEF RequestIn, AckIn, Result, SessionObject, Seq16, SeqMod
<1>3. use' \in Uses /\ addr' \in 1 .. (use.remotes)' /\ cSid' \in Session \cup {None}
  BY <1>1 DEF TypeInv
<1>4. made' \in Seq([kind : Kind, sid : Session \cup {None}]) /\ Len(made') <= MaxReq
  BY <1>1 DEF TypeInv
<1>5. /\ cSeen' \subseteq -SeqMod' .. SeqMod'
      /\ got' \subseteq Result' /\ dropped' \subseteq Result' /\ results' \subseteq Result'
      /\ confirmed' \subseteq Result'
      /\ reqs' \subseteq RequestIn(Len(made))' /\ acks' \subseteq AckIn'
      /\ sess' \in [Session -> SessionObject']
  BY <1>1, <1>2 DEF TypeInv
<1> QED BY <1>3, <1>4, <1>5 DEF TypeInv

\* The session s is, or stays, the one of the address r.
LEMMA MapKept ==
  ASSUME IInv, use' = use, NEW s \in Session, NEW r \in Remote,
         OneAddress => r = 1,
         byRemote[r] \in {s, None},
         byRemote' = [byRemote EXCEPT ![r] = s],
         OnlySession(sess', s), sess'[s].remote = r,
         OneAddress => sess'[s].state = "live"
  PROVE  FoundByAddress' /\ NoStaleAddress' /\ AtFirst'
<1>1. /\ byRemote \in [Remote -> Session \cup {None}] /\ sess \in [Session -> SessionObject]
      /\ use \in Uses
  BY DEF IInv, TypeInv
<1>2. None \notin Session
  BY <1>1, Sizes
<1>3. \A t \in Session \ {s} : sess'[t] = sess[t]
  BY DEF OnlySession
<1>4. OneAddress' = OneAddress
  BY DEF OneAddress
<1>5. FoundByAddress'
  <2> SUFFICES ASSUME NEW t \in Session, sess'[t].state = "live"
               PROVE  byRemote'[sess'[t].remote] = t
    BY DEF FoundByAddress
  <2>1. CASE t = s
    BY <1>1, <2>1
  <2>2. CASE t # s
    <3>1. sess'[t] = sess[t] /\ byRemote[sess[t].remote] = t
      BY <1>3, <2>2 DEF IInv, FoundByAddress
    <3>2. sess[t].remote # r /\ sess[t].remote \in Remote
      BY <1>1, <1>2, <2>2, <3>1 DEF SessionObject
    <3> QED BY <1>1, <3>1, <3>2
  <2> QED BY <2>1, <2>2
<1>6. NoStaleAddress'
  <2> SUFFICES ASSUME OneAddress, NEW q \in Remote, byRemote'[q] # None
               PROVE  Live(byRemote[q])'
    BY <1>4 DEF NoStaleAddress
  <2>1. CASE q = r
    BY <1>1, <1>2, <2>1 DEF Live
  <2>2. CASE q # r
    <3>1. byRemote'[q] = byRemote[q]
      BY <1>1, <2>2
    <3>2. q = 1 /\ r = 1
      BY <3>1 DEF IInv, AtFirst
    <3> QED BY <2>2, <3>2
  <2> QED BY <2>1, <2>2
<1>7. AtFirst'
  <2> SUFFICES ASSUME OneAddress, NEW q \in Remote, byRemote'[q] # None
               PROVE  q = 1
    BY <1>4 DEF AtFirst
  <2> QED BY <1>1 DEF IInv, AtFirst
<1> QED BY <1>5, <1>6, <1>7

\* The session s is removed, and with it its address r.
LEMMA MapRemoved ==
  ASSUME IInv, use' = use, NEW s \in Session, NEW r \in Remote,
         OneAddress => r = 1,
         byRemote[r] \in {s, None},
         byRemote' = [byRemote EXCEPT ![r] = None],
         OnlySession(sess', s), sess'[s].state # "live"
  PROVE  FoundByAddress' /\ NoStaleAddress' /\ AtFirst'
<1>1. /\ byRemote \in [Remote -> Session \cup {None}] /\ sess \in [Session -> SessionObject]
      /\ use \in Uses
  BY DEF IInv, TypeInv
<1>2. None \notin Session
  BY <1>1, Sizes
<1>3. \A t \in Session \ {s} : sess'[t] = sess[t]
  BY DEF OnlySession
<1>4. OneAddress' = OneAddress
  BY DEF OneAddress
<1>5. FoundByAddress'
  <2> SUFFICES ASSUME NEW t \in Session, sess'[t].state = "live"
               PROVE  byRemote'[sess'[t].remote] = t
    BY DEF FoundByAddress
  <2>1. t # s
    OBVIOUS
  <2>2. sess'[t] = sess[t] /\ byRemote[sess[t].remote] = t
    BY <1>3, <2>1 DEF IInv, FoundByAddress
  <2>3. sess[t].remote # r /\ sess[t].remote \in Remote
    BY <1>1, <1>2, <2>1, <2>2 DEF SessionObject
  <2> QED BY <1>1, <2>2, <2>3
<1>6. OneAddress => \A q \in Remote : byRemote'[q] = None
  BY <1>1 DEF IInv, AtFirst
<1> QED BY <1>4, <1>5, <1>6 DEF NoStaleAddress, AtFirst

-----------------------------------------------------------------------------
(* The steps of the client *)

LEMMA RequestStep ==
  ASSUME IInv, NEW kind \in Kind, Request(kind), cSid' \in Session \cup {None}
  PROVE  IInv'
<1>1. /\ use \in Uses /\ addr \in 1 .. use.remotes
      /\ made \in Seq([kind : Kind, sid : Session \cup {None}]) /\ Len(made) <= MaxReq
      /\ Len(made) \in Nat /\ reqs \subseteq RequestIn(Len(made))
  BY DEF IInv, TypeInv
<1>2. /\ UNCHANGED <<addr, cSeen, got, dropped, results, acks>>
      /\ use' = use /\ sess' = sess /\ byRemote' = byRemote /\ opens' = opens
      /\ closes' = closes /\ runs' = runs /\ confirmed' = confirmed /\ expired' = expired
      /\ Len(made) < use.reqs
      /\ made' = Append(made, [kind |-> kind, sid |-> cSid])
      /\ reqs' = reqs \cup {[id |-> Len(made'), from |-> addr]}
  BY DEF Request, server
<1>3. [kind |-> kind, sid |-> cSid] \in [kind : Kind, sid : Session \cup {None}]
  BY DEF IInv, TypeInv
<1>4. /\ made' \in Seq([kind : Kind, sid : Session \cup {None}])
      /\ Len(made') = Len(made) + 1
  <2> DEFINE T == [kind : Kind, sid : Session \cup {None}]
             q == [kind |-> kind, sid |-> cSid]
  <2>1. made \in Seq(T) /\ q \in T /\ made' = Append(made, q)
    BY <1>1, <1>2, <1>3
  <2> HIDE DEF T, q
  <2>2. made' \in Seq(T) /\ Len(made') = Len(made) + 1
    BY <2>1
  <2> QED BY <2>2 DEF T
<1>5. Len(made') <= MaxReq
  <2>1. use.reqs \in 1 .. MaxReq /\ MaxReq \in Nat
    BY <1>1, Sizes
  <2> QED BY <1>1, <1>2, <1>4, <2>1
<1>6. reqs' \subseteq RequestIn(Len(made'))
  <2>1. RequestIn(Len(made)) \subseteq RequestIn(Len(made'))
    BY <1>1, <1>2, <1>4 DEF RequestIn
  <2>2. [id |-> Len(made'), from |-> addr] \in RequestIn(Len(made'))
    BY <1>1, <1>2, <1>4 DEF RequestIn
  <2> QED BY <1>1, <1>2, <2>1, <2>2
<1>7. RequestIn(Len(made))' = RequestIn(Len(made'))
  BY <1>2 DEF RequestIn
<1>8. /\ AckIn' = AckIn /\ Result' = Result /\ SessionObject' = SessionObject /\ SeqMod' = SeqMod
  BY <1>2 DEF AckIn, Result, SessionObject, Seq16, SeqMod
<1>9. TypeInv'
  BY <1>1, <1>2, <1>4, <1>5, <1>6, <1>7, <1>8 DEF IInv, TypeInv
<1>10. (FoundByAddress /\ NoStaleAddress /\ AtFirst /\ CallbacksPaired)'
  BY <1>2 DEF IInv, FoundByAddress, NoStaleAddress, AtFirst, CallbacksPaired, OneAddress, Live
<1> QED BY <1>9, <1>10 DEF IInv

LEMMA RebindStep ==
  ASSUME IInv, Rebind
  PROVE  IInv'
<1>1. /\ use \in Uses /\ addr \in 1 .. use.remotes
      /\ reqs \subseteq RequestIn(Len(made))
  BY DEF IInv, TypeInv
<1>2. /\ UNCHANGED <<cSid, made, cSeen, got, dropped, results, acks>>
      /\ use' = use /\ sess' = sess /\ byRemote' = byRemote /\ opens' = opens
      /\ closes' = closes /\ runs' = runs /\ confirmed' = confirmed /\ expired' = expired
      /\ addr < use.remotes /\ addr' = addr + 1
      /\ reqs' = reqs \cup {[id |-> m.id, from |-> addr'] : m \in reqs}
  BY DEF Rebind, server
<1>3. addr' \in 1 .. use.remotes
  <2>1. use.remotes \in Nat
    BY <1>1, Sizes
  <2> QED BY <1>1, <1>2, <2>1
<1>4. reqs' \subseteq RequestIn(Len(made))
  <2>1. \A m \in reqs : [id |-> m.id, from |-> addr'] \in RequestIn(Len(made))
    BY <1>1, <1>3 DEF RequestIn
  <2> QED BY <1>1, <1>2, <2>1
<1>5. /\ RequestIn(Len(made))' = RequestIn(Len(made))
      /\ AckIn' = AckIn /\ Result' = Result /\ SessionObject' = SessionObject /\ SeqMod' = SeqMod
  BY <1>2 DEF RequestIn, AckIn, Result, SessionObject, Seq16, SeqMod
<1>6. TypeInv'
  BY <1>1, <1>2, <1>3, <1>4, <1>5 DEF IInv, TypeInv
<1>7. (FoundByAddress /\ NoStaleAddress /\ AtFirst /\ CallbacksPaired)'
  BY <1>2 DEF IInv, FoundByAddress, NoStaleAddress, AtFirst, CallbacksPaired, OneAddress, Live
<1> QED BY <1>6, <1>7 DEF IInv

LEMMA ResultStep ==
  ASSUME IInv, NEW r \in results, RecvResult(r) \/ DropResult(r)
  PROVE  IInv'
<1>1. /\ use \in Uses /\ addr \in 1 .. use.remotes /\ r \in Result
      /\ acks \subseteq AckIn /\ cSeen \subseteq -SeqMod .. SeqMod
      /\ got \subseteq Result /\ dropped \subseteq Result /\ cSid \in Session \cup {None}
  BY DEF IInv, TypeInv
<1>2. /\ UNCHANGED <<addr, made, reqs, results>>
      /\ use' = use /\ sess' = sess /\ byRemote' = byRemote /\ opens' = opens
      /\ closes' = closes /\ runs' = runs /\ confirmed' = confirmed /\ expired' = expired
      /\ acks' = acks \cup {[seq |-> r.seq, from |-> addr]}
  BY DEF RecvResult, DropResult, AckResult, server
<1>3. acks' \subseteq AckIn
  <2>1. [seq |-> r.seq, from |-> addr] \in AckIn
    BY <1>1 DEF AckIn, Result
  <2> QED BY <1>1, <1>2, <2>1
<1>4. Short(r.seq) \in -SeqMod .. SeqMod
  <2>1. r.seq \in Seq16 /\ SeqMod \in Nat
    BY <1>1, Sizes DEF Result
  <2>2. r.seq \in Int /\ 0 <= r.seq /\ r.seq < SeqMod
    BY <2>1 DEF Seq16
  <2>3. Short(r.seq) = r.seq \/ Short(r.seq) = r.seq - SeqMod
    BY DEF Short
  <2> QED BY <2>1, <2>2, <2>3
<1>5. /\ cSeen' \subseteq -SeqMod .. SeqMod /\ got' \subseteq Result /\ dropped' \subseteq Result
  BY <1>1, <1>4 DEF RecvResult, DropResult
<1>6. cSid' \in Session \cup {None}
  <2>1. r.sid \in Session \cup {None}
    BY <1>1 DEF Result
  <2> QED BY <1>1, <2>1 DEF RecvResult, DropResult, SidAfter
<1>7. /\ RequestIn(Len(made))' = RequestIn(Len(made))
      /\ AckIn' = AckIn /\ Result' = Result /\ SessionObject' = SessionObject /\ SeqMod' = SeqMod
  BY <1>2 DEF RequestIn, AckIn, Result, SessionObject, Seq16, SeqMod
<1>8. TypeInv'
  BY <1>1, <1>2, <1>3, <1>5, <1>6, <1>7 DEF IInv, TypeInv
<1>9. (FoundByAddress /\ NoStaleAddress /\ AtFirst /\ CallbacksPaired)'
  BY <1>2 DEF IInv, FoundByAddress, NoStaleAddress, AtFirst, CallbacksPaired, OneAddress, Live
<1> QED BY <1>8, <1>9 DEF IInv

-----------------------------------------------------------------------------
(* The steps of the server *)

LEMMA DuplicateStep ==
  ASSUME IInv, NEW m \in reqs, RecvDuplicate(m)
  PROVE  IInv'
<1> DEFINE s == byRemote[m.from]
<1>1. TypeInv /\ m.from \in Remote /\ (OneAddress => m.from = 1)
  BY RequestType DEF IInv
<1>2. s \in Session /\ s # None
  BY <1>1 DEF RecvDuplicate, Known, TypeInv
<1>3. /\ sess' = Heard(m) /\ byRemote' = byRemote /\ opens' = opens /\ closes' = closes
      /\ runs' = runs /\ confirmed' = confirmed /\ expired' = expired /\ use' = use
      /\ results' = results /\ UNCHANGED <<client, reqs, acks>>
  BY DEF RecvDuplicate
<1>4. /\ sess' \in [Session -> SessionObject] /\ OnlySession(sess', s)
      /\ sess'[s].state = sess[s].state /\ sess'[s].remote = m.from
  BY <1>1, <1>2, <1>3, HeardType
<1>5. TypeInv'
  BY <1>1, <1>3, <1>4, ServerTyped DEF TypeInv
<1>6. byRemote' = [byRemote EXCEPT ![m.from] = s]
  BY <1>1, <1>3 DEF TypeInv
<1>7. OneAddress => sess'[s].state = "live"
  BY <1>1, <1>2, <1>4 DEF IInv, NoStaleAddress, Live
<1>8. FoundByAddress' /\ NoStaleAddress' /\ AtFirst'
  BY <1>1, <1>2, <1>3, <1>4, <1>6, <1>7, MapKept
<1>9. CallbacksPaired'
  BY <1>3 DEF IInv, CallbacksPaired
<1> QED BY <1>5, <1>8, <1>9 DEF IInv

\* What RecvOpen and RefuseOpen have in common: the session of the address,
\* or a new one, gets the request and registers its result.
OpenSid(m) == IF byRemote[m.from] = None THEN NewSid ELSE byRemote[m.from]
OpenSess(m) ==
  IF byRemote[m.from] = None THEN [sess EXCEPT ![OpenSid(m)] = Blank(m.from)] ELSE Heard(m)
OpenResult(m, code) == Answer(OpenSess(m), OpenSid(m), m.id, "open", code, OpenSid(m))

LEMMA OpenTarget ==
  ASSUME IInv, NEW m \in reqs, NEW code \in {OK, Refused},
         byRemote[m.from] = None => Fresh # {}
  PROVE  LET s  == OpenSid(m)
             ss == OpenSess(m)
             r  == OpenResult(m, code)
         IN
         /\ s \in Session /\ byRemote[m.from] \in {s, None} /\ r \in Result
         /\ ss \in [Session -> SessionObject] /\ ss[s].remote = m.from
         /\ Registered(ss, s, r) \in [Session -> SessionObject]
         /\ OnlySession(Registered(ss, s, r), s)
         /\ Registered(ss, s, r)[s].remote = m.from
         /\ OneAddress => Registered(ss, s, r)[s].state = "live"
<1> DEFINE s  == OpenSid(m)
           ss == OpenSess(m)
           r  == OpenResult(m, code)
<1>1. /\ TypeInv /\ m.from \in Remote /\ (OneAddress => m.from = 1)
      /\ byRemote[m.from] \in Session \cup {None}
  BY RequestType DEF IInv, TypeInv
<1>2. /\ s \in Session /\ byRemote[m.from] \in {s, None}
      /\ ss \in [Session -> SessionObject] /\ OnlySession(ss, s) /\ ss[s].remote = m.from
      /\ OneAddress => ss[s].state = "live"
  <2>1. CASE byRemote[m.from] = None
    <3>1. /\ s = NewSid /\ Fresh # {} /\ ss = [sess EXCEPT ![s] = Blank(m.from)]
      BY <2>1 DEF OpenSid, OpenSess
    <3> HIDE DEF s, ss
    <3> QED BY <1>1, <2>1, <3>1, NewSession DEF OnlySession
  <2>2. CASE byRemote[m.from] # None
    <3>1. s = byRemote[m.from] /\ ss = Heard(m)
      BY <2>2 DEF OpenSid, OpenSess
    <3> HIDE DEF s, ss
    <3>2. OneAddress => sess[s].state = "live"
      BY <1>1, <2>2, <3>1 DEF IInv, NoStaleAddress, Live
    <3> QED BY <1>1, <2>2, <3>1, <3>2, HeardType DEF OnlySession
  <2> QED BY <2>1, <2>2
<1> HIDE DEF s, ss
<1>3. r \in Result
  BY <1>1, <1>2, AnswerType DEF Kind, OpenResult, s, ss
<1> HIDE DEF r
<1>4. /\ Registered(ss, s, r) \in [Session -> SessionObject]
      /\ \A t \in Session \ {s} : Registered(ss, s, r)[t] = ss[t]
      /\ Registered(ss, s, r)[s].state = ss[s].state
      /\ Registered(ss, s, r)[s].remote = ss[s].remote
  BY <1>1, <1>2, <1>3, RegisteredType
<1> QED BY <1>2, <1>3, <1>4 DEF OnlySession, s, ss, r

LEMMA OpenStep ==
  ASSUME IInv, NEW m \in reqs, RecvOpen(m)
  PROVE  IInv' /\ runs' = runs
<1>1. PICK s : s = OpenSid(m)
  OBVIOUS
<1>2. PICK ss : ss = OpenSess(m)
  OBVIOUS
<1>3. PICK r : r = OpenResult(m, OK)
  OBVIOUS
<1>4. /\ byRemote[m.from] = None => Fresh # {}
      /\ sess' = Registered(ss, s, r) /\ byRemote' = [byRemote EXCEPT ![m.from] = s]
      /\ opens' = Opened(s) /\ results' = results \cup {r}
      /\ use' = use /\ UNCHANGED <<client, reqs, acks>> /\ closes' = closes /\ runs' = runs
      /\ confirmed' = confirmed /\ expired' = expired
  BY <1>1, <1>2, <1>3 DEF RecvOpen, MappedTo, OpenSid, OpenSess, OpenResult
<1>5. /\ s \in Session /\ byRemote[m.from] \in {s, None} /\ r \in Result
      /\ sess' \in [Session -> SessionObject]
      /\ OnlySession(sess', s) /\ sess'[s].remote = m.from
      /\ OneAddress => sess'[s].state = "live"
  BY <1>1, <1>2, <1>3, <1>4, OpenTarget
<1>6. TypeInv /\ CallbacksPaired /\ m.from \in Remote /\ (OneAddress => m.from = 1)
  BY RequestType DEF IInv
<1>7. /\ opens' \in [Session -> Nat]
      /\ \A t \in Session : opens'[t] - closes[t] \in {0, 1}
  BY <1>4, <1>5, <1>6, OpenedType
<1>8. TypeInv'
  BY <1>4, <1>5, <1>6, <1>7, ServerTyped DEF TypeInv
<1>9. FoundByAddress' /\ NoStaleAddress' /\ AtFirst'
  BY <1>4, <1>5, <1>6, MapKept
<1>10. CallbacksPaired'
  BY <1>4, <1>7 DEF CallbacksPaired
<1> QED BY <1>4, <1>8, <1>9, <1>10 DEF IInv

LEMMA RefuseOpenStep ==
  ASSUME IInv, NEW m \in reqs, RefuseOpen(m)
  PROVE  IInv' /\ runs' = runs
<1>1. PICK s : s = OpenSid(m)
  OBVIOUS
<1>2. PICK ss : ss = OpenSess(m)
  OBVIOUS
<1>3. PICK r : r = OpenResult(m, Refused)
  OBVIOUS
<1>4. /\ byRemote[m.from] = None => Fresh # {}
      /\ sess' = [Registered(ss, s, r) EXCEPT ![s].state = "gone"]
      /\ byRemote' = [byRemote EXCEPT ![ss[s].remote] = None]
      /\ results' = results \cup {r}
      /\ use' = use /\ UNCHANGED <<client, reqs, acks>> /\ opens' = opens /\ closes' = closes
      /\ runs' = runs /\ confirmed' = confirmed /\ expired' = expired
  BY <1>1, <1>2, <1>3 DEF RefuseOpen, Removed, OpenSid, OpenSess, OpenResult
<1>5. /\ s \in Session /\ byRemote[m.from] \in {s, None} /\ r \in Result
      /\ ss[s].remote = m.from
      /\ Registered(ss, s, r) \in [Session -> SessionObject]
      /\ OnlySession(Registered(ss, s, r), s)
  BY <1>1, <1>2, <1>3, <1>4, OpenTarget
<1>6. /\ sess' \in [Session -> SessionObject] /\ OnlySession(sess', s)
      /\ sess'[s].state = "gone"
  BY <1>4, <1>5, Gone
<1>7. TypeInv /\ CallbacksPaired /\ m.from \in Remote /\ (OneAddress => m.from = 1)
  BY RequestType DEF IInv
<1>8. TypeInv'
  <2>1. byRemote' \in [Remote -> Session \cup {None}]
    BY <1>4, <1>5, <1>7 DEF TypeInv
  <2> QED BY <1>4, <1>5, <1>6, <1>7, <2>1, ServerTyped DEF TypeInv
<1>9. FoundByAddress' /\ NoStaleAddress' /\ AtFirst'
  BY <1>4, <1>5, <1>6, <1>7, MapRemoved
<1>10. CallbacksPaired'
  BY <1>4, <1>7 DEF CallbacksPaired
<1> QED BY <1>4, <1>8, <1>9, <1>10 DEF IInv

\* What RecvClose and RecvCall have in common: the session that the request
\* reaches gets this address and registers a result.
ReachSess(m) == [Heard(m) EXCEPT ![CloseTarget(m)].remote = m.from]

LEMMA ReachTarget ==
  ASSUME IInv, NEW m \in reqs, CloseTarget(m) # None, NEW r \in Result
  PROVE  LET s  == CloseTarget(m)
             ss == ReachSess(m)
         IN
         /\ s \in Session /\ byRemote[m.from] \in {s, None}
         /\ ss \in [Session -> SessionObject] /\ ss[s].remote = m.from
         /\ Registered(ss, s, r) \in [Session -> SessionObject]
         /\ OnlySession(Registered(ss, s, r), s)
         /\ Registered(ss, s, r)[s].remote = m.from
         /\ OneAddress => Registered(ss, s, r)[s].state = "live"
<1> DEFINE s  == CloseTarget(m)
           ss == ReachSess(m)
           hs == Heard(m)
<1>1. /\ TypeInv /\ m.from \in Remote /\ (OneAddress => m.from = 1)
      /\ byRemote[m.from] \in Session \cup {None}
      /\ made[m.id].sid \in Session \cup {None}
  BY RequestType DEF IInv, TypeInv
<1>2. s \in Session /\ byRemote[m.from] \in {s, None}
  BY <1>1 DEF CloseTarget
<1>3. OneAddress => sess[s].state = "live"
  <2>1. CASE byRemote[m.from] = None
    BY <2>1, <1>2 DEF CloseTarget, Live
  <2>2. CASE byRemote[m.from] # None
    BY <2>2, <1>1, <1>2 DEF IInv, NoStaleAddress, Live
  <2> QED BY <2>1, <2>2
<1>4. /\ hs \in [Session -> SessionObject] /\ OnlySession(hs, s)
      /\ hs[s].state = sess[s].state
  <2>1. CASE byRemote[m.from] = None
    BY <2>1, <1>1, <1>2, HeardType DEF OnlySession, TypeInv
  <2>2. CASE byRemote[m.from] # None
    <3>1. byRemote[m.from] = s
      BY <2>2, <1>2
    <3> QED BY <3>1, <2>2, <1>1, <1>2, HeardType DEF OnlySession
  <2> QED BY <2>1, <2>2
<1>5. ss = [hs EXCEPT ![s].remote = m.from]
  BY DEF ReachSess
<1> HIDE DEF s, ss, hs
<1>6. /\ ss \in [Session -> SessionObject] /\ OnlySession(ss, s)
      /\ ss[s].state = sess[s].state /\ ss[s].remote = m.from
  <2> DEFINE new == [hs[s] EXCEPT !.remote = m.from]
  <2>1. new \in SessionObject /\ new.state = sess[s].state /\ new.remote = m.from
    <3>1. hs[s] \in SessionObject
      BY <1>2, <1>4
    <3> QED BY <3>1, <1>1, <1>4 DEF SessionObject
  <2>2. ss = [hs EXCEPT ![s] = new]
    BY <1>5
  <2> HIDE DEF new
  <2> QED BY <2>1, <2>2, <1>2, <1>4 DEF OnlySession
<1>7. /\ Registered(ss, s, r) \in [Session -> SessionObject]
      /\ \A t \in Session \ {s} : Registered(ss, s, r)[t] = ss[t]
      /\ Registered(ss, s, r)[s].state = ss[s].state
      /\ Registered(ss, s, r)[s].remote = ss[s].remote
  BY <1>1, <1>2, <1>6, RegisteredType
<1>8. OnlySession(Registered(ss, s, r), s)
  BY <1>6, <1>7 DEF OnlySession
<1> QED BY <1>2, <1>3, <1>6, <1>7, <1>8 DEF s, ss

LEMMA CloseStep ==
  ASSUME IInv, NEW m \in reqs, RecvClose(m)
  PROVE  IInv' /\ runs' = runs
<1>1. PICK s : s = CloseTarget(m)
  OBVIOUS
<1>2. PICK ss : ss = ReachSess(m)
  OBVIOUS
<1>3. PICK r : r = Answer(ss, s, m.id, "close", Done, made[m.id].sid)
  OBVIOUS
<1>4. /\ s # None
      /\ sess' = [Registered(ss, s, r) EXCEPT ![s].state = "gone"]
      /\ byRemote' = [byRemote EXCEPT ![ss[s].remote] = None]
      /\ closes' = Closed(s) /\ results' = results \cup {r}
      /\ use' = use /\ UNCHANGED <<client, reqs, acks>> /\ opens' = opens
      /\ runs' = runs /\ confirmed' = confirmed /\ expired' = expired
  BY <1>1, <1>2, <1>3 DEF RecvClose, Removed, ReachSess
<1>5. /\ TypeInv /\ CallbacksPaired /\ m.from \in Remote /\ (OneAddress => m.from = 1)
      /\ made[m.id].sid \in Session \cup {None}
  BY RequestType DEF IInv
<1>6. Result # {}
  <2>1. /\ m.id \in Req /\ 0 \in Seq16
    BY <1>5, RequestType, Sizes DEF TypeInv
  <2>2. [req |-> m.id, kind |-> "call", code |-> OK, sid |-> None, seq |-> 0] \in Result
    BY <2>1 DEF Result, Kind
  <2> QED BY <2>2
<1>7. s \in Session /\ ss \in [Session -> SessionObject]
  BY <1>1, <1>2, <1>4, <1>6, ReachTarget
<1>8. r \in Result
  BY <1>3, <1>5, <1>7, AnswerType DEF Kind
<1>9. /\ byRemote[m.from] \in {s, None} /\ ss[s].remote = m.from
      /\ Registered(ss, s, r) \in [Session -> SessionObject]
      /\ OnlySession(Registered(ss, s, r), s)
  BY <1>1, <1>2, <1>4, <1>8, ReachTarget
<1>10. /\ sess' \in [Session -> SessionObject] /\ OnlySession(sess', s)
       /\ sess'[s].state = "gone"
  BY <1>4, <1>7, <1>9, Gone
<1>11. /\ closes' \in [Session -> Nat]
       /\ \A t \in Session : opens[t] - closes'[t] \in {0, 1}
  BY <1>4, <1>5, <1>7, ClosedType
<1>12. TypeInv'
  <2>1. byRemote' \in [Remote -> Session \cup {None}]
    BY <1>4, <1>9, <1>5 DEF TypeInv
  <2> QED BY <1>4, <1>5, <1>8, <1>10, <1>11, <2>1, ServerTyped DEF TypeInv
<1>13. FoundByAddress' /\ NoStaleAddress' /\ AtFirst'
  BY <1>4, <1>5, <1>7, <1>9, <1>10, MapRemoved
<1>14. CallbacksPaired'
  BY <1>4, <1>11 DEF CallbacksPaired
<1> QED BY <1>4, <1>12, <1>13, <1>14 DEF IInv

LEMMA CallStep ==
  ASSUME IInv, NEW m \in reqs, RecvCall(m)
  PROVE  /\ IInv'
         /\ \A c \in Req, s \in Session : runs'[c][s] > runs[c][s] => opens'[s] > closes'[s]
<1>1. PICK s : s = CloseTarget(m)
  OBVIOUS
<1>2. PICK ss : ss = ReachSess(m)
  OBVIOUS
<1>3. PICK code : code = IF Performs(s) THEN OK ELSE NoSession
  OBVIOUS
<1>4. PICK r : r = Answer(ss, s, m.id, "call", code, made[m.id].sid)
  OBVIOUS
<1>5. /\ s # None
      /\ sess' = Registered(ss, s, r) /\ byRemote' = [byRemote EXCEPT ![m.from] = s]
      /\ runs' = (IF Performs(s) THEN [runs EXCEPT ![m.id][s] = @ + 1] ELSE runs)
      /\ results' = results \cup {r}
      /\ use' = use /\ UNCHANGED <<client, reqs, acks>> /\ opens' = opens /\ closes' = closes
      /\ confirmed' = confirmed /\ expired' = expired
  BY <1>1, <1>2, <1>3, <1>4 DEF RecvCall, MappedTo, ReachSess, CallTarget
<1>6. /\ TypeInv /\ CallbacksPaired /\ m.from \in Remote /\ (OneAddress => m.from = 1)
      /\ m.id \in Req /\ made[m.id].sid \in Session \cup {None}
  BY RequestType DEF IInv
<1>7. Result # {}
  <2>1. 0 \in Seq16
    BY <1>6, Sizes DEF TypeInv
  <2>2. [req |-> m.id, kind |-> "call", code |-> OK, sid |-> None, seq |-> 0] \in Result
    BY <1>6, <2>1 DEF Result, Kind
  <2> QED BY <2>2
<1>8. s \in Session /\ ss \in [Session -> SessionObject]
  BY <1>1, <1>2, <1>5, <1>7, ReachTarget
<1>9. r \in Result
  BY <1>3, <1>4, <1>6, <1>8, AnswerType DEF Kind
<1>10. /\ byRemote[m.from] \in {s, None}
       /\ sess' \in [Session -> SessionObject]
       /\ OnlySession(sess', s) /\ sess'[s].remote = m.from
       /\ OneAddress => sess'[s].state = "live"
  BY <1>1, <1>2, <1>5, <1>9, ReachTarget
<1>11. runs' \in [Req -> [Session -> Nat]]
  BY <1>5, <1>6, <1>8, RunType DEF TypeInv
<1>12. TypeInv'
  <2>1. byRemote' \in [Remote -> Session \cup {None}]
    BY <1>5, <1>8, <1>6 DEF TypeInv
  <2> QED BY <1>5, <1>6, <1>9, <1>10, <1>11, <2>1, ServerTyped DEF TypeInv
<1>13. FoundByAddress' /\ NoStaleAddress' /\ AtFirst'
  BY <1>5, <1>6, <1>8, <1>10, MapKept
<1>14. CallbacksPaired'
  BY <1>5, <1>6 DEF CallbacksPaired
<1>15. \A c \in Req, t \in Session : runs'[c][t] > runs[c][t] => opens'[t] > closes'[t]
  <2> SUFFICES ASSUME NEW c \in Req, NEW t \in Session, runs'[c][t] > runs[c][t]
               PROVE  opens[t] > closes[t]
    BY <1>5
  <2>1. runs[c][t] \in Nat
    BY <1>6 DEF TypeInv
  <2>2. Performs(s)
    BY <1>5, <2>1
  <2>3. t = s
    BY <1>5, <1>6, <1>8, <2>2, OnlyRun
  <2> QED BY <2>2, <2>3 DEF Performs, Serving
<1> QED BY <1>12, <1>13, <1>14, <1>15 DEF IInv

LEMMA UnknownStep ==
  ASSUME IInv, NEW m \in reqs, RecvUnknown(m)
  PROVE  IInv' /\ runs' = runs
<1>1. PICK r : r = Answer(sess, None, m.id, made[m.id].kind, NoSession, made[m.id].sid)
  OBVIOUS
<1>2. /\ results' = results \cup {r} /\ UNCHANGED <<client, reqs, acks>>
      /\ use' = use /\ sess' = sess /\ byRemote' = byRemote /\ opens' = opens
      /\ closes' = closes /\ runs' = runs /\ confirmed' = confirmed /\ expired' = expired
  BY <1>1 DEF RecvUnknown, server
<1>3. /\ TypeInv /\ made[m.id].sid \in Session \cup {None} /\ made[m.id].kind \in Kind
  BY RequestType DEF IInv
<1>4. r \in Result
  BY <1>1, <1>3, AnswerType DEF TypeInv
<1>5. TypeInv'
  BY <1>2, <1>3, <1>4, ServerTyped DEF TypeInv
<1>6. (FoundByAddress /\ NoStaleAddress /\ AtFirst /\ CallbacksPaired)'
  BY <1>2 DEF IInv, FoundByAddress, NoStaleAddress, AtFirst, CallbacksPaired, OneAddress, Live
<1> QED BY <1>2, <1>5, <1>6 DEF IInv

LEMMA CallOpensStep ==
  ASSUME IInv, NEW m \in reqs, RecvCallOpens(m)
  PROVE  /\ IInv'
         /\ \A c \in Req, s \in Session : runs'[c][s] > runs[c][s] => opens'[s] > closes'[s]
<1>1. PICK s : s = NewSid
  OBVIOUS
<1>2. PICK s1 : s1 = [sess EXCEPT ![s] = Blank(m.from)]
  OBVIOUS
<1>3. PICK r1 : r1 = Answer(s1, s, m.id, "open", OK, s)
  OBVIOUS
<1>4. PICK s2 : s2 = Registered(s1, s, r1)
  OBVIOUS
<1>5. PICK r2 : r2 = Answer(s2, s, m.id, "call", OK, None)
  OBVIOUS
<1>6. /\ byRemote[m.from] = None /\ Fresh # {}
      /\ sess' = Registered(s2, s, r2) /\ byRemote' = [byRemote EXCEPT ![m.from] = s]
      /\ opens' = Opened(s) /\ runs' = [runs EXCEPT ![m.id][s] = @ + 1]
      /\ results' = results \cup {r1, r2}
      /\ use' = use /\ UNCHANGED <<client, reqs, acks>> /\ closes' = closes
      /\ confirmed' = confirmed /\ expired' = expired
  BY <1>1, <1>2, <1>3, <1>4, <1>5 DEF RecvCallOpens, MappedTo
<1>7. /\ TypeInv /\ CallbacksPaired /\ m.from \in Remote /\ (OneAddress => m.from = 1)
      /\ m.id \in Req
  BY RequestType DEF IInv
<1>8. /\ s \in Session /\ s1 \in [Session -> SessionObject] /\ OnlySession(s1, s)
      /\ s1[s].state = "live" /\ s1[s].remote = m.from
  BY <1>1, <1>2, <1>6, <1>7, NewSession DEF OnlySession
<1>9. r1 \in Result
  BY <1>3, <1>7, <1>8, AnswerType DEF Kind
<1>10. /\ s2 \in [Session -> SessionObject] /\ OnlySession(s2, s)
       /\ s2[s].state = "live" /\ s2[s].remote = m.from
  BY <1>4, <1>7, <1>8, <1>9, RegisteredType DEF OnlySession
<1>11. r2 \in Result
  BY <1>5, <1>7, <1>10, <1>8, AnswerType DEF Kind
<1>12. /\ sess' \in [Session -> SessionObject] /\ OnlySession(sess', s)
       /\ sess'[s].state = "live" /\ sess'[s].remote = m.from
  BY <1>6, <1>7, <1>8, <1>10, <1>11, RegisteredType DEF OnlySession
<1>13. /\ opens' \in [Session -> Nat] /\ opens'[s] > closes[s]
       /\ \A t \in Session : opens'[t] - closes[t] \in {0, 1}
  BY <1>6, <1>7, <1>8, OpenedType
<1>14. runs' \in [Req -> [Session -> Nat]]
  BY <1>6, <1>7, <1>8, RunType
<1>15. TypeInv'
  <2>1. byRemote' \in [Remote -> Session \cup {None}]
    BY <1>6, <1>7, <1>8 DEF TypeInv
  <2>2. results' \subseteq Result
    BY <1>6, <1>7, <1>9, <1>11 DEF TypeInv
  <2> QED BY <1>6, <1>7, <1>12, <1>13, <1>14, <2>1, <2>2, ServerTyped DEF TypeInv
<1>16. FoundByAddress' /\ NoStaleAddress' /\ AtFirst'
  BY <1>6, <1>7, <1>8, <1>12, MapKept
<1>17. CallbacksPaired'
  BY <1>6, <1>13 DEF CallbacksPaired
<1>18. \A c \in Req, t \in Session : runs'[c][t] > runs[c][t] => t = s
  BY <1>6, <1>7, <1>8, OnlyRun
<1> QED BY <1>6, <1>13, <1>15, <1>16, <1>17, <1>18 DEF IInv

LEMMA RefuseCallOpensStep ==
  ASSUME IInv, NEW m \in reqs, RefuseCallOpens(m)
  PROVE  IInv' /\ runs' = runs
<1>1. PICK s : s = NewSid
  OBVIOUS
<1>2. PICK new : new = [Blank(m.from) EXCEPT !.state = "gone"]
  OBVIOUS
<1>3. PICK r : r = Answer(sess, None, m.id, "call", NoSession, None)
  OBVIOUS
<1>4. /\ byRemote[m.from] = None /\ Fresh # {}
      /\ sess' = [sess EXCEPT ![s] = new] /\ results' = results \cup {r}
      /\ use' = use /\ UNCHANGED <<client, reqs, acks>> /\ byRemote' = byRemote
      /\ opens' = opens /\ closes' = closes /\ runs' = runs
      /\ confirmed' = confirmed /\ expired' = expired
  BY <1>1, <1>2, <1>3 DEF RefuseCallOpens
<1>5. /\ TypeInv /\ CallbacksPaired /\ m.from \in Remote /\ (OneAddress => m.from = 1)
  BY RequestType DEF IInv
<1>6. s \in Session /\ Blank(m.from) \in SessionObject
  BY <1>1, <1>4, <1>5, NewSession
<1>7. new \in SessionObject /\ new.state = "gone"
  BY <1>2, <1>6 DEF SessionObject
<1>8. r \in Result
  BY <1>3, <1>5, AnswerType DEF Kind, TypeInv
<1>9. /\ sess' \in [Session -> SessionObject] /\ OnlySession(sess', s)
      /\ sess'[s].state # "live"
  BY <1>4, <1>5, <1>6, <1>7 DEF TypeInv, OnlySession
<1>10. TypeInv'
  BY <1>4, <1>5, <1>8, <1>9, ServerTyped DEF TypeInv
<1>11. byRemote' = [byRemote EXCEPT ![m.from] = None]
  BY <1>4, <1>5 DEF TypeInv
<1>12. FoundByAddress' /\ NoStaleAddress' /\ AtFirst'
  BY <1>4, <1>5, <1>6, <1>9, <1>11, MapRemoved
<1>13. CallbacksPaired'
  BY <1>4, <1>5 DEF CallbacksPaired
<1> QED BY <1>4, <1>10, <1>12, <1>13 DEF IInv

LEMMA AckStep ==
  ASSUME IInv, NEW a \in acks, RecvAck(a)
  PROVE  IInv' /\ runs' = runs
<1>1. PICK s : s = byRemote[a.from]
  OBVIOUS
<1>2. PICK new : new = [sess[s] EXCEPT !.remote = a.from,
                                       !.unacked = {u \in @ : u.seq # a.seq}]
  OBVIOUS
<1>3. /\ s # None /\ sess' = [sess EXCEPT ![s].remote = a.from,
                                          ![s].unacked = {u \in @ : u.seq # a.seq}]
      /\ confirmed' = confirmed \cup {u \in sess[s].unacked : u.seq = a.seq}
      /\ results' = results /\ use' = use /\ UNCHANGED <<client, reqs, acks>>
      /\ byRemote' = byRemote /\ opens' = opens /\ closes' = closes /\ runs' = runs
      /\ expired' = expired
  BY <1>1 DEF RecvAck
<1>4. /\ TypeInv /\ CallbacksPaired /\ use \in Uses /\ a.from \in 1 .. use.remotes
  BY DEF IInv, TypeInv, AckIn
<1>5. a.from \in Remote /\ (OneAddress => a.from = 1)
  BY <1>4, Sizes DEF OneAddress
<1>6. s \in Session /\ sess \in [Session -> SessionObject] /\ sess[s] \in SessionObject
  BY <1>1, <1>3, <1>4, <1>5 DEF TypeInv
<1>7. new \in SessionObject /\ new.remote = a.from /\ new.state = sess[s].state
  BY <1>2, <1>5, <1>6 DEF SessionObject
<1>8. sess' = [sess EXCEPT ![s] = new]
  BY <1>2, <1>3, <1>6
<1>9. /\ sess' \in [Session -> SessionObject] /\ OnlySession(sess', s)
      /\ sess'[s].remote = a.from /\ sess'[s].state = sess[s].state
  BY <1>6, <1>7, <1>8 DEF OnlySession
<1>10. confirmed' \subseteq Result
  BY <1>3, <1>4, <1>6 DEF TypeInv, SessionObject
<1>11. TypeInv'
  BY <1>3, <1>4, <1>9, <1>10, ServerTyped DEF TypeInv
<1>12. byRemote' = [byRemote EXCEPT ![a.from] = s]
  BY <1>1, <1>3, <1>4, <1>5 DEF TypeInv
<1>13. OneAddress => sess'[s].state = "live"
  BY <1>1, <1>3, <1>5, <1>9 DEF IInv, NoStaleAddress, Live
<1>14. FoundByAddress' /\ NoStaleAddress' /\ AtFirst'
  BY <1>1, <1>3, <1>5, <1>6, <1>9, <1>12, <1>13, MapKept
<1>15. CallbacksPaired'
  BY <1>3, <1>4 DEF CallbacksPaired
<1> QED BY <1>3, <1>11, <1>14, <1>15 DEF IInv

LEMMA ExpireStep ==
  ASSUME IInv, NEW s \in Session, Expire(s)
  PROVE  IInv' /\ runs' = runs
<1>1. PICK r : r = sess[s].remote
  OBVIOUS
<1>2. /\ Live(s) /\ expired < use.expiries
      /\ sess' = [sess EXCEPT ![s].state = "gone"]
      /\ byRemote' = [byRemote EXCEPT ![r] = None]
      /\ closes' = Closed(s) /\ expired' = expired + 1
      /\ results' = results /\ use' = use /\ UNCHANGED <<client, reqs, acks>>
      /\ opens' = opens /\ runs' = runs /\ confirmed' = confirmed
  BY <1>1 DEF Expire, Removed
<1>3. /\ TypeInv /\ CallbacksPaired /\ use \in Uses /\ sess \in [Session -> SessionObject]
      /\ byRemote \in [Remote -> Session \cup {None}]
  BY DEF IInv, TypeInv
<1>4. r \in Remote /\ byRemote[r] = s /\ s # None
  BY <1>1, <1>2, <1>3 DEF IInv, FoundByAddress, Live, SessionObject
<1>5. OneAddress => r = 1
  BY <1>4 DEF IInv, AtFirst
<1>6. OnlySession(sess, s)
  BY <1>3 DEF OnlySession
<1>7. /\ sess' \in [Session -> SessionObject] /\ OnlySession(sess', s)
      /\ sess'[s].state = "gone"
  BY <1>2, <1>3, <1>6, Gone
<1>8. /\ closes' \in [Session -> Nat]
      /\ \A t \in Session : opens[t] - closes'[t] \in {0, 1}
  BY <1>2, <1>3, ClosedType
<1>9. expired' \in 0 .. use.expiries
  <2>1. use.expiries \in Nat
    BY <1>3, Sizes
  <2> QED BY <1>2, <2>1 DEF IInv, TypeInv
<1>10. TypeInv'
  <2>1. byRemote' \in [Remote -> Session \cup {None}]
    BY <1>2, <1>3
  <2> QED BY <1>2, <1>3, <1>7, <1>8, <1>9, <2>1, ServerTyped DEF TypeInv
<1>11. FoundByAddress' /\ NoStaleAddress' /\ AtFirst'
  BY <1>2, <1>4, <1>5, <1>7, MapRemoved
<1>12. CallbacksPaired'
  BY <1>2, <1>8 DEF CallbacksPaired
<1> QED BY <1>2, <1>10, <1>11, <1>12 DEF IInv

-----------------------------------------------------------------------------
(* The silence *)

LEMMA PauseStep ==
  ASSUME IInv, Pause
  PROVE  IInv'
<1>1. /\ reqs' = {} /\ results' = {} /\ acks' = {} /\ cSeen' = {-1}
      /\ sess' = [s \in Session |-> [sess[s] EXCEPT !.seen = {}, !.unacked = {}]]
      /\ use' = use /\ addr' = addr /\ cSid' = cSid /\ made' = made /\ got' = got
      /\ dropped' = dropped /\ byRemote' = byRemote /\ opens' = opens
      /\ closes' = closes /\ runs' = runs /\ confirmed' = confirmed /\ expired' = expired
  BY DEF Pause, EmptyRing
<1>2. \A s \in Session : /\ sess'[s] \in SessionObject
                         /\ sess'[s].state = sess[s].state /\ sess'[s].remote = sess[s].remote
  <2> SUFFICES ASSUME NEW s \in Session
               PROVE  /\ sess'[s] \in SessionObject
                      /\ sess'[s].state = sess[s].state /\ sess'[s].remote = sess[s].remote
    OBVIOUS
  <2>1. sess[s] \in SessionObject
    BY DEF IInv, TypeInv
  <2>2. sess'[s] = [sess[s] EXCEPT !.seen = {}, !.unacked = {}]
    BY <1>1
  <2> QED BY <2>1, <2>2 DEF SessionObject
<1>3. sess' \in [Session -> SessionObject]
  BY <1>1, <1>2
<1>4. cSeen' \subseteq -SeqMod' .. SeqMod'
  <2>1. SeqMod \in Nat /\ SeqMod > 0
    BY Sizes DEF IInv, TypeInv
  <2>2. cSeen' = EmptyRing /\ SeqMod' = SeqMod
    BY <1>1 DEF EmptyRing, SeqMod
  <2>3. EmptyRing \subseteq -SeqMod .. SeqMod
    BY <2>1 DEF EmptyRing
  <2> QED BY <2>2, <2>3
<1>5. /\ Result' = Result /\ SessionObject' = SessionObject /\ SeqMod' = SeqMod
      /\ RequestIn(Len(made))' = RequestIn(Len(made)) /\ AckIn' = AckIn
  BY <1>1 DEF Result, SessionObject, Seq16, SeqMod, RequestIn, AckIn
<1>6. TypeInv'
  BY <1>1, <1>3, <1>4, <1>5 DEF IInv, TypeInv
<1>7. (FoundByAddress /\ NoStaleAddress /\ AtFirst /\ CallbacksPaired)'
  <2>1. \A q \in Remote : byRemote[q] # None => byRemote[q] \in Session
    BY DEF IInv, TypeInv
  <2> QED BY <1>1, <1>2, <2>1 DEF IInv, FoundByAddress, NoStaleAddress, AtFirst,
        CallbacksPaired, OneAddress, Live
<1> QED BY <1>6, <1>7 DEF IInv

-----------------------------------------------------------------------------
(* The theorems *)

LEMMA InitInv == Init => IInv
<1> SUFFICES ASSUME Init PROVE IInv
  OBVIOUS
<1>1. use \in Uses
  BY DEF Init
<1>2. /\ 1 \in Remote /\ 0 \in Seq16 /\ 1 \in 1 .. use.remotes /\ SeqMod \in Nat
      /\ SeqMod > 0 /\ use.expiries \in Nat /\ MaxReq \in Nat
  BY <1>1, Sizes
<1>3. Unused \in SessionObject /\ Unused.state = "none"
  BY <1>2 DEF Unused, Blank, SessionObject
<1>4. sess \in [Session -> SessionObject]
  BY <1>3 DEF Init
<1>5. \A s \in Session : sess[s].state # "live"
  BY <1>3 DEF Init
<1>6. /\ made \in Seq([kind : Kind, sid : Session \cup {None}]) /\ Len(made) <= MaxReq
      /\ cSeen \subseteq -SeqMod .. SeqMod /\ expired \in 0 .. use.expiries
  BY <1>2 DEF Init, EmptyRing
<1>7. TypeInv
  BY <1>1, <1>2, <1>4, <1>6 DEF Init, TypeInv
<1>8. FoundByAddress /\ NoStaleAddress /\ AtFirst /\ CallbacksPaired
  BY <1>5 DEF Init, FoundByAddress, NoStaleAddress, AtFirst, CallbacksPaired
<1> QED BY <1>7, <1>8 DEF IInv

\* Only two handlers perform a call.
RunsInside == \A c \in Req, s \in Session : runs'[c][s] > runs[c][s] => opens'[s] > closes'[s]

LEMMA Quiet ==
  ASSUME IInv, runs' = runs
  PROVE  RunsInside
<1>1. \A c \in Req, s \in Session : runs[c][s] \in Nat
  BY DEF IInv, TypeInv
<1> QED BY <1>1 DEF RunsInside

LEMMA Step ==
  ASSUME IInv, [Next]_vars
  PROVE  IInv' /\ RunsInside
<1>1. CASE SendOpen \/ SendClose \/ SendCall
  <2>1. cSid' \in Session \cup {None}
    BY <1>1 DEF SendOpen, SendClose, SendCall, IInv, TypeInv
  <2>2. PICK kind \in Kind : Request(kind)
    BY <1>1 DEF SendOpen, SendClose, SendCall, Kind
  <2>3. runs' = runs
    BY <2>2 DEF Request, server
  <2> QED BY <2>1, <2>2, <2>3, RequestStep, Quiet
<1>2. CASE Rebind
  BY <1>2, RebindStep, Quiet DEF Rebind, server
<1>3. ASSUME NEW r \in results, RecvResult(r) \/ DropResult(r)
      PROVE  IInv' /\ RunsInside
  <2>1. runs' = runs
    BY <1>3 DEF RecvResult, DropResult, server
  <2> QED BY <1>3, <2>1, ResultStep, Quiet
<1>4. ASSUME NEW m \in reqs, RecvDuplicate(m)
      PROVE  IInv' /\ RunsInside
  <2>1. runs' = runs
    BY <1>4 DEF RecvDuplicate
  <2> QED BY <1>4, <2>1, DuplicateStep, Quiet
<1>5. ASSUME NEW m \in reqs, RecvOpen(m) \/ RefuseOpen(m)
      PROVE  IInv' /\ RunsInside
  BY <1>5, OpenStep, RefuseOpenStep, Quiet
<1>6. ASSUME NEW m \in reqs, RecvClose(m) \/ RecvUnknown(m) \/ RefuseCallOpens(m)
      PROVE  IInv' /\ RunsInside
  BY <1>6, CloseStep, UnknownStep, RefuseCallOpensStep, Quiet
<1>7. ASSUME NEW m \in reqs, RecvCall(m) \/ RecvCallOpens(m)
      PROVE  IInv' /\ RunsInside
  BY <1>7, CallStep, CallOpensStep DEF RunsInside
<1>8. ASSUME NEW a \in acks, RecvAck(a)
      PROVE  IInv' /\ RunsInside
  BY <1>8, AckStep, Quiet
<1>9. ASSUME NEW s \in Session, Expire(s)
      PROVE  IInv' /\ RunsInside
  BY <1>9, ExpireStep, Quiet
<1>10. CASE Pause
  BY <1>10, PauseStep, Quiet DEF Pause
<1>11. CASE UNCHANGED vars
  <2>1. UNCHANGED <<addr, cSid, made, cSeen, got, dropped, reqs, results, acks, use, sess,
                    byRemote, opens, closes, runs, confirmed, expired>>
    BY <1>11 DEF vars, client, server
  <2>2. TypeInv'
    BY <2>1, SameTypes DEF IInv
  <2>3. (FoundByAddress /\ NoStaleAddress /\ AtFirst /\ CallbacksPaired)'
    BY <2>1 DEF IInv, FoundByAddress, NoStaleAddress, AtFirst, CallbacksPaired, OneAddress, Live
  <2> QED BY <2>1, <2>2, <2>3, Quiet DEF IInv
<1>12. CASE Client
  BY <1>12, <1>1, <1>2, <1>3 DEF Client
<1>13. CASE Server
  BY <1>13, <1>4, <1>5, <1>6, <1>7, <1>8, <1>9 DEF Server
<1> QED BY <1>10, <1>11, <1>12, <1>13 DEF Next


-----------------------------------------------------------------------------
(* The patient application *)

\* Between two silences a patient application opens and then calls, or calls,
\* or closes.  The one close is alone, and the session of the address is the one
\* it names until it is removed; a call names the session of the address.
Closing == \E m \in reqs : made[m.id].kind = "close"

OneKind ==
  /\ \A m \in reqs : made[m.id].kind = "close" =>
       /\ reqs = {m} /\ cSid = None
       /\ made[m.id].sid # None /\ byRemote[1] \in {None, made[m.id].sid}
       /\ \A r \in results : r.kind = "close" /\ r.req = m.id
  /\ \A m \in reqs : made[m.id].kind = "call" =>
       made[m.id].sid # None /\ byRemote[1] = made[m.id].sid
  /\ cSid # None => byRemote[1] = cSid
  /\ byRemote[1] = None /\ ~Closing => results = {} /\ acks = {}
  /\ \A r \in results : r.kind = "open" => byRemote[1] = r.sid /\ r.code = OK

\* A call that was performed is in the ring of its session while copies of it
\* are about.
RunKnown ==
  \A c \in Req, s \in Session :
    runs[c][s] # 0 =>
      /\ runs[c][s] = 1 /\ \A t \in Session \ {s} : runs[c][t] = 0
      /\ c <= Len(made) /\ made[c].kind = "call"
      /\ \A m \in reqs : m.id = c => byRemote[1] = s /\ SeqOf(c) \in sess[s].seen

\* The requests that session s will not answer again.
Over(s) == {c \in 1 .. Len(made) : \A m \in reqs : m.id = c => SeqOf(c) \in sess[s].seen}

\* A session numbers at most one result for each of those, and one more.
Counted ==
  \A s \in Session : sess[s].state = "live" => sess[s].seq <= Cardinality(Over(s)) + 1

\* The numbers of the results under way tell them apart, and what the client
\* has noted and acknowledged, and what the server keeps, are their numbers.
Distinct ==
  /\ \A r \in results :
       /\ r.seq <= SeqMod - 2
       /\ byRemote[1] # None => r.seq <= sess[byRemote[1]].seq
  /\ \A r, q \in results : r.seq = q.seq => r.req = q.req /\ r.kind = q.kind

Noted ==
  /\ \A n \in cSeen : n = -1 \/ \E g \in got \cap results : Short(g.seq) = n
  /\ \A a \in acks : \E g \in got \cap results : g.seq = a.seq
  /\ \A s \in Session : sess[s].unacked \subseteq results

Numbered == Counted /\ Distinct /\ Noted /\ DropsOnlyDuplicates /\ ConfirmedWasReceived

PatientInv == Patient => OneKind /\ RunKnown

NumberInv == Patient => Numbered

LEMMA PatientFacts ==
  ASSUME IInv, Patient
  PROVE  /\ use.remotes = 1 /\ 1 \in Remote /\ addr = 1
         /\ \A m \in reqs : m.from = 1 /\ m.id \in Req /\ m.id \in 1 .. Len(made)
                              /\ made[m.id].kind \in Kind
                              /\ made[m.id].sid \in Session \cup {None}
         /\ \A m, n \in reqs : m.id = n.id => m = n
         /\ \A a \in acks : a.from = 1
         /\ \A s \in Session : sess[s].state = "live" => byRemote[1] = s
         /\ byRemote[1] \in Session \cup {None}
         /\ byRemote[1] # None => sess[byRemote[1]].state = "live"
         /\ None \notin Session /\ Len(made) \in Nat
<1>1. use.remotes = 1 /\ OneAddress /\ TypeInv /\ use \in Uses
  BY DEF Patient, OneAddress, IInv, TypeInv
<1>2. 1 \in Remote /\ None \notin Session
  BY <1>1, Sizes
<1>3. addr = 1 /\ Len(made) \in Nat
  BY <1>1 DEF TypeInv
<1>4. \A m \in reqs : m.from = 1 /\ m.id \in Req /\ m.id \in 1 .. Len(made)
                        /\ made[m.id].kind \in Kind
                        /\ made[m.id].sid \in Session \cup {None}
  <2> SUFFICES ASSUME NEW m \in reqs
               PROVE  m.from = 1 /\ m.id \in Req /\ m.id \in 1 .. Len(made)
                        /\ made[m.id].kind \in Kind
                        /\ made[m.id].sid \in Session \cup {None}
    OBVIOUS
  <2>1. m.id \in 1 .. Len(made)
    BY <1>1 DEF TypeInv, RequestIn
  <2> QED BY <1>1, <2>1, RequestType
<1>5. \A m, n \in reqs : m.id = n.id => m = n
  <2>1. reqs \subseteq RequestIn(Len(made))
    BY <1>1 DEF TypeInv
  <2> QED BY <1>4, <2>1 DEF RequestIn
<1>6. \A a \in acks : a.from = 1
  BY <1>1 DEF TypeInv, AckIn
<1>7. ASSUME NEW s \in Session, sess[s].state = "live"
      PROVE  byRemote[1] = s
  <2>1. byRemote[sess[s].remote] = s /\ sess[s].remote \in Remote
    BY <1>1, <1>7 DEF IInv, FoundByAddress, TypeInv, SessionObject
  <2>2. sess[s].remote = 1
    BY <1>1, <1>2, <2>1 DEF IInv, AtFirst
  <2> QED BY <2>1, <2>2
<1>8. byRemote[1] \in Session \cup {None}
  BY <1>1, <1>2 DEF TypeInv
<1>9. byRemote[1] # None => sess[byRemote[1]].state = "live"
  BY <1>1, <1>2 DEF IInv, NoStaleAddress, Live
<1> QED BY <1>1, <1>2, <1>3, <1>4, <1>5, <1>6, <1>7, <1>8, <1>9

\* Request m gets the answer r in session s: the session of the address, or a
\* new one for an open.
Answers(m, s, r) ==
  /\ s \in Session /\ r \in Result
  /\ r.req = m.id /\ r.kind = made[m.id].kind
  /\ byRemote[1] \in {s, None}
  /\ results' = results \cup {r}
  /\ \A t \in Session \ {s} : sess'[t] = sess[t]
  /\ sess'[s].seq = r.seq
  /\ byRemote[1] = s =>
       /\ SeqOf(m.id) \notin sess[s].seen
       /\ r.seq = (sess[s].seq + 1) % SeqMod
       /\ sess'[s].seen = sess[s].seen \cup {SeqOf(m.id)}
       /\ sess'[s].unacked \subseteq sess[s].unacked \cup {r}
  /\ byRemote[1] = None =>
       /\ made[m.id].kind = "open"
       /\ r.seq = 1 % SeqMod
       /\ sess'[s].seen = {} /\ sess'[s].unacked \subseteq {r}
  /\ UNCHANGED <<use, client, reqs, acks, confirmed>>

LEMMA OpenAnswers ==
  ASSUME IInv, Patient, NEW m \in reqs, RecvOpen(m)
  PROVE  \E s \in Session, r \in Result :
           /\ Answers(m, s, r) /\ byRemote'[1] = s
           /\ r.sid = s /\ r.code = OK /\ r.kind = "open"
           /\ runs' = runs /\ closes' = closes
<1>1. PICK s : s = OpenSid(m)
  OBVIOUS
<1>2. PICK ss : ss = OpenSess(m)
  OBVIOUS
<1>3. PICK r : r = OpenResult(m, OK)
  OBVIOUS
<1>4. /\ byRemote[m.from] = None => Fresh # {}
      /\ made[m.id].kind = "open" /\ ~Known(m)
      /\ sess' = Registered(ss, s, r) /\ byRemote' = [byRemote EXCEPT ![m.from] = s]
      /\ results' = results \cup {r}
      /\ UNCHANGED <<use, client, reqs, acks, confirmed>>
      /\ closes' = closes /\ runs' = runs
  BY <1>1, <1>2, <1>3 DEF RecvOpen, MappedTo, OpenSid, OpenSess, OpenResult
<1>5. /\ s \in Session /\ byRemote[m.from] \in {s, None} /\ r \in Result
      /\ ss \in [Session -> SessionObject]
  BY <1>1, <1>2, <1>3, <1>4, OpenTarget
<1>6. /\ TypeInv /\ m.from = 1 /\ 1 \in Remote /\ byRemote \in [Remote -> Session \cup {None}]
      /\ None \notin Session
  BY PatientFacts DEF IInv, TypeInv
<1>7. r = Answer(ss, s, m.id, "open", OK, s)
  BY <1>1, <1>2, <1>3 DEF OpenResult
<1>8. r.req = m.id /\ r.kind = "open" /\ r.code = OK /\ r.sid = s
      /\ r.seq = (ss[s].seq + 1) % SeqMod
  BY <1>5, <1>6, <1>7 DEF Answer, NextSeq
<1>9. /\ \A t \in Session \ {s} : sess'[t] = ss[t]
      /\ sess'[s].seq = r.seq /\ sess'[s].seen = ss[s].seen
      /\ sess'[s].unacked \subseteq ss[s].unacked \cup {r}
  BY <1>4, <1>5, <1>6, RegisteredType
<1>10. byRemote'[1] = s
  BY <1>4, <1>6
<1>11. CASE byRemote[1] = None
  <2>1. s = NewSid /\ ss = [sess EXCEPT ![s] = Blank(1)] /\ Fresh # {}
    BY <1>1, <1>2, <1>4, <1>6, <1>11 DEF OpenSid, OpenSess
  <2>2. /\ \A t \in Session \ {s} : ss[t] = sess[t]
        /\ ss[s] = Blank(1)
    BY <1>6, <2>1, NewSession DEF OnlySession
  <2>3. ss[s].seq = 0 /\ ss[s].seen = {} /\ ss[s].unacked = {}
    BY <2>2 DEF Blank
  <2>4. Answers(m, s, r)
    BY <1>4, <1>5, <1>6, <1>8, <1>9, <1>11, <2>2, <2>3 DEF Answers
  <2> QED BY <1>4, <1>5, <1>8, <1>10, <2>4
<1>12. CASE byRemote[1] # None
  <2>1. s = byRemote[1] /\ ss = Heard(m)
    BY <1>1, <1>2, <1>6, <1>12 DEF OpenSid, OpenSess
  <2>2. /\ \A t \in Session \ {s} : ss[t] = sess[t]
        /\ ss[s].seq = sess[s].seq /\ ss[s].seen = sess[s].seen \cup {SeqOf(m.id)}
        /\ ss[s].unacked = sess[s].unacked
    BY <1>6, <1>12, <2>1, HeardType DEF OnlySession
  <2>3. SeqOf(m.id) \notin sess[s].seen
    BY <1>4, <1>6, <1>12, <2>1 DEF Known
  <2>4. Answers(m, s, r)
    BY <1>4, <1>5, <1>6, <1>8, <1>9, <1>12, <2>1, <2>2, <2>3 DEF Answers
  <2> QED BY <1>4, <1>5, <1>8, <1>10, <2>4
<1> QED BY <1>11, <1>12

\* A request that names a session reaches the session of the address.
LEMMA Reached ==
  ASSUME IInv, Patient, NEW m \in reqs, CloseTarget(m) # None
  PROVE  LET s  == CloseTarget(m)
             ss == ReachSess(m)
         IN
         /\ s \in Session /\ byRemote[1] = s
         /\ ss \in [Session -> SessionObject]
         /\ \A t \in Session \ {s} : ss[t] = sess[t]
         /\ ss[s].seq = sess[s].seq /\ ss[s].seen = sess[s].seen \cup {SeqOf(m.id)}
         /\ ss[s].unacked = sess[s].unacked
<1> DEFINE s  == CloseTarget(m)
           ss == ReachSess(m)
           hs == Heard(m)
<1>1. /\ TypeInv /\ m.from = 1 /\ 1 \in Remote /\ None \notin Session
      /\ made[m.id].sid \in Session \cup {None} /\ byRemote[1] \in Session \cup {None}
  BY PatientFacts DEF IInv
<1>2. s \in Session /\ byRemote[1] = s
  <2>1. CASE byRemote[1] # None
    BY <1>1, <2>1 DEF CloseTarget
  <2>2. CASE byRemote[1] = None
    <3>1. made[m.id].sid \in Session /\ sess[made[m.id].sid].state = "live"
      BY <1>1, <2>2 DEF CloseTarget, Live
    <3>2. byRemote[1] = made[m.id].sid
      BY <3>1, PatientFacts
    <3> QED BY <1>1, <2>2, <3>1, <3>2
  <2> QED BY <2>1, <2>2
<1>3. /\ hs \in [Session -> SessionObject]
      /\ \A t \in Session \ {s} : hs[t] = sess[t]
      /\ hs[s].seq = sess[s].seq /\ hs[s].seen = sess[s].seen \cup {SeqOf(m.id)}
      /\ hs[s].unacked = sess[s].unacked
  BY <1>1, <1>2, HeardType DEF OnlySession
<1>4. ss = [hs EXCEPT ![s].remote = m.from]
  BY DEF ReachSess
<1> HIDE DEF s, ss, hs
<1>5. /\ ss \in [Session -> SessionObject]
      /\ \A t \in Session \ {s} : ss[t] = sess[t]
      /\ ss[s].seq = sess[s].seq /\ ss[s].seen = sess[s].seen \cup {SeqOf(m.id)}
      /\ ss[s].unacked = sess[s].unacked
  <2> DEFINE new == [hs[s] EXCEPT !.remote = m.from]
  <2>1. /\ new \in SessionObject /\ new.seq = sess[s].seq
        /\ new.seen = sess[s].seen \cup {SeqOf(m.id)} /\ new.unacked = sess[s].unacked
    <3>1. hs[s] \in SessionObject
      BY <1>2, <1>3
    <3> QED BY <3>1, <1>1, <1>3 DEF SessionObject
  <2>2. ss = [hs EXCEPT ![s] = new]
    BY <1>4
  <2> HIDE DEF new
  <2> QED BY <1>2, <1>3, <2>1, <2>2
<1> QED BY <1>2, <1>5 DEF s, ss

LEMMA CloseAnswers ==
  ASSUME IInv, Patient, NEW m \in reqs, RecvClose(m)
  PROVE  \E s \in Session, r \in Result :
           /\ Answers(m, s, r) /\ r.kind = "close"
           /\ byRemote[1] = s /\ byRemote'[1] = None /\ sess'[s].state = "gone"
           /\ runs' = runs /\ closes' = Closed(s)
<1>1. PICK s : s = CloseTarget(m)
  OBVIOUS
<1>2. PICK ss : ss = ReachSess(m)
  OBVIOUS
<1>3. PICK r : r = Answer(ss, s, m.id, "close", Done, made[m.id].sid)
  OBVIOUS
<1>4. PICK rs : rs = Registered(ss, s, r)
  OBVIOUS
<1>5. /\ s # None /\ made[m.id].kind = "close" /\ ~Known(m)
      /\ sess' = [rs EXCEPT ![s].state = "gone"]
      /\ byRemote' = [byRemote EXCEPT ![ss[s].remote] = None]
      /\ closes' = Closed(s) /\ results' = results \cup {r}
      /\ UNCHANGED <<use, client, reqs, acks, confirmed>> /\ runs' = runs
  BY <1>1, <1>2, <1>3, <1>4 DEF RecvClose, Removed, ReachSess
<1>6. /\ TypeInv /\ m.from = 1 /\ 1 \in Remote /\ None \notin Session
      /\ made[m.id].sid \in Session \cup {None}
      /\ byRemote \in [Remote -> Session \cup {None}]
  BY PatientFacts DEF IInv, TypeInv
<1>7. /\ s \in Session /\ byRemote[1] = s /\ ss \in [Session -> SessionObject]
      /\ \A t \in Session \ {s} : ss[t] = sess[t]
      /\ ss[s].seq = sess[s].seq /\ ss[s].seen = sess[s].seen \cup {SeqOf(m.id)}
      /\ ss[s].unacked = sess[s].unacked
  BY <1>1, <1>2, <1>5, Reached
<1>8. r \in Result
  BY <1>3, <1>6, <1>7, AnswerType DEF Kind
<1>9. ss[s].remote = m.from
  BY <1>1, <1>2, <1>5, <1>8, ReachTarget
<1>10. r.req = m.id /\ r.kind = "close" /\ r.seq = (ss[s].seq + 1) % SeqMod
  BY <1>3, <1>6, <1>7 DEF Answer, NextSeq
<1>11. /\ rs \in [Session -> SessionObject] /\ \A t \in Session \ {s} : rs[t] = ss[t]
       /\ rs[s].seq = r.seq /\ rs[s].seen = ss[s].seen
       /\ rs[s].unacked \subseteq ss[s].unacked \cup {r}
  BY <1>4, <1>6, <1>7, <1>8, RegisteredType
<1>12. /\ \A t \in Session \ {s} : sess'[t] = sess[t]
       /\ sess'[s].seq = r.seq /\ sess'[s].seen = ss[s].seen
       /\ sess'[s].unacked \subseteq ss[s].unacked \cup {r} /\ sess'[s].state = "gone"
  <2>1. OnlySession(rs, s)
    BY <1>7, <1>11 DEF OnlySession
  <2> QED BY <1>5, <1>7, <1>11, <2>1, Gone DEF OnlySession
<1>13. SeqOf(m.id) \notin sess[s].seen
  BY <1>5, <1>6, <1>7 DEF Known
<1>14. Answers(m, s, r)
  BY <1>5, <1>6, <1>7, <1>8, <1>10, <1>12, <1>13 DEF Answers
<1>15. byRemote'[1] = None
  BY <1>5, <1>6, <1>9
<1> QED BY <1>5, <1>7, <1>8, <1>10, <1>12, <1>14, <1>15

LEMMA CallAnswers ==
  ASSUME IInv, Patient, NEW m \in reqs, RecvCall(m)
  PROVE  \E s \in Session, r \in Result :
           /\ Answers(m, s, r) /\ r.kind = "call"
           /\ byRemote[1] = s /\ byRemote'[1] = s
           /\ runs' = [runs EXCEPT ![m.id][s] = @ + 1] \/ runs' = runs
           /\ closes' = closes
<1>1. PICK s : s = CloseTarget(m)
  OBVIOUS
<1>2. PICK ss : ss = ReachSess(m)
  OBVIOUS
<1>3. PICK code : code = IF Performs(s) THEN OK ELSE NoSession
  OBVIOUS
<1>4. PICK r : r = Answer(ss, s, m.id, "call", code, made[m.id].sid)
  OBVIOUS
<1>5. /\ s # None /\ made[m.id].kind = "call" /\ ~Known(m)
      /\ sess' = Registered(ss, s, r) /\ byRemote' = [byRemote EXCEPT ![m.from] = s]
      /\ runs' = [runs EXCEPT ![m.id][s] = @ + 1] \/ runs' = runs
      /\ results' = results \cup {r}
      /\ UNCHANGED <<use, client, reqs, acks, confirmed>> /\ closes' = closes
  BY <1>1, <1>2, <1>3, <1>4 DEF RecvCall, MappedTo, ReachSess, CallTarget
<1>6. /\ TypeInv /\ m.from = 1 /\ 1 \in Remote /\ None \notin Session
      /\ made[m.id].sid \in Session \cup {None}
      /\ byRemote \in [Remote -> Session \cup {None}]
  BY PatientFacts DEF IInv, TypeInv
<1>7. /\ s \in Session /\ byRemote[1] = s /\ ss \in [Session -> SessionObject]
      /\ \A t \in Session \ {s} : ss[t] = sess[t]
      /\ ss[s].seq = sess[s].seq /\ ss[s].seen = sess[s].seen \cup {SeqOf(m.id)}
      /\ ss[s].unacked = sess[s].unacked
  BY <1>1, <1>2, <1>5, Reached
<1>8. r \in Result
  BY <1>3, <1>4, <1>6, <1>7, AnswerType DEF Kind
<1>9. r.req = m.id /\ r.kind = "call" /\ r.seq = (ss[s].seq + 1) % SeqMod
  BY <1>4, <1>6, <1>7 DEF Answer, NextSeq
<1>10. /\ \A t \in Session \ {s} : sess'[t] = ss[t]
       /\ sess'[s].seq = r.seq /\ sess'[s].seen = ss[s].seen
       /\ sess'[s].unacked \subseteq ss[s].unacked \cup {r}
  <2>1. /\ \A t \in Session \ {s} : Registered(ss, s, r)[t] = ss[t]
        /\ Registered(ss, s, r)[s].seq = r.seq /\ Registered(ss, s, r)[s].seen = ss[s].seen
        /\ Registered(ss, s, r)[s].unacked \subseteq ss[s].unacked \cup {r}
    BY <1>6, <1>7, <1>8, RegisteredType
  <2>2. sess' = Registered(ss, s, r)
    BY <1>5
  <2> QED BY <2>1, <2>2
<1>11. SeqOf(m.id) \notin sess[s].seen
  BY <1>5, <1>6, <1>7 DEF Known
<1>12. Answers(m, s, r)
  BY <1>5, <1>6, <1>7, <1>8, <1>9, <1>10, <1>11 DEF Answers
<1>13. byRemote'[1] = s
  BY <1>5, <1>6
<1> QED BY <1>5, <1>7, <1>8, <1>9, <1>12, <1>13

\* What a patient application and its server never do.
LEMMA NeverPatient ==
  ASSUME IInv, Patient, OneKind
  PROVE  /\ ~Rebind
         /\ \A m \in reqs : ~RefuseOpen(m) /\ ~RefuseCallOpens(m) /\ ~RecvCallOpens(m)
         /\ \A s \in Session : ~Expire(s)
<1>1. use.remotes = 1 /\ ~use.mayRefuse /\ use.expiries = 0 /\ addr = 1
      /\ expired \in 0 .. use.expiries
  BY PatientFacts DEF Patient, IInv, TypeInv
<1>2. \A m \in reqs : ~RecvCallOpens(m)
  BY DEF OneKind, RecvCallOpens
<1> QED BY <1>1, <1>2 DEF Rebind, RefuseOpen, RefuseCallOpens, Expire

LEMMA PatientRequest ==
  ASSUME IInv, Patient, OneKind, RunKnown, SendOpen \/ SendClose \/ SendCall
  PROVE  /\ (OneKind /\ RunKnown)'
         /\ reqs # {} => reqs' # {}
<1> DEFINE n == [id |-> Len(made) + 1, from |-> 1]
<1>1. /\ addr = 1 /\ Len(made) \in Nat /\ made \in Seq([kind : Kind, sid : Session \cup {None}])
      /\ \A m \in reqs : m.id \in 1 .. Len(made)
      /\ byRemote[1] \in Session \cup {None}
      /\ use.settle /\ ~use.sessionless
  BY PatientFacts DEF IInv, TypeInv, Patient
<1>2. PICK kind \in Kind : /\ Request(kind)
                           /\ \/ SendOpen /\ kind = "open"
                              \/ SendClose /\ kind = "close"
                              \/ SendCall /\ kind = "call"
  BY DEF SendOpen, SendClose, SendCall, Kind
<1>3. /\ made' = Append(made, [kind |-> kind, sid |-> cSid])
      /\ reqs' = reqs \cup {[id |-> Len(made'), from |-> addr]}
      /\ results' = results /\ acks' = acks /\ byRemote' = byRemote /\ sess' = sess
      /\ runs' = runs /\ use' = use
  BY <1>2 DEF Request, server
<1>4. /\ Len(made') = Len(made) + 1
      /\ made'[Len(made) + 1] = [kind |-> kind, sid |-> cSid]
      /\ \A i \in 1 .. Len(made) : made'[i] = made[i]
  <2> DEFINE T == [kind : Kind, sid : Session \cup {None}]
             q == [kind |-> kind, sid |-> cSid]
  <2>1. made \in Seq(T) /\ q \in T /\ made' = Append(made, q)
    BY <1>1, <1>3 DEF IInv, TypeInv
  <2> HIDE DEF T, q
  <2>2. /\ Len(made') = Len(made) + 1 /\ made'[Len(made) + 1] = q
        /\ \A i \in 1 .. Len(made) : made'[i] = made[i]
    BY <2>1
  <2> QED BY <2>2 DEF q
<1>5. reqs' = reqs \cup {n} /\ n.id = Len(made) + 1
  BY <1>1, <1>3, <1>4
<1>6. /\ made'[n.id].kind = kind /\ made'[n.id].sid = cSid
      /\ \A m \in reqs : m.id # n.id /\ made'[m.id] = made[m.id]
  BY <1>1, <1>4, <1>5
<1> HIDE DEF n
<1>7. OneKind'
  <2>1. CASE SendOpen
    <3>1. /\ kind = "open" /\ reqs = {} /\ results = {} /\ acks = {} /\ cSid' = cSid
          /\ cSid = None
      BY <1>1, <1>2, <2>1 DEF SendOpen, SendClose, SendCall, Settled, Silent
    <3>2. /\ reqs' = {n} /\ results' = {} /\ acks' = {} /\ cSid' = None
          /\ made'[n.id].kind = "open"
      BY <1>3, <1>5, <1>6, <3>1
    <3> QED BY <3>2 DEF OneKind
  <2>2. CASE SendClose
    <3>1. /\ kind = "close" /\ reqs = {} /\ results = {} /\ acks = {} /\ cSid' = None
          /\ cSid # None
      BY <1>1, <1>2, <2>2 DEF SendOpen, SendClose, SendCall, Settled, Silent
    <3>2. /\ reqs' = {n} /\ results' = {} /\ acks' = {} /\ cSid' = None
          /\ made'[n.id].kind = "close" /\ made'[n.id].sid = cSid
          /\ byRemote'[1] = cSid /\ cSid # None
      BY <1>3, <1>5, <1>6, <3>1 DEF OneKind
    <3> QED BY <3>2 DEF OneKind
  <2>3. CASE SendCall
    <3>1. kind = "call" /\ cSid # None /\ cSid' = cSid
      BY <1>1, <1>2, <2>3 DEF SendOpen, SendClose, SendCall
    <3>2. byRemote[1] = cSid /\ \A m \in reqs : made[m.id].kind # "close"
      BY <3>1 DEF OneKind
    <3>3. \A m \in reqs' : made'[m.id].kind # "close"
      BY <1>5, <1>6, <3>1, <3>2
    <3>4. \A m \in reqs' : made'[m.id].kind = "call" =>
            made'[m.id].sid # None /\ byRemote'[1] = made'[m.id].sid
      BY <1>3, <1>5, <1>6, <3>1, <3>2 DEF OneKind
    <3>5. cSid' # None => byRemote'[1] = cSid'
      BY <1>3, <3>1, <3>2
    <3>6. byRemote'[1] # None
      BY <1>3, <3>1, <3>2
    <3>7. \A r \in results' : r.kind = "open" => byRemote'[1] = r.sid /\ r.code = OK
      BY <1>3 DEF OneKind
    <3> QED BY <3>3, <3>4, <3>5, <3>6, <3>7 DEF OneKind
  <2> QED BY <2>1, <2>2, <2>3
<1>8. RunKnown'
  <2>5. \A c \in Req : SeqOf(c)' = SeqOf(c)
    BY <1>3 DEF SeqOf, SeqMod
  <2>1. ASSUME NEW c \in Req, NEW s \in Session, runs[c][s] # 0
        PROVE  /\ runs[c][s] = 1 /\ \A t \in Session \ {s} : runs[c][t] = 0
               /\ c <= Len(made') /\ made'[c].kind = "call"
               /\ \A m \in reqs' : m.id = c => byRemote[1] = s /\ SeqOf(c) \in sess[s].seen
    <3>1. /\ runs[c][s] = 1 /\ \A t \in Session \ {s} : runs[c][t] = 0
          /\ c <= Len(made) /\ made[c].kind = "call"
          /\ \A m \in reqs : m.id = c => byRemote[1] = s /\ SeqOf(c) \in sess[s].seen
      BY <2>1 DEF RunKnown
    <3>2. c \in 1 .. Len(made)
      <4>1. c \in Int /\ c >= 1
        BY DEF Req
      <4> QED BY <1>1, <3>1, <4>1
    <3>3. c # n.id /\ made'[c] = made[c] /\ c <= Len(made')
      BY <1>1, <1>4, <1>5, <3>2
    <3> QED BY <1>5, <3>1, <3>3
  <2>2. \A c \in Req, s \in Session : runs'[c][s] # 0 =>
          /\ runs'[c][s] = 1 /\ \A t \in Session \ {s} : runs'[c][t] = 0
          /\ c <= Len(made') /\ made'[c].kind = "call"
          /\ \A m \in reqs' : m.id = c => byRemote'[1] = s /\ SeqOf(c)' \in sess'[s].seen
    <3>1. runs' = runs /\ byRemote' = byRemote /\ sess' = sess /\ use' = use
      BY <1>3
    <3> QED BY <2>1, <2>5, <3>1
  <2> QED BY <2>2 DEF RunKnown
<1> QED BY <1>5, <1>7, <1>8

LEMMA PatientResult ==
  ASSUME IInv, Patient, OneKind, RunKnown, NEW r \in results, RecvResult(r) \/ DropResult(r)
  PROVE  (OneKind /\ RunKnown)'
<1>1. /\ reqs' = reqs /\ results' = results /\ made' = made /\ byRemote' = byRemote
      /\ sess' = sess /\ runs' = runs /\ use' = use
      /\ cSid' = SidAfter(r) \/ cSid' = cSid
  BY DEF RecvResult, DropResult, server
<1>2. r.kind \in Kind
  BY DEF IInv, TypeInv, Result
<1>3. Closing => r.kind = "close" /\ cSid = None
  BY DEF OneKind, Closing
<1>4. Closing => cSid' = None
  BY <1>1, <1>3 DEF SidAfter
<1>5. cSid' # None => byRemote[1] = cSid'
  BY <1>1, <1>2 DEF OneKind, SidAfter, Kind
<1>6. Closing' = Closing
  BY <1>1 DEF Closing
<1>7. OneKind'
  BY <1>1, <1>4, <1>5, <1>6 DEF OneKind, Closing
<1>8. RunKnown'
  BY <1>1 DEF RunKnown, SeqOf, SeqMod
<1> QED BY <1>7, <1>8

\* A step that answers nothing and performs nothing.
LEMMA PatientQuiet ==
  ASSUME OneKind, RunKnown, UNCHANGED <<use, client, reqs, results, acks, byRemote, runs>>,
         \A s \in Session : sess[s].seen \subseteq sess'[s].seen
  PROVE  (OneKind /\ RunKnown)'
<1>1. /\ cSid' = cSid /\ made' = made /\ byRemote' = byRemote /\ runs' = runs
      /\ reqs' = reqs /\ results' = results /\ acks' = acks /\ use' = use
  BY DEF client
<1>2. OneKind'
  BY <1>1 DEF OneKind, Closing
<1>3. RunKnown'
  <2>1. \A c \in Req : SeqOf(c)' = SeqOf(c)
    BY <1>1 DEF SeqOf, SeqMod
  <2> QED BY <1>1, <2>1 DEF RunKnown
<1> QED BY <1>2, <1>3

LEMMA PatientDuplicate ==
  ASSUME IInv, Patient, OneKind, RunKnown, NEW m \in reqs, RecvDuplicate(m)
  PROVE  (OneKind /\ RunKnown)'
<1>1. /\ TypeInv /\ sess' = Heard(m) /\ byRemote[m.from] # None
      /\ UNCHANGED <<use, client, reqs, results, acks, byRemote, runs>>
  BY DEF IInv, RecvDuplicate, Known
<1>2. \A s \in Session : sess[s].seen \subseteq sess'[s].seen
  BY <1>1, HeardType DEF OnlySession
<1> QED BY <1>1, <1>2, PatientQuiet

LEMMA PatientAck ==
  ASSUME IInv, Patient, OneKind, RunKnown, NEW a \in acks, RecvAck(a)
  PROVE  /\ (OneKind /\ RunKnown)'
         /\ \A s \in Session : /\ sess'[s].seen = sess[s].seen /\ sess'[s].seq = sess[s].seq
                               /\ sess'[s].state = sess[s].state
                               /\ sess'[s].unacked \subseteq sess[s].unacked
<1>1. PICK b : b = byRemote[a.from]
  OBVIOUS
<1>2. PICK new : new = [sess[b] EXCEPT !.remote = a.from,
                                       !.unacked = {u \in @ : u.seq # a.seq}]
  OBVIOUS
<1>3. /\ b # None /\ sess' = [sess EXCEPT ![b].remote = a.from,
                                          ![b].unacked = {u \in @ : u.seq # a.seq}]
      /\ UNCHANGED <<use, client, reqs, results, acks, byRemote, runs>>
  BY <1>1 DEF RecvAck
<1>4. b \in Session /\ sess \in [Session -> SessionObject] /\ sess[b] \in SessionObject
  BY <1>1, <1>3, PatientFacts DEF IInv, TypeInv
<1>5. new.seen = sess[b].seen /\ new.seq = sess[b].seq /\ new.state = sess[b].state
      /\ new.unacked \subseteq sess[b].unacked
  BY <1>2, <1>4 DEF SessionObject
<1>6. sess' = [sess EXCEPT ![b] = new]
  BY <1>2, <1>3, <1>4
<1>7. \A s \in Session : /\ sess'[s].seen = sess[s].seen /\ sess'[s].seq = sess[s].seq
                         /\ sess'[s].state = sess[s].state
                         /\ sess'[s].unacked \subseteq sess[s].unacked
  BY <1>4, <1>5, <1>6
<1>8. \A s \in Session : sess[s].seen \subseteq sess'[s].seen
  BY <1>7
<1> QED BY <1>3, <1>7, <1>8, PatientQuiet

\* A request that is answered changes what was performed only if it is a call.
LEMMA RunKnownAnswered ==
  ASSUME IInv, Patient, OneKind, RunKnown, NEW m \in reqs, NEW s \in Session, NEW r \in Result,
         Answers(m, s, r), byRemote'[1] = s,
         \/ runs' = runs
         \/ /\ runs' = [runs EXCEPT ![m.id][s] = @ + 1]
            /\ made[m.id].kind = "call" /\ byRemote[1] = s
  PROVE  RunKnown'
<1>1. /\ None \notin Session /\ m.id \in Req /\ m.id <= Len(made)
      /\ \A n \in reqs : n.id = m.id => n = m
      /\ runs \in [Req -> [Session -> Nat]]
      /\ byRemote[1] \in {s, None}
      /\ use' = use /\ made' = made /\ reqs' = reqs
      /\ \A t \in Session \ {s} : sess'[t] = sess[t]
      /\ byRemote[1] = s => /\ SeqOf(m.id) \notin sess[s].seen
                            /\ sess'[s].seen = sess[s].seen \cup {SeqOf(m.id)}
  BY PatientFacts DEF Answers, client, IInv, TypeInv
<1>2. \A c \in Req : SeqOf(c)' = SeqOf(c)
  BY <1>1 DEF SeqOf, SeqMod
<1>3. ASSUME NEW c \in Req, NEW t \in Session, runs[c][t] # 0
      PROVE  /\ runs[c][t] = 1 /\ \A u \in Session \ {t} : runs[c][u] = 0
             /\ c <= Len(made) /\ made[c].kind = "call"
             /\ \A n \in reqs : n.id = c => t = s /\ SeqOf(c) \in sess'[s].seen
             /\ ~(byRemote[1] = s /\ c = m.id)
  <2>1. /\ runs[c][t] = 1 /\ \A u \in Session \ {t} : runs[c][u] = 0
        /\ c <= Len(made) /\ made[c].kind = "call"
        /\ \A n \in reqs : n.id = c => byRemote[1] = t /\ SeqOf(c) \in sess[t].seen
    BY <1>3 DEF RunKnown
  <2> QED BY <1>1, <2>1
<1>4. CASE runs' = runs
  <2>1. \A c \in Req, t \in Session : runs'[c][t] # 0 =>
          /\ runs'[c][t] = 1 /\ \A u \in Session \ {t} : runs'[c][u] = 0
          /\ c <= Len(made) /\ made[c].kind = "call"
          /\ \A n \in reqs : n.id = c => t = s /\ SeqOf(c) \in sess'[s].seen
    BY <1>3, <1>4
  <2>2. \A c \in Req, t \in Session : runs'[c][t] # 0 =>
          /\ runs'[c][t] = 1 /\ \A u \in Session \ {t} : runs'[c][u] = 0
          /\ c <= Len(made') /\ made'[c].kind = "call"
          /\ \A n \in reqs' : n.id = c => byRemote'[1] = t /\ SeqOf(c)' \in sess'[t].seen
    BY <1>1, <1>2, <2>1
  <2> QED BY <2>2 DEF RunKnown
<1>5. CASE runs' # runs
  <2>1. /\ runs' = [runs EXCEPT ![m.id][s] = @ + 1]
        /\ made[m.id].kind = "call" /\ byRemote[1] = s
    BY <1>5
  <2>2. \A t \in Session : runs[m.id][t] = 0
    BY <1>1, <1>3, <2>1
  <2>3. /\ \A c \in Req \ {m.id} : runs'[c] = runs[c]
        /\ runs'[m.id][s] = 1 /\ \A u \in Session \ {s} : runs'[m.id][u] = 0
    BY <1>1, <2>1, <2>2
  <2>4. SeqOf(m.id) \in sess'[s].seen
    BY <1>1, <2>1
  <2>5. \A c \in Req, t \in Session : runs'[c][t] # 0 =>
          /\ runs'[c][t] = 1 /\ \A u \in Session \ {t} : runs'[c][u] = 0
          /\ c <= Len(made) /\ made[c].kind = "call"
          /\ \A n \in reqs : n.id = c => t = s /\ SeqOf(c) \in sess'[s].seen
    <3> SUFFICES ASSUME NEW c \in Req, NEW t \in Session, runs'[c][t] # 0
                 PROVE  /\ runs'[c][t] = 1 /\ \A u \in Session \ {t} : runs'[c][u] = 0
                        /\ c <= Len(made) /\ made[c].kind = "call"
                        /\ \A n \in reqs : n.id = c => t = s /\ SeqOf(c) \in sess'[s].seen
      OBVIOUS
    <3>1. CASE c = m.id
      BY <1>1, <2>1, <2>3, <2>4, <3>1
    <3>2. CASE c # m.id
      <4>1. runs'[c] = runs[c] /\ runs[c][t] # 0
        BY <2>3, <3>2
      <4> QED BY <1>3, <4>1
    <3> QED BY <3>1, <3>2
  <2>6. \A c \in Req, t \in Session : runs'[c][t] # 0 =>
          /\ runs'[c][t] = 1 /\ \A u \in Session \ {t} : runs'[c][u] = 0
          /\ c <= Len(made') /\ made'[c].kind = "call"
          /\ \A n \in reqs' : n.id = c => byRemote'[1] = t /\ SeqOf(c)' \in sess'[t].seen
    BY <1>1, <1>2, <2>5
  <2> QED BY <2>6 DEF RunKnown
<1> QED BY <1>4, <1>5

LEMMA PatientOpen ==
  ASSUME IInv, Patient, OneKind, RunKnown, NEW m \in reqs, RecvOpen(m)
  PROVE  (OneKind /\ RunKnown)'
<1>1. PICK s \in Session, r \in Result :
        /\ Answers(m, s, r) /\ byRemote'[1] = s
        /\ r.sid = s /\ r.code = OK /\ r.kind = "open" /\ runs' = runs
  BY OpenAnswers
<1>2. RunKnown'
  BY <1>1, RunKnownAnswered
<1>3. /\ None \notin Session /\ byRemote[1] \in {s, None} /\ made[m.id].kind = "open"
      /\ made' = made /\ reqs' = reqs /\ cSid' = cSid /\ results' = results \cup {r}
  BY <1>1, PatientFacts DEF Answers, client
<1>4. ~Closing
  <2> SUFFICES ASSUME NEW n \in reqs, made[n.id].kind = "close" PROVE FALSE
    BY DEF Closing
  <2>1. reqs = {n}
    BY DEF OneKind
  <2> QED BY <1>3, <2>1
<1>5. \A n \in reqs : made[n.id].kind = "call" => made[n.id].sid = s
  BY <1>3, PatientFacts DEF OneKind
<1>6. cSid # None => cSid = s
  BY <1>3 DEF OneKind
<1>7. \A q \in results : q.kind = "open" => q.sid = s /\ q.code = OK
  BY <1>3, <1>4 DEF OneKind
<1>8. OneKind'
  <2>1. \A n \in reqs' : made'[n.id].kind # "close"
    BY <1>3, <1>4 DEF Closing
  <2>2. \A n \in reqs' : made'[n.id].kind = "call" =>
          made'[n.id].sid # None /\ byRemote'[1] = made'[n.id].sid
    BY <1>1, <1>3, <1>5
  <2>3. cSid' # None => byRemote'[1] = cSid'
    BY <1>1, <1>3, <1>6
  <2>4. \A q \in results' : q.kind = "open" => byRemote'[1] = q.sid /\ q.code = OK
    BY <1>1, <1>3, <1>7
  <2>5. byRemote'[1] # None
    BY <1>1, <1>3
  <2> QED BY <2>1, <2>2, <2>3, <2>4, <2>5 DEF OneKind
<1> QED BY <1>2, <1>8

LEMMA PatientCall ==
  ASSUME IInv, Patient, OneKind, RunKnown, NEW m \in reqs, RecvCall(m)
  PROVE  (OneKind /\ RunKnown)'
<1>1. PICK s \in Session, r \in Result :
        /\ Answers(m, s, r) /\ r.kind = "call" /\ byRemote[1] = s /\ byRemote'[1] = s
        /\ runs' = [runs EXCEPT ![m.id][s] = @ + 1] \/ runs' = runs
  BY CallAnswers
<1>2. /\ None \notin Session /\ made[m.id].kind = "call"
      /\ made' = made /\ reqs' = reqs /\ cSid' = cSid /\ results' = results \cup {r}
  BY <1>1, PatientFacts DEF Answers, client
<1>3. RunKnown'
  BY <1>1, <1>2, RunKnownAnswered
<1>4. ~Closing
  <2> SUFFICES ASSUME NEW n \in reqs, made[n.id].kind = "close" PROVE FALSE
    BY DEF Closing
  <2>1. reqs = {n}
    BY DEF OneKind
  <2> QED BY <1>2, <2>1
<1>5. OneKind'
  <2>1. \A n \in reqs' : made'[n.id].kind # "close"
    BY <1>2, <1>4 DEF Closing
  <2>2. \A n \in reqs' : made'[n.id].kind = "call" =>
          made'[n.id].sid # None /\ byRemote'[1] = made'[n.id].sid
    BY <1>1, <1>2 DEF OneKind
  <2>3. cSid' # None => byRemote'[1] = cSid'
    BY <1>1, <1>2 DEF OneKind
  <2>4. \A q \in results' : q.kind = "open" => byRemote'[1] = q.sid /\ q.code = OK
    BY <1>1, <1>2 DEF OneKind
  <2>5. byRemote'[1] # None
    BY <1>1, <1>2
  <2> QED BY <2>1, <2>2, <2>3, <2>4, <2>5 DEF OneKind
<1> QED BY <1>3, <1>5

LEMMA PatientClose ==
  ASSUME IInv, Patient, OneKind, RunKnown, NEW m \in reqs, RecvClose(m)
  PROVE  /\ (OneKind /\ RunKnown)'
         /\ \A s \in Session : closes'[s] > closes[s] => made[m.id].sid = s
<1>1. PICK s \in Session, r \in Result :
        /\ Answers(m, s, r) /\ r.kind = "close" /\ byRemote[1] = s /\ byRemote'[1] = None
        /\ runs' = runs /\ closes' = Closed(s)
  BY CloseAnswers
<1>2. /\ None \notin Session /\ made[m.id].kind = "close" /\ r.req = m.id
      /\ made' = made /\ reqs' = reqs /\ cSid' = cSid /\ results' = results \cup {r}
      /\ use' = use
  BY <1>1, PatientFacts DEF Answers, client
<1>3. /\ reqs = {m} /\ cSid = None /\ made[m.id].sid # None /\ made[m.id].sid = s
      /\ \A q \in results : q.kind = "close" /\ q.req = m.id
  BY <1>1, <1>2 DEF OneKind
<1>4. OneKind'
  <2>1. /\ reqs' = {m} /\ cSid' = None /\ made'[m.id].sid # None
        /\ made'[m.id].kind = "close"
        /\ \A q \in results' : q.kind = "close" /\ q.req = m.id
    BY <1>1, <1>2, <1>3
  <2>2. Closing'
    BY <2>1 DEF Closing
  <2> QED BY <1>1, <2>1, <2>2 DEF OneKind
<1>5. RunKnown'
  <2>1. \A c \in Req, t \in Session : runs[c][t] # 0 => m.id # c
    BY <1>2 DEF RunKnown
  <2>2. \A c \in Req, t \in Session : runs'[c][t] # 0 =>
          /\ runs'[c][t] = 1 /\ \A u \in Session \ {t} : runs'[c][u] = 0
          /\ c <= Len(made') /\ made'[c].kind = "call"
          /\ \A n \in reqs' : n.id # c
    BY <1>1, <1>2, <1>3, <2>1 DEF RunKnown
  <2> QED BY <2>2 DEF RunKnown
<1>6. \A t \in Session : closes'[t] > closes[t] => t = s
  <2>1. closes' = closes \/ closes' = [closes EXCEPT ![s] = @ + 1]
    BY <1>1 DEF Closed, IInv, TypeInv
  <2>2. \A t \in Session : closes[t] \in Nat
    BY DEF IInv, TypeInv
  <2>3. closes \in [Session -> Nat]
    BY DEF IInv, TypeInv
  <2> QED BY <2>1, <2>2, <2>3
<1> QED BY <1>3, <1>4, <1>5, <1>6

LEMMA PatientUnknown ==
  ASSUME IInv, Patient, OneKind, RunKnown, NEW m \in reqs, RecvUnknown(m)
  PROVE  /\ (OneKind /\ RunKnown)'
         /\ made[m.id].kind = "close" /\ byRemote[1] = None
         /\ \E r \in Result : r.seq = 0 /\ r.req = m.id /\ r.kind = "close"
                                /\ results' = results \cup {r}
<1>1. PICK r : r = Answer(sess, None, m.id, made[m.id].kind, NoSession, made[m.id].sid)
  OBVIOUS
<1>2. /\ results' = results \cup {r} /\ reqs' = reqs /\ made' = made /\ cSid' = cSid
      /\ byRemote' = byRemote /\ sess' = sess /\ runs' = runs /\ use' = use
      /\ made[m.id].kind \in {"close", "call"} /\ CloseTarget(m) = None
  BY <1>1 DEF RecvUnknown, server, client
<1>3. m.from = 1 /\ TypeInv /\ made[m.id].sid \in Session \cup {None} /\ made[m.id].kind \in Kind
  BY PatientFacts DEF IInv
<1>4. byRemote[1] = None
  BY <1>2, <1>3 DEF CloseTarget
<1>5. made[m.id].kind = "close"
  BY <1>2, <1>4 DEF OneKind
<1>6. r \in Result /\ r.seq = 0 /\ r.req = m.id /\ r.kind = "close"
  <2>1. r \in Result
    BY <1>1, <1>3, AnswerType DEF TypeInv
  <2> QED BY <1>1, <1>5, <2>1 DEF Answer, NextSeq
<1>7. /\ reqs = {m} /\ cSid = None /\ made[m.id].sid # None
      /\ \A q \in results : q.kind = "close" /\ q.req = m.id
  BY <1>5 DEF OneKind
<1>8. OneKind'
  <2>1. /\ reqs' = {m} /\ cSid' = None /\ made'[m.id].sid # None
        /\ made'[m.id].kind = "close" /\ byRemote'[1] = None
        /\ \A q \in results' : q.kind = "close" /\ q.req = m.id
    BY <1>2, <1>4, <1>5, <1>6, <1>7
  <2>2. Closing'
    BY <2>1 DEF Closing
  <2> QED BY <2>1, <2>2 DEF OneKind
<1>9. RunKnown'
  BY <1>2 DEF RunKnown, SeqOf, SeqMod
<1> QED BY <1>2, <1>4, <1>5, <1>6, <1>8, <1>9

LEMMA PatientPause ==
  ASSUME IInv, Patient, OneKind, RunKnown, Pause
  PROVE  (OneKind /\ RunKnown)'
<1>1. /\ reqs' = {} /\ results' = {} /\ acks' = {} /\ cSid' = cSid /\ byRemote' = byRemote
      /\ runs' = runs /\ made' = made
  BY DEF Pause
<1>2. OneKind'
  BY <1>1 DEF OneKind
<1>3. RunKnown'
  BY <1>1 DEF RunKnown
<1> QED BY <1>2, <1>3

LEMMA PatientStep ==
  ASSUME IInv, PatientInv, [Next]_vars
  PROVE  /\ PatientInv'
         /\ Patient => \A s \in Session :
              closes'[s] > closes[s] => \E m \in reqs : made[m.id].kind = "close" /\ made[m.id].sid = s
<1> DEFINE Named == \A s \in Session :
             closes'[s] > closes[s] => \E m \in reqs : made[m.id].kind = "close" /\ made[m.id].sid = s
           Goal  == (OneKind /\ RunKnown)' /\ Named
<1>0. Patient' = Patient
  <2>1. use' = use
    BY DEF Next, Client, Server, Pause, SendOpen, SendClose, SendCall, Request, Rebind,
       RecvResult, DropResult, RecvDuplicate, RecvOpen, RefuseOpen, RecvClose, RecvCall,
       RecvUnknown, RecvCallOpens, RefuseCallOpens, RecvAck, Expire, server, vars
  <2> QED BY <2>1 DEF Patient, OneAddress
<1> SUFFICES ASSUME Patient, OneKind, RunKnown
             PROVE  Goal
  BY <1>0 DEF PatientInv
<1>1. \A s \in Session : closes[s] \in Nat
  BY DEF IInv, TypeInv
<1>2. ASSUME closes' = closes PROVE Named
  BY <1>1, <1>2
<1> HIDE DEF Named
<1>3. CASE SendOpen \/ SendClose \/ SendCall
  <2>1. closes' = closes
    BY <1>3 DEF SendOpen, SendClose, SendCall, Request, server
  <2> QED BY <1>2, <1>3, <2>1, PatientRequest
<1>4. ASSUME NEW r \in results, RecvResult(r) \/ DropResult(r)
      PROVE  Goal
  <2>1. closes' = closes
    BY <1>4 DEF RecvResult, DropResult, server
  <2> QED BY <1>2, <1>4, <2>1, PatientResult
<1>5. ASSUME NEW m \in reqs, RecvDuplicate(m)
      PROVE  Goal
  <2>1. closes' = closes
    BY <1>5 DEF RecvDuplicate
  <2> QED BY <1>2, <1>5, <2>1, PatientDuplicate
<1>6. ASSUME NEW m \in reqs, RecvOpen(m)
      PROVE  Goal
  <2>1. closes' = closes
    BY <1>6 DEF RecvOpen
  <2> QED BY <1>2, <1>6, <2>1, PatientOpen
<1>7. ASSUME NEW m \in reqs, RecvCall(m)
      PROVE  Goal
  <2>1. closes' = closes
    BY <1>7 DEF RecvCall
  <2> QED BY <1>2, <1>7, <2>1, PatientCall
<1>8. ASSUME NEW m \in reqs, RecvClose(m)
      PROVE  Goal
  <2>1. made[m.id].kind = "close"
    BY <1>8 DEF RecvClose
  <2> QED BY <1>8, <2>1, PatientClose DEF Named
<1>9. ASSUME NEW m \in reqs, RecvUnknown(m)
      PROVE  Goal
  <2>1. closes' = closes
    BY <1>9 DEF RecvUnknown, server
  <2> QED BY <1>2, <1>9, <2>1, PatientUnknown
<1>10. ASSUME NEW a \in acks, RecvAck(a)
       PROVE  Goal
  <2>1. closes' = closes
    BY <1>10 DEF RecvAck
  <2> QED BY <1>2, <1>10, <2>1, PatientAck
<1>11. CASE Pause
  <2>1. closes' = closes
    BY <1>11 DEF Pause
  <2> QED BY <1>2, <1>11, <2>1, PatientPause
<1>12. CASE UNCHANGED vars
  <2>1. /\ UNCHANGED <<use, client, reqs, results, acks, byRemote, runs>>
        /\ sess' = sess /\ closes' = closes
    BY <1>12 DEF vars, server
  <2>2. \A s \in Session : sess[s].seen \subseteq sess'[s].seen
    BY <2>1
  <2> QED BY <1>2, <2>1, <2>2, PatientQuiet
<1>13. CASE Client
  BY <1>3, <1>4, <1>13, NeverPatient DEF Client
<1>14. CASE Server
  BY <1>5, <1>6, <1>7, <1>8, <1>9, <1>10, <1>14, NeverPatient DEF Server
<1> QED BY <1>11, <1>12, <1>13, <1>14 DEF Next

-----------------------------------------------------------------------------
(* The numbers of the results *)

\* There are more numbers than a patient application can have answered.
Ample == \A u \in Uses : u.settle => u.seqMod > MaxReq + 2

LEMMA Room ==
  ASSUME TypeInv, Patient, Ample
  PROVE  SeqMod \in Nat /\ SeqMod > MaxReq + 2 /\ MaxReq \in Nat
BY Sizes DEF TypeInv, Patient, Ample, SeqMod

\* Below the number that is the mark of an empty ring, a short tells numbers
\* apart.
LEMMA ShortApart ==
  ASSUME use \in Uses, NEW a \in Seq16, NEW b \in Seq16, a <= SeqMod - 2, b <= SeqMod - 2
  PROVE  /\ Short(a) # -1
         /\ Short(a) = Short(b) => a = b
<1> DEFINE n == SeqMod
           h == SeqMod \div 2
<1>1. n \in Nat /\ n > 0 /\ a \in Nat /\ b \in Nat
  BY Sizes DEF Seq16
<1>2. h \in Nat /\ h <= n
  <2> HIDE DEF n
  <2>1. n \div 2 \in Nat /\ n \div 2 <= n
    BY <1>1
  <2> QED BY <2>1 DEF n
<1> HIDE DEF n, h
<1>3. a <= n - 2 /\ b <= n - 2
  BY DEF n
<1>4. Short(a) = (IF a < h THEN a ELSE a - n) /\ Short(b) = (IF b < h THEN b ELSE b - n)
  BY DEF Short, n, h
<1> QED BY <1>1, <1>2, <1>3, <1>4

LEMMA CountTo ==
  ASSUME NEW n \in Nat
  PROVE  IsFiniteSet(1 .. n) /\ Cardinality(1 .. n) = n
<1>1. IsFiniteSet(1 .. n) /\ Cardinality(1 .. n) = IF 1 > n THEN 0 ELSE n - 1 + 1
  BY FS_Interval
<1> QED BY <1>1

LEMMA OverFacts ==
  ASSUME TypeInv, NEW s \in Session
  PROVE  /\ IsFiniteSet(Over(s)) /\ Cardinality(Over(s)) \in Nat
         /\ Cardinality(Over(s)) <= Len(made) /\ Len(made) \in Nat /\ Len(made) <= MaxReq
<1>1. Len(made) \in Nat /\ Len(made) <= MaxReq
  BY DEF TypeInv
<1>2. IsFiniteSet(1 .. Len(made)) /\ Cardinality(1 .. Len(made)) = Len(made)
  BY <1>1, CountTo
<1>3. Over(s) \subseteq 1 .. Len(made)
  BY DEF Over
<1>4. IsFiniteSet(Over(s)) /\ Cardinality(Over(s)) <= Cardinality(1 .. Len(made))
  BY <1>2, <1>3, FS_Subset
<1> QED BY <1>1, <1>2, <1>4, FS_CardinalityType

LEMMA OverGrows ==
  ASSUME TypeInv, TypeInv', NEW s \in Session, Over(s) \subseteq Over(s)'
  PROVE  Cardinality(Over(s)) <= Cardinality(Over(s)')
<1>1. IsFiniteSet(Over(s)')
  <2>1. Len(made') \in Nat
    BY DEF TypeInv
  <2>2. IsFiniteSet(1 .. Len(made'))
    BY <2>1, CountTo
  <2>3. Over(s)' \subseteq 1 .. Len(made')
    BY DEF Over
  <2> QED BY <2>2, <2>3, FS_Subset
<1> QED BY <1>1, FS_Subset

\* Nothing is answered: no session numbers a result.
LEMMA CountedKept ==
  ASSUME TypeInv, TypeInv', Counted,
         \A s \in Session : /\ sess'[s].state = sess[s].state /\ sess'[s].seq = sess[s].seq
                            /\ Over(s) \subseteq Over(s)'
  PROVE  Counted'
<1> SUFFICES ASSUME NEW s \in Session, sess'[s].state = "live"
             PROVE  sess'[s].seq <= Cardinality(Over(s)') + 1
  BY DEF Counted
<1>1. sess[s].state = "live" /\ sess'[s].seq = sess[s].seq
  OBVIOUS
<1>2. sess[s].seq <= Cardinality(Over(s)) + 1
  BY <1>1 DEF Counted
<1>3. sess[s].seq \in Nat
  <2>1. sess[s] \in SessionObject /\ use \in Uses
    BY DEF TypeInv
  <2> QED BY <2>1, Sizes DEF SessionObject, Seq16
<1>4. Cardinality(Over(s)) \in Nat
  BY OverFacts
<1>5. IsFiniteSet(Over(s)')
  <2>1. Len(made') \in Nat
    BY DEF TypeInv
  <2>2. IsFiniteSet(1 .. Len(made'))
    BY <2>1, CountTo
  <2>3. Over(s)' \subseteq 1 .. Len(made')
    BY DEF Over
  <2> QED BY <2>2, <2>3, FS_Subset
<1>6. Cardinality(Over(s)') \in Nat
  BY <1>5, FS_CardinalityType
<1> QED BY <1>1, <1>2, <1>3, <1>4, <1>6, OverGrows

\* An answer takes a number that none under way has, and ends its request for
\* the session.
LEMMA AnswerCounts ==
  ASSUME IInv, TypeInv', Patient, Ample, Counted,
         NEW m \in reqs, NEW s \in Session, NEW r \in Result, Answers(m, s, r)
  PROVE  /\ Counted'
         /\ r.seq \in Nat /\ r.seq <= SeqMod - 2
         /\ byRemote[1] = s => sess[s].seq \in Nat /\ r.seq = sess[s].seq + 1
         /\ byRemote[1] = None => r.seq = 1
<1>1. /\ TypeInv /\ use \in Uses /\ None \notin Session /\ m.id \in 1 .. Len(made)
      /\ \A t \in Session : sess[t].state = "live" => byRemote[1] = t
      /\ \A t \in Session : byRemote[1] = t => sess[t].state = "live"
  BY PatientFacts DEF IInv, TypeInv
<1>2. /\ use' = use /\ made' = made /\ reqs' = reqs
      /\ byRemote[1] \in {s, None}
      /\ \A t \in Session \ {s} : sess'[t] = sess[t]
      /\ sess'[s].seq = r.seq
  BY DEF Answers, client
<1>3. \A c \in Req : SeqOf(c)' = SeqOf(c)
  BY <1>2 DEF SeqOf, SeqMod
<1>4. SeqMod \in Nat /\ SeqMod > MaxReq + 2 /\ MaxReq \in Nat
  BY <1>1, Room
<1>5. Len(made) \in Nat /\ Len(made) <= MaxReq
  BY <1>1 DEF TypeInv
<1>6. /\ IsFiniteSet(Over(s)') /\ Cardinality(Over(s)') \in Nat
      /\ Cardinality(Over(s)') <= Len(made)
  <2>1. Over(s)' \subseteq 1 .. Len(made)
    BY <1>2 DEF Over
  <2>2. IsFiniteSet(1 .. Len(made)) /\ Cardinality(1 .. Len(made)) = Len(made)
    BY <1>5, CountTo
  <2>3. IsFiniteSet(Over(s)') /\ Cardinality(Over(s)') <= Len(made)
    BY <2>1, <2>2, FS_Subset
  <2> QED BY <2>3, FS_CardinalityType
<1>7. CASE byRemote[1] = None
  <2>1. r.seq = 1 % SeqMod
    BY <1>7 DEF Answers
  <2>2. r.seq = 1
    <3> DEFINE n == SeqMod
    <3>1. n \in Nat /\ n > 2 /\ r.seq = 1 % n
      BY <1>4, <2>1
    <3> HIDE DEF n
    <3> QED BY <3>1
  <2>3. \A t \in Session : sess'[t].state = "live" => t = s
    BY <1>1, <1>2, <1>7
  <2>4. sess'[s].seq <= Cardinality(Over(s)') + 1
    BY <1>2, <1>6, <2>2
  <2>5. Counted'
    BY <2>3, <2>4 DEF Counted
  <2> QED BY <1>1, <1>4, <1>7, <2>2, <2>5
<1>8. CASE byRemote[1] = s
  <2>1. /\ SeqOf(m.id) \notin sess[s].seen
        /\ r.seq = (sess[s].seq + 1) % SeqMod
        /\ sess'[s].seen = sess[s].seen \cup {SeqOf(m.id)}
    BY <1>8 DEF Answers
  <2>2. sess[s].seq \in Nat
    <3>1. sess[s] \in SessionObject
      BY <1>1 DEF TypeInv
    <3> QED BY <1>1, <3>1, Sizes DEF SessionObject, Seq16
  <2>3. sess[s].seq <= Cardinality(Over(s)) + 1
    BY <1>1, <1>8 DEF Counted
  <2>4. IsFiniteSet(Over(s)) /\ Cardinality(Over(s)) \in Nat
    BY <1>1, OverFacts
  <2>5. m.id \notin Over(s)
    BY <2>1 DEF Over
  <2>6. Over(s) \cup {m.id} \subseteq Over(s)'
    <3>1. \A c \in 1 .. Len(made) : c \in Req
      BY <1>4, <1>5 DEF Req
    <3>2. \A c \in 1 .. Len(made) :
            (\A n \in reqs : n.id = c => SeqOf(c) \in sess[s].seen) =>
              \A n \in reqs' : n.id = c => SeqOf(c)' \in sess'[s].seen
      BY <1>2, <1>3, <2>1, <3>1
    <3>3. \A n \in reqs' : n.id = m.id => SeqOf(m.id)' \in sess'[s].seen
      BY <1>1, <1>3, <2>1, <3>1
    <3> QED BY <1>1, <1>2, <3>2, <3>3 DEF Over
  <2>7. Cardinality(Over(s)) + 1 <= Cardinality(Over(s)')
    <3>1. Cardinality(Over(s) \cup {m.id}) = Cardinality(Over(s)) + 1
      BY <2>4, <2>5, FS_AddElement
    <3> QED BY <1>6, <2>6, <3>1, FS_Subset
  <2>8. r.seq = sess[s].seq + 1
    <3> DEFINE n == SeqMod
               q == sess[s].seq
    <3>1. n \in Nat /\ q \in Nat /\ q + 1 < n /\ r.seq = (q + 1) % n
      BY <1>4, <1>5, <1>6, <2>1, <2>2, <2>3, <2>4, <2>7
    <3> HIDE DEF n, q
    <3>2. (q + 1) % n = q + 1
      BY <3>1
    <3> QED BY <3>1, <3>2 DEF q
  <2>9. r.seq <= SeqMod - 2
    BY <1>4, <1>5, <1>6, <2>2, <2>3, <2>4, <2>7, <2>8
  <2>10. sess'[s].seq <= Cardinality(Over(s)') + 1
    BY <1>2, <1>6, <2>2, <2>3, <2>4, <2>7, <2>8
  <2>11. \A t \in Session : sess'[t].state = "live" => t = s
    BY <1>1, <1>2, <1>8
  <2>12. Counted'
    BY <2>10, <2>11 DEF Counted
  <2> QED BY <1>1, <1>8, <2>2, <2>8, <2>9, <2>12
<1> QED BY <1>2, <1>7, <1>8

\* The parts of Numbered that an answer and a drop do not read from the counts.
LEMMA NumberedAnswered ==
  ASSUME IInv, TypeInv', Patient, Ample, OneKind, Numbered,
         NEW m \in reqs, NEW s \in Session, NEW r \in Result,
         Answers(m, s, r), byRemote'[1] \in {s, None}
  PROVE  Numbered'
<1>1. /\ None \notin Session /\ use' = use /\ made' = made /\ acks' = acks
      /\ cSeen' = cSeen /\ got' = got /\ dropped' = dropped /\ confirmed' = confirmed
      /\ results' = results \cup {r} /\ byRemote[1] \in {s, None}
      /\ \A t \in Session \ {s} : sess'[t] = sess[t]
      /\ sess'[s].seq = r.seq
  BY PatientFacts DEF Answers, client
<1>2. /\ Counted' /\ r.seq \in Nat /\ r.seq <= SeqMod - 2
      /\ byRemote[1] = s => sess[s].seq \in Nat /\ r.seq = sess[s].seq + 1
  BY AnswerCounts DEF IInv, Numbered
<1>3. \A q \in results : q.seq \in Nat /\ q.seq < r.seq
  <2>1. CASE byRemote[1] = None
    <3>1. made[m.id].kind = "open"
      BY <2>1 DEF Answers
    <3>2. ~Closing
      BY <3>1 DEF Closing, OneKind
    <3> QED BY <2>1, <3>2 DEF OneKind
  <2>2. CASE byRemote[1] = s
    <3>1. \A q \in results : q.seq <= sess[s].seq
      BY <1>1, <2>2 DEF Numbered, Distinct
    <3>2. \A q \in results : q.seq \in Nat
      BY Sizes DEF IInv, TypeInv, Result, Seq16
    <3> QED BY <1>2, <2>2, <3>1, <3>2
  <2> QED BY <1>1, <2>1, <2>2
<1>4. Distinct'
  <2>1. SeqMod' = SeqMod
    BY <1>1 DEF SeqMod
  <2>2. \A q \in results' : q.seq <= SeqMod' - 2
    BY <1>1, <1>2, <2>1 DEF Numbered, Distinct
  <2>3. \A q \in results' : q.seq <= sess'[s].seq
    BY <1>1, <1>2, <1>3
  <2>4. \A p, q \in results' : p.seq = q.seq => p.req = q.req /\ p.kind = q.kind
    <3>1. \A p, q \in results : p.seq = q.seq => p.req = q.req /\ p.kind = q.kind
      BY DEF Numbered, Distinct
    <3>2. \A q \in results : q.seq # r.seq
      BY <1>2, <1>3
    <3>3. results' = results \cup {r}
      BY <1>1
    <3> QED BY <3>1, <3>2, <3>3
  <2> QED BY <2>2, <2>3, <2>4 DEF Distinct
<1>5. Noted'
  <2>1. \A n \in cSeen' : n = -1 \/ \E g \in got' \cap results' : Short(g.seq)' = n
    <3>1. \A n \in cSeen : n = -1 \/ \E g \in got \cap results : Short(g.seq) = n
      BY DEF Numbered, Noted
    <3>2. \A g : Short(g.seq)' = Short(g.seq)
      BY <1>1 DEF Short, SeqMod
    <3> QED BY <1>1, <3>1, <3>2
  <2>2. \A a \in acks' : \E g \in got' \cap results' : g.seq = a.seq
    BY <1>1 DEF Numbered, Noted
  <2>3. \A t \in Session : sess'[t].unacked \subseteq results'
    <3>1. \A t \in Session : sess[t].unacked \subseteq results
      BY DEF Numbered, Noted
    <3>2. sess'[s].unacked \subseteq sess[s].unacked \cup {r}
      BY <1>1 DEF Answers
    <3> QED BY <1>1, <3>1, <3>2
  <2> QED BY <2>1, <2>2, <2>3 DEF Noted
<1>6. DropsOnlyDuplicates' /\ ConfirmedWasReceived'
  BY <1>1 DEF Numbered, DropsOnlyDuplicates, ConfirmedWasReceived
<1> QED BY <1>2, <1>4, <1>5, <1>6 DEF Numbered

\* Neither the client nor the server hands on or takes in a result.
LEMMA NumberedKept ==
  ASSUME TypeInv, TypeInv', Patient, Numbered,
         UNCHANGED <<use, cSeen, got, dropped, results, acks, byRemote, confirmed>>,
         \A s \in Session : /\ sess'[s].state = sess[s].state /\ sess'[s].seq = sess[s].seq
                            /\ sess'[s].unacked \subseteq sess[s].unacked
                            /\ Over(s) \subseteq Over(s)'
  PROVE  Numbered'
<1>1. SeqMod' = SeqMod /\ \A g : Short(g.seq)' = Short(g.seq)
  BY DEF SeqMod, Short
<1>2. Counted'
  BY CountedKept DEF Numbered
<1>3. Distinct'
  <2>1. byRemote[1] # None => byRemote[1] \in Session
    BY Sizes DEF TypeInv, Remote, Patient, OneAddress
  <2>2. byRemote[1] # None => sess'[byRemote[1]].seq = sess[byRemote[1]].seq
    BY <2>1
  <2>3. \A r \in results' : /\ r.seq <= SeqMod' - 2
                            /\ byRemote'[1] # None => r.seq <= sess'[byRemote'[1]].seq
    BY <1>1, <2>2 DEF Numbered, Distinct
  <2>4. \A p, q \in results' : p.seq = q.seq => p.req = q.req /\ p.kind = q.kind
    BY DEF Numbered, Distinct
  <2> QED BY <2>3, <2>4 DEF Distinct
<1>4. Noted'
  <2>1. \A n \in cSeen' : n = -1 \/ \E g \in got' \cap results' : Short(g.seq)' = n
    BY <1>1 DEF Numbered, Noted
  <2>2. \A a \in acks' : \E g \in got' \cap results' : g.seq = a.seq
    BY DEF Numbered, Noted
  <2>3. \A t \in Session : sess'[t].unacked \subseteq results'
    BY DEF Numbered, Noted
  <2> QED BY <2>1, <2>2, <2>3 DEF Noted
<1>5. DropsOnlyDuplicates' /\ ConfirmedWasReceived'
  BY DEF Numbered, DropsOnlyDuplicates, ConfirmedWasReceived, Patient, OneAddress
<1> QED BY <1>2, <1>3, <1>4, <1>5 DEF Numbered

\* Over grows when the rings do and no request is made.
LEMMA OverSeen ==
  ASSUME TypeInv, UNCHANGED <<use, made, reqs>>, NEW s \in Session,
         sess[s].seen \subseteq sess'[s].seen
  PROVE  Over(s) \subseteq Over(s)'
<1>1. \A c \in 1 .. Len(made) : SeqOf(c)' = SeqOf(c)
  BY DEF SeqOf, SeqMod
<1> QED BY <1>1 DEF Over

LEMMA NumberedRequest ==
  ASSUME IInv, TypeInv', Patient, Numbered, SendOpen \/ SendClose \/ SendCall
  PROVE  Numbered'
<1>1. PICK kind : Request(kind)
  BY DEF SendOpen, SendClose, SendCall
<1>2. /\ UNCHANGED <<use, cSeen, got, dropped, results, acks, byRemote, confirmed>>
      /\ sess' = sess /\ made' = Append(made, [kind |-> kind, sid |-> cSid])
      /\ reqs' = reqs \cup {[id |-> Len(made'), from |-> addr]}
  BY <1>1 DEF Request, server
<1>3. /\ TypeInv /\ made \in Seq([kind : Kind, sid : Session \cup {None}]) /\ Len(made) \in Nat
  BY DEF IInv, TypeInv
<1>4. Len(made') = Len(made) + 1
  <2> DEFINE q == [kind |-> kind, sid |-> cSid]
             T == [kind : Kind, sid : Session \cup {None}]
  <2>1. made' = Append(made, q) /\ made \in Seq(T)
    BY <1>2, <1>3
  <2> HIDE DEF q, T
  <2> QED BY <2>1
<1>5. \A c \in 1 .. Len(made) : /\ c \in 1 .. Len(made') /\ SeqOf(c)' = SeqOf(c)
                                /\ \A m \in reqs' : m.id = c => m \in reqs
  BY <1>2, <1>3, <1>4 DEF SeqOf, SeqMod
<1>6. \A s \in Session : Over(s) \subseteq Over(s)'
  BY <1>2, <1>5 DEF Over
<1> QED BY <1>2, <1>3, <1>6, NumberedKept

LEMMA NumberedReceived ==
  ASSUME IInv, TypeInv', Patient, Ample, Numbered, NEW r \in results,
         RecvResult(r) \/ DropResult(r)
  PROVE  Numbered'
<1>1. /\ UNCHANGED <<use, made, results, reqs, byRemote, sess, confirmed>>
      /\ acks' = AckResult(r)
      /\ got \subseteq got' /\ dropped \subseteq dropped'
  BY DEF RecvResult, DropResult, server
<1>2. /\ TypeInv /\ use \in Uses /\ \A q \in results : q.seq \in Seq16 /\ q.seq <= SeqMod - 2
  BY DEF IInv, TypeInv, Numbered, Distinct, Result
<1>3. SeqMod' = SeqMod /\ \A g : Short(g.seq)' = Short(g.seq)
  BY <1>1 DEF SeqMod, Short
<1>4. Counted'
  <2>1. \A s \in Session : Over(s) \subseteq Over(s)'
    BY <1>1, <1>2, OverSeen
  <2> QED BY <1>1, <1>2, <2>1, CountedKept DEF Numbered
<1>5. Distinct'
  BY <1>1, <1>3 DEF Numbered, Distinct
<1>6. PICK g \in got' \cap results : g.seq = r.seq /\ g.req = r.req /\ g.kind = r.kind
  <2>1. CASE RecvResult(r)
    BY <2>1 DEF RecvResult
  <2>2. CASE DropResult(r)
    <3>1. Short(r.seq) \in cSeen
      BY <2>2 DEF DropResult
    <3>2. Short(r.seq) # -1
      BY <1>2, ShortApart
    <3>3. PICK h \in got \cap results : Short(h.seq) = Short(r.seq)
      BY <3>1, <3>2 DEF Numbered, Noted
    <3>4. h.seq = r.seq
      BY <1>2, <3>3, ShortApart
    <3>5. h.req = r.req /\ h.kind = r.kind
      BY <3>3, <3>4 DEF Numbered, Distinct
    <3> QED BY <1>1, <3>3, <3>4, <3>5
  <2> QED BY <2>1, <2>2
<1>7. Noted'
  <2>1. \A n \in cSeen' : n = -1 \/ \E h \in got' \cap results' : Short(h.seq)' = n
    <3>1. cSeen' \subseteq cSeen \cup {Short(r.seq)}
      BY DEF RecvResult, DropResult
    <3>2. \A n \in cSeen : n = -1 \/ \E h \in got \cap results : Short(h.seq) = n
      BY DEF Numbered, Noted
    <3> QED BY <1>1, <1>3, <1>6, <3>1, <3>2
  <2>2. \A a \in acks' : \E h \in got' \cap results' : h.seq = a.seq
    <3>1. \A a \in acks : \E h \in got \cap results : h.seq = a.seq
      BY DEF Numbered, Noted
    <3>2. \A a \in acks' : a \in acks \/ a.seq = r.seq
      BY <1>1 DEF AckResult
    <3> QED BY <1>1, <1>6, <3>1, <3>2
  <2>3. \A t \in Session : sess'[t].unacked \subseteq results'
    BY <1>1 DEF Numbered, Noted
  <2> QED BY <2>1, <2>2, <2>3 DEF Noted
<1>8. DropsOnlyDuplicates'
  <2>1. \A d \in dropped' : d \in dropped \/ d = r
    BY DEF RecvResult, DropResult
  <2>2. \A d \in dropped : \E h \in got : h.req = d.req /\ h.kind = d.kind
    BY DEF Numbered, DropsOnlyDuplicates
  <2> QED BY <1>1, <1>6, <2>1, <2>2 DEF DropsOnlyDuplicates
<1>9. ConfirmedWasReceived'
  BY <1>1 DEF Numbered, ConfirmedWasReceived
<1> QED BY <1>4, <1>5, <1>7, <1>8, <1>9 DEF Numbered

LEMMA NumberedAck ==
  ASSUME IInv, TypeInv', Patient, OneKind, RunKnown, Numbered, NEW a \in acks, RecvAck(a)
  PROVE  Numbered'
<1>1. PICK s : s = byRemote[a.from]
  OBVIOUS
<1>2. /\ s \in Session /\ confirmed' = confirmed \cup {u \in sess[s].unacked : u.seq = a.seq}
      /\ UNCHANGED <<use, made, reqs, cSeen, got, dropped, results, acks, byRemote>>
      /\ TypeInv
  BY <1>1, PatientFacts DEF RecvAck, client, IInv
<1>3. \A t \in Session : /\ sess'[t].seen = sess[t].seen /\ sess'[t].seq = sess[t].seq
                         /\ sess'[t].state = sess[t].state
                         /\ sess'[t].unacked \subseteq sess[t].unacked
  BY PatientAck
<1>4. \A t \in Session : Over(t) \subseteq Over(t)'
  BY <1>2, <1>3, OverSeen
<1>5. Counted'
  BY <1>2, <1>3, <1>4, CountedKept DEF Numbered
<1>6. SeqMod' = SeqMod /\ \A g : Short(g.seq)' = Short(g.seq)
  BY <1>2 DEF SeqMod, Short
<1>7. Distinct'
  <2>1. byRemote[1] # None => sess'[byRemote[1]].seq = sess[byRemote[1]].seq
    BY <1>3, PatientFacts
  <2>2. \A r \in results' : /\ r.seq <= SeqMod' - 2
                            /\ byRemote'[1] # None => r.seq <= sess'[byRemote'[1]].seq
    BY <1>2, <1>6, <2>1 DEF Numbered, Distinct
  <2>3. \A p, q \in results' : p.seq = q.seq => p.req = q.req /\ p.kind = q.kind
    BY <1>2 DEF Numbered, Distinct
  <2> QED BY <2>2, <2>3 DEF Distinct
<1>8. Noted'
  <2>1. \A n \in cSeen' : n = -1 \/ \E g \in got' \cap results' : Short(g.seq)' = n
    BY <1>2, <1>6 DEF Numbered, Noted
  <2>2. \A b \in acks' : \E g \in got' \cap results' : g.seq = b.seq
    BY <1>2 DEF Numbered, Noted
  <2>3. \A t \in Session : sess'[t].unacked \subseteq results'
    BY <1>2, <1>3 DEF Numbered, Noted
  <2> QED BY <2>1, <2>2, <2>3 DEF Noted
<1>9. ConfirmedWasReceived'
  <2>1. \A u \in confirmed : \E g \in got : g.req = u.req /\ g.kind = u.kind
    BY DEF Numbered, ConfirmedWasReceived
  <2>2. PICK g \in got \cap results : g.seq = a.seq
    BY DEF Numbered, Noted
  <2>3. \A u \in sess[s].unacked : u.seq = a.seq => g.req = u.req /\ g.kind = u.kind
    <3>1. \A u \in sess[s].unacked : u \in results
      BY <1>2 DEF Numbered, Noted
    <3> QED BY <2>2, <3>1 DEF Numbered, Distinct
  <2>4. \A u \in confirmed' : \E h \in got : h.req = u.req /\ h.kind = u.kind
    BY <1>2, <2>1, <2>2, <2>3
  <2> QED BY <1>2, <2>4 DEF ConfirmedWasReceived
<1>10. DropsOnlyDuplicates'
  BY <1>2 DEF Numbered, DropsOnlyDuplicates
<1> QED BY <1>5, <1>7, <1>8, <1>9, <1>10 DEF Numbered

LEMMA NumberedDuplicate ==
  ASSUME IInv, TypeInv', Patient, Numbered, NEW m \in reqs, RecvDuplicate(m)
  PROVE  Numbered'
<1>1. /\ TypeInv /\ sess' = Heard(m) /\ byRemote[m.from] # None
      /\ UNCHANGED <<use, made, cSeen, got, dropped, reqs, results, acks, byRemote, confirmed>>
  BY DEF IInv, RecvDuplicate, Known, client
<1>2. PICK s \in Session :
        /\ \A t \in Session \ {s} : sess'[t] = sess[t]
        /\ sess'[s].state = sess[s].state /\ sess'[s].seq = sess[s].seq
        /\ sess[s].seen \subseteq sess'[s].seen /\ sess'[s].unacked = sess[s].unacked
  BY <1>1, HeardType DEF OnlySession
<1>3. \A t \in Session : Over(t) \subseteq Over(t)'
  BY <1>1, <1>2, OverSeen
<1> QED BY <1>1, <1>2, <1>3, NumberedKept

\* The answer to a close for a session that is not there has number 0, as have
\* only answers to the same close.
LEMMA NumberedUnknown ==
  ASSUME IInv, TypeInv', Patient, Ample, OneKind, RunKnown, Numbered, NEW m \in reqs,
         RecvUnknown(m)
  PROVE  Numbered'
<1>1. /\ UNCHANGED <<use, made, reqs, cSeen, got, dropped, acks, byRemote, sess, confirmed>>
      /\ TypeInv
  BY DEF RecvUnknown, server, client, IInv
<1>2. /\ made[m.id].kind = "close" /\ byRemote[1] = None
  BY PatientUnknown
<1>3. PICK r \in Result : /\ r.seq = 0 /\ r.req = m.id /\ r.kind = "close"
                          /\ results' = results \cup {r}
  BY PatientUnknown
<1>4. \A q \in results : q.kind = "close" /\ q.req = m.id
  BY <1>2 DEF OneKind
<1>5. SeqMod \in Nat /\ SeqMod > MaxReq + 2 /\ MaxReq \in Nat
  BY <1>1, Room
<1>6. SeqMod' = SeqMod /\ \A g : Short(g.seq)' = Short(g.seq)
  BY <1>1 DEF SeqMod, Short
<1>7. Counted'
  <2>1. \A s \in Session : Over(s) \subseteq Over(s)'
    BY <1>1, OverSeen
  <2> QED BY <1>1, <2>1, CountedKept DEF Numbered
<1>8. Distinct'
  <2>1. \A q \in results' : q.seq <= SeqMod' - 2
    BY <1>3, <1>5, <1>6 DEF Numbered, Distinct
  <2>2. \A p, q \in results' : p.req = q.req /\ p.kind = q.kind
    BY <1>3, <1>4
  <2> QED BY <1>1, <1>2, <2>1, <2>2 DEF Distinct
<1>9. Noted'
  <2>1. \A n \in cSeen' : n = -1 \/ \E g \in got' \cap results' : Short(g.seq)' = n
    BY <1>1, <1>3, <1>6 DEF Numbered, Noted
  <2>2. \A a \in acks' : \E g \in got' \cap results' : g.seq = a.seq
    BY <1>1, <1>3 DEF Numbered, Noted
  <2>3. \A t \in Session : sess'[t].unacked \subseteq results'
    BY <1>1, <1>3 DEF Numbered, Noted
  <2> QED BY <2>1, <2>2, <2>3 DEF Noted
<1>10. DropsOnlyDuplicates' /\ ConfirmedWasReceived'
  BY <1>1 DEF Numbered, DropsOnlyDuplicates, ConfirmedWasReceived
<1> QED BY <1>7, <1>8, <1>9, <1>10 DEF Numbered

LEMMA NumberedPause ==
  ASSUME IInv, TypeInv', Patient, Numbered, Pause
  PROVE  Numbered'
<1>1. /\ UNCHANGED <<use, made, got, dropped, byRemote, confirmed>>
      /\ reqs' = {} /\ results' = {} /\ acks' = {} /\ cSeen' = {-1}
      /\ TypeInv /\ sess \in [Session -> SessionObject]
  BY DEF Pause, EmptyRing, IInv, TypeInv
<1>2. \A s \in Session : sess'[s] = [sess[s] EXCEPT !.seen = {}, !.unacked = {}]
  BY DEF Pause
<1>3. \A s \in Session : /\ sess'[s].state = sess[s].state /\ sess'[s].seq = sess[s].seq
                         /\ sess'[s].unacked = {}
  BY <1>1, <1>2 DEF SessionObject
<1>4. \A s \in Session : Over(s) \subseteq Over(s)'
  BY <1>1 DEF Over
<1>5. Counted'
  BY <1>1, <1>3, <1>4, CountedKept DEF Numbered
<1>6. Distinct' /\ Noted'
  BY <1>1, <1>3 DEF Distinct, Noted
<1>7. DropsOnlyDuplicates' /\ ConfirmedWasReceived'
  BY <1>1 DEF Numbered, DropsOnlyDuplicates, ConfirmedWasReceived
<1> QED BY <1>5, <1>6, <1>7 DEF Numbered

LEMMA NumberStep ==
  ASSUME Ample, IInv, PatientInv, NumberInv, [Next]_vars
  PROVE  NumberInv'
<1>1. TypeInv'
  BY Step DEF IInv
<1>2. Patient' = Patient
  <2>1. use' = use
    BY DEF Next, Client, Server, Pause, SendOpen, SendClose, SendCall, Request, Rebind,
       RecvResult, DropResult, RecvDuplicate, RecvOpen, RefuseOpen, RecvClose, RecvCall,
       RecvUnknown, RecvCallOpens, RefuseCallOpens, RecvAck, Expire, server, vars
  <2> QED BY <2>1 DEF Patient, OneAddress
<1> SUFFICES ASSUME Patient, OneKind, RunKnown, Numbered
             PROVE  Numbered'
  BY <1>2 DEF PatientInv, NumberInv
<1>3. ASSUME NEW m \in reqs, NEW s \in Session, NEW r \in Result,
             Answers(m, s, r), byRemote'[1] \in {s, None}
      PROVE  Numbered'
  BY <1>1, <1>3, NumberedAnswered
<1>4. ASSUME NEW m \in reqs, RecvOpen(m) PROVE Numbered'
  BY <1>3, <1>4, OpenAnswers
<1>5. ASSUME NEW m \in reqs, RecvClose(m) PROVE Numbered'
  BY <1>3, <1>5, CloseAnswers
<1>6. ASSUME NEW m \in reqs, RecvCall(m) PROVE Numbered'
  BY <1>3, <1>6, CallAnswers
<1>7. ASSUME NEW m \in reqs, RecvDuplicate(m) \/ RecvUnknown(m) PROVE Numbered'
  BY <1>1, <1>7, NumberedDuplicate, NumberedUnknown
<1>8. ASSUME NEW a \in acks, RecvAck(a) PROVE Numbered'
  BY <1>1, <1>8, NumberedAck
<1>9. ASSUME NEW r \in results, RecvResult(r) \/ DropResult(r) PROVE Numbered'
  BY <1>1, <1>9, NumberedReceived
<1>10. CASE SendOpen \/ SendClose \/ SendCall
  BY <1>1, <1>10, NumberedRequest
<1>11. CASE Pause
  BY <1>1, <1>11, NumberedPause
<1>12. CASE UNCHANGED vars
  <2>1. /\ UNCHANGED <<use, made, cSeen, got, dropped, reqs, results, acks, byRemote, confirmed>>
        /\ sess' = sess /\ TypeInv
    BY <1>12 DEF vars, server, client, IInv
  <2>2. \A s \in Session : Over(s) \subseteq Over(s)'
    BY <2>1, OverSeen
  <2> QED BY <1>1, <2>1, <2>2, NumberedKept
<1>13. CASE Client
  BY <1>9, <1>10, <1>13, NeverPatient DEF Client
<1>14. CASE Server
  BY <1>4, <1>5, <1>6, <1>7, <1>8, <1>14, NeverPatient DEF Server
<1> QED BY <1>11, <1>12, <1>13, <1>14 DEF Next

LEMMA PatientStart ==
  ASSUME Init
  PROVE  PatientInv /\ NumberInv
<1>1. OneKind
  BY DEF Init, OneKind, None, Closing
<1>2. RunKnown
  BY DEF Init, RunKnown
<1>3. Numbered
  <2>1. \A s \in Session : sess[s].state # "live" /\ sess[s].unacked = {}
    BY DEF Init, Unused, Blank
  <2> QED BY <2>1 DEF Init, Numbered, Counted, Distinct, Noted, EmptyRing,
        DropsOnlyDuplicates, ConfirmedWasReceived
<1> QED BY <1>1, <1>2, <1>3 DEF PatientInv, NumberInv

-----------------------------------------------------------------------------
\* The inductive invariant holds always.
THEOREM SessionInvariant == Spec => []IInv
<1>1. Init => IInv
  BY InitInv
<1>2. IInv /\ [Next]_vars => IInv'
  BY Step
<1> QED BY <1>1, <1>2, PTL DEF Spec

\* Every variable has its type: the session objects, the address map, the
\* datagrams under way and what the client keeps (CGCApp.cpp:3026-3290).
THEOREM SessionTypeCorrect == Spec => []TypeOK
<1>1. IInv => TypeOK
  <2> SUFFICES ASSUME IInv PROVE TypeOK
    OBVIOUS
  <2>1. TypeInv /\ use \in Uses
    BY DEF IInv, TypeInv
  <2>2. 1 .. use.remotes \subseteq Remote
    BY <2>1, Sizes
  <2>3. /\ addr \in Remote /\ reqs \subseteq [id : 1 .. Len(made), from : Remote]
        /\ acks \subseteq [seq : Seq16, from : Remote]
    BY <2>1, <2>2 DEF TypeInv, RequestIn, AckIn
  <2>4. \A s \in Session :
          /\ sess[s].state \in {"none", "live", "gone"} /\ sess[s].remote \in Remote
          /\ sess[s].seq \in Seq16 /\ sess[s].seen \subseteq Seq16
          /\ sess[s].unacked \subseteq Result
    BY <2>1 DEF TypeInv, SessionObject
  <2>5. UNION {got, dropped, results, confirmed} \subseteq Result
    BY <2>1 DEF TypeInv
  <2> QED BY <2>1, <2>3, <2>4, <2>5 DEF TypeInv, TypeOK
<1> QED BY <1>1, SessionInvariant, PTL

\* A registered session is found by its present address, and while the client
\* keeps its address no address leads to a session that was removed
\* (SetSessionImpl and RemoveSessionImpl, SessionMgr.cpp).
THEOREM SessionAddressesLead == Spec => []AddressesLead
<1>1. IInv => AddressesLead
  BY DEF IInv, AddressesLead
<1> QED BY <1>1, SessionInvariant, PTL

\* A module sees the open and the close callback of a session in turn, however
\* requests are repeated, refused, cross a close or follow an expiry
\* (OpenSessionsEvent and closeSessions of CSessionImpl).
THEOREM SessionCallbacksPaired == Spec => []CallbacksPaired
<1>1. IInv => CallbacksPaired
  BY DEF IInv
<1> QED BY <1>1, SessionInvariant, PTL

\* A call is performed only between the two callbacks of its session: the
\* module list that ProcAppProto asks is filled by the one and emptied by the
\* other.
THEOREM SessionRunsBetween == Spec => RunsBetweenCallbacks
<1>1. IInv /\ [Next]_vars => [RunsInside]_vars
  BY Step
<1> QED BY <1>1, SessionInvariant, PTL DEF Spec, RunsBetweenCallbacks, RunsInside

\* A patient application's requests, and the rings that keep its calls from
\* being performed again, stay as PatientInv says.
THEOREM SessionPatience == Spec => [](IInv /\ PatientInv)
<1>1. Init => PatientInv
  BY PatientStart
<1>2. IInv /\ PatientInv /\ [Next]_vars => PatientInv'
  BY PatientStep
<1> QED BY <1>1, <1>2, SessionInvariant, PTL DEF Spec

\* However often a call of a patient application is resent, repeated or
\* overtaken, it is performed once and in one session: the ring that
\* ProcessDuplationSeq keeps has its number while copies of it are about, and
\* the session that keeps it is the one they reach.
THEOREM SessionRunOnce == Spec => []RunOnce
<1>1. IInv /\ PatientInv => RunOnce
  <2> SUFFICES ASSUME IInv, Patient, RunKnown, NEW c \in Req, NEW s \in Session,
                      NEW t \in Session, runs[c][s] > 0
               PROVE  runs[c][s] = 1 /\ (runs[c][t] > 0 => s = t)
    BY DEF RunOnce, PatientInv
  <2>1. runs[c][s] \in Nat /\ runs[c][s] # 0
    BY DEF IInv, TypeInv
  <2>2. runs[c][s] = 1 /\ \A u \in Session \ {s} : runs[c][u] = 0
    BY <2>1 DEF RunKnown
  <2> QED BY <2>2
<1> QED BY <1>1, SessionPatience, PTL

\* While requests of a patient application are about, a session is closed only
\* by a close that names it, although ProcSesProto takes the session of the
\* address and never compares it with the id of the request (CGCApp.cpp:3254).
THEOREM SessionClosesTheNamed == Spec => ClosesTheNamed
<1> DEFINE A == \A s \in Session :
                  Patient /\ closes'[s] > closes[s] /\ reqs # {} =>
                    \E m \in reqs : made[m.id].kind = "close" /\ made[m.id].sid = s
<1>1. IInv /\ PatientInv /\ [Next]_vars => [A]_vars
  BY PatientStep
<1> QED BY <1>1, SessionPatience, PTL DEF Spec, ClosesTheNamed

\* With more numbers than requests (there are 65536, of which the client takes
\* the last for the mark of an empty ring), a patient application loses no
\* answer to the duplicate check of parseData, a result that the server stops
\* resending has reached it, and the session id it holds is of a session the
\* server has.
THEOREM SessionInStep ==
  ASSUME Ample
  PROVE  Spec => []InStep
<1>1. Init => NumberInv
  BY PatientStart
<1>2. IInv /\ PatientInv /\ NumberInv /\ [Next]_vars => NumberInv'
  BY NumberStep
<1>3. IInv /\ PatientInv /\ NumberInv => InStep
  <2> SUFFICES ASSUME IInv, PatientInv, NumberInv PROVE InStep
    OBVIOUS
  <2>1. NoAnswerLost
    BY DEF NumberInv, Numbered, NoAnswerLost
  <2>2. ConfirmedWasReceived
    BY DEF NumberInv, Numbered, ConfirmedWasReceived
  <2>3. SidIsLive
    <3> SUFFICES ASSUME Patient, cSid # None PROVE Live(cSid)
      BY DEF SidIsLive
    <3>1. byRemote[1] = cSid
      BY DEF PatientInv, OneKind
    <3> QED BY <3>1, PatientFacts DEF Live
  <2> QED BY <2>1, <2>2, <2>3 DEF InStep
<1> QED BY <1>1, <1>2, <1>3, SessionPatience, PTL DEF Spec
=============================================================================
