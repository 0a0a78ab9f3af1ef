--------------------------- MODULE RtpRoomProofs ---------------------------
(***************************************************************************)
(* Theorems about RtpRoom: its type invariant, that the application        *)
(* decides who takes part, and that in an orderly use its list of sources  *)
(* is the server's, for any number of clients, threads and objects.        *)
(***************************************************************************)
EXTENDS RtpRoom, TLAPS

\* Object o is, or may yet become, the source of client c: a room has it as
\* such, or a thread works on it for c.
Owns(h, w, c, o) ==
  \/ \E r \in Room : h.members[r][c] = o
  \/ \E t \in Thread : w[t].src = o /\ w[t].msg.of = c

OneOwner(h, w) ==
  \A o \in Obj : \A c, d \in Client : Owns(h, w, c, o) /\ Owns(h, w, d, o) => c = d

\* What an owned object has, the application has agreed to for its owner.
Agreed(h, w, g) ==
  \A o \in Obj, c \in Client : Owns(h, w, c, o) =>
    /\ h.obj[o].remote # None => <<c, h.obj[o].remote>> \in g
    /\ \A d \in h.obj[o].sinks : <<c, d>> \in g

\* What nobody points at is as new.
Cleared(h, w) ==
  /\ \A r \in Room \ LiveRoom(h, w) : h.members[r] = Nothing
  /\ \A o \in Obj \ LiveObj(h, w) : h.obj[o] = NoSource

\* Where a thread is, it has what its next step works on, and the consent
\* that step relies on.
InPlace(p, g) ==
  /\ p.at # "Idle" => p.msg \in Datagram /\ p.ses \in Ses
  /\ p.at \notin {"Idle", "Room", "MakeRoom"} => p.room \in Room
  /\ p.at \in {"Address", "ReAddress", "Touch", "AddSink"} => p.src \in Obj
  /\ p.at \in {"MakeRoom", "MakeSource", "Address", "ReAddress"} =>
       <<p.msg.of, p.msg.from>> \in g
  /\ p.at = "Source" /\ ~p.cb => <<p.msg.of, p.msg.from>> \in g
  /\ p.at = "AddSink" => <<p.msg.of, p.msg.dest>> \in g

Good(h, w, g) ==
  /\ h \in Tables /\ w \in [Thread -> Work]
  /\ OneOwner(h, w) /\ Agreed(h, w, g) /\ Cleared(h, w)
  /\ \A t \in Thread : InPlace(w[t], g)

IInv == TypeOK /\ Good(rtp, th, granted)

-----------------------------------------------------------------------------
(* Objects that are no longer pointed at. *)

\* Destroy leaves what is alive as it was, and clears the rest.
LEMMA DestroyFacts ==
  ASSUME NEW h \in Tables, NEW w \in [Thread -> Work]
  PROVE  /\ Destroy(h, w) \in Tables
         /\ LiveRoom(Destroy(h, w), w) = LiveRoom(h, w)
         /\ LiveObj(Destroy(h, w), w) = LiveObj(h, w)
         /\ \A r \in Room : Destroy(h, w).members[r] =
                              IF r \in LiveRoom(h, w) THEN h.members[r] ELSE Nothing
         /\ \A o \in Obj : Destroy(h, w).obj[o] =
                              IF o \in LiveObj(h, w) THEN h.obj[o] ELSE NoSource
<1> DEFINE k == Destroy(h, w)
<1>1. k = [port |-> h.port,
           rooms |-> [s \in Ses |-> IF s \in LiveSes(h, w) THEN h.rooms[s] ELSE None],
           members |-> [r \in Room |-> IF r \in LiveRoom(h, w) THEN h.members[r] ELSE Nothing],
           obj |-> [o \in Obj |-> IF o \in LiveObj(h, w) THEN h.obj[o] ELSE NoSource]]
  BY DEF Destroy
<1>2. k \in Tables
  BY <1>1 DEF Tables, Nothing, NoSource, Source
<1>3. LiveSes(k, w) = LiveSes(h, w)
  BY <1>1 DEF LiveSes
<1>4. LiveSes(h, w) \subseteq Ses
  BY DEF LiveSes, Held, Tables, Work
<1>5. \A s \in LiveSes(h, w) : k.rooms[s] = h.rooms[s]
  BY <1>1, <1>4
<1>6. LiveRoom(k, w) = LiveRoom(h, w)
  BY <1>3, <1>5 DEF LiveRoom
<1>7. LiveRoom(h, w) \subseteq Room
  <2>1. \A s \in LiveSes(h, w) : h.rooms[s] \in Room \cup {None}
    BY <1>4 DEF Tables
  <2>2. Held(w, "room") \subseteq Room \cup {None}
    BY DEF Held, Work
  <2> QED BY <2>1, <2>2 DEF LiveRoom
<1>8. \A r \in LiveRoom(h, w) : k.members[r] = h.members[r]
  BY <1>1, <1>7
<1>9. LiveObj(k, w) = LiveObj(h, w)
  BY <1>6, <1>8 DEF LiveObj
<1> QED BY <1>1, <1>2, <1>6, <1>9

\* A table that keeps owners and consent keeps them when what has lost its
\* last pointer is destroyed.
LEMMA DestroyKeeps ==
  ASSUME NEW h \in Tables, NEW w \in [Thread -> Work], NEW g,
         OneOwner(h, w), Agreed(h, w, g), \A t \in Thread : InPlace(w[t], g)
  PROVE  Good(Destroy(h, w), w, g)
<1> DEFINE k == Destroy(h, w)
<1>1. /\ k \in Tables
      /\ LiveRoom(k, w) = LiveRoom(h, w) /\ LiveObj(k, w) = LiveObj(h, w)
      /\ \A r \in Room : k.members[r] = IF r \in LiveRoom(h, w) THEN h.members[r] ELSE Nothing
      /\ \A o \in Obj : k.obj[o] = IF o \in LiveObj(h, w) THEN h.obj[o] ELSE NoSource
  BY DestroyFacts
<1>2. ASSUME NEW c \in Client, NEW o \in Obj, Owns(k, w, c, o)
      PROVE  Owns(h, w, c, o) /\ o \in LiveObj(h, w)
  <2>1. o # None
    BY RtpRoomAssumption
  <2>2. CASE \E r \in Room : k.members[r][c] = o
    <3>1. PICK r \in Room : k.members[r][c] = o
      BY <2>2
    <3>2. r \in LiveRoom(h, w) /\ h.members[r][c] = o
      BY <1>1, <2>1, <3>1 DEF Nothing
    <3> QED BY <2>1, <3>2 DEF LiveObj, Owns
  <2>3. CASE \E t \in Thread : w[t].src = o /\ w[t].msg.of = c
    BY <2>1, <2>3 DEF LiveObj, Held, Owns
  <2> QED BY <1>2, <2>2, <2>3 DEF Owns
<1>3. OneOwner(k, w)
  BY <1>2 DEF OneOwner
<1>4. Agreed(k, w, g)
  BY <1>1, <1>2 DEF Agreed
<1>5. Cleared(k, w)
  BY <1>1 DEF Cleared
<1> QED BY <1>1, <1>3, <1>4, <1>5 DEF Good

\* Consent once given stays.
LEMMA InPlaceGrows ==
  ASSUME NEW p, NEW g, NEW f, InPlace(p, g), g \subseteq f
  PROVE  InPlace(p, f)
BY DEF InPlace

\* A thread that takes sources out of the tables, or sinks out of a source,
\* and goes on with a source it had or has found for its client.
LEMMA Proceeds ==
  ASSUME IInv, NEW t \in Thread, NEW h \in Tables, NEW p \in Work, NEW g,
         granted \subseteq g,
         \A r \in Room, c \in Client : h.members[r][c] \in {rtp.members[r][c], None},
         \A o \in Obj : /\ h.obj[o].remote = rtp.obj[o].remote
                        /\ h.obj[o].sinks \subseteq rtp.obj[o].sinks,
         p.src = None \/ Owns(rtp, th, p.msg.of, p.src),
         InPlace(p, g),
         Becomes(t, h, p)
  PROVE  Good(rtp', th', g)
<1> DEFINE w == [th EXCEPT ![t] = p]
<1>1. w \in [Thread -> Work] /\ th' = w /\ rtp' = Destroy(h, w)
  BY DEF IInv, TypeOK, Becomes
<1>2. \A u \in Thread : w[u] = IF u = t THEN p ELSE th[u]
  BY DEF IInv, TypeOK
<1>3. ASSUME NEW c \in Client, NEW o \in Obj, Owns(h, w, c, o)
      PROVE  Owns(rtp, th, c, o)
  BY <1>2, <1>3, RtpRoomAssumption DEF Owns
<1>4. OneOwner(h, w)
  BY <1>3 DEF IInv, Good, OneOwner
<1>5. Agreed(h, w, g)
  BY <1>3 DEF IInv, Good, Agreed
<1>6. \A u \in Thread : InPlace(w[u], g)
  BY <1>2, InPlaceGrows DEF IInv, Good
<1> QED BY <1>1, <1>4, <1>5, <1>6, DestroyKeeps

\* A thread that has done with its command.
LEMMA Finishes ==
  ASSUME IInv, NEW t \in Thread, NEW h \in Tables,
         \A r \in Room, c \in Client : h.members[r][c] \in {rtp.members[r][c], None},
         \A o \in Obj : /\ h.obj[o].remote = rtp.obj[o].remote
                        /\ h.obj[o].sinks \subseteq rtp.obj[o].sinks,
         Becomes(t, h, Idle)
  PROVE  Good(rtp', th', granted)
<1>1. Idle \in Work /\ Idle.src = None /\ InPlace(Idle, granted)
  BY DEF Idle, Work, Steps, InPlace
<1> QED BY <1>1, Proceeds

\* A thread that only looks something up, or tells the application.
LEMMA LooksUp ==
  ASSUME IInv, NEW t \in Thread, NEW p \in Work, NEW g, granted \subseteq g,
         p.src = None \/ Owns(rtp, th, p.msg.of, p.src),
         InPlace(p, g),
         Becomes(t, rtp, p)
  PROVE  Good(rtp', th', g)
BY Proceeds DEF IInv, TypeOK

\* The application is asked about a source, and the thread that it lets go on
\* relies on its consent.
LEMMA Asks ==
  ASSUME IInv, NEW t \in Thread, NEW p \in Work,
         p.src = None \/ Owns(rtp, th, p.msg.of, p.src),
         InPlace(p, granted \cup {<<th[t].msg.of, th[t].msg.from>>}),
         AskSource(t, p)
  PROVE  Good(rtp', th', granted')
<1>1. CASE Accepts(<<th[t].msg.of, th[t].msg.from>>) /\ Becomes(t, rtp, p)
  BY <1>1, LooksUp DEF Accepts
<1>2. CASE Refuses /\ Becomes(t, rtp, Idle)
  BY <1>2, Finishes DEF Refuses, IInv, TypeOK
<1> QED BY <1>1, <1>2 DEF AskSource

\* What a thread has at hand.
LEMMA AtHand ==
  ASSUME IInv, NEW t \in Thread, th[t].at # "Idle"
  PROVE  /\ th[t] \in Work /\ InPlace(th[t], granted)
         /\ th[t].msg \in Datagram /\ th[t].msg.of \in Client
         /\ th[t].msg.from \in Addr /\ th[t].msg.dest \in Client
         /\ th[t].ses \in Ses
         /\ th[t].src # None => Owns(rtp, th, th[t].msg.of, th[t].src)
BY DEF IInv, Good, TypeOK, InPlace, Datagram, Owns

\* The source of its client that a thread finds in its room.
LEMMA FoundHere ==
  ASSUME IInv, NEW t \in Thread,
         th[t].at \notin {"Idle", "Room", "MakeRoom"}
  PROVE  /\ th[t].room \in Room
         /\ Here(t) \in Obj \cup {None}
         /\ Here(t) # None => Owns(rtp, th, th[t].msg.of, Here(t))
<1>1. th[t].room \in Room /\ th[t].msg.of \in Client
  BY AtHand DEF InPlace
<1> QED BY <1>1 DEF Here, Owns, IInv, TypeOK, Tables

\* One source is changed.
LEMMA NewValue ==
  ASSUME rtp \in Tables, NEW o \in Obj, NEW x \in Source, NEW h,
         h = [rtp EXCEPT !.obj = [rtp.obj EXCEPT ![o] = x]]
  PROVE  /\ h \in Tables
         /\ h.port = rtp.port /\ h.rooms = rtp.rooms /\ h.members = rtp.members
         /\ \A q \in Obj : h.obj[q] = IF q = o THEN x ELSE rtp.obj[q]
BY DEF Tables

\* A thread that changes the source it works on within what is agreed.
LEMMA Changes ==
  ASSUME IInv, NEW t \in Thread, th[t].at # "Idle", th[t].src \in Obj,
         NEW x \in Source, NEW p \in Work,
         x.remote # None => <<th[t].msg.of, x.remote>> \in granted,
         \A d \in x.sinks : <<th[t].msg.of, d>> \in granted,
         p.src = None \/ Owns(rtp, th, p.msg.of, p.src),
         InPlace(p, granted),
         Becomes(t, [rtp EXCEPT !.obj = [rtp.obj EXCEPT ![th[t].src] = x]], p)
  PROVE  Good(rtp', th', granted)
<1> DEFINE h == [rtp EXCEPT !.obj = [rtp.obj EXCEPT ![th[t].src] = x]]
           w == [th EXCEPT ![t] = p]
<1>1. h \in Tables /\ h.members = rtp.members
      /\ \A o \in Obj : h.obj[o] = IF o = th[t].src THEN x ELSE rtp.obj[o]
  BY DEF IInv, TypeOK, Tables
<1>2. w \in [Thread -> Work] /\ th' = w /\ rtp' = Destroy(h, w)
      /\ \A u \in Thread : w[u] = IF u = t THEN p ELSE th[u]
  BY DEF IInv, TypeOK, Becomes
<1>3. ASSUME NEW c \in Client, NEW o \in Obj, Owns(h, w, c, o)
      PROVE  Owns(rtp, th, c, o)
  BY <1>1, <1>2, <1>3, RtpRoomAssumption DEF Owns
<1>4. OneOwner(h, w)
  BY <1>3 DEF IInv, Good, OneOwner
<1>5. \A c \in Client : Owns(rtp, th, c, th[t].src) => c = th[t].msg.of
  <2>1. Owns(rtp, th, th[t].msg.of, th[t].src) /\ th[t].msg.of \in Client
    BY AtHand, RtpRoomAssumption
  <2> QED BY <2>1 DEF IInv, Good, OneOwner
<1>6. Agreed(h, w, granted)
  BY <1>1, <1>3, <1>5 DEF IInv, Good, Agreed
<1>7. \A u \in Thread : InPlace(w[u], granted)
  BY <1>2 DEF IInv, Good
<1> QED BY <1>1, <1>2, <1>4, <1>6, <1>7, DestroyKeeps

-----------------------------------------------------------------------------
(* The steps of a thread. *)

LEMMA TakeStep ==
  ASSUME IInv, NEW t \in Thread, NEW d \in net, Take(t, d)
  PROVE  Good(rtp', th', granted')
<1> DEFINE s == IF rtp.port = None THEN NewSes ELSE rtp.port
           h == [rtp EXCEPT !.port = s]
           p == [Idle EXCEPT !.at = "Room", !.msg = d, !.ses = s]
<1>1. Becomes(t, h, p) /\ granted' = granted /\ d \in Datagram
  BY DEF Take, IInv, TypeOK
<1>2. s \in Ses
  BY DEF Take, NewSes, FreeSes, IInv, TypeOK, Tables
<1>3. h \in Tables /\ h.members = rtp.members /\ h.obj = rtp.obj
  BY <1>2 DEF IInv, TypeOK, Tables
<1>4. p \in Work /\ p.src = None /\ InPlace(p, granted)
  BY <1>1, <1>2 DEF Idle, Work, Steps, InPlace
<1> QED BY <1>1, <1>3, <1>4, Proceeds DEF IInv, TypeOK, Tables

LEMMA FindRoomStep ==
  ASSUME IInv, NEW t \in Thread, FindRoom(t)
  PROVE  Good(rtp', th', granted')
<1> DEFINE r == rtp.rooms[th[t].ses]
           registers == th[t].msg.kind = "RegisterSource"
<1>1. th[t].at = "Room" /\ th[t].ses \in Ses /\ r \in Room \cup {None}
  BY AtHand DEF FindRoom, IInv, TypeOK, Tables
<1>2. CASE r # None
  <2> DEFINE p == [Goes(t, IF registers THEN "Source" ELSE "Member")
                     EXCEPT !.room = r, !.cb = registers]
  <2>1. Becomes(t, rtp, p) /\ granted' = granted
    BY <1>2 DEF FindRoom
  <2>2. p \in Work /\ InPlace(p, granted)
        /\ (p.src = None \/ Owns(rtp, th, p.msg.of, p.src))
    BY <1>1, <1>2, AtHand DEF Goes, Work, Steps, InPlace
  <2> QED BY <2>1, <2>2, LooksUp
<1>3. CASE r = None /\ registers
  <2> DEFINE p == Goes(t, "MakeRoom")
  <2>1. AskSource(t, p)
    BY <1>3 DEF FindRoom
  <2>2. p \in Work /\ InPlace(p, granted \cup {<<th[t].msg.of, th[t].msg.from>>})
        /\ (p.src = None \/ Owns(rtp, th, p.msg.of, p.src))
    BY <1>1, AtHand DEF Goes, Work, Steps, InPlace
  <2> QED BY <2>1, <2>2, Asks
<1>4. CASE r = None /\ ~registers
  BY <1>4, Finishes DEF FindRoom, IInv, TypeOK
<1> QED BY <1>2, <1>3, <1>4

LEMMA MakeRoomStep ==
  ASSUME IInv, NEW t \in Thread, MakeRoom(t)
  PROVE  Good(rtp', th', granted')
<1> DEFINE s == th[t].ses
           r == IF rtp.rooms[s] = None THEN NewRoom ELSE rtp.rooms[s]
           h == [rtp EXCEPT !.rooms[s] = r]
           p == [Goes(t, "Source") EXCEPT !.room = r]
<1>1. th[t].at = "MakeRoom" /\ Becomes(t, h, p) /\ granted' = granted
  BY DEF MakeRoom
<1>2. s \in Ses /\ r \in Room
  BY <1>1, AtHand DEF MakeRoom, NewRoom, FreeRoom, IInv, TypeOK, Tables
<1>3. h \in Tables /\ h.members = rtp.members /\ h.obj = rtp.obj
  BY <1>2 DEF IInv, TypeOK, Tables
<1>4. p \in Work /\ InPlace(p, granted)
      /\ (p.src = None \/ Owns(rtp, th, p.msg.of, p.src))
  BY <1>1, <1>2, AtHand DEF Goes, Work, Steps, InPlace
<1>5. /\ \A q \in Room, c \in Client : h.members[q][c] \in {rtp.members[q][c], None}
      /\ \A o \in Obj : /\ h.obj[o].remote = rtp.obj[o].remote
                        /\ h.obj[o].sinks \subseteq rtp.obj[o].sinks
  BY <1>3
<1> HIDE DEF h, p
<1> QED BY <1>1, <1>3, <1>4, <1>5, Proceeds

LEMMA FindSourceStep ==
  ASSUME IInv, NEW t \in Thread, FindSource(t)
  PROVE  Good(rtp', th', granted')
<1> DEFINE s == Here(t)
           found(step) == [Goes(t, step) EXCEPT !.src = s]
           consent == granted \cup {<<th[t].msg.of, th[t].msg.from>>}
<1>1. th[t].at = "Source"
  BY DEF FindSource
<1>2. s \in Obj \cup {None} /\ (s # None => Owns(rtp, th, th[t].msg.of, s))
  BY <1>1, FoundHere
<1>3. CASE s = None /\ th[t].cb
  <2>1. AskSource(t, Goes(t, "MakeSource"))
    BY <1>3 DEF FindSource
  <2>2. Goes(t, "MakeSource") \in Work /\ InPlace(Goes(t, "MakeSource"), consent)
        /\ (Goes(t, "MakeSource").src = None
            \/ Owns(rtp, th, Goes(t, "MakeSource").msg.of, Goes(t, "MakeSource").src))
    BY <1>1, AtHand DEF Goes, Work, Steps, InPlace
  <2> QED BY <2>1, <2>2, Asks
<1>4. CASE s # None /\ AskSource(t, found("ReAddress"))
  <2>1. found("ReAddress") \in Work /\ InPlace(found("ReAddress"), consent)
        /\ Owns(rtp, th, found("ReAddress").msg.of, found("ReAddress").src)
    BY <1>1, <1>2, <1>4, AtHand DEF Goes, Work, Steps, InPlace
  <2> QED BY <1>4, <2>1, Asks
<1>5. CASE s = None /\ ~th[t].cb
  <2>1. Becomes(t, rtp, Goes(t, "MakeSource")) /\ granted' = granted
    BY <1>5 DEF FindSource
  <2>2. Goes(t, "MakeSource") \in Work /\ InPlace(Goes(t, "MakeSource"), granted)
        /\ (Goes(t, "MakeSource").src = None
            \/ Owns(rtp, th, Goes(t, "MakeSource").msg.of, Goes(t, "MakeSource").src))
    BY <1>1, <1>5, AtHand DEF Goes, Work, Steps, InPlace
  <2> QED BY <2>1, <2>2, LooksUp
<1>6. CASE s # None /\ Becomes(t, rtp, found("Touch")) /\ granted' = granted
  <2>1. found("Touch") \in Work /\ InPlace(found("Touch"), granted)
        /\ Owns(rtp, th, found("Touch").msg.of, found("Touch").src)
    BY <1>1, <1>2, <1>6, AtHand DEF Goes, Work, Steps, InPlace
  <2> QED BY <1>6, <2>1, LooksUp
<1> QED BY <1>3, <1>4, <1>5, <1>6 DEF FindSource

LEMMA MakeSourceStep ==
  ASSUME IInv, NEW t \in Thread, MakeSource(t)
  PROVE  Good(rtp', th', granted')
<1> DEFINE r == th[t].room
           c == th[t].msg.of
           s == IF Here(t) = None THEN NewObj ELSE Here(t)
           h == [rtp EXCEPT !.members[r][c] = s]
           p == [Goes(t, "Address") EXCEPT !.src = s]
           w == [th EXCEPT ![t] = p]
<1>1. th[t].at = "MakeSource" /\ Becomes(t, h, p) /\ granted' = granted
  BY DEF MakeSource
<1>2. r \in Room /\ c \in Client /\ s \in Obj
  BY <1>1, AtHand, FoundHere DEF MakeSource, NewObj, FreeObj
<1>3. h \in Tables /\ h.obj = rtp.obj
      /\ \A q \in Room, d \in Client :
           h.members[q][d] = IF q = r /\ d = c THEN s ELSE rtp.members[q][d]
  BY <1>2 DEF IInv, TypeOK, Tables
<1>4. p \in Work /\ InPlace(p, granted) /\ p.src = s /\ p.msg.of = c
  BY <1>1, <1>2, AtHand DEF Goes, Work, Steps, InPlace
<1> HIDE DEF h, p
<1>5. w \in [Thread -> Work] /\ th' = w /\ rtp' = Destroy(h, w)
      /\ \A u \in Thread : w[u] = IF u = t THEN p ELSE th[u]
  BY <1>1, <1>4 DEF Becomes, IInv, TypeOK
<1>6. ASSUME NEW d \in Client, NEW o \in Obj, Owns(h, w, d, o)
      PROVE  Owns(rtp, th, d, o) \/ (d = c /\ o = s)
  BY <1>3, <1>4, <1>5, <1>6 DEF Owns
<1>7. CASE Here(t) # None
  <2>1. Owns(rtp, th, c, s)
    BY <1>1, <1>7, FoundHere
  <2>2. \A d \in Client, o \in Obj : Owns(h, w, d, o) => Owns(rtp, th, d, o)
    BY <1>6, <2>1
  <2>3. OneOwner(h, w) /\ Agreed(h, w, granted)
    BY <1>3, <2>2 DEF IInv, Good, OneOwner, Agreed
  <2> QED BY <1>1, <1>3, <1>4, <1>5, <2>3, InPlaceGrows, DestroyKeeps DEF IInv, Good
<1>8. CASE Here(t) = None
  <2>1. s \in Obj \ LiveObj(rtp, th)
    BY <1>8 DEF MakeSource, NewObj, FreeObj
  <2>2. \A d \in Client : ~Owns(rtp, th, d, s)
    <3>1. ASSUME NEW q \in Room, NEW d \in Client, rtp.members[q][d] = s
          PROVE  FALSE
      <4>1. s # None
        BY <1>2, RtpRoomAssumption
      <4>2. CASE q \in LiveRoom(rtp, th)
        BY <2>1, <3>1, <4>1, <4>2 DEF LiveObj
      <4>3. CASE q \notin LiveRoom(rtp, th)
        BY <3>1, <4>1, <4>3 DEF IInv, Good, Cleared, Nothing
      <4> QED BY <4>2, <4>3
    <3>2. \A u \in Thread : th[u].src # s
      BY <2>1, RtpRoomAssumption DEF LiveObj, Held
    <3> QED BY <3>1, <3>2 DEF Owns
  <2>3. h.obj[s].remote = None /\ h.obj[s].sinks = {}
    BY <1>3, <2>1 DEF IInv, Good, Cleared, NoSource
  <2>4. OneOwner(h, w)
    BY <1>6, <2>2 DEF IInv, Good, OneOwner
  <2>5. Agreed(h, w, granted)
    BY <1>3, <1>6, <2>3 DEF IInv, Good, Agreed
  <2> QED BY <1>1, <1>3, <1>4, <1>5, <2>4, <2>5, DestroyKeeps DEF IInv, Good
<1> QED BY <1>7, <1>8

LEMMA AddressStep ==
  ASSUME IInv, NEW t \in Thread, Address(t)
  PROVE  Good(rtp', th', granted')
<1> DEFINE o == th[t].src
           x == [rtp.obj[o] EXCEPT !.remote = th[t].msg.from, !.called = @ \/ th[t].cb]
<1>1. th[t].at = "Address" /\ granted' = granted /\ o \in Obj
      /\ <<th[t].msg.of, th[t].msg.from>> \in granted
  BY AtHand DEF Address, InPlace
<1>2. rtp.obj[o] \in Source /\ th[t].msg.from \in Addr /\ th[t].cb \in BOOLEAN
  BY <1>1, AtHand DEF IInv, TypeOK, Tables, Work
<1>3. x \in Source /\ x.remote = th[t].msg.from /\ x.sinks = rtp.obj[o].sinks
  BY <1>2 DEF Source
<1>4. [rtp EXCEPT !.obj[th[t].src].remote = th[t].msg.from,
                  !.obj[th[t].src].called = @ \/ th[t].cb]
        = [rtp EXCEPT !.obj = [rtp.obj EXCEPT ![o] = x]]
  BY <1>1, <1>2 DEF IInv, TypeOK, Tables, Source
<1>5. Owns(rtp, th, th[t].msg.of, o) /\ th[t].msg.of \in Client
  BY <1>1, AtHand, RtpRoomAssumption
<1>6. \A d \in x.sinks : <<th[t].msg.of, d>> \in granted
  BY <1>1, <1>3, <1>5 DEF IInv, Good, Agreed
<1>7. Becomes(t, [rtp EXCEPT !.obj = [rtp.obj EXCEPT ![o] = x]], Idle)
  BY <1>4 DEF Address
<1>8. Idle \in Work /\ Idle.src = None /\ InPlace(Idle, granted)
  BY DEF Idle, Work, Steps, InPlace
<1> HIDE DEF x
<1> QED BY <1>1, <1>3, <1>6, <1>7, <1>8, Changes

LEMMA ReAddressStep ==
  ASSUME IInv, NEW t \in Thread, ReAddress(t)
  PROVE  Good(rtp', th', granted')
<1> DEFINE o == th[t].src
           x == [rtp.obj[o] EXCEPT !.remote = th[t].msg.from, !.called = TRUE]
           p == Goes(t, "Touch")
<1>1. th[t].at = "ReAddress" /\ granted' = granted /\ o \in Obj
      /\ <<th[t].msg.of, th[t].msg.from>> \in granted
  BY AtHand DEF ReAddress, InPlace
<1>2. rtp.obj[o] \in Source /\ th[t].msg.from \in Addr
  BY <1>1, AtHand DEF IInv, TypeOK, Tables
<1>3. x \in Source /\ x.remote = th[t].msg.from /\ x.sinks = rtp.obj[o].sinks
  BY <1>2 DEF Source
<1>4. [rtp EXCEPT !.obj[th[t].src].remote = th[t].msg.from,
                  !.obj[th[t].src].called = TRUE]
        = [rtp EXCEPT !.obj = [rtp.obj EXCEPT ![o] = x]]
  BY <1>1, <1>2 DEF IInv, TypeOK, Tables, Source
<1>5. Owns(rtp, th, th[t].msg.of, o) /\ th[t].msg.of \in Client
  BY <1>1, AtHand, RtpRoomAssumption
<1>6. \A d \in x.sinks : <<th[t].msg.of, d>> \in granted
  BY <1>1, <1>3, <1>5 DEF IInv, Good, Agreed
<1>7. Becomes(t, [rtp EXCEPT !.obj = [rtp.obj EXCEPT ![o] = x]], p)
  BY <1>4 DEF ReAddress
<1>8. p \in Work /\ Owns(rtp, th, p.msg.of, p.src) /\ InPlace(p, granted)
  BY <1>1, <1>5, AtHand DEF Goes, Work, Steps, InPlace
<1> HIDE DEF x, p
<1> QED BY <1>1, <1>3, <1>6, <1>7, <1>8, Changes

LEMMA TouchStep ==
  ASSUME IInv, NEW t \in Thread, Touch(t)
  PROVE  Good(rtp', th', granted')
<1> DEFINE o == th[t].src
           x == [rtp.obj[o] EXCEPT !.stale = FALSE]
           h == [rtp EXCEPT !.obj[o].stale = FALSE]
<1>1. o \in Obj /\ Becomes(t, h, Idle) /\ granted' = granted
  BY AtHand DEF Touch, InPlace
<1>2. rtp \in Tables /\ rtp.obj[o] \in Source
  BY <1>1 DEF IInv, TypeOK, Tables
<1>3. x \in Source /\ x.remote = rtp.obj[o].remote /\ x.sinks = rtp.obj[o].sinks
  BY <1>2 DEF Source
<1>4. h = [rtp EXCEPT !.obj = [rtp.obj EXCEPT ![o] = x]]
  BY <1>1, <1>2 DEF Tables, Source
<1> HIDE DEF h, x
<1>5. h \in Tables /\ h.members = rtp.members
      /\ \A q \in Obj : h.obj[q] = IF q = o THEN x ELSE rtp.obj[q]
  BY <1>1, <1>2, <1>3, <1>4, NewValue
<1>6. \A q \in Obj : /\ h.obj[q].remote = rtp.obj[q].remote
                    /\ h.obj[q].sinks \subseteq rtp.obj[q].sinks
  BY <1>3, <1>5
<1>7. \A r \in Room, c \in Client : h.members[r][c] \in {rtp.members[r][c], None}
  BY <1>5
<1> QED BY <1>1, <1>5, <1>6, <1>7, Finishes

LEMMA LeaverSteps ==
  ASSUME IInv, NEW t \in Thread, FindLeaver(t) \/ Tell(t) \/ LookEmpty(t)
  PROVE  Good(rtp', th', granted')
<1>1. th[t].at \in {"Member", "Tell", "IsEmpty"} /\ granted' = granted
  BY DEF FindLeaver, Tell, LookEmpty
<1>2. CASE Becomes(t, rtp, Idle)
  BY <1>1, <1>2, Finishes DEF IInv, TypeOK
<1>3. ASSUME NEW step \in {"Tell", "Remove", "Drop"}, Becomes(t, rtp, Goes(t, step))
      PROVE  Good(rtp', th', granted')
  <2>1. Goes(t, step) \in Work /\ InPlace(Goes(t, step), granted)
        /\ (Goes(t, step).src = None
            \/ Owns(rtp, th, Goes(t, step).msg.of, Goes(t, step).src))
    BY <1>1, AtHand DEF Goes, Work, Steps, InPlace
  <2> QED BY <1>1, <1>3, <2>1, LooksUp
<1> QED BY <1>2, <1>3 DEF FindLeaver, Tell, LookEmpty

LEMMA RemoveStep ==
  ASSUME IInv, NEW t \in Thread, Remove(t)
  PROVE  Good(rtp', th', granted')
<1> DEFINE h == [rtp EXCEPT !.members[th[t].room][th[t].msg.of] = None]
           p == Goes(t, "IsEmpty")
<1>1. th[t].at = "Remove" /\ granted' = granted
  BY DEF Remove
<1>2. CASE Becomes(t, rtp, Idle)
  BY <1>1, <1>2, Finishes DEF IInv, TypeOK
<1>3. CASE Becomes(t, h, p)
  <2>1. th[t].room \in Room /\ th[t].msg.of \in Client
    BY <1>1, AtHand, FoundHere
  <2>2. h \in Tables /\ h.obj = rtp.obj
        /\ \A r \in Room, c \in Client : h.members[r][c] \in {rtp.members[r][c], None}
    BY <2>1 DEF IInv, TypeOK, Tables
  <2>3. p \in Work /\ InPlace(p, granted)
        /\ (p.src = None \/ Owns(rtp, th, p.msg.of, p.src))
    BY <1>1, AtHand DEF Goes, Work, Steps, InPlace
  <2> HIDE DEF h, p
  <2> QED BY <1>1, <1>3, <2>2, <2>3, Proceeds
<1> QED BY <1>2, <1>3 DEF Remove

LEMMA DropRoomStep ==
  ASSUME IInv, NEW t \in Thread, DropRoom(t)
  PROVE  Good(rtp', th', granted')
<1> DEFINE h == [rtp EXCEPT !.rooms[th[t].ses] = None]
<1>1. th[t].ses \in Ses /\ Becomes(t, h, Idle) /\ granted' = granted
  BY AtHand DEF DropRoom
<1>2. h \in Tables /\ h.members = rtp.members /\ h.obj = rtp.obj
  BY <1>1 DEF IInv, TypeOK, Tables
<1> HIDE DEF h
<1> QED BY <1>1, <1>2, Finishes

LEMMA FindSinkStep ==
  ASSUME IInv, NEW t \in Thread, FindSink(t)
  PROVE  Good(rtp', th', granted')
<1> DEFINE c == th[t].msg.of
           d == th[t].msg.dest
           p == [Goes(t, "AddSink") EXCEPT !.src = Here(t)]
<1>1. th[t].at = "Member"
  BY DEF FindSink
<1>2. CASE Mine(t) /\ Accepts(<<c, d>>) /\ Becomes(t, rtp, p)
  <2>1. granted' = granted \cup {<<c, d>>}
    BY <1>2 DEF Accepts
  <2>2. Here(t) \in Obj /\ Owns(rtp, th, c, Here(t))
    BY <1>1, <1>2, FoundHere DEF Mine
  <2>3. p \in Work /\ InPlace(p, granted \cup {<<c, d>>})
        /\ Owns(rtp, th, p.msg.of, p.src)
    BY <1>1, <2>2, AtHand DEF Goes, Work, Steps, InPlace
  <2> HIDE DEF p
  <2> QED BY <1>2, <2>1, <2>3, LooksUp
<1>3. CASE granted' = granted /\ Becomes(t, rtp, Idle)
  BY <1>3, Finishes DEF IInv, TypeOK
<1> QED BY <1>2, <1>3 DEF FindSink, Refuses

LEMMA UnRegisterSinkStep ==
  ASSUME IInv, NEW t \in Thread, UnRegisterSink(t)
  PROVE  Good(rtp', th', granted')
<1>1. th[t].at = "Member" /\ granted' = granted
  BY DEF UnRegisterSink
<1>2. CASE Becomes(t, rtp, Idle)
  BY <1>1, <1>2, Finishes DEF IInv, TypeOK
<1>3. ASSUME NEW dropped, Mine(t),
             Becomes(t, [rtp EXCEPT !.obj[Here(t)].sinks = @ \ dropped], Idle)
      PROVE  Good(rtp', th', granted')
  <2> DEFINE o == Here(t)
             x == [rtp.obj[o] EXCEPT !.sinks = @ \ dropped]
             h == [rtp EXCEPT !.obj[o].sinks = @ \ dropped]
  <2>1. o \in Obj /\ Becomes(t, h, Idle)
    BY <1>1, <1>3, FoundHere DEF Mine
  <2>2. rtp \in Tables /\ rtp.obj[o] \in Source
    BY <2>1 DEF IInv, TypeOK, Tables
  <2>3. x \in Source /\ x.remote = rtp.obj[o].remote /\ x.sinks \subseteq rtp.obj[o].sinks
    BY <2>2 DEF Source
  <2>4. h = [rtp EXCEPT !.obj = [rtp.obj EXCEPT ![o] = x]]
    BY <2>1, <2>2 DEF Tables, Source
  <2> HIDE DEF h, x
  <2>5. h \in Tables /\ h.members = rtp.members
        /\ \A q \in Obj : h.obj[q] = IF q = o THEN x ELSE rtp.obj[q]
    BY <2>1, <2>2, <2>3, <2>4, NewValue
  <2>6. \A q \in Obj : /\ h.obj[q].remote = rtp.obj[q].remote
                      /\ h.obj[q].sinks \subseteq rtp.obj[q].sinks
    BY <2>3, <2>5
  <2>7. \A r \in Room, c \in Client : h.members[r][c] \in {rtp.members[r][c], None}
    BY <2>5
  <2> QED BY <1>1, <2>1, <2>5, <2>6, <2>7, Finishes
<1>4. ASSUME NEW dropped, ~Mine(t),
             Becomes(t, IF Mine(t) THEN [rtp EXCEPT !.obj[Here(t)].sinks = @ \ dropped]
                        ELSE rtp, Idle)
      PROVE  Becomes(t, rtp, Idle)
  BY <1>4
<1> QED BY <1>2, <1>3, <1>4 DEF UnRegisterSink

LEMMA AddSinkStep ==
  ASSUME IInv, NEW t \in Thread, AddSink(t)
  PROVE  Good(rtp', th', granted')
<1> DEFINE o == th[t].src
           x == [rtp.obj[o] EXCEPT !.sinks = @ \cup {th[t].msg.dest}]
<1>1. th[t].at = "AddSink" /\ granted' = granted /\ o \in Obj
      /\ <<th[t].msg.of, th[t].msg.dest>> \in granted
  BY AtHand DEF AddSink, InPlace
<1>2. rtp.obj[o] \in Source /\ th[t].msg.dest \in Client
  BY <1>1, AtHand DEF IInv, TypeOK, Tables
<1>3. x \in Source /\ x.remote = rtp.obj[o].remote
      /\ x.sinks = rtp.obj[o].sinks \cup {th[t].msg.dest}
  BY <1>2 DEF Source
<1>4. [rtp EXCEPT !.obj[th[t].src].sinks = @ \cup {th[t].msg.dest}]
        = [rtp EXCEPT !.obj = [rtp.obj EXCEPT ![o] = x]]
  BY <1>1, <1>2 DEF IInv, TypeOK, Tables, Source
<1>5. Owns(rtp, th, th[t].msg.of, o) /\ th[t].msg.of \in Client
  BY <1>1, AtHand, RtpRoomAssumption
<1>6. /\ x.remote # None => <<th[t].msg.of, x.remote>> \in granted
      /\ \A d \in x.sinks : <<th[t].msg.of, d>> \in granted
  BY <1>1, <1>3, <1>5 DEF IInv, Good, Agreed
<1>7. Becomes(t, [rtp EXCEPT !.obj = [rtp.obj EXCEPT ![o] = x]], Idle)
  BY <1>4 DEF AddSink
<1>8. Idle \in Work /\ Idle.src = None /\ InPlace(Idle, granted)
  BY DEF Idle, Work, Steps, InPlace
<1> HIDE DEF x
<1> QED BY <1>1, <1>3, <1>6, <1>7, <1>8, Changes

-----------------------------------------------------------------------------
(* The timer. *)

LEMMA AgeStep ==
  ASSUME IInv, NEW c \in Client, Age(c)
  PROVE  Good(rtp', th', granted')
<1> DEFINE o == Member(c)
           x == [rtp.obj[o] EXCEPT !.stale = TRUE]
           h == [rtp EXCEPT !.obj[o].stale = TRUE]
<1>1. rtp' = h /\ th' = th /\ granted' = granted /\ o # None
  BY DEF Age
<1>2. rtp.port # None /\ rtp.rooms[rtp.port] # None
      /\ o = rtp.members[rtp.rooms[rtp.port]][c]
  BY <1>1 DEF Member
<1>3. rtp.port \in Ses /\ rtp.rooms[rtp.port] \in Room /\ o \in Obj
  BY <1>1, <1>2 DEF IInv, TypeOK, Tables
<1>4. rtp \in Tables /\ rtp.obj[o] \in Source
  BY <1>3 DEF IInv, TypeOK, Tables
<1>5. x \in Source /\ x.remote = rtp.obj[o].remote /\ x.sinks = rtp.obj[o].sinks
  BY <1>4 DEF Source
<1>6. h = [rtp EXCEPT !.obj = [rtp.obj EXCEPT ![o] = x]]
  BY <1>3, <1>4 DEF Tables, Source
<1> HIDE DEF h, x
<1>7. h \in Tables /\ h.port = rtp.port /\ h.rooms = rtp.rooms
      /\ h.members = rtp.members
      /\ \A q \in Obj : h.obj[q] = IF q = o THEN x ELSE rtp.obj[q]
  BY <1>3, <1>4, <1>5, <1>6, NewValue
<1>8. \A d \in Client, q \in Obj : Owns(h, th, d, q) <=> Owns(rtp, th, d, q)
  BY <1>7 DEF Owns
<1>9. OneOwner(h, th) /\ Agreed(h, th, granted)
  BY <1>5, <1>7, <1>8 DEF IInv, Good, OneOwner, Agreed
<1>10. LiveRoom(h, th) = LiveRoom(rtp, th) /\ LiveObj(h, th) = LiveObj(rtp, th)
  BY <1>7 DEF LiveSes, LiveRoom, LiveObj
<1>11. o \in LiveObj(rtp, th)
  <2>1. rtp.rooms[rtp.port] \in LiveRoom(rtp, th)
    BY <1>2 DEF LiveSes, LiveRoom
  <2> QED BY <1>1, <1>2, <2>1 DEF LiveObj
<1>12. Cleared(h, th)
  BY <1>7, <1>10, <1>11 DEF IInv, Good, Cleared
<1> QED BY <1>1, <1>7, <1>9, <1>12 DEF IInv, Good

LEMMA ExpireStep ==
  ASSUME IInv, Expire
  PROVE  Good(rtp', th', granted')
<1> DEFINE r == rtp.rooms[rtp.port]
           out == {c \in Client : Member(c) # None /\ rtp.obj[Member(c)].stale}
           left == [c \in Client |-> IF c \in out THEN None ELSE Member(c)]
           kept == IF r = None THEN rtp ELSE [rtp EXCEPT !.members[r] = left]
           gone == [kept EXCEPT !.rooms[rtp.port] = None, !.port = None]
<1>1. th' = th /\ granted' = granted /\ rtp.port # None
      /\ (rtp' = Destroy(gone, th) \/ rtp' = Destroy(kept, th))
  BY DEF Expire
<1>2. rtp.port \in Ses /\ r \in Room \cup {None}
  BY <1>1 DEF IInv, TypeOK, Tables
<1>3. r # None => left \in [Client -> Obj \cup {None}]
                  /\ \A c \in Client : left[c] \in {rtp.members[r][c], None}
  <2>1. r # None => \A c \in Client : Member(c) = rtp.members[r][c]
    BY <1>1 DEF Member
  <2>2. r # None => \A c \in Client : rtp.members[r][c] \in Obj \cup {None}
    BY <1>2 DEF IInv, TypeOK, Tables
  <2> QED BY <2>1, <2>2
<1> HIDE DEF left
<1>4. kept \in Tables /\ kept.obj = rtp.obj
      /\ \A q \in Room, c \in Client : kept.members[q][c] \in {rtp.members[q][c], None}
  BY <1>2, <1>3 DEF IInv, TypeOK, Tables
<1> HIDE DEF kept
<1>5. gone \in Tables /\ gone.obj = kept.obj /\ gone.members = kept.members
  BY <1>2, <1>4 DEF Tables
<1> HIDE DEF gone
<1>6. ASSUME NEW h \in {kept, gone}
      PROVE  OneOwner(h, th) /\ Agreed(h, th, granted) /\ h \in Tables
  <2>1. h \in Tables /\ h.obj = rtp.obj
        /\ \A q \in Room, c \in Client : h.members[q][c] \in {rtp.members[q][c], None}
    BY <1>4, <1>5
  <2>2. \A c \in Client, o \in Obj : Owns(h, th, c, o) => Owns(rtp, th, c, o)
    BY <2>1, RtpRoomAssumption DEF Owns
  <2> QED BY <2>1, <2>2 DEF IInv, Good, OneOwner, Agreed
<1> QED BY <1>1, <1>6, DestroyKeeps DEF IInv, Good

-----------------------------------------------------------------------------
(* All steps together. *)

\* The tables, the threads and the consent keep the invariant.
LEMMA NextGood ==
  ASSUME IInv, Next
  PROVE  Good(rtp', th', granted')
<1>1. CASE \E t \in Thread : Step(t)
  <2>1. PICK t \in Thread : Step(t)
    BY <1>1
  <2>2. CASE FindRoom(t)
    BY <2>2, FindRoomStep
  <2>3. CASE MakeRoom(t)
    BY <2>3, MakeRoomStep
  <2>4. CASE FindSource(t)
    BY <2>4, FindSourceStep
  <2>5. CASE MakeSource(t)
    BY <2>5, MakeSourceStep
  <2>6. CASE Address(t)
    BY <2>6, AddressStep
  <2>7. CASE ReAddress(t)
    BY <2>7, ReAddressStep
  <2>8. CASE Touch(t)
    BY <2>8, TouchStep
  <2>9. CASE FindLeaver(t) \/ Tell(t) \/ LookEmpty(t)
    BY <2>9, LeaverSteps
  <2>10. CASE Remove(t)
    BY <2>10, RemoveStep
  <2>11. CASE DropRoom(t)
    BY <2>11, DropRoomStep
  <2>12. CASE FindSink(t)
    BY <2>12, FindSinkStep
  <2>13. CASE AddSink(t)
    BY <2>13, AddSinkStep
  <2>14. CASE UnRegisterSink(t)
    BY <2>14, UnRegisterSinkStep
  <2> QED BY <2>1, <2>2, <2>3, <2>4, <2>5, <2>6, <2>7, <2>8, <2>9, <2>10, <2>11, <2>12,
             <2>13, <2>14 DEF Step
<1>2. CASE \E t \in Thread, d \in net : Take(t, d)
  BY <1>2, TakeStep
<1>3. CASE \E c \in Client : Speak(c)
  <2>1. rtp' = rtp /\ th' = th /\ granted' = granted
    BY <1>3 DEF Speak, Join, Leave, Refresh, Rebind, Vanish, Subscribe, Unsubscribe
  <2> QED BY <2>1 DEF IInv
<1>4. CASE \E c \in Client : Age(c)
  BY <1>4, AgeStep
<1>5. CASE \E d \in net : Lose(d)
  BY <1>5 DEF Lose, IInv
<1>6. CASE Expire
  BY <1>6, ExpireStep
<1> QED BY <1>1, <1>2, <1>3, <1>4, <1>5, <1>6 DEF Next

Clients == [Client -> [in : BOOLEAN, silent : BOOLEAN, wants : SUBSET Client, addr : Addr]]

Outside ==
  /\ net \subseteq Datagram /\ client \in Clients
  /\ informed \in [Client -> BOOLEAN]
  /\ granted \subseteq Client \X (Addr \cup Client)
  /\ use \in Use

\* What the application and the clients know and send keeps its type.
LEMMA ThreadOutside ==
  ASSUME IInv, NEW t \in Thread, Step(t)
  PROVE  Outside'
<1>1. th[t].at # "Idle"
  BY DEF Step, FindRoom, MakeRoom, FindSource, MakeSource, Address, ReAddress, Touch,
     FindLeaver, Tell, Remove, LookEmpty, DropRoom, FindSink, AddSink, UnRegisterSink
<1>2. /\ th[t].msg.of \in Client /\ th[t].msg.from \in Addr
      /\ th[t].msg.dest \in Client
  BY <1>1, AtHand
<1>3. net' = net /\ client' = client
  BY DEF Step, FindRoom, MakeRoom, FindSource, MakeSource, Address, ReAddress, Touch,
     FindLeaver, Tell, Remove, LookEmpty, DropRoom, FindSink, AddSink, UnRegisterSink
<1>4. \/ informed' = informed
      \/ informed' = [informed EXCEPT ![th[t].msg.of] = TRUE]
      \/ informed' = [informed EXCEPT ![th[t].msg.of] = FALSE]
  BY DEF Step, FindRoom, MakeRoom, FindSource, MakeSource, Address, ReAddress, Touch,
     FindLeaver, Tell, Remove, LookEmpty, DropRoom, FindSink, AddSink, UnRegisterSink, AskSource
<1>5. \/ granted' = granted
      \/ granted' = granted \cup {<<th[t].msg.of, th[t].msg.from>>}
      \/ granted' = granted \cup {<<th[t].msg.of, th[t].msg.dest>>}
  BY DEF Step, FindRoom, MakeRoom, FindSource, MakeSource, Address, ReAddress, Touch,
     FindLeaver, Tell, Remove, LookEmpty, DropRoom, FindSink, AddSink, UnRegisterSink, AskSource,
     Accepts, Refuses
<1>6. use' = use \/ Refuses
  BY DEF Step, FindRoom, MakeRoom, FindSource, MakeSource, Address, ReAddress, Touch,
     FindLeaver, Tell, Remove, LookEmpty, DropRoom, FindSink, AddSink, UnRegisterSink, AskSource
<1>7. use' \in Use
  BY <1>6 DEF Refuses, IInv, TypeOK, Use
<1>8. informed' \in [Client -> BOOLEAN]
  BY <1>2, <1>4 DEF IInv, TypeOK
<1>9. granted' \subseteq Client \X (Addr \cup Client)
  BY <1>2, <1>5 DEF IInv, TypeOK
<1> QED BY <1>3, <1>7, <1>8, <1>9 DEF Outside, Clients, IInv, TypeOK

LEMMA ClientOutside ==
  ASSUME IInv, NEW c \in Client, Speak(c)
  PROVE  Outside'
<1>1. client \in Clients /\ use \in Use /\ net \subseteq Datagram
      /\ informed' = informed /\ granted' = granted
  BY DEF Speak, Join, Leave, Refresh, Rebind, Vanish, Subscribe, Unsubscribe,
     IInv, TypeOK, Clients
<1>2. \A k \in Kind, d \in Client : Command(k, c, d) \in Datagram
  BY <1>1 DEF Command, Datagram, Clients
<1>3. \/ net' = net
      \/ \E ds \in SUBSET Datagram : net' = net \cup ds
  <2>1. CASE Join(c)
    BY <1>2, <2>1 DEF Join, Send, Kind
  <2>2. CASE Leave(c)
    BY <1>2, <2>2 DEF Leave, Send, Kind
  <2>3. CASE Refresh(c)
    <3>1. client[c].wants \subseteq Client
      BY <1>1 DEF Clients
    <3>2. {Command("RegisterSource", c, c)}
            \cup {Command("RegisterSink", c, d) : d \in client[c].wants} \subseteq Datagram
      BY <1>2, <3>1 DEF Kind
    <3> QED BY <2>3, <3>2 DEF Refresh, Send
  <2>4. CASE Rebind(c) \/ Vanish(c)
    BY <2>4 DEF Rebind, Vanish
  <2>5. CASE \E d \in Client : Subscribe(c, d)
    BY <1>2, <2>5 DEF Subscribe, Send, Kind
  <2>6. CASE \E d \in Client : Unsubscribe(c, d)
    BY <1>2, <2>6 DEF Unsubscribe, Send, Kind
  <2> QED BY <2>1, <2>2, <2>3, <2>4, <2>5, <2>6 DEF Speak
<1>4. client' \in Clients
  <2>1. client[c] \in [in : BOOLEAN, silent : BOOLEAN, wants : SUBSET Client, addr : Addr]
    BY <1>1 DEF Clients
  <2>2. CASE Join(c)
    BY <1>1, <2>1, <2>2 DEF Join, Clients
  <2>3. CASE Leave(c)
    BY <1>1, <2>1, <2>3 DEF Leave, Clients
  <2>4. CASE Refresh(c)
    BY <1>1, <2>4 DEF Refresh
  <2>5. CASE Rebind(c)
    BY <1>1, <2>1, <2>5 DEF Rebind, Clients
  <2>6. CASE Vanish(c)
    BY <1>1, <2>1, <2>6 DEF Vanish, Clients
  <2>7. CASE \E d \in Client : Subscribe(c, d)
    BY <1>1, <2>1, <2>7 DEF Subscribe, Clients
  <2>8. CASE \E d \in Client : Unsubscribe(c, d)
    BY <1>1, <2>1, <2>8 DEF Unsubscribe, Clients
  <2> QED BY <2>2, <2>3, <2>4, <2>5, <2>6, <2>7, <2>8 DEF Speak
<1>5. use' \in Use
  <2>1. \/ use' = use
        \/ use.leaves > 0 /\ use' = [use EXCEPT !.leaves = @ - 1]
        \/ use.rebinds > 0 /\ use' = [use EXCEPT !.rebinds = @ - 1]
    BY DEF Speak, Join, Leave, Refresh, Rebind, Vanish, Subscribe, Unsubscribe
  <2> QED BY <1>1, <2>1 DEF Use
<1>6. net' \subseteq Datagram
  BY <1>1, <1>3
<1> QED BY <1>1, <1>4, <1>5, <1>6 DEF Outside, IInv, TypeOK

LEMMA NextOutside ==
  ASSUME IInv, Next
  PROVE  Outside'
<1>1. CASE \E t \in Thread : Step(t)
  BY <1>1, ThreadOutside
<1>2. CASE \E t \in Thread, d \in net : Take(t, d)
  BY <1>2 DEF Take, Outside, Clients, IInv, TypeOK
<1>3. CASE \E c \in Client : Speak(c)
  BY <1>3, ClientOutside
<1>4. CASE \E c \in Client : Age(c)
  <2>1. use' = use \/ (use.delays > 0 /\ use' = [use EXCEPT !.delays = @ - 1])
    BY <1>4 DEF Age
  <2>2. use' \in Use
    BY <2>1 DEF Use, IInv, TypeOK
  <2> QED BY <1>4, <2>2 DEF Age, Outside, Clients, IInv, TypeOK
<1>5. CASE \E d \in net : Lose(d)
  <2>1. use.losses > 0 /\ use' = [use EXCEPT !.losses = @ - 1]
    BY <1>5 DEF Lose
  <2>2. use' \in Use
    BY <2>1 DEF Use, IInv, TypeOK
  <2> QED BY <1>5, <2>2 DEF Lose, Outside, Clients, IInv, TypeOK
<1>6. CASE Expire
  <2>1. use' = use \/ (use.delays > 0 /\ use' = [use EXCEPT !.delays = @ - 1])
    BY <1>6 DEF Expire
  <2>2. use' \in Use
    BY <2>1 DEF Use, IInv, TypeOK
  <2>3. informed' \in [Client -> BOOLEAN]
    BY <1>6 DEF Expire
  <2> QED BY <1>6, <2>2, <2>3 DEF Expire, Outside, Clients, IInv, TypeOK
<1> QED BY <1>1, <1>2, <1>3, <1>4, <1>5, <1>6 DEF Next

\* The invariant holds at the start.
LEMMA InitInv == Init => IInv
<1> SUFFICES ASSUME Init PROVE IInv
  OBVIOUS
<1>1. TypeOK
  BY RtpRoomAssumption DEF Init, TypeOK, Tables, Work, Steps, Idle, Nothing, NoSource, Source
<1>2. \A c \in Client, o \in Obj : ~Owns(rtp, th, c, o)
  BY RtpRoomAssumption DEF Init, Owns, Nothing, Idle
<1>3. OneOwner(rtp, th) /\ Agreed(rtp, th, granted)
  BY <1>2 DEF OneOwner, Agreed
<1>4. Cleared(rtp, th)
  BY DEF Init, Cleared
<1>5. \A t \in Thread : InPlace(th[t], granted)
  BY DEF Init, Idle, InPlace
<1> QED BY <1>1, <1>3, <1>4, <1>5 DEF IInv, Good, TypeOK

\* Every step keeps it.
LEMMA NextInv == IInv /\ [Next]_vars => IInv'
<1> SUFFICES ASSUME IInv, [Next]_vars PROVE IInv'
  OBVIOUS
<1>1. CASE Next
  <2>1. Good(rtp', th', granted') /\ Outside'
    BY <1>1, NextGood, NextOutside
  <2> QED BY <2>1 DEF IInv, TypeOK, Good, Outside, Clients
<1>2. CASE UNCHANGED vars
  <2>1. rtp' = rtp /\ th' = th /\ net' = net /\ client' = client
        /\ informed' = informed /\ granted' = granted /\ use' = use
    BY <1>2 DEF vars
  <2> QED BY <2>1 DEF IInv, TypeOK
<1> QED BY <1>1, <1>2

LEMMA Invariant == Spec => []IInv
BY InitInv, NextInv, PTL DEF Spec

-----------------------------------------------------------------------------
(* Orderly uses.  In the tables h, with the threads w, the datagrams n, the *)
(* clients q and the application's list i.                                 *)

\* The room of the port, the source a client has there, and whether it is
\* about to expire.
RoomIn(h)      == IF h.port = None THEN None ELSE h.rooms[h.port]
MemberIn(h, c) == IF RoomIn(h) = None THEN None ELSE h.members[RoomIn(h)][c]
StaleIn(h, c)  == MemberIn(h, c) # None /\ h.obj[MemberIn(h, c)].stale

Busy(w, n, c) ==
  \/ \E d \in n : d.of = c
  \/ \E t \in Thread : w[t].at # "Idle" /\ w[t].msg.of = c

\* A command that enters or leaves.
Moving == {"RegisterSource", "UnRegisterSource"}

\* Every thread at work has the session and the room that are there.
Present(h, w) ==
  \A t \in Thread : w[t].at # "Idle" =>
    /\ w[t].ses = h.port
    /\ w[t].at \notin {"Room", "MakeRoom"} => w[t].room = RoomIn(h)

\* Guests have commands under way only while the host is there, which does
\* not leave.
Hosted(h, w, n, q) ==
  /\ ~q[Host].silent
  /\ \A d \in n : d.of = Host => d.kind # "UnRegisterSource"
  /\ \A t \in Thread : w[t].at # "Idle" /\ w[t].msg.of = Host =>
       w[t].msg.kind # "UnRegisterSource"
  /\ \A c \in Client \ {Host} : Busy(w, n, c) => MemberIn(h, Host) # None

\* A client enters or leaves with one command at a time.
Single(w, n) ==
  /\ \A d, e \in n : d.of = e.of /\ d.kind \in Moving /\ e.kind \in Moving => d = e
  /\ \A t, u \in Thread :
       w[t].at # "Idle" /\ w[u].at # "Idle" /\ w[t].msg.of = w[u].msg.of
         /\ w[t].msg.kind \in Moving /\ w[u].msg.kind \in Moving => t = u
  /\ \A t \in Thread, d \in n : w[t].at # "Idle" /\ w[t].msg.of = d.of =>
       w[t].msg.kind \notin Moving \/ d.kind \notin Moving

\* A source that is about to expire has a client that says no more.
Silent(h, w, n, q) == \A c \in Client : StaleIn(h, c) => q[c].silent /\ ~Busy(w, n, c)

\* The application was told of an entry that is still to be made, or of a
\* removal that is.
Entering(p) == p.at \in {"MakeRoom", "MakeSource"} \/ (p.at = "Source" /\ ~p.cb)
Between(p)  == Entering(p) \/ p.at = "Remove"

Turn(h, p, i) ==
  /\ p.msg.kind = "RegisterSource" =>
       p.at \in {"Room", "MakeRoom", "Source", "MakeSource", "Address", "ReAddress", "Touch"}
  /\ p.msg.kind = "UnRegisterSource" => p.at \in {"Room", "Member", "Tell", "Remove", "IsEmpty"}
  /\ p.msg.kind \notin Moving => p.at \in {"Room", "Member", "AddSink"}
  /\ p.at \in {"Room", "MakeRoom"} => ~p.cb
  /\ Entering(p) => i[p.msg.of] /\ MemberIn(h, p.msg.of) = None
  /\ p.at = "Tell" => MemberIn(h, p.msg.of) # None
  /\ p.at = "Remove" => ~i[p.msg.of] /\ MemberIn(h, p.msg.of) # None

\* Otherwise its list is right.
Right(h, i, c)     == i[c] <=> MemberIn(h, c) # None
Listed(h, w, i, c) ==
  \/ Right(h, i, c)
  \/ \E t \in Thread : w[t].at # "Idle" /\ w[t].msg.of = c /\ Between(w[t])

Order(h, w, n, q, i) ==
  /\ Present(h, w) /\ Hosted(h, w, n, q) /\ Single(w, n) /\ Silent(h, w, n, q)
  /\ \A t \in Thread : w[t].at # "Idle" => Turn(h, w[t], i)
  /\ \A c \in Client : Listed(h, w, i, c)

\* A session that nobody points at has no room.
Unused(h, w) == \A s \in Ses \ LiveSes(h, w) : h.rooms[s] = None

Ordered == Order(rtp, th, net, client, informed) /\ Unused(rtp, th)

OrderlyInv == use.orderly => use.delays = 0 /\ Ordered

\* What is alive is as it was for the port as well.
LEMMA DestroyRoom ==
  ASSUME NEW h \in Tables, NEW w \in [Thread -> Work]
  PROVE  /\ Destroy(h, w) \in Tables
         /\ Destroy(h, w).port = h.port
         /\ RoomIn(Destroy(h, w)) = RoomIn(h)
         /\ \A c \in Client : /\ MemberIn(Destroy(h, w), c) = MemberIn(h, c)
                              /\ StaleIn(Destroy(h, w), c) => StaleIn(h, c)
         /\ Unused(Destroy(h, w), w)
<1> DEFINE k == Destroy(h, w)
<1>1. /\ k \in Tables /\ LiveRoom(k, w) = LiveRoom(h, w)
      /\ \A r \in Room : k.members[r] = IF r \in LiveRoom(h, w) THEN h.members[r] ELSE Nothing
      /\ \A o \in Obj : k.obj[o] = IF o \in LiveObj(h, w) THEN h.obj[o] ELSE NoSource
  BY DestroyFacts
<1>2. /\ k.port = h.port
      /\ \A s \in Ses : k.rooms[s] = IF s \in LiveSes(h, w) THEN h.rooms[s] ELSE None
  BY DEF Destroy
<1>3. k.port # None => k.port \in LiveSes(h, w) /\ k.port \in Ses
  BY <1>2 DEF LiveSes, Tables
<1>4. RoomIn(k) = RoomIn(h)
  BY <1>2, <1>3 DEF RoomIn
<1>5. RoomIn(h) # None => RoomIn(h) \in Room /\ RoomIn(h) \in LiveRoom(h, w)
  BY <1>2, <1>3 DEF RoomIn, LiveRoom, Tables
<1>6. \A c \in Client : MemberIn(k, c) = MemberIn(h, c)
  BY <1>1, <1>4, <1>5 DEF MemberIn
<1>7. ASSUME NEW c \in Client, StaleIn(k, c) PROVE StaleIn(h, c)
  <2>1. MemberIn(h, c) # None /\ RoomIn(h) # None
    BY <1>6, <1>7 DEF StaleIn, MemberIn
  <2>2. MemberIn(h, c) \in Obj
    BY <1>5, <2>1 DEF MemberIn, Tables
  <2>3. k.obj[MemberIn(h, c)].stale
    BY <1>6, <1>7 DEF StaleIn
  <2>4. k.obj[MemberIn(h, c)] = h.obj[MemberIn(h, c)]
    BY <1>1, <2>2, <2>3 DEF NoSource
  <2> QED BY <2>1, <2>3, <2>4 DEF StaleIn
<1>8. LiveSes(k, w) = LiveSes(h, w)
  BY <1>2 DEF LiveSes
<1>9. Unused(k, w)
  BY <1>2, <1>8 DEF Unused
<1> QED BY <1>1, <1>2, <1>4, <1>6, <1>7, <1>9

\* Order survives what Destroy does.
LEMMA DestroyOrder ==
  ASSUME NEW h \in Tables, NEW w \in [Thread -> Work], NEW n, NEW q, NEW i,
         Host \in Client,
         \A t \in Thread : w[t].at # "Idle" => w[t].msg \in Datagram,
         Order(h, w, n, q, i)
  PROVE  Order(Destroy(h, w), w, n, q, i) /\ Unused(Destroy(h, w), w)
<1> DEFINE k == Destroy(h, w)
<1>1. /\ k.port = h.port /\ RoomIn(k) = RoomIn(h) /\ Unused(k, w)
      /\ \A c \in Client : /\ MemberIn(k, c) = MemberIn(h, c)
                           /\ StaleIn(k, c) => StaleIn(h, c)
  BY DestroyRoom
<1> HIDE DEF k
<1>2. Present(k, w) /\ Hosted(k, w, n, q) /\ Single(w, n)
  BY <1>1 DEF Order, Present, Hosted
<1>3. Silent(k, w, n, q)
  BY <1>1 DEF Order, Silent
<1>4. ASSUME NEW t \in Thread, w[t].at # "Idle" PROVE Turn(k, w[t], i)
  <2>1. w[t].msg.of \in Client
    BY <1>4 DEF Datagram
  <2>2. MemberIn(k, w[t].msg.of) = MemberIn(h, w[t].msg.of)
    BY <1>1, <2>1
  <2>3. Turn(h, w[t], i)
    BY <1>4 DEF Order
  <2> QED BY <2>2, <2>3 DEF Turn
<1>5. \A c \in Client : Listed(k, w, i, c)
  BY <1>1 DEF Order, Listed, Right
<1>6. Order(k, w, n, q, i)
  BY <1>2, <1>3, <1>4, <1>5 DEF Order
<1> QED BY <1>1, <1>6 DEF k

LEMMA MemberIs ==
  /\ \A c : Member(c) = MemberIn(rtp, c)
  /\ \A c : UnderWay(c) = Busy(th, net, c)
BY DEF Member, MemberIn, RoomIn, UnderWay, Busy

\* The room and the source of a thread past its lookups are those of the port.
LEMMA HereIs ==
  ASSUME IInv, Ordered, NEW t \in Thread, th[t].at \notin {"Idle", "Room", "MakeRoom"}
  PROVE  /\ th[t].room = RoomIn(rtp) /\ RoomIn(rtp) \in Room
         /\ Here(t) = MemberIn(rtp, th[t].msg.of)
<1>1. th[t].room \in Room
  BY FoundHere
<1>2. th[t].room = RoomIn(rtp)
  BY DEF Ordered, Order, Present
<1>3. th[t].room # None
  BY <1>1, RtpRoomAssumption
<1> QED BY <1>1, <1>2, <1>3 DEF Here, MemberIn

\* While a thread works on a client's entry or departure and is not between
\* the two, the list is right about this client.
LEMMA Settled ==
  ASSUME IInv, Ordered, NEW t \in Thread, th[t].at # "Idle",
         th[t].msg.kind \in Moving, ~Between(th[t])
  PROVE  Right(rtp, informed, th[t].msg.of)
<1>1. th[t].msg.of \in Client
  BY AtHand
<1>2. ASSUME NEW u \in Thread, th[u].at # "Idle", th[u].msg.of = th[t].msg.of,
             Between(th[u])
      PROVE  FALSE
  <2>1. th[u].msg.kind \in Moving
    <3>1. Turn(rtp, th[u], informed)
      BY <1>2 DEF Ordered, Order
    <3> QED BY <1>2, <3>1 DEF Turn, Between, Entering
  <2>2. u = t
    BY <1>2, <2>1 DEF Ordered, Order, Single
  <2> QED BY <1>2, <2>2
<1>3. Listed(rtp, th, informed, th[t].msg.of)
  BY <1>1 DEF Ordered, Order
<1> QED BY <1>2, <1>3 DEF Listed

\* A thread goes on with its command, or has done with it.
LEMMA Onward ==
  ASSUME IInv, Ordered, NEW t \in Thread, th[t].at # "Idle",
         NEW h \in Tables, NEW p \in Work, NEW i,
         Becomes(t, h, p), h.port = rtp.port,
         p.at # "Idle" => p.msg = th[t].msg /\ p.ses = th[t].ses,
         p.at \notin {"Idle", "Room", "MakeRoom"} => p.room = RoomIn(h),
         RoomIn(rtp) = None \/ RoomIn(h) = RoomIn(rtp),
         \A c \in Client \ {th[t].msg.of} :
           MemberIn(h, c) = MemberIn(rtp, c) /\ i[c] = informed[c],
         th[t].msg.kind \notin Moving =>
           /\ MemberIn(h, th[t].msg.of) = MemberIn(rtp, th[t].msg.of)
           /\ i[th[t].msg.of] = informed[th[t].msg.of],
         \A c \in Client : StaleIn(h, c) => StaleIn(rtp, c),
         MemberIn(rtp, Host) # None => MemberIn(h, Host) # None,
         p.at # "Idle" => Turn(h, p, i),
         th[t].msg.kind \in Moving =>
           Right(h, i, th[t].msg.of) \/ Between(p)
  PROVE  Order(rtp', th', net, client, i) /\ Unused(rtp', th')
<1> DEFINE w == [th EXCEPT ![t] = p]
           m == th[t].msg.of
<1>1. /\ w \in [Thread -> Work] /\ th' = w /\ rtp' = Destroy(h, w)
      /\ \A u \in Thread : w[u] = IF u = t THEN p ELSE th[u]
  BY DEF IInv, TypeOK, Becomes
<1> HIDE DEF w
<1>2. Host \in Client
  BY RtpRoomAssumption
<1>3. \A u \in Thread : /\ th[u].at # "Idle" => th[u].msg \in Datagram
                        /\ th[u].at \notin {"Idle", "Room", "MakeRoom"} => th[u].room \in Room
  BY DEF IInv, Good, InPlace
<1>4. \A u \in Thread : w[u].at # "Idle" => th[u].at # "Idle" /\ w[u].msg = th[u].msg
  BY <1>1
<1>5. \A c : Busy(w, net, c) => Busy(th, net, c)
  BY <1>4 DEF Busy
<1>6. Present(h, w)
  <2> SUFFICES ASSUME NEW u \in Thread, w[u].at # "Idle"
               PROVE  /\ w[u].ses = h.port
                      /\ w[u].at \notin {"Room", "MakeRoom"} => w[u].room = RoomIn(h)
    BY DEF Present
  <2>1. CASE u = t
    <3>1. th[t].ses = rtp.port
      BY DEF Ordered, Order, Present
    <3> QED BY <1>1, <2>1, <3>1
  <2>2. CASE u # t
    <3>1. w[u] = th[u]
      BY <1>1, <2>2
    <3>2. /\ th[u].ses = rtp.port
          /\ th[u].at \notin {"Room", "MakeRoom"} => th[u].room = RoomIn(rtp)
      BY <3>1 DEF Ordered, Order, Present
    <3>3. th[u].at \notin {"Room", "MakeRoom"} => RoomIn(rtp) # None
      BY <1>3, <3>1, <3>2, RtpRoomAssumption
    <3> QED BY <3>1, <3>2, <3>3
  <2> QED BY <2>1, <2>2
<1>7. Hosted(h, w, net, client)
  <2>1. Hosted(rtp, th, net, client)
    BY DEF Ordered, Order
  <2> QED BY <1>4, <1>5, <2>1 DEF Hosted
<1>8. Single(w, net)
  <2>1. Single(th, net)
    BY DEF Ordered, Order
  <2> QED BY <1>4, <2>1 DEF Single
<1>9. Silent(h, w, net, client)
  <2>1. Silent(rtp, th, net, client)
    BY DEF Ordered, Order
  <2> QED BY <1>5, <2>1 DEF Silent
<1>10. ASSUME NEW u \in Thread, w[u].at # "Idle" PROVE Turn(h, w[u], i)
  <2>1. CASE u = t
    BY <1>1, <1>10, <2>1
  <2>2. CASE u # t
    <3>1. w[u] = th[u] /\ th[u].msg.of \in Client
      BY <1>1, <1>3, <1>10, <2>2 DEF Datagram
    <3>2. Turn(rtp, th[u], informed)
      BY <1>10, <3>1 DEF Ordered, Order
    <3>3. CASE th[u].msg.kind \notin Moving
      BY <3>1, <3>2, <3>3 DEF Turn, Entering
    <3>4. CASE th[u].msg.kind \in Moving
      <4>1. th[u].msg.of = m => th[t].msg.kind \notin Moving
        BY <1>10, <2>2, <3>1, <3>4 DEF Ordered, Order, Single
      <4>2. /\ MemberIn(h, th[u].msg.of) = MemberIn(rtp, th[u].msg.of)
            /\ i[th[u].msg.of] = informed[th[u].msg.of]
        BY <3>1, <4>1
      <4> QED BY <3>1, <3>2, <4>2 DEF Turn
    <3> QED BY <3>3, <3>4
  <2> QED BY <2>1, <2>2
<1>11. ASSUME NEW c \in Client PROVE Listed(h, w, i, c)
  <2>1. Listed(rtp, th, informed, c)
    BY DEF Ordered, Order
  <2>2. CASE c = m /\ th[t].msg.kind \in Moving
    <3>1. Between(p) => p.at # "Idle"
      BY DEF Between, Entering
    <3>2. Between(p) => w[t].at # "Idle" /\ w[t].msg.of = m /\ Between(w[t])
      BY <1>1, <3>1
    <3> QED BY <2>2, <3>2 DEF Listed
  <2>3. CASE c # m \/ th[t].msg.kind \notin Moving
    <3>1. MemberIn(h, c) = MemberIn(rtp, c) /\ i[c] = informed[c]
      BY <2>3
    <3>2. Right(rtp, informed, c) => Right(h, i, c)
      BY <3>1 DEF Right
    <3>3. ASSUME NEW u \in Thread, th[u].at # "Idle", th[u].msg.of = c, Between(th[u])
          PROVE  w[u].at # "Idle" /\ w[u].msg.of = c /\ Between(w[u])
      <4>1. u # t
        <5>1. Turn(rtp, th[u], informed)
          BY <3>3 DEF Ordered, Order
        <5>2. th[u].msg.kind \in Moving
          BY <3>3, <5>1 DEF Turn, Between, Entering
        <5> QED BY <2>3, <3>3, <5>2
      <4> QED BY <1>1, <3>3, <4>1
    <3> QED BY <2>1, <3>2, <3>3 DEF Listed
  <2> QED BY <2>2, <2>3
<1>12. Order(h, w, net, client, i)
  BY <1>6, <1>7, <1>8, <1>9, <1>10, <1>11 DEF Order
<1>13. \A u \in Thread : w[u].at # "Idle" => w[u].msg \in Datagram
  BY <1>3, <1>4
<1> QED BY <1>1, <1>2, <1>12, <1>13, DestroyOrder

\* A thread that leaves the rooms as they are.
LEMMA Inside ==
  ASSUME IInv, Ordered, NEW t \in Thread, th[t].at # "Idle",
         NEW h \in Tables, NEW p \in Work, NEW i,
         Becomes(t, h, p), h.port = rtp.port, h.rooms = rtp.rooms, h.members = rtp.members,
         \A o \in Obj : h.obj[o].stale => rtp.obj[o].stale,
         p.at # "Idle" => p.msg = th[t].msg /\ p.ses = th[t].ses,
         p.at \notin {"Idle", "Room", "MakeRoom"} => p.room = RoomIn(rtp),
         \A c \in Client \ {th[t].msg.of} : i[c] = informed[c],
         th[t].msg.kind \notin Moving => i[th[t].msg.of] = informed[th[t].msg.of],
         p.at # "Idle" => Turn(rtp, p, i),
         th[t].msg.kind \in Moving => Right(rtp, i, th[t].msg.of) \/ Between(p)
  PROVE  Order(rtp', th', net, client, i) /\ Unused(rtp', th')
<1>1. RoomIn(h) = RoomIn(rtp) /\ \A c : MemberIn(h, c) = MemberIn(rtp, c)
  BY DEF RoomIn, MemberIn
<1>2. ASSUME NEW c \in Client, StaleIn(h, c) PROVE StaleIn(rtp, c)
  <2>1. MemberIn(rtp, c) # None /\ h.obj[MemberIn(rtp, c)].stale
    BY <1>1, <1>2 DEF StaleIn
  <2>2. rtp.port \in Ses /\ RoomIn(rtp) \in Room /\ MemberIn(rtp, c) = rtp.members[RoomIn(rtp)][c]
    BY <2>1 DEF IInv, TypeOK, Tables, MemberIn, RoomIn
  <2>3. MemberIn(rtp, c) \in Obj
    BY <2>1, <2>2 DEF IInv, TypeOK, Tables
  <2> QED BY <2>1, <2>3 DEF StaleIn
<1>3. p.at # "Idle" => Turn(h, p, i)
  BY <1>1 DEF Turn
<1>4. Right(rtp, i, th[t].msg.of) => Right(h, i, th[t].msg.of)
  BY <1>1 DEF Right
<1> QED BY <1>1, <1>2, <1>3, <1>4, Onward

LEMMA IdleWork == Idle \in Work /\ Idle.at = "Idle"
BY DEF Idle, Work, Steps

\* A thread that has done with its command, and leaves the list right.
LEMMA Ends ==
  ASSUME IInv, Ordered, NEW t \in Thread, th[t].at # "Idle", ~Between(th[t]),
         NEW h \in Tables,
         Becomes(t, h, Idle), h.port = rtp.port, h.rooms = rtp.rooms, h.members = rtp.members,
         \A o \in Obj : h.obj[o].stale => rtp.obj[o].stale
  PROVE  Order(rtp', th', net, client, informed) /\ Unused(rtp', th')
<1>1. th[t].msg.kind \in Moving => Right(rtp, informed, th[t].msg.of)
  BY Settled
<1> QED BY <1>1, IdleWork, Inside

\* A thread that asks the application about its source, which it has in the
\* room or is about to make.
LEMMA AsksInTurn ==
  ASSUME IInv, Ordered, NEW t \in Thread, th[t].at # "Idle", ~Between(th[t]),
         th[t].msg.kind = "RegisterSource",
         NEW p \in Work, AskSource(t, p),
         p.msg = th[t].msg, p.ses = th[t].ses,
         p.at \notin {"Idle", "Room", "MakeRoom"} => p.room = RoomIn(rtp),
         \/ p.at = "MakeRoom" /\ ~p.cb /\ MemberIn(rtp, th[t].msg.of) = None
         \/ p.at = "MakeSource" /\ MemberIn(rtp, th[t].msg.of) = None
         \/ p.at = "ReAddress" /\ MemberIn(rtp, th[t].msg.of) # None,
         net' = net, client' = client
  PROVE  Ordered'
<1>1. rtp \in Tables /\ th[t].msg.of \in Client /\ informed \in [Client -> BOOLEAN]
  BY AtHand DEF IInv, TypeOK
<1>2. CASE Becomes(t, rtp, p) /\ informed' = [informed EXCEPT ![th[t].msg.of] = TRUE]
  <2> DEFINE i == [informed EXCEPT ![th[t].msg.of] = TRUE]
  <2>1. i[th[t].msg.of] /\ \A c \in Client \ {th[t].msg.of} : i[c] = informed[c]
    BY <1>1
  <2> HIDE DEF i
  <2>2. Turn(rtp, p, i)
    BY <2>1 DEF Turn, Entering, Moving
  <2>3. Right(rtp, i, th[t].msg.of) \/ Between(p)
    BY <2>1 DEF Right, Between, Entering
  <2>4. Order(rtp', th', net, client, i) /\ Unused(rtp', th')
    BY <1>1, <1>2, <2>1, <2>2, <2>3, Inside DEF Moving
  <2>5. informed' = i
    BY <1>2 DEF i
  <2> QED BY <2>4, <2>5 DEF Ordered
<1>3. CASE Becomes(t, rtp, Idle) /\ informed' = informed
  <2>1. Order(rtp', th', net, client, informed) /\ Unused(rtp', th')
    BY <1>1, <1>3, Ends
  <2> QED BY <1>3, <2>1 DEF Ordered
<1> QED BY <1>2, <1>3 DEF AskSource

-----------------------------------------------------------------------------
(* The steps of a thread in an orderly use. *)

LEMMA FindRoomOrdered ==
  ASSUME IInv, Ordered, NEW t \in Thread, FindRoom(t)
  PROVE  Ordered'
<1> DEFINE r == rtp.rooms[th[t].ses]
           registers == th[t].msg.kind = "RegisterSource"
<1>1. th[t].at = "Room" /\ th[t].ses \in Ses /\ th[t] \in Work
      /\ th[t].msg.of \in Client /\ r \in Room \cup {None} /\ rtp \in Tables
      /\ net' = net /\ client' = client
  BY AtHand DEF FindRoom, IInv, TypeOK, Tables
<1>2. r = RoomIn(rtp) /\ ~Between(th[t])
  <2>1. th[t].ses = rtp.port /\ th[t].ses # None
    BY <1>1, RtpRoomAssumption DEF Ordered, Order, Present
  <2> QED BY <1>1, <2>1 DEF RoomIn, Between, Entering
<1>3. CASE r # None
  <2> DEFINE p == [Goes(t, IF registers THEN "Source" ELSE "Member")
                     EXCEPT !.room = r, !.cb = registers]
  <2>1. Becomes(t, rtp, p) /\ informed' = informed
    BY <1>3 DEF FindRoom
  <2>2. p \in Work /\ p.at = (IF registers THEN "Source" ELSE "Member")
        /\ p.msg = th[t].msg /\ p.ses = th[t].ses /\ p.room = r /\ p.cb = registers
    BY <1>1, <1>3 DEF Goes, Work, Steps
  <2> HIDE DEF p
  <2>3. Turn(rtp, p, informed)
    BY <2>2 DEF Turn, Entering, Moving
  <2>4. th[t].msg.kind \in Moving => Right(rtp, informed, th[t].msg.of)
    BY <1>1, <1>2, Settled
  <2>5. Order(rtp', th', net, client, informed) /\ Unused(rtp', th')
    BY <1>1, <1>2, <2>1, <2>2, <2>3, <2>4, Inside
  <2> QED BY <1>1, <2>1, <2>5 DEF Ordered
<1>4. CASE r = None /\ registers
  <2> DEFINE p == Goes(t, "MakeRoom")
  <2>1. AskSource(t, p)
    BY <1>4 DEF FindRoom
  <2>2. ~th[t].cb
    BY <1>1 DEF Ordered, Order, Turn
  <2>3. p \in Work /\ p.at = "MakeRoom" /\ p.msg = th[t].msg /\ p.ses = th[t].ses /\ ~p.cb
    BY <1>1, <2>2 DEF Goes, Work, Steps
  <2>4. MemberIn(rtp, th[t].msg.of) = None
    BY <1>2, <1>4 DEF MemberIn
  <2> HIDE DEF p
  <2> QED BY <1>1, <1>2, <1>4, <2>1, <2>3, <2>4, AsksInTurn
<1>5. CASE Becomes(t, rtp, Idle) /\ informed' = informed
  <2>1. Order(rtp', th', net, client, informed) /\ Unused(rtp', th')
    BY <1>1, <1>2, <1>5, Ends
  <2> QED BY <1>1, <1>5, <2>1 DEF Ordered
<1> QED BY <1>3, <1>4, <1>5 DEF FindRoom

\* Only a first entry makes a room, and the room is empty.
LEMMA MakeRoomOrdered ==
  ASSUME IInv, Ordered, NEW t \in Thread, MakeRoom(t)
  PROVE  Ordered'
<1> DEFINE s == th[t].ses
           r == IF rtp.rooms[s] = None THEN NewRoom ELSE rtp.rooms[s]
           h == [rtp EXCEPT !.rooms[s] = r]
           p == [Goes(t, "Source") EXCEPT !.room = r]
<1>1. th[t].at = "MakeRoom" /\ Becomes(t, h, p) /\ informed' = informed
      /\ net' = net /\ client' = client
  BY DEF MakeRoom
<1>2. s \in Ses /\ r \in Room /\ th[t].msg.of \in Client /\ th[t] \in Work
  BY <1>1, AtHand DEF MakeRoom, NewRoom, FreeRoom, IInv, TypeOK, Tables
<1>3. s = rtp.port
  BY <1>1 DEF Ordered, Order, Present
<1>4. rtp.rooms[s] = RoomIn(rtp)
  BY <1>2, <1>3, RtpRoomAssumption DEF RoomIn
<1>5. RoomIn(rtp) = None => r \in Room \ LiveRoom(rtp, th)
  BY <1>4 DEF MakeRoom, NewRoom, FreeRoom
<1>6. h \in Tables /\ h.port = rtp.port /\ h.members = rtp.members /\ h.obj = rtp.obj
      /\ h.rooms[s] = r
  BY <1>2 DEF IInv, TypeOK, Tables
<1>7. p \in Work /\ p.at = "Source" /\ p.msg = th[t].msg /\ p.ses = th[t].ses
      /\ p.room = r /\ p.cb = th[t].cb
  BY <1>2 DEF Goes, Work, Steps
<1>8. RoomIn(rtp) = None \/ r = RoomIn(rtp)
  BY <1>4
<1> HIDE DEF h, p, r
<1>9. RoomIn(h) = r
  BY <1>2, <1>3, <1>6, RtpRoomAssumption DEF RoomIn
<1>10. r # None
  BY <1>2, RtpRoomAssumption
<1>11. \A c \in Client : MemberIn(h, c) = MemberIn(rtp, c)
  <2>1. CASE RoomIn(rtp) = None
    <3>1. rtp.members[r] = Nothing
      BY <1>5, <2>1 DEF IInv, Good, Cleared
    <3> QED BY <1>6, <1>9, <1>10, <2>1, <3>1 DEF MemberIn, Nothing
  <2>2. CASE r = RoomIn(rtp)
    BY <1>6, <1>9, <2>2 DEF MemberIn
  <2> QED BY <1>8, <2>1, <2>2
<1>12. \A c \in Client : StaleIn(h, c) => StaleIn(rtp, c)
  BY <1>6, <1>11 DEF StaleIn
<1>13. Turn(rtp, th[t], informed)
  BY <1>1 DEF Ordered, Order
<1>14. th[t].msg.kind = "RegisterSource" /\ ~th[t].cb
       /\ informed[th[t].msg.of] /\ MemberIn(rtp, th[t].msg.of) = None
  BY <1>1, <1>13 DEF Turn, Entering, Moving
<1>15. Turn(h, p, informed) /\ Between(p)
  BY <1>2, <1>7, <1>11, <1>14 DEF Turn, Entering, Between, Moving
<1>16. Host \in Client
  BY RtpRoomAssumption
<1>17. Order(rtp', th', net, client, informed) /\ Unused(rtp', th')
  BY <1>1, <1>6, <1>7, <1>8, <1>9, <1>11, <1>12, <1>14, <1>15, <1>16, Onward DEF Moving
<1> QED BY <1>1, <1>17 DEF Ordered

LEMMA FindSourceOrdered ==
  ASSUME IInv, Ordered, NEW t \in Thread, FindSource(t)
  PROVE  Ordered'
<1> DEFINE s == Here(t)
           found(step) == [Goes(t, step) EXCEPT !.src = s]
<1>1. th[t].at = "Source" /\ th[t] \in Work /\ th[t].msg.of \in Client /\ rtp \in Tables
      /\ net' = net /\ client' = client
  BY AtHand DEF FindSource, IInv, TypeOK
<1>2. s = MemberIn(rtp, th[t].msg.of) /\ th[t].room = RoomIn(rtp)
  BY <1>1, HereIs
<1>3. s \in Obj \cup {None}
  BY <1>1, FoundHere
<1>4. Turn(rtp, th[t], informed)
  BY <1>1 DEF Ordered, Order
<1>5. /\ th[t].msg.kind = "RegisterSource"
      /\ th[t].cb => ~Between(th[t])
      /\ ~th[t].cb => informed[th[t].msg.of] /\ s = None
  BY <1>1, <1>2, <1>4 DEF Turn, Entering, Between, Moving
<1>6. CASE s = None /\ th[t].cb
  <2> DEFINE p == Goes(t, "MakeSource")
  <2>1. AskSource(t, p)
    BY <1>6 DEF FindSource
  <2>2. p \in Work /\ p.at = "MakeSource" /\ p.msg = th[t].msg /\ p.ses = th[t].ses
        /\ p.room = th[t].room
    BY <1>1 DEF Goes, Work, Steps
  <2> HIDE DEF p
  <2> QED BY <1>1, <1>2, <1>5, <1>6, <2>1, <2>2, AsksInTurn
<1>7. CASE s # None /\ th[t].cb /\ AskSource(t, found("ReAddress"))
  <2> DEFINE p == found("ReAddress")
  <2>1. AskSource(t, p)
    BY <1>7
  <2>2. p \in Work /\ p.at = "ReAddress" /\ p.msg = th[t].msg /\ p.ses = th[t].ses
        /\ p.room = th[t].room
    BY <1>1, <1>3 DEF Goes, Work, Steps
  <2> HIDE DEF p
  <2> QED BY <1>1, <1>2, <1>5, <1>7, <2>1, <2>2, AsksInTurn
<1>8. CASE s = None /\ ~th[t].cb
  <2> DEFINE p == Goes(t, "MakeSource")
  <2>1. Becomes(t, rtp, p) /\ informed' = informed
    BY <1>8 DEF FindSource
  <2>2. p \in Work /\ p.at = "MakeSource" /\ p.msg = th[t].msg /\ p.ses = th[t].ses
        /\ p.room = th[t].room
    BY <1>1 DEF Goes, Work, Steps
  <2> HIDE DEF p
  <2>3. Turn(rtp, p, informed) /\ Between(p)
    BY <1>2, <1>5, <1>8, <2>2 DEF Turn, Entering, Between, Moving
  <2>4. Order(rtp', th', net, client, informed) /\ Unused(rtp', th')
    BY <1>1, <1>2, <1>5, <2>1, <2>2, <2>3, Inside DEF Moving
  <2> QED BY <1>1, <2>1, <2>4 DEF Ordered
<1>9. CASE s # None /\ Becomes(t, rtp, found("Touch")) /\ informed' = informed
  <2> DEFINE p == found("Touch")
  <2>1. Becomes(t, rtp, p)
    BY <1>9
  <2>2. p \in Work /\ p.at = "Touch" /\ p.msg = th[t].msg /\ p.ses = th[t].ses
        /\ p.room = th[t].room
    BY <1>1, <1>3 DEF Goes, Work, Steps
  <2> HIDE DEF p
  <2>3. Turn(rtp, p, informed)
    BY <1>5, <2>2 DEF Turn, Entering, Moving
  <2>4. Right(rtp, informed, th[t].msg.of)
    BY <1>1, <1>5, <1>9, Settled DEF Moving
  <2>5. Order(rtp', th', net, client, informed) /\ Unused(rtp', th')
    BY <1>1, <1>2, <2>1, <2>2, <2>3, <2>4, Inside
  <2> QED BY <1>1, <1>9, <2>5 DEF Ordered
<1> QED BY <1>5, <1>6, <1>7, <1>8, <1>9 DEF FindSource

\* A new source is not about to expire.
LEMMA MakeSourceOrdered ==
  ASSUME IInv, Ordered, NEW t \in Thread, MakeSource(t)
  PROVE  Ordered'
<1> DEFINE m == th[t].msg.of
           r == th[t].room
           s == NewObj
           h == [rtp EXCEPT !.members[r][m] = s]
           p == [Goes(t, "Address") EXCEPT !.src = s]
<1>1. th[t].at = "MakeSource" /\ th[t] \in Work /\ m \in Client
      /\ net' = net /\ client' = client /\ informed' = informed
  BY AtHand DEF MakeSource, IInv, TypeOK
<1>2. Here(t) = MemberIn(rtp, m) /\ r = RoomIn(rtp) /\ r \in Room
  BY <1>1, HereIs
<1>3. Turn(rtp, th[t], informed)
  BY <1>1 DEF Ordered, Order
<1>4. th[t].msg.kind = "RegisterSource" /\ informed[m] /\ MemberIn(rtp, m) = None
  BY <1>1, <1>3 DEF Turn, Entering, Moving
<1>5. Becomes(t, h, p)
  BY <1>2, <1>4 DEF MakeSource
<1>6. s \in Obj \ LiveObj(rtp, th)
  BY DEF MakeSource, NewObj, FreeObj
<1>7. h \in Tables /\ h.obj = rtp.obj /\ h.port = rtp.port /\ h.rooms = rtp.rooms
      /\ h.members[r][m] = s
      /\ \A c \in Client \ {m} : h.members[r][c] = rtp.members[r][c]
  BY <1>1, <1>2, <1>6 DEF IInv, TypeOK, Tables
<1>8. p \in Work /\ p.at = "Address" /\ p.msg = th[t].msg /\ p.ses = th[t].ses
      /\ p.room = r
  BY <1>1, <1>6 DEF Goes, Work, Steps
<1>9. ~rtp.obj[s].stale
  BY <1>6 DEF IInv, Good, Cleared, NoSource
<1> HIDE DEF h, p, s
<1>10. RoomIn(h) = RoomIn(rtp) /\ RoomIn(h) = r /\ r # None /\ s # None
  BY <1>2, <1>6, <1>7, RtpRoomAssumption DEF RoomIn
<1>11. MemberIn(h, m) = s /\ \A c \in Client \ {m} : MemberIn(h, c) = MemberIn(rtp, c)
  BY <1>7, <1>10 DEF MemberIn
<1>12. \A c \in Client : StaleIn(h, c) => StaleIn(rtp, c)
  BY <1>7, <1>9, <1>11 DEF StaleIn
<1>13. Turn(h, p, informed) /\ Right(h, informed, m)
  BY <1>4, <1>8, <1>10, <1>11 DEF Turn, Entering, Right, Moving
<1>14. Host \in Client /\ (MemberIn(rtp, Host) # None => MemberIn(h, Host) # None)
  BY <1>10, <1>11, RtpRoomAssumption
<1>15. Order(rtp', th', net, client, informed) /\ Unused(rtp', th')
  BY <1>1, <1>4, <1>5, <1>7, <1>8, <1>10, <1>11, <1>12, <1>13, <1>14, Onward DEF Moving
<1> QED BY <1>1, <1>15 DEF Ordered

LEMMA AddressOrdered ==
  ASSUME IInv, Ordered, NEW t \in Thread, Address(t) \/ AddSink(t)
  PROVE  Ordered'
<1> DEFINE o == th[t].src
<1>1. th[t].at \in {"Address", "AddSink"} /\ o \in Obj /\ ~Between(th[t])
      /\ net' = net /\ client' = client /\ informed' = informed
  BY AtHand DEF Address, AddSink, InPlace, Between, Entering
<1>2. rtp \in Tables /\ rtp.obj[o] \in Source /\ th[t].msg.from \in Addr
      /\ th[t].msg.dest \in Client /\ th[t].cb \in BOOLEAN
  BY <1>1, AtHand DEF IInv, TypeOK, Tables, Work
<1>3. \E x \in Source : x.stale = rtp.obj[o].stale
        /\ Becomes(t, [rtp EXCEPT !.obj = [rtp.obj EXCEPT ![o] = x]], Idle)
  <2>1. CASE Address(t)
    <3> DEFINE x == [rtp.obj[o] EXCEPT !.remote = th[t].msg.from, !.called = @ \/ th[t].cb]
    <3>1. [rtp EXCEPT !.obj[th[t].src].remote = th[t].msg.from,
                      !.obj[th[t].src].called = @ \/ th[t].cb]
          = [rtp EXCEPT !.obj = [rtp.obj EXCEPT ![o] = x]]
      BY <1>1, <1>2 DEF Tables, Source
    <3>2. x \in Source /\ x.stale = rtp.obj[o].stale
      BY <1>2 DEF Source
    <3> QED BY <2>1, <3>1, <3>2 DEF Address
  <2>2. CASE AddSink(t)
    <3> DEFINE x == [rtp.obj[o] EXCEPT !.sinks = @ \cup {th[t].msg.dest}]
    <3>1. [rtp EXCEPT !.obj[th[t].src].sinks = @ \cup {th[t].msg.dest}]
          = [rtp EXCEPT !.obj = [rtp.obj EXCEPT ![o] = x]]
      BY <1>1, <1>2 DEF Tables, Source
    <3>2. x \in Source /\ x.stale = rtp.obj[o].stale
      BY <1>2 DEF Source
    <3> QED BY <2>2, <3>1, <3>2 DEF AddSink
  <2> QED BY <2>1, <2>2
<1>4. PICK x \in Source : x.stale = rtp.obj[o].stale
        /\ Becomes(t, [rtp EXCEPT !.obj = [rtp.obj EXCEPT ![o] = x]], Idle)
  BY <1>3
<1> DEFINE h == [rtp EXCEPT !.obj = [rtp.obj EXCEPT ![o] = x]]
<1>5. h \in Tables /\ h.port = rtp.port /\ h.rooms = rtp.rooms /\ h.members = rtp.members
      /\ \A q \in Obj : h.obj[q].stale => rtp.obj[q].stale
  BY <1>1, <1>2, <1>4, NewValue
<1>6. Becomes(t, h, Idle)
  BY <1>4
<1> HIDE DEF h
<1>7. Order(rtp', th', net, client, informed) /\ Unused(rtp', th')
  BY <1>1, <1>5, <1>6, Ends
<1> QED BY <1>1, <1>7 DEF Ordered

LEMMA ReAddressOrdered ==
  ASSUME IInv, Ordered, NEW t \in Thread, ReAddress(t)
  PROVE  Ordered'
<1> DEFINE o == th[t].src
           x == [rtp.obj[o] EXCEPT !.remote = th[t].msg.from, !.called = TRUE]
           h == [rtp EXCEPT !.obj = [rtp.obj EXCEPT ![o] = x]]
           p == Goes(t, "Touch")
<1>1. th[t].at = "ReAddress" /\ o \in Obj /\ ~Between(th[t]) /\ th[t] \in Work
      /\ net' = net /\ client' = client /\ informed' = informed
  BY AtHand DEF ReAddress, InPlace, Between, Entering
<1>2. rtp \in Tables /\ rtp.obj[o] \in Source /\ th[t].msg.from \in Addr
      /\ th[t].msg.of \in Client
  BY <1>1, AtHand DEF IInv, TypeOK, Tables
<1>3. x \in Source /\ x.stale = rtp.obj[o].stale
  BY <1>2 DEF Source
<1>4. [rtp EXCEPT !.obj[th[t].src].remote = th[t].msg.from,
                  !.obj[th[t].src].called = TRUE] = h
  BY <1>1, <1>2 DEF Tables, Source
<1>5. Becomes(t, h, p)
  BY <1>4 DEF ReAddress
<1>6. p \in Work /\ p.at = "Touch" /\ p.msg = th[t].msg /\ p.ses = th[t].ses
      /\ p.room = th[t].room
  BY <1>1 DEF Goes, Work, Steps
<1> HIDE DEF x, p
<1>7. h \in Tables /\ h.port = rtp.port /\ h.rooms = rtp.rooms /\ h.members = rtp.members
      /\ \A q \in Obj : h.obj[q].stale => rtp.obj[q].stale
  BY <1>1, <1>2, <1>3, NewValue
<1> HIDE DEF h
<1>8. th[t].room = RoomIn(rtp)
  BY <1>1, HereIs
<1>9. Turn(rtp, th[t], informed)
  BY <1>1 DEF Ordered, Order
<1>10. th[t].msg.kind = "RegisterSource" /\ Turn(rtp, p, informed)
  BY <1>1, <1>6, <1>9 DEF Turn, Entering, Moving
<1>11. Right(rtp, informed, th[t].msg.of)
  BY <1>1, <1>10, Settled DEF Moving
<1>12. Order(rtp', th', net, client, informed) /\ Unused(rtp', th')
  BY <1>1, <1>5, <1>6, <1>7, <1>8, <1>10, <1>11, Inside
<1> QED BY <1>1, <1>12 DEF Ordered

LEMMA TouchOrdered ==
  ASSUME IInv, Ordered, NEW t \in Thread, Touch(t)
  PROVE  Ordered'
<1> DEFINE o == th[t].src
           x == [rtp.obj[o] EXCEPT !.stale = FALSE]
           h == [rtp EXCEPT !.obj[o].stale = FALSE]
<1>1. o \in Obj /\ Becomes(t, h, Idle) /\ th[t].at = "Touch" /\ ~Between(th[t])
      /\ net' = net /\ client' = client /\ informed' = informed
  BY AtHand DEF Touch, InPlace, Between, Entering
<1>2. rtp \in Tables /\ rtp.obj[o] \in Source
  BY <1>1 DEF IInv, TypeOK, Tables
<1>3. x \in Source /\ ~x.stale
  BY <1>2 DEF Source
<1>4. h = [rtp EXCEPT !.obj = [rtp.obj EXCEPT ![o] = x]]
  BY <1>1, <1>2 DEF Tables, Source
<1> HIDE DEF h, x
<1>5. h \in Tables /\ h.port = rtp.port /\ h.rooms = rtp.rooms /\ h.members = rtp.members
      /\ \A q \in Obj : h.obj[q].stale => rtp.obj[q].stale
  BY <1>1, <1>2, <1>3, <1>4, NewValue
<1>6. Order(rtp', th', net, client, informed) /\ Unused(rtp', th')
  BY <1>1, <1>5, Ends
<1> QED BY <1>1, <1>6 DEF Ordered

LEMMA FindLeaverOrdered ==
  ASSUME IInv, Ordered, NEW t \in Thread, FindLeaver(t)
  PROVE  Ordered'
<1> DEFINE p == Goes(t, "Tell")
<1>1. th[t].at = "Member" /\ th[t].msg.kind = "UnRegisterSource" /\ th[t] \in Work
      /\ ~Between(th[t]) /\ rtp \in Tables
      /\ net' = net /\ client' = client /\ informed' = informed
  BY AtHand DEF FindLeaver, Between, Entering, IInv, TypeOK
<1>2. Here(t) = MemberIn(rtp, th[t].msg.of) /\ th[t].room = RoomIn(rtp)
  BY <1>1, HereIs
<1>3. CASE Becomes(t, rtp, Idle)
  <2>1. Order(rtp', th', net, client, informed) /\ Unused(rtp', th')
    BY <1>1, <1>3, Ends
  <2> QED BY <1>1, <2>1 DEF Ordered
<1>4. CASE Here(t) # None /\ Becomes(t, rtp, p)
  <2>1. p \in Work /\ p.at = "Tell" /\ p.msg = th[t].msg /\ p.ses = th[t].ses
        /\ p.room = th[t].room
    BY <1>1 DEF Goes, Work, Steps
  <2> HIDE DEF p
  <2>2. Turn(rtp, p, informed)
    BY <1>1, <1>2, <1>4, <2>1 DEF Turn, Entering, Moving
  <2>3. Right(rtp, informed, th[t].msg.of)
    BY <1>1, Settled DEF Moving
  <2>4. Order(rtp', th', net, client, informed) /\ Unused(rtp', th')
    BY <1>1, <1>2, <1>4, <2>1, <2>2, <2>3, Inside
  <2> QED BY <1>1, <2>4 DEF Ordered
<1> QED BY <1>3, <1>4 DEF FindLeaver

LEMMA TellOrdered ==
  ASSUME IInv, Ordered, NEW t \in Thread, Tell(t)
  PROVE  Ordered'
<1> DEFINE m == th[t].msg.of
           i == [informed EXCEPT ![m] = FALSE]
           p == Goes(t, "Remove")
<1>1. th[t].at = "Tell" /\ Becomes(t, rtp, p) /\ informed' = i
      /\ net' = net /\ client' = client
  BY DEF Tell
<1>2. th[t] \in Work /\ m \in Client /\ rtp \in Tables /\ informed \in [Client -> BOOLEAN]
  BY <1>1, AtHand DEF IInv, TypeOK
<1>3. ~i[m] /\ \A c \in Client \ {m} : i[c] = informed[c]
  BY <1>2
<1>4. p \in Work /\ p.at = "Remove" /\ p.msg = th[t].msg /\ p.ses = th[t].ses
      /\ p.room = th[t].room
  BY <1>2 DEF Goes, Work, Steps
<1> HIDE DEF i, p
<1>5. th[t].room = RoomIn(rtp)
  BY <1>1, HereIs
<1>6. Turn(rtp, th[t], informed)
  BY <1>1 DEF Ordered, Order
<1>7. th[t].msg.kind = "UnRegisterSource" /\ MemberIn(rtp, m) # None
  BY <1>1, <1>6 DEF Turn, Moving
<1>8. Turn(rtp, p, i) /\ Between(p)
  BY <1>3, <1>4, <1>7 DEF Turn, Entering, Between, Moving
<1>9. Order(rtp', th', net, client, i) /\ Unused(rtp', th')
  BY <1>1, <1>2, <1>3, <1>4, <1>5, <1>7, <1>8, Inside DEF Moving
<1> QED BY <1>1, <1>9 DEF Ordered

\* Only a guest leaves, and the host is there while it does.
LEMMA GuestLeaves ==
  ASSUME IInv, Ordered, NEW t \in Thread, th[t].at # "Idle",
         th[t].msg.kind = "UnRegisterSource"
  PROVE  th[t].msg.of # Host /\ MemberIn(rtp, Host) # None /\ Host \in Client
<1>1. th[t].msg.of \in Client /\ Host \in Client
  BY AtHand, RtpRoomAssumption
<1>2. Hosted(rtp, th, net, client)
  BY DEF Ordered, Order
<1>3. th[t].msg.of # Host
  BY <1>2 DEF Hosted
<1>4. Busy(th, net, th[t].msg.of)
  BY DEF Busy
<1> QED BY <1>1, <1>2, <1>3, <1>4 DEF Hosted

LEMMA RemoveOrdered ==
  ASSUME IInv, Ordered, NEW t \in Thread, Remove(t)
  PROVE  Ordered'
<1> DEFINE m == th[t].msg.of
           r == th[t].room
           h == [rtp EXCEPT !.members[r][m] = None]
           p == Goes(t, "IsEmpty")
<1>1. th[t].at = "Remove" /\ th[t] \in Work /\ m \in Client
      /\ net' = net /\ client' = client /\ informed' = informed
  BY AtHand DEF Remove, IInv, TypeOK
<1>2. Here(t) = MemberIn(rtp, m) /\ r = RoomIn(rtp) /\ r \in Room
  BY <1>1, HereIs
<1>3. Turn(rtp, th[t], informed)
  BY <1>1 DEF Ordered, Order
<1>4. th[t].msg.kind = "UnRegisterSource" /\ ~informed[m] /\ MemberIn(rtp, m) # None
  BY <1>1, <1>3 DEF Turn, Moving
<1>5. Becomes(t, h, p)
  BY <1>2, <1>4 DEF Remove
<1>6. h \in Tables /\ h.obj = rtp.obj /\ h.port = rtp.port /\ h.rooms = rtp.rooms
      /\ h.members[r][m] = None
      /\ \A c \in Client \ {m} : h.members[r][c] = rtp.members[r][c]
  BY <1>1, <1>2 DEF IInv, TypeOK, Tables
<1>7. p \in Work /\ p.at = "IsEmpty" /\ p.msg = th[t].msg /\ p.ses = th[t].ses
      /\ p.room = r
  BY <1>1 DEF Goes, Work, Steps
<1> HIDE DEF h, p
<1>8. RoomIn(h) = RoomIn(rtp) /\ RoomIn(h) = r /\ r # None
  BY <1>2, <1>6, RtpRoomAssumption DEF RoomIn
<1>9. MemberIn(h, m) = None /\ \A c \in Client \ {m} : MemberIn(h, c) = MemberIn(rtp, c)
  BY <1>6, <1>8 DEF MemberIn
<1>10. \A c \in Client : StaleIn(h, c) => StaleIn(rtp, c)
  BY <1>6, <1>9 DEF StaleIn
<1>11. Turn(h, p, informed) /\ Right(h, informed, m)
  BY <1>4, <1>7, <1>9 DEF Turn, Entering, Right, Moving
<1>12. MemberIn(h, Host) # None
  BY <1>1, <1>4, <1>9, GuestLeaves
<1>13. Order(rtp', th', net, client, informed) /\ Unused(rtp', th')
  BY <1>1, <1>4, <1>5, <1>6, <1>7, <1>8, <1>9, <1>10, <1>11, <1>12, Onward DEF Moving
<1> QED BY <1>1, <1>13 DEF Ordered

\* The room the guest leaves still has the host.
LEMMA LookEmptyOrdered ==
  ASSUME IInv, Ordered, NEW t \in Thread, LookEmpty(t)
  PROVE  Ordered'
<1>1. th[t].at = "IsEmpty" /\ ~Between(th[t]) /\ rtp \in Tables
      /\ net' = net /\ client' = client /\ informed' = informed
  BY DEF LookEmpty, Between, Entering, IInv, TypeOK
<1>2. th[t].room = RoomIn(rtp) /\ RoomIn(rtp) \in Room
  BY <1>1, HereIs
<1>3. Turn(rtp, th[t], informed)
  BY <1>1 DEF Ordered, Order
<1>4. th[t].msg.kind = "UnRegisterSource"
  BY <1>1, <1>3 DEF Turn, Moving
<1>5. MemberIn(rtp, Host) # None /\ Host \in Client
  BY <1>1, <1>4, GuestLeaves
<1>6. ~IsEmpty(th[t].room)
  BY <1>2, <1>5 DEF IsEmpty, MemberIn, Nothing
<1>7. Becomes(t, rtp, Idle)
  BY <1>6 DEF LookEmpty
<1>8. Order(rtp', th', net, client, informed) /\ Unused(rtp', th')
  BY <1>1, <1>7, Ends
<1> QED BY <1>1, <1>8 DEF Ordered

LEMMA DropRoomOrdered ==
  ASSUME IInv, Ordered, NEW t \in Thread, DropRoom(t)
  PROVE  FALSE
<1>1. th[t].at = "Drop" /\ Turn(rtp, th[t], informed)
  BY DEF DropRoom, Ordered, Order
<1> QED BY <1>1 DEF Turn, Moving

LEMMA FindSinkOrdered ==
  ASSUME IInv, Ordered, NEW t \in Thread, FindSink(t)
  PROVE  Ordered'
<1> DEFINE p == [Goes(t, "AddSink") EXCEPT !.src = Here(t)]
<1>1. th[t].at = "Member" /\ th[t].msg.kind = "RegisterSink" /\ th[t] \in Work
      /\ ~Between(th[t]) /\ rtp \in Tables
      /\ net' = net /\ client' = client /\ informed' = informed
  BY AtHand DEF FindSink, Between, Entering, IInv, TypeOK
<1>2. th[t].room = RoomIn(rtp) /\ Here(t) \in Obj \cup {None}
  BY <1>1, HereIs, FoundHere
<1>3. CASE Becomes(t, rtp, Idle)
  <2>1. Order(rtp', th', net, client, informed) /\ Unused(rtp', th')
    BY <1>1, <1>3, Ends
  <2> QED BY <1>1, <2>1 DEF Ordered
<1>4. CASE Becomes(t, rtp, p)
  <2>1. p \in Work /\ p.at = "AddSink" /\ p.msg = th[t].msg /\ p.ses = th[t].ses
        /\ p.room = th[t].room
    BY <1>1, <1>2 DEF Goes, Work, Steps
  <2> HIDE DEF p
  <2>2. Turn(rtp, p, informed)
    BY <1>1, <2>1 DEF Turn, Entering, Moving
  <2>3. Order(rtp', th', net, client, informed) /\ Unused(rtp', th')
    BY <1>1, <1>2, <1>4, <2>1, <2>2, Inside DEF Moving
  <2> QED BY <1>1, <2>3 DEF Ordered
<1> QED BY <1>3, <1>4 DEF FindSink

LEMMA UnRegisterSinkOrdered ==
  ASSUME IInv, Ordered, NEW t \in Thread, UnRegisterSink(t)
  PROVE  Ordered'
<1>1. th[t].at = "Member" /\ ~Between(th[t]) /\ rtp \in Tables
      /\ net' = net /\ client' = client /\ informed' = informed
  BY DEF UnRegisterSink, Between, Entering, IInv, TypeOK
<1>2. CASE Becomes(t, rtp, Idle)
  <2>1. Order(rtp', th', net, client, informed) /\ Unused(rtp', th')
    BY <1>1, <1>2, Ends
  <2> QED BY <1>1, <2>1 DEF Ordered
<1>3. ASSUME NEW dropped, Mine(t),
             Becomes(t, [rtp EXCEPT !.obj[Here(t)].sinks = @ \ dropped], Idle)
      PROVE  Ordered'
  <2> DEFINE o == Here(t)
             x == [rtp.obj[o] EXCEPT !.sinks = @ \ dropped]
             h == [rtp EXCEPT !.obj[o].sinks = @ \ dropped]
  <2>1. o \in Obj /\ Becomes(t, h, Idle)
    BY <1>1, <1>3, FoundHere DEF Mine
  <2>2. rtp \in Tables /\ rtp.obj[o] \in Source
    BY <2>1 DEF IInv, TypeOK, Tables
  <2>3. x \in Source /\ x.stale = rtp.obj[o].stale
    BY <2>2 DEF Source
  <2>4. h = [rtp EXCEPT !.obj = [rtp.obj EXCEPT ![o] = x]]
    BY <2>1, <2>2 DEF Tables, Source
  <2> HIDE DEF h, x
  <2>5. h \in Tables /\ h.port = rtp.port /\ h.rooms = rtp.rooms /\ h.members = rtp.members
        /\ \A q \in Obj : h.obj[q].stale => rtp.obj[q].stale
    BY <2>1, <2>2, <2>3, <2>4, NewValue
  <2>6. Order(rtp', th', net, client, informed) /\ Unused(rtp', th')
    BY <1>1, <2>1, <2>5, Ends
  <2> QED BY <1>1, <2>6 DEF Ordered
<1>4. ASSUME NEW dropped, ~Mine(t),
             Becomes(t, IF Mine(t) THEN [rtp EXCEPT !.obj[Here(t)].sinks = @ \ dropped]
                        ELSE rtp, Idle)
      PROVE  Becomes(t, rtp, Idle)
  BY <1>4
<1> QED BY <1>2, <1>3, <1>4 DEF UnRegisterSink

LEMMA ThreadOrdered ==
  ASSUME IInv, Ordered, NEW t \in Thread, Step(t)
  PROVE  Ordered'
<1>1. CASE FindRoom(t)
  BY <1>1, FindRoomOrdered
<1>2. CASE MakeRoom(t)
  BY <1>2, MakeRoomOrdered
<1>3. CASE FindSource(t)
  BY <1>3, FindSourceOrdered
<1>4. CASE MakeSource(t)
  BY <1>4, MakeSourceOrdered
<1>5. CASE Address(t) \/ AddSink(t)
  BY <1>5, AddressOrdered
<1>6. CASE ReAddress(t)
  BY <1>6, ReAddressOrdered
<1>7. CASE Touch(t)
  BY <1>7, TouchOrdered
<1>8. CASE FindLeaver(t)
  BY <1>8, FindLeaverOrdered
<1>9. CASE Tell(t)
  BY <1>9, TellOrdered
<1>10. CASE Remove(t)
  BY <1>10, RemoveOrdered
<1>11. CASE LookEmpty(t)
  BY <1>11, LookEmptyOrdered
<1>12. CASE DropRoom(t)
  BY <1>12, DropRoomOrdered
<1>13. CASE FindSink(t)
  BY <1>13, FindSinkOrdered
<1>14. CASE UnRegisterSink(t)
  BY <1>14, UnRegisterSinkOrdered
<1> QED BY <1>1, <1>2, <1>3, <1>4, <1>5, <1>6, <1>7, <1>8, <1>9, <1>10, <1>11, <1>12,
           <1>13, <1>14 DEF Step

-----------------------------------------------------------------------------
(* The other steps of an orderly use. *)

\* A session that is made when the port has none has no room, and no thread
\* was at work on another.
LEMMA TakeOrdered ==
  ASSUME IInv, Ordered, NEW t \in Thread, NEW d \in net, Take(t, d)
  PROVE  Ordered'
<1> DEFINE s == IF rtp.port = None THEN NewSes ELSE rtp.port
           h == [rtp EXCEPT !.port = s]
           p == [Idle EXCEPT !.at = "Room", !.msg = d, !.ses = s]
           w == [th EXCEPT ![t] = p]
           n == net \ {d}
<1>1. /\ th[t].at = "Idle" /\ Becomes(t, h, p) /\ net' = n
      /\ client' = client /\ informed' = informed /\ d \in Datagram
  BY DEF Take, IInv, TypeOK
<1>2. s \in Ses /\ (rtp.port = None => s \notin LiveSes(rtp, th))
  BY DEF Take, NewSes, FreeSes, IInv, TypeOK, Tables
<1>3. h \in Tables /\ h.members = rtp.members /\ h.obj = rtp.obj /\ h.rooms = rtp.rooms
      /\ h.port = s /\ (rtp.port # None => s = rtp.port)
  BY <1>2 DEF IInv, TypeOK, Tables
<1>4. p \in Work /\ p.at = "Room" /\ p.msg = d /\ p.ses = s /\ ~p.cb
  BY <1>1, <1>2 DEF Idle, Work, Steps
<1>5. rtp.port = None => rtp.rooms[s] = None
  BY <1>2 DEF Ordered, Unused
<1> HIDE DEF h, p, s
<1>6. RoomIn(h) = RoomIn(rtp)
  BY <1>2, <1>3, <1>5, RtpRoomAssumption DEF RoomIn
<1>7. \A c : MemberIn(h, c) = MemberIn(rtp, c) /\ (StaleIn(h, c) => StaleIn(rtp, c))
  BY <1>3, <1>6 DEF MemberIn, StaleIn
<1>8. /\ w \in [Thread -> Work] /\ th' = w /\ rtp' = Destroy(h, w)
      /\ \A u \in Thread : w[u] = IF u = t THEN p ELSE th[u]
  BY <1>1, <1>4 DEF IInv, TypeOK, Becomes
<1> HIDE DEF w
<1>9. \A u \in Thread : th[u].at # "Idle" => th[u].msg \in Datagram /\ th[u].ses \in Ses
  BY DEF IInv, Good, InPlace
<1>10. \A c : Busy(w, n, c) => Busy(th, net, c)
  <2> SUFFICES ASSUME NEW c, Busy(w, n, c) PROVE Busy(th, net, c)
    OBVIOUS
  <2> QED BY <1>4, <1>8 DEF Busy
<1>11. Present(h, w)
  <2> SUFFICES ASSUME NEW u \in Thread, w[u].at # "Idle"
               PROVE  /\ w[u].ses = h.port
                      /\ w[u].at \notin {"Room", "MakeRoom"} => w[u].room = RoomIn(h)
    BY DEF Present
  <2>1. CASE u = t
    BY <1>3, <1>4, <1>8, <2>1
  <2>2. CASE u # t
    <3>1. w[u] = th[u]
      BY <1>8, <2>2
    <3>2. /\ th[u].ses = rtp.port
          /\ th[u].at \notin {"Room", "MakeRoom"} => th[u].room = RoomIn(rtp)
      BY <3>1 DEF Ordered, Order, Present
    <3>3. rtp.port # None
      BY <1>9, <3>1, <3>2, RtpRoomAssumption
    <3> QED BY <1>3, <1>6, <3>1, <3>2, <3>3
  <2> QED BY <2>1, <2>2
<1>12. Hosted(h, w, n, client)
  <2>1. Hosted(rtp, th, net, client)
    BY DEF Ordered, Order
  <2> QED BY <1>4, <1>7, <1>8, <1>10, <2>1 DEF Hosted
<1>13. Single(w, n)
  <2>1. Single(th, net)
    BY DEF Ordered, Order
  <2>2. \A a, b \in n : a.of = b.of /\ a.kind \in Moving /\ b.kind \in Moving => a = b
    BY <2>1 DEF Single
  <2>3. ASSUME NEW u \in Thread, NEW v \in Thread, w[u].at # "Idle", w[v].at # "Idle",
               w[u].msg.of = w[v].msg.of, w[u].msg.kind \in Moving, w[v].msg.kind \in Moving
        PROVE  u = v
    <3>1. CASE u # t /\ v # t
      BY <1>8, <2>1, <2>3, <3>1 DEF Single
    <3>2. ASSUME NEW x \in Thread, x # t, w[x].at # "Idle", w[x].msg.of = d.of,
                 w[x].msg.kind \in Moving, d.kind \in Moving
          PROVE  FALSE
      BY <1>8, <2>1, <3>2 DEF Single
    <3> QED BY <1>4, <1>8, <2>3, <3>1, <3>2
  <2>4. ASSUME NEW u \in Thread, NEW e \in n, w[u].at # "Idle", w[u].msg.of = e.of
        PROVE  w[u].msg.kind \notin Moving \/ e.kind \notin Moving
    <3>1. CASE u = t
      BY <1>4, <1>8, <2>1, <2>4, <3>1 DEF Single
    <3>2. CASE u # t
      BY <1>8, <2>1, <2>4, <3>2 DEF Single
    <3> QED BY <3>1, <3>2
  <2> QED BY <2>2, <2>3, <2>4 DEF Single
<1>14. Silent(h, w, n, client)
  BY <1>7, <1>10 DEF Ordered, Order, Silent
<1>15. ASSUME NEW u \in Thread, w[u].at # "Idle" PROVE Turn(h, w[u], informed)
  <2>1. CASE u = t
    BY <1>4, <1>8, <2>1 DEF Turn, Entering
  <2>2. CASE u # t
    <3>1. w[u] = th[u]
      BY <1>8, <2>2
    <3>2. Turn(rtp, th[u], informed)
      BY <1>15, <3>1 DEF Ordered, Order
    <3> QED BY <1>7, <3>1, <3>2 DEF Turn
  <2> QED BY <2>1, <2>2
<1>16. ASSUME NEW c \in Client PROVE Listed(h, w, informed, c)
  <2>1. Listed(rtp, th, informed, c)
    BY DEF Ordered, Order
  <2>2. \A u \in Thread : th[u].at # "Idle" => w[u] = th[u]
    BY <1>1, <1>8
  <2> QED BY <1>7, <2>1, <2>2 DEF Listed, Right
<1>17. Order(h, w, n, client, informed)
  BY <1>11, <1>12, <1>13, <1>14, <1>15, <1>16 DEF Order
<1>18. \A u \in Thread : w[u].at # "Idle" => w[u].msg \in Datagram
  BY <1>1, <1>4, <1>8, <1>9
<1>19. Host \in Client
  BY RtpRoomAssumption
<1> HIDE DEF n
<1>20. Order(Destroy(h, w), w, n, client, informed) /\ Unused(Destroy(h, w), w)
  BY <1>3, <1>8, <1>17, <1>18, <1>19, DestroyOrder
<1> QED BY <1>1, <1>8, <1>20 DEF Ordered

\* Only a source whose client says no more comes to its age.
LEMMA AgeOrdered ==
  ASSUME IInv, Ordered, use.orderly, use.delays = 0, NEW c \in Client, Age(c)
  PROVE  Ordered' /\ use' = use
<1> DEFINE o == Member(c)
           x == [rtp.obj[o] EXCEPT !.stale = TRUE]
           h == [rtp EXCEPT !.obj[o].stale = TRUE]
<1>1. rtp' = h /\ th' = th /\ net' = net /\ client' = client /\ informed' = informed
      /\ o # None
  BY DEF Age
<1>2. use' = use /\ client[c].silent /\ ~Busy(th, net, c)
  <2>1. ~(use.delays > 0)
    OBVIOUS
  <2> QED BY <2>1, MemberIs DEF Age
<1>3. o = MemberIn(rtp, c) /\ o \in Obj
  <2>1. o = MemberIn(rtp, c) /\ RoomIn(rtp) # None
    BY <1>1, MemberIs DEF MemberIn
  <2>2. RoomIn(rtp) \in Room /\ o = rtp.members[RoomIn(rtp)][c]
    BY <2>1 DEF RoomIn, MemberIn, IInv, TypeOK, Tables
  <2> QED BY <1>1, <2>1, <2>2 DEF IInv, TypeOK, Tables
<1>4. rtp \in Tables /\ rtp.obj[o] \in Source
  BY <1>3 DEF IInv, TypeOK, Tables
<1>5. x \in Source
  BY <1>4 DEF Source
<1>6. h = [rtp EXCEPT !.obj = [rtp.obj EXCEPT ![o] = x]]
  BY <1>3, <1>4 DEF Tables, Source
<1> HIDE DEF h, x
<1>7. h \in Tables /\ h.port = rtp.port /\ h.rooms = rtp.rooms
      /\ h.members = rtp.members
      /\ \A q \in Obj : h.obj[q] = IF q = o THEN x ELSE rtp.obj[q]
  BY <1>3, <1>4, <1>5, <1>6, NewValue
<1>8. RoomIn(h) = RoomIn(rtp) /\ \A d : MemberIn(h, d) = MemberIn(rtp, d)
  BY <1>7 DEF RoomIn, MemberIn
<1>9. ASSUME NEW d \in Client, d # c, StaleIn(h, d) PROVE StaleIn(rtp, d)
  <2>1. MemberIn(rtp, d) # None /\ h.obj[MemberIn(rtp, d)].stale
    BY <1>8, <1>9 DEF StaleIn
  <2>2. RoomIn(rtp) \in Room /\ MemberIn(rtp, d) = rtp.members[RoomIn(rtp)][d]
        /\ MemberIn(rtp, c) = rtp.members[RoomIn(rtp)][c]
    BY <2>1 DEF RoomIn, MemberIn, IInv, TypeOK, Tables
  <2>3. MemberIn(rtp, d) \in Obj
    BY <2>1, <2>2 DEF IInv, TypeOK, Tables
  <2>4. MemberIn(rtp, d) # o
    BY <1>3, <1>9, <2>2, <2>3 DEF IInv, Good, OneOwner, Owns
  <2> QED BY <1>7, <2>1, <2>3, <2>4 DEF StaleIn
<1>10. Present(h, th) /\ Hosted(h, th, net, client) /\ Single(th, net)
  BY <1>7, <1>8 DEF Ordered, Order, Present, Hosted
<1>11. Silent(h, th, net, client)
  BY <1>2, <1>9 DEF Ordered, Order, Silent
<1>12. \A t \in Thread : th[t].at # "Idle" => Turn(h, th[t], informed)
  BY <1>8 DEF Ordered, Order, Turn
<1>13. \A d \in Client : Listed(h, th, informed, d)
  BY <1>8 DEF Ordered, Order, Listed, Right
<1>14. Unused(h, th)
  BY <1>7 DEF Ordered, Unused, LiveSes
<1>15. Order(h, th, net, client, informed)
  BY <1>10, <1>11, <1>12, <1>13 DEF Order
<1> QED BY <1>1, <1>2, <1>14, <1>15 DEF Ordered

\* What expires belongs to clients that say no more; a room that is left empty
\* was not the host's, and goes while nothing is under way.
LEMMA ExpireOrdered ==
  ASSUME IInv, Ordered, use.delays = 0, Expire
  PROVE  Ordered' /\ use' = use
<1> DEFINE r == rtp.rooms[rtp.port]
           out == {c \in Client : Member(c) # None /\ rtp.obj[Member(c)].stale}
           left == [c \in Client |-> IF c \in out THEN None ELSE Member(c)]
           empty == left = Nothing
           kept == IF r = None THEN rtp ELSE [rtp EXCEPT !.members[r] = left]
           gone == [kept EXCEPT !.rooms[rtp.port] = None, !.port = None]
           i == [c \in Client |-> informed[c] /\ c \notin out]
           overtakes == empty /\ \E t \in Thread : th[t].ses = rtp.port
<1>1. /\ rtp.port # None /\ rtp' = Destroy(IF empty THEN gone ELSE kept, th)
      /\ th' = th /\ net' = net /\ client' = client /\ informed' = i
  BY DEF Expire
<1>2. ~overtakes /\ use' = use
  <2>1. overtakes => use.delays > 0
    BY DEF Expire
  <2>2. ~overtakes
    BY <2>1
  <2>3. use' = IF overtakes THEN [use EXCEPT !.delays = @ - 1] ELSE use
    BY DEF Expire
  <2> QED BY <2>2, <2>3
<1>3. rtp.port \in Ses /\ r \in Room \cup {None} /\ r = RoomIn(rtp)
      /\ rtp \in Tables /\ th \in [Thread -> Work]
  BY <1>1 DEF IInv, TypeOK, Tables, RoomIn
<1>4. Host \in Client /\ Order(rtp, th, net, client, informed)
  BY RtpRoomAssumption DEF Ordered
<1>5. \A c \in Client : c \in out => client[c].silent /\ ~Busy(th, net, c)
  BY <1>4, MemberIs DEF Order, Silent, StaleIn
<1>6. Host \notin out
  BY <1>4, <1>5 DEF Order, Hosted
<1>7. \A c \in Client : left[c] = IF c \in out THEN None ELSE MemberIn(rtp, c)
  BY MemberIs
<1>8. \A c \in Client : i[c] <=> informed[c] /\ c \notin out
  OBVIOUS
<1> HIDE DEF out, i
<1>9. CASE ~empty
  <2>1. r # None
    BY <1>3, <1>7, <1>9 DEF MemberIn, Nothing
  <2>2. \A c \in Client : left[c] \in Obj \cup {None}
    BY <1>3, <1>7 DEF MemberIn, Tables
  <2>3. kept \in Tables /\ kept.port = rtp.port /\ kept.rooms = rtp.rooms
        /\ kept.obj = rtp.obj /\ kept.members[r] = left
    BY <1>3, <2>1, <2>2 DEF Tables
  <2> HIDE DEF kept
  <2>4. RoomIn(kept) = r
    BY <1>3, <2>3 DEF RoomIn
  <2>5. \A c \in Client : MemberIn(kept, c) = IF c \in out THEN None ELSE MemberIn(rtp, c)
    BY <1>7, <2>1, <2>3, <2>4 DEF MemberIn
  <2>6. \A c \in Client : StaleIn(kept, c) => StaleIn(rtp, c)
    BY <2>3, <2>5 DEF StaleIn
  <2>7. Present(kept, th) /\ Single(th, net) /\ Silent(kept, th, net, client)
    BY <1>3, <1>4, <2>3, <2>4, <2>6 DEF Order, Present, Silent
  <2>8. Hosted(kept, th, net, client)
    BY <1>4, <1>6, <2>5 DEF Order, Hosted
  <2>9. ASSUME NEW t \in Thread, th[t].at # "Idle" PROVE Turn(kept, th[t], i)
    <3>1. th[t].msg.of \in Client /\ Busy(th, net, th[t].msg.of)
      BY <2>9, AtHand DEF Busy
    <3>2. th[t].msg.of \notin out
      BY <1>5, <3>1
    <3>3. Turn(rtp, th[t], informed)
      BY <1>4, <2>9 DEF Order
    <3>4. i[th[t].msg.of] = informed[th[t].msg.of]
      <4>1. informed[th[t].msg.of] \in BOOLEAN /\ i[th[t].msg.of] \in BOOLEAN
        BY <3>1 DEF i, IInv, TypeOK
      <4> QED BY <1>8, <3>1, <3>2, <4>1
    <3> QED BY <2>5, <3>1, <3>2, <3>3, <3>4 DEF Turn
  <2>10. ASSUME NEW c \in Client PROVE Listed(kept, th, i, c)
    <3>1. Listed(rtp, th, informed, c)
      BY <1>4 DEF Order
    <3> QED BY <1>8, <2>5, <3>1 DEF Listed, Right
  <2>11. Order(kept, th, net, client, i)
    BY <2>7, <2>8, <2>9, <2>10 DEF Order
  <2>12. \A t \in Thread : th[t].at # "Idle" => th[t].msg \in Datagram
    BY AtHand
  <2>13. Order(Destroy(kept, th), th, net, client, i) /\ Unused(Destroy(kept, th), th)
    BY <1>3, <1>4, <2>3, <2>11, <2>12, DestroyOrder
  <2> QED BY <1>1, <1>2, <1>9, <2>13 DEF Ordered
<1>10. CASE empty
  <2>1. \A c \in Client : c \in out \/ MemberIn(rtp, c) = None
    BY <1>7, <1>10 DEF Nothing
  <2>2. \A t \in Thread : th[t].at = "Idle"
    BY <1>2, <1>4, <1>10 DEF Order, Present
  <2>3. left \in [Client -> Obj \cup {None}]
    BY <1>10 DEF Nothing
  <2>4. kept \in Tables
    BY <1>3, <2>3 DEF Tables
  <2> HIDE DEF kept
  <2>5. gone \in Tables /\ gone.port = None
    BY <1>3, <2>4 DEF Tables
  <2> HIDE DEF gone
  <2>6. \A c : MemberIn(gone, c) = None
    BY <2>5 DEF MemberIn, RoomIn
  <2>7. Present(gone, th) /\ Single(th, net) /\ Silent(gone, th, net, client)
    BY <1>4, <2>2, <2>6 DEF Order, Present, Silent, StaleIn
  <2>8. Hosted(gone, th, net, client)
    BY <1>4, <1>6, <2>1 DEF Order, Hosted
  <2>9. ASSUME NEW c \in Client PROVE Listed(gone, th, i, c)
    <3>1. Right(rtp, informed, c)
      BY <1>4, <2>2 DEF Order, Listed
    <3> QED BY <1>8, <2>1, <2>6, <3>1 DEF Listed, Right
  <2>10. Order(gone, th, net, client, i)
    BY <2>2, <2>7, <2>8, <2>9 DEF Order
  <2>11. Order(Destroy(gone, th), th, net, client, i) /\ Unused(Destroy(gone, th), th)
    BY <1>3, <1>4, <2>2, <2>5, <2>10, DestroyOrder
  <2> QED BY <1>1, <1>2, <1>10, <2>11 DEF Ordered
<1> QED BY <1>9, <1>10

\* A client that has nothing under way says something: of the commands it
\* sends at once at most one enters or leaves.
LEMMA Says ==
  ASSUME Ordered, NEW c \in Client, NEW ds, NEW n, NEW q,
         n = net \cup ds,
         ~Busy(th, net, c), ~client[c].silent,
         \A d \in Client : q[d].silent = client[d].silent,
         Host \in Client,
         c # Host => MemberIn(rtp, Host) # None,
         \A d \in ds : d.of = c /\ (d.kind = "UnRegisterSource" => c # Host),
         \A d, e \in ds : d.kind \in Moving /\ e.kind \in Moving => d = e
  PROVE  Order(rtp, th, n, q, informed)
<1>1. Order(rtp, th, net, client, informed)
  BY DEF Ordered
<1>2. \A d : Busy(th, n, d) => Busy(th, net, d) \/ d = c
  BY DEF Busy
<1>3. /\ \A d \in net : d.of # c
      /\ \A t \in Thread : th[t].at # "Idle" => th[t].msg.of # c
  BY DEF Busy
<1>4. Hosted(rtp, th, n, q)
  BY <1>1, <1>2 DEF Order, Hosted
<1>5. Single(th, n)
  <2>1. Single(th, net)
    BY <1>1 DEF Order
  <2>2. \A d, e \in n : d.of = e.of /\ d.kind \in Moving /\ e.kind \in Moving => d = e
    BY <1>3, <2>1 DEF Single
  <2>3. \A t \in Thread, d \in n : th[t].at # "Idle" /\ th[t].msg.of = d.of =>
          th[t].msg.kind \notin Moving \/ d.kind \notin Moving
    BY <1>3, <2>1 DEF Single
  <2> QED BY <2>1, <2>2, <2>3 DEF Single
<1>6. Silent(rtp, th, n, q)
  BY <1>1, <1>2 DEF Order, Silent
<1> QED BY <1>1, <1>4, <1>5, <1>6 DEF Order

LEMMA SpeakOrdered ==
  ASSUME IInv, Ordered, use.orderly, NEW c \in Client, Speak(c)
  PROVE  Ordered'
<1>1. rtp' = rtp /\ th' = th /\ informed' = informed
  BY DEF Speak, Join, Leave, Refresh, Rebind, Vanish, Subscribe, Unsubscribe
<1>2. Host \in Client /\ Unused(rtp, th)
      /\ client \in [Client -> [in : BOOLEAN, silent : BOOLEAN,
                                wants : SUBSET Client, addr : Addr]]
  BY RtpRoomAssumption DEF Ordered, IInv, TypeOK
<1>3. MaySpeak(c) => /\ ~Busy(th, net, c) /\ ~client[c].silent
                     /\ c # Host => MemberIn(rtp, Host) # None
  BY MemberIs DEF MaySpeak
<1>4. SUFFICES Order(rtp, th, net', client', informed)
  BY <1>1, <1>2 DEF Ordered
<1>5. ASSUME NEW k \in Kind, NEW d, MaySpeak(c), net' = net \cup {Command(k, c, d)},
             k = "UnRegisterSource" => c # Host,
             \A e \in Client : client'[e].silent = client[e].silent
      PROVE  Order(rtp, th, net', client', informed)
  <2> DEFINE ds == {Command(k, c, d)}
  <2>1. /\ \A e \in ds : e.of = c /\ (e.kind = "UnRegisterSource" => c # Host)
        /\ \A e, f \in ds : e.kind \in Moving /\ f.kind \in Moving => e = f
    BY <1>5 DEF Command
  <2>2. net' = net \cup ds
    BY <1>5
  <2> HIDE DEF ds
  <2> QED BY <1>2, <1>3, <1>5, <2>1, <2>2, Says
<1>6. CASE Join(c)
  BY <1>2, <1>5, <1>6 DEF Join, Send, Kind
<1>7. CASE Leave(c)
  BY <1>2, <1>5, <1>7 DEF Leave, Send, Kind
<1>8. CASE \E d \in Client : Subscribe(c, d)
  <2>1. PICK d \in Client : Subscribe(c, d)
    BY <1>8
  <2>2. \A e \in Client : client'[e].silent = client[e].silent
    BY <1>2, <2>1 DEF Subscribe
  <2> QED BY <1>5, <2>1, <2>2 DEF Subscribe, Send, Kind
<1>9. CASE \E d \in Client : Unsubscribe(c, d)
  <2>1. PICK d \in Client : Unsubscribe(c, d)
    BY <1>9
  <2>2. \A e \in Client : client'[e].silent = client[e].silent
    BY <1>2, <2>1 DEF Unsubscribe
  <2> QED BY <1>5, <2>1, <2>2 DEF Unsubscribe, Send, Kind
<1>10. CASE Refresh(c)
  <2> DEFINE ds == {Command("RegisterSource", c, c)}
                     \cup {Command("RegisterSink", c, d) : d \in client[c].wants}
  <2>1. MaySpeak(c) /\ net' = net \cup ds /\ client' = client
    BY <1>10 DEF Refresh, Send
  <2>2. /\ \A d \in ds : d.of = c /\ d.kind # "UnRegisterSource"
        /\ \A d, e \in ds : d.kind \in Moving /\ e.kind \in Moving => d = e
    BY DEF Command, Moving
  <2> HIDE DEF ds
  <2> QED BY <1>2, <1>3, <2>1, <2>2, Says
<1>11. CASE Rebind(c) \/ Vanish(c)
  <2>1. net' = net
    BY <1>11 DEF Rebind, Vanish
  <2>2. \A d \in Client : client[d].silent => client'[d].silent
    BY <1>2, <1>11 DEF Rebind, Vanish
  <2>3. client'[Host].silent = client[Host].silent
    BY <1>2, <1>11 DEF Rebind, Vanish
  <2>4. Order(rtp, th, net, client, informed)
    BY DEF Ordered
  <2> QED BY <1>2, <2>1, <2>2, <2>3, <2>4 DEF Order, Hosted, Silent
<1> QED BY <1>6, <1>7, <1>8, <1>9, <1>10, <1>11 DEF Speak

LEMMA LoseOrdered ==
  ASSUME Ordered, NEW d \in net, Lose(d)
  PROVE  Ordered'
<1>1. net' \subseteq net /\ rtp' = rtp /\ th' = th /\ client' = client /\ informed' = informed
  BY DEF Lose
<1>2. \A c : Busy(th, net', c) => Busy(th, net, c)
  BY <1>1 DEF Busy
<1>3. Order(rtp, th, net, client, informed) /\ Unused(rtp, th)
  BY DEF Ordered
<1>4. Hosted(rtp, th, net', client) /\ Single(th, net') /\ Silent(rtp, th, net', client)
  BY <1>1, <1>2, <1>3 DEF Order, Hosted, Single, Silent
<1> QED BY <1>1, <1>3, <1>4 DEF Ordered, Order

\* Whether the use is orderly does not change, and its bounds do not grow.
LEMMA UseOnward ==
  ASSUME IInv, Next
  PROVE  use'.orderly = use.orderly /\ (use.delays = 0 => use'.delays = 0)
<1>1. use \in Use
  BY DEF IInv, TypeOK
<1>2. \/ use' = use
      \/ use' = [use EXCEPT !.refusals = @ - 1]
      \/ use' = [use EXCEPT !.leaves = @ - 1]
      \/ use' = [use EXCEPT !.rebinds = @ - 1]
      \/ use' = [use EXCEPT !.losses = @ - 1]
      \/ use.delays > 0 /\ use' = [use EXCEPT !.delays = @ - 1]
  BY DEF Next, Step, FindRoom, MakeRoom, FindSource, MakeSource, Address, ReAddress, Touch,
     FindLeaver, Tell, Remove, LookEmpty, DropRoom, FindSink, AddSink, UnRegisterSink, AskSource,
     Refuses, Take, Speak, Join, Leave, Refresh, Rebind, Vanish, Subscribe, Unsubscribe,
     Age, Lose, Expire
<1> QED BY <1>1, <1>2 DEF Use

LEMMA NextOrderly == IInv /\ OrderlyInv /\ [Next]_vars => OrderlyInv'
<1> SUFFICES ASSUME IInv, OrderlyInv, [Next]_vars, use'.orderly PROVE use'.delays = 0 /\ Ordered'
  BY DEF OrderlyInv
<1>1. CASE Next
  <2>1. use.orderly /\ use.delays = 0 /\ use'.delays = 0 /\ Ordered
    <3>1. use'.orderly = use.orderly /\ (use.delays = 0 => use'.delays = 0)
      BY <1>1, UseOnward
    <3> QED BY <3>1 DEF OrderlyInv
  <2>2. CASE \E t \in Thread : Step(t)
    BY <2>1, <2>2, ThreadOrdered
  <2>3. CASE \E t \in Thread, d \in net : Take(t, d)
    BY <2>1, <2>3, TakeOrdered
  <2>4. CASE \E c \in Client : Speak(c)
    BY <2>1, <2>4, SpeakOrdered
  <2>5. CASE \E c \in Client : Age(c)
    BY <2>1, <2>5, AgeOrdered
  <2>6. CASE \E d \in net : Lose(d)
    BY <2>1, <2>6, LoseOrdered
  <2>7. CASE Expire
    BY <2>1, <2>7, ExpireOrdered
  <2> QED BY <1>1, <2>1, <2>2, <2>3, <2>4, <2>5, <2>6, <2>7 DEF Next
<1>2. CASE UNCHANGED vars
  <2>1. rtp' = rtp /\ th' = th /\ net' = net /\ client' = client
        /\ informed' = informed /\ use' = use
    BY <1>2 DEF vars
  <2> QED BY <2>1 DEF OrderlyInv, Ordered
<1> QED BY <1>1, <1>2

\* In an orderly use the sessions do not go while a thread works on them, and
\* the sources of clients that are there do not expire: the timer runs every
\* 20 seconds and a source is 59 seconds old when it goes.
OnTime == \A u \in Uses : u.orderly => u.delays = 0

LEMMA InitOrderly == ASSUME OnTime PROVE Init => OrderlyInv
<1> SUFFICES ASSUME Init, use.orderly PROVE use.delays = 0 /\ Ordered
  BY DEF OrderlyInv
<1>1. use.delays = 0
  BY DEF Init, OnTime
<1>2. \A c : MemberIn(rtp, c) = None
  BY DEF Init, MemberIn, RoomIn
<1>3. Host \in Client
  BY RtpRoomAssumption
<1>4. \A t \in Thread : th[t].at = "Idle"
  BY DEF Init, Idle
<1>5. net = {} /\ ~client[Host].silent /\ \A c \in Client : ~informed[c]
  BY <1>3 DEF Init
<1>6. \A c : ~Busy(th, net, c)
  BY <1>4, <1>5 DEF Busy
<1>7. Present(rtp, th) /\ Hosted(rtp, th, net, client) /\ Single(th, net)
      /\ Silent(rtp, th, net, client)
  BY <1>2, <1>4, <1>5, <1>6 DEF Present, Hosted, Single, Silent, StaleIn
<1>8. Order(rtp, th, net, client, informed)
  BY <1>2, <1>4, <1>5, <1>7 DEF Order, Listed, Right
<1>9. Unused(rtp, th)
  BY DEF Init, Unused
<1> QED BY <1>1, <1>8, <1>9 DEF Ordered

-----------------------------------------------------------------------------
(* The theorems. *)

\* The tables of sessions, rooms and sources, and what threads, clients and
\* the application hold, keep their types.
THEOREM RoomTypeCorrect == Spec => []TypeOK
<1>1. IInv => TypeOK
  BY DEF IInv
<1> QED BY <1>1, Invariant, PTL

\* For any clients, threads, rooms and objects, and however registrations,
\* departures and the timer overlap, a source in a room has only a remote and
\* sinks that the application has agreed to for it (RegisterSource,
\* RegisterSink).
THEOREM RoomAccepts == Spec => []Accepted
<1>1. ASSUME IInv PROVE Accepted
  <2>1. ASSUME NEW r \in Room, NEW c \in Client, rtp.members[r][c] # None
        PROVE  rtp.members[r][c] \in Obj /\ Owns(rtp, th, c, rtp.members[r][c])
    BY <1>1, <2>1 DEF IInv, TypeOK, Tables, Owns
  <2> QED BY <1>1, <2>1 DEF IInv, Good, Agreed, Accepted
<1> QED BY <1>1, Invariant, PTL

\* When the host enters first and stays, each client waits for its last
\* command and the timer is on time, the application's list of sources is the
\* server's whenever nothing is under way: for any clients, threads, objects,
\* refusals, losses and addresses, and however the timer and the commands of
\* different clients overlap (onRegisterSource, onUnRegisterSource,
\* CheckRegisterSourceLive).
THEOREM RoomInforms ==
  ASSUME OnTime
  PROVE  Spec => []Informed
<1>1. ASSUME IInv, OrderlyInv PROVE Informed
  <2> SUFFICES ASSUME use.orderly, Quiet, NEW c \in Client
               PROVE  informed[c] <=> Member(c) # None
    BY DEF Informed
  <2>1. Listed(rtp, th, informed, c)
    BY <1>1 DEF OrderlyInv, Ordered, Order
  <2>2. \A t \in Thread : th[t].at = "Idle"
    BY DEF Quiet
  <2>3. Right(rtp, informed, c)
    BY <2>1, <2>2 DEF Listed
  <2> QED BY <2>3, MemberIs DEF Right
<1>2. Init => OrderlyInv
  BY InitOrderly
<1> QED BY <1>1, <1>2, InitInv, NextInv, NextOrderly, PTL DEF Spec

=============================================================================
