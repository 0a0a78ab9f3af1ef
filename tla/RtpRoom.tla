------------------------------ MODULE RtpRoom ------------------------------
(***************************************************************************)
(* The rooms of the server's RTP sessions (CSotpRtpSession, CSotpRtpRoom), *)
(* as the threads that read the RTP commands, the timer that expires       *)
(* silent sources and the application's callbacks work on them, together   *)
(* with the clients that register themselves as sources of one room,       *)
(* subscribe to each other and repeat their registrations.                 *)
(*                                                                         *)
(* Sessions, rooms and sources are objects behind shared pointers: a       *)
(* thread keeps the one it has looked up while another takes it out of its *)
(* table, and what it then writes is seen by nobody else.  One port and    *)
(* one room id are modelled; a client's id is that of its source, and it   *)
(* registers with one parameter, so the server's comparison of parameters  *)
(* always succeeds.                                                        *)
(***************************************************************************)
EXTENDS Naturals, FiniteSets

CONSTANTS
  Client,           \* the clients, each the source of its own stream
  Host,             \* the client that an orderly use keeps in the room
  Addr,             \* the addresses a client is seen at (remote ids)
  Thread,           \* the server's threads
  Ses, Room, Obj,   \* names for session, room and source objects
  None,
  Uses              \* the ways the room is used

\* One way of use.
\*   orderly    the host enters first and stays, and a client waits until its
\*              last command was handled
\*   clients    the clients that take part
\*   leaves     bound: clients that leave, vanish or unsubscribe
\*   losses     bound: datagrams lost
\*   rebinds    bound: changes of a client's address
\*   delays     bound: sources that expire though their client is there, and
\*              sessions that go while a thread works on them
\*   refusals   bound: refusals by the application
\*   net        bound: datagrams of one client that wait for a thread
Use == [orderly : BOOLEAN, clients : SUBSET Client, leaves : Nat, losses : Nat,
        rebinds : Nat, delays : Nat, refusals : Nat, net : Nat]

ASSUME RtpRoomAssumption ==
  /\ Host \in Client
  /\ None \notin Ses \cup Room \cup Obj \cup Addr
  /\ Addr # {}
  /\ Uses \subseteq Use

VARIABLES rtp,       \* the server's tables and the objects that are alive
          th,        \* what each server thread is doing
          net,       \* the datagrams under way
          client,    \* what each client wants
          informed,  \* the application's list of sources
          granted,   \* what the application has agreed to
          use        \* the conditions of use and what is left of its bounds

vars == <<rtp, th, net, client, informed, granted, use>>

Kind == {"RegisterSource", "UnRegisterSource", "RegisterSink",
         "UnRegisterSink", "UnRegisterAllSink"}

Datagram == [kind : Kind, of : Client, from : Addr, dest : Client]

\* Faulty: the destination is left unset.
CommandUnset(k, c, d) ==
    [kind |-> k, of |-> c, from |-> client[c].addr, dest |-> None]

\* A command a client sends; only the sink commands have a destination.
Command(k, c, d) == [kind |-> k, of |-> c, from |-> client[c].addr, dest |-> d]

Steps == {"Idle", "Room", "MakeRoom", "Source", "MakeSource", "Address",
          "ReAddress", "Touch", "Member", "Tell", "Remove", "IsEmpty", "Drop",
          "AddSink"}

\* A source; the tables; what a thread works on.
Source == [remote : Addr \cup {None}, called : BOOLEAN, stale : BOOLEAN,
           sinks : SUBSET Client]

Tables == [port : Ses \cup {None}, rooms : [Ses -> Room \cup {None}],
           members : [Room -> [Client -> Obj \cup {None}]],
           obj : [Obj -> Source]]

Work == [at : Steps, msg : Datagram \cup {None}, ses : Ses \cup {None},
         room : Room \cup {None}, src : Obj \cup {None}, cb : BOOLEAN]

NoSource == [remote |-> None, called |-> FALSE, stale |-> FALSE, sinks |-> {}]

Nothing == [c \in Client |-> None]

----------------------------------------------------------------------------
(* The objects. *)

Held(w, field) == {w[t][field] : t \in Thread}

LiveSes(h, w) == ({h.port} \cup Held(w, "ses")) \ {None}

LiveRoom(h, w) ==
    ({h.rooms[s] : s \in LiveSes(h, w)} \cup Held(w, "room")) \ {None}

LiveObj(h, w) ==
    ({h.members[r][c] : r \in LiveRoom(h, w), c \in Client}
       \cup Held(w, "src")) \ {None}

\* An object is destroyed once no table and no thread points at it.
Destroy(h, w) ==
    LET ses == LiveSes(h, w)
        room == LiveRoom(h, w)
        obj == LiveObj(h, w)
    IN [port |-> h.port,
        rooms |-> [s \in Ses |-> IF s \in ses THEN h.rooms[s] ELSE None],
        members |-> [r \in Room |-> IF r \in room THEN h.members[r] ELSE Nothing],
        obj |-> [o \in Obj |-> IF o \in obj THEN h.obj[o] ELSE NoSource]]

\* Names for new objects.  Bound: an object is made only while one is free.
FreeSes == Ses \ LiveSes(rtp, th)
FreeRoom == Room \ LiveRoom(rtp, th)
FreeObj == Obj \ LiveObj(rtp, th)

NewSes == CHOOSE s \in FreeSes : TRUE
NewRoom == CHOOSE r \in FreeRoom : TRUE
NewObj == CHOOSE o \in FreeObj : TRUE

Idle == [at |-> "Idle", msg |-> None, ses |-> None, room |-> None,
         src |-> None, cb |-> FALSE]

\* Thread t has changed the objects to h and goes on as p.
Becomes(t, h, p) ==
    LET w == [th EXCEPT ![t] = p] IN
    /\ th' = w
    /\ rtp' = Destroy(h, w)

Goes(t, step) == [th[t] EXCEPT !.at = step]

\* The source of client c in the room the session of the port has, or None.
Member(c) ==
    IF rtp.port = None \/ rtp.rooms[rtp.port] = None
    THEN None
    ELSE rtp.members[rtp.rooms[rtp.port]][c]

UnderWay(c) ==
    \/ \E d \in net : d.of = c
    \/ \E t \in Thread : th[t].at # "Idle" /\ th[t].msg.of = c

Here(t) == rtp.members[th[t].room][th[t].msg.of]

Init ==
    /\ rtp = [port |-> None, rooms |-> [s \in Ses |-> None],
              members |-> [r \in Room |-> Nothing],
              obj |-> [o \in Obj |-> NoSource]]
    /\ th = [t \in Thread |-> Idle]
    /\ net = {}
    /\ client = [c \in Client |-> [in |-> FALSE, silent |-> FALSE, wants |-> {},
                                   addr |-> CHOOSE a \in Addr : TRUE]]
    /\ informed = [c \in Client |-> FALSE]
    /\ granted = {}
    /\ use \in Uses

----------------------------------------------------------------------------
(* A server thread reads a command and looks up the session of the port,   *)
(* creating one when there is none.                                        *)

Take(t, d) ==
    /\ th[t].at = "Idle"
    /\ d \in net
    /\ rtp.port = None => FreeSes # {}
    /\ net' = net \ {d}
    /\ LET s == IF rtp.port = None THEN NewSes ELSE rtp.port
       IN Becomes(t, [rtp EXCEPT !.port = s],
                  [Idle EXCEPT !.at = "Room", !.msg = d, !.ses = s])
    /\ UNCHANGED <<client, informed, granted, use>>

\* The application agrees to what it is asked.
Accepts(p) == granted' = granted \cup {p}

\* It refuses, which it does at most use.refusals times.
Refuses ==
    /\ use.refusals > 0
    /\ use' = [use EXCEPT !.refusals = @ - 1]
    /\ granted' = granted

\* Faulty: the answer of the application is not looked at.
AskSourceAnyway(t, p) ==
    /\ \/ /\ Accepts(<<th[t].msg.of, th[t].msg.from>>)
          /\ UNCHANGED use
       \/ Refuses
    /\ informed' = [informed EXCEPT ![th[t].msg.of] = TRUE]
    /\ Becomes(t, rtp, p)

\* onRegisterSource: thread t goes on as p when the application agrees to the
\* source at the address of the command, and has done with it when it refuses.
\* The call reads nothing of the tables: it is made in one step with the
\* lookup before it.
AskSource(t, p) ==
    \/ /\ Accepts(<<th[t].msg.of, th[t].msg.from>>)
       /\ informed' = [informed EXCEPT ![th[t].msg.of] = TRUE]
       /\ Becomes(t, rtp, p)
       /\ UNCHANGED use
    \/ /\ Refuses
       /\ Becomes(t, rtp, Idle)
       /\ UNCHANGED informed

----------------------------------------------------------------------------
(* SOTP_RTP_COMMAND_REGISTER_SOURCE *)

\* The room is looked up.  For a source to register without one the application
\* is asked first; any other command ends without a room.
FindRoom(t) ==
    /\ th[t].at = "Room"
    /\ LET r == rtp.rooms[th[t].ses]
           registers == th[t].msg.kind = "RegisterSource"
       IN \/ /\ r # None
             /\ Becomes(t, rtp, [Goes(t, IF registers THEN "Source" ELSE "Member")
                                   EXCEPT !.room = r, !.cb = registers])
             /\ UNCHANGED <<informed, granted, use>>
          \/ r = None /\ registers /\ AskSource(t, Goes(t, "MakeRoom"))
          \/ /\ r = None /\ ~registers
             /\ Becomes(t, rtp, Idle)
             /\ UNCHANGED <<informed, granted, use>>
    /\ UNCHANGED <<net, client>>

\* The room is inserted unless another thread has done so meanwhile, and the
\* application is not asked again.
MakeRoom(t) ==
    /\ th[t].at = "MakeRoom"
    /\ FreeRoom # {}
    /\ LET s == th[t].ses
           r == IF rtp.rooms[s] = None THEN NewRoom ELSE rtp.rooms[s]
       IN Becomes(t, [rtp EXCEPT !.rooms[s] = r],
                  [Goes(t, "Source") EXCEPT !.room = r])
    /\ UNCHANGED <<net, client, informed, granted, use>>

\* Faulty: a new remote is not noticed.
KnownAnywhere(t) == rtp.obj[Here(t)].called

\* A known source is at its address and the application was asked about it.
Known(t) ==
    rtp.obj[Here(t)].remote = th[t].msg.from /\ rtp.obj[Here(t)].called

\* The application is asked about a source that is new in the room, and again
\* about one that is not known or after ten minutes; it is not asked by the
\* thread that has made the room.
FindSource(t) ==
    /\ th[t].at = "Source"
    /\ LET s == Here(t)
           found(step) == [Goes(t, step) EXCEPT !.src = s]
       IN \/ /\ s = None /\ th[t].cb
             /\ AskSource(t, Goes(t, "MakeSource"))
          \/ /\ s # None /\ th[t].cb
             /\ AskSource(t, found("ReAddress"))
          \/ /\ s = None /\ ~th[t].cb
             /\ Becomes(t, rtp, Goes(t, "MakeSource"))
             /\ UNCHANGED <<informed, granted, use>>
          \/ /\ s # None
             /\ th[t].cb => Known(t)
             /\ Becomes(t, rtp, found("Touch"))
             /\ UNCHANGED <<informed, granted, use>>
    /\ UNCHANGED <<net, client>>

\* The source is inserted unless another thread has done so meanwhile, and
\* gets its remote in a step of its own.
MakeSource(t) ==
    /\ th[t].at = "MakeSource"
    /\ FreeObj # {}
    /\ LET s == IF Here(t) = None THEN NewObj ELSE Here(t)
       IN Becomes(t, [rtp EXCEPT !.members[th[t].room][th[t].msg.of] = s],
                  [Goes(t, "Address") EXCEPT !.src = s])
    /\ UNCHANGED <<net, client, informed, granted, use>>

Address(t) ==
    /\ th[t].at = "Address"
    /\ Becomes(t, [rtp EXCEPT !.obj[th[t].src].remote = th[t].msg.from,
                              !.obj[th[t].src].called = @ \/ th[t].cb],
               Idle)
    /\ UNCHANGED <<net, client, informed, granted, use>>

ReAddress(t) ==
    /\ th[t].at = "ReAddress"
    /\ Becomes(t, [rtp EXCEPT !.obj[th[t].src].remote = th[t].msg.from,
                              !.obj[th[t].src].called = TRUE],
               Goes(t, "Touch"))
    /\ UNCHANGED <<net, client, informed, granted, use>>

\* The source has been heard of (SetLastTime).
Touch(t) ==
    /\ th[t].at = "Touch"
    /\ Becomes(t, [rtp EXCEPT !.obj[th[t].src].stale = FALSE], Idle)
    /\ UNCHANGED <<net, client, informed, granted, use>>

----------------------------------------------------------------------------
(* SOTP_RTP_COMMAND_UNREGISTER_SOURCE *)

FindLeaver(t) ==
    /\ th[t].at = "Member"
    /\ th[t].msg.kind = "UnRegisterSource"
    /\ Becomes(t, rtp, IF Here(t) = None THEN Idle ELSE Goes(t, "Tell"))
    /\ UNCHANGED <<net, client, informed, granted, use>>

\* onUnRegisterSource
Tell(t) ==
    /\ th[t].at = "Tell"
    /\ informed' = [informed EXCEPT ![th[t].msg.of] = FALSE]
    /\ Becomes(t, rtp, Goes(t, "Remove"))
    /\ UNCHANGED <<net, client, granted, use>>

\* The source is removed by its id, whichever object has it by now.
Remove(t) ==
    /\ th[t].at = "Remove"
    /\ IF Here(t) = None
       THEN Becomes(t, rtp, Idle)
       ELSE Becomes(t, [rtp EXCEPT !.members[th[t].room][th[t].msg.of] = None],
                    Goes(t, "IsEmpty"))
    /\ UNCHANGED <<net, client, informed, granted, use>>

\* Faulty: the room is not looked into.
IsEmptyAlways(r) == TRUE

IsEmpty(r) == rtp.members[r] = Nothing

LookEmpty(t) ==
    /\ th[t].at = "IsEmpty"
    /\ Becomes(t, rtp, IF IsEmpty(th[t].room) THEN Goes(t, "Drop") ELSE Idle)
    /\ UNCHANGED <<net, client, informed, granted, use>>

\* The room is removed by its id, whichever object has it by now.
DropRoom(t) ==
    /\ th[t].at = "Drop"
    /\ Becomes(t, [rtp EXCEPT !.rooms[th[t].ses] = None], Idle)
    /\ UNCHANGED <<net, client, informed, granted, use>>

----------------------------------------------------------------------------
(* SOTP_RTP_COMMAND_REGISTER_SINK, UNREGISTER_SINK and UNREGISTER_ALLSINK: *)
(* each ends when the source is missing or has another address.            *)

Mine(t) == Here(t) # None /\ rtp.obj[Here(t)].remote = th[t].msg.from

\* onRegisterSink, for a sink the source does not receive yet
FindSink(t) ==
    /\ th[t].at = "Member"
    /\ th[t].msg.kind = "RegisterSink"
    /\ IF Mine(t) /\ th[t].msg.dest \notin rtp.obj[Here(t)].sinks
       THEN \/ /\ Accepts(<<th[t].msg.of, th[t].msg.dest>>)
               /\ Becomes(t, rtp, [Goes(t, "AddSink") EXCEPT !.src = Here(t)])
               /\ UNCHANGED use
            \/ Refuses /\ Becomes(t, rtp, Idle)
       ELSE /\ Becomes(t, rtp, Idle)
            /\ UNCHANGED <<granted, use>>
    /\ UNCHANGED <<net, client, informed>>

UnRegisterSink(t) ==
    /\ th[t].at = "Member"
    /\ th[t].msg.kind \in {"UnRegisterSink", "UnRegisterAllSink"}
    /\ LET dropped == IF th[t].msg.kind = "UnRegisterSink"
                      THEN {th[t].msg.dest} ELSE Client
       IN Becomes(t, IF Mine(t)
                     THEN [rtp EXCEPT !.obj[Here(t)].sinks = @ \ dropped]
                     ELSE rtp, Idle)
    /\ UNCHANGED <<net, client, informed, granted, use>>

AddSink(t) ==
    /\ th[t].at = "AddSink"
    /\ Becomes(t, [rtp EXCEPT !.obj[th[t].src].sinks = @ \cup {th[t].msg.dest}],
               Idle)
    /\ UNCHANGED <<net, client, informed, granted, use>>

----------------------------------------------------------------------------
(* The timer *)

\* Nothing has been heard of a source for 59 seconds: its client has fallen
\* silent or, unless the use is orderly, has left or has been delayed.
Age(c) ==
    /\ Member(c) # None
    /\ ~rtp.obj[Member(c)].stale
    /\ \/ (client[c].silent \/ (~use.orderly /\ ~client[c].in))
          /\ ~UnderWay(c)
          /\ UNCHANGED use
       \/ use.delays > 0 /\ use' = [use EXCEPT !.delays = @ - 1]
    /\ rtp' = [rtp EXCEPT !.obj[Member(c)].stale = TRUE]
    /\ UNCHANGED <<th, net, client, informed, granted>>

\* CheckRegisterSourceLive: the stale sources are taken out of the room, the
\* application is told, and the room and the session go when they are empty.
\* The timer runs every 20 seconds: that a session goes while a thread works on
\* it happens at most use.delays times.
Expire ==
    /\ rtp.port # None
    /\ LET r == rtp.rooms[rtp.port]
           out == {c \in Client : Member(c) # None /\ rtp.obj[Member(c)].stale}
           left == [c \in Client |-> IF c \in out THEN None ELSE Member(c)]
           empty == left = Nothing
           kept == IF r = None THEN rtp ELSE [rtp EXCEPT !.members[r] = left]
           overtakes == empty /\ \E t \in Thread : th[t].ses = rtp.port
       IN /\ out # {} \/ empty
          /\ rtp' = Destroy(IF empty THEN [kept EXCEPT !.rooms[rtp.port] = None,
                                                       !.port = None]
                            ELSE kept, th)
          /\ informed' = [c \in Client |-> informed[c] /\ c \notin out]
          /\ overtakes => use.delays > 0
          /\ use' = IF overtakes THEN [use EXCEPT !.delays = @ - 1] ELSE use
    /\ UNCHANGED <<th, net, client, granted>>

----------------------------------------------------------------------------
(* The clients and the network *)

\* In an orderly use a client waits until its last command has been handled,
\* and the others keep to the time the host is in the room.
MaySpeak(c) ==
    /\ c \in use.clients
    /\ ~client[c].silent
    /\ use.orderly => /\ ~UnderWay(c)
                      /\ c # Host => Member(Host) # None

\* A client sends while fewer than use.net of its datagrams wait for a thread.
Send(c, ds) ==
    /\ Cardinality({d \in net : d.of = c}) < use.net
    /\ net' = net \cup ds

\* doRegisterSource
Join(c) ==
    /\ MaySpeak(c)
    /\ ~client[c].in
    /\ client' = [client EXCEPT ![c].in = TRUE]
    /\ Send(c, {Command("RegisterSource", c, c)})
    /\ UNCHANGED <<rtp, th, informed, granted, use>>

\* doUnRegisterSource
Leave(c) ==
    /\ MaySpeak(c)
    /\ client[c].in
    /\ use.orderly => c # Host
    /\ use.leaves > 0
    /\ client' = [client EXCEPT ![c].in = FALSE, ![c].wants = {}]
    /\ use' = [use EXCEPT !.leaves = @ - 1]
    /\ Send(c, {Command("UnRegisterSource", c, c)})
    /\ UNCHANGED <<rtp, th, informed, granted>>

\* doRegisterSink
Subscribe(c, d) ==
    /\ MaySpeak(c)
    /\ client[c].in
    /\ d \in Client \ ({c} \cup client[c].wants)
    /\ client' = [client EXCEPT ![c].wants = @ \cup {d}]
    /\ Send(c, {Command("RegisterSink", c, d)})
    /\ UNCHANGED <<rtp, th, informed, granted, use>>

\* doUnRegisterSink, doUnRegisterAllSink
Unsubscribe(c, d) ==
    /\ MaySpeak(c)
    /\ client[c].in
    /\ d \in client[c].wants
    /\ use.leaves > 0
    /\ use' = [use EXCEPT !.leaves = @ - 1]
    /\ \/ /\ client' = [client EXCEPT ![c].wants = @ \ {d}]
          /\ Send(c, {Command("UnRegisterSink", c, d)})
       \/ /\ client' = [client EXCEPT ![c].wants = {}]
          /\ Send(c, {Command("UnRegisterAllSink", c, c)})
    /\ UNCHANGED <<rtp, th, informed, granted>>

\* CheckRegisterSinkLive: a client that has had nothing to say registers its
\* source and its sinks again.
Refresh(c) ==
    /\ MaySpeak(c)
    /\ client[c].in
    /\ Send(c, {Command("RegisterSource", c, c)}
              \cup {Command("RegisterSink", c, d) : d \in client[c].wants})
    /\ UNCHANGED <<rtp, th, client, informed, granted, use>>

\* A client is seen at another address: a new connection, a new mapping.
Rebind(c) ==
    /\ c \in use.clients
    /\ use.rebinds > 0
    /\ \E a \in Addr \ {client[c].addr} :
         client' = [client EXCEPT ![c].addr = a]
    /\ use' = [use EXCEPT !.rebinds = @ - 1]
    /\ UNCHANGED <<rtp, th, net, informed, granted>>

\* A client ends without a word, and for good.
Vanish(c) ==
    /\ client[c].in
    /\ ~client[c].silent
    /\ use.orderly => c # Host
    /\ use.leaves > 0
    /\ client' = [client EXCEPT ![c].silent = TRUE]
    /\ use' = [use EXCEPT !.leaves = @ - 1]
    /\ UNCHANGED <<rtp, th, net, informed, granted>>

Lose(d) ==
    /\ use.losses > 0
    /\ d \in net
    /\ net' = net \ {d}
    /\ use' = [use EXCEPT !.losses = @ - 1]
    /\ UNCHANGED <<rtp, th, client, informed, granted>>

----------------------------------------------------------------------------

Step(t) ==
    \/ FindRoom(t) \/ MakeRoom(t)
    \/ FindSource(t) \/ MakeSource(t) \/ Address(t) \/ ReAddress(t) \/ Touch(t)
    \/ FindLeaver(t) \/ Tell(t) \/ Remove(t) \/ LookEmpty(t) \/ DropRoom(t)
    \/ FindSink(t) \/ AddSink(t) \/ UnRegisterSink(t)

Speak(c) ==
    \/ Join(c) \/ Leave(c) \/ Refresh(c) \/ Rebind(c) \/ Vanish(c)
    \/ \E d \in Client : Subscribe(c, d) \/ Unsubscribe(c, d)

Next ==
    \/ \E t \in Thread : Step(t) \/ \E d \in net : Take(t, d)
    \/ \E c \in Client : Speak(c) \/ Age(c)
    \/ \E d \in net : Lose(d)
    \/ Expire

Spec == Init /\ [][Next]_vars

\* Some thread reads a command of client c, of a kind in K.
Served(c, K) ==
    \E t \in Thread, d \in net : d.of = c /\ d.kind \in K /\ Take(t, d)

\* Threads go on with what they have begun, a client that is in the room keeps
\* repeating its registrations, and of what it keeps sending some is read.
FairSpec ==
    /\ Spec
    /\ \A t \in Thread : WF_vars(Step(t))
    /\ \A c \in Client : /\ WF_vars(Refresh(c))
                         /\ SF_vars(Served(c, {"RegisterSource"}))
                         /\ SF_vars(Served(c, Kind \ {"RegisterSource"}))

----------------------------------------------------------------------------

\* The state of the server, the clients and the network is of its type.
TypeOK ==
    /\ rtp \in Tables
    /\ th \in [Thread -> Work]
    /\ net \subseteq Datagram
    /\ client \in [Client -> [in : BOOLEAN, silent : BOOLEAN,
                              wants : SUBSET Client, addr : Addr]]
    /\ informed \in [Client -> BOOLEAN]
    /\ granted \subseteq Client \X (Addr \cup Client)
    /\ use \in Use

\* The application decides who takes part: a source in any room has the remote,
\* and receives the sinks, that the application has agreed to for this source,
\* whichever thread found, created, replaced or was overtaken
\* (CSotpRtpRoom::RegisterSource and RegisterSink).
Accepted ==
    \A r \in Room, c \in Client :
      rtp.members[r][c] # None =>
        LET s == rtp.obj[rtp.members[r][c]] IN
        /\ s.remote # None => <<c, s.remote>> \in granted
        /\ \A d \in s.sinks : <<c, d>> \in granted

Quiet == net = {} /\ \A t \in Thread : th[t].at = "Idle"

\* In an orderly use, where the room is never left empty and a client waits
\* for its last command, the application's list of sources (what
\* onRegisterSource and onUnRegisterSource have told it) is the server's when
\* nothing is under way: refusals, losses, new addresses, clients that vanish
\* and the timer included.
Informed ==
    use.orderly /\ Quiet =>
      \A c \in Client : informed[c] <=> Member(c) # None

\* What another client's stream needs to reach client c.
Reachable(c) ==
    /\ Member(c) # None
    /\ LET s == rtp.obj[Member(c)] IN
       s.remote = client[c].addr /\ client[c].wants \subseteq s.sinks

\* In any use the repeated registrations repair what went wrong: a client that
\* stays in the room is in the end the server's, at the address it has now and
\* with all its sinks, though its commands were lost or reordered, its source
\* was registered in a room or session that another thread was taking away, it
\* changed its address, or it expired (CheckRegisterSinkLive,
\* CSotpRtpRoom::RegisterSource).
Heals ==
    \A c \in Client :
      <>[](client[c].in /\ ~client[c].silent => Reachable(c))

=============================================================================
