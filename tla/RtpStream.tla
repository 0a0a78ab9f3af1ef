----------------------------- MODULE RtpStream -----------------------------
(***************************************************************************)
(* One hop of an RTP stream: the packets of a source on their way from a   *)
(* sender to one receiver, both a CSotpRtpSource.                          *)
(*                                                                         *)
(* A frame is cut into packets that carry consecutive 16-bit numbers.  The *)
(* sender keeps its last packets in a ring and sends them again when the   *)
(* receiver asks.  The receiver watches the numbers (CaculateMissedPackets)*)
(* and asks for what is missing, with a delay that spares requests for     *)
(* packets that were only overtaken.  On the server it then keeps the      *)
(* packet in a ring of its own and broadcasts it unless it was there       *)
(* already; on a client it collects packets into frames (PushRtpData) and  *)
(* hands the frames to the application in order (GetWholeFrame).           *)
(*                                                                         *)
(* The network loses, delays and duplicates packets and loses requests.    *)
(* Payload, room and source are left out.                                  *)
(***************************************************************************)
EXTENDS Integers, Sequences, FiniteSets

CONSTANTS
  NumSeq,        \* number of sequence numbers (65536)
  Half,          \* how far ahead a number counts as later (0x7F00)
  Ring,          \* RELIABLE_QUEUE_SIZE
  MaxResend,     \* MAX_RESEND_COUNT
  Near, Far,     \* the offsets of theLostSeqInfo2 (15, 25)
  Restart,       \* numbers that begin a stream anew (1..10) ...
  Settled,       \* ... after one of these (301..65199)
  Pause,         \* a silence, in timestamps, that forgets the last number (20 s)
  Stale,         \* how old a timestamp may be to count as old (0xFFFF)
  MaxFrames,     \* bound: frames sent
  Uses           \* the ways the stream is used

\* One way of use.
\*   server     the receiver is the server
\*   kinds      the frames sent: key and delta video, audio, and untimed
\*              messages (timestamp 0), whose packets are all numbered 0
\*   sizes      the packets of a timed frame
\*   messages   the packets of an untimed message
\*   frames     bound: frames sent
\*   start      m_nCurrentSeq when the receiver joins
\*   nak        m_nNAKType of the packets
\*   losses     bound: packets and requests lost
\*   dups       bound: packets the network duplicates
\*   late       bound: how many later packets may be sent before one arrives
\*   steps      the timestamp differences of successive frames
\*   reenter    the numbers at which the sender may leave and enter again
\*   exact      a frame may fill its last packet exactly
Kind == {"key", "delta", "audio", "untimed"}
Use  == [server : BOOLEAN, kinds : SUBSET Kind, sizes : SUBSET (Nat \ {0}),
         messages : SUBSET (Nat \ {0}), frames : 1 .. MaxFrames, start : 0 .. NumSeq - 1, nak : 0 .. 2,
         losses : Nat, dups : Nat, late : Nat, steps : SUBSET (Nat \ {0}),
         reenter : SUBSET (0 .. NumSeq - 1), exact : BOOLEAN]

ASSUME RtpStreamAssumption ==
  /\ {NumSeq, Half, Ring, MaxResend, Near, Far, Pause, Stale, MaxFrames} \subseteq Nat \ {0}
  /\ Half < NumSeq /\ MaxResend < NumSeq /\ NumSeq % Ring = 0
  /\ Restart \cup Settled \subseteq 0 .. NumSeq - 1
  /\ Uses \subseteq Use

VARIABLES
  use,           \* how the stream is used, in this behaviour
  cur,           \* m_nCurrentSeq of the sender
  frames,        \* frames sent: [kind, ts, first, n, exact], the sender's
                 \* clock (at) and the numbered packets before (base)
  ring,          \* m_pReliableQueue of the sender
  net,           \* packets under way
  nak,           \* requests under way
  trouble,       \* what went wrong: [losses, dups, again, hurt, late]
  last,          \* m_nLastPacketSeq of the receiver
  expect,        \* m_nLastExpectSeq, or m_pLastExpect1 and m_pLastExpect2
  lost2,         \* theLostSeqInfo2
  kept,          \* m_pReliableQueue of the receiver (server)
  hand,          \* packets doRtpData is handling
  waiting,       \* m_pReceiveFrames (client): [f, first, filled, late]
  taking,        \* GetWholeFrame is at work
  play,          \* [ts, wait, key]: m_nLastFrameTimestamp,
                 \* m_nWaitForFrameSeq, m_bWaitforNextKeyVideo
  arrived,       \* history: packets handled
  relayed,       \* history: packets broadcast, one entry for each time
  shown,         \* history: frames handed to the application
  dropped,       \* history: frames given up
  passed         \* history: packets the receiver does not ask for: those
                 \* before the first it counts, those of a gap that are
                 \* neither asked for nor noted, and notes grown too old

sender   == <<use, cur, frames, ring>>
network  == <<net, nak, trouble>>
counting == <<last, expect, lost2, passed>>
playing  == <<waiting, taking, play, shown, dropped>>
vars     == <<sender, network, counting, playing, hand, kept, arrived, relayed>>

None     == -1
Number   == 0 .. NumSeq - 1
NoExpect == [seq |-> None, count |-> 0]
NoPacket == <<0, 0>>
Packet   == (1 .. MaxFrames) \X Nat
Frame    == [kind : Kind, ts : Nat, first : Number, n : Nat \ {0}, exact : BOOLEAN,
             at : Nat \ {0}, base : Nat]
Request  == [seq : Number, count : 1 .. NumSeq]

\* The packets of frame f, the number of a packet, its place in the stream.
PacketsOf(f) == {<<f, i>> : i \in 0 .. frames[f].n - 1}
Sent         == UNION {PacketsOf(f) : f \in DOMAIN frames}
SeqNo(p)     == IF frames[p[1]].ts = 0 THEN 0 ELSE (frames[p[1]].first + p[2]) % NumSeq
SentUpTo(p)  == frames[p[1]].base + p[2]
Timed(p)     == frames[p[1]].ts # 0

\* The packets before p, and those among the last m of them.
Earlier(p)    == {q \in Sent : SentUpTo(q) < SentUpTo(p)}
Skipped(p, m) == {q \in Earlier(p) : SentUpTo(p) - SentUpTo(q) <= m}

\* The timestamp the previous timed frame had, and the packets numbered so far.
Clock == IF frames = <<>> THEN 1 ELSE frames[Len(frames)].at
Total == IF frames = <<>> THEN 0
         ELSE LET fr == frames[Len(frames)] IN
              IF fr.ts = 0 THEN fr.base ELSE fr.base + fr.n

\* doSendRtpData takes nSize % m_nDefaultPackageSize as the length of the
\* last packet: none when the frame fills it.  doRtpData ignores a packet
\* without attachment.
HasAttach(p) == ~(frames[p[1]].exact /\ p[2] = frames[p[1]].n - 1)

TypeOK ==
  /\ use \in Uses
  /\ cur \in Number
  /\ frames \in Seq(Frame)
  /\ ring \in [0 .. Ring - 1 -> Packet \cup {NoPacket}]
  /\ net \subseteq Packet
  /\ nak \subseteq Request
  /\ trouble \in [losses : 0 .. use.losses, dups : 0 .. use.dups,
                 again : BOOLEAN, hurt : BOOLEAN, late : BOOLEAN]
  /\ last \in Number \cup {None}
  /\ expect \in [1 .. 2 -> [seq : Number \cup {None}, count : 0 .. 1]]
  /\ lost2 \subseteq Number
  /\ kept \in [0 .. Ring - 1 -> Packet \cup {NoPacket}]
  /\ waiting \subseteq [f : 1 .. MaxFrames, first : Number, filled : SUBSET Nat, late : BOOLEAN]
  /\ hand \subseteq Packet /\ taking \in BOOLEAN
  /\ play \in [ts : Nat, wait : Number \cup {None}, key : BOOLEAN]
  /\ arrived \subseteq Packet
  /\ relayed \in Seq(Packet)
  /\ shown \in Seq(1 .. MaxFrames)
  /\ dropped \subseteq 1 .. MaxFrames
  /\ passed \subseteq Packet

Init ==
  /\ use \in Uses
  /\ cur = use.start
  /\ frames = <<>>
  /\ ring = [s \in 0 .. Ring - 1 |-> NoPacket]
  /\ net = {} /\ nak = {}
  /\ trouble = [losses |-> 0, dups |-> 0, again |-> FALSE, hurt |-> FALSE, late |-> FALSE]
  /\ last = None
  /\ expect = [k \in 1 .. 2 |-> NoExpect]
  /\ lost2 = {} /\ passed = {}
  /\ kept = [s \in 0 .. Ring - 1 |-> NoPacket]
  /\ hand = {} /\ waiting = {} /\ taking = FALSE
  /\ play = [ts |-> 0, wait |-> None, key |-> FALSE]
  /\ arrived = {} /\ relayed = <<>> /\ shown = <<>> /\ dropped = {}
-----------------------------------------------------------------------------
(* The sender.  What a client does with one packet touches only its own     *)
(* state, so the steps of its sender are taken between packets.            *)
Between == use.server \/ (hand = {} /\ ~taking)

\* doSendRtpData.  The network loses some of the packets; a timed packet is
\* put into the ring, the later of two that share a slot stays.
SendFrame(kind, n, step, exact, gone) ==
  LET f  == Len(frames) + 1
      fr == [kind |-> kind, ts |-> IF kind = "untimed" THEN 0 ELSE Clock + step,
             first |-> IF kind = "untimed" THEN 0 ELSE (cur + 1) % NumSeq,
             n |-> n, exact |-> exact,
             at |-> IF kind = "untimed" THEN Clock ELSE Clock + step, base |-> Total]
  IN  /\ Between
      /\ f <= use.frames
      /\ frames' = Append(frames, fr)
      /\ LET new == {<<f, i>> : i \in 0 .. n - 1} IN
           /\ \A p \in net \cup hand : Total + n - 1 - SentUpTo(p) <= use.late
           /\ step > Pause => net \cup hand = {}
           /\ {<<f, i>> : i \in gone} \subseteq {p \in new : HasAttach(p)'}
           /\ trouble.losses + Cardinality(gone) <= use.losses
           /\ trouble' = [trouble EXCEPT !.losses = @ + Cardinality(gone)]
           /\ net' = net \cup {p \in new : HasAttach(p)' /\ p[2] \notin gone}
           /\ IF kind = "untimed"
                THEN UNCHANGED <<cur, ring>>
                ELSE /\ cur' = (cur + n) % NumSeq
                     /\ ring' = [s \in 0 .. Ring - 1 |->
                          LET here == {p \in new : SeqNo(p)' % Ring = s}
                          IN  IF here = {} THEN ring[s]
                              ELSE CHOOSE p \in here : \A q \in here : q[2] <= p[2]]
      /\ UNCHANGED <<use, nak, counting, playing, hand, kept, arrived, relayed>>

\* The sender leaves and enters the room again: a new CSotpRtpSource, whose
\* numbers begin anew.
Reenter ==
  /\ cur \in use.reenter /\ Len(frames) < use.frames
  /\ net \cup hand = {} /\ nak = {}
  /\ cur' = 0
  /\ ring' = [s \in 0 .. Ring - 1 |-> NoPacket]
  /\ UNCHANGED <<use, frames, network, counting, playing, hand, kept, arrived, relayed>>

\* Faulty: the first number of the range is left out.
AskedShort(r) == (r.seq - r.count + 1) % NumSeq .. (r.seq - 1) % NumSeq

\* SendReliableMsg on SOTP_RTP_COMMAND_DATA_REQUEST: the packets of the range
\* that are still in the ring.  A range that passes the last number is empty.
Asked(r) == (r.seq - r.count) % NumSeq .. (r.seq - 1) % NumSeq

Answer(r, gone) ==
  LET again == {p \in {ring[k % Ring] : k \in Asked(r)} :
                  p # NoPacket /\ SeqNo(p) \in Asked(r) /\ HasAttach(p)}
  IN  /\ Between
      /\ r \in nak
      /\ gone \subseteq again
      /\ trouble.losses + Cardinality(gone) <= use.losses
      /\ trouble' = [trouble EXCEPT !.losses = @ + Cardinality(gone),
                                    !.again = @ \/ again # {},
                                    !.hurt = @ \/ gone # {}]
      /\ nak' = nak \ {r}
      /\ net' = net \cup (again \ gone)
      /\ UNCHANGED <<sender, counting, playing, hand, kept, arrived, relayed>>

LoseRequest(r) ==
  /\ Between
  /\ r \in nak
  /\ trouble.losses < use.losses
  /\ trouble' = [trouble EXCEPT !.losses = @ + 1, !.hurt = TRUE]
  /\ nak' = nak \ {r}
  /\ UNCHANGED <<sender, net, counting, playing, hand, kept, arrived, relayed>>
-----------------------------------------------------------------------------
(* The receiver: which numbers are missing. *)

\* compare_seq.
Before(a, b) == \/ a < b /\ b - a <= Half
                \/ a > b /\ a - b >= Half

Ask(seq, count) == {[seq |-> seq % NumSeq, count |-> count]}

\* The single packets that were expected and not asked for: the packet that
\* comes is one of them, or its coming makes the first that waited long
\* enough due.  The server waits for one packet, a client for two.
Patience  == IF use.server THEN 0 ELSE 1
\* Faulty: a packet that comes is not looked up among the expected.
MetNone(seq) == {}

Met(seq)  == {k \in 1 .. 2 : expect[k].seq = seq}
Due       == {k \in 1 .. 2 : /\ expect[k].seq # None /\ expect[k].count = Patience
                             /\ k = 2 => ~(expect[1].seq # None /\ expect[1].count = Patience)}
\* Faulty: what is asked for is expected further.
WaitedOn  == [k \in 1 .. 2 |->
                IF expect[k].seq # None THEN [expect[k] EXCEPT !.count = @ + 1] ELSE expect[k]]

Waited    == [k \in 1 .. 2 |->
                IF k \in Due THEN NoExpect
                ELSE IF expect[k].seq # None /\ \A d \in Due : k < d
                  THEN [expect[k] EXCEPT !.count = @ + 1]
                ELSE expect[k]]
AskDue    == UNION {Ask(expect[k].seq + 1, 1) : k \in Due}

\* CLostSeqInfo::recv and send: what is too old is forgotten, what is old
\* enough is asked for, up to MAX_RESEND_COUNT in a row.
Lost(seq) ==
  LET Age(s)  == (IF last = None THEN NumSeq - 1 ELSE last) - s
      here    == {s \in lost2 \ {seq} : \E t \in lost2 \ {seq} :
                    (t = s \/ Before(t, s)) /\ Age(t) <= Far}
      ahead(s) == \A t \in here \ {s} : Before(s, t)
      head    == CHOOSE s \in here : (\E t \in here : ahead(t)) => ahead(s)
      row     == {s \in here : s - head \in 0 .. MaxResend - 1 /\ head .. s \subseteq here}
      unripe  == here = {} \/ Age(head) \in 1 .. Near - 1
  IN  IF unripe THEN [rest |-> here, ask |-> {}]
      ELSE [rest |-> here \ row, ask |-> Ask(head + Cardinality(row), Cardinality(row))]

\* CLostSeqInfo::lost: at most 4 * MAX_RESEND_COUNT - 1 numbers are noted.
Noted(known, new) ==
  {s \in known \cup new : Cardinality({t \in (known \cup new) \ {s} : Before(s, t)}) < 4 * MaxResend - 1}

\* A gap of one number is expected first; a wider one is asked for at once.
Gap(seq, first, n, asked) ==
  CASE n = 0 -> expect' = Waited /\ nak' = asked
    [] n = 1 /\ Waited[1].seq = None ->
         /\ expect' = [Waited EXCEPT ![1] = [seq |-> first, count |-> 0]]
         /\ nak' = asked
    [] n = 1 /\ Waited[1].seq # None ->
         /\ expect' = [Waited EXCEPT ![2] = [seq |-> first, count |-> 0]]
         /\ nak' = asked \cup (IF Waited[2].seq = None THEN {} ELSE Ask(Waited[2].seq + 1, 1))
    [] n > 1 -> expect' = Waited /\ nak' = asked \cup Ask(seq, n)

\* CaculateMissedPackets.
Count(p) ==
  LET seq    == SeqNo(p)
      next   == IF last = None THEN 0 ELSE (last + 1) % NumSeq
      lost   == IF use.nak = 2 THEN Lost(seq) ELSE [rest |-> lost2, ask |-> {}]
      asked  == nak \cup (IF use.nak > 0 THEN AskDue ELSE {}) \cup lost.ask
      inTurn == \/ seq = next \/ last = None
                \/ seq \in Restart /\ last \in Settled
      ahead  == ~inTurn /\ seq > next /\ seq - next < Half
      round  == ~inTurn /\ next > seq /\ next - seq > Half
      gap    == IF ahead THEN seq - next ELSE seq + (NumSeq - 1 - next)
      n      == IF use.nak = 0 \/ ~(ahead \/ round) \/ (ahead /\ gap > MaxResend) THEN 0
                ELSE IF gap > MaxResend THEN MaxResend ELSE gap
      tail   == IF NumSeq - 1 - next > MaxResend THEN MaxResend ELSE NumSeq - 1 - next
      noted  == IF ~round \/ use.nak < 2 \/ seq - 1 >= MaxResend THEN {}
                ELSE (NumSeq - 1 - tail .. NumSeq - 1) \cup 1 .. seq - 1
      forgotten == lost2 \ ({seq} \cup lost.rest \cup UNION {Asked(r) : r \in lost.ask})
      wanted == CASE n = 0 -> {} [] n = 1 -> {next} [] n > 1 -> UNION {Asked(r) : r \in Ask(seq, n)}
      left   == CASE last = None \/ (inTurn /\ seq # next) -> Earlier(p)
                  [] round \/ (ahead /\ gap > MaxResend) ->
                       {q \in Skipped(p, (seq - next) % NumSeq) : SeqNo(q) \notin wanted \cup noted}
                  [] OTHER -> {}
  IN  \/ /\ frames[p[1]].ts = 0
         /\ UNCHANGED <<counting, nak>>
      \/ /\ frames[p[1]].ts # 0 /\ use.nak > 0 /\ Met(seq) # {}
         /\ expect' = [expect EXCEPT ![CHOOSE k \in Met(seq) : \A j \in Met(seq) : k <= j] = NoExpect]
         /\ UNCHANGED <<last, lost2, passed, nak>>
      \/ /\ frames[p[1]].ts # 0 /\ (use.nak = 0 \/ Met(seq) = {})
         /\ Gap(seq, next, n, asked)
         /\ last' = IF inTurn \/ ahead \/ round THEN seq ELSE last
         /\ lost2' = CASE use.nak = 2 /\ ahead /\ n > 1 -> Noted(lost.rest, seq - n .. seq - 1)
                       [] use.nak = 2 /\ round /\ seq - 1 >= MaxResend -> {}
                       [] use.nak = 2 /\ round /\ seq - 1 < MaxResend -> Noted(lost.rest, noted)
                       [] OTHER -> lost.rest
         /\ passed' = passed \cup left \cup {q \in Sent : SeqNo(q) \in forgotten}

\* doRtpData begins.  The network may keep a second copy of the packet.
Hear(p) ==
  /\ p \in net
  /\ p \notin hand /\ Cardinality(hand) < (IF use.server THEN 2 ELSE 1) /\ ~taking
  /\ Count(p)
  /\ hand' = hand \cup {p}
  /\ arrived' = arrived \cup {p}
  /\ \/ net' = net \ {p} /\ UNCHANGED trouble
     \/ /\ trouble.dups < use.dups
        /\ trouble' = [trouble EXCEPT !.dups = @ + 1, !.again = TRUE]
        /\ UNCHANGED net
  /\ UNCHANGED <<sender, playing, kept, relayed>>
-----------------------------------------------------------------------------
(* The server: keep the packet, and broadcast it unless it was there. *)

\* Faulty: the number alone decides.
SameNumber(p, q) == q # NoPacket /\ SeqNo(p) = SeqNo(q)

SameHead(p, q) == /\ q # NoPacket
                  /\ SeqNo(p) = SeqNo(q) /\ frames[p[1]].ts = frames[q[1]].ts

\* UpdateReliableQueue, then BroadcastRtpData.
Keep(p) ==
  LET slot == SeqNo(p) % Ring IN
    /\ use.server
    /\ p \in hand
    /\ hand' = hand \ {p}
    /\ kept' = [kept EXCEPT ![slot] = p]
    /\ relayed' = IF SameHead(p, kept[slot]) THEN relayed ELSE Append(relayed, p)
    /\ UNCHANGED <<sender, network, counting, playing, arrived>>
-----------------------------------------------------------------------------
(* The client: collect packets into frames, hand whole frames over. *)

\* The packets up to the last one that came.
Overtaken == {q \in Sent : \E a \in arrived : Timed(a) /\ SentUpTo(q) <= SentUpTo(a)}

\* PushRtpData.
Collect(p) ==
  LET f    == p[1]
      ts   == frames[f].ts
      mine == {w \in waiting : frames[w.f].ts = ts}
      old  == ts < play.ts /\ ts > 0 /\ play.ts - ts < Stale
  IN  /\ ~use.server
      /\ p \in hand
      /\ hand' = hand \ {p}
      /\ taking' = TRUE
      /\ IF old
           THEN UNCHANGED <<last, passed, waiting, play>>
           ELSE /\ IF ts > play.ts /\ ts - play.ts > Pause
                     THEN last' = None /\ passed' = passed \cup Overtaken
                     ELSE UNCHANGED <<last, passed>>
                /\ waiting' = IF mine = {}
                     THEN waiting \cup {[f |-> f, first |-> (SeqNo(p) - p[2]) % NumSeq,
                                         filled |-> {p[2]}, late |-> ts = 0]}
                     ELSE {IF w \in mine THEN [w EXCEPT !.filled = @ \cup {p[2]}] ELSE w : w \in waiting}
                /\ play' = IF ts > 0 /\ play.ts = 0
                     THEN [play EXCEPT !.ts = ts - 1, !.wait = (SeqNo(p) - p[2]) % NumSeq]
                     ELSE play
      /\ UNCHANGED <<sender, network, expect, lost2, shown, dropped, kept, arrived, relayed>>

\* Time passes the m_nExpireTime of a frame; only GetWholeFrame looks.
Expire(w) ==
  /\ taking
  /\ w \in waiting /\ ~w.late
  /\ waiting' = (waiting \ {w}) \cup {[w EXCEPT !.late = TRUE]}
  /\ trouble' = [trouble EXCEPT !.late = TRUE]
  /\ UNCHANGED <<sender, net, nak, counting, hand, taking, play, shown, dropped, kept, arrived, relayed>>

\* GetWholeFrame looks at the frame with the lowest timestamp.
First(w)   == w \in waiting /\ \A v \in waiting : frames[w.f].ts <= frames[v.f].ts
Whole(w)   == w.filled = 0 .. frames[w.f].n - 1
Untimed(w) == frames[w.f].ts = 0 /\ Whole(w)
InTurn(w)  == Whole(w) /\ play.wait \in {None, w.first}
After(w)   == [play EXCEPT !.ts = frames[w.f].ts, !.wait = (w.first + frames[w.f].n) % NumSeq]

Take(w) ==
  /\ taking /\ First(w)
  /\ waiting' = waiting \ {w}
  /\ UNCHANGED <<sender, network, counting, hand, taking, kept, arrived, relayed>>

TakeUntimed(w) ==
  /\ Take(w) /\ Untimed(w)
  /\ shown' = Append(shown, w.f)
  /\ UNCHANGED <<play, dropped>>

\* The next frame, whole: a delta frame is kept back while a key is awaited.
TakeInTurn(w) ==
  /\ Take(w) /\ ~Untimed(w) /\ InTurn(w)
  /\ LET key == play.key /\ frames[w.f].kind # "key" IN
       /\ play' = [After(w) EXCEPT !.key = key]
       /\ IF key /\ frames[w.f].kind = "delta"
            THEN dropped' = dropped \cup {w.f} /\ UNCHANGED shown
            ELSE shown' = Append(shown, w.f) /\ UNCHANGED dropped

\* Faulty: a frame given up does not make the client wait for a key.
TakeExpiredOn(w) ==
  /\ Take(w) /\ ~Untimed(w) /\ ~InTurn(w) /\ w.late
  /\ play' = After(w)
  /\ IF Whole(w) THEN shown' = Append(shown, w.f) /\ UNCHANGED dropped
     ELSE dropped' = dropped \cup {w.f} /\ UNCHANGED shown

\* A frame whose time is over: handed over if whole, else given up.
TakeExpired(w) ==
  /\ Take(w) /\ ~Untimed(w) /\ ~InTurn(w) /\ w.late
  /\ IF ~play.key /\ Whole(w)
       THEN /\ play' = After(w)
            /\ shown' = Append(shown, w.f) /\ UNCHANGED dropped
       ELSE /\ play' = [After(w) EXCEPT !.key = frames[w.f].kind \in {"key", "delta"}]
            /\ dropped' = dropped \cup {w.f} /\ UNCHANGED shown

TakeNothing ==
  /\ taking
  /\ \A w \in waiting : First(w) => ~Untimed(w) /\ ~InTurn(w) /\ ~w.late
  /\ taking' = FALSE
  /\ UNCHANGED <<sender, network, counting, hand, waiting, play, shown, dropped, kept, arrived, relayed>>
-----------------------------------------------------------------------------
Send == \E kind \in use.kinds, n \in use.sizes \cup use.messages, step \in use.steps,
           exact \in {FALSE, use.exact} :
          /\ n \in IF kind = "untimed" THEN use.messages ELSE use.sizes
          /\ \E gone \in SUBSET (0 .. n - 1) : SendFrame(kind, n, step, exact, gone)

Reply == \E r \in nak : \E gone \in SUBSET {ring[s] : s \in DOMAIN ring} : Answer(r, gone)

Next ==
  \/ Send
  \/ Reenter
  \/ Reply
  \/ \E r \in nak : LoseRequest(r)
  \/ \E p \in net : Hear(p)
  \/ \E p \in hand : Keep(p)
  \/ \E p \in hand : Collect(p)
  \/ \E w \in waiting : Expire(w)
  \/ \E w \in waiting : TakeUntimed(w)
  \/ \E w \in waiting : TakeInTurn(w)
  \/ \E w \in waiting : TakeExpired(w)
  \/ TakeNothing

Spec == Init /\ [][Next]_vars
-----------------------------------------------------------------------------
Quiet     == net = {} /\ nak = {} /\ hand = {} /\ ~taking

\* A client hands timed frames over in the order of their timestamps, however
\* late, doubled or incomplete their packets come (PushRtpData refuses what
\* is older than the last frame, GetWholeFrame takes the oldest first).
InOrder ==
  \A i, j \in DOMAIN shown :
    i < j /\ frames[shown[j]].ts # 0 => frames[shown[i]].ts <= frames[shown[j]].ts

\* A client hands over only frames all of whose packets have come.
OnlyWhole == \A i \in DOMAIN shown : PacketsOf(shown[i]) \subseteq arrived

\* In a stream of video, a delta frame is never handed over after a frame
\* that was given up, until a key frame came (m_bWaitforNextKeyVideo).
Decodable ==
  \A j \in DOMAIN shown : frames[shown[j]].kind = "delta" =>
    \A f \in dropped : f < shown[j] =>
      \E i \in 1 .. j : frames[shown[i]].kind = "key" /\ shown[i] > f

\* When no packet is lost or too late for its frame, a client hands every
\* frame from the first one over exactly once, though packets overtake
\* each other.
Played ==
  ~use.server /\ use.reenter = {} /\ Quiet /\ trouble.losses = 0 /\ ~trouble.late /\ ~trouble.again =>
    \A f \in DOMAIN frames :
      (\E i \in DOMAIN shown : shown[i] <= f /\ frames[shown[i]].ts # 0) =>
           Cardinality({i \in DOMAIN shown : shown[i] = f}) = 1

\* What the application gets to see.
Playback == InOrder /\ OnlyWhole /\ Decodable /\ Played

\* The receiver asks only for packets that have not come: a request it has
\* put off is dropped when the packet comes (m_nLastExpectSeq, m_pLastExpect1,
\* m_pLastExpect2; theLostSeqInfo2.recv).  A number is that of the newest
\* packet with it.  With NAK type 2 this is said until the numbers come round:
\* a single gap there is expected and noted in theLostSeqInfo2 too, and the
\* packet that meets the expectation leaves its note behind.
Straight  == use.nak = 2 => use.start + Total < NumSeq
Newest(p) == \A q \in Sent : Timed(q) /\ SeqNo(q) = SeqNo(p) => SentUpTo(q) <= SentUpTo(p)
AskedIsMissing ==
  [][use.reenter = {} /\ Straight => \A r \in nak' \ nak : \A p \in arrived' \ passed' :
       Timed(p) /\ Newest(p) => SeqNo(p) \notin Asked(r)]_vars

\* When no request and no answer was lost and all is quiet, a packet that is
\* missing from the middle of the stream and that the sender still has is one
\* the receiver is about to ask for, as it expects it or has noted it, or one
\* it does not ask for (passed): of a gap wider than MaxResend, or of one across
\* the last number what the request cannot name.
Held(p)   == \E s \in DOMAIN ring : ring[s] = p
Behind(p) == \E a \in arrived : Timed(a) /\ SentUpTo(p) < SentUpTo(a)
Repaired ==
  Quiet /\ ~trouble.hurt /\ use.nak > 0 /\ use.reenter = {} =>
    \A p \in Sent \ arrived :
      HasAttach(p) /\ Timed(p) /\ Behind(p) /\ Held(p) =>
        \/ p \in passed \/ SeqNo(p) \in lost2
        \/ \E k \in 1 .. 2 : expect[k].seq = SeqNo(p)

\* The server broadcasts a timed packet at most once, though it comes again
\* from the network and as the answer to a request ("return true : exist
\* seq", UpdateReliableQueue).
RelayedOnce ==
  \A i, j \in DOMAIN relayed : Timed(relayed[i]) /\ relayed[i] = relayed[j] => i = j

\* The server broadcasts every timed packet it handled: no other packet that
\* shares its slot or its number makes it look like a duplicate.
RelayedAll ==
  use.server => \A p \in arrived \ hand : Timed(p) => \E i \in DOMAIN relayed : relayed[i] = p

\* The server broadcasts every timed packet it handles exactly once.
Relayed == RelayedOnce /\ RelayedAll
=============================================================================
